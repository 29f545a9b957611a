-------------------------- MODULE MockBackendProofs --------------------------
(***************************************************************************)
(* Proofs about MockBackend, for any set of clients, URLs and deadlines and *)
(* any number of sessions, checkpoints, navigations, stops and crashes.     *)
(***************************************************************************)
EXTENDS MockBackend, FiniteSetTheorems, SequenceTheorems, TLAPS

-----------------------------------------------------------------------------
(* The inductive invariant.  Its parts speak of a queue s, the objects objs *)
(* and a trail tr, which in the middle of a step need not be the variables. *)

Event == [kind : EventKind, object : Nat, nav : Nat, generation : Nat]

Ordered(s) == \A i, j \in DOMAIN s : i < j => s[i].delay <= s[j].delay
NonNegative(s) == \A i \in DOMAIN s : s[i].delay >= 0
Once(s) ==
  \A i, j \in DOMAIN s : i # j => s[i].step # s[j].step \/ s[i].nav # s[j].nav

\* Every event is of an object, whose generation has only grown since.
OnObjects(objs, tr) ==
  \A i \in DOMAIN tr :
    /\ tr[i].object \in DOMAIN objs
    /\ tr[i].generation <= objs[tr[i].object].generation

\* Events of a navigation name its started event, a commit with an older
\* generation there.
Named(tr) ==
  \A i \in DOMAIN tr :
    /\ tr[i].nav # 0 => tr[i].nav \in 1..i /\ tr[tr[i].nav].kind = "started"
    /\ tr[i].kind = "started" => tr[i].nav = i
    /\ tr[i].kind \in {"stopped", "terminated"} => tr[i].nav = 0
    /\ tr[i].kind \in {"committed", "finished"} => tr[i].nav # 0
    /\ tr[i].kind = "committed" => tr[i].generation > tr[tr[i].nav].generation

NoRepeat(tr) ==
  \A i, j \in DOMAIN tr :
    i # j /\ tr[i].nav = tr[j].nav /\ tr[i].nav # 0 => tr[i].kind # tr[j].kind

FinishFollows(tr) ==
  \A i \in DOMAIN tr : tr[i].kind = "finished" =>
    \E m \in 1..(i - 1) : tr[m].kind = "committed" /\ tr[m].nav = tr[i].nav

StopsStand(tr) ==
  \A i, j \in DOMAIN tr :
    i < j /\ tr[i].kind = "stopped" /\ tr[j].nav # 0 => tr[j].nav > i

EventOf(c) == IF c.step = "commit" THEN "committed" ELSE "finished"

\* A callback belongs to a navigation that has started on its object, after
\* the last stop, and has not reported its event yet.
Belongs(c, objs, tr) ==
  /\ c.nav \in DOMAIN tr /\ c.object \in DOMAIN objs
  /\ tr[c.nav].kind = "started" /\ tr[c.nav].object = c.object
  /\ \A i \in DOMAIN tr :
       /\ tr[i].nav = c.nav => tr[i].kind # EventOf(c)
       /\ tr[i].kind = "stopped" => c.nav > i

CommitsFirst(s, tr) ==
  \A i \in DOMAIN s : s[i].step = "finish" =>
    \/ \E m \in DOMAIN tr : tr[m].kind = "committed" /\ tr[m].nav = s[i].nav
    \/ \E j \in DOMAIN s :
         /\ s[j].step = "commit" /\ s[j].nav = s[i].nav
         /\ s[j].delay < s[i].delay

Trail(objs, tr) ==
  /\ OnObjects(objs, tr) /\ Named(tr) /\ NoRepeat(tr) /\ FinishFollows(tr)
  /\ StopsStand(tr)

Queue(s, objs, tr) ==
  /\ Ordered(s) /\ NonNegative(s) /\ Once(s) /\ CommitsFirst(s, tr)
  /\ \A i \in DOMAIN s : Belongs(s[i], objs, tr)

Driven(s, objs, p) ==
  p = 1 /\ objs[p].load = "loading" =>
    \E i \in DOMAIN s : s[i].object = p /\ s[i].step = "finish"

LeaseInv ==
  /\ writer \in Clients \union {None} /\ epoch \in Nat
  /\ grants \in Seq([client : Clients, epoch : Nat])
  /\ checkpoints \in Seq([page : Page, epoch : Nat, writer : Clients])
  /\ writer # None \/ checkpoints # <<>> => page # 0

PageInv ==
  /\ objects \in Seq(Page) /\ page \in 0..Len(objects) /\ documents \in Nat
  /\ page = 0 <=> objects = <<>>
  /\ scheduled \in Seq(Callback) /\ trail \in Seq(Event)
  /\ prompts \in [Tokens -> {"absent", "pending", "resolved"}]
  /\ Trail(objects, trail) /\ Queue(scheduled, objects, trail)
  /\ Driven(scheduled, objects, page)

\* A target is of an object; one of its present generation shows its document.
TargetInv ==
  /\ target.object \in 0..Len(objects)
  /\ target.object # 0 =>
       /\ target.generation <= objects[target.object].generation
       /\ target.generation = objects[target.object].generation =>
            target.document = objects[target.object].document

CallInv ==
  /\ target \in [generation : Nat, object : Nat, document : Nat]
  /\ waiting \in [conditions : SUBSET Condition, left : Nat]
  /\ TargetInv

Inv == LeaseInv /\ PageInv /\ CallInv

-----------------------------------------------------------------------------
(* Queues.                                                                  *)

LEMMA CallbackTypes ==
  /\ \A c \in Callback :
       /\ c.delay \in Int /\ c.object \in Nat /\ c.nav \in Nat /\ c.url \in Urls
       /\ c.step \in {"commit", "finish"}
  /\ \A c \in Callback, ms \in Int :
       LET later == [c EXCEPT !.delay = @ - ms]
       IN  /\ later \in Callback /\ later.delay = c.delay - ms
           /\ later.step = c.step /\ later.object = c.object
           /\ later.nav = c.nav /\ later.url = c.url
BY DEF Callback


\* Every set of numbers has a least one: the sets of the numbers below each
\* are finite, and finite sets are well-founded under inclusion.
LEMMA Least ==
  ASSUME NEW T \in SUBSET Nat, T # {}
  PROVE  \E x \in T : \A y \in T : x <= y
<1> DEFINE Below(n) == {k \in Nat : k < n}
           Sets == {Below(n) : n \in T}
           R == StrictSubsetOrdering(Nat)
<1>1. \A n \in Nat : IsFiniteSet(Below(n))
  <2> SUFFICES ASSUME NEW n \in Nat PROVE IsFiniteSet(Below(n))
    OBVIOUS
  <2>1. \A s \in Below(n) : s <= n
    OBVIOUS
  <2>2. Below(n) \in SUBSET Nat
    OBVIOUS
  <2> HIDE DEF Below
  <2> QED BY <2>1, <2>2, FS_BoundedSetOfNaturals
<1>2. Sets \subseteq FiniteSubsetsOf(Nat) /\ Sets # {}
  BY <1>1 DEF FiniteSubsetsOf
<1>3. PICK s \in Sets : \A t \in Sets : ~(<<t, s>> \in R)
  <2> HIDE DEF Sets, R
  <2>1. IsWellFoundedOn(R, FiniteSubsetsOf(Nat))
    BY FS_StrictSubsetOrderingWellFounded DEF R
  <2> QED BY <1>2, <2>1, WFMin
<1>4. PICK x \in T : s = Below(x)
  OBVIOUS
<1>5. ASSUME NEW y \in T, y < x PROVE FALSE
  <2>1. Below(y) \subseteq Below(x) /\ y \in Below(x) /\ y \notin Below(y)
    BY <1>5
  <2>2. <<Below(y), Below(x)>> \in R
    BY <2>1 DEF StrictSubsetOrdering
  <2> QED BY <2>2, <1>3, <1>4
<1> QED BY <1>5

\* In an ordered queue there is a place behind all that is not due later.
LEMMA Place ==
  ASSUME NEW s \in Seq(Callback), NEW c \in Callback, Ordered(s)
  PROVE  \E k \in 1..Len(s) + 1 :
           \A i \in 1..Len(s) : i < k <=> s[i].delay <= c.delay
<1> DEFINE Later == {i \in 1..Len(s) : s[i].delay > c.delay}
<1>1. /\ Len(s) \in Nat /\ DOMAIN s = 1..Len(s) /\ c.delay \in Int
      /\ \A i \in 1..Len(s) : s[i].delay \in Int
  BY CallbackTypes
<1>2. CASE Later = {}
  <2>1. \A i \in 1..Len(s) : i < Len(s) + 1 /\ s[i].delay <= c.delay
    BY <1>1, <1>2
  <2>2. Len(s) + 1 \in 1..Len(s) + 1
    BY <1>1
  <2> QED BY <2>1, <2>2
<1>3. CASE Later # {}
  <2>1. Later \subseteq Nat
    BY <1>1
  <2>2. PICK k \in Later : \A i \in Later : k <= i
    <3> HIDE DEF Later
    <3> QED BY <1>3, <2>1, Least
  <2>3. k \in 1..Len(s) + 1
    BY <1>1, <2>2
  <2>4. ASSUME NEW i \in 1..Len(s) PROVE i < k <=> s[i].delay <= c.delay
    <3>1. CASE i < k
      BY <1>1, <2>2, <3>1
    <3>2. CASE ~(i < k)
      <4>1. i = k \/ k < i
        BY <1>1, <2>2, <3>2
      <4>2. s[k].delay <= s[i].delay
        BY <1>1, <2>2, <4>1 DEF Ordered
      <4> QED BY <1>1, <2>2, <3>2, <4>2
    <3> QED BY <3>1, <3>2
  <2> QED BY <2>3, <2>4
<1> QED BY <1>2, <1>3

\* What the insertion puts where.
LEMMA Inserted ==
  ASSUME NEW s \in Seq(Callback), NEW c \in Callback, Ordered(s)
  PROVE  \E k \in 1..Len(s) + 1 :
           /\ \A i \in 1..Len(s) : i < k <=> s[i].delay <= c.delay
           /\ Insert(s, c) = [i \in 1..Len(s) + 1 |->
                IF i < k THEN s[i] ELSE IF i = k THEN c ELSE s[i - 1]]
BY Place DEF Insert

\* An ordered queue stays so, and has got one element more.
LEMMA InsertProperties ==
  ASSUME NEW s \in Seq(Callback), NEW c \in Callback, Ordered(s)
  PROVE  /\ Insert(s, c) \in Seq(Callback) /\ Len(Insert(s, c)) = Len(s) + 1
         /\ Ordered(Insert(s, c))
         /\ \A i \in DOMAIN Insert(s, c) :
              Insert(s, c)[i] = c \/ \E j \in DOMAIN s : Insert(s, c)[i] = s[j]
         /\ \A j \in DOMAIN s : \E i \in DOMAIN Insert(s, c) : Insert(s, c)[i] = s[j]
         /\ \E i \in DOMAIN Insert(s, c) : Insert(s, c)[i] = c
         /\ Once(s) /\ (\A j \in DOMAIN s : s[j].step # c.step \/ s[j].nav # c.nav) =>
              Once(Insert(s, c))
<1> DEFINE t == Insert(s, c)
<1>1. /\ Len(s) \in Nat /\ DOMAIN s = 1..Len(s) /\ c.delay \in Int
      /\ \A i \in 1..Len(s) : s[i] \in Callback /\ s[i].delay \in Int
  BY CallbackTypes
<1>2. PICK k \in 1..Len(s) + 1 :
        /\ \A i \in 1..Len(s) : i < k <=> s[i].delay <= c.delay
        /\ t = [i \in 1..Len(s) + 1 |->
                  IF i < k THEN s[i] ELSE IF i = k THEN c ELSE s[i - 1]]
  BY Inserted
<1> HIDE DEF t
<1>3. \A i \in 1..Len(s) + 1 : t[i] \in Callback
  BY <1>1, <1>2
<1>4. /\ t \in Seq(Callback) /\ Len(t) = Len(s) + 1 /\ DOMAIN t = 1..Len(s) + 1
  <2>1. t = [i \in 1..Len(s) + 1 |-> t[i]]
    BY <1>2
  <2>2. Len(s) + 1 \in Nat
    BY <1>1
  <2> QED BY <1>1, <1>3, <2>1, <2>2
<1>5. Ordered(t)
  <2> SUFFICES ASSUME NEW i \in 1..Len(s) + 1, NEW j \in 1..Len(s) + 1, i < j
               PROVE  t[i].delay <= t[j].delay
    BY <1>4 DEF Ordered
  <2>1. CASE j < k
    <3>1. t[i] = s[i] /\ t[j] = s[j] /\ i \in 1..Len(s) /\ j \in 1..Len(s)
      BY <1>1, <1>2, <2>1
    <3> QED BY <1>1, <3>1 DEF Ordered
  <2>2. CASE j = k
    <3>1. t[i] = s[i] /\ t[j] = c /\ i \in 1..Len(s)
      BY <1>1, <1>2, <2>2
    <3> QED BY <1>1, <1>2, <2>2, <3>1
  <2>3. CASE j > k
    <3>1. t[j] = s[j - 1] /\ j - 1 \in 1..Len(s) /\ ~(j - 1 < k)
      BY <1>1, <1>2, <2>3
    <3>2. s[j - 1].delay > c.delay
      BY <1>1, <1>2, <3>1
    <3>3. CASE i < k
      <4>1. t[i] = s[i] /\ i \in 1..Len(s) /\ i < j - 1
        BY <1>1, <1>2, <2>3, <3>3
      <4> QED BY <1>1, <3>1, <4>1 DEF Ordered
    <3>4. CASE i = k
      BY <1>1, <1>2, <3>1, <3>2, <3>4
    <3>5. CASE i > k
      <4>1. t[i] = s[i - 1] /\ i - 1 \in 1..Len(s) /\ i - 1 < j - 1
        BY <1>1, <1>2, <2>3, <3>5
      <4> QED BY <1>1, <3>1, <4>1 DEF Ordered
    <3> QED BY <1>1, <1>2, <3>3, <3>4, <3>5
  <2> QED BY <1>1, <1>2, <2>1, <2>2, <2>3
<1>6. \A i \in 1..Len(s) + 1 : t[i] = c \/ \E j \in 1..Len(s) : t[i] = s[j]
  <2> SUFFICES ASSUME NEW i \in 1..Len(s) + 1, i # k
               PROVE  \E j \in 1..Len(s) : t[i] = s[j]
    BY <1>2
  <2>1. CASE i < k
    <3>1. i \in 1..Len(s) /\ t[i] = s[i]
      BY <1>1, <1>2, <2>1
    <3> QED BY <3>1
  <2>2. CASE i > k
    <3>1. i - 1 \in 1..Len(s) /\ t[i] = s[i - 1]
      BY <1>1, <1>2, <2>2
    <3> QED BY <3>1
  <2> QED BY <1>1, <1>2, <2>1, <2>2
<1>7. \A j \in 1..Len(s) : \E i \in 1..Len(s) + 1 : t[i] = s[j]
  <2> SUFFICES ASSUME NEW j \in 1..Len(s)
               PROVE  \E i \in 1..Len(s) + 1 : t[i] = s[j]
    OBVIOUS
  <2>1. CASE j < k
    <3>1. j \in 1..Len(s) + 1 /\ t[j] = s[j]
      BY <1>1, <1>2, <2>1
    <3> QED BY <3>1
  <2>2. CASE ~(j < k)
    <3>1. j + 1 \in 1..Len(s) + 1 /\ ~(j + 1 < k) /\ j + 1 # k /\ (j + 1) - 1 = j
      BY <1>1, <1>2, <2>2
    <3>2. t[j + 1] = s[j]
      BY <1>2, <3>1
    <3> QED BY <3>1, <3>2
  <2> QED BY <2>1, <2>2
<1>8. t[k] = c /\ k \in DOMAIN t
  BY <1>1, <1>2, <1>4
<1>9. ASSUME Once(s), \A j \in 1..Len(s) : s[j].step # c.step \/ s[j].nav # c.nav
      PROVE  Once(t)
  <2> SUFFICES ASSUME NEW i \in 1..Len(s) + 1, NEW j \in 1..Len(s) + 1, i # j
               PROVE  t[i].step # t[j].step \/ t[i].nav # t[j].nav
    BY <1>4 DEF Once
  <2>1. \A n \in 1..Len(s) + 1 : n # k =>
          \E m \in 1..Len(s) : t[n] = s[m] /\ m = IF n < k THEN n ELSE n - 1
    <3> SUFFICES ASSUME NEW n \in 1..Len(s) + 1, n # k
                 PROVE  \E m \in 1..Len(s) :
                          t[n] = s[m] /\ m = IF n < k THEN n ELSE n - 1
      OBVIOUS
    <3>1. CASE n < k
      <4>1. n \in 1..Len(s) /\ t[n] = s[n]
        BY <1>1, <1>2, <3>1
      <4> QED BY <3>1, <4>1
    <3>2. CASE ~(n < k)
      <4>1. n - 1 \in 1..Len(s) /\ t[n] = s[n - 1]
        BY <1>1, <1>2, <3>2
      <4> QED BY <3>2, <4>1
    <3> QED BY <3>1, <3>2
  <2>2. CASE i = k
    BY <1>8, <1>9, <2>1, <2>2
  <2>3. CASE j = k
    BY <1>8, <1>9, <2>1, <2>3
  <2>4. CASE i # k /\ j # k
    <3>1. PICK m \in 1..Len(s) : t[i] = s[m] /\ m = IF i < k THEN i ELSE i - 1
      BY <2>1, <2>4
    <3>2. PICK n \in 1..Len(s) : t[j] = s[n] /\ n = IF j < k THEN j ELSE j - 1
      BY <2>1, <2>4
    <3>3. m # n
      BY <1>1, <2>4, <3>1, <3>2
    <3> QED BY <1>1, <1>9, <3>1, <3>2, <3>3 DEF Once
  <2> QED BY <2>2, <2>3, <2>4
<1>10. DOMAIN t = 1..Len(s) + 1
  BY <1>4
<1> QED BY <1>1, <1>4, <1>5, <1>6, <1>7, <1>8, <1>9, <1>10 DEF t

\* The clock runs on for all of a queue alike.
LEMMA Advanced ==
  ASSUME NEW s \in Seq(Callback), NEW ms \in Int
  PROVE  /\ Advance(s, ms) \in Seq(Callback)
         /\ DOMAIN Advance(s, ms) = DOMAIN s
         /\ \A i \in DOMAIN s :
              /\ Advance(s, ms)[i].delay = s[i].delay - ms
              /\ Advance(s, ms)[i].step = s[i].step
              /\ Advance(s, ms)[i].object = s[i].object
              /\ Advance(s, ms)[i].nav = s[i].nav
              /\ Advance(s, ms)[i].url = s[i].url
<1>1. Len(s) \in Nat /\ DOMAIN s = 1..Len(s) /\ \A i \in 1..Len(s) : s[i] \in Callback
  OBVIOUS
<1> DEFINE later(i) == [s[i] EXCEPT !.delay = @ - ms]
<1>2. \A i \in 1..Len(s) :
        /\ later(i) \in Callback /\ later(i).delay = s[i].delay - ms
        /\ later(i).step = s[i].step /\ later(i).object = s[i].object
        /\ later(i).nav = s[i].nav /\ later(i).url = s[i].url
  BY <1>1, CallbackTypes
<1>3. Advance(s, ms) = [i \in 1..Len(s) |-> later(i)]
  BY DEF Advance
<1> HIDE DEF later
<1> QED BY <1>1, <1>2, <1>3

-----------------------------------------------------------------------------
(* Page objects.                                                            *)

LEMMA PageTypes ==
  /\ NewPage \in Page /\ NewPage.load = "idle" /\ NewPage.generation = 1
  /\ \A p \in Page : p.generation \in Nat /\ p.document \in Nat
  /\ \A p \in Page : [p EXCEPT !.load = "idle", !.outcome = "success"] \in Page
<1>1. NewPage \in Page /\ NewPage.load = "idle" /\ NewPage.generation = 1
  BY DEF Page, NewPage
<1>2. \A p \in Page : p.generation \in Nat /\ p.document \in Nat
  BY DEF Page
<1>3. \A p \in Page : [p EXCEPT !.load = "idle", !.outcome = "success"] \in Page
  BY DEF Page
<1> QED BY <1>1, <1>2, <1>3

\* A page whose next document is d, at u.
NextDocument(p, u, d) == [p EXCEPT !.generation = @ + 1, !.url = u, !.document = d]

LEMMA NextDocumentTypes ==
  ASSUME NEW p \in Page, NEW u \in Urls, NEW d \in Nat
  PROVE  /\ NextDocument(p, u, d) \in Page
         /\ NextDocument(p, u, d).generation = p.generation + 1
         /\ NextDocument(p, u, d).load = p.load
<1> DEFINE q1 == [p EXCEPT !.generation = @ + 1]
           q2 == [q1 EXCEPT !.url = u]
           q3 == [q2 EXCEPT !.document = d]
<1>1. q1 \in Page /\ q1.generation = p.generation + 1 /\ q1.load = p.load
  BY DEF Page
<1>2. q2 \in Page /\ q2.generation = q1.generation /\ q2.load = q1.load
  <2> HIDE DEF q1
  <2> QED BY <1>1 DEF Page
<1>3. /\ q3 \in Page /\ q3.generation = q2.generation /\ q3.load = q2.load
  <2> HIDE DEF q2
  <2> QED BY <1>2 DEF Page
<1>4. q3 = NextDocument(p, u, d)
  BY DEF NextDocument
<1> HIDE DEF q1, q2, q3
<1> QED BY <1>1, <1>2, <1>3, <1>4

\* A page that starts to load, that is stopped, that crashes.
Loading(p) == [p EXCEPT !.load = "loading"]
Stopped(p) == [p EXCEPT !.load = "idle", !.outcome = "stopped"]
Crashed(p) == [p EXCEPT !.lifecycle = "terminated", !.load = "idle"]

LEMMA UpdateTypes ==
  ASSUME NEW p \in Page
  PROVE  /\ \A q \in {Loading(p), Stopped(p), Crashed(p)} :
              /\ q \in Page /\ q.generation = p.generation /\ q.document = p.document
         /\ Stopped(p).load = "idle" /\ Crashed(p).load = "idle"
<1>1. /\ Loading(p) \in Page /\ Loading(p).generation = p.generation
      /\ Loading(p).document = p.document
  BY DEF Loading, Page
<1>2. /\ Stopped(p) \in Page /\ Stopped(p).generation = p.generation
      /\ Stopped(p).document = p.document /\ Stopped(p).load = "idle"
  BY DEF Stopped, Page
<1>3. /\ Crashed(p) \in Page /\ Crashed(p).generation = p.generation
      /\ Crashed(p).document = p.document /\ Crashed(p).load = "idle"
  BY DEF Crashed, Page
<1> QED BY <1>1, <1>2, <1>3

\* A page restored from a checkpoint shows document d, in load state l.
Restored(p, d, l) ==
  [p EXCEPT !.generation = @ + 1, !.document = d, !.lifecycle = "open", !.load = l]

LEMMA RestoredTypes ==
  ASSUME NEW p \in Page, NEW d \in Nat, NEW l \in {"idle", "loading"}
  PROVE  Restored(p, d, l) \in Page
<1> DEFINE q1 == [p EXCEPT !.generation = @ + 1]
           q2 == [q1 EXCEPT !.document = d]
           q3 == [q2 EXCEPT !.lifecycle = "open"]
           q4 == [q3 EXCEPT !.load = l]
<1>1. q1 \in Page
  BY DEF Page
<1>2. q2 \in Page
  <2> HIDE DEF q1
  <2> QED BY <1>1 DEF Page
<1>3. q3 \in Page
  <2> HIDE DEF q2
  <2> QED BY <1>2 DEF Page
<1>4. q4 \in Page
  <2> HIDE DEF q3
  <2> QED BY <1>3 DEF Page
<1>5. q4 = Restored(p, d, l)
  BY DEF Restored
<1> QED BY <1>4, <1>5

\* Objects keep their number, and a generation its document.
Keeps(objs, later) ==
  /\ later \in Seq(Page) /\ Len(later) >= Len(objs)
  /\ \A o \in DOMAIN objs :
       /\ later[o].generation >= objs[o].generation
       /\ later[o].generation = objs[o].generation =>
            later[o].document = objs[o].document

\* One object has changed.
LEMMA ObjectSet ==
  ASSUME NEW objs \in Seq(Page), NEW o \in DOMAIN objs, NEW p \in Page,
         p.generation >= objs[o].generation,
         p.generation = objs[o].generation => p.document = objs[o].document
  PROVE  /\ Keeps(objs, [objs EXCEPT ![o] = p])
         /\ DOMAIN [objs EXCEPT ![o] = p] = DOMAIN objs
         /\ Len([objs EXCEPT ![o] = p]) = Len(objs)
<1>1. /\ Len(objs) \in Nat /\ DOMAIN objs = 1..Len(objs)
      /\ \A i \in 1..Len(objs) : objs[i] \in Page
  OBVIOUS
<1>2. /\ [objs EXCEPT ![o] = p] \in Seq(Page)
      /\ Len([objs EXCEPT ![o] = p]) = Len(objs)
  BY <1>1
<1>3. \A i \in 1..Len(objs) : objs[i].generation \in Nat
  BY <1>1, PageTypes
<1> QED BY <1>1, <1>2, <1>3 DEF Keeps

LEMMA CommittedObject ==
  ASSUME NEW objs \in Seq(Page), NEW c \in Callback, c.object \in DOMAIN objs,
         documents \in Nat
  PROVE  /\ Keeps(objs, Committed(c, objs))
         /\ DOMAIN Committed(c, objs) = DOMAIN objs
         /\ Len(Committed(c, objs)) = Len(objs)
         /\ \A o \in DOMAIN objs : Committed(c, objs)[o].load = objs[o].load
         /\ Committed(c, objs)[c.object].generation = objs[c.object].generation + 1
<1> DEFINE p == NextDocument(objs[c.object], c.url, documents + 1)
<1>1. objs[c.object] \in Page /\ c.url \in Urls /\ documents + 1 \in Nat
  BY CallbackTypes
<1>2. Committed(c, objs) = [objs EXCEPT ![c.object] = p]
  BY DEF Committed, NextDocument
<1>3. /\ p \in Page /\ p.generation = objs[c.object].generation + 1
      /\ p.load = objs[c.object].load
  BY <1>1, NextDocumentTypes
<1>4. objs[c.object].generation \in Nat
  BY <1>1, PageTypes
<1> HIDE DEF p
<1>5. /\ Keeps(objs, [objs EXCEPT ![c.object] = p])
      /\ DOMAIN [objs EXCEPT ![c.object] = p] = DOMAIN objs
      /\ Len([objs EXCEPT ![c.object] = p]) = Len(objs)
  BY <1>3, <1>4, ObjectSet
<1> QED BY <1>2, <1>3, <1>5

LEMMA FinishedObject ==
  ASSUME NEW objs \in Seq(Page), NEW c \in Callback, c.object \in DOMAIN objs
  PROVE  /\ Keeps(objs, Finished(c, objs))
         /\ DOMAIN Finished(c, objs) = DOMAIN objs
         /\ Len(Finished(c, objs)) = Len(objs)
         /\ \A o \in DOMAIN objs :
              Finished(c, objs)[o].load =
                IF o = c.object THEN "idle" ELSE objs[o].load
<1> DEFINE p == [objs[c.object] EXCEPT !.load = "idle", !.outcome = "success"]
<1>1. objs[c.object] \in Page
  OBVIOUS
<1>2. Finished(c, objs) = [objs EXCEPT ![c.object] = p]
  BY DEF Finished
<1>3. p \in Page
  BY <1>1, PageTypes
<1>4. /\ p.generation = objs[c.object].generation
      /\ p.document = objs[c.object].document /\ p.load = "idle"
      /\ p.generation \in Nat
  <2>1. objs[c.object].generation \in Nat
    BY <1>1, PageTypes
  <2> QED BY <1>1, <2>1 DEF Page
<1> HIDE DEF p
<1>5. /\ Keeps(objs, [objs EXCEPT ![c.object] = p])
      /\ DOMAIN [objs EXCEPT ![c.object] = p] = DOMAIN objs
      /\ Len([objs EXCEPT ![c.object] = p]) = Len(objs)
  BY <1>3, <1>4, ObjectSet
<1> QED BY <1>2, <1>4, <1>5

-----------------------------------------------------------------------------
(* Trails.                                                                  *)

LEMMA EventTypes ==
  \A e \in Event : /\ e.kind \in EventKind /\ e.object \in Nat /\ e.nav \in Nat
                   /\ e.generation \in Nat
BY DEF Event

\* What lets an event continue a trail.
Fits(e, objs, tr) ==
  /\ e \in Event
  /\ e.object \in DOMAIN objs /\ e.generation <= objs[e.object].generation
  /\ e.kind = "started" => e.nav = Len(tr) + 1
  /\ e.kind \in {"stopped", "terminated"} => e.nav = 0
  /\ e.kind \in {"committed", "finished"} =>
       /\ e.nav \in DOMAIN tr /\ tr[e.nav].kind = "started"
       /\ \A i \in DOMAIN tr :
            /\ tr[i].nav = e.nav => tr[i].kind # e.kind
            /\ tr[i].kind = "stopped" => e.nav > i
  /\ e.kind = "committed" => e.generation > tr[e.nav].generation
  /\ e.kind = "finished" =>
       \E m \in DOMAIN tr : tr[m].kind = "committed" /\ tr[m].nav = e.nav

LEMMA TrailAppend ==
  ASSUME NEW objs, NEW tr \in Seq(Event), NEW e, Trail(objs, tr), Fits(e, objs, tr)
  PROVE  Trail(objs, Append(tr, e)) /\ Append(tr, e) \in Seq(Event)
<1> DEFINE n == Len(tr)
           t == Append(tr, e)
<1>1. /\ n \in Nat /\ DOMAIN tr = 1..n /\ e \in Event
      /\ t \in Seq(Event) /\ Len(t) = n + 1 /\ DOMAIN t = 1..n + 1
      /\ \A i \in 1..n : t[i] = tr[i]
      /\ t[n + 1] = e
  BY DEF Fits
<1>2. /\ e.nav \in Nat /\ e.kind \in EventKind /\ \A i \in 1..n : tr[i].nav \in Nat
      /\ \A i \in 1..n : tr[i].kind \in EventKind
  <2>1. \A i \in 1..n : tr[i] \in Event
    OBVIOUS
  <2> QED BY <1>1, <2>1, EventTypes
<1> HIDE DEF n, t
<1>3. OnObjects(objs, t)
  BY <1>1 DEF Trail, OnObjects, Fits
<1>4. e.nav # 0 => e.nav \in 1..n + 1 /\ t[e.nav].kind = "started"
  BY <1>1, <1>2 DEF Fits, EventKind, n
<1>5. Named(t)
  <2>1. ASSUME NEW i \in 1..n
        PROVE  /\ t[i].nav # 0 => t[i].nav \in 1..i /\ t[t[i].nav].kind = "started"
               /\ t[i].kind = "started" => t[i].nav = i
               /\ t[i].kind \in {"stopped", "terminated"} => t[i].nav = 0
               /\ t[i].kind \in {"committed", "finished"} => t[i].nav # 0
               /\ t[i].kind = "committed" => t[i].generation > t[t[i].nav].generation
    <3>1. t[i] = tr[i] /\ i \in DOMAIN tr
      BY <1>1
    <3>2. t[i].nav # 0 => t[i].nav \in 1..i /\ t[t[i].nav] = tr[tr[i].nav]
      BY <1>1, <1>2, <3>1 DEF Trail, Named
    <3> QED BY <3>1, <3>2 DEF Trail, Named
  <2>2. /\ e.kind = "started" => e.nav = n + 1
        /\ e.kind \in {"stopped", "terminated"} => e.nav = 0
        /\ e.kind \in {"committed", "finished"} => e.nav # 0
        /\ e.kind = "committed" => e.generation > t[e.nav].generation
    BY <1>1, <1>2 DEF Fits, n
  <2> QED BY <1>1, <1>4, <2>1, <2>2 DEF Named
<1>6. \A i \in 1..n : tr[i].nav \in 0..n
  BY <1>1, <1>2 DEF Trail, Named
<1>7. \A i \in 1..n : tr[i].nav = e.nav /\ e.nav # 0 => tr[i].kind # e.kind
  BY <1>1, <1>2, <1>6 DEF Fits, EventKind, n
<1>8. NoRepeat(t)
  BY <1>1, <1>7 DEF Trail, NoRepeat
<1>9. FinishFollows(t)
  <2> SUFFICES ASSUME NEW i \in 1..n + 1, t[i].kind = "finished"
               PROVE  \E m \in 1..(i - 1) :
                        t[m].kind = "committed" /\ t[m].nav = t[i].nav
    BY <1>1 DEF FinishFollows
  <2>1. CASE i \in 1..n
    <3>1. PICK m \in 1..(i - 1) : tr[m].kind = "committed" /\ tr[m].nav = tr[i].nav
      BY <1>1, <2>1 DEF Trail, FinishFollows
    <3> QED BY <1>1, <2>1, <3>1
  <2>2. CASE i = n + 1
    <3>1. PICK m \in 1..n : tr[m].kind = "committed" /\ tr[m].nav = e.nav
      BY <1>1, <2>2 DEF Fits
    <3> QED BY <1>1, <2>2, <3>1
  <2> QED BY <1>1, <2>1, <2>2
<1>10. StopsStand(t)
  <2>1. \A i \in 1..n : tr[i].kind = "stopped" /\ e.nav # 0 => e.nav > i
    BY <1>1, <1>2 DEF Fits, EventKind, n
  <2> QED BY <1>1, <2>1 DEF Trail, StopsStand
<1> QED BY <1>1, <1>3, <1>5, <1>8, <1>9, <1>10 DEF Trail, t

LEMMA BelongsAppend ==
  ASSUME NEW objs, NEW tr \in Seq(Event), NEW e \in Event, NEW c \in Callback,
         Belongs(c, objs, tr), e.nav = c.nav => e.kind # EventOf(c),
         e.kind # "stopped"
  PROVE  Belongs(c, objs, Append(tr, e))
<1>1. /\ Len(tr) \in Nat /\ DOMAIN tr = 1..Len(tr)
      /\ DOMAIN Append(tr, e) = 1..Len(tr) + 1
      /\ \A i \in 1..Len(tr) : Append(tr, e)[i] = tr[i]
      /\ Append(tr, e)[Len(tr) + 1] = e
  OBVIOUS
<1> QED BY <1>1 DEF Belongs

\* Objects may grow under a trail and a queue.
LEMMA ObjectsGrow ==
  ASSUME NEW objs \in Seq(Page), NEW later, NEW tr \in Seq(Event),
         Keeps(objs, later)
  PROVE  /\ Trail(objs, tr) => Trail(later, tr)
         /\ \A c \in Callback : Belongs(c, objs, tr) => Belongs(c, later, tr)
         /\ \A s \in Seq(Callback) : Queue(s, objs, tr) => Queue(s, later, tr)
<1>1. /\ Len(objs) \in Nat /\ Len(later) \in Nat /\ Len(later) >= Len(objs)
      /\ DOMAIN objs = 1..Len(objs) /\ DOMAIN later = 1..Len(later)
      /\ \A i \in 1..Len(later) : later[i] \in Page
      /\ \A i \in 1..Len(objs) : objs[i] \in Page
      /\ Len(tr) \in Nat /\ DOMAIN tr = 1..Len(tr) /\ \A i \in 1..Len(tr) : tr[i] \in Event
  BY DEF Keeps
<1>2. DOMAIN objs \subseteq DOMAIN later
  BY <1>1
<1>3. /\ \A o \in DOMAIN objs : /\ objs[o].generation \in Nat
                                /\ later[o].generation \in Nat
                                /\ later[o].generation >= objs[o].generation
      /\ \A i \in DOMAIN tr : tr[i].generation \in Nat
  BY <1>1, <1>2, PageTypes, EventTypes DEF Keeps
<1>4. ASSUME OnObjects(objs, tr) PROVE OnObjects(later, tr)
  <2> SUFFICES ASSUME NEW i \in DOMAIN tr
               PROVE  /\ tr[i].object \in DOMAIN later
                      /\ tr[i].generation <= later[tr[i].object].generation
    BY DEF OnObjects
  <2>1. /\ tr[i].object \in DOMAIN objs
        /\ tr[i].generation <= objs[tr[i].object].generation
    BY <1>4 DEF OnObjects
  <2>2. /\ objs[tr[i].object].generation \in Nat
        /\ later[tr[i].object].generation \in Nat
        /\ later[tr[i].object].generation >= objs[tr[i].object].generation
    BY <1>3, <2>1
  <2> QED BY <1>2, <1>3, <2>1, <2>2
<1>5. \A c \in Callback : Belongs(c, objs, tr) => Belongs(c, later, tr)
  BY <1>2 DEF Belongs
<1>6. ASSUME NEW s \in Seq(Callback), Queue(s, objs, tr) PROVE Queue(s, later, tr)
  <2>1. \A i \in DOMAIN s : s[i] \in Callback
    OBVIOUS
  <2> QED BY <1>5, <1>6, <2>1 DEF Queue
<1> QED BY <1>4, <1>5, <1>6 DEF Trail

-----------------------------------------------------------------------------
(* The first callback of a queue runs.                                      *)

\* What is left of the queue.
LEMMA QueueTail ==
  ASSUME NEW s \in Seq(Callback), NEW objs, NEW tr, s # <<>>, Queue(s, objs, tr)
  PROVE  LET c == s[1]
             rest == Advance(Tail(s), c.delay)
         IN  /\ Head(s) = c /\ c \in Callback /\ c.delay >= 0
             /\ rest \in Seq(Callback) /\ Len(s) \in Nat \ {0}
             /\ DOMAIN s = 1..Len(s) /\ DOMAIN rest = 1..(Len(s) - 1)
             /\ Ordered(rest) /\ NonNegative(rest) /\ Once(rest)
             /\ \A i \in DOMAIN rest :
                  /\ i + 1 \in DOMAIN s /\ s[i + 1] \in Callback
                  /\ rest[i].delay = s[i + 1].delay - c.delay
                  /\ rest[i].step = s[i + 1].step /\ rest[i].nav = s[i + 1].nav
                  /\ rest[i].object = s[i + 1].object
                  /\ EventOf(rest[i]) = EventOf(s[i + 1])
                  /\ rest[i].nav = c.nav => rest[i].step # c.step
<1> DEFINE c == s[1]
           rest == Advance(Tail(s), c.delay)
<1>1. /\ Len(s) \in Nat \ {0} /\ DOMAIN s = 1..Len(s) /\ Head(s) = c
      /\ Tail(s) \in Seq(Callback) /\ DOMAIN Tail(s) = 1..(Len(s) - 1)
      /\ \A i \in 1..(Len(s) - 1) : Tail(s)[i] = s[i + 1]
      /\ \A i \in 1..Len(s) : s[i] \in Callback
  OBVIOUS
<1>2. c \in Callback /\ c.delay \in Int /\ \A i \in 1..Len(s) : s[i].delay \in Int
  BY <1>1, CallbackTypes
<1>3. c.delay >= 0 /\ \A i \in 1..Len(s) : c.delay <= s[i].delay
  <2>1. 1 \in DOMAIN s
    BY <1>1
  <2> QED BY <1>1, <1>2, <2>1 DEF Queue, Ordered, NonNegative
<1>4. /\ rest \in Seq(Callback) /\ DOMAIN rest = 1..(Len(s) - 1)
      /\ \A i \in 1..(Len(s) - 1) :
           /\ rest[i].delay = Tail(s)[i].delay - c.delay
           /\ rest[i].step = Tail(s)[i].step /\ rest[i].nav = Tail(s)[i].nav
           /\ rest[i].object = Tail(s)[i].object
  <2> HIDE DEF c
  <2>1. PICK q \in Seq(Callback), ms \in Int : q = Tail(s) /\ ms = c.delay
    BY <1>1, <1>2
  <2>2. rest = Advance(q, ms)
    BY <2>1
  <2>3. /\ Advance(q, ms) \in Seq(Callback) /\ DOMAIN Advance(q, ms) = DOMAIN q
        /\ \A i \in DOMAIN q :
             /\ Advance(q, ms)[i].delay = q[i].delay - ms
             /\ Advance(q, ms)[i].step = q[i].step
             /\ Advance(q, ms)[i].object = q[i].object
             /\ Advance(q, ms)[i].nav = q[i].nav
    BY Advanced
  <2> HIDE DEF rest
  <2> QED BY <1>1, <2>1, <2>2, <2>3
<1> HIDE DEF rest, c
<1>5. ASSUME NEW i \in 1..(Len(s) - 1)
      PROVE  /\ i + 1 \in DOMAIN s /\ s[i + 1] \in Callback
             /\ rest[i].delay = s[i + 1].delay - c.delay
             /\ rest[i].step = s[i + 1].step /\ rest[i].nav = s[i + 1].nav
             /\ rest[i].object = s[i + 1].object
             /\ s[i + 1].delay \in Int
             /\ rest[i].delay \in Int
  <2>1. i + 1 \in 1..Len(s)
    BY <1>1
  <2> QED BY <1>1, <1>2, <1>4, <2>1
<1>6. \A i \in 1..(Len(s) - 1) : rest[i].nav = c.nav => rest[i].step # c.step
  <2> SUFFICES ASSUME NEW i \in 1..(Len(s) - 1), rest[i].nav = c.nav
               PROVE  rest[i].step # c.step
    OBVIOUS
  <2>1. 1 \in DOMAIN s /\ i + 1 # 1
    BY <1>1
  <2> QED BY <1>5, <2>1 DEF Queue, Once, c
<1>7. Ordered(rest)
  <2> SUFFICES ASSUME NEW i \in 1..(Len(s) - 1), NEW j \in 1..(Len(s) - 1), i < j
               PROVE  rest[i].delay <= rest[j].delay
    BY <1>4 DEF Ordered
  <2>1. i + 1 < j + 1
    BY <1>1
  <2>2. s[i + 1].delay <= s[j + 1].delay
    BY <1>5, <2>1 DEF Queue, Ordered
  <2> QED BY <1>2, <1>5, <2>2
<1>8. NonNegative(rest)
  <2> SUFFICES ASSUME NEW i \in 1..(Len(s) - 1) PROVE rest[i].delay >= 0
    BY <1>4 DEF NonNegative
  <2>1. c.delay <= s[i + 1].delay
    BY <1>1, <1>3, <1>5
  <2> QED BY <1>2, <1>5, <2>1
<1>9. Once(rest)
  <2> SUFFICES ASSUME NEW i \in 1..(Len(s) - 1), NEW j \in 1..(Len(s) - 1), i # j
               PROVE  rest[i].step # rest[j].step \/ rest[i].nav # rest[j].nav
    BY <1>4 DEF Once
  <2>1. i + 1 # j + 1
    BY <1>1
  <2> QED BY <1>5, <2>1 DEF Queue, Once
<1> QED
  BY <1>1, <1>2, <1>3, <1>4, <1>5, <1>6, <1>7, <1>8, <1>9 DEF EventOf, c, rest

\* A callback reports what its navigation has not said yet, and the rest of the
\* queue is none the worse for it.
LEMMA RunNextPreserves ==
  ASSUME NEW s \in Seq(Callback), NEW objs \in Seq(Page), NEW tr \in Seq(Event),
         s # <<>>, documents \in Nat,
         prompts \in [Tokens -> {"absent", "pending", "resolved"}],
         Trail(objs, tr), Queue(s, objs, tr), RunNext(s, objs, tr)
  PROVE  /\ scheduled' \in Seq(Callback) /\ trail' \in Seq(Event)
         /\ documents' \in Nat
         /\ prompts' \in [Tokens -> {"absent", "pending", "resolved"}]
         /\ Keeps(objs, objects') /\ Len(objects') = Len(objs)
         /\ Trail(objects', trail') /\ Queue(scheduled', objects', trail')
         /\ \A p \in DOMAIN objs : Driven(s, objs, p) => Driven(scheduled', objects', p)
<1> DEFINE c == s[1]
           rest == Advance(Tail(s), c.delay)
           commits == c.step = "commit"
           after == IF commits THEN Committed(c, objs) ELSE Finished(c, objs)
           e == [kind |-> IF commits THEN "committed" ELSE "finished",
                 object |-> c.object, nav |-> c.nav,
                 generation |-> after[c.object].generation]
           t == Append(tr, e)
<1>1. /\ Head(s) = c /\ c \in Callback /\ c.delay >= 0
      /\ rest \in Seq(Callback) /\ Len(s) \in Nat \ {0}
      /\ DOMAIN s = 1..Len(s) /\ DOMAIN rest = 1..(Len(s) - 1)
      /\ Ordered(rest) /\ NonNegative(rest) /\ Once(rest)
      /\ \A i \in DOMAIN rest :
           /\ i + 1 \in DOMAIN s /\ s[i + 1] \in Callback
           /\ rest[i].delay = s[i + 1].delay - c.delay
           /\ rest[i].step = s[i + 1].step /\ rest[i].nav = s[i + 1].nav
           /\ rest[i].object = s[i + 1].object
           /\ EventOf(rest[i]) = EventOf(s[i + 1])
           /\ rest[i].nav = c.nav => rest[i].step # c.step
  BY QueueTail
<1>2. /\ c.delay \in Int /\ c.object \in Nat /\ c.nav \in Nat
      /\ c.step \in {"commit", "finish"}
  BY <1>1, CallbackTypes
<1>3. /\ scheduled' = rest /\ objects' = after /\ trail' = t
      /\ documents' \in Nat
      /\ prompts' \in [Tokens -> {"absent", "pending", "resolved"}]
  <2>1. (IF c.delay > 0 THEN c.delay ELSE 0) = c.delay
    BY <1>1, <1>2
  <2>2. /\ documents' = IF commits THEN documents + 1 ELSE documents
        /\ \/ prompts' = prompts
           \/ prompts' = [k \in Tokens |-> "pending"]
    BY <1>1 DEF RunNext
  <2> QED BY <1>1, <2>1, <2>2 DEF RunNext
<1>4. /\ c.nav \in DOMAIN tr /\ c.object \in DOMAIN objs
      /\ tr[c.nav].kind = "started" /\ tr[c.nav].object = c.object
      /\ \A i \in DOMAIN tr :
           /\ tr[i].nav = c.nav => tr[i].kind # EventOf(c)
           /\ tr[i].kind = "stopped" => c.nav > i
  <2>1. 1 \in DOMAIN s
    BY <1>1
  <2> QED BY <2>1 DEF Queue, Belongs
<1>5. /\ Keeps(objs, after) /\ DOMAIN after = DOMAIN objs /\ Len(after) = Len(objs)
      /\ commits => after[c.object].generation = objs[c.object].generation + 1
      /\ \A o \in DOMAIN objs :
           after[o].load = IF ~commits /\ o = c.object THEN "idle" ELSE objs[o].load
  <2> HIDE DEF c
  <2> QED BY <1>1, <1>4, CommittedObject, FinishedObject
<1>6. objs[c.object].generation \in Nat /\ after[c.object].generation \in Nat
  <2>1. objs[c.object] \in Page /\ after[c.object] \in Page
    BY <1>4, <1>5 DEF Keeps
  <2> QED BY <2>1, PageTypes
<1>7. Fits(e, after, tr)
  <2>1. e \in Event
    BY <1>2, <1>6 DEF Event, EventKind
  <2>2. ASSUME commits PROVE e.generation > tr[e.nav].generation
    <3>1. tr[c.nav].generation <= objs[c.object].generation
      BY <1>4 DEF Trail, OnObjects
    <3>2. tr[c.nav].generation \in Nat
      <4>1. tr[c.nav] \in Event
        BY <1>4
      <4> QED BY <4>1, EventTypes
    <3> QED BY <1>5, <1>6, <2>2, <3>1, <3>2
  <2>3. ASSUME ~commits
        PROVE  \E m \in DOMAIN tr : tr[m].kind = "committed" /\ tr[m].nav = e.nav
    <3>1. 1 \in DOMAIN s /\ c.step = "finish"
      BY <1>1, <1>2, <2>3
    <3>2. CASE \E j \in DOMAIN s : s[j].delay < c.delay
      <4>1. PICK j \in DOMAIN s : s[j].delay < c.delay
        BY <3>2
      <4>2. s[j].delay \in Int
        BY <4>1, CallbackTypes
      <4>3. j = 1 \/ 1 < j
        BY <1>1
      <4> QED BY <1>2, <3>1, <4>1, <4>2, <4>3 DEF Queue, Ordered
    <3> QED BY <3>1, <3>2 DEF Queue, CommitsFirst
  <2>4. /\ e.kind = EventOf(c) /\ e.nav = c.nav /\ e.object = c.object
        /\ e.generation = after[c.object].generation
        /\ e.kind = IF commits THEN "committed" ELSE "finished"
    BY DEF EventOf
  <2> HIDE DEF e, after
  <2> QED BY <1>2, <1>4, <1>5, <1>6, <2>1, <2>2, <2>3, <2>4 DEF Fits
<1>8. Trail(after, tr) /\ \A d \in Callback : Belongs(d, objs, tr) => Belongs(d, after, tr)
  <2> HIDE DEF after
  <2> QED BY <1>5, ObjectsGrow
<1>9. Trail(after, t) /\ t \in Seq(Event)
  <2> HIDE DEF after, e
  <2> QED BY <1>7, <1>8, TrailAppend
<1>10. e.kind = EventOf(c) /\ e.nav = c.nav /\ e.kind # "stopped" /\ e \in Event
  BY <1>7 DEF EventOf, Fits
<1>11. ASSUME NEW i \in DOMAIN rest PROVE Belongs(rest[i], after, t)
  <2>1. rest[i] \in Callback /\ s[i + 1] \in Callback
    BY <1>1
  <2>2. Belongs(s[i + 1], after, tr)
    BY <1>1, <1>8 DEF Queue
  <2>3. Belongs(rest[i], after, tr)
    BY <1>1, <2>2 DEF Belongs
  <2>4. e.nav = rest[i].nav => e.kind # EventOf(rest[i])
    BY <1>1, <1>2, <1>10, <2>1, CallbackTypes DEF EventOf
  <2> HIDE DEF after, e, rest
  <2> QED BY <1>10, <2>1, <2>3, <2>4, BelongsAppend
<1>12. /\ Len(tr) \in Nat /\ DOMAIN tr = 1..Len(tr) /\ DOMAIN t = 1..Len(tr) + 1
       /\ \A i \in 1..Len(tr) : t[i] = tr[i]
       /\ t[Len(tr) + 1] = e
  <2> HIDE DEF e
  <2> QED BY <1>10
<1>13. CommitsFirst(rest, t)
  <2> SUFFICES ASSUME NEW i \in DOMAIN rest, rest[i].step = "finish"
               PROVE  \/ \E m \in DOMAIN t :
                           t[m].kind = "committed" /\ t[m].nav = rest[i].nav
                      \/ \E j \in DOMAIN rest :
                           /\ rest[j].step = "commit" /\ rest[j].nav = rest[i].nav
                           /\ rest[j].delay < rest[i].delay
    BY DEF CommitsFirst
  <2>1. i + 1 \in DOMAIN s /\ s[i + 1].step = "finish" /\ s[i + 1].nav = rest[i].nav
    BY <1>1
  <2>2. CASE \E m \in DOMAIN tr : tr[m].kind = "committed" /\ tr[m].nav = s[i + 1].nav
    <3>1. PICK m \in DOMAIN tr : tr[m].kind = "committed" /\ tr[m].nav = s[i + 1].nav
      BY <2>2
    <3>2. m \in DOMAIN t /\ t[m] = tr[m]
      BY <1>12
    <3> QED BY <2>1, <3>1, <3>2
  <2>3. CASE \E j \in DOMAIN s : /\ s[j].step = "commit" /\ s[j].nav = s[i + 1].nav
                                 /\ s[j].delay < s[i + 1].delay
    <3>1. PICK j \in DOMAIN s : /\ s[j].step = "commit" /\ s[j].nav = s[i + 1].nav
                                /\ s[j].delay < s[i + 1].delay
      BY <2>3
    <3>2. CASE j = 1
      <4>1. Len(tr) + 1 \in DOMAIN t
        BY <1>12
      <4>2. e.kind = "committed" /\ e.nav = rest[i].nav
        BY <1>10, <2>1, <3>1, <3>2 DEF EventOf
      <4> HIDE DEF e, t
      <4> QED BY <1>12, <4>1, <4>2
    <3>3. CASE j # 1
      <4>1. j - 1 \in DOMAIN rest /\ (j - 1) + 1 = j
        BY <1>1, <3>3
      <4>2. /\ rest[j - 1].step = "commit" /\ rest[j - 1].nav = rest[i].nav
            /\ rest[j - 1].delay = s[j].delay - c.delay
            /\ rest[i].delay = s[i + 1].delay - c.delay
        BY <1>1, <2>1, <3>1, <4>1
      <4>3. s[j].delay \in Int /\ s[i + 1].delay \in Int
        BY <1>1, CallbackTypes
      <4>4. rest[j - 1].delay < rest[i].delay
        BY <1>2, <3>1, <4>2, <4>3
      <4> QED BY <4>1, <4>2, <4>4
    <3> QED BY <3>2, <3>3
  <2> QED BY <2>1, <2>2, <2>3 DEF Queue, CommitsFirst
<1>14. Queue(rest, after, t)
  BY <1>1, <1>11, <1>13 DEF Queue
<1>15. ASSUME NEW p \in DOMAIN objs, Driven(s, objs, p) PROVE Driven(rest, after, p)
  <2> SUFFICES ASSUME p = 1, after[p].load = "loading"
               PROVE  \E i \in DOMAIN rest :
                        rest[i].object = p /\ rest[i].step = "finish"
    BY DEF Driven
  <2>1. objs[p].load = "loading" /\ ~(~commits /\ p = c.object)
    BY <1>5
  <2>2. PICK i \in DOMAIN s : s[i].object = p /\ s[i].step = "finish"
    BY <1>15, <2>1 DEF Driven
  <2>3. i # 1
    BY <2>1, <2>2
  <2>4. i - 1 \in DOMAIN rest /\ (i - 1) + 1 = i
    BY <1>1, <2>3
  <2> HIDE DEF rest, after, e, t, commits
  <2>5. rest[i - 1].object = p /\ rest[i - 1].step = "finish"
    BY <1>1, <2>2, <2>4
  <2> QED BY <2>4, <2>5
<1> HIDE DEF rest, after, t
<1> QED BY <1>1, <1>3, <1>5, <1>9, <1>14, <1>15

-----------------------------------------------------------------------------
(* What the actions do to a queue and to the objects.                       *)

\* A navigation starts and schedules its two callbacks.
LEMMA NavigationQueued ==
  ASSUME Inv, page # 0, NEW u \in Urls
  PROVE  LET nav == Len(trail) + 1
             loading == [objects EXCEPT ![page].load = "loading"]
             started == Append(trail, Happened("started", page, nav))
             queue == WithNavigation(nav, u)
         IN  /\ Keeps(objects, loading) /\ Len(loading) = Len(objects)
             /\ started \in Seq(Event) /\ queue \in Seq(Callback) /\ queue # <<>>
             /\ Trail(loading, started) /\ Queue(queue, loading, started)
             /\ Driven(queue, loading, page)
<1> DEFINE nav == Len(trail) + 1
           loading == [objects EXCEPT ![page].load = "loading"]
           e == Happened("started", page, nav)
           started == Append(trail, e)
           commit == [step |-> "commit", object |-> page, nav |-> nav, url |-> u,
                      delay |-> 5]
           finish == [step |-> "finish", object |-> page, nav |-> nav, url |-> u,
                      delay |-> 10]
           middle == Insert(scheduled, commit)
           queue == Insert(middle, finish)
<1>1. /\ objects \in Seq(Page) /\ page \in DOMAIN objects /\ page \in Nat
      /\ trail \in Seq(Event) /\ scheduled \in Seq(Callback)
      /\ Trail(objects, trail) /\ Queue(scheduled, objects, trail)
  BY DEF Inv, PageInv
<1>2. nav \in Nat \ {0} /\ DOMAIN trail = 1..Len(trail) /\ Len(trail) \in Nat
  BY <1>1
<1>3. objects[page] \in Page /\ objects[page].generation \in Nat
  <2>1. objects[page] \in Page
    BY <1>1
  <2> QED BY <2>1, PageTypes
<1>4. Keeps(objects, loading) /\ Len(loading) = Len(objects) /\ DOMAIN loading = DOMAIN objects
  <2> DEFINE p == Loading(objects[page])
  <2>1. loading = [objects EXCEPT ![page] = p]
    BY DEF Loading
  <2>2. /\ p \in Page /\ p.generation = objects[page].generation
        /\ p.document = objects[page].document
    BY <1>3, UpdateTypes
  <2> HIDE DEF p, loading
  <2>3. PICK os \in Seq(Page), o \in DOMAIN objects, q \in Page : os = objects /\ o = page /\ q = p
    BY <1>1, <2>2
  <2>4. /\ Keeps(os, [os EXCEPT ![o] = q]) /\ Len([os EXCEPT ![o] = q]) = Len(os)
        /\ DOMAIN [os EXCEPT ![o] = q] = DOMAIN os
    BY <1>3, <2>2, <2>3, ObjectSet
  <2> QED BY <2>1, <2>3, <2>4
<1>5. /\ e \in Event /\ e.kind = "started" /\ e.nav = nav /\ e.object = page
      /\ e.generation = objects[page].generation
  BY <1>1, <1>2, <1>3 DEF Event, EventKind, Happened
<1>6. /\ commit \in Callback /\ commit.step = "commit" /\ commit.nav = nav
      /\ commit.object = page /\ commit.delay = 5
      /\ finish \in Callback /\ finish.step = "finish" /\ finish.nav = nav
      /\ finish.object = page /\ finish.delay = 10
  BY <1>1, <1>2 DEF Callback
<1>7. queue = WithNavigation(nav, u)
  BY DEF WithNavigation
<1> HIDE DEF loading, e, commit, finish, middle, queue, nav
<1>8. Trail(loading, trail) /\ Queue(scheduled, loading, trail)
  BY <1>1, <1>4, ObjectsGrow
<1>9. Trail(loading, started) /\ started \in Seq(Event)
  <2>1. Fits(e, loading, trail)
    <3>1. e.generation <= loading[page].generation
      BY <1>1, <1>3, <1>4, <1>5 DEF Keeps
    <3> QED BY <1>1, <1>4, <1>5, <3>1 DEF Fits, nav
  <2>2. PICK os \in Seq(Page), tr \in Seq(Event), f \in Event :
          os = loading /\ tr = trail /\ f = e
    BY <1>1, <1>4, <1>5 DEF Keeps
  <2>3. Trail(os, Append(tr, f)) /\ Append(tr, f) \in Seq(Event)
    BY <1>8, <2>1, <2>2, TrailAppend
  <2> QED BY <2>2, <2>3
<1>10. \A i \in DOMAIN scheduled : scheduled[i] \in Callback /\ scheduled[i].nav \in DOMAIN trail
  BY <1>1 DEF Queue, Belongs
<1>11. \A i \in DOMAIN scheduled : scheduled[i].nav # nav
  BY <1>2, <1>10 DEF nav
<1>12. /\ Len(started) = Len(trail) + 1 /\ DOMAIN started = 1..nav
       /\ \A i \in 1..Len(trail) : started[i] = trail[i]
       /\ started[nav] = e
  BY <1>1, <1>5 DEF nav
<1>13. \A i \in DOMAIN scheduled : Belongs(scheduled[i], loading, started)
  <2> SUFFICES ASSUME NEW i \in DOMAIN scheduled
               PROVE  Belongs(scheduled[i], loading, started)
    OBVIOUS
  <2>1. Belongs(scheduled[i], loading, trail)
    BY <1>8 DEF Queue
  <2>2. e.nav = scheduled[i].nav => e.kind # EventOf(scheduled[i])
    BY <1>5, <1>11
  <2>3. PICK os \in Seq(Page), tr \in Seq(Event), f \in Event, c \in Callback :
          os = loading /\ tr = trail /\ f = e /\ c = scheduled[i]
    BY <1>1, <1>4, <1>5, <1>10 DEF Keeps
  <2>4. Belongs(c, os, Append(tr, f))
    BY <1>5, <2>1, <2>2, <2>3, BelongsAppend
  <2> QED BY <2>3, <2>4
<1>14. /\ Belongs(commit, loading, started) /\ Belongs(finish, loading, started)
  <2>1. \A i \in DOMAIN started : started[i].kind = "stopped" => nav > i
    BY <1>2, <1>5, <1>12 DEF nav
  <2>2. \A i \in DOMAIN started : started[i].nav = nav => started[i].kind = "started"
    <3> SUFFICES ASSUME NEW i \in 1..Len(trail) PROVE trail[i].nav # nav
      BY <1>2, <1>5, <1>12 DEF nav
    <3>1. trail[i] \in Event
      BY <1>1, <1>2
    <3>2. trail[i].nav \in Nat
      BY <3>1, EventTypes
    <3> QED BY <1>1, <1>2, <3>2 DEF Trail, Named, nav
  <2>3. nav \in DOMAIN started
    BY <1>2, <1>12
  <2> QED
    BY <1>1, <1>4, <1>5, <1>6, <1>12, <2>1, <2>2, <2>3 DEF Belongs, EventOf
<1>15. /\ middle \in Seq(Callback) /\ Ordered(middle) /\ Once(middle)
       /\ \A i \in DOMAIN middle :
            middle[i] = commit \/ \E j \in DOMAIN scheduled : middle[i] = scheduled[j]
       /\ \A j \in DOMAIN scheduled : \E i \in DOMAIN middle : middle[i] = scheduled[j]
       /\ \E i \in DOMAIN middle : middle[i] = commit
  <2>1. PICK s \in Seq(Callback), c \in Callback : s = scheduled /\ c = commit
    BY <1>1, <1>6
  <2>2. Ordered(s) /\ Once(s) /\ \A j \in DOMAIN s : s[j].step # c.step \/ s[j].nav # c.nav
    BY <1>1, <1>6, <1>11, <2>1 DEF Queue
  <2>3. middle = Insert(s, c)
    BY <2>1 DEF middle
  <2>4. /\ Insert(s, c) \in Seq(Callback) /\ Ordered(Insert(s, c)) /\ Once(Insert(s, c))
        /\ \A i \in DOMAIN Insert(s, c) :
             Insert(s, c)[i] = c \/ \E j \in DOMAIN s : Insert(s, c)[i] = s[j]
        /\ \A j \in DOMAIN s : \E i \in DOMAIN Insert(s, c) : Insert(s, c)[i] = s[j]
        /\ \E i \in DOMAIN Insert(s, c) : Insert(s, c)[i] = c
    BY <2>2, InsertProperties
  <2> QED BY <2>1, <2>3, <2>4
<1>16. \A i \in DOMAIN middle : middle[i].step # finish.step \/ middle[i].nav # finish.nav
  BY <1>6, <1>11, <1>15
<1>17. /\ queue \in Seq(Callback) /\ Ordered(queue) /\ Once(queue)
       /\ \A i \in DOMAIN queue :
            queue[i] = finish \/ \E j \in DOMAIN middle : queue[i] = middle[j]
       /\ \A j \in DOMAIN middle : \E i \in DOMAIN queue : queue[i] = middle[j]
       /\ \E i \in DOMAIN queue : queue[i] = finish
  <2>1. PICK s \in Seq(Callback), c \in Callback : s = middle /\ c = finish
    BY <1>6, <1>15
  <2>2. Ordered(s) /\ Once(s) /\ \A j \in DOMAIN s : s[j].step # c.step \/ s[j].nav # c.nav
    BY <1>15, <1>16, <2>1
  <2>3. queue = Insert(s, c)
    BY <2>1 DEF queue
  <2>4. /\ Insert(s, c) \in Seq(Callback) /\ Ordered(Insert(s, c)) /\ Once(Insert(s, c))
        /\ \A i \in DOMAIN Insert(s, c) :
             Insert(s, c)[i] = c \/ \E j \in DOMAIN s : Insert(s, c)[i] = s[j]
        /\ \A j \in DOMAIN s : \E i \in DOMAIN Insert(s, c) : Insert(s, c)[i] = s[j]
        /\ \E i \in DOMAIN Insert(s, c) : Insert(s, c)[i] = c
    BY <2>2, InsertProperties
  <2> QED BY <2>1, <2>3, <2>4
<1>18. \A i \in DOMAIN queue :
         \/ queue[i] = finish \/ queue[i] = commit
         \/ \E j \in DOMAIN scheduled : queue[i] = scheduled[j]
  BY <1>15, <1>17
<1>19. /\ \E i \in DOMAIN queue : queue[i] = commit
       /\ \A j \in DOMAIN scheduled : \E i \in DOMAIN queue : queue[i] = scheduled[j]
  BY <1>15, <1>17
<1>20. NonNegative(queue)
  <2>1. \A j \in DOMAIN scheduled : scheduled[j].delay >= 0
    BY <1>1 DEF Queue, NonNegative
  <2> QED BY <1>6, <1>18, <2>1 DEF NonNegative
<1>21. \A i \in DOMAIN queue : Belongs(queue[i], loading, started)
  BY <1>13, <1>14, <1>18
<1>22. CommitsFirst(queue, started)
  <2> SUFFICES ASSUME NEW i \in DOMAIN queue, queue[i].step = "finish"
               PROVE  \/ \E m \in DOMAIN started :
                           /\ started[m].kind = "committed"
                           /\ started[m].nav = queue[i].nav
                      \/ \E j \in DOMAIN queue :
                           /\ queue[j].step = "commit" /\ queue[j].nav = queue[i].nav
                           /\ queue[j].delay < queue[i].delay
    BY DEF CommitsFirst
  <2>1. CASE queue[i] = finish
    BY <1>6, <1>19, <2>1
  <2>2. CASE queue[i] = commit
    BY <1>6, <2>2
  <2>3. ASSUME NEW k \in DOMAIN scheduled, queue[i] = scheduled[k]
        PROVE  \/ \E m \in DOMAIN started :
                    /\ started[m].kind = "committed"
                    /\ started[m].nav = queue[i].nav
               \/ \E j \in DOMAIN queue :
                    /\ queue[j].step = "commit" /\ queue[j].nav = queue[i].nav
                    /\ queue[j].delay < queue[i].delay
    <3>1. \/ \E m \in DOMAIN trail :
               trail[m].kind = "committed" /\ trail[m].nav = scheduled[k].nav
          \/ \E j \in DOMAIN scheduled :
               /\ scheduled[j].step = "commit" /\ scheduled[j].nav = scheduled[k].nav
               /\ scheduled[j].delay < scheduled[k].delay
      BY <1>1, <2>3 DEF Queue, CommitsFirst
    <3>2. \A m \in DOMAIN trail : m \in DOMAIN started /\ started[m] = trail[m]
      BY <1>2, <1>12 DEF nav
    <3> QED BY <1>19, <2>3, <3>1, <3>2
  <2> QED BY <1>18, <2>1, <2>2, <2>3
<1>23. Queue(queue, loading, started)
  BY <1>17, <1>20, <1>21, <1>22 DEF Queue
<1>24. Driven(queue, loading, page)
  BY <1>6, <1>17 DEF Driven
<1>25. queue # <<>>
  <2>1. PICK i \in DOMAIN queue : queue[i] = finish
    BY <1>17
  <2> QED BY <2>1
<1> QED BY <1>4, <1>7, <1>9, <1>17, <1>23, <1>24, <1>25 DEF loading, e, nav

\* Time passes that makes nothing due.
LEMMA QueueAdvance ==
  ASSUME NEW s \in Seq(Callback), NEW objs, NEW tr, NEW ms \in Nat,
         Queue(s, objs, tr), s = <<>> \/ s[1].delay > ms
  PROVE  /\ Advance(s, ms) \in Seq(Callback) /\ Queue(Advance(s, ms), objs, tr)
         /\ \A p : Driven(s, objs, p) => Driven(Advance(s, ms), objs, p)
<1> DEFINE t == Advance(s, ms)
<1>1. /\ t \in Seq(Callback) /\ DOMAIN t = DOMAIN s
      /\ \A i \in DOMAIN s :
           /\ t[i].delay = s[i].delay - ms /\ t[i].step = s[i].step
           /\ t[i].object = s[i].object /\ t[i].nav = s[i].nav
  <2>1. ms \in Int
    OBVIOUS
  <2> HIDE DEF t
  <2> QED BY <2>1, Advanced DEF t
<1>2. /\ \A i \in DOMAIN s : s[i] \in Callback /\ s[i].delay \in Int
      /\ DOMAIN s = 1..Len(s) /\ Len(s) \in Nat
  BY CallbackTypes
<1> HIDE DEF t
<1>3. \A i \in DOMAIN s : s[i].delay > ms
  <2> SUFFICES ASSUME NEW i \in DOMAIN s PROVE s[i].delay > ms
    OBVIOUS
  <2>1. 1 \in DOMAIN s /\ s # <<>> /\ (i = 1 \/ 1 < i)
    BY <1>2
  <2>2. s[1].delay <= s[i].delay
    BY <1>2, <2>1 DEF Queue, Ordered
  <2> QED BY <1>2, <2>1, <2>2
<1>4. NonNegative(t)
  BY <1>1, <1>2, <1>3 DEF NonNegative
<1>5. Ordered(t)
  <2> SUFFICES ASSUME NEW i \in DOMAIN s, NEW j \in DOMAIN s, i < j
               PROVE  t[i].delay <= t[j].delay
    BY <1>1 DEF Ordered
  <2>1. s[i].delay <= s[j].delay
    BY DEF Queue, Ordered
  <2> QED BY <1>1, <1>2, <2>1
<1>6. Once(t)
  BY <1>1 DEF Queue, Once
<1>7. \A i \in DOMAIN t : Belongs(t[i], objs, tr)
  BY <1>1 DEF Queue, Belongs, EventOf
<1>8. CommitsFirst(t, tr)
  <2> SUFFICES ASSUME NEW i \in DOMAIN s, s[i].step = "finish"
               PROVE  \/ \E m \in DOMAIN tr :
                           tr[m].kind = "committed" /\ tr[m].nav = t[i].nav
                      \/ \E j \in DOMAIN s :
                           /\ t[j].step = "commit" /\ t[j].nav = t[i].nav
                           /\ t[j].delay < t[i].delay
    BY <1>1 DEF CommitsFirst
  <2>1. CASE \E m \in DOMAIN tr : tr[m].kind = "committed" /\ tr[m].nav = s[i].nav
    BY <1>1, <2>1
  <2>2. CASE \E j \in DOMAIN s : /\ s[j].step = "commit" /\ s[j].nav = s[i].nav
                                 /\ s[j].delay < s[i].delay
    <3>1. PICK j \in DOMAIN s : /\ s[j].step = "commit" /\ s[j].nav = s[i].nav
                                /\ s[j].delay < s[i].delay
      BY <2>2
    <3>2. t[j].step = "commit" /\ t[j].nav = t[i].nav
      BY <1>1, <3>1
    <3>3. t[j].delay < t[i].delay
      BY <1>1, <1>2, <3>1
    <3> QED BY <3>2, <3>3
  <2> QED BY <2>1, <2>2 DEF Queue, CommitsFirst
<1>9. \A p : Driven(s, objs, p) => Driven(t, objs, p)
  BY <1>1 DEF Driven
<1>10. Queue(t, objs, tr)
  BY <1>4, <1>5, <1>6, <1>7, <1>8 DEF Queue
<1> QED BY <1>1, <1>9, <1>10 DEF t

-----------------------------------------------------------------------------
(* The invariant holds initially, and every action preserves it.            *)

LEMMA InitInv == Init => Inv
<1> SUFFICES ASSUME Init PROVE Inv
  OBVIOUS
<1>1. LeaseInv
  BY DEF Init, LeaseInv
<1>2. Trail(objects, trail) /\ Queue(scheduled, objects, trail)
  BY DEF Init, Trail, Queue, OnObjects, Named, NoRepeat, FinishFollows, StopsStand,
         Ordered, NonNegative, Once, CommitsFirst
<1>3. PageInv
  BY <1>2 DEF Init, PageInv, Driven
<1>4. CallInv
  BY DEF Init, CallInv, TargetInv, NoTarget, NotWaiting
<1> QED BY <1>1, <1>3, <1>4 DEF Inv

\* A target survives what objects keep.
LEMMA TargetKept ==
  ASSUME Inv, Keeps(objects, objects'), UNCHANGED target
  PROVE  TargetInv'
<1>1. /\ objects \in Seq(Page) /\ Len(objects) \in Nat /\ DOMAIN objects = 1..Len(objects)
      /\ objects' \in Seq(Page) /\ Len(objects') \in Nat /\ Len(objects') >= Len(objects)
      /\ target.object \in 0..Len(objects) /\ target.generation \in Nat
  BY DEF Inv, PageInv, CallInv, TargetInv, Keeps
<1>2. target.object \in 0..Len(objects')
  BY <1>1
<1>3. ASSUME target.object # 0
      PROVE  /\ target.generation <= objects'[target.object].generation
             /\ target.generation = objects'[target.object].generation =>
                  target.document = objects'[target.object].document
  <2>1. target.object \in DOMAIN objects
    BY <1>1, <1>3
  <2>2. PICK p \in Page, q \in Page :
          p = objects[target.object] /\ q = objects'[target.object]
    BY <1>1, <2>1
  <2>3. p.generation \in Nat /\ q.generation \in Nat
    BY PageTypes
  <2>4. /\ q.generation >= p.generation
        /\ q.generation = p.generation => q.document = p.document
    BY <2>1, <2>2 DEF Keeps
  <2>5. /\ target.generation <= p.generation
        /\ target.generation = p.generation => target.document = p.document
    BY <1>3, <2>2 DEF Inv, CallInv, TargetInv
  <2> QED BY <1>1, <2>2, <2>3, <2>4, <2>5
<1> QED BY <1>2, <1>3 DEF TargetInv

LEMMA CallKept ==
  ASSUME Inv, Keeps(objects, objects'), UNCHANGED <<target, waiting>>
  PROVE  CallInv'
BY TargetKept DEF Inv, CallInv

\* Objects that do not change keep what they have.
LEMMA KeepsSame ==
  ASSUME NEW objs \in Seq(Page)
  PROVE  Keeps(objs, objs)
<1>1. Len(objs) \in Nat /\ \A o \in DOMAIN objs : objs[o] \in Page
  OBVIOUS
<1>2. \A o \in DOMAIN objs : objs[o].generation \in Nat
  BY <1>1, PageTypes
<1> QED BY <1>1, <1>2 DEF Keeps

\* An object is added.
LEMMA KeepsAppend ==
  ASSUME NEW objs \in Seq(Page), NEW p \in Page
  PROVE  /\ Keeps(objs, Append(objs, p)) /\ Len(Append(objs, p)) = Len(objs) + 1
<1>1. /\ Append(objs, p) \in Seq(Page) /\ Len(Append(objs, p)) = Len(objs) + 1
      /\ Len(objs) \in Nat /\ DOMAIN objs = 1..Len(objs)
      /\ \A o \in DOMAIN objs : objs[o] \in Page /\ Append(objs, p)[o] = objs[o]
  OBVIOUS
<1>2. \A o \in DOMAIN objs : objs[o].generation \in Nat
  BY <1>1, PageTypes
<1> QED BY <1>1, <1>2 DEF Keeps

\* Objects that grow leave trail and queue in order.
LEMMA ObjectsGrown ==
  ASSUME PageInv, Keeps(objects, objects'), UNCHANGED <<scheduled, trail>>
  PROVE  Trail(objects', trail') /\ Queue(scheduled', objects', trail')
<1>1. PICK os \in Seq(Page), ol \in Seq(Page), tr \in Seq(Event), s \in Seq(Callback) :
        os = objects /\ ol = objects' /\ tr = trail /\ s = scheduled
  BY DEF PageInv, Keeps
<1>2. Keeps(os, ol) /\ Trail(os, tr) /\ Queue(s, os, tr)
  BY <1>1 DEF PageInv
<1>3. Trail(ol, tr) /\ Queue(s, ol, tr)
  BY <1>2, ObjectsGrow
<1> QED BY <1>1, <1>3

LEMMA CreateFirstInv ==
  ASSUME Inv, NEW client \in Clients, CreateFirst(client)
  PROVE  Inv'
<1>1. /\ objects = <<>> /\ objects' = <<NewPage>> /\ page' = 1 /\ documents' = 1
      /\ writer' = client /\ epoch' = 1
      /\ grants' = Append(grants, [client |-> client, epoch |-> 1])
      /\ UNCHANGED <<checkpoints, scheduled, trail, prompts, target, waiting>>
  BY DEF CreateFirst, Grant, Inv, PageInv
<1>2. Keeps(objects, objects') /\ objects' \in Seq(Page) /\ Len(objects') = 1
  <2>1. NewPage \in Page
    BY PageTypes
  <2>2. objects' \in Seq(Page) /\ Len(objects') = 1 /\ Len(objects) = 0 /\ DOMAIN objects = {}
    BY <1>1, <2>1
  <2> QED BY <2>2 DEF Keeps
<1>3. Trail(objects', trail') /\ Queue(scheduled', objects', trail')
  BY <1>1, <1>2, ObjectsGrown DEF Inv
<1>4. Driven(scheduled', objects', page')
  BY <1>1, PageTypes DEF Driven
<1>5. PageInv'
  BY <1>1, <1>2, <1>3, <1>4 DEF Inv, PageInv
<1>6. LeaseInv'
  BY <1>1 DEF Inv, LeaseInv
<1> QED BY <1>1, <1>2, <1>5, <1>6, CallKept DEF Inv

LEMMA CreateAgainInv ==
  ASSUME Inv, NEW client \in Clients, CreateAgain(client)
  PROVE  Inv'
<1>1. /\ page # 0 /\ writer' = client /\ epoch' = epoch
      /\ grants' = Append(grants, [client |-> client, epoch |-> epoch])
      /\ UNCHANGED <<checkpoints, objects, page, documents, scheduled, trail, prompts,
                     target, waiting>>
  BY DEF CreateAgain, Grant, pageVars
<1>2. LeaseInv'
  BY <1>1 DEF Inv, LeaseInv
<1>3. PageInv' /\ CallInv'
  BY <1>1 DEF Inv, PageInv, CallInv, TargetInv
<1> QED BY <1>2, <1>3 DEF Inv

LEMMA ResumeInv ==
  ASSUME Inv, NEW client \in Clients, NEW k \in 1..Len(checkpoints), Resume(client, k)
  PROVE  Inv'
<1> DEFINE saved == checkpoints[k].page
           load == IF saved.lifecycle = "terminated" THEN "idle" ELSE saved.load
           p == Restored(saved, documents + 1, load)
<1>1. /\ saved \in Page /\ checkpoints[k].epoch \in Nat /\ checkpoints # <<>>
  <2> DEFINE C == [page : Page, epoch : Nat, writer : Clients]
  <2>1. checkpoints \in Seq(C) /\ k \in 1..Len(checkpoints)
    BY DEF Inv, LeaseInv
  <2>2. checkpoints[k] \in C
    <3> HIDE DEF C
    <3> QED BY <2>1
  <2> QED BY <2>1, <2>2
<1>2. p \in Page
  <2>1. PICK q \in Page, d \in Nat : q = saved /\ d = documents + 1
    BY <1>1 DEF Inv, PageInv
  <2>2. load \in {"idle", "loading"}
    BY <1>1 DEF Page
  <2> HIDE DEF saved, load
  <2> QED BY <2>1, <2>2, RestoredTypes
<1>3. /\ objects' = Append(objects, p) /\ page' = Len(objects) + 1
      /\ documents' = documents + 1
      /\ writer' = client /\ epoch' = checkpoints[k].epoch + 1
      /\ grants' = Append(grants, [client |-> client, epoch |-> checkpoints[k].epoch + 1])
      /\ UNCHANGED <<checkpoints, scheduled, trail, prompts, target, waiting>>
  BY DEF Resume, Grant, Restored
<1>4. /\ objects \in Seq(Page) /\ Len(objects) \in Nat /\ Len(objects) # 0
      /\ documents \in Nat
  BY <1>1 DEF Inv, LeaseInv, PageInv
<1> HIDE DEF p
<1>5. Keeps(objects, objects') /\ objects' \in Seq(Page) /\ Len(objects') = Len(objects) + 1
  BY <1>2, <1>3, <1>4, KeepsAppend DEF Keeps
<1>6. Trail(objects', trail') /\ Queue(scheduled', objects', trail')
  BY <1>3, <1>5, ObjectsGrown DEF Inv
<1>7. PageInv'
  <2>1. page' # 1 /\ page' \in 1..Len(objects') /\ objects' # <<>>
    BY <1>3, <1>4, <1>5
  <2> QED BY <1>3, <1>4, <1>5, <1>6, <2>1 DEF Inv, PageInv, Driven
<1>8. LeaseInv'
  <2>1. [client |-> client, epoch |-> checkpoints[k].epoch + 1] \in [client : Clients, epoch : Nat]
    BY <1>1
  <2>2. page' # 0 /\ epoch' \in Nat
    BY <1>1, <1>3, <1>4
  <2> QED BY <1>3, <2>1, <2>2 DEF Inv, LeaseInv
<1> QED BY <1>3, <1>5, <1>7, <1>8, CallKept DEF Inv

LEMMA CheckpointInv ==
  ASSUME Inv, NEW client \in Clients \union {None}, NEW release \in BOOLEAN,
         Checkpoint(client, release)
  PROVE  Inv'
<1>1. /\ writer # None /\ writer \in Clients /\ page # 0
      /\ checkpoints' = Append(checkpoints,
           [page |-> objects[page], epoch |-> epoch, writer |-> writer])
      /\ writer' = None \/ writer' = writer
      /\ UNCHANGED <<epoch, grants, objects, page, documents, scheduled, trail, prompts,
                     target, waiting>>
  BY DEF Checkpoint, MayWrite, Current, pageVars, Inv, LeaseInv
<1>2. [page |-> objects[page], epoch |-> epoch, writer |-> writer]
        \in [page : Page, epoch : Nat, writer : Clients]
  BY <1>1 DEF Inv, LeaseInv, PageInv
<1>3. LeaseInv'
  BY <1>1, <1>2 DEF Inv, LeaseInv
<1>4. PageInv' /\ CallInv'
  BY <1>1 DEF Inv, PageInv, CallInv, TargetInv
<1> QED BY <1>3, <1>4 DEF Inv

-----------------------------------------------------------------------------
(* Calls about the page.                                                    *)

\* Whoever may write has a page.
LEMMA Invoked ==
  ASSUME Inv, NEW client, Invoke(client)
  PROVE  /\ page # 0 /\ page \in DOMAIN objects /\ objects[page] \in Page
         /\ UNCHANGED <<writer, epoch, grants, checkpoints, target, waiting>>
BY DEF Invoke, MayWrite, sessionVars, Inv, LeaseInv, PageInv

LEMMA LeaseKept ==
  ASSUME Inv, UNCHANGED <<page, writer, epoch, grants, checkpoints>>
  PROVE  LeaseInv'
BY DEF Inv, LeaseInv

\* The first callback of the queue runs, in the middle of a call or in an await.
LEMMA CallbackRuns ==
  ASSUME Inv, page # 0, NEW s \in Seq(Callback), NEW objs \in Seq(Page),
         NEW tr \in Seq(Event), s # <<>>, Keeps(objects, objs),
         Len(objs) = Len(objects), Trail(objs, tr), Queue(s, objs, tr),
         Driven(s, objs, page), RunNext(s, objs, tr), UNCHANGED page
  PROVE  PageInv' /\ Keeps(objects, objects')
<1>1. /\ documents \in Nat /\ prompts \in [Tokens -> {"absent", "pending", "resolved"}]
      /\ objects \in Seq(Page) /\ page \in DOMAIN objs /\ page \in 0..Len(objects)
  BY DEF Inv, PageInv
<1>2. /\ scheduled' \in Seq(Callback) /\ trail' \in Seq(Event) /\ documents' \in Nat
      /\ prompts' \in [Tokens -> {"absent", "pending", "resolved"}]
      /\ Keeps(objs, objects') /\ Len(objects') = Len(objs)
      /\ Trail(objects', trail') /\ Queue(scheduled', objects', trail')
      /\ \A p \in DOMAIN objs : Driven(s, objs, p) => Driven(scheduled', objects', p)
  BY <1>1, RunNextPreserves
<1>3. objects' \in Seq(Page) /\ objects' # <<>>
  BY <1>1, <1>2 DEF Keeps
<1>4. Driven(scheduled', objects', page')
  BY <1>1, <1>2
<1>5. PageInv'
  BY <1>1, <1>2, <1>3, <1>4 DEF PageInv
<1>6. Keeps(objects, objects')
  <2> SUFFICES ASSUME NEW o \in DOMAIN objects
               PROVE  /\ objects'[o].generation >= objects[o].generation
                      /\ objects'[o].generation = objects[o].generation =>
                           objects'[o].document = objects[o].document
    BY <1>1, <1>2, <1>3 DEF Keeps
  <2>1. /\ o \in DOMAIN objs /\ objects[o] \in Page /\ objs[o] \in Page
        /\ objects'[o] \in Page
    BY <1>1, <1>2, <1>3
  <2>2. PICK p \in Page, q \in Page, r \in Page :
          p = objects[o] /\ q = objs[o] /\ r = objects'[o]
    BY <2>1
  <2>3. p.generation \in Nat /\ q.generation \in Nat /\ r.generation \in Nat
    BY PageTypes
  <2>4. /\ q.generation >= p.generation
        /\ q.generation = p.generation => q.document = p.document
    BY <2>2 DEF Keeps
  <2>5. /\ r.generation >= q.generation
        /\ r.generation = q.generation => r.document = q.document
    BY <1>2, <2>1, <2>2 DEF Keeps
  <2> QED BY <2>2, <2>3, <2>4, <2>5
<1> QED BY <1>5, <1>6

LEMMA NavigateInv ==
  ASSUME Inv, NEW client \in Clients \union {None}, NEW url \in Urls,
         NEW wait \in {"none", "commit"}, Navigate(client, url, wait)
  PROVE  Inv'
<1> DEFINE nav == Len(trail) + 1
           loading == [objects EXCEPT ![page].load = "loading"]
           started == Append(trail, Happened("started", page, nav))
           queue == WithNavigation(nav, url)
<1>1. /\ page # 0 /\ UNCHANGED <<page, writer, epoch, grants, checkpoints, target, waiting>>
      /\ \/ RunNext(queue, loading, started)
         \/ /\ objects' = loading /\ scheduled' = queue /\ trail' = started
            /\ UNCHANGED <<documents, prompts>>
  <2>1. Invoke(client) /\ UNCHANGED page
    BY DEF Navigate, Move
  <2> QED BY <2>1, Invoked DEF Navigate
<1>2. /\ Keeps(objects, loading) /\ Len(loading) = Len(objects)
      /\ started \in Seq(Event) /\ queue \in Seq(Callback) /\ queue # <<>>
      /\ Trail(loading, started) /\ Queue(queue, loading, started)
      /\ Driven(queue, loading, page)
  <2> HIDE DEF loading, started, queue
  <2> QED BY <1>1, NavigationQueued DEF loading, started, queue
<1> HIDE DEF loading, started, queue
<1>3. PICK s \in Seq(Callback), objs \in Seq(Page), tr \in Seq(Event) :
        s = queue /\ objs = loading /\ tr = started
  BY <1>2 DEF Keeps
<1>4. CASE RunNext(queue, loading, started)
  <2>1. RunNext(s, objs, tr)
    BY <1>3, <1>4
  <2>2. /\ Keeps(objects, objs) /\ Len(objs) = Len(objects) /\ Trail(objs, tr)
        /\ Queue(s, objs, tr) /\ Driven(s, objs, page) /\ s # <<>>
    BY <1>2, <1>3
  <2>3. PageInv' /\ Keeps(objects, objects')
    BY <1>1, <2>1, <2>2, CallbackRuns
  <2> QED BY <1>1, <2>3, LeaseKept, CallKept DEF Inv
<1>5. CASE /\ objects' = loading /\ scheduled' = queue /\ trail' = started
           /\ UNCHANGED <<documents, prompts>>
  <2>1. /\ objects' \in Seq(Page) /\ objects' # <<>> /\ page' \in 0..Len(objects')
        /\ page' # 0
    BY <1>1, <1>2, <1>5 DEF Keeps, Inv, PageInv
  <2>2. /\ Trail(objects', trail') /\ Queue(scheduled', objects', trail')
        /\ Driven(scheduled', objects', page')
    BY <1>1, <1>2, <1>5
  <2>3. PageInv' /\ Keeps(objects, objects')
    BY <1>2, <1>5, <2>1, <2>2 DEF Inv, PageInv
  <2> QED BY <1>1, <2>3, LeaseKept, CallKept DEF Inv
<1> QED BY <1>1, <1>4, <1>5

\* The page is stopped, or crashes: it is no longer loading, and says so.
LEMMA PageEnds ==
  ASSUME Inv, page # 0, NEW kind \in {"stopped", "terminated"},
         NEW p \in Page, p.generation = objects[page].generation,
         p.document = objects[page].document, p.load = "idle",
         objects' = [objects EXCEPT ![page] = p],
         trail' = Append(trail, Happened(kind, page, 0)),
         \/ scheduled' = <<>>
         \/ kind = "terminated" /\ scheduled' = scheduled,
         UNCHANGED <<page, documents, prompts>>
  PROVE  PageInv' /\ Keeps(objects, objects')
<1> DEFINE e == Happened(kind, page, 0)
<1>1. /\ objects \in Seq(Page) /\ page \in DOMAIN objects /\ page \in Nat
      /\ trail \in Seq(Event) /\ scheduled \in Seq(Callback)
      /\ Trail(objects, trail) /\ Queue(scheduled, objects, trail)
      /\ objects[page] \in Page
  BY DEF Inv, PageInv
<1>2. objects[page].generation \in Nat
  BY <1>1, PageTypes
<1>3. /\ e \in Event /\ e.kind = kind /\ e.nav = 0 /\ e.object = page
      /\ e.generation = objects[page].generation
  BY <1>1, <1>2 DEF Event, EventKind, Happened
<1> HIDE DEF e
<1>4. PICK os \in Seq(Page), ol \in Seq(Page), o \in DOMAIN objects, tr \in Seq(Event),
           f \in Event :
        os = objects /\ ol = objects' /\ o = page /\ tr = trail /\ f = e
  <2>1. [objects EXCEPT ![page] = p] \in Seq(Page)
    BY <1>1
  <2>2. objects' \in Seq(Page)
    BY <2>1
  <2> QED BY <1>1, <1>3, <2>2
<1>5. Keeps(os, ol) /\ Len(ol) = Len(os) /\ DOMAIN ol = DOMAIN os
  <2>1. ol = [os EXCEPT ![o] = p] /\ o \in DOMAIN os
    BY <1>4
  <2>2. p.generation >= os[o].generation /\ (p.generation = os[o].generation => p.document = os[o].document)
    BY <1>2, <1>4
  <2>3. /\ Keeps(os, [os EXCEPT ![o] = p]) /\ Len([os EXCEPT ![o] = p]) = Len(os)
        /\ DOMAIN [os EXCEPT ![o] = p] = DOMAIN os
    BY <2>1, <2>2, ObjectSet
  <2> QED BY <2>1, <2>3
<1>6. Trail(ol, tr) /\ \A c \in Callback : Belongs(c, os, tr) => Belongs(c, ol, tr)
  BY <1>1, <1>4, <1>5, ObjectsGrow
<1>7. Fits(f, ol, tr)
  <2>1. f.generation <= ol[page].generation
    BY <1>1, <1>2, <1>3, <1>4
  <2> QED BY <1>1, <1>3, <1>4, <1>5, <2>1 DEF Fits
<1>8. Trail(ol, Append(tr, f)) /\ Append(tr, f) \in Seq(Event)
  BY <1>6, <1>7, TrailAppend
<1>9. Queue(scheduled', ol, Append(tr, f)) /\ scheduled' \in Seq(Callback)
  <2>1. CASE scheduled' = <<>>
    BY <2>1 DEF Queue, Ordered, NonNegative, Once, CommitsFirst
  <2>2. CASE kind = "terminated" /\ scheduled' = scheduled
    <3>1. ASSUME NEW i \in DOMAIN scheduled
          PROVE  Belongs(scheduled[i], ol, Append(tr, f))
      <4>1. PICK c \in Callback : c = scheduled[i]
        BY <1>1
      <4>2. Belongs(c, ol, tr)
        BY <1>1, <1>4, <1>6, <4>1 DEF Queue
      <4>3. f.kind # EventOf(c) /\ f.kind # "stopped"
        BY <1>3, <1>4, <2>2 DEF EventOf
      <4> QED BY <4>1, <4>2, <4>3, BelongsAppend
    <3>2. CommitsFirst(scheduled, Append(tr, f))
      <4>1. CommitsFirst(scheduled, tr)
        BY <1>1, <1>4 DEF Queue
      <4>2. \A m \in DOMAIN tr : m \in DOMAIN Append(tr, f) /\ Append(tr, f)[m] = tr[m]
        OBVIOUS
      <4> HIDE DEF Keeps
      <4> QED BY <4>1, <4>2 DEF CommitsFirst
    <3> QED BY <1>1, <2>2, <3>1, <3>2 DEF Queue
  <2> QED BY <2>1, <2>2
<1>10. Driven(scheduled', objects', page')
  BY <1>1 DEF Driven
<1>11. PageInv'
  <2>1. objects' \in Seq(Page) /\ objects' # <<>> /\ page' \in 0..Len(objects') /\ page' # 0
    BY <1>1, <1>4, <1>5
  <2>2. /\ trail' = Append(tr, f) /\ objects' = ol
    BY <1>4 DEF e
  <2>3. /\ documents' \in Nat
        /\ prompts' \in [Tokens -> {"absent", "pending", "resolved"}]
    BY DEF Inv, PageInv
  <2> QED BY <1>8, <1>9, <1>10, <2>1, <2>2, <2>3 DEF PageInv
<1> QED BY <1>4, <1>5, <1>11

LEMMA StopInv ==
  ASSUME Inv, NEW client \in Clients \union {None}, Stop(client)
  PROVE  Inv'
<1> DEFINE p == Stopped(objects[page])
<1>1. /\ page # 0 /\ objects[page] \in Page
      /\ UNCHANGED <<page, writer, epoch, grants, checkpoints, target, waiting>>
  <2>1. Invoke(client) /\ UNCHANGED page
    BY DEF Stop, Move
  <2> QED BY <2>1, Invoked
<1>2. /\ p \in Page /\ p.generation = objects[page].generation
      /\ p.document = objects[page].document /\ p.load = "idle"
  BY <1>1, UpdateTypes
<1>3. /\ objects' = [objects EXCEPT ![page] = p] /\ scheduled' = <<>>
      /\ trail' = Append(trail, Happened("stopped", page, 0))
      /\ UNCHANGED <<documents, prompts>>
  BY DEF Stop, Stopped
<1> HIDE DEF p
<1>4. PICK q \in Page : q = p
  BY <1>2
<1>5. PageInv' /\ Keeps(objects, objects')
  BY <1>1, <1>2, <1>3, <1>4, PageEnds
<1> QED BY <1>1, <1>5, LeaseKept, CallKept DEF Inv

LEMMA CrashInv ==
  ASSUME Inv, NEW client \in Clients \union {None}, Crash(client)
  PROVE  Inv'
<1> DEFINE p == Crashed(objects[page])
<1>1. /\ page # 0 /\ objects[page] \in Page
      /\ UNCHANGED <<page, writer, epoch, grants, checkpoints, target, waiting>>
  <2>1. Invoke(client) /\ UNCHANGED page
    BY DEF Crash, Move
  <2> QED BY <2>1, Invoked
<1>2. /\ p \in Page /\ p.generation = objects[page].generation
      /\ p.document = objects[page].document /\ p.load = "idle"
  BY <1>1, UpdateTypes
<1>3. /\ objects' = [objects EXCEPT ![page] = p] /\ scheduled' = scheduled
      /\ trail' = Append(trail, Happened("terminated", page, 0))
      /\ UNCHANGED <<documents, prompts>>
  BY DEF Crash, Crashed
<1> HIDE DEF p
<1>4. PICK q \in Page : q = p
  BY <1>2
<1>5. PageInv' /\ Keeps(objects, objects')
  BY <1>1, <1>2, <1>3, <1>4, PageEnds
<1> QED BY <1>1, <1>5, LeaseKept, CallKept DEF Inv

LEMMA ResolveInv ==
  ASSUME Inv, NEW client \in Clients \union {None}, NEW token \in Tokens,
         Resolve(client, token)
  PROVE  Inv'
<1>1. /\ prompts' = [prompts EXCEPT ![token] = "resolved"]
      /\ UNCHANGED <<objects, page, documents, scheduled, trail>>
      /\ UNCHANGED <<writer, epoch, grants, checkpoints, target, waiting>>
  BY Invoked DEF Resolve
<1>2. PageInv' /\ CallInv'
  BY <1>1 DEF Inv, PageInv, CallInv, TargetInv
<1> QED BY <1>1, <1>2, LeaseKept DEF Inv

LEMMA ObserveInv ==
  ASSUME Inv, Observe
  PROVE  Inv'
<1>1. /\ page # 0
      /\ target' = [generation |-> objects[page].generation, object |-> page,
                    document |-> objects[page].document]
      /\ UNCHANGED <<writer, epoch, grants, checkpoints, objects, page, documents,
                     scheduled, trail, prompts, waiting>>
  BY DEF Observe, Current, sessionVars, pageVars
<1>2. PICK g \in Nat, d \in Nat :
        g = objects[page].generation /\ d = objects[page].document
  <2>1. objects[page] \in Page
    BY <1>1 DEF Inv, PageInv
  <2> QED BY <2>1, PageTypes
<1>3. /\ page \in 0..Len(objects) /\ page \in Nat
      /\ target' = [generation |-> g, object |-> page, document |-> d]
  BY <1>1, <1>2 DEF Inv, PageInv
<1>4. /\ target'.generation = g /\ target'.object = page /\ target'.document = d
      /\ target' \in [generation : Nat, object : Nat, document : Nat]
  BY <1>3
<1>5. CallInv'
  BY <1>1, <1>2, <1>3, <1>4 DEF Inv, CallInv, TargetInv
<1>6. PageInv'
  BY <1>1 DEF Inv, PageInv
<1> QED BY <1>1, <1>5, <1>6, LeaseKept DEF Inv

-----------------------------------------------------------------------------
(* Awaits.                                                                  *)

LEMMA AwaitStartsInv ==
  ASSUME Inv, NEW conditions \in Awaited, NEW deadline \in Deadlines,
         AwaitStarts(conditions, deadline)
  PROVE  Inv'
<1>1. /\ waiting' = [conditions |-> conditions, left |-> deadline]
      /\ UNCHANGED <<writer, epoch, grants, checkpoints, objects, page, documents,
                     scheduled, trail, prompts, target>>
  BY DEF AwaitStarts, sessionVars, pageVars
<1>2. conditions \in SUBSET Condition /\ deadline \in Nat
  <2>1. PromptUrl \in Urls /\ deadline \in Nat
    BY ConstantsAssumption
  <2> QED BY <2>1 DEF Awaited, Condition, EventKind
<1>3. waiting' \in [conditions : SUBSET Condition, left : Nat]
  BY <1>1, <1>2
<1>4. PageInv' /\ CallInv'
  BY <1>1, <1>3 DEF Inv, PageInv, CallInv, TargetInv
<1> QED BY <1>1, <1>4, LeaseKept DEF Inv

LEMMA AwaitRunsInv ==
  ASSUME Inv, AwaitRuns
  PROVE  Inv'
<1>1. /\ scheduled # <<>> /\ Head(scheduled).delay <= waiting.left
      /\ RunNext(scheduled, objects, trail)
      /\ waiting' = [waiting EXCEPT !.left = @ - Head(scheduled).delay]
      /\ UNCHANGED <<writer, epoch, grants, checkpoints, page, target>>
  BY DEF AwaitRuns, NextIsDue, sessionVars
<1>2. /\ scheduled \in Seq(Callback) /\ objects \in Seq(Page) /\ trail \in Seq(Event)
      /\ Trail(objects, trail) /\ Queue(scheduled, objects, trail)
      /\ Driven(scheduled, objects, page)
  BY DEF Inv, PageInv
<1>3. PICK s \in Seq(Callback), objs \in Seq(Page), tr \in Seq(Event) :
        s = scheduled /\ objs = objects /\ tr = trail
  BY <1>2
<1>4. page # 0
  <2>1. 1 \in DOMAIN scheduled
    BY <1>1, <1>2
  <2> QED BY <1>2, <2>1 DEF Queue, Belongs, Inv, PageInv
<1>5. Keeps(objects, objs) /\ RunNext(s, objs, tr)
  BY <1>1, <1>3, KeepsSame
<1>6. PageInv' /\ Keeps(objects, objects')
  BY <1>1, <1>2, <1>3, <1>4, <1>5, CallbackRuns
<1>7. waiting' \in [conditions : SUBSET Condition, left : Nat]
  <2>1. PICK d \in Int : d = Head(scheduled).delay
    <3>1. Head(scheduled) \in Callback
      BY <1>1, <1>2
    <3> QED BY <3>1, CallbackTypes
  <2>2. waiting \in [conditions : SUBSET Condition, left : Nat] /\ d <= waiting.left
    BY <1>1, <2>1 DEF Inv, CallInv
  <2>3. waiting.left - d \in Nat
    BY <2>2
  <2>4. waiting' = [waiting EXCEPT !.left = waiting.left - d]
    BY <1>1, <2>1
  <2> QED BY <2>2, <2>3, <2>4
<1>8. CallInv'
  BY <1>1, <1>6, <1>7, TargetKept DEF Inv, CallInv
<1> QED BY <1>1, <1>6, <1>8, LeaseKept DEF Inv

LEMMA AwaitReturnsInv ==
  ASSUME Inv, AwaitReturns
  PROVE  Inv'
<1>1. /\ waiting' = NotWaiting
      /\ UNCHANGED <<writer, epoch, grants, checkpoints, objects, page, documents,
                     scheduled, trail, prompts, target>>
  BY DEF AwaitReturns, sessionVars, pageVars
<1>2. waiting' \in [conditions : SUBSET Condition, left : Nat]
  BY <1>1 DEF NotWaiting
<1>3. PageInv' /\ CallInv'
  BY <1>1, <1>2 DEF Inv, PageInv, CallInv, TargetInv
<1> QED BY <1>1, <1>3, LeaseKept DEF Inv

LEMMA AwaitTimesOutInv ==
  ASSUME Inv, AwaitTimesOut
  PROVE  Inv'
<1>1. /\ ~NextIsDue /\ scheduled' = Advance(scheduled, waiting.left)
      /\ waiting' = NotWaiting
      /\ UNCHANGED <<writer, epoch, grants, checkpoints, objects, page, documents, trail,
                     prompts, target>>
  BY DEF AwaitTimesOut, sessionVars
<1>2. PICK s \in Seq(Callback), ms \in Nat :
        s = scheduled /\ ms = waiting.left /\ Queue(s, objects, trail)
  BY DEF Inv, PageInv, CallInv
<1>3. s = <<>> \/ s[1].delay > ms
  <2> SUFFICES ASSUME s # <<>> PROVE s[1].delay > ms
    OBVIOUS
  <2>1. Head(s) = s[1] /\ s[1] \in Callback
    OBVIOUS
  <2>2. s[1].delay \in Int
    BY <2>1, CallbackTypes
  <2> QED BY <1>1, <1>2, <2>1, <2>2 DEF NextIsDue
<1>4. PICK os \in Seq(Page), tr \in Seq(Event) : os = objects /\ tr = trail
  BY DEF Inv, PageInv
<1>5. /\ Advance(s, ms) \in Seq(Callback) /\ Queue(Advance(s, ms), os, tr)
      /\ \A p : Driven(s, os, p) => Driven(Advance(s, ms), os, p)
  BY <1>2, <1>3, <1>4, QueueAdvance
<1>6. PageInv'
  BY <1>1, <1>2, <1>4, <1>5 DEF Inv, PageInv
<1>7. CallInv'
  BY <1>1 DEF Inv, CallInv, TargetInv, NotWaiting
<1> QED BY <1>1, <1>6, <1>7, LeaseKept DEF Inv

-----------------------------------------------------------------------------
(* The theorems.                                                            *)

LEMMA SessionStepInv ==
  ASSUME Inv, SessionStep
  PROVE  Inv'
BY CreateFirstInv, CreateAgainInv, ResumeInv, CheckpointInv DEF SessionStep

LEMMA PageStepInv ==
  ASSUME Inv, PageStep
  PROVE  Inv'
BY ObserveInv, NavigateInv, ResolveInv, StopInv, CrashInv, AwaitStartsInv DEF PageStep

LEMMA NextInv ==
  ASSUME Inv, [Next]_vars
  PROVE  Inv'
<1>1. CASE SessionStep
  BY <1>1, SessionStepInv
<1>2. CASE PageStep
  BY <1>2, PageStepInv
<1>3. CASE AwaitStep
  BY <1>3, AwaitRunsInv, AwaitReturnsInv, AwaitTimesOutInv DEF AwaitStep
<1>4. CASE UNCHANGED vars
  BY <1>4 DEF vars, sessionVars, pageVars, Inv, LeaseInv, PageInv, CallInv, TargetInv
<1> QED BY <1>1, <1>2, <1>3, <1>4 DEF Next

THEOREM InvHolds == Spec => []Inv
<1>1. Init => Inv
  BY InitInv
<1>2. Inv /\ [Next]_vars => Inv'
  BY NextInv
<1> QED BY <1>1, <1>2, PTL DEF Spec

\* Every variable has its type: in particular what awaits have left of their
\* deadline is never negative, and whoever wrote a checkpoint is a client.
THEOREM TypeCorrect == Spec => []TypeOK
<1>1. Inv => TypeOK
  BY DEF Inv, LeaseInv, PageInv, CallInv, TypeOK, Event
<1> QED BY <1>1, InvHolds, PTL

\* No callback is ever overdue: the queue stays ordered, and time passes to the
\* first due time at most.
THEOREM NothingOverdue == Spec => []NeverOverdue
<1>1. Inv => NeverOverdue
  BY DEF Inv, PageInv, Queue, NonNegative, NeverOverdue
<1> QED BY <1>1, InvHolds, PTL

\* A navigation is reported as started, committed, finished, in this order and
\* each at most once, its generation new from the commit on.
THEOREM NavigationsInOrder == Spec => []NavigationOrder
<1>1. ASSUME Inv PROVE NavigationOrder
  <2>1. /\ DOMAIN trail = 1..Len(trail) /\ Len(trail) \in Nat
        /\ Named(trail) /\ NoRepeat(trail) /\ FinishFollows(trail)
    BY <1>1 DEF Inv, PageInv, Trail
  <2>2. ASSUME NEW i \in 1..Len(trail), trail[i].kind = "finished"
        PROVE  \E m \in 1..(i - 1) :
                 /\ trail[m].kind = "committed" /\ trail[m].nav = trail[i].nav
                 /\ trail[trail[m].nav].kind = "started"
                 /\ trail[m].generation > trail[trail[m].nav].generation
    <3>1. PICK m \in 1..(i - 1) : trail[m].kind = "committed" /\ trail[m].nav = trail[i].nav
      BY <2>1, <2>2 DEF FinishFollows
    <3>2. m \in DOMAIN trail
      BY <2>1, <3>1
    <3> QED BY <2>1, <3>1, <3>2 DEF Named
  <2> QED BY <2>1, <2>2 DEF NavigationOrder, NoRepeat
<1> QED BY <1>1, InvHolds, PTL

\* After a stop no navigation that was under way says anything more.
THEOREM StopsFinal == Spec => []StopIsFinal
<1>1. ASSUME Inv PROVE StopIsFinal
  <2>1. DOMAIN trail = 1..Len(trail) /\ StopsStand(trail)
    BY <1>1 DEF Inv, PageInv, Trail
  <2> QED BY <2>1 DEF StopIsFinal, StopsStand
<1> QED BY <1>1, InvHolds, PTL

\* The first page object, when it loads, has the callback that ends it ahead.
THEOREM LoadsDriven == Spec => []LoadingIsDriven
<1>1. ASSUME Inv PROVE LoadingIsDriven
  <2>1. DOMAIN scheduled = 1..Len(scheduled) /\ Driven(scheduled, objects, page)
    BY <1>1 DEF Inv, PageInv
  <2> QED BY <2>1 DEF LoadingIsDriven, Driven, Current
<1> QED BY <1>1, InvHolds, PTL

\* A target that is admitted, of the present page object, is of the document
\* it shows.
THEOREM GenerationsName == Spec => []GenerationNamesDocument
<1>1. Inv => GenerationNamesDocument
  BY DEF Inv, CallInv, TargetInv, GenerationNamesDocument, Admissible, Current
<1> QED BY <1>1, InvHolds, PTL

\* The lease passes on only by a checkpoint of its holder that releases it.
THEOREM HandoverReleased == Spec => HandoverOnlyByRelease
<1> DEFINE Step ==
      writer # None /\ writer' # writer =>
       /\ writer' = None
       /\ Len(checkpoints') = Len(checkpoints) + 1
       /\ checkpoints'[Len(checkpoints')].writer = writer
<1>1. ASSUME Inv, [Next]_vars PROVE Step
  <2> SUFFICES ASSUME writer # None, writer' # writer
               PROVE  /\ writer' = None
                      /\ Len(checkpoints') = Len(checkpoints) + 1
                      /\ checkpoints'[Len(checkpoints')].writer = writer
    OBVIOUS
  <2>1. ~(UNCHANGED vars)
    BY DEF vars, sessionVars
  <2>2. ~AwaitStep
    BY DEF AwaitStep, AwaitRuns, AwaitReturns, AwaitTimesOut, sessionVars
  <2>3. ~PageStep
    BY DEF PageStep, Observe, Navigate, Resolve, Stop, Crash, Move, Invoke, AwaitStarts,
           sessionVars
  <2>4. ASSUME NEW client \in Clients PROVE ~MayAcquire(client) \/ writer' # client
    BY DEF MayAcquire
  <2>5. PICK client \in Clients \union {None}, release \in BOOLEAN :
          Checkpoint(client, release)
    BY <1>1, <2>1, <2>2, <2>3, <2>4
    DEF Next, SessionStep, CreateFirst, CreateAgain, Resume, Grant
  <2>6. /\ checkpoints' = Append(checkpoints,
             [page |-> Current, epoch |-> epoch, writer |-> writer])
        /\ writer' = None
    BY <2>5 DEF Checkpoint
  <2>7. checkpoints \in Seq([page : Page, epoch : Nat, writer : Clients])
    BY <1>1 DEF Inv, LeaseInv
  <2> DEFINE last == [page |-> Current, epoch |-> epoch, writer |-> writer]
  <2>8. last.writer = writer
    OBVIOUS
  <2>9. Len(checkpoints') = Len(checkpoints) + 1 /\ checkpoints'[Len(checkpoints')] = last
    <3> DEFINE C == [page : Page, epoch : Nat, writer : Clients]
    <3> HIDE DEF C, last
    <3>1. PICK q \in Seq(C) : q = checkpoints
      BY <2>7 DEF C
    <3>2. Len(Append(q, last)) = Len(q) + 1 /\ Append(q, last)[Len(q) + 1] = last
      OBVIOUS
    <3> QED BY <2>6, <3>1, <3>2 DEF last
  <2> QED BY <2>6, <2>8, <2>9
<1>2. Inv /\ [Next]_vars => [Step]_vars
  BY <1>1
<1>3. Spec => [][Step]_vars
  BY <1>2, InvHolds, PTL DEF Spec
<1> QED BY <1>3 DEF HandoverOnlyByRelease

=============================================================================
