----------------------- MODULE WebKitGtkSessionProofs -----------------------
(***************************************************************************)
(* Proofs about WebKitGtkSession, for every number of pages, loads, dialogs*)
(* and missed deadlines.  Five invariants, each inductive given those      *)
(* before it:                                                              *)
(*                                                                         *)
(*   ChannelInv  types; what the host waits for is in one place (the inbox,*)
(*               the evaluations or the wire) and is what its call sent;   *)
(*   DialogsInv  a dialog is announced once, and decided at most once;     *)
(*   PagesInv    host and adapter differ by the page that a reply under way*)
(*               closes or opens;                                          *)
(*   ClickInv    the page whose targets the client holds shows the document*)
(*               they were read from, or a reading is under way;           *)
(*   FollowInv   with what is still on the way to it, the host knows of    *)
(*               documents, loads and ended processes what there is.       *)
(*                                                                         *)
(* For each: what the worker's steps do (as few forms of step as its       *)
(* handlers and callbacks have), what the host's do, and the steps' keeping*)
(* of the invariant, an action at a time.                                  *)
(***************************************************************************)
EXTENDS WebKitGtkSession, SequenceTheorems, FiniteSetTheorems, TLAPS

-----------------------------------------------------------------------------
(* The first invariant: types, pages in use, and the channel.               *)

InRequest == call.stage = "request"

\* The request is the one the call in progress has sent.
Sought(r) ==
  /\ InRequest
  /\ \/ call.op = "create" /\ r.op = "session.open"
     \/ call.op \in {"restore", "navigate"} /\ r.op = "page.navigate"
          /\ r.page = call.page
     \/ call.op = "new" /\ r.op = "page.new"
     \/ call.op = "close" /\ r.op = "page.close" /\ r.page = call.page
     \/ call.op = "observe" /\ r.op = "page.observe" /\ r.page = call.page
     \/ call.op = "crash" /\ r.op = "page.terminate" /\ r.page = call.page
     \/ call.op = "decide" /\ r.op = "page.decide" /\ r.token = call.token
     \/ call.op = "targets" /\ r.op = "targets" /\ r.page = active
     \/ call.op = "click" /\ r.op = "click" /\ r.page = active /\ r.target = target

\* What a call waits for follows from the operation.
CallInv ==
  /\ call.stage = "none" => call = NoCall
  /\ call.stage = "request" => call.op \notin {"none", "await"}
  /\ call.stage = "load" => call.op \in {"await", "restore"} /\ call.page \in Pages
  /\ call.stage = "prompt" => call.op = "await"
  /\ call.stage = "death" => call.op = "crash"
  /\ call.stage = "drain" => call.op \in {"click", "decide", "crash"}
  /\ call.op \in {"restore", "close", "navigate", "observe", "targets", "crash"} =>
       call.page \in Pages
  /\ call.op = "decide" => call.token \in Tokens

RequestsInv ==
  /\ \A i \in DOMAIN inbox : inbox[i].op = "page.decide" => inbox[i].token \in Tokens
  /\ \A i \in DOMAIN evaluations :
       /\ evaluations[i].request.op \in {"targets", "click"}
       /\ evaluations[i].request.page \in Pages

\* The calls whose reply names a page.
Opens == call.op \in {"create", "new"}

\* The reply that the host waits for.
Awaited(m) == m.kind = "reply" /\ m.fresh

\* What the host waits for is in one place, and is the newest there.
InboxFresh ==
  \A i \in DOMAIN inbox : inbox[i].fresh => i = Len(inbox) /\ Sought(inbox[i])
EvaluationsFresh ==
  \A i \in DOMAIN evaluations : evaluations[i].request.fresh =>
    /\ inbox = <<>> /\ Sought(evaluations[i].request)
    /\ \A j \in DOMAIN evaluations : evaluations[j].request.fresh => j = i
RepliesFresh ==
  \A k \in DOMAIN wire : Awaited(wire[k]) =>
    /\ inbox = <<>> /\ InRequest
    /\ Opens /\ wire[k].ok => wire[k].value \in Pages
    /\ \A j \in DOMAIN wire : Awaited(wire[j]) => j = k
    /\ \A j \in DOMAIN evaluations : ~evaluations[j].request.fresh
\* Unless a request was given up, nothing else is under way.
NothingStale ==
  timeouts = 0 =>
    /\ \A i \in DOMAIN inbox : inbox[i].fresh
    /\ \A i \in DOMAIN evaluations : evaluations[i].request.fresh
    /\ \A k \in DOMAIN wire : wire[k].kind = "reply" => wire[k].fresh
FreshInv == InboxFresh /\ EvaluationsFresh /\ RepliesFresh /\ NothingStale

\* Pages are numbered in turn, and the requests for new ones have numbers left.
Used == {p \in Pages : views[p].state # "none"}
UsedInv ==
  \E n \in 0..MaxPages :
    /\ Used = 1..n
    /\ \A i \in DOMAIN inbox : inbox[i].op = "page.new" => n + i <= MaxPages

ChannelInv == TypeOK /\ CallInv /\ RequestsInv /\ FreshInv /\ UsedInv

-----------------------------------------------------------------------------
(* Sequences.                                                               *)

\* A sequence one element longer.
LEMMA Appended ==
  ASSUME NEW S, NEW s \in Seq(S), NEW e \in S
  PROVE  LET n == Len(s) + 1
         IN  /\ Append(s, e) \in Seq(S) /\ Len(Append(s, e)) = n
             /\ n \in Nat /\ n \notin DOMAIN s /\ DOMAIN s = 1..Len(s)
             /\ DOMAIN Append(s, e) = DOMAIN s \union {n}
             /\ \A i \in DOMAIN s : Append(s, e)[i] = s[i]
             /\ Append(s, e)[n] = e
<1>1. Len(s) \in Nat /\ DOMAIN s = 1..Len(s)
  BY LenProperties
<1>2. Append(s, e) \in Seq(S) /\ Len(Append(s, e)) = Len(s) + 1
      /\ (\A i \in 1..Len(s) : Append(s, e)[i] = s[i])
      /\ Append(s, e)[Len(s) + 1] = e
  BY AppendProperties
<1>3. DOMAIN Append(s, e) = 1..(Len(s) + 1)
  BY <1>2, LenProperties
<1> QED BY <1>1, <1>2, <1>3

\* A sequence without its head.
LEMMA Taken ==
  ASSUME NEW S, NEW s \in Seq(S), s # <<>>
  PROVE  /\ Tail(s) \in Seq(S) /\ 1 \in DOMAIN s /\ s[1] \in S /\ Head(s) = s[1]
         /\ Len(s) \in Nat /\ Len(Tail(s)) = Len(s) - 1 /\ DOMAIN s = 1..Len(s)
         /\ \A i \in DOMAIN Tail(s) :
              i \in Nat /\ i >= 1 /\ i + 1 \in DOMAIN s /\ Tail(s)[i] = s[i + 1]
<1>1. Len(s) \in Nat \ {0} /\ DOMAIN s = 1..Len(s)
  BY LenProperties, EmptySeq
<1>2. Tail(s) \in Seq(S) /\ Len(Tail(s)) = Len(s) - 1
      /\ \A i \in 1..Len(Tail(s)) : Tail(s)[i] = s[i + 1]
  BY HeadTailProperties
<1>3. DOMAIN Tail(s) = 1..(Len(s) - 1)
  BY <1>2, LenProperties
<1>4. Head(s) = s[1] /\ s[1] \in S
  BY <1>1, ElementOfSeq
<1> QED BY <1>1, <1>2, <1>3, <1>4

\* Two sequences, one behind the other.
LEMMA Joined ==
  ASSUME NEW S, NEW s \in Seq(S), NEW t \in Seq(S)
  PROVE  /\ s \o t \in Seq(S) /\ Len(s) \in Nat /\ DOMAIN s = 1..Len(s)
         /\ DOMAIN s \subseteq DOMAIN (s \o t)
         /\ \A i \in DOMAIN s : i <= Len(s) /\ (s \o t)[i] = s[i]
         /\ \A j \in DOMAIN t : /\ j \in Nat /\ j >= 1 /\ Len(s) + j \in DOMAIN (s \o t)
                                /\ (s \o t)[Len(s) + j] = t[j]
         /\ \A i \in DOMAIN (s \o t) :
              i \in DOMAIN s \/ \E j \in DOMAIN t : i = Len(s) + j
<1>1. /\ Len(s) \in Nat /\ DOMAIN s = 1..Len(s)
      /\ Len(t) \in Nat /\ DOMAIN t = 1..Len(t)
  BY LenProperties
<1>2. /\ s \o t \in Seq(S) /\ Len(s \o t) = Len(s) + Len(t)
      /\ \A i \in 1..(Len(s) + Len(t)) :
           (s \o t)[i] = IF i <= Len(s) THEN s[i] ELSE t[i - Len(s)]
  BY ConcatProperties
<1>3. DOMAIN (s \o t) = 1..(Len(s) + Len(t))
  BY <1>2, LenProperties
<1>4. ASSUME NEW j \in DOMAIN t
      PROVE  /\ j \in Nat /\ j >= 1 /\ Len(s) + j \in DOMAIN (s \o t)
             /\ (s \o t)[Len(s) + j] = t[j]
  <2>1. j \in Nat /\ j >= 1 /\ Len(s) + j \in 1..(Len(s) + Len(t))
        /\ ~(Len(s) + j <= Len(s)) /\ (Len(s) + j) - Len(s) = j
    BY <1>1
  <2> QED BY <1>2, <1>3, <2>1
<1>5. ASSUME NEW i \in DOMAIN (s \o t)
      PROVE  i \in DOMAIN s \/ \E j \in DOMAIN t : i = Len(s) + j
  <2>1. CASE i <= Len(s)
    BY <1>1, <1>3, <2>1
  <2>2. CASE ~(i <= Len(s))
    <3>1. i - Len(s) \in DOMAIN t /\ i = Len(s) + (i - Len(s))
      BY <1>1, <1>3, <2>2
    <3> QED BY <3>1
  <2> QED BY <2>1, <2>2
<1>6. \A i \in DOMAIN s : i \in DOMAIN (s \o t) /\ i <= Len(s) /\ (s \o t)[i] = s[i]
  BY <1>1, <1>2, <1>3
<1> QED BY <1>1, <1>2, <1>4, <1>5, <1>6

\* A sequence keeps its type and domain when its elements are replaced.
LEMMA Mapped ==
  ASSUME NEW S, NEW s \in Seq(S), NEW t, DOMAIN t = DOMAIN s, t = [i \in DOMAIN t |-> t[i]],
         \A i \in DOMAIN t : t[i] \in S
  PROVE  t \in Seq(S) /\ Len(t) = Len(s)
<1>1. DOMAIN s = 1..Len(s) /\ Len(s) \in Nat
  BY LenProperties
<1>2. t \in Seq(S)
  BY <1>1
<1>3. DOMAIN t = 1..Len(t) /\ Len(t) \in Nat
  BY <1>2, LenProperties
<1> QED BY <1>1, <1>2, <1>3

LEMMA One ==
  ASSUME NEW S, NEW a \in S
  PROVE  <<a>> \in Seq(S) /\ DOMAIN <<a>> = {1} /\ <<a>>[1] = a
OBVIOUS

LEMMA Two ==
  ASSUME NEW S, NEW a \in S, NEW b \in S
  PROVE  /\ <<a, b>> \in Seq(S) /\ DOMAIN <<a, b>> = {1, 2}
         /\ <<a, b>>[1] = a /\ <<a, b>>[2] = b
<1>1. DOMAIN <<a, b>> = 1..2
  OBVIOUS
<1> QED BY <1>1

\* A sequence with one element replaced.
LEMMA Put ==
  ASSUME NEW a, NEW b
  PROVE  Append(<<>>, b) = <<b>> /\ Append(<<a>>, b) = <<a, b>>
<1> PICK S : S = {a, b}
  OBVIOUS
<1>1. /\ <<>> \in Seq(S) /\ <<a>> \in Seq(S) /\ <<b>> \in Seq(S) /\ <<a, b>> \in Seq(S)
      /\ Len(<<>>) = 0 /\ Len(<<a>>) = 1 /\ Len(<<b>>) = 1 /\ Len(<<a, b>>) = 2
  OBVIOUS
<1>2. Append(<<>>, b) = <<b>>
  OBVIOUS
<1> DEFINE s == Append(<<a>>, b)
           t == <<a, b>>
<1>3. s \in Seq(S) /\ Len(s) = 2 /\ s[1] = a /\ s[2] = b
  BY <1>1, AppendProperties
<1>4. t \in Seq(S) /\ Len(t) = 2 /\ t[1] = a /\ t[2] = b
  BY <1>1
<1> HIDE DEF s, t
<1>5. \A i \in 1..2 : s[i] = t[i]
  BY <1>3, <1>4
<1>6. s = t
  BY <1>3, <1>4, <1>5, SeqEqual
<1> QED BY <1>2, <1>6 DEF s, t

LEMMA Nothing ==
  ASSUME NEW S, NEW s \in Seq(S), s = <<>>
  PROVE  DOMAIN s = {} /\ Len(s) = 0
OBVIOUS

\* A sequence without an element.
Without(s, i) == SubSeq(s, 1, i - 1) \o SubSeq(s, i + 1, Len(s))

\* A sequence without its i-th element.
LEMMA Removed ==
  ASSUME NEW S, NEW s \in Seq(S), NEW i \in DOMAIN s
  PROVE  /\ Without(s, i) \in Seq(S)
         /\ \A j \in DOMAIN Without(s, i) :
              /\ j \in Nat
              /\ j < i => j \in DOMAIN s \ {i} /\ Without(s, i)[j] = s[j]
              /\ ~(j < i) => j + 1 \in DOMAIN s \ {i} /\ Without(s, i)[j] = s[j + 1]
<1>1. Len(s) \in Nat /\ i \in 1..Len(s) /\ DOMAIN s = 1..Len(s)
  BY LenProperties
<1> DEFINE a == SubSeq(s, 1, i - 1)
           b == SubSeq(s, i + 1, Len(s))
<1>2. /\ a \in Seq(S) /\ Len(a) = i - 1 /\ \A j \in 1..(i - 1) : a[j] = s[j]
  <2>1. /\ 1 \in 1..(Len(s) + 1) /\ i - 1 \in 0..Len(s) /\ 1..(i - 1) \subseteq DOMAIN s
    BY <1>1
  <2>2. /\ Len(a) = IF 1 <= i - 1 THEN (i - 1) - 1 + 1 ELSE 0
        /\ \A j \in 1..((i - 1) - 1 + 1) : a[j] = s[1 + j - 1]
    BY <1>1, <2>1, SubSeqProperties
  <2>3. a \in Seq(S)
    BY <1>1, <2>1, SubSeqProperties
  <2> QED BY <1>1, <2>2, <2>3
<1>3. /\ b \in Seq(S) /\ Len(b) = Len(s) - i
      /\ \A j \in 1..(Len(s) - i) : b[j] = s[i + j]
  <2>1. i + 1 \in 1..(Len(s) + 1) /\ Len(s) \in i..Len(s)
    BY <1>1
  <2>2. b \in Seq(S)
    BY <1>1, <2>1, SubSeqProperties
  <2>3. /\ Len(b) = IF i + 1 <= Len(s) THEN Len(s) - (i + 1) + 1 ELSE 0
        /\ \A j \in 1..(Len(s) - (i + 1) + 1) : b[j] = s[(i + 1) + j - 1]
    BY <1>1, <2>1, SubSeqProperties
  <2> QED BY <1>1, <2>2, <2>3
<1> HIDE DEF a, b
<1>4. /\ a \o b \in Seq(S) /\ Len(a \o b) = (i - 1) + (Len(s) - i)
      /\ \A j \in 1..((i - 1) + (Len(s) - i)) :
           (a \o b)[j] = IF j <= i - 1 THEN a[j] ELSE b[j - (i - 1)]
  <2>1. a \in Seq(S) /\ b \in Seq(S) /\ Len(a) = i - 1 /\ Len(b) = Len(s) - i
    BY <1>2, <1>3
  <2>2. /\ a \o b \in Seq(S) /\ Len(a \o b) = Len(a) + Len(b)
        /\ \A j \in 1..(Len(a) + Len(b)) :
             (a \o b)[j] = IF j <= Len(a) THEN a[j] ELSE b[j - Len(a)]
    BY <2>1, ConcatProperties
  <2> QED BY <2>1, <2>2
<1>5. DOMAIN (a \o b) = 1..(Len(s) - 1)
  <2>1. DOMAIN (a \o b) = 1..Len(a \o b)
    BY <1>4, LenProperties
  <2> QED BY <1>1, <1>4, <2>1
<1>6. ASSUME NEW j \in DOMAIN (a \o b)
      PROVE  /\ j \in Nat
             /\ j < i => j \in DOMAIN s \ {i} /\ (a \o b)[j] = s[j]
             /\ ~(j < i) => j + 1 \in DOMAIN s \ {i} /\ (a \o b)[j] = s[j + 1]
  <2>1. j \in 1..(Len(s) - 1)
    BY <1>5
  <2>2. CASE j < i
    <3>1. j <= i - 1 /\ j \in 1..(i - 1) /\ j \in 1..((i - 1) + (Len(s) - i))
      BY <1>1, <2>1, <2>2
    <3> QED BY <1>1, <1>2, <1>4, <2>1, <2>2, <3>1
  <2>3. CASE ~(j < i)
    <3>1. ~(j <= i - 1) /\ j - (i - 1) \in 1..(Len(s) - i)
          /\ j \in 1..((i - 1) + (Len(s) - i)) /\ i + (j - (i - 1)) = j + 1
          /\ j + 1 \in DOMAIN s \ {i}
      BY <1>1, <2>1, <2>3
    <3>2. (a \o b)[j] = b[j - (i - 1)]
      BY <1>4, <3>1
    <3>3. b[j - (i - 1)] = s[j + 1]
      BY <1>3, <3>1
    <3> QED BY <2>1, <2>3, <3>1, <3>2, <3>3
  <2> QED BY <2>2, <2>3
<1>7. Without(s, i) = a \o b
  BY DEF Without, a, b
<1> QED BY <1>4, <1>6, <1>7

-----------------------------------------------------------------------------
(* The records the actions are built from.                                  *)

LEMMA PagesAre ==
  /\ Pages = 1..MaxPages /\ Pages \subseteq Nat \ {0} /\ Pages \subseteq 0..MaxPages
  /\ 0 \in 0..MaxPages /\ 1 \in Pages /\ 0 \notin Pages
BY WorkerAssumption DEF Pages

LEMMA Types ==
  ASSUME TypeOK
  PROVE  /\ inbox \in Seq(Request) /\ wire \in Seq(Message)
         /\ evaluations \in Seq(Evaluation) /\ views \in [Pages -> View]
         /\ target \in Target /\ call \in Call /\ active \in 0..MaxPages
         /\ pages \in [Pages -> Page]
         /\ prompts \in [Tokens -> {"absent", "pending", "resolved"}]
         /\ timeouts \in Nat
BY DEF TypeOK, WorkerTypeOK

LEMMA QueryIs ==
  ASSUME NEW op \in Op, NEW p \in 0..MaxPages, NEW t \in Tokens \union {None},
         NEW read \in Target
  PROVE  LET r == Query(op, p, t, read)
         IN  /\ r \in Request /\ r.op = op /\ r.page = p /\ r.token = t
             /\ r.target = read /\ r.fresh
BY DEF Query, Request

LEMMA RequestIs ==
  ASSUME NEW r \in Request
  PROVE  /\ r.op \in Op /\ r.page \in 0..MaxPages /\ r.token \in Tokens \union {None}
         /\ r.target \in Target /\ r.fresh \in BOOLEAN
BY DEF Request

LEMMA NoTargetIs == NoTarget \in Target
BY PagesAre DEF NoTarget, Target

LEMMA ReplyIsMessage ==
  ASSUME NEW r \in Request, NEW ok \in BOOLEAN, NEW v \in Nat
  PROVE  LET m == Reply(r, ok, v)
         IN  /\ m \in Message /\ m.kind = "reply" /\ m.ok = ok /\ m.value = v
             /\ m.fresh = r.fresh
BY RequestIs DEF Reply, Message

LEMMA EventIsMessage ==
  ASSUME NEW kind \in LoadEvent \union {"terminated"}, NEW p \in Pages
  PROVE  LET m == Event(kind, p)
         IN  m \in Message /\ m.kind = kind /\ m.page = p /\ m.kind # "reply"
BY DEF Event, Message, LoadEvent

LEMMA DialogIsMessage ==
  ASSUME NEW p \in Pages, NEW t \in Tokens
  PROVE  LET m == [kind |-> "dialog", page |-> p, token |-> t]
         IN  /\ m \in Message /\ m.kind = "dialog" /\ m.page = p /\ m.token = t
BY DEF Message

LEMMA MessageIs ==
  ASSUME NEW m \in Message
  PROVE  /\ m.kind \in LoadEvent \union {"terminated", "dialog", "reply"}
         /\ m.kind = "reply" =>
              m.ok \in BOOLEAN /\ m.value \in Nat /\ m.fresh \in BOOLEAN
              /\ [m EXCEPT !.fresh = FALSE] \in Message
         /\ m.kind # "reply" => m.page \in Pages
         /\ m.kind = "dialog" => m.token \in Tokens
BY DEF Message, LoadEvent

\* The wire grows by these messages.
Adds(ms) == wire' = wire \o ms

\* What a worker step adds to the wire.
LEMMA Emits ==
  ASSUME NEW ms, Emit(ms)
  PROVE  Adds(ms)
BY DEF Emit, Adds

-----------------------------------------------------------------------------
(* What the worker's steps do to views and evaluations.                     *)

\* No other page changes.
OnlyPage(p) == views' \in [Pages -> View] /\ \A q \in Pages \ {p} : views'[q] = views[q]

\* The evaluations are the same ones.
EvaluationsStay ==
  /\ evaluations' \in Seq(Evaluation) /\ DOMAIN evaluations' = DOMAIN evaluations
  /\ \A i \in DOMAIN evaluations :
       /\ evaluations'[i].request = evaluations[i].request
       /\ \/ evaluations'[i] = evaluations[i]
          \/ evaluations[i].stage # "done" /\ evaluations'[i].stage = "failed"

\* Replacing one view.
LEMMA ViewPut ==
  ASSUME TypeOK, NEW p \in Pages, NEW v \in View, views' = [views EXCEPT ![p] = v]
  PROVE  OnlyPage(p) /\ views'[p] = v
BY Types DEF OnlyPage

LEMMA GoneIs ==
  ASSUME TypeOK, NEW p \in Pages, NEW state \in {"closed", "dead"},
         views' = Gone(p, state)
  PROVE  /\ OnlyPage(p) /\ views'[p].state = state
         /\ views'[p].document = views[p].document /\ views'[p].load = "none"
         /\ views'[p].marked = FALSE
<1> DEFINE v == [views[p] EXCEPT !.state = state, !.load = "none", !.byHost = FALSE,
                                 !.marked = FALSE]
<1>1. views[p] \in View
  BY Types
<1>2. /\ v \in View /\ v.state = state /\ v.document = views[p].document
      /\ v.load = "none" /\ v.marked = FALSE
  BY <1>1 DEF View
<1>3. views' = [views EXCEPT ![p] = v]
  BY DEF Gone
<1> HIDE DEF v
<1> QED BY <1>2, <1>3, ViewPut

\* A view that begins to load.
LEMMA LoadingIs ==
  ASSUME TypeOK, NEW p \in Pages, NEW byHost \in BOOLEAN, views' = Loading(p, byHost)
  PROVE  /\ OnlyPage(p) /\ views'[p].state = "live"
         /\ views'[p].document = views[p].document /\ views'[p].load = "requested"
         /\ views'[p].marked = views[p].marked
<1> DEFINE v == [views[p] EXCEPT !.state = "live", !.load = "requested",
                                 !.byHost = byHost]
<1>1. views[p] \in View
  BY Types
<1>2. /\ v \in View /\ v.state = "live" /\ v.document = views[p].document
      /\ v.load = "requested" /\ v.marked = views[p].marked
  BY <1>1 DEF View
<1>3. views' = [views EXCEPT ![p] = v]
  BY DEF Loading
<1> HIDE DEF v
<1> QED BY <1>2, <1>3, ViewPut

LEMMA AdvancesIs ==
  ASSUME TypeOK, NEW p \in Pages, NEW from, NEW to \in {"none", "started"},
         Advances(p, from, to)
  PROVE  /\ OnlyPage(p) /\ views'[p].state = views[p].state /\ views[p].load \in from
         /\ views'[p].document = views[p].document /\ views'[p].load = to
         /\ views'[p].marked = views[p].marked
         /\ UNCHANGED <<inbox, evaluations, dialogs, loads, decided, strays>>
<1> PICK b : b = (views[p].byHost /\ to # "none")
  OBVIOUS
<1> DEFINE v == [views[p] EXCEPT !.load = to, !.byHost = b]
<1>1. views \in [Pages -> View] /\ views[p] \in View
  BY Types
<1>2. b \in BOOLEAN
  OBVIOUS
<1>3. /\ v \in View /\ v.state = views[p].state /\ v.document = views[p].document
      /\ v.load = to /\ v.marked = views[p].marked
  BY <1>1, <1>2 DEF View
<1>4. views' = [views EXCEPT ![p] = v]
  <2>1. views' = [[views EXCEPT ![p] = [views[p] EXCEPT !.load = to]] EXCEPT
                    ![p] = [[views EXCEPT ![p] = [views[p] EXCEPT !.load = to]][p]
                              EXCEPT !.byHost =
                [views EXCEPT ![p] = [views[p] EXCEPT !.load = to]][p].byHost
                  /\ to # "none"]]
    BY DEF Advances
  <2> DEFINE u == [views[p] EXCEPT !.load = to]
  <2>2. [views EXCEPT ![p] = u][p] = u
    BY <1>1
  <2>3. u.byHost = views[p].byHost
    BY <1>1 DEF View
  <2>4. views' = [[views EXCEPT ![p] = u] EXCEPT ![p] = [u EXCEPT !.byHost = b]]
    BY <2>1, <2>2, <2>3
  <2>5. [u EXCEPT !.byHost = b] = v
    BY <1>1 DEF View
  <2> HIDE DEF u, v
  <2>6. views' = [[views EXCEPT ![p] = u] EXCEPT ![p] = v]
    BY <2>4, <2>5
  <2> QED BY <1>1, <2>6
<1> HIDE DEF v
<1>5. OnlyPage(p) /\ views'[p] = v
  BY <1>3, <1>4, ViewPut
<1> QED BY <1>3, <1>5 DEF Advances

LEMMA FailedIs ==
  ASSUME TypeOK, NEW p \in Pages, evaluations' = Failed(p)
  PROVE  EvaluationsStay
<1>1. evaluations \in Seq(Evaluation)
  BY Types
<1> DEFINE f(i) == IF evaluations[i].request.page = p /\ evaluations[i].stage # "done"
                   THEN [evaluations[i] EXCEPT !.stage = "failed"] ELSE evaluations[i]
<1>2. evaluations' = [i \in DOMAIN evaluations |-> f(i)]
  BY DEF Failed
<1>3. ASSUME NEW i \in DOMAIN evaluations
      PROVE  /\ f(i) \in Evaluation /\ f(i).request = evaluations[i].request
             /\ \/ f(i) = evaluations[i]
                \/ evaluations[i].stage # "done" /\ f(i).stage = "failed"
  <2>1. evaluations[i] \in Evaluation
    BY <1>1, ElementOfSeq, LenProperties
  <2>2. /\ [evaluations[i] EXCEPT !.stage = "failed"] \in Evaluation
        /\ [evaluations[i] EXCEPT !.stage = "failed"].request = evaluations[i].request
        /\ [evaluations[i] EXCEPT !.stage = "failed"].stage = "failed"
    BY <2>1 DEF Evaluation
  <2> QED BY <2>1, <2>2
<1> HIDE DEF f
<1>4. /\ DOMAIN evaluations' = DOMAIN evaluations
      /\ evaluations' = [i \in DOMAIN evaluations' |-> evaluations'[i]]
      /\ \A i \in DOMAIN evaluations : evaluations'[i] = f(i)
  BY <1>2
<1>5. evaluations' \in Seq(Evaluation)
  BY <1>1, <1>3, <1>4, Mapped
<1> QED BY <1>3, <1>4, <1>5 DEF EvaluationsStay

LEMMA ScriptEndsIs ==
  ASSUME TypeOK, NEW i \in DOMAIN evaluations, NEW e \in Evaluation,
         e.request = evaluations[i].request,
         evaluations' = [evaluations EXCEPT ![i] = e]
  PROVE  /\ evaluations' \in Seq(Evaluation) /\ DOMAIN evaluations' = DOMAIN evaluations
         /\ \A j \in DOMAIN evaluations :
              evaluations'[j].request = evaluations[j].request
         /\ evaluations'[i] = e
         /\ \A j \in DOMAIN evaluations \ {i} : evaluations'[j] = evaluations[j]
<1>1. evaluations \in Seq(Evaluation) /\ i \in 1..Len(evaluations)
      /\ DOMAIN evaluations = 1..Len(evaluations)
  BY Types, LenProperties
<1>2. /\ evaluations' \in Seq(Evaluation) /\ Len(evaluations') = Len(evaluations)
      /\ \A j \in 1..Len(evaluations) :
           evaluations'[j] = IF j = i THEN e ELSE evaluations[j]
  BY <1>1, ExceptSeq
<1>3. DOMAIN evaluations' = 1..Len(evaluations)
  BY <1>2, LenProperties
<1> QED BY <1>1, <1>2, <1>3

RequestsStay ==
  /\ evaluations' \in Seq(Evaluation) /\ DOMAIN evaluations' = DOMAIN evaluations
  /\ \A i \in DOMAIN evaluations : evaluations'[i].request = evaluations[i].request

-----------------------------------------------------------------------------
(* What the worker's steps do to the channel.                               *)

\* The inbox without the request that is served.
LEMMA InboxTaken ==
  ASSUME TypeOK, inbox # <<>>, inbox' = Tail(inbox)
  PROVE  /\ inbox' \in Seq(Request) /\ Head(inbox) \in Request /\ Head(inbox) = inbox[1]
         /\ 1 \in DOMAIN inbox /\ Len(inbox) \in Nat /\ Len(inbox') = Len(inbox) - 1
         /\ \A i \in DOMAIN inbox' :
              i \in Nat /\ i >= 1 /\ i + 1 \in DOMAIN inbox /\ inbox'[i] = inbox[i + 1]
<1>1. inbox \in Seq(Request)
  BY Types
<1> QED BY <1>1, Taken

\* The wire with new messages behind the old.
LEMMA WireJoined ==
  ASSUME TypeOK, NEW ms \in Seq(Message), Adds(ms)
  PROVE  /\ wire' \in Seq(Message) /\ Len(wire) \in Nat /\ DOMAIN wire = 1..Len(wire)
         /\ \A k \in DOMAIN wire : k <= Len(wire) /\ k \in DOMAIN wire' /\ wire'[k] = wire[k]
         /\ \A j \in DOMAIN ms : /\ j \in Nat /\ j >= 1 /\ Len(wire) + j \in DOMAIN wire'
                                 /\ wire'[Len(wire) + j] = ms[j]
         /\ \A k \in DOMAIN wire' :
              k \in DOMAIN wire \/ \E j \in DOMAIN ms : k = Len(wire) + j
<1>1. wire \in Seq(Message)
  BY Types
<1> QED BY <1>1, Joined DEF Adds

LEMMA WireSame ==
  ASSUME TypeOK, UNCHANGED wire
  PROVE  wire' \in Seq(Message)
BY Types

\* Answering a request: the answer is awaited if the request was.
LEMMA AnswerKeepsFresh ==
  ASSUME TypeOK, FreshInv, inbox # <<>>, inbox' = Tail(inbox),
         NEW ms \in Seq(Message), Adds(ms), RequestsStay,
         UNCHANGED <<call, active, target, timeouts>>,
         \A i, j \in DOMAIN ms : ms[i].kind = "reply" /\ ms[j].kind = "reply" => i = j,
         \A j \in DOMAIN ms : ms[j].kind = "reply" =>
           /\ ms[j].fresh = Head(inbox).fresh
           /\ Head(inbox).op \in {"session.open", "page.new"} /\ ms[j].ok =>
                ms[j].value \in Pages
  PROVE  FreshInv'
<1> PICK r : r = Head(inbox)
  OBVIOUS
<1>1. /\ inbox' \in Seq(Request) /\ r = inbox[1]
      /\ 1 \in DOMAIN inbox /\ Len(inbox) \in Nat /\ Len(inbox') = Len(inbox) - 1
      /\ \A i \in DOMAIN inbox' :
           i \in Nat /\ i >= 1 /\ i + 1 \in DOMAIN inbox /\ inbox'[i] = inbox[i + 1]
  BY InboxTaken
<1>2. /\ wire' \in Seq(Message)
      /\ \A k \in DOMAIN wire : k <= Len(wire) /\ k \in DOMAIN wire' /\ wire'[k] = wire[k]
      /\ \A j \in DOMAIN ms : /\ j \in Nat /\ j >= 1 /\ Len(wire) + j \in DOMAIN wire'
                              /\ wire'[Len(wire) + j] = ms[j]
      /\ \A k \in DOMAIN wire' :
           k \in DOMAIN wire \/ \E j \in DOMAIN ms : k = Len(wire) + j
  BY WireJoined
<1>3. \A q : Sought(q)' <=> Sought(q)
  BY DEF Sought, InRequest
<1>4. /\ \A i \in DOMAIN evaluations : ~evaluations[i].request.fresh
      /\ \A k \in DOMAIN wire : ~Awaited(wire[k])
  BY DEF FreshInv, EvaluationsFresh, RepliesFresh
<1>5. \A i \in DOMAIN evaluations' : ~evaluations'[i].request.fresh
  BY <1>4 DEF RequestsStay
<1>6. InboxFresh'
  <2> SUFFICES ASSUME NEW i \in DOMAIN inbox', inbox'[i].fresh
               PROVE  i = Len(inbox') /\ Sought(inbox'[i])
    BY <1>3 DEF InboxFresh
  <2>1. i + 1 = Len(inbox) /\ Sought(inbox[i + 1])
    BY <1>1 DEF FreshInv, InboxFresh
  <2> QED BY <1>1, <2>1
<1>7. EvaluationsFresh'
  BY <1>5 DEF EvaluationsFresh
<1>8. RepliesFresh'
  <2> SUFFICES ASSUME NEW k \in DOMAIN wire', Awaited(wire'[k])
               PROVE  /\ inbox' = <<>> /\ InRequest
                      /\ Opens /\ wire'[k].ok => wire'[k].value \in Pages
                      /\ \A j \in DOMAIN wire' : Awaited(wire'[j]) => j = k
    BY <1>5 DEF RepliesFresh, InRequest, Opens, Awaited
  <2>1. ASSUME NEW h \in DOMAIN wire', Awaited(wire'[h])
        PROVE  \E j \in DOMAIN ms : h = Len(wire) + j /\ wire'[h] = ms[j] /\ Awaited(ms[j])
    BY <1>2, <1>4, <2>1
  <2>2. PICK j \in DOMAIN ms : k = Len(wire) + j /\ wire'[k] = ms[j] /\ Awaited(ms[j])
    BY <2>1
  <2>3. r.fresh
    BY <2>2 DEF Awaited
  <2>4. 1 = Len(inbox) /\ Sought(r)
    BY <1>1, <2>3 DEF FreshInv, InboxFresh
  <2>5. inbox' = <<>>
    BY <1>1, <2>4, EmptySeq
  <2>6. Opens => r.op \in {"session.open", "page.new"}
    BY <2>4 DEF Opens, Sought
  <2>7. \A h \in DOMAIN wire' : Awaited(wire'[h]) => h = k
    BY <2>1, <2>2 DEF Awaited
  <2> QED BY <2>2, <2>4, <2>5, <2>6, <2>7 DEF Sought, Awaited
<1>9. NothingStale'
  <2> SUFFICES ASSUME timeouts = 0
               PROVE  /\ \A i \in DOMAIN inbox' : inbox'[i].fresh
                      /\ \A i \in DOMAIN evaluations' : evaluations'[i].request.fresh
                      /\ \A k \in DOMAIN wire' : wire'[k].kind = "reply" => wire'[k].fresh
    BY DEF NothingStale
  <2>1. /\ \A i \in DOMAIN inbox : inbox[i].fresh
        /\ \A i \in DOMAIN evaluations : evaluations[i].request.fresh
        /\ \A k \in DOMAIN wire : wire[k].kind = "reply" => wire[k].fresh
    BY DEF FreshInv, NothingStale
  <2>2. r.fresh
    BY <1>1, <2>1
  <2>3. \A i \in DOMAIN inbox' : inbox'[i].fresh
    BY <1>1, <2>1
  <2>4. \A k \in DOMAIN wire' : wire'[k].kind = "reply" => wire'[k].fresh
    <3> SUFFICES ASSUME NEW k \in DOMAIN wire', wire'[k].kind = "reply"
                 PROVE  wire'[k].fresh
      OBVIOUS
    <3>1. CASE k \in DOMAIN wire
      BY <1>2, <2>1, <3>1
    <3>2. CASE k \notin DOMAIN wire
      <4>1. PICK j \in DOMAIN ms : k = Len(wire) + j
        BY <1>2, <3>2
      <4>2. wire'[k] = ms[j]
        BY <1>2, <4>1
      <4> QED BY <2>2, <4>2
    <3> QED BY <3>1, <3>2
  <2> QED BY <2>1, <2>3, <2>4 DEF RequestsStay
<1> QED BY <1>6, <1>7, <1>8, <1>9 DEF FreshInv

\* Events of the engine leave the requests as they are.
LEMMA EventsKeepFresh ==
  ASSUME TypeOK, FreshInv, NEW ms \in Seq(Message), Adds(ms), RequestsStay,
         UNCHANGED <<inbox, call, active, target, timeouts>>,
         \A j \in DOMAIN ms : ms[j].kind # "reply"
  PROVE  FreshInv'
<1>1. /\ \A k \in DOMAIN wire : k \in DOMAIN wire' /\ wire'[k] = wire[k]
      /\ \A k \in DOMAIN wire' :
           k \in DOMAIN wire \/ \E j \in DOMAIN ms : k = Len(wire) + j /\ wire'[k] = ms[j]
  BY WireJoined
<1>2. \A k \in DOMAIN wire' : wire'[k].kind = "reply" =>
        k \in DOMAIN wire /\ wire'[k] = wire[k]
  BY <1>1
<1>3. \A q : Sought(q)' <=> Sought(q)
  BY DEF Sought, InRequest
<1>4. InboxFresh' /\ EvaluationsFresh'
  BY <1>3 DEF FreshInv, InboxFresh, EvaluationsFresh, RequestsStay
<1>5. RepliesFresh'
  BY <1>2 DEF FreshInv, RepliesFresh, RequestsStay, InRequest, Opens, Awaited
<1>6. NothingStale'
  BY <1>2 DEF FreshInv, NothingStale, RequestsStay
<1> QED BY <1>4, <1>5, <1>6 DEF FreshInv

LEMMA NoEventsKeepFresh ==
  ASSUME FreshInv, RequestsStay,
         UNCHANGED <<wire, inbox, call, active, target, timeouts>>
  PROVE  FreshInv'
<1>3. \A q : Sought(q)' <=> Sought(q)
  BY DEF Sought, InRequest
<1>4. InboxFresh' /\ EvaluationsFresh'
  BY <1>3 DEF FreshInv, InboxFresh, EvaluationsFresh, RequestsStay
<1>5. RepliesFresh'
  BY DEF FreshInv, RepliesFresh, RequestsStay, InRequest, Opens, Awaited
<1>6. NothingStale'
  BY DEF FreshInv, NothingStale, RequestsStay
<1> QED BY <1>4, <1>5, <1>6 DEF FreshInv

\* A script waits for its turn: its request is awaited if it was.
LEMMA EvaluateKeepsFresh ==
  ASSUME TypeOK, FreshInv, inbox # <<>>, inbox' = Tail(inbox),
         NEW e \in Evaluation, e.request = Head(inbox),
         evaluations' = Append(evaluations, e),
         UNCHANGED <<wire, call, active, target, timeouts>>
  PROVE  FreshInv'
<1> PICK r : r = Head(inbox)
  OBVIOUS
<1> PICK n : n = Len(evaluations) + 1
  OBVIOUS
<1>1. /\ inbox' \in Seq(Request) /\ r = inbox[1]
      /\ 1 \in DOMAIN inbox /\ Len(inbox) \in Nat /\ Len(inbox') = Len(inbox) - 1
      /\ \A i \in DOMAIN inbox' :
           i \in Nat /\ i >= 1 /\ i + 1 \in DOMAIN inbox /\ inbox'[i] = inbox[i + 1]
  BY InboxTaken
<1>2. /\ n \notin DOMAIN evaluations
      /\ DOMAIN evaluations' = DOMAIN evaluations \union {n}
      /\ \A i \in DOMAIN evaluations : evaluations'[i] = evaluations[i]
      /\ evaluations'[n] = e
  <2>1. evaluations \in Seq(Evaluation)
    BY Types
  <2> QED BY <2>1, Appended
<1>3. \A q : Sought(q)' <=> Sought(q)
  BY DEF Sought, InRequest
<1>4. /\ \A i \in DOMAIN evaluations : ~evaluations[i].request.fresh
      /\ \A k \in DOMAIN wire : ~Awaited(wire[k])
  BY DEF FreshInv, EvaluationsFresh, RepliesFresh
<1>5. InboxFresh'
  <2> SUFFICES ASSUME NEW i \in DOMAIN inbox', inbox'[i].fresh
               PROVE  i = Len(inbox') /\ Sought(inbox'[i])
    BY <1>3 DEF InboxFresh
  <2>1. i + 1 = Len(inbox) /\ Sought(inbox[i + 1])
    BY <1>1 DEF FreshInv, InboxFresh
  <2> QED BY <1>1, <2>1
<1>6. EvaluationsFresh'
  <2> SUFFICES ASSUME NEW i \in DOMAIN evaluations', evaluations'[i].request.fresh
               PROVE  /\ inbox' = <<>> /\ Sought(evaluations'[i].request)
                      /\ \A j \in DOMAIN evaluations' :
                           evaluations'[j].request.fresh => j = i
    BY <1>3 DEF EvaluationsFresh
  <2>1. i = n /\ r.fresh /\ evaluations'[i].request = r
    BY <1>2, <1>4
  <2>2. 1 = Len(inbox) /\ Sought(r)
    BY <1>1, <2>1 DEF FreshInv, InboxFresh
  <2>3. inbox' = <<>>
    BY <1>1, <2>2, EmptySeq
  <2> QED BY <1>2, <1>4, <2>1, <2>2, <2>3
<1>7. RepliesFresh'
  BY <1>4 DEF RepliesFresh
<1>8. NothingStale'
  <2> SUFFICES ASSUME timeouts = 0
               PROVE  /\ \A i \in DOMAIN inbox' : inbox'[i].fresh
                      /\ \A i \in DOMAIN evaluations' : evaluations'[i].request.fresh
                      /\ \A k \in DOMAIN wire : wire[k].kind = "reply" => wire[k].fresh
    BY DEF NothingStale
  <2>1. /\ \A i \in DOMAIN inbox : inbox[i].fresh
        /\ \A i \in DOMAIN evaluations : evaluations[i].request.fresh
        /\ \A k \in DOMAIN wire : wire[k].kind = "reply" => wire[k].fresh
    BY DEF FreshInv, NothingStale
  <2> QED BY <1>1, <1>2, <2>1
<1> QED BY <1>5, <1>6, <1>7, <1>8 DEF FreshInv

\* The reply of a script is awaited if its request was.
LEMMA ScriptReplyKeepsFresh ==
  ASSUME TypeOK, FreshInv, RequestsInv, NEW i \in DOMAIN evaluations,
         evaluations' = Without(evaluations, i),
         NEW ok \in BOOLEAN, NEW v \in Nat,
         Adds(<<Reply(evaluations[i].request, ok, v)>>),
         UNCHANGED <<inbox, call, active, target, timeouts>>
  PROVE  FreshInv'
<1> PICK r : r = evaluations[i].request
  OBVIOUS
<1> PICK m : m = Reply(r, ok, v)
  OBVIOUS
<1>1. /\ evaluations \in Seq(Evaluation) /\ evaluations[i] \in Evaluation
      /\ r \in Request
  <2>1. evaluations \in Seq(Evaluation)
    BY Types
  <2>2. evaluations[i] \in Evaluation
    BY <2>1, ElementOfSeq, LenProperties
  <2> QED BY <2>1, <2>2 DEF Evaluation
<1>2. \A j \in DOMAIN evaluations' :
        /\ j \in Nat
        /\ j < i => j \in DOMAIN evaluations \ {i} /\ evaluations'[j] = evaluations[j]
        /\ ~(j < i) => j + 1 \in DOMAIN evaluations \ {i}
                       /\ evaluations'[j] = evaluations[j + 1]
  BY <1>1, Removed
<1>3. m \in Message /\ m.kind = "reply" /\ m.fresh = r.fresh
  BY <1>1, ReplyIsMessage
<1>4. \A k \in DOMAIN wire' :
        \/ k \in DOMAIN wire /\ wire'[k] = wire[k]
        \/ k = Len(wire) + 1 /\ wire'[k] = m
  <2>1. <<m>> \in Seq(Message) /\ DOMAIN <<m>> = {1} /\ <<m>>[1] = m
    BY <1>3, One
  <2>2. Adds(<<m>>)
    OBVIOUS
  <2>3. /\ \A k \in DOMAIN wire : k \in DOMAIN wire' /\ wire'[k] = wire[k]
        /\ \A j \in DOMAIN <<m>> : wire'[Len(wire) + j] = <<m>>[j]
        /\ \A k \in DOMAIN wire' :
             k \in DOMAIN wire \/ \E j \in DOMAIN <<m>> : k = Len(wire) + j
    BY <2>1, <2>2, WireJoined
  <2> QED BY <2>1, <2>3
<1>5. \A q : Sought(q)' <=> Sought(q)
  BY DEF Sought, InRequest
<1>6. \A j \in DOMAIN evaluations' : \E k \in DOMAIN evaluations \ {i} :
         /\ evaluations'[j] = evaluations[k]
         /\ (k = j /\ j < i) \/ (k = j + 1 /\ ~(j < i)) 
  BY <1>2
<1>7. InboxFresh'
  BY <1>5 DEF InboxFresh, FreshInv
<1>8. EvaluationsFresh'
  <2> SUFFICES ASSUME NEW j \in DOMAIN evaluations', evaluations'[j].request.fresh
               PROVE  /\ inbox = <<>> /\ Sought(evaluations'[j].request)
                      /\ \A h \in DOMAIN evaluations' :
                           evaluations'[h].request.fresh => h = j
    BY <1>5 DEF EvaluationsFresh
  <2>1. PICK k \in DOMAIN evaluations \ {i} :
         /\ evaluations'[j] = evaluations[k]
         /\ (k = j /\ j < i) \/ (k = j + 1 /\ ~(j < i)) 
    BY <1>6
  <2>2. /\ inbox = <<>> /\ Sought(evaluations[k].request)
        /\ \A h \in DOMAIN evaluations : evaluations[h].request.fresh => h = k
    BY <2>1 DEF FreshInv, EvaluationsFresh
  <2>3. ASSUME NEW h \in DOMAIN evaluations', evaluations'[h].request.fresh
        PROVE  h = j
    <3>1. PICK l \in DOMAIN evaluations \ {i} :
           /\ evaluations'[h] = evaluations[l]
           /\ (l = h /\ h < i) \/ (l = h + 1 /\ ~(h < i)) 
      BY <1>6
    <3>2. l = k
      BY <2>2, <2>3, <3>1
    <3>3. h \in Nat /\ j \in Nat /\ i \in Nat
      BY <1>1, <1>2, LenProperties
    <3> QED BY <2>1, <3>1, <3>2, <3>3
  <2> QED BY <2>1, <2>2, <2>3
<1>9. RepliesFresh'
  <2> SUFFICES ASSUME NEW k \in DOMAIN wire', Awaited(wire'[k])
               PROVE  /\ inbox = <<>> /\ InRequest
                      /\ Opens /\ wire'[k].ok => wire'[k].value \in Pages
                      /\ \A j \in DOMAIN wire' : Awaited(wire'[j]) => j = k
                      /\ \A j \in DOMAIN evaluations' : ~evaluations'[j].request.fresh
    BY DEF RepliesFresh, InRequest, Opens, Awaited
  <2>1. CASE r.fresh
    <3>1. /\ inbox = <<>> /\ Sought(r)
          /\ \A h \in DOMAIN evaluations : evaluations[h].request.fresh => h = i
      BY <2>1 DEF FreshInv, EvaluationsFresh
    <3>2. \A h \in DOMAIN wire : ~Awaited(wire[h])
      BY <2>1 DEF FreshInv, RepliesFresh
    <3>3. k = Len(wire) + 1 /\ \A j \in DOMAIN wire' : Awaited(wire'[j]) => j = k
      BY <1>4, <3>2
    <3>4. \A j \in DOMAIN evaluations' : ~evaluations'[j].request.fresh
      BY <1>6, <3>1
    <3>5. InRequest /\ ~Opens
      BY <3>1 DEF Sought, Opens, RequestsInv
    <3> QED BY <3>1, <3>3, <3>4, <3>5
  <2>2. CASE ~r.fresh
    <3>1. \A j \in DOMAIN wire' : Awaited(wire'[j]) =>
            j \in DOMAIN wire /\ wire'[j] = wire[j]
      BY <1>3, <1>4, <2>2 DEF Awaited
    <3> QED BY <1>6, <3>1 DEF FreshInv, RepliesFresh
  <2> QED BY <2>1, <2>2
<1>10. NothingStale'
  BY <1>3, <1>4, <1>6 DEF FreshInv, NothingStale
<1> QED BY <1>7, <1>8, <1>9, <1>10 DEF FreshInv

-----------------------------------------------------------------------------
(* What the worker's actions do.                                            *)

LEMMA NextPageIs ==
  ASSUME NEW n \in 0..MaxPages, Used = 1..n
  PROVE  NextPage = n + 1
<1>1. n \in Nat
  BY WorkerAssumption
<1>2. Cardinality(1..n) = n
  BY <1>1, FS_Interval
<1> QED BY <1>1, <1>2 DEF NextPage, Used

\* Steps that open no page keep UsedInv.
LEMMA UsedStay ==
  ASSUME TypeOK, UsedInv, Used' = Used,
         inbox' = inbox \/ (inbox # <<>> /\ inbox' = Tail(inbox))
  PROVE  UsedInv'
<1>1. PICK n \in 0..MaxPages :
        /\ Used = 1..n
        /\ \A i \in DOMAIN inbox : inbox[i].op = "page.new" => n + i <= MaxPages
  BY DEF UsedInv
<1>2. n \in Nat /\ MaxPages \in Nat
  BY WorkerAssumption
<1>3. CASE inbox' = inbox
  BY <1>1, <1>3 DEF UsedInv
<1>4. CASE inbox # <<>> /\ inbox' = Tail(inbox)
  <2>1. \A i \in DOMAIN inbox' :
          i \in Nat /\ i + 1 \in DOMAIN inbox /\ inbox'[i] = inbox[i + 1]
    BY <1>4, InboxTaken
  <2>2. ASSUME NEW i \in DOMAIN inbox', inbox'[i].op = "page.new"
        PROVE  n + i <= MaxPages
    <3>1. i \in Nat /\ n + (i + 1) <= MaxPages
      BY <1>1, <2>1, <2>2
    <3> QED BY <1>2, <3>1
  <2> QED BY <1>1, <2>2 DEF UsedInv
<1> QED BY <1>3, <1>4

LEMMA UsedSame ==
  ASSUME NEW p \in Pages, OnlyPage(p),
         (views'[p].state = "none") <=> (views[p].state = "none")
  PROVE  Used' = Used
BY DEF OnlyPage, Used

LEMMA RequestsKept ==
  ASSUME TypeOK, RequestsInv, RequestsStay,
         inbox' = inbox \/ (inbox # <<>> /\ inbox' = Tail(inbox))
  PROVE  RequestsInv' /\ inbox' \in Seq(Request)
<1>1. CASE inbox' = inbox
  BY <1>1, Types DEF RequestsInv, RequestsStay
<1>2. CASE inbox # <<>> /\ inbox' = Tail(inbox)
  BY <1>2, InboxTaken DEF RequestsInv, RequestsStay
<1> QED BY <1>1, <1>2

\* A worker step keeps TypeOK by the types of what it changes.
LEMMA TypesKept ==
  ASSUME TypeOK, UNCHANGED host, inbox' \in Seq(Request), wire' \in Seq(Message),
         views' \in [Pages -> View], evaluations' \in Seq(Evaluation),
         dialogs' \in [Tokens -> [status : {"unused", "held", "consumed"},
                                  page : 0..MaxPages]],
         loads' \in Nat, decided' \in [Tokens -> Nat],
         strays' \subseteq {"page", "document"}
  PROVE  TypeOK'
BY DEF TypeOK, WorkerTypeOK, host

LEMMA CallKept ==
  ASSUME CallInv, UNCHANGED host
  PROVE  CallInv'
BY DEF CallInv, host

LEMMA StayIs ==
  /\ EvaluationsStay => RequestsStay
  /\ TypeOK /\ UNCHANGED evaluations => EvaluationsStay
BY Types DEF EvaluationsStay, RequestsStay

\* A request is answered, possibly with an event: the rest of the channel.
LEMMA AnswerKeepsChannel ==
  ASSUME ChannelInv, UNCHANGED host, inbox # <<>>, inbox' = Tail(inbox),
         NEW ms \in Seq(Message), Adds(ms), RequestsStay, Used' = Used,
         views' \in [Pages -> View],
         dialogs' \in [Tokens -> [status : {"unused", "held", "consumed"},
                                  page : 0..MaxPages]],
         loads' \in Nat, decided' \in [Tokens -> Nat], UNCHANGED strays,
         \A i, j \in DOMAIN ms : ms[i].kind = "reply" /\ ms[j].kind = "reply" => i = j,
         \A j \in DOMAIN ms : ms[j].kind = "reply" =>
           /\ ms[j].fresh = Head(inbox).fresh
           /\ Head(inbox).op \in {"session.open", "page.new"} /\ ms[j].ok =>
                ms[j].value \in Pages
  PROVE  ChannelInv'
<1>1. TypeOK /\ CallInv /\ RequestsInv /\ FreshInv /\ UsedInv
  BY DEF ChannelInv
<1>2. wire' \in Seq(Message)
  BY <1>1, WireJoined
<1>3. RequestsInv' /\ inbox' \in Seq(Request)
  BY <1>1, RequestsKept
<1>4. evaluations' \in Seq(Evaluation) /\ strays' \subseteq {"page", "document"}
  BY <1>1 DEF RequestsStay, TypeOK, WorkerTypeOK
<1>5. TypeOK'
  BY <1>1, <1>2, <1>3, <1>4, TypesKept
<1>6. CallInv' /\ UsedInv'
  BY <1>1, CallKept, UsedStay
<1>7. UNCHANGED <<call, active, target, timeouts>>
  BY DEF host
<1>8. FreshInv'
  BY <1>1, <1>7, AnswerKeepsFresh
<1> QED BY <1>3, <1>5, <1>6, <1>8 DEF ChannelInv

LEMMA NavigateIs ==
  ASSUME TypeOK, OpPageNavigate
  PROVE  LET r == Head(inbox)
             p == r.page
             m == Reply(r, TRUE, 0)
             e == Event("failed", p)
         IN  /\ inbox # <<>> /\ inbox' = Tail(inbox) /\ r \in Request
             /\ r.op = "page.navigate" /\ Exists(p) /\ p \in Pages
             /\ views' = Loading(p, TRUE) /\ loads' = loads + 1
             /\ \/ Adds(<<m>>)
                \/ views[p].load \in {"started", "committed"} /\ Adds(<<e, m>>)
             /\ UNCHANGED <<evaluations, dialogs, decided, strays>>
<1> PICK r : r = Head(inbox)
  OBVIOUS
<1> PICK p : p = r.page
  OBVIOUS
<1> PICK m : m = Reply(r, TRUE, 0)
  OBVIOUS
<1> PICK e : e = Event("failed", p)
  OBVIOUS
<1>1. /\ inbox # <<>> /\ inbox' = Tail(inbox) /\ r.op = "page.navigate" /\ Exists(p)
      /\ views' = Loading(p, TRUE) /\ loads' = loads + 1
      /\ UNCHANGED <<evaluations, dialogs, decided, strays>>
      /\ \E old \in IF views[p].load \in {"started", "committed"}
                    THEN {<<>>, <<e>>} ELSE {<<>>} : Emit(Append(old, m))
  BY DEF OpPageNavigate, HandlesPage, Handles
<1>2. PICK old : /\ Emit(Append(old, m))
                 /\ old = <<>> \/ (old = <<e>> /\ views[p].load \in {"started", "committed"})
  BY <1>1
<1>3. CASE old = <<>>
  <2>1. Emit(<<m>>)
    BY <1>2, <1>3, Put
  <2> QED BY <1>1, <2>1, Emits, InboxTaken DEF Exists
<1>4. CASE old = <<e>> /\ views[p].load \in {"started", "committed"}
  <2>1. Emit(<<e, m>>)
    BY <1>2, <1>4, Put
  <2> QED BY <1>1, <1>4, <2>1, Emits, InboxTaken DEF Exists
<1> QED BY <1>2, <1>3, <1>4

LEMMA TerminateIs ==
  ASSUME TypeOK, OpPageTerminate
  PROVE  LET r == Head(inbox)
             p == r.page
             m == Reply(r, TRUE, 0)
             e == Event("terminated", p)
         IN  /\ inbox # <<>> /\ inbox' = Tail(inbox) /\ r \in Request
             /\ r.op = "page.terminate" /\ Exists(p) /\ p \in Pages
             /\ \/ /\ views[p].state = "live"
                   /\ views' = Gone(p, "dead") /\ evaluations' = Failed(p)
                   /\ Adds(<<e, m>>) \/ Adds(<<m, e>>)
                \/ /\ views[p].state = "dead" /\ Adds(<<m>>)
                   /\ UNCHANGED <<views, evaluations>>
             /\ UNCHANGED <<dialogs, loads, decided, strays>>
<1> PICK r : r = Head(inbox)
  OBVIOUS
<1> PICK p : p = r.page
  OBVIOUS
<1> PICK m : m = Reply(r, TRUE, 0)
  OBVIOUS
<1> PICK e : e = Event("terminated", p)
  OBVIOUS
<1>1. /\ inbox # <<>> /\ inbox' = Tail(inbox) /\ r.op = "page.terminate" /\ Exists(p)
      /\ UNCHANGED <<dialogs, loads, decided, strays>>
      /\ IF views[p].state = "live"
         THEN /\ views' = Gone(p, "dead") /\ evaluations' = Failed(p)
              /\ \E frames \in {<<e, m>>, <<m, e>>} : Emit(frames)
         ELSE Emit(<<m>>) /\ UNCHANGED <<views, evaluations>>
  BY DEF OpPageTerminate, HandlesPage, Handles
<1>2. r \in Request /\ p \in Pages
  BY <1>1, InboxTaken DEF Exists
<1>3. CASE views[p].state = "live"
  <2>1. Emit(<<e, m>>) \/ Emit(<<m, e>>)
    BY <1>1, <1>3
  <2> QED BY <1>1, <1>2, <1>3, <2>1, Emits
<1>4. CASE views[p].state # "live"
  <2>1. views[p].state = "dead"
    BY <1>1, <1>4 DEF Exists
  <2> QED BY <1>1, <1>2, <1>4, <2>1, Emits
<1> QED BY <1>3, <1>4

LEMMA StageIs ==
  ASSUME TypeOK, NEW i \in DOMAIN evaluations,
         NEW stage \in {"queued", "blocked", "done", "failed"}, ScriptEnds(i, stage)
  PROVE  /\ RequestsStay /\ evaluations'[i].stage = stage
         /\ evaluations'[i].document = evaluations[i].document
         /\ \A j \in DOMAIN evaluations \ {i} : evaluations'[j] = evaluations[j]
<1> PICK e : e = [evaluations[i] EXCEPT !.stage = stage]
  OBVIOUS
<1>1. evaluations[i] \in Evaluation
  BY Types, ElementOfSeq, LenProperties
<1>2. /\ e \in Evaluation /\ e.request = evaluations[i].request /\ e.stage = stage
      /\ e.document = evaluations[i].document
  BY <1>1 DEF Evaluation
<1>3. evaluations' = [evaluations EXCEPT ![i] = e]
  BY DEF ScriptEnds
<1> QED BY <1>2, <1>3, ScriptEndsIs DEF RequestsStay

LEMMA TargetScriptIs ==
  ASSUME ChannelInv, NEW i \in DOMAIN evaluations, TargetScript(i)
  PROVE  LET p == evaluations[i].request.page
         IN  /\ p \in Pages /\ views[p].state = "live"
             /\ evaluations[i].request.op = "targets"
             /\ RequestsStay /\ evaluations'[i].stage = "done"
             /\ evaluations'[i].document = views[p].document
             /\ \A j \in DOMAIN evaluations \ {i} : evaluations'[j] = evaluations[j]
             /\ OnlyPage(p) /\ views'[p].state = views[p].state
             /\ views'[p].document = views[p].document
             /\ views'[p].load = views[p].load
             /\ UNCHANGED <<inbox, wire, dialogs, loads, decided, strays>>
<1> PICK p : p = evaluations[i].request.page
  OBVIOUS
<1>1. /\ evaluations' = [evaluations EXCEPT ![i].stage = "done",
                                            ![i].document = views[p].document]
      /\ views' = [views EXCEPT ![p].marked = TRUE] /\ views[p].state = "live"
      /\ evaluations[i].request.op = "targets"
      /\ UNCHANGED <<inbox, wire, dialogs, loads, decided, strays>>
  BY DEF TargetScript, InTurn
<1>2. TypeOK /\ p \in Pages /\ evaluations[i] \in Evaluation /\ views[p] \in View
      /\ evaluations \in Seq(Evaluation)
  <2>1. TypeOK /\ p \in Pages
    BY DEF ChannelInv, RequestsInv
  <2>2. evaluations \in Seq(Evaluation) /\ views \in [Pages -> View]
    BY <2>1, Types
  <2> QED BY <2>1, <2>2, ElementOfSeq, LenProperties
<1> PICK u : u = [evaluations[i] EXCEPT !.stage = "done"]
  OBVIOUS
<1> PICK d : d = views[p].document
  OBVIOUS
<1> PICK e : e = [u EXCEPT !.document = d]
  OBVIOUS
<1>3. /\ e \in Evaluation /\ e.request = evaluations[i].request /\ e.stage = "done"
      /\ e.document = views[p].document
  BY <1>2 DEF Evaluation, View
<1>4. evaluations' = [evaluations EXCEPT ![i] = e]
  <2>1. [evaluations EXCEPT ![i] = u][i] = u
    OBVIOUS
  <2>2. evaluations' = [[evaluations EXCEPT ![i] = u] EXCEPT
                          ![i] = [[evaluations EXCEPT ![i] = u][i] EXCEPT !.document = d]]
    BY <1>1
  <2>3. evaluations' = [[evaluations EXCEPT ![i] = u] EXCEPT ![i] = e]
    BY <2>1, <2>2
  <2> QED BY <2>3
<1>5. /\ RequestsStay /\ evaluations'[i] = e
      /\ \A j \in DOMAIN evaluations \ {i} : evaluations'[j] = evaluations[j]
  BY <1>2, <1>3, <1>4, ScriptEndsIs DEF RequestsStay
<1> PICK v : v = [views[p] EXCEPT !.marked = TRUE]
  OBVIOUS
<1>6. /\ v \in View /\ v.state = views[p].state /\ v.document = views[p].document
      /\ v.load = views[p].load
  BY <1>2 DEF View
<1>7. OnlyPage(p) /\ views'[p] = v
  BY <1>1, <1>2, <1>6, ViewPut
<1>8. evaluations'[i].stage = "done" /\ evaluations'[i].document = views[p].document
  BY <1>3, <1>5
<1>9. /\ views'[p].state = views[p].state /\ views'[p].document = views[p].document
      /\ views'[p].load = views[p].load
  BY <1>6, <1>7
<1> QED BY <1>1, <1>2, <1>5, <1>7, <1>8, <1>9

LEMMA AsksIs ==
  ASSUME TypeOK, NEW p \in Pages, NEW t \in Tokens, Asks(p, t)
  PROVE  /\ dialogs[t].status = "unused"
         /\ dialogs' \in [Tokens -> [status : {"unused", "held", "consumed"},
                                     page : 0..MaxPages]]
         /\ dialogs'[t].status = "held"
         /\ \A u \in Tokens \ {t} : dialogs'[u] = dialogs[u]
         /\ Adds(<<[kind |-> "dialog", page |-> p, token |-> t]>>)
<1>1. dialogs \in [Tokens -> [status : {"unused", "held", "consumed"},
                              page : 0..MaxPages]]
  BY DEF TypeOK, WorkerTypeOK
<1>2. /\ dialogs[t].status = "unused"
      /\ dialogs' = [dialogs EXCEPT ![t] = [status |-> "held", page |-> p]]
      /\ Adds(<<[kind |-> "dialog", page |-> p, token |-> t]>>)
  BY Emits DEF Asks
<1> QED BY <1>1, <1>2, PagesAre

\* The four ends of a click.
LEMMA ClickScriptIs ==
  ASSUME ChannelInv, NEW i \in DOMAIN evaluations, ClickScript(i)
  PROVE  LET p == evaluations[i].request.page
         IN  /\ p \in Pages /\ views[p].state = "live"
             /\ evaluations[i].request.op = "click"
             /\ RequestsStay /\ UNCHANGED <<inbox, decided>>
             /\ \/ UNCHANGED <<wire, views, dialogs, loads, strays>>
                \/ /\ views[p].marked /\ strays' = strays \union Missed(i)
                   /\ \/ UNCHANGED <<wire, views, dialogs, loads>>
                      \/ /\ views[p].load = "none" /\ views' = Loading(p, FALSE)
                         /\ loads' = loads + 1 /\ UNCHANGED <<wire, dialogs>>
                      \/ \E t \in Tokens : Asks(p, t) /\ UNCHANGED <<views, loads>>
<1> PICK p : p = evaluations[i].request.page
  OBVIOUS
<1>1. TypeOK /\ p \in Pages
  BY DEF ChannelInv, RequestsInv
<1>2. views[p].state = "live" /\ evaluations[i].request.op = "click"
      /\ UNCHANGED <<inbox, decided>>
  BY DEF ClickScript, InTurn
<1>3. \A stage \in {"queued", "blocked", "done", "failed"} :
        ScriptEnds(i, stage) => RequestsStay
  BY <1>1, StageIs
<1>4. \/ /\ ScriptEnds(i, "failed")
         /\ UNCHANGED <<wire, views, dialogs, loads, strays>>
      \/ /\ views[p].marked /\ strays' = strays \union Missed(i)
         /\ \/ ScriptEnds(i, "done") /\ UNCHANGED <<wire, views, dialogs, loads>>
            \/ /\ views[p].load = "none" /\ ScriptEnds(i, "done")
               /\ views' = Loading(p, FALSE)
               /\ loads' = loads + 1 /\ UNCHANGED <<wire, dialogs>>
            \/ \E t \in Tokens : /\ Asks(p, t) /\ ScriptEnds(i, "blocked")
                                 /\ UNCHANGED <<views, loads>>
  BY DEF ClickScript, HasElement
<1> QED BY <1>1, <1>2, <1>3, <1>4

LEMMA EvaluationRepliesIs ==
  ASSUME ChannelInv, NEW i \in DOMAIN evaluations, EvaluationReplies(i)
  PROVE  LET e == evaluations[i]
         IN  /\ e \in Evaluation /\ e.request \in Request
             /\ e.document \in Nat /\ (e.stage = "done") \in BOOLEAN
             /\ evaluations' = Without(evaluations, i)
             /\ evaluations' \in Seq(Evaluation)
             /\ \A j \in DOMAIN evaluations' : \E k \in DOMAIN evaluations \ {i} :
                  evaluations'[j] = evaluations[k]
             /\ Adds(<<Reply(e.request, e.stage = "done", e.document)>>)
             /\ UNCHANGED <<inbox, views, dialogs, loads, decided, strays>>
<1>1. evaluations \in Seq(Evaluation)
  BY Types DEF ChannelInv
<1>2. evaluations[i] \in Evaluation
  BY <1>1, ElementOfSeq, LenProperties
<1>3. evaluations' = Without(evaluations, i)
  BY DEF EvaluationReplies, Without
<1>4. /\ evaluations' \in Seq(Evaluation)
      /\ \A j \in DOMAIN evaluations' :
           /\ j < i => j \in DOMAIN evaluations \ {i} /\ evaluations'[j] = evaluations[j]
           /\ ~(j < i) => j + 1 \in DOMAIN evaluations \ {i}
                          /\ evaluations'[j] = evaluations[j + 1]
  BY <1>1, <1>3, Removed
<1>5. Adds(<<Reply(evaluations[i].request, evaluations[i].stage = "done",
                   evaluations[i].document)>>)
      /\ UNCHANGED <<inbox, views, dialogs, loads, decided, strays>>
  BY Emits DEF EvaluationReplies
<1>6. \A j \in DOMAIN evaluations' : \E k \in DOMAIN evaluations \ {i} :
        evaluations'[j] = evaluations[k]
  BY <1>4
<1>7. /\ evaluations[i].request \in Request /\ evaluations[i].document \in Nat
      /\ (evaluations[i].stage = "done") \in BOOLEAN
  BY <1>2 DEF Evaluation
<1> QED BY <1>2, <1>3, <1>4, <1>5, <1>6, <1>7

-----------------------------------------------------------------------------
(* The worker keeps the channel.                                            *)

DialogTypes == [Tokens -> [status : {"unused", "held", "consumed"}, page : 0..MaxPages]]

\* What ChannelInv says, without the definitions of the types.
LEMMA Unpacked ==
  ASSUME ChannelInv
  PROVE  /\ TypeOK /\ CallInv /\ RequestsInv /\ FreshInv /\ UsedInv
         /\ dialogs \in DialogTypes /\ loads \in Nat /\ decided \in [Tokens -> Nat]
         /\ strays \subseteq {"page", "document"}
         /\ views \in [Pages -> View] /\ wire \in Seq(Message)
         /\ evaluations \in Seq(Evaluation)
         /\ \A i \in DOMAIN evaluations : /\ evaluations[i].request.page \in Pages
                                          /\ evaluations[i] \in Evaluation
BY Types, ElementOfSeq, LenProperties
DEF ChannelInv, TypeOK, WorkerTypeOK, RequestsInv, DialogTypes

\* Requests answered by their reply alone.
LEMMA ReplyKeepsChannel ==
  ASSUME ChannelInv, UNCHANGED host, inbox # <<>>, inbox' = Tail(inbox),
         NEW ok \in BOOLEAN, NEW v \in Nat, Adds(<<Reply(Head(inbox), ok, v)>>),
         RequestsStay, Used' = Used, views' \in [Pages -> View],
         dialogs' \in DialogTypes, loads' \in Nat, decided' \in [Tokens -> Nat],
         UNCHANGED strays,
         Head(inbox).op \notin {"session.open", "page.new"} \/ ~ok
  PROVE  ChannelInv'
<1> PICK m : m = Reply(Head(inbox), ok, v)
  OBVIOUS
<1>1. /\ m \in Message /\ m.kind = "reply" /\ m.ok = ok /\ m.fresh = Head(inbox).fresh
  BY Unpacked, InboxTaken, ReplyIsMessage
<1> PICK ms : ms = <<m>>
  OBVIOUS
<1>2. ms \in Seq(Message) /\ DOMAIN ms = {1} /\ ms[1] = m
  BY <1>1, One
<1>3. Adds(ms)
  OBVIOUS
<1> QED BY <1>1, <1>2, <1>3, AnswerKeepsChannel DEF DialogTypes

LEMMA PageNotFoundKeepsChannel ==
  ASSUME ChannelInv, PageNotFound, UNCHANGED host
  PROVE  ChannelInv'
<1>1. /\ inbox # <<>> /\ inbox' = Tail(inbox) /\ Head(inbox).op \in PageOps
      /\ Adds(<<Reply(Head(inbox), FALSE, 0)>>)
      /\ UNCHANGED <<views, evaluations, dialogs, loads, decided, strays>>
  BY Emits DEF PageNotFound, Handles
<1>2. RequestsStay
  BY <1>1, Unpacked, StayIs
<1>3. Used' = Used
  BY <1>1 DEF Used
<1> QED BY <1>1, <1>2, <1>3, Unpacked, ReplyKeepsChannel

LEMMA OpPageObserveKeepsChannel ==
  ASSUME ChannelInv, OpPageObserve, UNCHANGED host
  PROVE  ChannelInv'
<1> PICK v : v = IF views[Head(inbox).page].load # "none" THEN 1 ELSE 0
  OBVIOUS
<1>1. /\ inbox # <<>> /\ inbox' = Tail(inbox) /\ Head(inbox).op = "page.observe"
      /\ Adds(<<Reply(Head(inbox), TRUE, v)>>)
      /\ UNCHANGED <<views, evaluations, dialogs, loads, decided, strays>>
  BY Emits DEF OpPageObserve, HandlesPage, Handles
<1>2. RequestsStay /\ v \in Nat
  BY <1>1, Unpacked, StayIs
<1>3. Used' = Used
  BY <1>1 DEF Used
<1> QED BY <1>1, <1>2, <1>3, Unpacked, ReplyKeepsChannel

\* What page.decide does to the dialogs.
LEMMA DecideIs ==
  ASSUME ChannelInv, OpPageDecide
  PROVE  LET r == Head(inbox)
             t == r.token
             held == dialogs[t].status = "held"
         IN  /\ inbox # <<>> /\ inbox' = Tail(inbox) /\ r.op = "page.decide"
             /\ t \in Tokens /\ dialogs' \in DialogTypes /\ decided' \in [Tokens -> Nat]
             /\ \A u \in Tokens \ {t} :
                  dialogs'[u] = dialogs[u] /\ decided'[u] = decided[u]
             /\ held => dialogs'[t].status = "consumed" /\ decided'[t] = decided[t] + 1
             /\ ~held => UNCHANGED <<dialogs, decided>>
             /\ Adds(<<Reply(r, held, 0)>>)
             /\ UNCHANGED <<views, evaluations, loads, strays>>
<1> PICK r : r = Head(inbox)
  OBVIOUS
<1> PICK t : t = r.token
  OBVIOUS
<1> PICK held : held = (dialogs[t].status = "held")
  OBVIOUS
<1>1. /\ inbox # <<>> /\ inbox' = Tail(inbox) /\ r.op = "page.decide"
      /\ dialogs' = IF held THEN [dialogs EXCEPT ![t].status = "consumed"] ELSE dialogs
      /\ decided' = IF held THEN [decided EXCEPT ![t] = decided[t] + 1] ELSE decided
      /\ Adds(<<Reply(r, held, 0)>>)
      /\ UNCHANGED <<views, evaluations, loads, strays>>
  BY Emits DEF OpPageDecide, Handles
<1>2. t \in Tokens
  BY <1>1, InboxTaken, Unpacked DEF RequestsInv
<1>3. dialogs \in DialogTypes /\ decided \in [Tokens -> Nat]
  BY Unpacked
<1>4. CASE held
  <2> PICK d : d = [dialogs[t] EXCEPT !.status = "consumed"]
    OBVIOUS
  <2>1. d \in [status : {"unused", "held", "consumed"}, page : 0..MaxPages]
        /\ d.status = "consumed"
    BY <1>2, <1>3 DEF DialogTypes
  <2>2. dialogs' = [dialogs EXCEPT ![t] = d]
    BY <1>1, <1>4
  <2>3. decided' = [decided EXCEPT ![t] = decided[t] + 1]
    BY <1>1, <1>4
  <2>4. dialogs' \in DialogTypes /\ dialogs'[t] = d
        /\ \A u \in Tokens \ {t} : dialogs'[u] = dialogs[u]
    BY <1>2, <1>3, <2>1, <2>2 DEF DialogTypes
  <2>5. decided' \in [Tokens -> Nat] /\ decided'[t] = decided[t] + 1
        /\ \A u \in Tokens \ {t} : decided'[u] = decided[u]
    BY <1>2, <1>3, <2>3
  <2> QED BY ZenonT(40), <1>1, <1>2, <1>4, <2>1, <2>4, <2>5
<1>5. CASE ~held
  BY <1>1, <1>2, <1>3, <1>5
<1> QED BY <1>4, <1>5

LEMMA OpPageDecideKeepsChannel ==
  ASSUME ChannelInv, OpPageDecide, UNCHANGED host
  PROVE  ChannelInv'
<1> PICK held : held = (dialogs[Head(inbox).token].status = "held")
  OBVIOUS
<1>1. /\ inbox # <<>> /\ inbox' = Tail(inbox) /\ Head(inbox).op = "page.decide"
      /\ dialogs' \in DialogTypes /\ decided' \in [Tokens -> Nat]
      /\ Adds(<<Reply(Head(inbox), held, 0)>>)
      /\ UNCHANGED <<views, evaluations, loads, strays>>
  BY DecideIs
<1>2. RequestsStay /\ held \in BOOLEAN
  BY <1>1, Unpacked, StayIs
<1>3. Used' = Used
  BY <1>1 DEF Used
<1> QED BY <1>1, <1>2, <1>3, Unpacked, ReplyKeepsChannel

\* A new page: session.open's first, page.new's next.
LEMMA OpensIs ==
  ASSUME ChannelInv, inbox # <<>>, inbox' = Tail(inbox), UNCHANGED host,
         Head(inbox).op \in {"session.open", "page.new"},
         NEW n \in 0..MaxPages, Used = 1..n, n + 1 \in Pages,
         \A i \in DOMAIN inbox :
           inbox[i].op = "page.new" => n + i <= MaxPages,
         views' = [views EXCEPT ![n + 1].state = "live"],
         Adds(<<Reply(Head(inbox), TRUE, n + 1)>>),
         UNCHANGED <<evaluations, dialogs, loads, decided, strays>>
  PROVE  ChannelInv'
<1>1. n \in Nat /\ MaxPages \in Nat
  BY WorkerAssumption
<1> PICK p : p = n + 1
  OBVIOUS
<1>2. /\ TypeOK /\ CallInv /\ RequestsInv /\ FreshInv
      /\ dialogs \in DialogTypes /\ loads \in Nat /\ decided \in [Tokens -> Nat]
      /\ strays \subseteq {"page", "document"} /\ views \in [Pages -> View]
      /\ evaluations \in Seq(Evaluation)
  BY Unpacked
<1>3. OnlyPage(p) /\ views'[p].state = "live"
  <2> PICK v : v = [views[p] EXCEPT !.state = "live"]
    OBVIOUS
  <2>1. v \in View /\ v.state = "live"
    BY <1>2 DEF View
  <2>2. views' = [views EXCEPT ![p] = v]
    OBVIOUS
  <2> QED BY <1>2, <2>1, <2>2, ViewPut
<1>4. Used' = 1..(n + 1)
  <2>1. Used' = Used \union {p}
    BY <1>3 DEF OnlyPage, Used
  <2> QED BY <1>1, <2>1
<1> PICK m : m = Reply(Head(inbox), TRUE, p)
  OBVIOUS
<1>5. m \in Message /\ m.kind = "reply" /\ m.value = p /\ m.fresh = Head(inbox).fresh
  <2>1. Head(inbox) \in Request /\ p \in Nat
    BY <1>1, <1>2, InboxTaken
  <2>2. \A ok \in BOOLEAN, v \in Nat :
          LET x == Reply(Head(inbox), ok, v)
          IN  /\ x \in Message /\ x.kind = "reply" /\ x.value = v
              /\ x.fresh = Head(inbox).fresh
    BY <2>1, ReplyIsMessage
  <2> QED BY <2>1, <2>2
<1> PICK ms : ms = <<m>>
  OBVIOUS
<1>6. ms \in Seq(Message) /\ DOMAIN ms = {1} /\ ms[1] = m /\ Adds(ms)
  BY <1>5, One
<1>7. /\ inbox' \in Seq(Request)
      /\ \A i \in DOMAIN inbox' : i \in Nat /\ i + 1 \in DOMAIN inbox
                                  /\ inbox'[i] = inbox[i + 1]
  BY <1>2, InboxTaken
<1>8. UsedInv'
  <2>1. n + 1 \in 0..MaxPages
    BY PagesAre
  <2>2. ASSUME NEW i \in DOMAIN inbox', inbox'[i].op = "page.new"
        PROVE  (n + 1) + i <= MaxPages
    <3>1. i \in Nat /\ n + (i + 1) <= MaxPages
      BY <1>7, <2>2
    <3> QED BY <1>1, <3>1
  <2> QED BY <1>4, <2>1, <2>2 DEF UsedInv
<1>9. wire' \in Seq(Message)
  BY <1>2, <1>6, WireJoined
<1>10. TypeOK'
  BY <1>2, <1>3, <1>7, <1>9, TypesKept DEF OnlyPage, DialogTypes
<1>11. CallInv' /\ RequestsInv'
  BY <1>2, StayIs, CallKept, RequestsKept
<1>12. FreshInv'
  <2>1. UNCHANGED <<call, active, target, timeouts>>
    BY DEF host
  <2>2. RequestsStay
    BY <1>2, StayIs
  <2>3. \A i, j \in DOMAIN ms : ms[i].kind = "reply" /\ ms[j].kind = "reply" => i = j
    BY <1>6
  <2>4. p \in Pages
    OBVIOUS
  <2>5. \A j \in DOMAIN ms : ms[j].kind = "reply" =>
          /\ ms[j].fresh = Head(inbox).fresh
          /\ Head(inbox).op \in {"session.open", "page.new"} /\ ms[j].ok =>
               ms[j].value \in Pages
    <3>1. ASSUME NEW j \in DOMAIN ms
          PROVE  ms[j].fresh = Head(inbox).fresh /\ ms[j].value = p
      BY <1>5, <1>6
    <3> QED BY <2>4, <3>1
  <2>6. TypeOK /\ FreshInv /\ ms \in Seq(Message) /\ Adds(ms)
    BY <1>2, <1>6
  <2> QED BY <2>1, <2>2, <2>3, <2>5, <2>6, AnswerKeepsFresh
<1> QED BY <1>8, <1>10, <1>11, <1>12 DEF ChannelInv

\* The page a new one becomes.
LEMMA OpPageNewIs ==
  ASSUME ChannelInv, OpPageNew
  PROVE  \E n \in 0..MaxPages :
           /\ Used = 1..n /\ n + 1 \in Pages
           /\ \A i \in DOMAIN inbox : inbox[i].op = "page.new" => n + i <= MaxPages
           /\ inbox # <<>> /\ inbox' = Tail(inbox) /\ Head(inbox).op = "page.new"
           /\ views' = [views EXCEPT ![n + 1].state = "live"]
           /\ Adds(<<Reply(Head(inbox), TRUE, n + 1)>>)
           /\ UNCHANGED <<evaluations, dialogs, loads, decided, strays>>
<1>1. PICK n \in 0..MaxPages :
        /\ Used = 1..n
        /\ \A i \in DOMAIN inbox : inbox[i].op = "page.new" => n + i <= MaxPages
  BY Unpacked DEF UsedInv
<1>2. NextPage = n + 1
  BY <1>1, NextPageIs
<1>3. /\ inbox # <<>> /\ inbox' = Tail(inbox) /\ Head(inbox).op = "page.new"
      /\ views' = [views EXCEPT ![n + 1].state = "live"]
      /\ Adds(<<Reply(Head(inbox), TRUE, n + 1)>>)
      /\ UNCHANGED <<evaluations, dialogs, loads, decided, strays>>
  BY <1>2, Emits DEF OpPageNew, Handles
<1>4. 1 \in DOMAIN inbox /\ inbox[1].op = "page.new"
  BY <1>3, Unpacked, InboxTaken
<1>5. n + 1 \in Pages
  BY <1>1, <1>4, WorkerAssumption DEF Pages
<1> QED BY <1>1, <1>3, <1>5

LEMMA OpSessionOpenIs ==
  ASSUME ChannelInv, OpSessionOpen
  PROVE  /\ inbox # <<>> /\ inbox' = Tail(inbox) /\ Head(inbox).op = "session.open"
         /\ \/ Adds(<<Reply(Head(inbox), FALSE, 0)>>) /\ UNCHANGED views
            \/ /\ Used = {} /\ views' = [views EXCEPT ![1].state = "live"]
               /\ Adds(<<Reply(Head(inbox), TRUE, 1)>>)
         /\ UNCHANGED <<evaluations, dialogs, loads, decided, strays>>
<1>1. /\ inbox # <<>> /\ inbox' = Tail(inbox) /\ Head(inbox).op = "session.open"
      /\ UNCHANGED <<evaluations, dialogs, loads, decided, strays>>
  BY DEF OpSessionOpen, Handles
<1>2. CASE Opened
  BY <1>1, <1>2, Emits DEF OpSessionOpen
<1>3. CASE ~Opened
  <2>1. Used = {}
    BY <1>3 DEF Opened, Used
  <2> QED BY <1>1, <1>3, <2>1, Emits DEF OpSessionOpen
<1> QED BY <1>2, <1>3

LEMMA OpSessionOpenKeepsChannel ==
  ASSUME ChannelInv, OpSessionOpen, UNCHANGED host
  PROVE  ChannelInv'
<1>1. /\ inbox # <<>> /\ inbox' = Tail(inbox) /\ Head(inbox).op = "session.open"
      /\ \/ Adds(<<Reply(Head(inbox), FALSE, 0)>>) /\ UNCHANGED views
         \/ /\ Used = {} /\ views' = [views EXCEPT ![1].state = "live"]
            /\ Adds(<<Reply(Head(inbox), TRUE, 1)>>)
      /\ UNCHANGED <<evaluations, dialogs, loads, decided, strays>>
  BY OpSessionOpenIs
<1>2. CASE Adds(<<Reply(Head(inbox), FALSE, 0)>>) /\ UNCHANGED views
  <2>1. Used' = Used
    BY <1>2 DEF Used
  <2>2. RequestsStay
    BY <1>1, Unpacked, StayIs
  <2> QED BY <1>1, <1>2, <2>1, <2>2, Unpacked, ReplyKeepsChannel
<1>3. CASE /\ Used = {} /\ views' = [views EXCEPT ![1].state = "live"]
           /\ Adds(<<Reply(Head(inbox), TRUE, 1)>>)
  <2>1. PICK n \in 0..MaxPages :
          /\ Used = 1..n
          /\ \A i \in DOMAIN inbox : inbox[i].op = "page.new" => n + i <= MaxPages
    BY Unpacked DEF UsedInv
  <2>2. n = 0
    BY <1>3, <2>1, WorkerAssumption
  <2>3. n + 1 = 1 /\ n + 1 \in Pages
    BY <2>2, PagesAre
  <2> QED BY <1>1, <1>3, <2>1, <2>3, OpensIs
<1> QED BY <1>1, <1>2, <1>3

LEMMA OpPageNewKeepsChannel ==
  ASSUME ChannelInv, OpPageNew, UNCHANGED host
  PROVE  ChannelInv'
<1>1. PICK n \in 0..MaxPages :
           /\ Used = 1..n /\ n + 1 \in Pages
           /\ \A i \in DOMAIN inbox : inbox[i].op = "page.new" => n + i <= MaxPages
           /\ inbox # <<>> /\ inbox' = Tail(inbox) /\ Head(inbox).op = "page.new"
           /\ views' = [views EXCEPT ![n + 1].state = "live"]
           /\ Adds(<<Reply(Head(inbox), TRUE, n + 1)>>)
           /\ UNCHANGED <<evaluations, dialogs, loads, decided, strays>>
  BY OpPageNewIs
<1> QED BY <1>1, OpensIs

LEMMA OpPageCloseIs ==
  ASSUME ChannelInv, OpPageClose
  PROVE  LET r == Head(inbox)
             p == r.page
         IN  /\ inbox # <<>> /\ inbox' = Tail(inbox) /\ r.op = "page.close"
             /\ p \in Pages /\ Exists(p)
             /\ views' = Gone(p, "closed") /\ evaluations' = Failed(p)
             /\ Adds(<<Reply(r, TRUE, 0)>>)
             /\ UNCHANGED <<dialogs, loads, decided, strays>>
BY Emits DEF OpPageClose, HandlesPage, Handles, Exists

LEMMA OpPageCloseKeepsChannel ==
  ASSUME ChannelInv, OpPageClose, UNCHANGED host
  PROVE  ChannelInv'
<1> PICK p : p = Head(inbox).page
  OBVIOUS
<1>1. /\ inbox # <<>> /\ inbox' = Tail(inbox) /\ Head(inbox).op = "page.close"
      /\ p \in Pages /\ Exists(p)
      /\ views' = Gone(p, "closed") /\ evaluations' = Failed(p)
      /\ Adds(<<Reply(Head(inbox), TRUE, 0)>>)
      /\ UNCHANGED <<dialogs, loads, decided, strays>>
  BY OpPageCloseIs
<1>2. TypeOK
  BY Unpacked
<1>3. RequestsStay
  BY <1>1, <1>2, FailedIs, StayIs
<1>4. OnlyPage(p) /\ views'[p].state = "closed"
  BY <1>1, <1>2, GoneIs
<1>5. views[p].state # "none"
  BY <1>1 DEF Exists
<1>6. Used' = Used /\ views' \in [Pages -> View]
  BY <1>1, <1>4, <1>5, UsedSame DEF OnlyPage
<1> QED BY <1>1, <1>3, <1>6, Unpacked, ReplyKeepsChannel

\* A request is accepted.
LEMMA AcceptIs ==
  ASSUME NEW r \in Request
  PROVE  LET m == Reply(r, TRUE, 0)
         IN  m \in Message /\ m.kind = "reply" /\ m.fresh = r.fresh /\ m.ok /\ m.value = 0
BY RequestIs DEF Reply, Message

\* A reply, alone or next to an event.
With(m, e) == {<<m>>, <<e, m>>, <<m, e>>}

\* Replies and failures, which say nothing of pages.
LEMMA Answers ==
  ASSUME NEW m \in Message, m.kind = "reply", NEW e \in Message, e.kind # "reply",
         NEW ms \in With(m, e)
  PROVE  /\ ms \in Seq(Message)
         /\ \A i, j \in DOMAIN ms : ms[i].kind = "reply" /\ ms[j].kind = "reply" => i = j
         /\ \A j \in DOMAIN ms : ms[j] = m \/ ms[j] = e
         /\ \A j \in DOMAIN ms : ms[j].kind = "reply" => ms[j] = m
<1>2. CASE ms = <<m>>
  <2>1. ms \in Seq(Message) /\ DOMAIN ms = {1} /\ ms[1] = m
    BY <1>2, One
  <2> QED BY <2>1
<1>3. ASSUME NEW a \in {m, e}, NEW b \in {m, e}, a # b, ms = <<a, b>> PROVE
           /\ ms \in Seq(Message)
           /\ \A i, j \in DOMAIN ms : ms[i].kind = "reply" /\ ms[j].kind = "reply" => i = j
           /\ \A j \in DOMAIN ms : ms[j] = m \/ ms[j] = e
  <2>1. /\ <<a, b>> \in Seq(Message) /\ DOMAIN <<a, b>> = {1, 2}
        /\ <<a, b>>[1] = a /\ <<a, b>>[2] = b
    BY Two
  <2>2. ms \in Seq(Message) /\ DOMAIN ms = {1, 2} /\ ms[1] = a /\ ms[2] = b
    BY <1>3, <2>1
  <2>3. a.kind # "reply" \/ b.kind # "reply"
    BY <1>3
  <2> QED BY <2>2, <2>3
<1>4. CASE ms = <<e, m>> \/ ms = <<m, e>>
  BY <1>3, <1>4
<1> QED BY <1>2, <1>4 DEF With

LEMMA OpPageNavigateKeepsChannel ==
  ASSUME ChannelInv, OpPageNavigate, UNCHANGED host
  PROVE  ChannelInv'
<1> PICK r : r = Head(inbox)
  OBVIOUS
<1> PICK p : p = r.page
  OBVIOUS
<1> PICK m : m = Reply(r, TRUE, 0)
  OBVIOUS
<1> PICK e : e = Event("failed", p)
  OBVIOUS
<1>1. /\ TypeOK /\ dialogs \in DialogTypes /\ loads \in Nat
      /\ decided \in [Tokens -> Nat] /\ evaluations \in Seq(Evaluation)
  BY Unpacked
<1>2. /\ inbox # <<>> /\ inbox' = Tail(inbox) /\ r \in Request
      /\ r.op = "page.navigate" /\ Exists(p) /\ p \in Pages
      /\ views' = Loading(p, TRUE) /\ loads' = loads + 1
      /\ Adds(<<m>>) \/ Adds(<<e, m>>)
      /\ UNCHANGED <<evaluations, dialogs, decided, strays>>
  BY <1>1, NavigateIs
<1>3. /\ m \in Message /\ m.kind = "reply" /\ m.fresh = r.fresh
      /\ e \in Message /\ e.kind # "reply"
  <2>1. m \in Message /\ m.kind = "reply" /\ m.fresh = r.fresh
    BY <1>2, AcceptIs
  <2>2. e \in Message /\ e.kind # "reply"
    BY <1>2, EventIsMessage DEF LoadEvent
  <2> QED BY <2>1, <2>2
<1>4. OnlyPage(p) /\ views'[p].state = "live"
  BY <1>1, <1>2, LoadingIs
<1>5. views[p].state # "none"
  BY <1>2 DEF Exists
<1>6. Used' = Used /\ views' \in [Pages -> View]
  BY <1>2, <1>4, <1>5, UsedSame DEF OnlyPage
<1>7. RequestsStay /\ loads' \in Nat
  BY <1>1, <1>2, StayIs
<1>8. dialogs' \in DialogTypes /\ decided' \in [Tokens -> Nat] /\ UNCHANGED strays
  BY <1>1, <1>2
<1>9. PICK ms \in With(m, e) : Adds(ms)
  BY <1>2 DEF With
<1>10. /\ ms \in Seq(Message)
       /\ \A i, j \in DOMAIN ms : ms[i].kind = "reply" /\ ms[j].kind = "reply" => i = j
       /\ \A j \in DOMAIN ms : ms[j].kind = "reply" => ms[j] = m
  BY <1>3, Answers
<1>11. /\ \A j \in DOMAIN ms : ms[j].kind = "reply" => ms[j].fresh = Head(inbox).fresh
       /\ Head(inbox).op \notin {"session.open", "page.new"}
  BY <1>2, <1>3, <1>10
<1>12. inbox # <<>> /\ inbox' = Tail(inbox)
  BY <1>2
<1> QED BY <1>6, <1>7, <1>8, <1>9, <1>10, <1>11, <1>12, AnswerKeepsChannel DEF DialogTypes

LEMMA OpPageTerminateKeepsChannel ==
  ASSUME ChannelInv, OpPageTerminate, UNCHANGED host
  PROVE  ChannelInv'
<1> PICK r : r = Head(inbox)
  OBVIOUS
<1> PICK p : p = r.page
  OBVIOUS
<1> PICK m : m = Reply(r, TRUE, 0)
  OBVIOUS
<1> PICK e : e = Event("terminated", p)
  OBVIOUS
<1>1. /\ TypeOK /\ dialogs \in DialogTypes /\ loads \in Nat
      /\ decided \in [Tokens -> Nat] /\ views \in [Pages -> View]
  BY Unpacked
<1>2. /\ inbox # <<>> /\ inbox' = Tail(inbox) /\ r \in Request
      /\ r.op = "page.terminate" /\ Exists(p) /\ p \in Pages
      /\ \/ /\ views[p].state = "live"
            /\ views' = Gone(p, "dead") /\ evaluations' = Failed(p)
            /\ Adds(<<e, m>>) \/ Adds(<<m, e>>)
         \/ /\ views[p].state = "dead" /\ Adds(<<m>>)
            /\ UNCHANGED <<views, evaluations>>
      /\ UNCHANGED <<dialogs, loads, decided, strays>>
  BY <1>1, TerminateIs
<1>3. /\ m \in Message /\ m.kind = "reply" /\ m.fresh = r.fresh
      /\ e \in Message /\ e.kind # "reply"
  <2>1. m \in Message /\ m.kind = "reply" /\ m.fresh = r.fresh
    BY <1>2, AcceptIs
  <2>2. e \in Message /\ e.kind # "reply"
    BY <1>2, EventIsMessage
  <2> QED BY <2>1, <2>2
<1>4. Head(inbox).op \notin {"session.open", "page.new"}
  BY <1>2
<1>5. dialogs' \in DialogTypes /\ decided' \in [Tokens -> Nat] /\ loads' \in Nat
      /\ UNCHANGED strays
  BY <1>1, <1>2
<1>6. CASE /\ views[p].state = "live"
           /\ views' = Gone(p, "dead") /\ evaluations' = Failed(p)
           /\ Adds(<<e, m>>) \/ Adds(<<m, e>>)
  <2>1. RequestsStay
    BY <1>1, <1>2, <1>6, FailedIs, StayIs
  <2>2. OnlyPage(p) /\ views'[p].state = "dead"
    BY <1>1, <1>2, <1>6, GoneIs
  <2>3. Used' = Used /\ views' \in [Pages -> View]
    BY <1>2, <1>6, <2>2, UsedSame DEF OnlyPage
  <2>4. PICK ms \in With(m, e) : Adds(ms)
    BY <1>6 DEF With
  <2>5. /\ ms \in Seq(Message)
        /\ \A i, j \in DOMAIN ms : ms[i].kind = "reply" /\ ms[j].kind = "reply" => i = j
        /\ \A j \in DOMAIN ms : ms[j].kind = "reply" => ms[j] = m
    BY <1>3, Answers
  <2>6. \A j \in DOMAIN ms : ms[j].kind = "reply" => ms[j].fresh = Head(inbox).fresh
    BY <1>3, <2>5
  <2>7. inbox # <<>> /\ inbox' = Tail(inbox)
    BY <1>2
  <2> QED BY <1>4, <1>5, <2>1, <2>3, <2>4, <2>5, <2>6, <2>7, AnswerKeepsChannel
          DEF DialogTypes
<1>7. CASE Adds(<<m>>) /\ UNCHANGED <<views, evaluations>>
  <2>1. RequestsStay
    BY <1>1, <1>7, StayIs
  <2>2. Used' = Used /\ views' \in [Pages -> View]
    BY <1>1, <1>7 DEF Used
  <2> QED BY <1>2, <1>4, <1>5, <1>7, <2>1, <2>2, ReplyKeepsChannel
<1> QED BY <1>2, <1>6, <1>7

LEMMA OpPageEvaluateIs ==
  ASSUME ChannelInv, OpPageEvaluate
  PROVE  LET r == Head(inbox)
         IN  /\ inbox # <<>> /\ inbox' = Tail(inbox) /\ r.op \in {"targets", "click"}
             /\ r.page \in Pages /\ r \in Request
             /\ \E e \in Evaluation : /\ evaluations' = Append(evaluations, e)
                                      /\ e.request = r /\ e.stage \in {"queued", "failed"}
             /\ UNCHANGED <<wire, views, dialogs, loads, decided, strays>>
<1> PICK r : r = Head(inbox)
  OBVIOUS
<1> PICK s : s = IF views[r.page].state = "live" THEN "queued" ELSE "failed"
  OBVIOUS
<1> PICK e : e = [request |-> r, document |-> 0, stage |-> s]
  OBVIOUS
<1>1. /\ inbox # <<>> /\ inbox' = Tail(inbox) /\ r.op \in {"targets", "click"}
      /\ Exists(r.page) /\ evaluations' = Append(evaluations, e)
      /\ UNCHANGED <<wire, views, dialogs, loads, decided, strays>>
  BY DEF OpPageEvaluate, HandlesPage, Handles
<1>2. r \in Request /\ s \in {"queued", "failed"}
  BY <1>1, Unpacked, InboxTaken
<1>3. e \in Evaluation /\ e.request = r /\ e.stage = s
  BY <1>2 DEF Evaluation
<1> QED BY <1>1, <1>2, <1>3 DEF Exists

LEMMA OpPageEvaluateKeepsChannel ==
  ASSUME ChannelInv, OpPageEvaluate, UNCHANGED host
  PROVE  ChannelInv'
<1> PICK r : r = Head(inbox)
  OBVIOUS
<1>1. /\ inbox # <<>> /\ inbox' = Tail(inbox) /\ r.op \in {"targets", "click"}
      /\ r.page \in Pages /\ r \in Request
      /\ \E e \in Evaluation : evaluations' = Append(evaluations, e) /\ e.request = r
      /\ UNCHANGED <<wire, views, dialogs, loads, decided, strays>>
  BY OpPageEvaluateIs
<1>2. PICK e \in Evaluation : evaluations' = Append(evaluations, e) /\ e.request = r
  BY <1>1
<1>3. /\ TypeOK /\ CallInv /\ RequestsInv /\ FreshInv /\ UsedInv
      /\ dialogs \in DialogTypes /\ loads \in Nat /\ decided \in [Tokens -> Nat]
      /\ strays \subseteq {"page", "document"} /\ views \in [Pages -> View]
      /\ wire \in Seq(Message) /\ evaluations \in Seq(Evaluation)
  BY Unpacked
<1> PICK n : n = Len(evaluations) + 1
  OBVIOUS
<1>4. /\ evaluations' \in Seq(Evaluation)
      /\ DOMAIN evaluations' = DOMAIN evaluations \union {n}
      /\ \A i \in DOMAIN evaluations : evaluations'[i] = evaluations[i]
      /\ evaluations'[n] = e
  BY <1>2, <1>3, Appended
<1>5. inbox' \in Seq(Request) /\ \A i \in DOMAIN inbox' :
        i + 1 \in DOMAIN inbox /\ inbox'[i] = inbox[i + 1]
  BY <1>1, <1>3, InboxTaken
<1>6. RequestsInv'
  BY <1>1, <1>2, <1>3, <1>4, <1>5 DEF RequestsInv
<1>7. TypeOK'
  BY <1>1, <1>3, <1>4, <1>5, TypesKept DEF DialogTypes
<1>8. CallInv'
  BY <1>3, CallKept
<1>9. UsedInv'
  <2>1. Used' = Used
    BY <1>1 DEF Used
  <2> QED BY <1>1, <1>3, <2>1, UsedStay
<1>10. FreshInv'
  BY <1>1, <1>2, <1>3, EvaluateKeepsFresh DEF host
<1> QED BY <1>6, <1>7, <1>8, <1>9, <1>10 DEF ChannelInv

-----------------------------------------------------------------------------
(* The engine keeps the channel.                                            *)

LEMMA EngineKeepsChannel ==
  ASSUME ChannelInv, UNCHANGED <<inbox, host>>, FreshInv', RequestsStay,
         wire' \in Seq(Message), Used' = Used, views' \in [Pages -> View],
         dialogs' \in DialogTypes, loads' \in Nat, decided' \in [Tokens -> Nat],
         strays' \subseteq {"page", "document"}
  PROVE  ChannelInv'
<1>1. /\ TypeOK /\ CallInv /\ RequestsInv /\ UsedInv
  BY Unpacked
<1>2. RequestsInv' /\ inbox' \in Seq(Request) /\ CallInv' /\ UsedInv'
  BY <1>1, RequestsKept, CallKept, UsedStay
<1>3. TypeOK'
  BY <1>1, <1>2, TypesKept DEF RequestsStay, DialogTypes
<1> QED BY <1>2, <1>3 DEF ChannelInv

\* A callback that reports one event.
LEMMA EventKeepsChannel ==
  ASSUME ChannelInv, UNCHANGED <<inbox, host, decided>>, RequestsStay,
         NEW m \in Message, m.kind # "reply", Adds(<<m>>),
         Used' = Used, views' \in [Pages -> View],
         dialogs' \in DialogTypes, loads' \in Nat,
         strays' \subseteq {"page", "document"}
  PROVE  ChannelInv'
<1> PICK ms : ms = <<m>>
  OBVIOUS
<1>1. ms \in Seq(Message) /\ DOMAIN ms = {1} /\ ms[1] = m /\ Adds(ms)
  BY One
<1>2. TypeOK /\ FreshInv /\ decided \in [Tokens -> Nat]
  BY Unpacked
<1>3. UNCHANGED <<call, active, target, timeouts>>
  BY DEF host
<1>4. \A j \in DOMAIN ms : ms[j].kind # "reply"
  BY <1>1
<1>5. FreshInv'
  BY <1>1, <1>2, <1>3, <1>4, EventsKeepFresh
<1>6. wire' \in Seq(Message)
  BY <1>1, <1>2, WireJoined
<1> QED BY <1>2, <1>5, <1>6, EngineKeepsChannel

\* One that reports nothing.
LEMMA QuietKeepsChannel ==
  ASSUME ChannelInv, UNCHANGED <<inbox, wire, host, decided>>, RequestsStay,
         Used' = Used, views' \in [Pages -> View],
         dialogs' \in DialogTypes, loads' \in Nat,
         strays' \subseteq {"page", "document"}
  PROVE  ChannelInv'
<1>1. TypeOK /\ FreshInv /\ decided \in [Tokens -> Nat] /\ wire \in Seq(Message)
  BY Unpacked
<1>2. UNCHANGED <<call, active, target, timeouts>>
  BY DEF host
<1>3. FreshInv'
  BY <1>1, <1>2, NoEventsKeepFresh
<1> QED BY <1>1, <1>3, EngineKeepsChannel

\* The page an event is about, and what of it changes.
LEMMA LoadEventIs ==
  ASSUME ChannelInv, NEW p \in Pages,
         LoadStarts(p) \/ LoadCommits(p) \/ LoadFinishes(p) \/ LoadFails(p)
  PROVE  /\ OnlyPage(p) /\ views'[p].state = views[p].state
         /\ views'[p].marked => views[p].marked
         /\ views[p].load # "none"
         /\ \/ /\ Adds(<<Event("started", p)>>)
               /\ views[p].load = "requested" /\ views'[p].load = "started"
               /\ views'[p].document = views[p].document
            \/ /\ Adds(<<Event("committed", p)>>)
               /\ views[p].load = "started" /\ views'[p].load = "committed"
               /\ views'[p].document = views[p].document + 1 /\ ~views'[p].marked
            \/ /\ \E kind \in {"finished", "failed"} : Adds(<<Event(kind, p)>>)
               /\ views'[p].load = "none" /\ views'[p].document = views[p].document
         /\ UNCHANGED <<inbox, evaluations, dialogs, loads, decided, strays>>
<1>0. TypeOK /\ views \in [Pages -> View]
  BY Unpacked
<1>1. CASE LoadStarts(p)
  <2>1. Advances(p, {"requested"}, "started") /\ Adds(<<Event("started", p)>>)
    BY <1>1, Emits DEF LoadStarts
  <2>2. /\ OnlyPage(p) /\ views'[p].state = views[p].state
        /\ views[p].load \in {"requested"}
        /\ views'[p].document = views[p].document /\ views'[p].load = "started"
        /\ views'[p].marked = views[p].marked
        /\ UNCHANGED <<inbox, evaluations, dialogs, loads, decided, strays>>
    BY <1>0, <2>1, AdvancesIs
  <2> QED BY <2>1, <2>2
<1>2. CASE LoadFinishes(p)
  <2>1. Advances(p, {"committed"}, "none") /\ Adds(<<Event("finished", p)>>)
    BY <1>2, Emits DEF LoadFinishes
  <2>2. /\ OnlyPage(p) /\ views'[p].state = views[p].state
        /\ views[p].load \in {"committed"}
        /\ views'[p].document = views[p].document /\ views'[p].load = "none"
        /\ views'[p].marked = views[p].marked
        /\ UNCHANGED <<inbox, evaluations, dialogs, loads, decided, strays>>
    BY <1>0, <2>1, AdvancesIs
  <2> QED BY <2>1, <2>2
<1>3. CASE LoadFails(p)
  <2>1. Advances(p, {"started", "committed"}, "none") /\ Adds(<<Event("failed", p)>>)
    BY <1>3, Emits DEF LoadFails
  <2>2. /\ OnlyPage(p) /\ views'[p].state = views[p].state
        /\ views[p].load \in {"started", "committed"}
        /\ views'[p].document = views[p].document /\ views'[p].load = "none"
        /\ views'[p].marked = views[p].marked
        /\ UNCHANGED <<inbox, evaluations, dialogs, loads, decided, strays>>
    BY <1>0, <2>1, AdvancesIs
  <2> QED BY <2>1, <2>2
<1>4. CASE LoadCommits(p)
  <2> PICK u : u = views[p]
    OBVIOUS
  <2> PICK d : d = u.document + 1
    OBVIOUS
  <2> PICK v : v = [u EXCEPT !.load = "committed", !.document = d, !.marked = FALSE]
    OBVIOUS
  <2>1. /\ v \in View /\ v.state = views[p].state /\ v.load = "committed"
        /\ v.document = views[p].document + 1 /\ v.marked = FALSE
    <3>1. u \in View
      BY <1>0
    <3>2. d \in Nat
      BY <3>1 DEF View
    <3> QED BY <3>1, <3>2 DEF View
  <2>2. views' = [views EXCEPT ![p] = v]
    <3>1. views' = [views EXCEPT ![p] = [views[p] EXCEPT !.load = "committed",
              !.document = views[p].document + 1, !.marked = FALSE]]
      BY <1>4 DEF LoadCommits
    <3> QED BY <3>1
  <2>3. OnlyPage(p) /\ views'[p] = v
    BY <1>0, <2>1, <2>2, ViewPut
  <2>4. /\ Adds(<<Event("committed", p)>>) /\ views[p].load = "started"
        /\ UNCHANGED <<inbox, evaluations, dialogs, loads, decided, strays>>
    BY <1>4, Emits DEF LoadCommits
  <2> QED BY <2>1, <2>3, <2>4
<1> QED BY <1>1, <1>2, <1>3, <1>4

LEMMA LoadEventKeepsChannel ==
  ASSUME ChannelInv, UNCHANGED host, NEW p \in Pages,
         LoadStarts(p) \/ LoadCommits(p) \/ LoadFinishes(p) \/ LoadFails(p)
  PROVE  ChannelInv'
<1>1. /\ OnlyPage(p) /\ views'[p].state = views[p].state
      /\ \E kind \in LoadEvent : Adds(<<Event(kind, p)>>)
      /\ UNCHANGED <<inbox, evaluations, dialogs, loads, decided, strays>>
  BY LoadEventIs DEF LoadEvent
<1>2. PICK kind \in LoadEvent : Adds(<<Event(kind, p)>>)
  BY <1>1
<1> PICK m : m = Event(kind, p)
  OBVIOUS
<1>3. m \in Message /\ m.kind # "reply"
  BY EventIsMessage
<1>4. Used' = Used /\ views' \in [Pages -> View]
  BY <1>1, UsedSame DEF OnlyPage
<1>5. RequestsStay
  BY <1>1, Unpacked, StayIs
<1> QED BY <1>1, <1>2, <1>3, <1>4, <1>5, Unpacked, EventKeepsChannel

LEMMA EngineStepsKeepChannel ==
  ASSUME ChannelInv, Engine, UNCHANGED host
  PROVE  ChannelInv'
<1>0. /\ TypeOK /\ RequestsInv /\ FreshInv /\ CallInv /\ UsedInv
      /\ dialogs \in DialogTypes /\ loads \in Nat
      /\ decided \in [Tokens -> Nat] /\ strays \subseteq {"page", "document"}
      /\ views \in [Pages -> View] /\ wire \in Seq(Message)
      /\ \A i \in DOMAIN evaluations : evaluations[i].request.page \in Pages
  BY Unpacked
<1>1. ASSUME NEW p \in Pages, PageNavigates(p) PROVE ChannelInv'
  <2>1. /\ views[p].state = "live" /\ views' = Loading(p, FALSE) /\ loads' = loads + 1
        /\ UNCHANGED <<inbox, wire, evaluations, dialogs, decided, strays>>
    BY <1>1 DEF PageNavigates
  <2>2. OnlyPage(p) /\ views'[p].state = "live"
    BY <1>0, <2>1, LoadingIs
  <2>3. Used' = Used /\ views' \in [Pages -> View]
    BY <2>1, <2>2, UsedSame DEF OnlyPage
  <2>4. RequestsStay /\ loads' \in Nat
    BY <1>0, <2>1, StayIs
  <2> QED BY <1>0, <2>1, <2>3, <2>4, QuietKeepsChannel
<1>2. ASSUME NEW p \in Pages, ProcessDies(p) PROVE ChannelInv'
  <2>1. /\ views[p].state = "live" /\ views' = Gone(p, "dead")
        /\ evaluations' = Failed(p) /\ Adds(<<Event("terminated", p)>>)
        /\ UNCHANGED <<inbox, dialogs, loads, decided, strays>>
    BY <1>2, Emits DEF ProcessDies
  <2>2. OnlyPage(p) /\ views'[p].state = "dead"
    BY <1>0, <2>1, GoneIs
  <2>3. Used' = Used /\ views' \in [Pages -> View]
    BY <2>1, <2>2, UsedSame DEF OnlyPage
  <2>4. RequestsStay
    BY <1>0, <2>1, FailedIs, StayIs
  <2>5. Event("terminated", p) \in Message /\ Event("terminated", p).kind # "reply"
    BY EventIsMessage
  <2> QED BY <1>0, <2>1, <2>3, <2>4, <2>5, EventKeepsChannel
<1>3. ASSUME NEW p \in Pages, NEW t \in Tokens, Asks(p, t), RequestsStay,
             UNCHANGED <<inbox, decided, views, loads>>,
             strays' \subseteq {"page", "document"}
      PROVE  ChannelInv'
  <2>1. dialogs' \in DialogTypes /\ Adds(<<[kind |-> "dialog", page |-> p, token |-> t]>>)
    BY <1>0, <1>3, AsksIs DEF DialogTypes
  <2> PICK m : m = [kind |-> "dialog", page |-> p, token |-> t]
    OBVIOUS
  <2>2. m \in Message /\ m.kind # "reply"
    BY DialogIsMessage
  <2>3. Used' = Used
    BY <1>3 DEF Used
  <2> QED BY <1>0, <1>3, <2>1, <2>2, <2>3, EventKeepsChannel
<1>4. ASSUME NEW p \in Pages, NEW t \in Tokens, ScriptDialog(p, t) PROVE ChannelInv'
  <2>1. Asks(p, t) /\ UNCHANGED <<inbox, views, evaluations, loads, decided, strays>>
    BY <1>4 DEF ScriptDialog
  <2> QED BY <1>0, <1>3, <2>1, StayIs
<1>5. ASSUME NEW i \in DOMAIN evaluations, TargetScript(i) PROVE ChannelInv'
  <2> PICK p : p = evaluations[i].request.page
    OBVIOUS
  <2>1. /\ p \in Pages /\ RequestsStay /\ OnlyPage(p)
        /\ views'[p].state = views[p].state
        /\ UNCHANGED <<inbox, wire, dialogs, loads, decided, strays>>
    BY <1>5, TargetScriptIs
  <2>2. Used' = Used /\ views' \in [Pages -> View]
    BY <2>1, UsedSame DEF OnlyPage
  <2> QED BY <1>0, <2>1, <2>2, QuietKeepsChannel
<1>6. ASSUME NEW i \in DOMAIN evaluations, ClickScript(i) PROVE ChannelInv'
  <2> PICK p : p = evaluations[i].request.page
    OBVIOUS
  <2>1. /\ p \in Pages /\ views[p].state = "live"
        /\ RequestsStay /\ UNCHANGED <<inbox, decided>>
        /\ \/ UNCHANGED <<wire, views, dialogs, loads, strays>>
           \/ /\ strays' = strays \union Missed(i)
              /\ \/ UNCHANGED <<wire, views, dialogs, loads>>
                 \/ /\ views' = Loading(p, FALSE)
                    /\ loads' = loads + 1 /\ UNCHANGED <<wire, dialogs>>
                 \/ \E t \in Tokens : Asks(p, t) /\ UNCHANGED <<views, loads>>
    BY <1>6, ClickScriptIs
  <2>2. strays' \subseteq {"page", "document"}
    BY <1>0, <2>1 DEF Missed
  <2>3. CASE UNCHANGED <<wire, views, dialogs, loads>>
    <3>1. Used' = Used
      BY <2>3 DEF Used
    <3> QED BY <1>0, <2>1, <2>2, <2>3, <3>1, QuietKeepsChannel
  <2>4. CASE /\ views' = Loading(p, FALSE)
             /\ loads' = loads + 1 /\ UNCHANGED <<wire, dialogs>>
    <3>1. OnlyPage(p) /\ views'[p].state = "live"
      BY <1>0, <2>1, <2>4, LoadingIs
    <3>2. Used' = Used /\ views' \in [Pages -> View]
      BY <2>1, <3>1, UsedSame DEF OnlyPage
    <3>3. loads' \in Nat
      BY <1>0, <2>4
    <3> QED BY <1>0, <2>1, <2>2, <2>4, <3>2, <3>3, QuietKeepsChannel
  <2>5. CASE \E t \in Tokens : Asks(p, t) /\ UNCHANGED <<views, loads>>
    BY <1>3, <2>1, <2>2, <2>5
  <2> QED BY <2>1, <2>3, <2>4, <2>5
<1>7. ASSUME NEW i \in DOMAIN evaluations, ClickResumes(i) PROVE ChannelInv'
  <2>1. /\ ScriptEnds(i, "done")
        /\ UNCHANGED <<inbox, wire, views, dialogs, loads, decided, strays>>
    BY <1>7 DEF ClickResumes
  <2>2. RequestsStay
    BY <1>0, <2>1, StageIs
  <2>3. Used' = Used
    BY <2>1 DEF Used
  <2> QED BY <1>0, <2>1, <2>2, <2>3, QuietKeepsChannel
<1>8. ASSUME NEW i \in DOMAIN evaluations, EvaluationReplies(i) PROVE ChannelInv'
  <2> PICK e : e = evaluations[i]
    OBVIOUS
  <2> PICK ok : ok = (e.stage = "done")
    OBVIOUS
  <2>1. /\ e \in Evaluation /\ e.request \in Request /\ e.document \in Nat
        /\ ok \in BOOLEAN
        /\ evaluations' = Without(evaluations, i)
        /\ evaluations' \in Seq(Evaluation)
        /\ \A j \in DOMAIN evaluations' : \E k \in DOMAIN evaluations \ {i} :
             evaluations'[j] = evaluations[k]
        /\ Adds(<<Reply(e.request, ok, e.document)>>)
        /\ UNCHANGED <<inbox, views, dialogs, loads, decided, strays>>
    BY <1>8, EvaluationRepliesIs
  <2>2. FreshInv'
    BY <1>0, <2>1, ScriptReplyKeepsFresh DEF host
  <2> PICK m : m = Reply(e.request, ok, e.document)
    OBVIOUS
  <2>3. m \in Message
    BY <2>1, ReplyIsMessage
  <2>4. <<m>> \in Seq(Message) /\ Adds(<<m>>)
    BY <2>1, <2>3, One
  <2>5. wire' \in Seq(Message)
    BY <1>0, <2>4, WireJoined
  <2>6. RequestsInv'
    BY <1>0, <2>1 DEF RequestsInv
  <2>7. Used' = Used
    BY <2>1 DEF Used
  <2>8. UsedInv' /\ CallInv' /\ inbox' \in Seq(Request)
    BY <1>0, <2>1, <2>7, UsedStay, CallKept, Types
  <2>9. TypeOK'
    BY <1>0, <2>1, <2>5, <2>8, TypesKept DEF DialogTypes
  <2> QED BY <2>2, <2>6, <2>8, <2>9 DEF ChannelInv
<1> QED BY <1>1, <1>2, <1>4, <1>5, <1>6, <1>7, <1>8, LoadEventKeepsChannel DEF Engine

\* Every step of the worker keeps the first invariant.
LEMMA WorkerKeepsChannel ==
  ASSUME ChannelInv, WorkerStep
  PROVE  ChannelInv'
<1>1. CASE Handler /\ UNCHANGED host
  BY <1>1, PageNotFoundKeepsChannel, OpSessionOpenKeepsChannel, OpPageNewKeepsChannel,
     OpPageCloseKeepsChannel, OpPageNavigateKeepsChannel, OpPageObserveKeepsChannel,
     OpPageTerminateKeepsChannel, OpPageEvaluateKeepsChannel, OpPageDecideKeepsChannel
  DEF Handler
<1>2. CASE Engine /\ UNCHANGED host
  BY <1>2, EngineStepsKeepChannel
<1> QED BY <1>1, <1>2 DEF WorkerStep

-----------------------------------------------------------------------------
(* What the host's calls do.                                                *)

LEMMA NoCallIs ==
  /\ NoCall \in Call /\ NoCall.op = "none" /\ NoCall.stage = "none"
  /\ NoCall.page = 0 /\ NoCall.token = None
BY PagesAre DEF NoCall, Call

LEMMA EntersIs ==
  ASSUME NEW op \in {"new", "close", "navigate", "await", "observe", "targets", "click",
                     "decide", "crash"},
         NEW stage \in {"request", "load", "prompt"}, NEW p \in 0..MaxPages,
         Enters(op, stage, p)
  PROVE  call' \in Call /\ call'.op = op /\ call'.stage = stage /\ call'.page = p
BY NoCallIs DEF Enters, NoCall, Call

\* A call sends its request and waits for the reply.
Sent(r) ==
  /\ Idle /\ inbox' = Append(inbox, r) /\ r \in Request /\ r.fresh /\ Sought(r)'
  /\ call' \in Call /\ call'.stage = "request" /\ CallInv'
  /\ UNCHANGED <<wire, views, evaluations, dialogs, loads, decided, strays,
                 writer, active, prompts, target, timeouts>>

\* What is checked before.
Checked(r) ==
  /\ r.op = "page.new" => call'.op = "new" /\ NextPage + Len(inbox) <= MaxPages
  /\ r.op = "page.decide" => /\ call'.op = "decide" /\ r.token \in Tokens
                             /\ call'.token = r.token /\ prompts[r.token] = "pending"
  /\ r.op \in {"page.close", "page.navigate", "page.observe", "page.terminate"} =>
       Known(r.page) /\ call'.page = r.page
  /\ IF r.op = "page.navigate"
     THEN call'.op = "navigate" /\ pages' = MarkedLoading(r.page)
     ELSE pages' = pages

Pauses ==
  /\ Idle /\ call' \in Call /\ CallInv' /\ call'.op = "await"
  /\ call'.stage \in {"load", "prompt"}
  /\ UNCHANGED <<worker, writer, pages, active, prompts, target, timeouts>>

\* A request that names a page at most.
LEMMA PlainSends ==
  ASSUME ChannelInv, NEW op \in Op, NEW p \in 0..MaxPages,
         Sends(Query(op, p, None, NoTarget))
  PROVE  \E r \in Request :
           /\ inbox' = Append(inbox, r) /\ r.op = op /\ r.page = p /\ r.fresh
           /\ UNCHANGED <<wire, views, evaluations, dialogs, loads, decided, strays>>
<1> PICK r : r = Query(op, p, None, NoTarget)
  OBVIOUS
<1>1. r \in Request /\ r.op = op /\ r.page = p /\ r.fresh
  BY NoTargetIs DEF Query, Request
<1>2. /\ inbox' = Append(inbox, r)
      /\ UNCHANGED <<wire, views, evaluations, dialogs, loads, decided, strays>>
  BY DEF Sends, UnchangedEngine
<1> QED BY <1>1, <1>2

\* A call sends the request it seeks, waits for events, or ends at once.
LEMMA CallsAre ==
  ASSUME ChannelInv, Calls
  PROVE  \/ \E r \in Request : Sent(r) /\ Checked(r)
         \/ Pauses
         \/ /\ Idle /\ writer' = None
            /\ UNCHANGED <<worker, pages, active, prompts, target, call, timeouts>>
<1>0. /\ TypeOK /\ active \in 0..MaxPages /\ target \in Target
      /\ target.page \in 0..MaxPages /\ NoTarget \in Target
      /\ None \in Tokens \union {None} /\ NoCall.token = None
      /\ \A p \in Pages : p \in 0..MaxPages
  BY Unpacked, Types, NoTargetIs, PagesAre, NoCallIs DEF Target
<1> HIDE DEF NoTarget, NoCall
<1>1. ASSUME NEW client \in Clients, NEW saved \in Saved \union {NotSaved},
             Create(client, saved)
      PROVE  \E r \in Request : Sent(r) /\ Checked(r)
  <2>1. /\ Idle /\ Sends(Query("session.open", 0, None, NoTarget))
        /\ call' = [NoCall EXCEPT !.op = "create", !.stage = "request",
                                  !.client = client, !.saved = saved]
        /\ UNCHANGED <<writer, pages, active, prompts, target, timeouts>>
    BY <1>1 DEF Create
  <2>2. PICK r \in Request :
          /\ inbox' = Append(inbox, r) /\ r.op = "session.open" /\ r.fresh
          /\ UNCHANGED <<wire, views, evaluations, dialogs, loads, decided, strays>>
    <3>1. 0 \in 0..MaxPages /\ "session.open" \in Op
      BY PagesAre DEF Op
    <3>2. Sends(Query("session.open", 0, None, NoTarget))
      BY <2>1
    <3> QED BY <3>1, <3>2, PlainSends
  <2>3. call' \in Call /\ call'.op = "create" /\ call'.stage = "request"
    BY <2>1, NoCallIs DEF NoCall, Call
  <2>4. CallInv' /\ Sought(r)'
    BY <2>2, <2>3 DEF CallInv, Sought, InRequest
  <2> QED BY <2>1, <2>2, <2>3, <2>4 DEF Sent, Checked
<1>2. ASSUME NEW client \in Clients \union {None}, TabNew(client)
      PROVE  \E r \in Request : Sent(r) /\ Checked(r)
  <2>1. /\ Idle /\ Sends(Query("page.new", 0, None, NoTarget))
        /\ NextPage + Len(inbox) <= MaxPages /\ Enters("new", "request", 0)
        /\ UNCHANGED <<writer, pages, active, prompts, target, timeouts>>
    BY <1>2 DEF TabNew
  <2>2. PICK r \in Request :
          /\ inbox' = Append(inbox, r) /\ r.op = "page.new" /\ r.fresh
          /\ UNCHANGED <<wire, views, evaluations, dialogs, loads, decided, strays>>
    <3>1. 0 \in 0..MaxPages /\ "page.new" \in Op
      BY PagesAre DEF Op
    <3>2. Sends(Query("page.new", 0, None, NoTarget))
      BY <2>1
    <3> QED BY <3>1, <3>2, PlainSends
  <2>3. call' \in Call /\ call'.op = "new" /\ call'.stage = "request"
    BY <2>1, PagesAre, EntersIs
  <2>4. CallInv' /\ Sought(r)'
    BY <2>2, <2>3 DEF CallInv, Sought, InRequest
  <2> QED BY <2>1, <2>2, <2>3, <2>4 DEF Sent, Checked
<1>3. ASSUME NEW client \in Clients \union {None}, Click(client)
      PROVE  \E r \in Request : Sent(r) /\ Checked(r)
  <2>1. /\ Idle /\ Sends(Query("click", active, None, target))
        /\ Enters("click", "request", target.page)
        /\ UNCHANGED <<writer, pages, active, prompts, target, timeouts>>
    BY <1>3 DEF Click
  <2>2. PICK r \in Request :
          /\ inbox' = Append(inbox, r) /\ r.op = "click" /\ r.fresh
          /\ r.page = active /\ r.target = target
          /\ UNCHANGED <<wire, views, evaluations, dialogs, loads, decided, strays>>
    <3>1. active \in 0..MaxPages /\ target \in Target /\ "click" \in Op
          /\ None \in Tokens \union {None}
      BY <1>0 DEF Op
    <3> PICK r : r = Query("click", active, None, target)
      OBVIOUS
    <3>2. r \in Request /\ r.op = "click" /\ r.page = active /\ r.token = None /\ r.target = target /\ r.fresh
      BY <3>1 DEF Query, Request
    <3>3. /\ inbox' = Append(inbox, r)
          /\ UNCHANGED <<wire, views, evaluations, dialogs, loads, decided, strays>>
      BY <2>1 DEF Sends, UnchangedEngine
    <3> QED BY <3>2, <3>3
  <2>3. call' \in Call /\ call'.op = "click" /\ call'.stage = "request"
    BY <1>0, <2>1, EntersIs
  <2>4. CallInv' /\ Sought(r)'
    BY <2>1, <2>2, <2>3 DEF CallInv, Sought, InRequest
  <2> QED BY <2>1, <2>2, <2>3, <2>4 DEF Sent, Checked
<1>4. ASSUME NEW op \in {"close", "observe", "crash"},
             NEW request \in {"page.close", "page.observe", "page.terminate"},
             \/ (op = "close" /\ request = "page.close")
             \/ (op = "observe" /\ request = "page.observe")
             \/ (op = "crash" /\ request = "page.terminate"),
             NEW p \in Pages, Idle, Known(p),
             Sends(Query(request, p, None, NoTarget)), Enters(op, "request", p),
             UNCHANGED <<writer, pages, active, prompts, target, timeouts>>
      PROVE  \E r \in Request : Sent(r) /\ Checked(r)
  <2>1. p \in 0..MaxPages /\ request \in Op
    BY <1>0 DEF Op
  <2>2. PICK r \in Request :
          /\ inbox' = Append(inbox, r) /\ r.op = request /\ r.page = p /\ r.fresh
          /\ UNCHANGED <<wire, views, evaluations, dialogs, loads, decided, strays>>
    BY <1>4, <2>1, PlainSends
  <2>3. call' \in Call /\ call'.op = op /\ call'.stage = "request" /\ call'.page = p
    BY <1>0, <1>4, EntersIs
  <2>4. CallInv' /\ Sought(r)'
    BY <1>4, <2>2, <2>3 DEF CallInv, Sought, InRequest
  <2>5. Sent(r)
    BY <1>4, <2>2, <2>3, <2>4 DEF Sent
  <2>6. Checked(r)
    BY <1>4, <2>2, <2>3 DEF Checked
  <2> QED BY <2>5, <2>6
<1>5. ASSUME NEW client \in Clients \union {None}, NEW p \in Pages,
             TabClose(client, p) \/ Crash(client, p) \/ ObserveState(p)
      PROVE  \E r \in Request : Sent(r) /\ Checked(r)
  <2>1. CASE TabClose(client, p)
    <3>1. /\ Idle /\ Known(p) /\ Sends(Query("page.close", p, None, NoTarget))
          /\ Enters("close", "request", p)
          /\ UNCHANGED <<writer, pages, active, prompts, target, timeouts>>
      BY <2>1 DEF TabClose
    <3> QED BY <1>4, <3>1
  <2>2. CASE Crash(client, p)
    <3>1. /\ Idle /\ Known(p) /\ Sends(Query("page.terminate", p, None, NoTarget))
          /\ Enters("crash", "request", p)
          /\ UNCHANGED <<writer, pages, active, prompts, target, timeouts>>
      BY <2>2 DEF Crash
    <3> QED BY <1>4, <3>1
  <2>3. CASE ObserveState(p)
    <3>1. /\ Idle /\ Known(p) /\ Sends(Query("page.observe", p, None, NoTarget))
          /\ Enters("observe", "request", p)
          /\ UNCHANGED <<writer, pages, active, prompts, target, timeouts>>
      BY <2>3 DEF ObserveState
    <3> QED BY <1>4, <3>1
  <2> QED BY <1>5, <2>1, <2>2, <2>3
<1>6. ASSUME NEW client \in Clients \union {None}, NEW p \in Pages, Navigate(client, p)
      PROVE  \E r \in Request : Sent(r) /\ Checked(r)
  <2>1. /\ Idle /\ Known(p) /\ Sends(Query("page.navigate", p, None, NoTarget))
        /\ Enters("navigate", "request", p) /\ pages' = MarkedLoading(p)
        /\ UNCHANGED <<writer, active, prompts, target, timeouts>>
    BY <1>6 DEF Navigate
  <2>2. PICK r \in Request :
          /\ inbox' = Append(inbox, r) /\ r.op = "page.navigate" /\ r.page = p /\ r.fresh
          /\ UNCHANGED <<wire, views, evaluations, dialogs, loads, decided, strays>>
    <3>1. p \in 0..MaxPages /\ "page.navigate" \in Op
      BY <1>0 DEF Op
    <3>2. Sends(Query("page.navigate", p, None, NoTarget))
      BY <2>1
    <3> QED BY <3>1, <3>2, PlainSends
  <2>3. call' \in Call /\ call'.op = "navigate" /\ call'.stage = "request"
        /\ call'.page = p
    BY <1>0, <2>1, EntersIs
  <2>4. CallInv' /\ Sought(r)'
    BY <2>2, <2>3 DEF CallInv, Sought, InRequest
  <2>5. Sent(r)
    BY <2>1, <2>2, <2>3, <2>4 DEF Sent
  <2>6. Checked(r)
    BY <2>1, <2>2, <2>3 DEF Checked
  <2> QED BY <2>5, <2>6
<1>7. ASSUME NEW client \in Clients \union {None}, NEW t \in Tokens, Decide(client, t)
      PROVE  \E r \in Request : Sent(r) /\ Checked(r)
  <2>1. /\ Idle /\ Sends(Query("page.decide", 0, t, NoTarget)) /\ prompts[t] = "pending"
        /\ call' = [NoCall EXCEPT !.op = "decide", !.stage = "request", !.token = t]
        /\ UNCHANGED <<writer, pages, active, prompts, target, timeouts>>
    BY <1>7 DEF Decide
  <2>2. PICK r \in Request :
          /\ inbox' = Append(inbox, r) /\ r.op = "page.decide" /\ r.token = t /\ r.fresh
          /\ UNCHANGED <<wire, views, evaluations, dialogs, loads, decided, strays>>
    <3>1. 0 \in 0..MaxPages /\ NoTarget \in Target /\ "page.decide" \in Op
          /\ t \in Tokens \union {None}
      BY <1>0, PagesAre DEF Op
    <3> PICK r : r = Query("page.decide", 0, t, NoTarget)
      OBVIOUS
    <3>2. r \in Request /\ r.op = "page.decide" /\ r.page = 0 /\ r.token = t /\ r.target = NoTarget /\ r.fresh
      BY <3>1 DEF Query, Request
    <3>3. /\ inbox' = Append(inbox, r)
          /\ UNCHANGED <<wire, views, evaluations, dialogs, loads, decided, strays>>
      BY <2>1 DEF Sends, UnchangedEngine
    <3> QED BY <3>2, <3>3
  <2>3. call' \in Call /\ call'.op = "decide" /\ call'.stage = "request"
        /\ call'.token = t
    BY <2>1, NoCallIs DEF NoCall, Call
  <2>4. CallInv' /\ Sought(r)'
    BY <2>2, <2>3 DEF CallInv, Sought, InRequest
  <2>5. Sent(r)
    BY <2>1, <2>2, <2>3, <2>4 DEF Sent
  <2>6. Checked(r)
    BY <2>1, <2>2, <2>3 DEF Checked
  <2> QED BY <2>5, <2>6
<1>8. ASSUME NEW p \in Pages, ObserveTargets(p)
      PROVE  \E r \in Request : Sent(r) /\ Checked(r)
  <2>1. /\ Idle /\ Sends(Query("targets", active, None, NoTarget))
        /\ Enters("targets", "request", p)
        /\ UNCHANGED <<writer, pages, active, prompts, target, timeouts>>
    BY <1>8 DEF ObserveTargets
  <2>2. PICK r \in Request :
          /\ inbox' = Append(inbox, r) /\ r.op = "targets" /\ r.fresh /\ r.page = active
          /\ UNCHANGED <<wire, views, evaluations, dialogs, loads, decided, strays>>
    <3>1. active \in 0..MaxPages /\ "targets" \in Op
      BY <1>0 DEF Op
    <3>2. Sends(Query("targets", active, None, NoTarget))
      BY <2>1
    <3> QED BY <3>1, <3>2, PlainSends
  <2>3. call' \in Call /\ call'.op = "targets" /\ call'.stage = "request"
        /\ call'.page = p
    BY <1>0, <2>1, EntersIs
  <2>4. CallInv' /\ Sought(r)'
    BY <2>1, <2>2, <2>3 DEF CallInv, Sought, InRequest
  <2> QED BY <2>1, <2>2, <2>3, <2>4 DEF Sent, Checked
<1>9. ASSUME NEW p \in Pages, AwaitIdle(p) PROVE Pauses
  <2>1. /\ Idle /\ Enters("await", "load", p)
        /\ UNCHANGED <<worker, writer, pages, active, prompts, target, timeouts>>
    BY <1>9 DEF AwaitIdle
  <2>2. call' \in Call /\ call'.op = "await" /\ call'.stage = "load" /\ call'.page = p
    BY <1>0, <2>1, EntersIs
  <2> QED BY <2>1, <2>2 DEF Pauses, CallInv
<1>10. ASSUME AwaitPrompt PROVE Pauses
  <2>1. /\ Idle /\ Enters("await", "prompt", 0)
        /\ UNCHANGED <<worker, writer, pages, active, prompts, target, timeouts>>
    BY <1>10 DEF AwaitPrompt
  <2>2. call' \in Call /\ call'.op = "await" /\ call'.stage = "prompt"
    BY <2>1, PagesAre, EntersIs
  <2> QED BY <2>1, <2>2 DEF Pauses, CallInv
<1>11. ASSUME NEW client \in Clients \union {None}, Release(client)
       PROVE  /\ Idle /\ writer' = None
              /\ UNCHANGED <<worker, pages, active, prompts, target, call, timeouts>>
  BY <1>11 DEF Release
<1>12. None \in Clients \union {None}
  OBVIOUS
<1> QED
  BY <1>1, <1>2, <1>3, <1>5, <1>6, <1>7, <1>8, <1>9, <1>10, <1>11, <1>12 DEF Calls

-----------------------------------------------------------------------------
(* The host keeps the channel.                                              *)

\* Nothing is awaited any more.
LEMMA NoneAwaited ==
  ASSUME \A i \in DOMAIN inbox' : ~inbox'[i].fresh,
         \A i \in DOMAIN evaluations' : ~evaluations'[i].request.fresh,
         \A k \in DOMAIN wire' : ~Awaited(wire'[k]), NothingStale'
  PROVE  FreshInv'
BY DEF FreshInv, InboxFresh, EvaluationsFresh, RepliesFresh, Awaited

\* Outside of a request nothing is awaited.
LEMMA NotInRequest ==
  ASSUME ChannelInv, call.stage # "request"
  PROVE  /\ \A i \in DOMAIN inbox : ~inbox[i].fresh
         /\ \A i \in DOMAIN evaluations : ~evaluations[i].request.fresh
         /\ \A k \in DOMAIN wire : ~Awaited(wire[k])
BY Unpacked DEF FreshInv, InboxFresh, EvaluationsFresh, RepliesFresh, Sought, InRequest

LEMMA WireTaken ==
  ASSUME TypeOK, wire # <<>>, wire' = Tail(wire)
  PROVE  /\ wire' \in Seq(Message) /\ Head(wire) \in Message /\ Head(wire) = wire[1]
         /\ 1 \in DOMAIN wire
         /\ \A k \in DOMAIN wire' :
              k \in Nat /\ k >= 1 /\ k + 1 \in DOMAIN wire /\ wire'[k] = wire[k + 1]
<1>1. wire \in Seq(Message)
  BY Types
<1> QED BY <1>1, Taken

LEMMA InboxSame ==
  ASSUME ChannelInv, UNCHANGED <<inbox, views>>
  PROVE  UsedInv' /\ inbox' \in Seq(Request)
<1>1. Used' = Used
  BY DEF Used
<1> QED BY <1>1, Unpacked, UsedStay, Types

HostTypeOK ==
  /\ writer \in Clients \union {None}
  /\ pages \in [Pages -> Page] /\ active \in 0..MaxPages
  /\ prompts \in [Tokens -> {"absent", "pending", "resolved"}]
  /\ target \in Target /\ call \in Call /\ timeouts \in Nat

LEMMA HostTypes ==
  ASSUME TypeOK
  PROVE  HostTypeOK
BY DEF TypeOK, HostTypeOK

\* The host's step leaves pages and evaluations of the worker alone.
LEMMA HostKeepsTypes ==
  ASSUME ChannelInv, HostTypeOK',
         inbox' \in Seq(Request), wire' \in Seq(Message),
         evaluations' \in Seq(Evaluation),
         UNCHANGED <<views, dialogs, loads, decided, strays>>
  PROVE  TypeOK'
BY DEF TypeOK, WorkerTypeOK, HostTypeOK, ChannelInv

\* Only the page's entry changes, and what the host knows of its documents and
\* of its life stays.
OnlyEntry(p) == pages' \in [Pages -> Page] /\ \A q \in Pages \ {p} : pages'[q] = pages[q]
EntryStays(p) ==
  /\ pages'[p].lifecycle = pages[p].lifecycle /\ pages'[p].document = pages[p].document
  /\ pages'[p].restored = pages[p].restored /\ pages'[p].generation = pages[p].generation

LEMMA EntryPut ==
  ASSUME TypeOK, NEW p \in Pages, NEW e \in Page, pages' = [pages EXCEPT ![p] = e]
  PROVE  OnlyEntry(p) /\ pages'[p] = e
BY Types DEF OnlyEntry

LEMMA LoadPut ==
  ASSUME TypeOK, NEW p \in Pages, NEW load \in {"idle", "loading"},
         pages' = [pages EXCEPT ![p].load = load]
  PROVE  OnlyEntry(p) /\ EntryStays(p) /\ pages'[p].load = load
<1> DEFINE e == [pages[p] EXCEPT !.load = load]
<1>1. pages[p] \in Page
  BY Types
<1>2. /\ e \in Page /\ e.load = load /\ e.lifecycle = pages[p].lifecycle
      /\ e.document = pages[p].document /\ e.restored = pages[p].restored
      /\ e.generation = pages[p].generation
  BY <1>1 DEF Page
<1>3. pages' = [pages EXCEPT ![p] = e]
  OBVIOUS
<1> HIDE DEF e
<1> QED BY <1>2, <1>3, EntryPut DEF EntryStays

\* A call that sends its request.
LEMMA SentKeepsChannel ==
  ASSUME ChannelInv, NEW r \in Request, Sent(r), Checked(r)
  PROVE  ChannelInv'
<1>1. /\ Idle /\ inbox' = Append(inbox, r) /\ r.fresh /\ Sought(r)'
      /\ call' \in Call /\ call'.stage = "request" /\ CallInv'
      /\ UNCHANGED <<wire, views, evaluations, dialogs, loads, decided, strays,
                     writer, active, prompts, target, timeouts>>
  BY DEF Sent
<1>2. call.stage # "request"
  BY <1>1, NoCallIs DEF Idle
<1>3. TypeOK /\ RequestsInv /\ FreshInv /\ UsedInv /\ inbox \in Seq(Request)
      /\ wire \in Seq(Message) /\ evaluations \in Seq(Evaluation)
  BY Unpacked, Types
<1>4. /\ \A i \in DOMAIN inbox : ~inbox[i].fresh
      /\ \A i \in DOMAIN evaluations : ~evaluations[i].request.fresh
      /\ \A k \in DOMAIN wire : ~Awaited(wire[k])
  BY <1>2, NotInRequest
<1> PICK n : n = Len(inbox) + 1
  OBVIOUS
<1>5. /\ inbox' \in Seq(Request) /\ Len(inbox') = n /\ n \in Nat
      /\ DOMAIN inbox' = DOMAIN inbox \union {n}
      /\ \A i \in DOMAIN inbox : inbox'[i] = inbox[i]
      /\ inbox'[n] = r
  BY <1>1, <1>3, Appended
<1>6. InboxFresh'
  BY <1>1, <1>4, <1>5 DEF InboxFresh
<1>7. EvaluationsFresh' /\ RepliesFresh'
  BY <1>1, <1>4 DEF EvaluationsFresh, RepliesFresh, Awaited
<1>8. NothingStale'
  BY <1>1, <1>3, <1>5 DEF NothingStale, FreshInv
<1>9. RequestsInv'
  BY <1>1, <1>3, <1>5 DEF RequestsInv, Checked
<1>10. pages' \in [Pages -> Page]
  <2>1. CASE r.op = "page.navigate"
    <3>1. r.page \in Pages /\ pages' = [pages EXCEPT ![r.page].load = "loading"]
      BY <2>1 DEF Checked, Known, MarkedLoading
    <3> QED BY <1>3, <3>1, LoadPut DEF OnlyEntry
  <2>2. CASE r.op # "page.navigate"
    BY <1>3, <2>2, Types DEF Checked
  <2> QED BY <2>1, <2>2
<1>11. TypeOK'
  BY <1>1, <1>3, <1>5, <1>10 DEF TypeOK, WorkerTypeOK
<1>12. UsedInv'
  <2>1. PICK m \in 0..MaxPages :
          /\ Used = 1..m
          /\ \A i \in DOMAIN inbox : inbox[i].op = "page.new" => m + i <= MaxPages
    BY <1>3 DEF UsedInv
  <2>2. NextPage = m + 1
    BY <2>1, NextPageIs
  <2>3. r.op = "page.new" => (m + 1) + Len(inbox) <= MaxPages
    BY <2>2 DEF Checked
  <2>4. Len(inbox) \in Nat /\ m \in Nat /\ MaxPages \in Nat
    BY <1>3, LenProperties, WorkerAssumption
  <2>5. r.op = "page.new" => m + n <= MaxPages
    BY <2>3, <2>4
  <2>6. Used' = Used
    BY <1>1 DEF Used
  <2> QED BY <1>5, <2>1, <2>5, <2>6 DEF UsedInv
<1> QED BY <1>1, <1>6, <1>7, <1>8, <1>9, <1>11, <1>12 DEF ChannelInv, FreshInv

\* The host waits for no reply before the step or after it.
LEMMA LocalKeepsChannel ==
  ASSUME ChannelInv, UNCHANGED worker, UNCHANGED timeouts, call.stage # "request",
         call'.stage # "request", HostTypeOK', CallInv'
  PROVE  ChannelInv'
<1>1. /\ TypeOK /\ RequestsInv /\ FreshInv /\ inbox \in Seq(Request)
      /\ wire \in Seq(Message) /\ evaluations \in Seq(Evaluation)
  BY Unpacked, Types
<1>2. UNCHANGED <<inbox, wire, views, evaluations, dialogs, loads, decided, strays>>
  BY DEF worker
<1>3. NothingStale'
  BY <1>1, <1>2 DEF NothingStale, FreshInv
<1>4. FreshInv'
  BY <1>2, <1>3, NotInRequest, NoneAwaited
<1>5. RequestsInv' /\ UsedInv'
  BY <1>1, <1>2, InboxSame DEF RequestsInv
<1>6. TypeOK'
  BY <1>1, <1>2 DEF TypeOK, WorkerTypeOK, HostTypeOK
<1> QED BY <1>4, <1>5, <1>6 DEF ChannelInv

\* Calls begin with nothing awaited.
LEMMA CallsKeepChannel ==
  ASSUME ChannelInv, Calls
  PROVE  ChannelInv'
<1>1. CASE \E r \in Request : Sent(r) /\ Checked(r)
  BY <1>1, SentKeepsChannel
<1>2. CASE Pauses
  <2>1. HostTypeOK'
    BY <1>2, Unpacked, HostTypes DEF Pauses, HostTypeOK
  <2> QED BY <1>2, <2>1, NoCallIs, LocalKeepsChannel DEF Pauses, Idle
<1>3. CASE /\ Idle /\ writer' = None
           /\ UNCHANGED <<worker, pages, active, prompts, target, call, timeouts>>
  <2>1. HostTypeOK' /\ CallInv'
    BY <1>3, Unpacked, HostTypes DEF HostTypeOK, CallInv
  <2> QED BY <1>3, <2>1, NoCallIs, LocalKeepsChannel DEF Idle
<1> QED BY <1>1, <1>2, <1>3, CallsAre

-----------------------------------------------------------------------------
(* Requests that raise.                                                     *)

\* A call that raises is over; at most its page's mark is taken back.
LEMMA RaisesIs ==
  ASSUME ChannelInv, Raises, timeouts' \in Nat
  PROVE  /\ call' = NoCall /\ HostTypeOK'
         /\ pages' \in [Pages -> Page]
         /\ \A p \in Pages : EntryStays(p)
         /\ \A p \in Pages :
              \/ pages'[p] = pages[p]
              \/ /\ p = call.page /\ call.op \in {"navigate", "restore"}
                 /\ call.stage = "request" /\ pages'[p].load = "idle"
         /\ UNCHANGED <<writer, active, prompts, target,
                        views, dialogs, loads, decided, strays>>
<1>1. TypeOK /\ CallInv /\ pages \in [Pages -> Page]
  BY Unpacked, Types
<1>2. /\ call' = NoCall
      /\ UNCHANGED <<writer, active, prompts, target,
                     views, dialogs, loads, decided, strays>>
      /\ pages' = IF call.op \in {"navigate", "restore"} /\ call.stage = "request"
                  THEN [pages EXCEPT ![call.page].load = "idle"] ELSE pages
  BY DEF Raises
<1>3. CASE call.op \in {"navigate", "restore"} /\ call.stage = "request"
  <2>1. call.page \in Pages
    BY <1>1, <1>3 DEF CallInv
  <2>2. pages' = [pages EXCEPT ![call.page].load = "idle"]
    BY <1>2, <1>3
  <2>3. OnlyEntry(call.page) /\ EntryStays(call.page) /\ pages'[call.page].load = "idle"
    BY <1>1, <2>1, <2>2, LoadPut
  <2>4. pages' \in [Pages -> Page] /\ \A p \in Pages : EntryStays(p)
    BY <2>3 DEF OnlyEntry, EntryStays
  <2>5. HostTypeOK'
    BY <1>1, <1>2, <2>4, HostTypes, NoCallIs DEF HostTypeOK
  <2>6. \A p \in Pages : pages'[p] = pages[p] \/ p = call.page
    BY <2>3 DEF OnlyEntry
  <2> QED BY <1>2, <1>3, <2>3, <2>4, <2>5, <2>6
<1>4. CASE ~(call.op \in {"navigate", "restore"} /\ call.stage = "request")
  <2>1. pages' = pages
    BY <1>2, <1>4
  <2>2. HostTypeOK'
    BY <1>1, <1>2, <2>1, HostTypes, NoCallIs DEF HostTypeOK
  <2> QED BY <1>1, <1>2, <2>1, <2>2 DEF EntryStays
<1> QED BY <1>3, <1>4

\* What the host gives up is stale.
LEMMA AbandonedIs ==
  ASSUME ChannelInv, NEW frames \in Seq(Message), Abandoned(frames)
  PROVE  /\ inbox' \in Seq(Request) /\ DOMAIN inbox' = DOMAIN inbox
         /\ \A i \in DOMAIN inbox : /\ ~inbox'[i].fresh /\ inbox'[i].op = inbox[i].op
                                    /\ inbox'[i].page = inbox[i].page
                                    /\ inbox'[i].token = inbox[i].token
         /\ evaluations' \in Seq(Evaluation) /\ DOMAIN evaluations' = DOMAIN evaluations
         /\ \A i \in DOMAIN evaluations :
              /\ ~evaluations'[i].request.fresh
              /\ evaluations'[i].request.op = evaluations[i].request.op
              /\ evaluations'[i].request.page = evaluations[i].request.page
         /\ wire' \in Seq(Message) /\ DOMAIN wire' = DOMAIN frames
         /\ Len(wire') = Len(frames)
         /\ \A k \in DOMAIN frames :
              /\ ~Awaited(wire'[k]) /\ wire'[k].kind = frames[k].kind
              /\ frames[k].kind # "reply" => wire'[k] = frames[k]
<1>1. inbox \in Seq(Request) /\ evaluations \in Seq(Evaluation)
  BY Unpacked, Types
<1>2. /\ inbox' = [i \in DOMAIN inbox |-> [inbox[i] EXCEPT !.fresh = FALSE]]
      /\ evaluations' = [i \in DOMAIN evaluations |->
                           [evaluations[i] EXCEPT !.request =
                              [evaluations[i].request EXCEPT !.fresh = FALSE]]]
      /\ wire' = [k \in DOMAIN frames |->
                    IF frames[k].kind = "reply" THEN [frames[k] EXCEPT !.fresh = FALSE]
                    ELSE frames[k]]
  BY DEF Abandoned, Stale
<1>3. ASSUME NEW r \in Request
      PROVE  LET s == [r EXCEPT !.fresh = FALSE]
             IN  /\ s \in Request /\ s.fresh = FALSE /\ s.op = r.op /\ s.page = r.page
                 /\ s.token = r.token
  BY DEF Request
<1>4. /\ inbox' \in Seq(Request) /\ DOMAIN inbox' = DOMAIN inbox
      /\ \A i \in DOMAIN inbox : /\ ~inbox'[i].fresh /\ inbox'[i].op = inbox[i].op
                                 /\ inbox'[i].page = inbox[i].page
                                 /\ inbox'[i].token = inbox[i].token
  <2>1. /\ DOMAIN inbox' = DOMAIN inbox
        /\ inbox' = [i \in DOMAIN inbox' |-> inbox'[i]]
        /\ \A i \in DOMAIN inbox : inbox'[i] = [inbox[i] EXCEPT !.fresh = FALSE]
    BY <1>2
  <2>2. \A i \in DOMAIN inbox : inbox[i] \in Request
    BY <1>1, ElementOfSeq, LenProperties
  <2>3. ASSUME NEW i \in DOMAIN inbox
        PROVE  /\ inbox'[i] \in Request
               /\ ~inbox'[i].fresh /\ inbox'[i].op = inbox[i].op
               /\ inbox'[i].page = inbox[i].page
               /\ inbox'[i].token = inbox[i].token
    <3> PICK r : r = inbox[i]
      OBVIOUS
    <3> PICK s : s = [r EXCEPT !.fresh = FALSE]
      OBVIOUS
    <3>1. r \in Request /\ inbox'[i] = s
      BY <2>1, <2>2
    <3>2. s \in Request /\ s.fresh = FALSE /\ s.op = r.op /\ s.page = r.page
          /\ s.token = r.token
      BY <1>3, <3>1
    <3> QED BY <3>1, <3>2
  <2>4. inbox' \in Seq(Request)
    BY <1>1, <2>1, <2>3, Mapped
  <2> QED BY <2>1, <2>3, <2>4
<1>5. /\ evaluations' \in Seq(Evaluation) /\ DOMAIN evaluations' = DOMAIN evaluations
      /\ \A i \in DOMAIN evaluations :
           /\ ~evaluations'[i].request.fresh
           /\ evaluations'[i].request.op = evaluations[i].request.op
           /\ evaluations'[i].request.page = evaluations[i].request.page
  <2>1. /\ DOMAIN evaluations' = DOMAIN evaluations
        /\ evaluations' = [i \in DOMAIN evaluations' |-> evaluations'[i]]
        /\ \A i \in DOMAIN evaluations :
             evaluations'[i] = [evaluations[i] EXCEPT !.request =
                                  [evaluations[i].request EXCEPT !.fresh = FALSE]]
    BY <1>2
  <2>2. \A i \in DOMAIN evaluations : evaluations[i] \in Evaluation
    BY <1>1, ElementOfSeq, LenProperties
  <2>3. ASSUME NEW i \in DOMAIN evaluations
        PROVE  /\ evaluations'[i] \in Evaluation
               /\ ~evaluations'[i].request.fresh
               /\ evaluations'[i].request.op = evaluations[i].request.op
               /\ evaluations'[i].request.page = evaluations[i].request.page
    <3> PICK r : r = evaluations[i].request
      OBVIOUS
    <3> PICK s : s = [r EXCEPT !.fresh = FALSE]
      OBVIOUS
    <3>1. r \in Request
      BY <2>2 DEF Evaluation
    <3>2. s \in Request /\ s.fresh = FALSE /\ s.op = r.op /\ s.page = r.page
      BY <1>3, <3>1
    <3>3. evaluations'[i] = [evaluations[i] EXCEPT !.request = s]
      BY <2>1
    <3>4. evaluations'[i] \in Evaluation /\ evaluations'[i].request = s
      BY <2>2, <3>2, <3>3 DEF Evaluation
    <3> QED BY <3>2, <3>4
  <2>4. evaluations' \in Seq(Evaluation)
    BY <1>1, <2>1, <2>3, Mapped
  <2> QED BY <2>1, <2>3, <2>4
<1>6. /\ wire' \in Seq(Message) /\ DOMAIN wire' = DOMAIN frames
      /\ Len(wire') = Len(frames)
      /\ \A k \in DOMAIN frames :
           /\ ~Awaited(wire'[k]) /\ wire'[k].kind = frames[k].kind
           /\ frames[k].kind # "reply" => wire'[k] = frames[k]
  <2>1. /\ DOMAIN wire' = DOMAIN frames
        /\ wire' = [k \in DOMAIN wire' |-> wire'[k]]
        /\ \A k \in DOMAIN frames :
             wire'[k] = IF frames[k].kind = "reply" THEN [frames[k] EXCEPT !.fresh = FALSE]
                        ELSE frames[k]
    BY <1>2
  <2>2. ASSUME NEW k \in DOMAIN frames
        PROVE  /\ wire'[k] \in Message
               /\ ~Awaited(wire'[k]) /\ wire'[k].kind = frames[k].kind
               /\ frames[k].kind # "reply" => wire'[k] = frames[k]
    <3> PICK m : m = frames[k]
      OBVIOUS
    <3>1. m \in Message
      BY ElementOfSeq, LenProperties
    <3>2. CASE m.kind = "reply"
      <4>1. wire'[k] = [m EXCEPT !.fresh = FALSE]
        BY <2>1, <3>2
      <4>2. /\ [m EXCEPT !.fresh = FALSE] \in Message
            /\ [m EXCEPT !.fresh = FALSE].fresh = FALSE
            /\ [m EXCEPT !.fresh = FALSE].kind = m.kind
        BY <3>1, <3>2 DEF Message, LoadEvent
      <4> QED BY <3>2, <4>1, <4>2 DEF Awaited
    <3>3. CASE m.kind # "reply"
      <4>1. wire'[k] = m
        BY <2>1, <3>3
      <4> QED BY <3>1, <3>3, <4>1 DEF Awaited
    <3> QED BY <3>2, <3>3
  <2>3. wire' \in Seq(Message) /\ Len(wire') = Len(frames)
    BY <2>1, <2>2, Mapped
  <2> QED BY <2>1, <2>2, <2>3
<1> QED BY <1>4, <1>5, <1>6

\* A request given up keeps the channel.
LEMMA AbandonKeepsChannel ==
  ASSUME ChannelInv, NEW frames \in Seq(Message), Abandoned(frames), Raises,
         timeouts' \in Nat \ {0}
  PROVE  ChannelInv'
<1>1. /\ RequestsInv /\ UsedInv
  BY Unpacked
<1>2. /\ call' = NoCall /\ HostTypeOK'
      /\ UNCHANGED <<views, dialogs, loads, decided, strays>>
  BY RaisesIs
<1>3. /\ inbox' \in Seq(Request) /\ DOMAIN inbox' = DOMAIN inbox
      /\ \A i \in DOMAIN inbox : /\ ~inbox'[i].fresh /\ inbox'[i].op = inbox[i].op
                                 /\ inbox'[i].token = inbox[i].token
      /\ evaluations' \in Seq(Evaluation) /\ DOMAIN evaluations' = DOMAIN evaluations
      /\ \A i \in DOMAIN evaluations :
           /\ ~evaluations'[i].request.fresh
           /\ evaluations'[i].request.op = evaluations[i].request.op
           /\ evaluations'[i].request.page = evaluations[i].request.page
      /\ wire' \in Seq(Message) /\ \A k \in DOMAIN wire' : ~Awaited(wire'[k])
  BY AbandonedIs
<1>4. TypeOK'
  BY <1>2, <1>3, HostKeepsTypes
<1>5. CallInv'
  BY <1>2, NoCallIs DEF CallInv
<1>6. RequestsInv'
  BY <1>1, <1>3 DEF RequestsInv
<1>7. NothingStale'
  BY DEF NothingStale
<1>8. FreshInv'
  BY <1>3, <1>7, NoneAwaited
<1>9. UsedInv'
  BY <1>1, <1>2, <1>3 DEF UsedInv, Used
<1> QED BY <1>4, <1>5, <1>6, <1>8, <1>9 DEF ChannelInv

\* A request given up is no longer fresh, wherever it is.
LEMMA RequestTimesOutKeepsChannel ==
  ASSUME ChannelInv, RequestTimesOut
  PROVE  ChannelInv'
<1>1. wire \in Seq(Message) /\ timeouts \in Nat
  BY Unpacked, Types
<1>2. Abandoned(wire) /\ Raises /\ timeouts' = timeouts + 1
  BY DEF RequestTimesOut
<1>3. timeouts' \in Nat \ {0}
  BY <1>1, <1>2
<1> QED BY <1>1, <1>2, <1>3, AbandonKeepsChannel

\* A late reply is that of a request given up.
LEMMA LateReplyIs ==
  ASSUME ChannelInv, wire # <<>>, Head(wire).kind = "reply", ~Head(wire).fresh
  PROVE  timeouts # 0
<1>1. wire \in Seq(Message) /\ NothingStale
  BY Unpacked DEF FreshInv
<1>2. 1 \in DOMAIN wire /\ Head(wire) = wire[1]
  BY <1>1, Taken
<1> QED BY <1>1, <1>2 DEF NothingStale

\* The reply to a request given up earlier ends the call that meets it.
LEMMA RequestMeetsLateReplyKeepsChannel ==
  ASSUME ChannelInv, RequestMeetsLateReply
  PROVE  ChannelInv'
<1>1. wire \in Seq(Message) /\ timeouts \in Nat
  BY Unpacked, Types
<1>2. /\ wire # <<>> /\ Head(wire).kind = "reply" /\ ~Head(wire).fresh
      /\ Abandoned(Tail(wire)) /\ Raises /\ timeouts' = timeouts
  BY DEF RequestMeetsLateReply, ReplyIs
<1>3. timeouts' \in Nat \ {0}
  BY <1>1, <1>2, LateReplyIs
<1>4. Tail(wire) \in Seq(Message)
  BY <1>1, <1>2, Taken
<1> QED BY <1>2, <1>3, <1>4, AbandonKeepsChannel

-----------------------------------------------------------------------------
(* Replies.                                                                 *)

\* The reply that the host waits for is there.
Answered(ok) ==
  /\ call.stage = "request" /\ ReplyIs(TRUE, ok) /\ wire' = Tail(wire)
  /\ UNCHANGED <<views, evaluations, dialogs, loads, decided, strays, timeouts>>

LEMMA AnsweredIs ==
  ASSUME ChannelInv, NEW ok \in BOOLEAN, Answered(ok)
  PROVE  /\ wire # <<>> /\ Head(wire) = wire[1] /\ 1 \in DOMAIN wire
         /\ Awaited(wire[1]) /\ wire[1].ok = ok /\ value = wire[1].value /\ value \in Nat
         /\ wire' \in Seq(Message)
         /\ \A k \in DOMAIN wire' : k \in Nat /\ k >= 1 /\ k + 1 \in DOMAIN wire
                                    /\ wire'[k] = wire[k + 1] /\ ~Awaited(wire'[k])
         /\ inbox = <<>> /\ \A i \in DOMAIN evaluations : ~evaluations[i].request.fresh
         /\ Opens /\ ok => value \in Pages
         /\ timeouts = 0 => /\ DOMAIN evaluations = {}
                            /\ \A k \in DOMAIN wire' : wire'[k].kind # "reply"
<1>1. TypeOK /\ RepliesFresh /\ NothingStale
  BY Unpacked DEF FreshInv
<1>2. /\ wire # <<>> /\ Head(wire).kind = "reply" /\ Head(wire).fresh = TRUE
      /\ Head(wire).ok = ok /\ wire' = Tail(wire)
  BY DEF Answered, ReplyIs
<1>3. /\ wire' \in Seq(Message) /\ Head(wire) \in Message /\ Head(wire) = wire[1]
      /\ 1 \in DOMAIN wire
      /\ \A k \in DOMAIN wire' :
           k \in Nat /\ k >= 1 /\ k + 1 \in DOMAIN wire /\ wire'[k] = wire[k + 1]
  BY <1>1, <1>2, WireTaken
<1>4. Awaited(wire[1]) /\ wire[1].ok = ok /\ value = wire[1].value
  BY <1>2, <1>3 DEF Awaited, value
<1>5. /\ inbox = <<>> /\ (Opens /\ wire[1].ok => wire[1].value \in Pages)
      /\ \A j \in DOMAIN wire : Awaited(wire[j]) => j = 1
      /\ \A j \in DOMAIN evaluations : ~evaluations[j].request.fresh
  BY <1>1, <1>3, <1>4 DEF RepliesFresh
<1>6. value \in Nat
  <2> PICK m : m = Head(wire)
    OBVIOUS
  <2>1. m \in Message /\ m.kind = "reply" /\ value = m.value
    BY <1>2, <1>3 DEF value
  <2> QED BY <2>1, MessageIs
<1>7. \A k \in DOMAIN wire' : k + 1 # 1
  BY <1>3
<1>8. \A k \in DOMAIN wire' : ~Awaited(wire'[k])
  BY <1>3, <1>5, <1>7
<1>9. ASSUME timeouts = 0
      PROVE  /\ DOMAIN evaluations = {}
             /\ \A k \in DOMAIN wire' : wire'[k].kind # "reply"
  <2>1. \A i \in DOMAIN evaluations : evaluations[i].request.fresh
    BY <1>1, <1>9 DEF NothingStale
  <2>2. \A k \in DOMAIN wire : wire[k].kind = "reply" => Awaited(wire[k])
    BY <1>1, <1>9 DEF NothingStale, Awaited
  <2>3. DOMAIN evaluations = {}
    BY <1>5, <2>1
  <2>4. ASSUME NEW k \in DOMAIN wire', wire'[k].kind = "reply" PROVE FALSE
    BY <1>3, <1>8, <2>2, <2>4 DEF Awaited
  <2> QED BY <2>3, <2>4
<1> QED BY <1>2, <1>3, <1>4, <1>5, <1>6, <1>8, <1>9

\* The reply taken was the only thing fresh.
LEMMA AnsweredKeepsChannel ==
  ASSUME ChannelInv, NEW ok \in BOOLEAN, Answered(ok), UNCHANGED inbox,
         HostTypeOK', CallInv'
  PROVE  ChannelInv'
<1>1. /\ wire' \in Seq(Message) /\ \A k \in DOMAIN wire' : ~Awaited(wire'[k])
      /\ inbox = <<>> /\ \A i \in DOMAIN evaluations : ~evaluations[i].request.fresh
      /\ timeouts = 0 => /\ DOMAIN evaluations = {}
                         /\ \A k \in DOMAIN wire' : wire'[k].kind # "reply"
  BY AnsweredIs
<1>2. /\ UNCHANGED <<views, evaluations, dialogs, loads, decided, strays, timeouts>>
  BY DEF Answered
<1>3. RequestsInv /\ evaluations \in Seq(Evaluation) /\ inbox \in Seq(Request)
      /\ DOMAIN inbox = {}
  BY <1>1, Unpacked, Types, Nothing
<1>4. UsedInv' /\ inbox' \in Seq(Request)
  BY <1>2, InboxSame
<1>5. TypeOK'
  BY <1>1, <1>2, <1>3, <1>4, HostKeepsTypes
<1>6. RequestsInv'
  BY <1>2, <1>3 DEF RequestsInv
<1>7. NothingStale'
  BY <1>1, <1>2, <1>3 DEF NothingStale
<1>8. FreshInv'
  BY <1>1, <1>2, <1>3, <1>7, NoneAwaited
<1> QED BY <1>4, <1>5, <1>6, <1>8 DEF ChannelInv

LEMMA RefusedIs ==
  ASSUME ChannelInv, RequestRefused
  PROVE  /\ Answered(FALSE) /\ UNCHANGED inbox /\ call' = NoCall /\ HostTypeOK'
         /\ UNCHANGED <<writer, active, prompts, target>>
<1>1. /\ call.stage = "request" /\ ReplyIs(TRUE, FALSE) /\ wire' = Tail(wire)
      /\ Raises /\ UNCHANGED <<inbox, evaluations, timeouts>>
  BY DEF RequestRefused
<1>2. timeouts' \in Nat
  BY <1>1, Unpacked, Types
<1>3. /\ call' = NoCall /\ HostTypeOK'
      /\ UNCHANGED <<writer, active, prompts, target,
                     views, dialogs, loads, decided, strays>>
  BY <1>1, <1>2, RaisesIs
<1> QED BY <1>1, <1>3 DEF Answered

LEMMA RequestRefusedKeepsChannel ==
  ASSUME ChannelInv, RequestRefused
  PROVE  ChannelInv'
<1>1. Answered(FALSE) /\ UNCHANGED inbox /\ call' = NoCall /\ HostTypeOK'
  BY RefusedIs
<1>2. CallInv'
  BY <1>1, NoCallIs DEF CallInv
<1> QED BY <1>1, <1>2, AnsweredKeepsChannel

LEMMA RepliedIs ==
  ASSUME NEW op, Replied(op)
  PROVE  Answered(TRUE) /\ call.op = op
BY DEF Replied, Answered, UnchangedEngine

LEMMA NewPageIs ==
  /\ Absent \in Page /\ Absent.lifecycle = "absent"
  /\ NewPage \in Page /\ NewPage.lifecycle = "open" /\ NewPage.load = "idle"
  /\ NewPage.document = 0 /\ NewPage.restored = FALSE
BY DEF NewPage, Absent, Page

\* A reply puts a page's entry in place.
LEMMA CreatedIs ==
  ASSUME ChannelInv, Created
  PROVE  /\ Answered(TRUE) /\ call.op = "create" /\ value \in Pages /\ active' = value
         /\ OnlyEntry(value) /\ pages'[value].lifecycle = "open"
         /\ pages'[value].document = 0
         /\ UNCHANGED <<prompts, target>> /\ HostTypeOK' /\ CallInv'
         /\ \/ /\ call' = NoCall /\ UNCHANGED inbox /\ pages'[value].load = "idle"
            \/ /\ call'.op = "restore" /\ call'.stage = "request" /\ call'.page = value
               /\ pages'[value].load = "loading"
               /\ \E r \in Request :
                    /\ inbox' = Append(inbox, r) /\ r.op = "page.navigate"
                    /\ r.page = value /\ r.fresh
<1>1. Answered(TRUE) /\ call.op = "create" /\ active' = value
      /\ UNCHANGED <<prompts, target>> /\ call.stage = "request"
  BY RepliedIs DEF Created, Answered
<1>2. TypeOK /\ CallInv /\ call \in Call /\ HostTypeOK
  BY Unpacked, Types, HostTypes
<1>3. value \in Pages
  BY <1>1, AnsweredIs DEF Opens
<1> PICK v : v = value
  OBVIOUS
<1> PICK saved : saved = call.saved
  OBVIOUS
<1>4. saved \in Saved \union {NotSaved} /\ (saved # NotSaved => saved.generation \in Nat)
      /\ v \in Pages /\ v \in 0..MaxPages
      /\ call.client \in Clients \union {None}
  BY <1>2, <1>3, PagesAre, SessionAssumption DEF Call
<1>5. CASE saved # NotSaved /\ ~saved.blank
  <2>1. /\ pages' = [pages EXCEPT ![v] = [NewPage EXCEPT !.load = "loading"]]
        /\ inbox' = Append(inbox, Query("page.navigate", v, None, NoTarget))
        /\ call' = [call EXCEPT !.op = "restore", !.page = v]
        /\ UNCHANGED writer
    BY <1>5 DEF Created
  <2>2. /\ [NewPage EXCEPT !.load = "loading"] \in Page
        /\ [NewPage EXCEPT !.load = "loading"].lifecycle = "open"
        /\ [NewPage EXCEPT !.load = "loading"].load = "loading"
        /\ [NewPage EXCEPT !.load = "loading"].document = 0
    BY NewPageIs DEF Page
  <2>3. /\ OnlyEntry(v) /\ pages'[v].lifecycle = "open" /\ pages'[v].load = "loading"
        /\ pages'[v].document = 0
    BY <1>2, <1>4, <2>1, <2>2, EntryPut
  <2>4. call' \in Call /\ call'.op = "restore" /\ call'.page = v
        /\ call'.stage = "request"
    BY <1>1, <1>2, <1>4, <2>1 DEF Call
  <2>5. CallInv'
    BY <1>4, <2>4 DEF CallInv
  <2>6. HostTypeOK'
    BY <1>1, <1>2, <1>4, <2>1, <2>3, <2>4 DEF HostTypeOK, OnlyEntry, Answered
  <2>7. "page.navigate" \in Op /\ None \in Tokens \union {None} /\ NoTarget \in Target
    BY NoTargetIs DEF Op
  <2>8. \E r \in Request : /\ inbox' = Append(inbox, r) /\ r.op = "page.navigate"
                           /\ r.page = v /\ r.fresh
    <3> PICK r : r = Query("page.navigate", v, None, NoTarget)
      OBVIOUS
    <3>1. r \in Request /\ r.op = "page.navigate" /\ r.page = v /\ r.fresh
      BY <1>4, <2>7, QueryIs
    <3>2. inbox' = Append(inbox, r)
      BY <2>1
    <3> QED BY <3>1, <3>2
  <2> QED BY <1>1, <1>3, <2>3, <2>4, <2>5, <2>6, <2>8
<1>6. CASE ~(saved # NotSaved /\ ~saved.blank)
  <2> PICK page : page = IF saved = NotSaved THEN NewPage
                         ELSE [NewPage EXCEPT !.generation = saved.generation + 1,
                                              !.restored = TRUE]
    OBVIOUS
  <2>1. /\ pages' = [pages EXCEPT ![v] = page] /\ writer' = call.client
        /\ call' = NoCall /\ UNCHANGED inbox
    BY <1>6 DEF Created
  <2>2. /\ page \in Page /\ page.lifecycle = "open" /\ page.load = "idle"
        /\ page.document = 0
    <3>1. CASE saved = NotSaved
      BY <3>1, NewPageIs
    <3>2. CASE saved # NotSaved
      <4>1. saved.generation + 1 \in Nat
        BY <1>4, <3>2
      <4>2. page = [NewPage EXCEPT !.generation = saved.generation + 1,
                                   !.restored = TRUE]
        BY <3>2
      <4> QED BY <4>1, <4>2, NewPageIs DEF Page
    <3> QED BY <3>1, <3>2
  <2>3. /\ OnlyEntry(v) /\ pages'[v] = page
    BY <1>2, <1>4, <2>1, <2>2, EntryPut
  <2>4. CallInv' /\ call' \in Call
    BY <2>1, NoCallIs DEF CallInv
  <2>5. HostTypeOK'
    BY <1>1, <1>2, <1>4, <2>1, <2>3, <2>4 DEF HostTypeOK, OnlyEntry, Answered
  <2> QED BY <1>1, <1>3, <2>1, <2>2, <2>3, <2>4, <2>5
<1> QED BY <1>5, <1>6

LEMMA TabOpenedIs ==
  ASSUME ChannelInv, TabOpened
  PROVE  /\ Answered(TRUE) /\ call.op = "new" /\ value \in Pages /\ active' = value
         /\ OnlyEntry(value) /\ pages'[value] = NewPage
         /\ call' = NoCall /\ UNCHANGED <<inbox, writer, prompts, target>>
         /\ HostTypeOK'
<1>1. /\ Answered(TRUE) /\ call.op = "new" /\ active' = value
      /\ pages' = [pages EXCEPT ![value] = NewPage]
      /\ call' = NoCall /\ UNCHANGED <<inbox, writer, prompts, target>>
  BY RepliedIs DEF TabOpened
<1>2. TypeOK /\ HostTypeOK
  BY Unpacked, HostTypes
<1>3. value \in Pages
  BY <1>1, AnsweredIs DEF Opens
<1> PICK v : v = value
  OBVIOUS
<1>4. OnlyEntry(v) /\ pages'[v] = NewPage
  BY <1>1, <1>2, <1>3, NewPageIs, EntryPut
<1>5. HostTypeOK'
  BY <1>1, <1>2, <1>3, <1>4, NoCallIs, PagesAre DEF HostTypeOK, OnlyEntry, Answered
<1> QED BY <1>1, <1>3, <1>4, <1>5

\* Every set of numbers has a least one: the sets of the numbers below each
\* are finite, and finite sets are well-founded under inclusion.
LEMMA Least ==
  ASSUME NEW T \in SUBSET Nat, T # {}
  PROVE  \E x \in T : \A y \in T : x <= y
<1> DEFINE Below(n) == {k \in Nat : k < n}
           Sets == {Below(n) : n \in T}
           R == StrictSubsetOrdering(Nat)
<1>1. \A n \in Nat : IsFiniteSet(Below(n))
  <2> SUFFICES ASSUME NEW n \in Nat PROVE IsFiniteSet(Below(n))
    OBVIOUS
  <2>1. \A s \in Below(n) : s <= n
    OBVIOUS
  <2>2. Below(n) \in SUBSET Nat
    OBVIOUS
  <2> HIDE DEF Below
  <2> QED BY <2>1, <2>2, FS_BoundedSetOfNaturals
<1>2. Sets \subseteq FiniteSubsetsOf(Nat) /\ Sets # {}
  BY <1>1 DEF FiniteSubsetsOf
<1>3. PICK s \in Sets : \A t \in Sets : ~(<<t, s>> \in R)
  <2> HIDE DEF Sets, R
  <2>1. IsWellFoundedOn(R, FiniteSubsetsOf(Nat))
    BY FS_StrictSubsetOrderingWellFounded DEF R
  <2> QED BY <1>2, <2>1, WFMin
<1>4. PICK x \in T : s = Below(x)
  OBVIOUS
<1>5. ASSUME NEW y \in T, y < x PROVE FALSE
  <2>1. Below(y) \subseteq Below(x) /\ y \in Below(x) /\ y \notin Below(y)
    BY <1>5
  <2>2. <<Below(y), Below(x)>> \in R
    BY <2>1 DEF StrictSubsetOrdering
  <2> QED BY <2>2, <1>3, <1>4
<1> QED BY <1>5

LEMMA TabClosedIs ==
  ASSUME ChannelInv, TabClosed
  PROVE  /\ Answered(TRUE) /\ call.op = "close" /\ call.page \in Pages
         /\ OnlyEntry(call.page) /\ pages'[call.page] = Absent
         /\ call' = NoCall /\ UNCHANGED <<inbox, writer, prompts, target>>
         /\ \/ active' = 0 /\ \A p \in Pages \ {call.page} : ~Known(p)
            \/ active' \in Pages \ {call.page} /\ Known(active')
         /\ HostTypeOK'
<1> DEFINE left == {p \in Pages : Known(p)} \ {call.page}
<1>1. /\ Answered(TRUE) /\ call.op = "close"
      /\ pages' = [pages EXCEPT ![call.page] = Absent]
      /\ active' = IF left = {} THEN 0 ELSE CHOOSE p \in left : \A q \in left : p <= q
      /\ call' = NoCall /\ UNCHANGED <<inbox, writer, prompts, target>>
  BY RepliedIs DEF TabClosed
<1>2. TypeOK /\ HostTypeOK /\ call.page \in Pages
  BY <1>1, Unpacked, HostTypes DEF CallInv
<1> PICK p : p = call.page
  OBVIOUS
<1>3. OnlyEntry(p) /\ pages'[p] = Absent
  BY <1>1, <1>2, NewPageIs, EntryPut
<1>4. \/ active' = 0 /\ \A q \in Pages \ {call.page} : ~Known(q)
      \/ active' \in Pages \ {call.page} /\ Known(active')
  <2>1. CASE left = {}
    BY <1>1, <2>1
  <2>2. CASE left # {}
    <3>1. left \in SUBSET Nat
      BY PagesAre
    <3>2. \E q \in left : \A r \in left : q <= r
      BY <2>2, <3>1, Least
    <3>3. active' \in left
      BY <1>1, <2>2, <3>2
    <3> QED BY <3>3
  <2> QED BY <2>1, <2>2
<1>5. HostTypeOK'
  BY <1>1, <1>2, <1>3, <1>4, NoCallIs, PagesAre DEF HostTypeOK, OnlyEntry, Answered
<1> QED BY <1>1, <1>2, <1>3, <1>4, <1>5

LEMMA StagePut ==
  ASSUME TypeOK, NEW stage \in {"load", "death", "drain"},
         call' = [call EXCEPT !.stage = stage]
  PROVE  /\ call' \in Call /\ call'.stage = stage /\ call'.op = call.op
         /\ call'.page = call.page /\ call'.token = call.token
         /\ call'.saved = call.saved /\ call'.client = call.client
BY Types DEF Call

\* After these replies the host only waits on.
LEMMA WaitsOnIs ==
  ASSUME ChannelInv, RestoreAccepted \/ Clicked \/ Terminated
  PROVE  /\ Answered(TRUE) /\ UNCHANGED <<inbox, writer, pages, active, prompts, target>>
         /\ call'.op = call.op /\ call'.page = call.page /\ call'.token = call.token
         /\ \/ call.op = "restore" /\ call'.stage = "load"
            \/ call.op = "click" /\ call'.stage = "drain"
            \/ call.op = "crash" /\ call'.stage = "death"
         /\ HostTypeOK' /\ CallInv'
<1> PICK stage \in {"load", "death", "drain"} :
         /\ Answered(TRUE) /\ UNCHANGED <<inbox, writer, pages, active, prompts, target>>
         /\ call' = [call EXCEPT !.stage = stage]
         /\ \/ call.op = "restore" /\ stage = "load"
            \/ call.op = "click" /\ stage = "drain"
            \/ call.op = "crash" /\ stage = "death"
  <2>1. CASE RestoreAccepted
    BY <2>1, RepliedIs DEF RestoreAccepted
  <2>2. CASE Clicked
    BY <2>2, RepliedIs DEF Clicked
  <2>3. CASE Terminated
    BY <2>3, RepliedIs DEF Terminated
  <2> QED BY <2>1, <2>2, <2>3
<1>1. TypeOK /\ HostTypeOK /\ CallInv
  BY Unpacked, HostTypes
<1>2. /\ call' \in Call /\ call'.stage = stage /\ call'.op = call.op
      /\ call'.page = call.page /\ call'.token = call.token
  BY <1>1, StagePut
<1>3. HostTypeOK'
  BY <1>1, <1>2 DEF HostTypeOK, Answered
<1>4. CallInv'
  BY <1>1, <1>2 DEF CallInv
<1> QED BY <1>2, <1>3, <1>4

LEMMA NavigationAcceptedIs ==
  ASSUME ChannelInv, NavigationAccepted
  PROVE  /\ Answered(TRUE) /\ call.op = "navigate" /\ call' = NoCall
         /\ UNCHANGED <<inbox, writer, pages, active, prompts, target>>
         /\ HostTypeOK'
<1>1. /\ Answered(TRUE) /\ call.op = "navigate" /\ call' = NoCall
      /\ UNCHANGED <<inbox, writer, pages, active, prompts, target>>
  BY RepliedIs DEF NavigationAccepted
<1>2. HostTypeOK'
  BY <1>1, Unpacked, HostTypes, NoCallIs DEF HostTypeOK, Answered
<1> QED BY <1>1, <1>2

LEMMA StateObservedIs ==
  ASSUME ChannelInv, StateObserved
  PROVE  /\ Answered(TRUE) /\ call.op = "observe" /\ call.page \in Pages /\ call' = NoCall
         /\ UNCHANGED <<inbox, writer, active, prompts, target>>
         /\ \/ pages' = pages
            \/ /\ value = 1 /\ OnlyEntry(call.page) /\ EntryStays(call.page)
               /\ pages'[call.page].load = "loading"
         /\ value # 1 => pages' = pages
         /\ HostTypeOK'
<1>1. /\ Answered(TRUE) /\ call.op = "observe" /\ call' = NoCall
      /\ pages' = IF value = 1 THEN [pages EXCEPT ![call.page].load = "loading"] ELSE pages
      /\ UNCHANGED <<inbox, writer, active, prompts, target>>
  BY RepliedIs DEF StateObserved, MarkedLoading
<1>2. TypeOK /\ HostTypeOK /\ call.page \in Pages
  BY <1>1, Unpacked, HostTypes DEF CallInv
<1>3. CASE value = 1
  <2>1. pages' = [pages EXCEPT ![call.page].load = "loading"]
    BY <1>1, <1>3
  <2>2. /\ OnlyEntry(call.page) /\ EntryStays(call.page)
        /\ pages'[call.page].load = "loading"
    BY <1>2, <2>1, LoadPut
  <2>3. HostTypeOK'
    BY <1>1, <1>2, <2>2, NoCallIs DEF HostTypeOK, OnlyEntry, Answered
  <2> QED BY <1>1, <1>2, <1>3, <2>2, <2>3
<1>4. CASE value # 1
  <2>1. HostTypeOK'
    BY <1>1, <1>2, <1>4, NoCallIs DEF HostTypeOK, Answered
  <2> QED BY <1>1, <1>2, <1>4, <2>1
<1> QED BY <1>3, <1>4

LEMMA TargetsObservedIs ==
  ASSUME ChannelInv, TargetsObserved
  PROVE  /\ Answered(TRUE) /\ call.op = "targets" /\ call' = NoCall
         /\ UNCHANGED <<inbox, writer, pages, active, prompts>>
         /\ target'.readPage = active /\ target'.readDocument = value
         /\ HostTypeOK'
<1>1. /\ Answered(TRUE) /\ call.op = "targets" /\ call' = NoCall
      /\ target' = [page |-> call.page, generation |-> pages[call.page].generation,
                    readPage |-> active, readDocument |-> value]
      /\ UNCHANGED <<inbox, writer, pages, active, prompts>>
  BY RepliedIs DEF TargetsObserved
<1>2. TypeOK /\ HostTypeOK /\ call.page \in Pages
  BY <1>1, Unpacked, HostTypes DEF CallInv
<1>3. value \in Nat
  BY <1>1, AnsweredIs
<1>4. /\ call.page \in 0..MaxPages /\ pages[call.page].generation \in Nat
      /\ active \in 0..MaxPages
  BY <1>2, PagesAre DEF HostTypeOK, Page
<1>5. target' \in Target /\ target'.readPage = active /\ target'.readDocument = value
  BY <1>1, <1>3, <1>4 DEF Target
<1>6. HostTypeOK'
  BY <1>1, <1>2, <1>5, NoCallIs DEF HostTypeOK, Answered
<1> QED BY <1>1, <1>5, <1>6

LEMMA DecidedIs ==
  ASSUME ChannelInv, Decided
  PROVE  /\ Answered(TRUE) /\ call.op = "decide" /\ call.token \in Tokens
         /\ UNCHANGED <<inbox, writer, pages, active, target>>
         /\ prompts'[call.token] = "resolved"
         /\ \A t \in Tokens \ {call.token} : prompts'[t] = prompts[t]
         /\ call'.op = "decide" /\ call'.stage = "drain"
         /\ HostTypeOK' /\ CallInv'
<1>1. /\ Answered(TRUE) /\ call.op = "decide"
      /\ prompts' = [prompts EXCEPT ![call.token] = "resolved"]
      /\ call' = [call EXCEPT !.stage = "drain"]
      /\ UNCHANGED <<inbox, writer, pages, active, target>>
  BY RepliedIs DEF Decided
<1>2. TypeOK /\ HostTypeOK /\ CallInv /\ call.token \in Tokens
  BY <1>1, Unpacked, HostTypes DEF CallInv
<1>3. /\ prompts' \in [Tokens -> {"absent", "pending", "resolved"}]
      /\ prompts'[call.token] = "resolved"
      /\ \A t \in Tokens \ {call.token} : prompts'[t] = prompts[t]
  BY <1>1, <1>2 DEF HostTypeOK
<1>4. /\ call' \in Call /\ call'.op = "decide" /\ call'.stage = "drain"
      /\ call'.page = call.page /\ call'.token = call.token
  BY <1>1, <1>2, StagePut
<1>5. HostTypeOK'
  BY <1>1, <1>2, <1>3, <1>4 DEF HostTypeOK, Answered
<1>6. CallInv'
  BY <1>2, <1>4 DEF CallInv
<1> QED BY <1>1, <1>2, <1>3, <1>4, <1>5, <1>6

LEMMA CreatedKeepsChannel ==
  ASSUME ChannelInv, Created
  PROVE  ChannelInv'
<1>1. /\ Answered(TRUE) /\ call.op = "create" /\ HostTypeOK' /\ CallInv'
      /\ \/ call' = NoCall /\ UNCHANGED inbox
         \/ /\ call'.op = "restore" /\ call'.stage = "request" /\ call'.page = value
            /\ \E r \in Request :
                 /\ inbox' = Append(inbox, r) /\ r.op = "page.navigate"
                 /\ r.page = value /\ r.fresh
  BY CreatedIs
<1>2. CASE UNCHANGED inbox
  BY <1>1, <1>2, AnsweredKeepsChannel
<1>3. ASSUME NEW r \in Request, call'.op = "restore", call'.stage = "request",
             call'.page = r.page,
             inbox' = Append(inbox, r), r.op = "page.navigate", r.fresh
      PROVE  ChannelInv'
  <2>1. /\ wire' \in Seq(Message) /\ \A k \in DOMAIN wire' : ~Awaited(wire'[k])
        /\ inbox = <<>> /\ \A i \in DOMAIN evaluations : ~evaluations[i].request.fresh
        /\ timeouts = 0 => /\ DOMAIN evaluations = {}
                           /\ \A k \in DOMAIN wire' : wire'[k].kind # "reply"
    BY <1>1, AnsweredIs
  <2>2. UNCHANGED <<views, evaluations, dialogs, loads, decided, strays, timeouts>>
    BY <1>1 DEF Answered
  <2>3. RequestsInv /\ UsedInv /\ evaluations \in Seq(Evaluation)
    BY Unpacked
  <2>4. inbox' = <<r>>
    BY <1>3, <2>1, Put
  <2>5. inbox' \in Seq(Request) /\ DOMAIN inbox' = {1} /\ inbox'[1] = r /\ Len(inbox') = 1
    BY <2>4, One
  <2>6. TypeOK'
    BY <1>1, <2>1, <2>2, <2>3, <2>5, HostKeepsTypes
  <2>7. RequestsInv'
    BY <1>3, <2>2, <2>3, <2>5 DEF RequestsInv
  <2>8. Sought(r)'
    BY <1>3 DEF Sought, InRequest
  <2>9. InboxFresh'
    BY <1>3, <2>5, <2>8 DEF InboxFresh
  <2>10. EvaluationsFresh' /\ RepliesFresh'
    BY <2>1, <2>2 DEF EvaluationsFresh, RepliesFresh
  <2>11. NothingStale'
    BY <1>3, <2>1, <2>2, <2>5 DEF NothingStale
  <2>12. UsedInv'
    <3>1. PICK n \in 0..MaxPages : Used = 1..n
      BY <2>3 DEF UsedInv
    <3>2. Used' = Used
      BY <2>2 DEF Used
    <3> QED BY <1>3, <2>5, <3>1, <3>2 DEF UsedInv
  <2> QED BY <1>1, <2>6, <2>7, <2>9, <2>10, <2>11, <2>12 DEF ChannelInv, FreshInv
<1> QED BY <1>1, <1>2, <1>3

\* What every reply of a call but the first of a creation leaves.
LEMMA RepliesKeepChannel ==
  ASSUME ChannelInv, Replies
  PROVE  ChannelInv'
<1>1. CASE RequestTimesOut \/ RequestMeetsLateReply \/ RequestRefused \/ Created
  BY <1>1, RequestTimesOutKeepsChannel, RequestMeetsLateReplyKeepsChannel,
     RequestRefusedKeepsChannel, CreatedKeepsChannel
<1>2. ASSUME call' = NoCall PROVE CallInv'
  BY <1>2, NoCallIs DEF CallInv
<1>3. CASE TabOpened
  BY <1>2, <1>3, TabOpenedIs, AnsweredKeepsChannel
<1>4. CASE TabClosed
  BY <1>2, <1>4, TabClosedIs, AnsweredKeepsChannel
<1>5. CASE NavigationAccepted
  BY <1>2, <1>5, NavigationAcceptedIs, AnsweredKeepsChannel
<1>6. CASE StateObserved
  BY <1>2, <1>6, StateObservedIs, AnsweredKeepsChannel
<1>7. CASE TargetsObserved
  BY <1>2, <1>7, TargetsObservedIs, AnsweredKeepsChannel
<1>8. CASE Decided
  BY <1>8, DecidedIs, AnsweredKeepsChannel
<1>9. CASE RestoreAccepted \/ Clicked \/ Terminated
  BY <1>9, WaitsOnIs, AnsweredKeepsChannel
<1> QED BY <1>1, <1>3, <1>4, <1>5, <1>6, <1>7, <1>8, <1>9 DEF Replies

-----------------------------------------------------------------------------
(* Events, loops, and the first theorem.                                    *)

LEMMA AppliedIs ==
  ASSUME NEW e \in Page, NEW kind
  PROVE  \E a \in Page :
           /\ a = Applied(e, kind) /\ a.restored = e.restored
           /\ kind = "committed" => a.document = e.document + 1
           /\ kind # "committed" => a.document = e.document
           /\ kind = "terminated" => a.lifecycle = "terminated"
           /\ kind # "terminated" => a.lifecycle = e.lifecycle
           /\ kind = "started" => a.load = "loading"
           /\ kind \in {"finished", "failed", "terminated"} => a.load = "idle"
           /\ kind \notin {"started", "finished", "failed", "terminated"} => a.load = e.load
<1> PICK g \in Nat, d \in Nat : g = e.generation + 1 /\ d = e.document + 1
  BY DEF Page
<1>1. CASE kind = "started"
  <2> PICK a : a = [e EXCEPT !.load = "loading"]
    OBVIOUS
  <2>1. /\ a \in Page /\ a.restored = e.restored /\ a.document = e.document
        /\ a.lifecycle = e.lifecycle /\ a.load = "loading"
    BY DEF Page
  <2>2. Applied(e, kind) = a
    BY <1>1 DEF Applied
  <2> QED BY <1>1, <2>1, <2>2
<1>2. CASE kind = "committed"
  <2> PICK a : a = [e EXCEPT !.generation = g, !.document = d]
    OBVIOUS
  <2>1. a \in Page /\ a.restored = e.restored /\ a.document = d /\ a.lifecycle = e.lifecycle
        /\ a.load = e.load
    BY DEF Page
  <2>2. Applied(e, kind) = a
    BY <1>2 DEF Applied, Page
  <2> QED BY <1>2, <2>1, <2>2
<1>3. CASE kind \in {"finished", "failed"}
  <2> PICK a : a = [e EXCEPT !.load = "idle"]
    OBVIOUS
  <2>1. /\ a \in Page /\ a.restored = e.restored /\ a.document = e.document
        /\ a.lifecycle = e.lifecycle /\ a.load = "idle"
    BY DEF Page
  <2>2. Applied(e, kind) = a
    BY <1>3 DEF Applied
  <2> QED BY <1>3, <2>1, <2>2
<1>4. CASE kind = "terminated"
  <2> PICK a : a = [e EXCEPT !.lifecycle = "terminated", !.load = "idle"]
    OBVIOUS
  <2>1. /\ a \in Page /\ a.restored = e.restored /\ a.document = e.document
        /\ a.lifecycle = "terminated" /\ a.load = "idle"
    BY DEF Page
  <2>2. Applied(e, kind) = a
    BY <1>4 DEF Applied
  <2> QED BY <1>4, <2>1, <2>2
<1>5. CASE kind \notin {"started", "committed", "finished", "failed", "terminated"}
  BY <1>5 DEF Applied, Page
<1> QED BY <1>1, <1>2, <1>3, <1>4, <1>5

\* Only the page the event concerns changes, if the host knows it.
LEMMA TakeEventIs ==
  ASSUME ChannelInv, TakeEvent
  PROVE  \E m \in Message :
           /\ m = wire[1] /\ 1 \in DOMAIN wire /\ m.kind # "reply" /\ m.page \in Pages
           /\ wire' \in Seq(Message) /\ wire' = Tail(wire)
           /\ \A k \in DOMAIN wire' :
                k \in Nat /\ k >= 1 /\ k + 1 \in DOMAIN wire /\ wire'[k] = wire[k + 1]
           /\ call.stage # "none"
           /\ UNCHANGED <<inbox, writer, active, target, call, timeouts>>
           /\ UNCHANGED <<views, evaluations, dialogs, loads, decided, strays>>
           /\ OnlyEntry(m.page)
           /\ ~Known(m.page) => pages'[m.page] = pages[m.page]
           /\ Known(m.page) => pages'[m.page] = Applied(pages[m.page], m.kind)
           /\ prompts' \in [Tokens -> {"absent", "pending", "resolved"}]
           /\ m.kind # "dialog" => prompts' = prompts
           /\ m.kind = "dialog" => /\ m.token \in Tokens /\ prompts'[m.token] = "pending"
                                   /\ \A t \in Tokens \ {m.token} : prompts'[t] = prompts[t]
<1>1. TypeOK /\ pages \in [Pages -> Page]
      /\ prompts \in [Tokens -> {"absent", "pending", "resolved"}]
  BY Unpacked, Types
<1> PICK m : m = Head(wire)
  OBVIOUS
<1>2. /\ call.stage # "none" /\ wire # <<>> /\ m.kind # "reply" /\ wire' = Tail(wire)
      /\ pages' = IF Known(m.page)
                  THEN [pages EXCEPT ![m.page] = Applied(pages[m.page], m.kind)] ELSE pages
      /\ prompts' = IF m.kind = "dialog"
                    THEN [prompts EXCEPT ![m.token] = "pending"] ELSE prompts
      /\ UNCHANGED <<inbox, writer, active, target, call, timeouts>>
      /\ UNCHANGED <<views, evaluations, dialogs, loads, decided, strays>>
  BY DEF TakeEvent, UnchangedEngine
<1>3. /\ wire' \in Seq(Message) /\ m \in Message /\ m = wire[1] /\ 1 \in DOMAIN wire
      /\ \A k \in DOMAIN wire' :
           k \in Nat /\ k >= 1 /\ k + 1 \in DOMAIN wire /\ wire'[k] = wire[k + 1]
  BY <1>1, <1>2, WireTaken
<1>4. m.page \in Pages /\ (m.kind = "dialog" => m.token \in Tokens)
  BY <1>2, <1>3, MessageIs
<1>5. /\ OnlyEntry(m.page)
      /\ ~Known(m.page) => pages'[m.page] = pages[m.page]
      /\ Known(m.page) => pages'[m.page] = Applied(pages[m.page], m.kind)
  <2>1. CASE ~Known(m.page)
    BY <1>1, <1>2, <2>1 DEF OnlyEntry
  <2>2. CASE Known(m.page)
    <3> PICK e : e = pages[m.page]
      OBVIOUS
    <3> PICK a : a = Applied(e, m.kind)
      OBVIOUS
    <3>1. e \in Page
      BY <1>1, <1>4
    <3>2. a \in Page
      BY <3>1, AppliedIs
    <3>3. pages' = [pages EXCEPT ![m.page] = a]
      BY <1>2, <2>2
    <3>4. OnlyEntry(m.page) /\ pages'[m.page] = a
      BY <1>1, <1>4, <3>2, <3>3, EntryPut
    <3> QED BY <2>2, <3>4
  <2> QED BY <2>1, <2>2
<1>6. /\ prompts' \in [Tokens -> {"absent", "pending", "resolved"}]
      /\ m.kind # "dialog" => prompts' = prompts
      /\ m.kind = "dialog" => /\ prompts'[m.token] = "pending"
                              /\ \A t \in Tokens \ {m.token} : prompts'[t] = prompts[t]
  BY <1>1, <1>2, <1>4
<1> QED BY <1>2, <1>3, <1>4, <1>5, <1>6

\* Taking an event changes the record of its page only.
LEMMA TakeEventKeepsChannel ==
  ASSUME ChannelInv, TakeEvent
  PROVE  ChannelInv'
<1>1. /\ 1 \in DOMAIN wire /\ wire' \in Seq(Message)
      /\ \A k \in DOMAIN wire' :
           k \in Nat /\ k >= 1 /\ k + 1 \in DOMAIN wire /\ wire'[k] = wire[k + 1]
      /\ UNCHANGED <<inbox, writer, active, target, call, timeouts>>
      /\ UNCHANGED <<views, evaluations, dialogs, loads, decided, strays>>
      /\ pages' \in [Pages -> Page]
      /\ prompts' \in [Tokens -> {"absent", "pending", "resolved"}]
  BY TakeEventIs DEF OnlyEntry
<1>2. /\ TypeOK /\ CallInv /\ RequestsInv /\ FreshInv /\ HostTypeOK
      /\ evaluations \in Seq(Evaluation)
  BY Unpacked, HostTypes
<1>3. HostTypeOK'
  BY <1>1, <1>2 DEF HostTypeOK
<1>4. UsedInv' /\ inbox' \in Seq(Request)
  BY <1>1, InboxSame
<1>5. TypeOK'
  BY <1>1, <1>2, <1>3, <1>4, HostKeepsTypes
<1>6. CallInv' /\ RequestsInv'
  BY <1>1, <1>2 DEF CallInv, RequestsInv
<1>7. InboxFresh' /\ EvaluationsFresh'
  BY <1>1, <1>2 DEF FreshInv, InboxFresh, EvaluationsFresh, Sought, InRequest
<1>8. RepliesFresh'
  <2> SUFFICES ASSUME NEW k \in DOMAIN wire', Awaited(wire'[k])
               PROVE  /\ inbox' = <<>> /\ InRequest'
                      /\ (Opens /\ wire[k].ok => wire[k].value \in Pages)'
                      /\ \A j \in DOMAIN wire' : Awaited(wire'[j]) => j = k
                      /\ \A j \in DOMAIN evaluations' : ~evaluations'[j].request.fresh
    BY DEF RepliesFresh, Awaited
  <2>1. k + 1 \in DOMAIN wire /\ wire'[k] = wire[k + 1] /\ Awaited(wire[k + 1])
    BY <1>1 DEF Awaited
  <2>2. /\ inbox = <<>> /\ InRequest
        /\ (Opens /\ wire[k + 1].ok => wire[k + 1].value \in Pages)
        /\ \A j \in DOMAIN wire : Awaited(wire[j]) => j = k + 1
        /\ \A j \in DOMAIN evaluations : ~evaluations[j].request.fresh
    BY <1>2, <2>1 DEF FreshInv, RepliesFresh
  <2>3. ASSUME NEW j \in DOMAIN wire', Awaited(wire'[j])
        PROVE  j = k
    <3>1. j + 1 \in DOMAIN wire /\ Awaited(wire[j + 1]) /\ j \in Nat /\ k \in Nat
      BY <1>1, <2>3 DEF Awaited
    <3>2. j + 1 = k + 1
      BY <2>2, <3>1
    <3> QED BY <3>1, <3>2
  <2> QED BY <1>1, <2>1, <2>2, <2>3 DEF Opens, InRequest
<1>9. NothingStale'
  BY <1>1, <1>2 DEF FreshInv, NothingStale
<1> QED BY <1>4, <1>5, <1>6, <1>7, <1>8, <1>9 DEF ChannelInv, FreshInv

\* A loop that ends, or goes on to wait for quiet.
LEMMA PumpsIs ==
  ASSUME ChannelInv, Pumps
  PROVE  \/ /\ UNCHANGED worker /\ call.stage \in {"load", "prompt", "death", "drain"}
            /\ UNCHANGED <<active, prompts, target, timeouts>> /\ call' = NoCall
            /\ \/ pages' = pages
               \/ /\ call.op = "restore" /\ call.page \in Pages /\ call.stage = "load"
                  /\ pages[call.page].load = "idle"
                  /\ OnlyEntry(call.page) /\ pages'[call.page].lifecycle = "open"
                  /\ pages'[call.page].restored = TRUE
                  /\ pages'[call.page].load = "idle"
                  /\ pages'[call.page].document = pages[call.page].document
            /\ HostTypeOK'
         \/ /\ UNCHANGED worker /\ UNCHANGED <<writer, pages, active, prompts, target, timeouts>>
            /\ call.stage = "death" /\ call.op = "crash"
            /\ pages[call.page].lifecycle = "terminated"
            /\ call'.op = "crash" /\ call'.stage = "drain" /\ call'.page = call.page
            /\ HostTypeOK' /\ CallInv'
         \/ PumpMeetsLateReply
<1>1. TypeOK /\ HostTypeOK /\ CallInv /\ call \in Call
  BY Unpacked, HostTypes, Types
<1>2. CASE AwaitReturns \/ LoadDeadline \/ PromptWaitEnds \/ TerminationDeadline \/ DrainEnds
  <2>1. /\ UNCHANGED worker /\ call.stage \in {"load", "prompt", "death", "drain"}
        /\ UNCHANGED <<writer, pages, active, prompts, target, timeouts>> /\ call' = NoCall
    BY <1>2 DEF AwaitReturns, LoadDeadline, PromptWaitEnds, TerminationDeadline, DrainEnds,
                Pumping
  <2>2. HostTypeOK'
    BY <1>1, <2>1, NoCallIs DEF HostTypeOK
  <2> QED BY <2>1, <2>2
<1>3. CASE Restored
  <2>1. /\ UNCHANGED worker /\ call.stage = "load" /\ call.op = "restore"
        /\ pages[call.page].load = "idle" /\ call' = NoCall /\ writer' = call.client
        /\ UNCHANGED <<active, prompts, target, timeouts>>
        /\ call.page \in Pages
    BY <1>1, <1>3 DEF Restored, Pumping, CallInv
  <2> PICK p \in Pages : p = call.page
    BY <2>1
  <2> PICK g : g = call.saved.generation + 1
    OBVIOUS
  <2>2. g \in Nat
    BY <1>1, SessionAssumption DEF Call, NotSaved
  <2> PICK e : e = [pages[p] EXCEPT !.generation = g, !.lifecycle = "open", !.restored = TRUE]
    OBVIOUS
  <2>3. pages[p] \in Page /\ pages \in [Pages -> Page]
    BY <1>1 DEF HostTypeOK
  <2>4. e \in Page /\ e.lifecycle = "open" /\ e.restored = TRUE /\ e.load = pages[p].load
        /\ e.document = pages[p].document
    BY <2>2, <2>3 DEF Page
  <2>5. pages' = [pages EXCEPT ![p] = e]
    BY <1>3, <2>3 DEF Restored
  <2>6. OnlyEntry(p) /\ pages'[p] = e
    BY <1>1, <2>4, <2>5, EntryPut
  <2>7. call.client \in Clients \union {None}
    BY <1>1 DEF Call
  <2>8. HostTypeOK'
    BY <1>1, <2>1, <2>6, <2>7, NoCallIs DEF HostTypeOK, OnlyEntry
  <2> QED BY <2>1, <2>4, <2>6, <2>8
<1>4. CASE TerminationConfirmed
  <2>1. /\ UNCHANGED worker /\ call.stage = "death"
        /\ pages[call.page].lifecycle = "terminated"
        /\ call' = [call EXCEPT !.stage = "drain"]
        /\ UNCHANGED <<writer, pages, active, prompts, target, timeouts>>
        /\ call.op = "crash"
    BY <1>1, <1>4 DEF TerminationConfirmed, Pumping, CallInv
  <2>2. /\ call' \in Call /\ call'.stage = "drain" /\ call'.op = call.op
        /\ call'.page = call.page /\ call'.token = call.token
    BY <1>1, <2>1, StagePut
  <2>3. HostTypeOK' /\ CallInv'
    BY <1>1, <2>1, <2>2 DEF HostTypeOK, CallInv
  <2> QED BY <2>1, <2>2, <2>3
<1>5. CASE PumpMeetsLateReply
  BY <1>5
<1> QED BY <1>2, <1>3, <1>4, <1>5 DEF Pumps

\* A late reply that a loop meets is dropped, and the call ends.
LEMMA PumpMeetsLateReplyIs ==
  ASSUME ChannelInv, PumpMeetsLateReply
  PROVE  /\ wire # <<>> /\ 1 \in DOMAIN wire /\ wire[1].kind = "reply" /\ timeouts # 0
         /\ call.stage \in {"load", "prompt", "death", "drain"}
         /\ wire' \in Seq(Message)
         /\ \A k \in DOMAIN wire' :
              k \in Nat /\ k >= 1 /\ k + 1 \in DOMAIN wire /\ wire'[k] = wire[k + 1]
         /\ call' = NoCall /\ HostTypeOK'
         /\ UNCHANGED <<inbox, writer, pages, active, prompts, target, timeouts,
                        views, evaluations, dialogs, loads, decided, strays>>
<1>1. /\ call.stage \in {"load", "prompt", "death", "drain"}
      /\ wire # <<>> /\ Head(wire).kind = "reply" /\ wire' = Tail(wire) /\ Raises
      /\ UNCHANGED <<inbox, evaluations, timeouts>>
  BY DEF PumpMeetsLateReply
<1>2. TypeOK /\ timeouts' \in Nat
  BY <1>1, Unpacked, Types
<1>3. /\ wire' \in Seq(Message) /\ Head(wire) = wire[1] /\ 1 \in DOMAIN wire
      /\ \A k \in DOMAIN wire' :
           k \in Nat /\ k >= 1 /\ k + 1 \in DOMAIN wire /\ wire'[k] = wire[k + 1]
  BY <1>1, <1>2, WireTaken
<1>4. ~Awaited(wire[1])
  BY <1>1, <1>3, NotInRequest
<1>5. timeouts # 0
  BY <1>1, <1>3, <1>4, LateReplyIs DEF Awaited
<1>6. HostTypeOK'
  BY <1>1, <1>2, RaisesIs
<1>7. pages' = pages
  BY <1>1 DEF Raises
<1>8. /\ call' = NoCall
      /\ UNCHANGED <<writer, active, prompts, target, views, dialogs, loads, decided, strays>>
  BY <1>1 DEF Raises
<1> QED BY <1>1, <1>3, <1>5, <1>6, <1>7, <1>8

LEMMA PumpsKeepChannel ==
  ASSUME ChannelInv, Pumps
  PROVE  ChannelInv'
<1>1. ASSUME call' = NoCall PROVE CallInv' /\ call'.stage # "request"
  BY <1>1, NoCallIs DEF CallInv
<1>2. CASE PumpMeetsLateReply
  <2>1. /\ timeouts # 0 /\ call.stage # "request"
        /\ wire' \in Seq(Message)
        /\ \A k \in DOMAIN wire' :
             k \in Nat /\ k >= 1 /\ k + 1 \in DOMAIN wire /\ wire'[k] = wire[k + 1]
        /\ call' = NoCall /\ HostTypeOK'
        /\ UNCHANGED <<inbox, timeouts, views, evaluations, dialogs, loads, decided, strays>>
    BY <1>2, PumpMeetsLateReplyIs
  <2>2. RequestsInv /\ evaluations \in Seq(Evaluation)
    BY Unpacked
  <2>3. UsedInv' /\ inbox' \in Seq(Request)
    BY <2>1, InboxSame
  <2>4. TypeOK'
    BY <2>1, <2>2, <2>3, HostKeepsTypes
  <2>5. RequestsInv'
    BY <2>1, <2>2 DEF RequestsInv
  <2>6. /\ \A i \in DOMAIN inbox' : ~inbox'[i].fresh
        /\ \A i \in DOMAIN evaluations' : ~evaluations'[i].request.fresh
        /\ \A k \in DOMAIN wire' : ~Awaited(wire'[k])
    BY <2>1, NotInRequest
  <2>7. NothingStale'
    BY <2>1 DEF NothingStale
  <2>8. FreshInv'
    BY <2>6, <2>7, NoneAwaited
  <2> QED BY <1>1, <2>1, <2>3, <2>4, <2>5, <2>8 DEF ChannelInv
<1>3. CASE ~PumpMeetsLateReply
  <2>1. /\ UNCHANGED worker /\ timeouts' = timeouts /\ HostTypeOK'
        /\ call.stage # "request" /\ call'.stage # "request" /\ CallInv'
    BY <1>1, <1>3, PumpsIs
  <2> QED BY <2>1, LocalKeepsChannel
<1> QED BY <1>2, <1>3

LEMMA InitChannel ==
  ASSUME Init
  PROVE  ChannelInv
<1>1. /\ inbox = <<>> /\ wire = <<>> /\ evaluations = <<>>
      /\ views = [p \in Pages |-> NoView]
      /\ dialogs = [t \in Tokens |-> [status |-> "unused", page |-> 0]]
      /\ loads = 0 /\ decided = [t \in Tokens |-> 0] /\ strays = {}
      /\ writer = None /\ pages = [p \in Pages |-> Absent] /\ active = 0
      /\ prompts = [t \in Tokens |-> "absent"]
      /\ target = NoTarget /\ call = NoCall /\ timeouts = 0
  BY DEF Init, InitWorker
<1>2. /\ inbox \in Seq(Request) /\ wire \in Seq(Message) /\ evaluations \in Seq(Evaluation)
      /\ DOMAIN inbox = {} /\ DOMAIN wire = {} /\ DOMAIN evaluations = {}
  BY <1>1
<1>3. views \in [Pages -> View] /\ \A p \in Pages : views[p].state = "none"
  BY <1>1 DEF NoView, View
<1>4. /\ dialogs \in [Tokens -> [status : {"unused", "held", "consumed"}, page : 0..MaxPages]]
      /\ loads \in Nat /\ decided \in [Tokens -> Nat] /\ strays \subseteq {"page", "document"}
  BY <1>1, PagesAre
<1>5. HostTypeOK
  BY <1>1, NoCallIs, NewPageIs, NoTargetIs, PagesAre DEF HostTypeOK
<1>6. TypeOK
  BY <1>2, <1>3, <1>4, <1>5 DEF TypeOK, WorkerTypeOK, HostTypeOK
<1>7. CallInv
  BY <1>1, NoCallIs DEF CallInv
<1>8. RequestsInv /\ FreshInv
  BY <1>2 DEF RequestsInv, FreshInv, InboxFresh, EvaluationsFresh, RepliesFresh, NothingStale
<1>9. UsedInv
  <2>1. Used = {}
    BY <1>3 DEF Used
  <2>2. Used = 1..0 /\ 0 \in 0..MaxPages
    BY <2>1, PagesAre
  <2> QED BY <1>2, <2>2 DEF UsedInv
<1> QED BY <1>6, <1>7, <1>8, <1>9 DEF ChannelInv

LEMMA StutterKeepsChannel ==
  ASSUME ChannelInv, UNCHANGED vars
  PROVE  ChannelInv'
<1>1. /\ UNCHANGED <<inbox, wire, views, evaluations, dialogs, loads, decided, strays>>
      /\ UNCHANGED <<writer, pages, active, prompts, target, call, timeouts>>
  BY DEF vars, worker, host
<1>2. TypeOK'
  BY <1>1, Unpacked DEF TypeOK, WorkerTypeOK
<1>3. CallInv' /\ RequestsInv'
  BY <1>1, Unpacked DEF CallInv, RequestsInv
<1>4. FreshInv'
  BY <1>1, Unpacked DEF FreshInv, InboxFresh, EvaluationsFresh, RepliesFresh, NothingStale,
                        Sought, InRequest, Awaited, Opens
<1>5. UsedInv'
  BY <1>1, Unpacked DEF UsedInv, Used
<1> QED BY <1>2, <1>3, <1>4, <1>5 DEF ChannelInv

\* The first invariant holds.
LEMMA ChannelHeld == Spec => []ChannelInv
<1>1. Init => ChannelInv
  BY InitChannel
<1>2. ChannelInv /\ [Next]_vars => ChannelInv'
  BY CallsKeepChannel, TakeEventKeepsChannel, RepliesKeepChannel, PumpsKeepChannel,
     WorkerKeepsChannel, StutterKeepsChannel DEF Next
<1> QED BY <1>1, <1>2, PTL DEF Spec

\* The backend's and the adapter's variables have their types.
THEOREM TypeCorrect == Spec => []TypeOK
<1>1. ChannelInv => TypeOK
  BY DEF ChannelInv
<1> QED BY <1>1, ChannelHeld, PTL

-----------------------------------------------------------------------------
(* The second invariant: decisions and prompts.                             *)

Announces(m, t) == m.kind = "dialog" /\ m.token = t
Announced(t) == \E k \in DOMAIN wire : Announces(wire[k], t)
Once(t) == \A j, k \in DOMAIN wire : Announces(wire[j], t) /\ Announces(wire[k], t) => j = k
Asked(t) == call.op = "decide" /\ call.token = t
Ready == \E k \in DOMAIN wire : Awaited(wire[k])

\* What the engine holds is announced once, and then known.
PromptInv(t) ==
  /\ decided[t] = IF dialogs[t].status = "consumed" THEN 1 ELSE 0
  /\ dialogs[t].status = "unused" => prompts[t] = "absent" /\ ~Announced(t)
  /\ dialogs[t].status = "held" => prompts[t] = "pending" \/ Announced(t)
  /\ prompts[t] = "resolved" => dialogs[t].status = "consumed"
  /\ Once(t)
  /\ Announced(t) => prompts[t] = "absent" /\ (timeouts = 0 => dialogs[t].status = "held")

\* A decision that is asked for is about a pending prompt, and was applied when
\* its reply says so.
AskedInv(t) ==
  /\ Asked(t) /\ InRequest =>
       /\ prompts[t] = "pending"
       /\ \A k \in DOMAIN wire : Awaited(wire[k]) =>
            /\ wire[k].ok => dialogs[t].status = "consumed"
            /\ timeouts = 0 => wire[k].ok
  /\ timeouts = 0 /\ prompts[t] = "pending" =>
       \/ dialogs[t].status = "held"
       \/ Asked(t) /\ Ready

DialogsInv == \A t \in Tokens : PromptInv(t) /\ AskedInv(t)

\* The wire has the announcements it had, d of its other messages are gone.
Kept(d) ==
  /\ \A k \in DOMAIN wire' :
       /\ k + d \in DOMAIN wire /\ k \in Nat
       /\ \A t \in Tokens : Announces(wire'[k], t) <=> Announces(wire[k + d], t)
  /\ \A k \in DOMAIN wire :
       (\E t \in Tokens : Announces(wire[k], t)) => k - d \in DOMAIN wire' /\ (k - d) + d = k

LEMMA KeptIs ==
  ASSUME NEW d \in Nat, Kept(d), NEW t \in Tokens
  PROVE  (Announced(t)' <=> Announced(t)) /\ (Once(t) => Once(t)')
<1>1. /\ \A k \in DOMAIN wire' :
           /\ k + d \in DOMAIN wire /\ k \in Nat
           /\ Announces(wire'[k], t) <=> Announces(wire[k + d], t)
      /\ \A k \in DOMAIN wire :
           Announces(wire[k], t) => k - d \in DOMAIN wire' /\ (k - d) + d = k
  BY DEF Kept
<1>2. Announced(t)' => Announced(t)
  BY <1>1 DEF Announced, Announces
<1>3. Announced(t) => Announced(t)'
  <2> SUFFICES ASSUME NEW k \in DOMAIN wire, Announces(wire[k], t)
               PROVE  Announced(t)'
    BY DEF Announced
  <2> PICK j : j = k - d
    OBVIOUS
  <2>1. j \in DOMAIN wire' /\ j + d = k
    BY <1>1
  <2>2. Announces(wire'[j], t)
    BY <1>1, <2>1
  <2> QED BY <2>1, <2>2 DEF Announced, Announces
<1>4. ASSUME Once(t) PROVE Once(t)'
  <2> SUFFICES ASSUME NEW j \in DOMAIN wire', NEW k \in DOMAIN wire',
                      Announces(wire'[j], t), Announces(wire'[k], t)
               PROVE  j = k
    BY DEF Once, Announces
  <2>1. j + d = k + d /\ j \in Nat /\ k \in Nat
    BY <1>1, <1>4 DEF Once
  <2> QED BY <2>1
<1> QED BY <1>2, <1>3, <1>4

LEMMA KeptSame ==
  ASSUME ChannelInv, UNCHANGED wire
  PROVE  Kept(0)
<1>1. \A k \in DOMAIN wire : k \in Nat
  BY Unpacked, LenProperties
<1> QED BY <1>1 DEF Kept

LEMMA KeptTaken ==
  ASSUME ChannelInv, wire # <<>>, wire' = Tail(wire), wire[1].kind # "dialog"
  PROVE  Kept(1)
<1>1. /\ \A k \in DOMAIN wire' :
           k \in Nat /\ k >= 1 /\ k + 1 \in DOMAIN wire /\ wire'[k] = wire[k + 1]
  BY Unpacked, WireTaken
<1>2. DOMAIN wire = 1..Len(wire) /\ DOMAIN wire' = 1..(Len(wire) - 1) /\ Len(wire) \in Nat
  <2>1. wire' \in Seq(Message) /\ DOMAIN wire = 1..Len(wire) /\ Len(wire) \in Nat
        /\ Len(wire') = Len(wire) - 1
    BY Unpacked, Taken
  <2> QED BY <2>1, LenProperties
<1>3. ASSUME NEW k \in DOMAIN wire, \E t \in Tokens : Announces(wire[k], t)
      PROVE  k - 1 \in DOMAIN wire' /\ (k - 1) + 1 = k
  <2>1. k # 1
    BY <1>3 DEF Announces
  <2> QED BY <1>2, <2>1
<1> QED BY <1>1, <1>3 DEF Kept

\* Nothing is decided, asked for, or awaited: prompts stay as they are.
LEMMA PromptsStay ==
  ASSUME ChannelInv, DialogsInv, NEW d \in Nat, Kept(d),
         UNCHANGED <<dialogs, decided, prompts>>,
         timeouts' \in Nat, timeouts' = 0 => timeouts = 0,
         call.op = "decide" => call.stage # "request" \/ timeouts' # 0,
         \A t \in Tokens : Asked(t)' /\ InRequest' => prompts[t] = "pending",
         \A t \in Tokens : Asked(t)' /\ InRequest' => \A k \in DOMAIN wire' : ~Awaited(wire'[k])
  PROVE  DialogsInv'
<1> SUFFICES ASSUME NEW t \in Tokens PROVE PromptInv(t)' /\ AskedInv(t)'
  BY DEF DialogsInv
<1>1. PromptInv(t) /\ AskedInv(t)
  BY DEF DialogsInv
<1>2. (Announced(t)' <=> Announced(t)) /\ (Once(t) => Once(t)')
  BY KeptIs
<1>3. PromptInv(t)'
  BY <1>1, <1>2 DEF PromptInv
<1>4. ASSUME timeouts' = 0, prompts[t] = "pending" PROVE dialogs[t].status = "held"
  <2>1. Asked(t) => ~Ready
    BY <1>4, NotInRequest DEF Asked, Ready
  <2> QED BY <1>1, <1>4, <2>1 DEF AskedInv
<1>5. Asked(t)' /\ InRequest' =>
       /\ prompts'[t] = "pending" /\ \A k \in DOMAIN wire' : ~Awaited(wire'[k])
  OBVIOUS
<1>6. AskedInv(t)'
  BY <1>4, <1>5 DEF AskedInv, Awaited
<1> QED BY <1>3, <1>6

-----------------------------------------------------------------------------
(* Prompts and the worker's steps.                                          *)

\* What the host waits for, when its request comes to be handled.
LEMMA HeadIs ==
  ASSUME ChannelInv, inbox # <<>>
  PROVE  /\ Head(inbox) \in Request /\ \A k \in DOMAIN wire : ~Awaited(wire[k])
         /\ Head(inbox).fresh =>
              /\ Sought(Head(inbox)) /\ Len(inbox) = 1
              /\ \A i \in DOMAIN evaluations : ~evaluations[i].request.fresh
         /\ timeouts = 0 => Head(inbox).fresh
<1>1. inbox \in Seq(Request) /\ FreshInv
  BY Unpacked, Types
<1>2. 1 \in DOMAIN inbox /\ Head(inbox) = inbox[1] /\ inbox[1] \in Request
  BY <1>1, Taken
<1> QED BY <1>1, <1>2 DEF FreshInv, InboxFresh, EvaluationsFresh, RepliesFresh, NothingStale

LEMMA EvaluationIs ==
  ASSUME ChannelInv, NEW i \in DOMAIN evaluations
  PROVE  /\ evaluations[i].request.fresh =>
              /\ Sought(evaluations[i].request) /\ inbox = <<>>
              /\ \A k \in DOMAIN wire : ~Awaited(wire[k])
         /\ timeouts = 0 => evaluations[i].request.fresh
<1>1. FreshInv
  BY Unpacked
<1> QED BY <1>1 DEF FreshInv, EvaluationsFresh, RepliesFresh, NothingStale

\* The step neither opens a dialog nor decides one.
Unprompted ==
  /\ UNCHANGED <<dialogs, decided>>
  /\ \E ms \in Seq(Message) :
       /\ Adds(ms)
       /\ \A j \in DOMAIN ms : /\ ms[j].kind # "dialog"
                               /\ Awaited(ms[j]) => call.op # "decide"

LEMMA NothingAdded ==
  ASSUME TypeOK, UNCHANGED wire
  PROVE  <<>> \in Seq(Message) /\ DOMAIN <<>> = {} /\ Adds(<<>>)
<1>1. wire \in Seq(Message)
  BY Types
<1> QED BY <1>1, ConcatEmptySeq DEF Adds

LEMMA UnpromptedAnswer ==
  ASSUME ChannelInv, inbox # <<>>, Head(inbox).op # "page.decide",
         NEW ok \in BOOLEAN, NEW v \in Nat, Adds(<<Reply(Head(inbox), ok, v)>>),
         UNCHANGED <<dialogs, decided>>
  PROVE  Unprompted
<1> PICK r : r = Head(inbox)
  OBVIOUS
<1> PICK m : m = Reply(r, ok, v)
  OBVIOUS
<1>1. r \in Request /\ (r.fresh => Sought(r))
  BY HeadIs
<1>2. m \in Message /\ m.kind = "reply" /\ m.fresh = r.fresh
  BY <1>1, ReplyIsMessage
<1>3. Awaited(m) => call.op # "decide"
  BY <1>1, <1>2 DEF Awaited, Sought
<1>4. <<m>> \in Seq(Message) /\ DOMAIN <<m>> = {1} /\ <<m>>[1] = m
  BY <1>2, One
<1>5. Adds(<<m>>)
  OBVIOUS
<1> QED BY <1>2, <1>3, <1>4, <1>5 DEF Unprompted

LEMMA UnpromptedEvent ==
  ASSUME ChannelInv, NEW m \in Message, m.kind \notin {"dialog", "reply"}, Adds(<<m>>),
         UNCHANGED <<dialogs, decided>>
  PROVE  Unprompted
<1>1. <<m>> \in Seq(Message) /\ DOMAIN <<m>> = {1} /\ <<m>>[1] = m
  BY One
<1> QED BY <1>1 DEF Unprompted, Awaited

LEMMA UnpromptedQuiet ==
  ASSUME ChannelInv, UNCHANGED <<wire, dialogs, decided>>
  PROVE  Unprompted
<1>1. TypeOK
  BY Unpacked
<1> PICK ms : ms = <<>>
  OBVIOUS
<1>2. ms \in Seq(Message) /\ DOMAIN ms = {} /\ Adds(ms)
  BY <1>1, NothingAdded
<1> QED BY <1>2 DEF Unprompted

LEMMA UnpromptedBoth ==
  ASSUME ChannelInv, inbox # <<>>, Head(inbox).op # "page.decide",
         NEW e \in Message, e.kind \notin {"dialog", "reply"},
         NEW ms \in With(Reply(Head(inbox), TRUE, 0), e), Adds(ms),
         UNCHANGED <<dialogs, decided>>
  PROVE  Unprompted
<1> PICK r : r = Head(inbox)
  OBVIOUS
<1> PICK m : m = Reply(r, TRUE, 0)
  OBVIOUS
<1>1. r \in Request /\ (r.fresh => Sought(r))
  BY HeadIs
<1>2. m \in Message /\ m.kind = "reply" /\ m.fresh = r.fresh
  BY <1>1, AcceptIs
<1>3. Awaited(m) => call.op # "decide"
  BY <1>1, <1>2 DEF Awaited, Sought
<1>4. ms \in With(m, e)
  OBVIOUS
<1>5. ms \in Seq(Message) /\ \A j \in DOMAIN ms : ms[j] = m \/ ms[j] = e
  BY <1>2, <1>4, Answers
<1> QED BY <1>2, <1>3, <1>5 DEF Unprompted, Awaited

\* What each step of the worker does to dialogs and announcements.
LEMMA WorkerDialogs ==
  ASSUME ChannelInv, Handler \/ Engine
  PROVE  \/ Unprompted
         \/ OpPageDecide
         \/ \E p \in Pages, t \in Tokens : Asks(p, t) /\ UNCHANGED <<inbox, decided>>
<1>0. TypeOK
  BY Unpacked
<1> PICK r : r = Head(inbox)
  OBVIOUS
<1> PICK p : p = r.page
  OBVIOUS
<1> PICK m : m = Reply(r, TRUE, 0)
  OBVIOUS
<1>1. CASE PageNotFound
  <2>1. /\ inbox # <<>> /\ Head(inbox).op # "page.decide"
        /\ Adds(<<Reply(Head(inbox), FALSE, 0)>>) /\ UNCHANGED <<dialogs, decided>>
    BY <1>1, Emits DEF PageNotFound, Handles, PageOps
  <2> QED BY <2>1, UnpromptedAnswer
<1>2. CASE OpSessionOpen
  <2>1. /\ inbox # <<>> /\ Head(inbox).op # "page.decide" /\ UNCHANGED <<dialogs, decided>>
        /\ Adds(<<Reply(Head(inbox), FALSE, 0)>>) \/ Adds(<<Reply(Head(inbox), TRUE, 1)>>)
    BY <1>2, OpSessionOpenIs
  <2> QED BY <2>1, UnpromptedAnswer
<1>3. CASE OpPageNew
  <2>1. PICK v \in Nat :
          /\ inbox # <<>> /\ Head(inbox).op # "page.decide" /\ UNCHANGED <<dialogs, decided>>
          /\ Adds(<<Reply(Head(inbox), TRUE, v)>>)
    <3>1. PICK n \in 0..MaxPages :
            /\ inbox # <<>> /\ Head(inbox).op = "page.new"
            /\ Adds(<<Reply(Head(inbox), TRUE, n + 1)>>) /\ UNCHANGED <<dialogs, decided>>
      BY <1>3, OpPageNewIs
    <3>2. n + 1 \in Nat
      OBVIOUS
    <3> QED BY <3>1, <3>2
  <2> QED BY <2>1, UnpromptedAnswer
<1>4. CASE OpPageClose
  <2>1. /\ inbox # <<>> /\ Head(inbox).op # "page.decide" /\ UNCHANGED <<dialogs, decided>>
        /\ Adds(<<Reply(Head(inbox), TRUE, 0)>>)
    BY <1>4, OpPageCloseIs
  <2> QED BY <2>1, UnpromptedAnswer
<1>5. CASE OpPageNavigate
  <2> PICK e : e = Event("failed", p)
    OBVIOUS
  <2>1. /\ inbox # <<>> /\ r.op = "page.navigate" /\ p \in Pages
        /\ UNCHANGED <<dialogs, decided>>
        /\ Adds(<<m>>) \/ Adds(<<e, m>>)
    BY <1>0, <1>5, NavigateIs
  <2>2. e \in Message /\ e.kind \notin {"dialog", "reply"}
    BY <2>1, EventIsMessage DEF LoadEvent
  <2>3. PICK ms \in With(m, e) : Adds(ms)
    BY <2>1 DEF With
  <2>4. ms \in With(Reply(Head(inbox), TRUE, 0), e)
    BY <2>3
  <2> QED BY <2>1, <2>2, <2>3, <2>4, UnpromptedBoth
<1>6. CASE OpPageObserve
  <2> PICK v : v = IF views[Head(inbox).page].load # "none" THEN 1 ELSE 0
    OBVIOUS
  <2>1. /\ inbox # <<>> /\ Head(inbox).op # "page.decide" /\ UNCHANGED <<dialogs, decided>>
        /\ Adds(<<Reply(Head(inbox), TRUE, v)>>) /\ v \in Nat
    BY <1>6, Emits DEF OpPageObserve, HandlesPage, Handles
  <2> QED BY <2>1, UnpromptedAnswer
<1>7. CASE OpPageTerminate
  <2> PICK e : e = Event("terminated", p)
    OBVIOUS
  <2>1. /\ inbox # <<>> /\ r.op = "page.terminate" /\ p \in Pages
        /\ UNCHANGED <<dialogs, decided>>
        /\ Adds(<<m>>) \/ Adds(<<e, m>>) \/ Adds(<<m, e>>)
    BY <1>0, <1>7, TerminateIs
  <2>2. e \in Message /\ e.kind \notin {"dialog", "reply"}
    BY <2>1, EventIsMessage
  <2>3. PICK ms \in With(m, e) : Adds(ms)
    BY <2>1 DEF With
  <2>4. ms \in With(Reply(Head(inbox), TRUE, 0), e)
    BY <2>3
  <2> QED BY <2>1, <2>2, <2>3, <2>4, UnpromptedBoth
<1>8. CASE OpPageEvaluate
  <2>1. UNCHANGED <<wire, dialogs, decided>>
    BY <1>8, OpPageEvaluateIs
  <2> QED BY <2>1, UnpromptedQuiet
<1>9. ASSUME NEW q \in Pages,
             LoadStarts(q) \/ LoadCommits(q) \/ LoadFinishes(q) \/ LoadFails(q)
      PROVE  Unprompted
  <2>1. PICK kind \in LoadEvent : Adds(<<Event(kind, q)>>) /\ UNCHANGED <<dialogs, decided>>
    BY <1>9, LoadEventIs DEF LoadEvent
  <2> PICK e : e = Event(kind, q)
    OBVIOUS
  <2>2. e \in Message /\ e.kind = kind /\ kind \notin {"dialog", "reply"} /\ Adds(<<e>>)
    BY <2>1, EventIsMessage DEF LoadEvent
  <2> QED BY <2>1, <2>2, UnpromptedEvent
<1>10. ASSUME NEW q \in Pages, PageNavigates(q) PROVE Unprompted
  <2>1. UNCHANGED <<wire, dialogs, decided>>
    BY <1>10 DEF PageNavigates
  <2> QED BY <2>1, UnpromptedQuiet
<1>11. ASSUME NEW q \in Pages, ProcessDies(q) PROVE Unprompted
  <2> PICK e : e = Event("terminated", q)
    OBVIOUS
  <2>1. Adds(<<e>>) /\ UNCHANGED <<dialogs, decided>>
    BY <1>11, Emits DEF ProcessDies
  <2>2. e \in Message /\ e.kind \notin {"dialog", "reply"}
    BY EventIsMessage
  <2> QED BY <2>1, <2>2, UnpromptedEvent
<1>12. ASSUME NEW q \in Pages, NEW t \in Tokens, ScriptDialog(q, t)
       PROVE  Asks(q, t) /\ UNCHANGED <<inbox, decided>>
  BY <1>12 DEF ScriptDialog
<1>13. ASSUME NEW i \in DOMAIN evaluations, TargetScript(i) \/ ClickResumes(i)
       PROVE  Unprompted
  <2>1. UNCHANGED <<wire, dialogs, decided>>
    BY <1>13 DEF TargetScript, ClickResumes
  <2> QED BY <2>1, UnpromptedQuiet
<1>14. ASSUME NEW i \in DOMAIN evaluations, ClickScript(i)
       PROVE  \/ Unprompted
              \/ \E q \in Pages, t \in Tokens : Asks(q, t) /\ UNCHANGED <<inbox, decided>>
  <2> PICK q : q = evaluations[i].request.page
    OBVIOUS
  <2>1. /\ q \in Pages /\ UNCHANGED <<inbox, decided>>
        /\ \/ UNCHANGED <<wire, dialogs>>
           \/ \E t \in Tokens : Asks(q, t)
    BY <1>14, ClickScriptIs
  <2> QED BY <2>1, UnpromptedQuiet
<1>15. ASSUME NEW i \in DOMAIN evaluations, EvaluationReplies(i) PROVE Unprompted
  <2>1. PICK q \in Request, ok \in BOOLEAN, v \in Nat :
          /\ q = evaluations[i].request
          /\ Adds(<<Reply(q, ok, v)>>) /\ UNCHANGED <<dialogs, decided>>
    BY <1>15, EvaluationRepliesIs
  <2> PICK a : a = Reply(q, ok, v)
    OBVIOUS
  <2>2. a \in Message /\ a.kind = "reply" /\ a.fresh = q.fresh
    BY ReplyIsMessage
  <2>3. q.op \in {"targets", "click"} /\ (q.fresh => Sought(q))
    BY <2>1, EvaluationIs, Unpacked DEF RequestsInv
  <2>4. Awaited(a) => call.op # "decide"
    BY <2>2, <2>3 DEF Awaited, Sought
  <2>5. <<a>> \in Seq(Message) /\ DOMAIN <<a>> = {1} /\ <<a>>[1] = a
    BY <2>2, One
  <2>6. Adds(<<a>>)
    BY <2>1
  <2> QED BY <2>1, <2>2, <2>4, <2>5, <2>6 DEF Unprompted
<1> QED
  BY <1>1, <1>2, <1>3, <1>4, <1>5, <1>6, <1>7, <1>8, <1>9, <1>10, <1>11, <1>12, <1>13,
     <1>14, <1>15 DEF Handler, Engine

LEMMA UnpromptedKeepsDialogs ==
  ASSUME ChannelInv, DialogsInv, Unprompted, UNCHANGED host
  PROVE  DialogsInv'
<1> SUFFICES ASSUME NEW t \in Tokens PROVE PromptInv(t)' /\ AskedInv(t)'
  BY DEF DialogsInv
<1>1. PromptInv(t) /\ AskedInv(t) /\ TypeOK
  BY Unpacked DEF DialogsInv
<1>2. PICK ms \in Seq(Message) :
        /\ Adds(ms)
        /\ \A j \in DOMAIN ms : ms[j].kind # "dialog" /\ (Awaited(ms[j]) => call.op # "decide")
  BY DEF Unprompted
<1>3. /\ \A k \in DOMAIN wire : k \in DOMAIN wire' /\ wire'[k] = wire[k]
      /\ \A k \in DOMAIN wire' :
           k \in DOMAIN wire \/ \E j \in DOMAIN ms : wire'[k] = ms[j]
  BY <1>1, <1>2, WireJoined
<1>4. UNCHANGED <<dialogs, decided, prompts, timeouts, call>>
  BY DEF Unprompted, host
<1>5. \A k \in DOMAIN wire' : Announces(wire'[k], t) => k \in DOMAIN wire
  BY <1>2, <1>3 DEF Announces
<1>6. (Announced(t)' <=> Announced(t)) /\ (Once(t) => Once(t)')
  BY <1>3, <1>5 DEF Announced, Announces, Once
<1>7. PromptInv(t)'
  BY <1>1, <1>4, <1>6 DEF PromptInv
<1>8. \A k \in DOMAIN wire' : Awaited(wire'[k]) /\ call.op = "decide" => k \in DOMAIN wire
  BY <1>2, <1>3
<1>9. Ready => Ready'
  BY <1>3 DEF Ready, Awaited
<1>10. AskedInv(t)'
  <2>1. ASSUME Asked(t)', InRequest'
        PROVE  /\ prompts'[t] = "pending"
               /\ \A k \in DOMAIN wire' : Awaited(wire'[k]) =>
                    /\ wire'[k].ok => dialogs'[t].status = "consumed"
                    /\ timeouts' = 0 => wire'[k].ok
    <3>1. Asked(t) /\ InRequest
      BY <1>4, <2>1 DEF Asked, InRequest
    <3>2. ASSUME NEW k \in DOMAIN wire', Awaited(wire'[k])
          PROVE  k \in DOMAIN wire /\ wire'[k] = wire[k] /\ Awaited(wire[k])
      BY <1>3, <1>8, <3>1, <3>2 DEF Asked
    <3> QED BY <1>1, <1>4, <3>1, <3>2 DEF AskedInv
  <2>2. ASSUME timeouts' = 0, prompts'[t] = "pending"
        PROVE  dialogs'[t].status = "held" \/ (Asked(t)' /\ Ready')
    BY <1>1, <1>4, <1>9, <2>2 DEF AskedInv, Asked
  <2> QED BY <2>1, <2>2 DEF AskedInv, Awaited
<1> QED BY <1>7, <1>10

LEMMA OneAdded ==
  ASSUME TypeOK, NEW m \in Message, Adds(<<m>>)
  PROVE  /\ Len(wire) + 1 \in DOMAIN wire' /\ wire'[Len(wire) + 1] = m
         /\ Len(wire) + 1 \notin DOMAIN wire /\ DOMAIN wire \subseteq Nat /\ Len(wire) \in Nat
         /\ \A k \in DOMAIN wire : k <= Len(wire) /\ k \in DOMAIN wire' /\ wire'[k] = wire[k]
         /\ \A k \in DOMAIN wire' : k \in DOMAIN wire \/ k = Len(wire) + 1
<1> PICK ms : ms = <<m>>
  OBVIOUS
<1>1. ms \in Seq(Message) /\ DOMAIN ms = {1} /\ ms[1] = m /\ Adds(ms)
  BY One
<1> PICK n : n = Len(wire)
  OBVIOUS
<1>2. /\ wire' \in Seq(Message) /\ n \in Nat /\ DOMAIN wire = 1..n
      /\ \A k \in DOMAIN wire : k <= n /\ k \in DOMAIN wire' /\ wire'[k] = wire[k]
      /\ \A j \in DOMAIN ms : n + j \in DOMAIN wire' /\ wire'[n + j] = ms[j]
      /\ \A k \in DOMAIN wire' : k \in DOMAIN wire \/ \E j \in DOMAIN ms : k = n + j
  BY ZenonT(40), <1>1, WireJoined
<1>3. n + 1 \in DOMAIN wire' /\ wire'[n + 1] = m
      /\ \A k \in DOMAIN wire' : k \in DOMAIN wire \/ k = n + 1
  BY <1>1, <1>2
<1>4. n + 1 \notin DOMAIN wire /\ DOMAIN wire \subseteq Nat
  BY <1>2
<1> QED BY <1>2, <1>3, <1>4

LEMMA DecideKeepsDialogs ==
  ASSUME ChannelInv, DialogsInv, OpPageDecide, UNCHANGED host
  PROVE  DialogsInv'
<1> PICK r : r = Head(inbox)
  OBVIOUS
<1> PICK u : u = r.token
  OBVIOUS
<1>1. PICK ok \in BOOLEAN :
        /\ inbox # <<>> /\ r.op = "page.decide" /\ u \in Tokens
        /\ \A t \in Tokens \ {u} : dialogs'[t] = dialogs[t] /\ decided'[t] = decided[t]
        /\ ok <=> dialogs[u].status = "held"
        /\ ok => dialogs'[u].status = "consumed" /\ decided'[u] = decided[u] + 1
        /\ ~ok => UNCHANGED <<dialogs, decided>>
        /\ Adds(<<Reply(r, ok, 0)>>)
  BY DecideIs
<1> PICK m : m = Reply(r, ok, 0)
  OBVIOUS
<1>2. /\ r \in Request /\ \A k \in DOMAIN wire : ~Awaited(wire[k])
      /\ r.fresh => Sought(r)
      /\ timeouts = 0 => r.fresh
  BY <1>1, HeadIs
<1>3. m \in Message /\ m.kind = "reply" /\ m.fresh = r.fresh /\ m.ok = ok
  BY <1>2, ReplyIsMessage
<1>4. TypeOK /\ <<m>> \in Seq(Message) /\ DOMAIN <<m>> = {1} /\ <<m>>[1] = m /\ Adds(<<m>>)
  BY <1>1, <1>3, One, Unpacked
<1>5. /\ Len(wire) + 1 \in DOMAIN wire' /\ wire'[Len(wire) + 1] = m
      /\ \A k \in DOMAIN wire : k \in DOMAIN wire' /\ wire'[k] = wire[k]
      /\ \A k \in DOMAIN wire' : k \in DOMAIN wire \/ wire'[k] = m
  BY <1>3, <1>4, OneAdded
<1>6. UNCHANGED <<prompts, timeouts, call>>
  BY DEF host
<1>7. Sought(r) => Asked(u) /\ InRequest
  BY <1>1 DEF Sought, Asked
<1>8. Awaited(m) => Sought(r)
  BY <1>2, <1>3 DEF Awaited
<1>9. timeouts = 0 => Awaited(m)
  BY <1>2, <1>3 DEF Awaited
<1> HIDE DEF Awaited
<1>10. \A t \in Tokens : (Announced(t)' <=> Announced(t)) /\ (Once(t) => Once(t)')
  <2>1. \A t \in Tokens : \A k \in DOMAIN wire' : Announces(wire'[k], t) => k \in DOMAIN wire
    BY <1>3, <1>5 DEF Announces
  <2> QED BY <1>5, <2>1 DEF Announced, Announces, Once
<1>11. \A k \in DOMAIN wire' : Awaited(wire'[k]) => wire'[k] = m
  BY <1>2, <1>5
<1> SUFFICES ASSUME NEW t \in Tokens PROVE PromptInv(t)' /\ AskedInv(t)'
  BY DEF DialogsInv
<1>12. PromptInv(t) /\ AskedInv(t) /\ ~Ready
  BY <1>2 DEF DialogsInv, Ready
<1>13. CASE t # u
  <2>1. dialogs'[t] = dialogs[t] /\ decided'[t] = decided[t]
    BY <1>1, <1>13
  <2>2. PromptInv(t)'
    BY <1>6, <1>10, <1>12, <2>1 DEF PromptInv
  <2>3. Asked(t) => ~Awaited(m)
    BY <1>7, <1>8, <1>13 DEF Asked
  <2>4. AskedInv(t)'
    <3>1. ASSUME Asked(t)', InRequest'
          PROVE  prompts'[t] = "pending" /\ \A k \in DOMAIN wire' : ~Awaited(wire'[k])
      <4>1. Asked(t) /\ InRequest
        BY <1>6, <3>1 DEF Asked, InRequest
      <4> QED BY <1>6, <1>11, <1>12, <2>3, <4>1 DEF AskedInv
    <3>2. ASSUME timeouts' = 0, prompts'[t] = "pending"
          PROVE  dialogs'[t].status = "held"
      BY <1>6, <1>12, <2>1, <3>2 DEF AskedInv
    <3> QED BY <3>1, <3>2 DEF AskedInv, Awaited
  <2> QED BY <2>2, <2>4
<1>14. CASE t = u
  <2>1. timeouts = 0 => /\ prompts[u] = "pending" /\ ok /\ ~Announced(u)
                        /\ Asked(u) /\ InRequest /\ Ready'
    <3>1. ASSUME timeouts = 0 PROVE Awaited(m) /\ Asked(u) /\ InRequest
      BY <1>7, <1>8, <1>9, <3>1
    <3>2. timeouts = 0 => Ready'
      BY <1>5, <3>1 DEF Ready, Awaited
    <3> QED BY <1>1, <1>12, <1>14, <3>1, <3>2 DEF AskedInv, PromptInv
  <2>2. PromptInv(u)'
    <3>1. CASE ok
      <4>1. decided[u] = 0
        BY <1>1, <1>12, <1>14, <3>1 DEF PromptInv
      <4>2. decided'[u] = 1 /\ dialogs'[u].status = "consumed"
        BY <1>1, <3>1, <4>1
      <4>3. Once(u)' /\ (Announced(u)' => Announced(u)) /\ PromptInv(u)
        BY <1>1, <1>10, <1>12, <1>14 DEF PromptInv
      <4> QED BY <1>6, <2>1, <4>2, <4>3 DEF PromptInv
    <3>2. CASE ~ok
      <4>1. UNCHANGED <<dialogs, decided>>
        BY <1>1, <3>2
      <4> QED BY <1>6, <1>10, <1>12, <1>14, <4>1 DEF PromptInv
    <3> QED BY <3>1, <3>2
  <2>3. AskedInv(u)'
    <3>1. ASSUME Asked(u)', InRequest'
          PROVE  prompts'[u] = "pending"
      <4>1. Asked(u) /\ InRequest
        BY <1>6, <3>1 DEF Asked, InRequest
      <4> QED BY <1>6, <1>12, <1>14, <4>1 DEF AskedInv
    <3>2. ASSUME NEW k \in DOMAIN wire', Awaited(wire'[k])
          PROVE  /\ wire'[k].ok => dialogs'[u].status = "consumed"
                 /\ timeouts' = 0 => wire'[k].ok
      <4>1. wire'[k].ok = ok
        BY <1>3, <1>11, <3>2
      <4> QED BY <1>1, <1>6, <2>1, <4>1
    <3>3. timeouts' = 0 => Asked(u)' /\ Ready'
      BY <1>6, <2>1 DEF Asked
    <3> QED BY <3>1, <3>2, <3>3 DEF AskedInv, Awaited
  <2> QED BY <1>14, <2>2, <2>3
<1> QED BY <1>13, <1>14

LEMMA AsksKeepsDialogs ==
  ASSUME ChannelInv, DialogsInv, UNCHANGED host, UNCHANGED decided,
         NEW p \in Pages, NEW u \in Tokens, Asks(p, u)
  PROVE  DialogsInv'
<1> PICK m : m = [kind |-> "dialog", page |-> p, token |-> u]
  OBVIOUS
<1>1. /\ dialogs[u].status = "unused" /\ dialogs'[u].status = "held"
      /\ \A t \in Tokens \ {u} : dialogs'[t] = dialogs[t]
      /\ Adds(<<m>>) /\ TypeOK
  BY Unpacked, AsksIs
<1>2. m \in Message /\ m.kind = "dialog" /\ m.token = u
  BY DialogIsMessage
<1>3. <<m>> \in Seq(Message) /\ DOMAIN <<m>> = {1} /\ <<m>>[1] = m
  BY <1>2, One
<1>4. /\ Len(wire) + 1 \in DOMAIN wire' /\ wire'[Len(wire) + 1] = m
      /\ \A k \in DOMAIN wire : k \in DOMAIN wire' /\ wire'[k] = wire[k]
      /\ \A k \in DOMAIN wire' : k \in DOMAIN wire \/ (k = Len(wire) + 1 /\ wire'[k] = m)
  BY <1>1, <1>2, OneAdded
<1>5. UNCHANGED <<prompts, timeouts, call>>
  BY DEF host
<1> SUFFICES ASSUME NEW t \in Tokens PROVE PromptInv(t)' /\ AskedInv(t)'
  BY DEF DialogsInv
<1>6. PromptInv(t) /\ AskedInv(t)
  BY DEF DialogsInv
<1>7. \A k \in DOMAIN wire' : Awaited(wire'[k]) => k \in DOMAIN wire
  BY <1>2, <1>4 DEF Awaited
<1>8. Ready => Ready'
  BY <1>4 DEF Ready, Awaited
<1>9. CASE t # u
  <2>1. dialogs'[t] = dialogs[t]
    BY <1>1, <1>9
  <2>2. \A k \in DOMAIN wire' : Announces(wire'[k], t) => k \in DOMAIN wire
    BY <1>2, <1>4, <1>9 DEF Announces
  <2>3. (Announced(t)' <=> Announced(t)) /\ (Once(t) => Once(t)')
    BY <1>4, <2>2 DEF Announced, Announces, Once
  <2>4. PromptInv(t)'
    BY <1>5, <1>6, <2>1, <2>3 DEF PromptInv
  <2>5. ASSUME Asked(t)', InRequest'
        PROVE  /\ prompts'[t] = "pending"
               /\ \A k \in DOMAIN wire' : Awaited(wire'[k]) =>
                    /\ wire'[k].ok => dialogs'[t].status = "consumed"
                    /\ timeouts' = 0 => wire'[k].ok
    <3>1. Asked(t) /\ InRequest
      BY <1>5, <2>5 DEF Asked, InRequest
    <3>2. ASSUME NEW k \in DOMAIN wire', Awaited(wire'[k])
          PROVE  k \in DOMAIN wire /\ wire'[k] = wire[k] /\ Awaited(wire[k])
      BY <1>4, <1>7, <3>2
    <3> QED BY <1>5, <1>6, <2>1, <3>1, <3>2 DEF AskedInv
  <2>6. ASSUME timeouts' = 0, prompts'[t] = "pending"
        PROVE  dialogs'[t].status = "held" \/ (Asked(t)' /\ Ready')
    BY <1>5, <1>6, <1>8, <2>1, <2>6 DEF AskedInv, Asked
  <2>7. AskedInv(t)'
    BY <2>5, <2>6 DEF AskedInv, Awaited
  <2> QED BY <2>4, <2>7
<1>10. CASE t = u
  <2>1. prompts[u] = "absent" /\ ~Announced(u) /\ decided[u] = 0
    BY <1>1, <1>6, <1>10 DEF PromptInv
  <2>2. Announces(m, u)
    BY <1>2 DEF Announces
  <2>3. Announced(u)'
    BY <1>4, <2>2 DEF Announced, Announces
  <2>4. Once(u)'
    <3>1. \A k \in DOMAIN wire' : Announces(wire'[k], u) => k = Len(wire) + 1
      BY <1>4, <2>1 DEF Announced
    <3> QED BY <3>1 DEF Once, Announces
  <2>5. PromptInv(u)'
    BY <1>1, <1>5, <2>1, <2>3, <2>4 DEF PromptInv
  <2>6. ~(Asked(u)' /\ InRequest')
    BY <1>5, <1>6, <1>10, <2>1 DEF Asked, InRequest, AskedInv
  <2>7. AskedInv(u)'
    BY <1>5, <2>1, <2>6 DEF AskedInv
  <2> QED BY <1>10, <2>5, <2>7
<1> QED BY <1>9, <1>10

\* Every step of the worker keeps the second invariant.
LEMMA WorkerKeepsDialogs ==
  ASSUME ChannelInv, DialogsInv, WorkerStep
  PROVE  DialogsInv'
<1>1. (Handler \/ Engine) /\ UNCHANGED host
  BY DEF WorkerStep
<1>2. CASE Unprompted
  BY <1>1, <1>2, UnpromptedKeepsDialogs
<1>3. CASE OpPageDecide
  BY <1>1, <1>3, DecideKeepsDialogs
<1>4. CASE \E p \in Pages, t \in Tokens : Asks(p, t) /\ UNCHANGED <<inbox, decided>>
  BY <1>1, <1>4, AsksKeepsDialogs
<1> QED BY <1>1, <1>2, <1>3, <1>4, WorkerDialogs

-----------------------------------------------------------------------------
(* Prompts and the host's steps.                                            *)

\* A decision is asked for only of a pending prompt.
LEMMA CallsKeepDialogs ==
  ASSUME ChannelInv, DialogsInv, Calls
  PROVE  DialogsInv'
<1>1. CASE \E r \in Request : Sent(r) /\ Checked(r)
  <2> PICK r \in Request : Sent(r) /\ Checked(r)
    BY <1>1
  <2>1. /\ Idle /\ Sought(r)'
        /\ UNCHANGED <<wire, dialogs, decided, prompts, timeouts>>
    BY DEF Sent
  <2>2. \A t \in Tokens : Asked(t)' => prompts[t] = "pending"
    BY <2>1 DEF Asked, Sought, Checked
  <2>3. call.stage # "request" /\ timeouts' \in Nat
    BY <2>1, NoCallIs, Unpacked, Types DEF Idle
  <2>4. \A k \in DOMAIN wire' : ~Awaited(wire'[k])
    BY <2>1, <2>3, NotInRequest
  <2> QED BY <2>1, <2>2, <2>3, <2>4, KeptSame, PromptsStay
<1>2. CASE Pauses
  <2>1. /\ Idle /\ call'.op = "await"
        /\ UNCHANGED <<wire, dialogs, decided, prompts, timeouts>>
    BY <1>2 DEF Pauses, worker
  <2>2. call.stage # "request" /\ timeouts' \in Nat /\ \A t \in Tokens : ~Asked(t)'
    BY <2>1, NoCallIs, Unpacked, Types DEF Idle, Asked
  <2> QED BY <2>1, <2>2, KeptSame, PromptsStay
<1>3. CASE Idle /\ UNCHANGED <<worker, prompts, call, timeouts>>
  <2>1. UNCHANGED <<wire, dialogs, decided, prompts, timeouts, call>>
    BY <1>3 DEF worker
  <2>2. call.stage # "request" /\ timeouts' \in Nat /\ \A t \in Tokens : ~Asked(t)'
    BY <1>3, <2>1, NoCallIs, Unpacked, Types DEF Idle, Asked
  <2> QED BY <2>1, <2>2, KeptSame, PromptsStay
<1> QED BY <1>1, <1>2, <1>3, CallsAre

\* The wire's messages but the first are those of the wire then.
LEMMA TakenIs ==
  ASSUME ChannelInv, wire # <<>>, wire' = Tail(wire)
  PROVE  /\ 1 \in DOMAIN wire
         /\ \A k \in DOMAIN wire' :
              k \in Nat /\ k >= 1 /\ k + 1 \in DOMAIN wire /\ wire'[k] = wire[k + 1]
         /\ \A k \in DOMAIN wire : k # 1 => k - 1 \in DOMAIN wire' /\ (k - 1) + 1 = k
<1>1. /\ 1 \in DOMAIN wire
      /\ \A k \in DOMAIN wire' :
           k \in Nat /\ k >= 1 /\ k + 1 \in DOMAIN wire /\ wire'[k] = wire[k + 1]
  BY Unpacked, WireTaken
<1>2. DOMAIN wire = 1..Len(wire) /\ DOMAIN wire' = 1..(Len(wire) - 1) /\ Len(wire) \in Nat
  <2>1. wire' \in Seq(Message) /\ DOMAIN wire = 1..Len(wire) /\ Len(wire) \in Nat
        /\ Len(wire') = Len(wire) - 1
    BY Unpacked, Taken
  <2> QED BY <2>1, LenProperties
<1>3. ASSUME NEW k \in DOMAIN wire, k # 1
      PROVE  k - 1 \in DOMAIN wire' /\ (k - 1) + 1 = k
  BY <1>2, <1>3
<1> QED BY <1>1, <1>3

\* An announcement taken becomes a pending prompt.
LEMMA TakeEventKeepsDialogs ==
  ASSUME ChannelInv, DialogsInv, TakeEvent
  PROVE  DialogsInv'
<1>1. PICK m \in Message :
        /\ m = wire[1] /\ m.kind # "reply" /\ wire' = Tail(wire) /\ 1 \in DOMAIN wire
        /\ UNCHANGED <<call, timeouts, dialogs, decided>>
        /\ m.kind # "dialog" => prompts' = prompts
        /\ m.kind = "dialog" => /\ m.token \in Tokens /\ prompts'[m.token] = "pending"
                                /\ \A t \in Tokens \ {m.token} : prompts'[t] = prompts[t]
  BY TakeEventIs
<1>2. wire # <<>>
  BY <1>1
<1>3. /\ \A k \in DOMAIN wire' :
           k \in Nat /\ k >= 1 /\ k + 1 \in DOMAIN wire /\ wire'[k] = wire[k + 1]
      /\ \A k \in DOMAIN wire : k # 1 => k - 1 \in DOMAIN wire' /\ (k - 1) + 1 = k
  BY <1>1, <1>2, TakenIs
<1>4. ~Awaited(wire[1])
  BY <1>1 DEF Awaited
<1>5. Ready => Ready'
  <2> SUFFICES ASSUME NEW k \in DOMAIN wire, Awaited(wire[k]) PROVE Ready'
    BY DEF Ready
  <2> PICK j : j = k - 1
    OBVIOUS
  <2>1. j \in DOMAIN wire' /\ j + 1 = k
    BY <1>3, <1>4
  <2>2. Awaited(wire'[j])
    BY <1>3, <2>1
  <2> QED BY <2>1, <2>2 DEF Ready, Awaited
<1> SUFFICES ASSUME NEW t \in Tokens PROVE PromptInv(t)' /\ AskedInv(t)'
  BY DEF DialogsInv
<1>6. PromptInv(t) /\ AskedInv(t)
  BY DEF DialogsInv
<1>7. CASE ~Announces(m, t)
  <2>1. prompts'[t] = prompts[t]
    BY <1>1, <1>7 DEF Announces
  <2>2. Announced(t)' <=> Announced(t)
    <3>1. Announced(t)' => Announced(t)
      BY <1>3 DEF Announced, Announces
    <3>2. ASSUME NEW k \in DOMAIN wire, Announces(wire[k], t)
          PROVE  Announced(t)'
      <4> PICK j : j = k - 1
        OBVIOUS
      <4>1. j \in DOMAIN wire' /\ j + 1 = k
        BY <1>1, <1>3, <1>7, <3>2
      <4>2. Announces(wire'[j], t)
        BY <1>3, <3>2, <4>1
      <4> QED BY <4>1, <4>2 DEF Announced, Announces
    <3> QED BY <3>1, <3>2 DEF Announced
  <2>3. Once(t)'
    <3> SUFFICES ASSUME NEW j \in DOMAIN wire', NEW k \in DOMAIN wire',
                        Announces(wire'[j], t), Announces(wire'[k], t)
                 PROVE  j = k
      BY DEF Once, Announces
    <3>1. j + 1 = k + 1 /\ j \in Nat /\ k \in Nat
      BY <1>3, <1>6 DEF PromptInv, Once
    <3> QED BY <3>1
  <2>4. PromptInv(t)'
    BY <1>1, <1>6, <2>1, <2>2, <2>3 DEF PromptInv
  <2>5. ASSUME Asked(t)', InRequest'
        PROVE  /\ prompts'[t] = "pending"
               /\ \A k \in DOMAIN wire' : Awaited(wire'[k]) =>
                    /\ wire'[k].ok => dialogs'[t].status = "consumed"
                    /\ timeouts' = 0 => wire'[k].ok
    <3>1. Asked(t) /\ InRequest
      BY <1>1, <2>5 DEF Asked, InRequest
    <3>2. ASSUME NEW k \in DOMAIN wire', Awaited(wire'[k])
          PROVE  k + 1 \in DOMAIN wire /\ wire'[k] = wire[k + 1] /\ Awaited(wire[k + 1])
      BY <1>3, <3>2
    <3> QED BY <1>1, <1>6, <2>1, <3>1, <3>2 DEF AskedInv
  <2>6. ASSUME timeouts' = 0, prompts'[t] = "pending"
        PROVE  dialogs'[t].status = "held" \/ (Asked(t)' /\ Ready')
    BY <1>1, <1>5, <1>6, <2>1, <2>6 DEF AskedInv, Asked
  <2>7. AskedInv(t)'
    BY <2>5, <2>6 DEF AskedInv, Awaited
  <2> QED BY <2>4, <2>7
<1>8. CASE Announces(m, t)
  <2>1. prompts'[t] = "pending" /\ Announced(t)
    BY <1>1, <1>8 DEF Announces, Announced
  <2>2. /\ prompts[t] = "absent" /\ (timeouts = 0 => dialogs[t].status = "held")
        /\ dialogs[t].status # "unused"
    BY <1>6, <2>1 DEF PromptInv
  <2>3. \A k \in DOMAIN wire' : ~Announces(wire'[k], t)
    <3>1. ASSUME NEW k \in DOMAIN wire', Announces(wire'[k], t) PROVE FALSE
      <4>1. k + 1 \in DOMAIN wire /\ Announces(wire[k + 1], t) /\ k \in Nat /\ k >= 1
        BY <1>3, <3>1
      <4>2. k + 1 = 1
        BY <1>1, <1>6, <1>8, <4>1 DEF PromptInv, Once
      <4> QED BY <4>1, <4>2
    <3> QED BY <3>1
  <2>4. ~Announced(t)' /\ Once(t)'
    BY <2>3 DEF Announced, Once, Announces
  <2>5. PromptInv(t)'
    BY <1>1, <1>6, <2>1, <2>2, <2>4 DEF PromptInv
  <2>6. ~(Asked(t)' /\ InRequest')
    BY <1>1, <1>6, <2>2 DEF Asked, InRequest, AskedInv
  <2>7. AskedInv(t)'
    BY <1>1, <2>2, <2>6 DEF AskedInv
  <2> QED BY <2>5, <2>7
<1> QED BY <1>7, <1>8

LEMMA Rest ==
  ASSUME NEW S, NEW s \in Seq(S), s # <<>>
  PROVE  /\ Tail(s) \in Seq(S)
         /\ \A k \in DOMAIN Tail(s) :
              k \in Nat /\ k >= 1 /\ k + 1 \in DOMAIN s /\ Tail(s)[k] = s[k + 1]
         /\ \A k \in DOMAIN s : k # 1 => k - 1 \in DOMAIN Tail(s) /\ (k - 1) + 1 = k
<1>1. /\ Tail(s) \in Seq(S) /\ DOMAIN s = 1..Len(s) /\ Len(s) \in Nat
      /\ Len(Tail(s)) = Len(s) - 1
      /\ \A k \in DOMAIN Tail(s) :
           k \in Nat /\ k >= 1 /\ k + 1 \in DOMAIN s /\ Tail(s)[k] = s[k + 1]
  BY Taken
<1>2. DOMAIN Tail(s) = 1..(Len(s) - 1)
  BY <1>1, LenProperties
<1>3. ASSUME NEW k \in DOMAIN s, k # 1
      PROVE  k - 1 \in DOMAIN Tail(s) /\ (k - 1) + 1 = k
  BY <1>1, <1>2, <1>3
<1> QED BY <1>1, <1>3

LEMMA KeptAbandoned ==
  ASSUME ChannelInv, NEW frames \in Seq(Message), Abandoned(frames), NEW d \in Nat,
         \A k \in DOMAIN frames : k \in Nat /\ k + d \in DOMAIN wire /\ frames[k] = wire[k + d],
         \A k \in DOMAIN wire :
           wire[k].kind # "reply" => k - d \in DOMAIN frames /\ (k - d) + d = k
  PROVE  Kept(d)
<1>1. /\ DOMAIN wire' = DOMAIN frames
      /\ \A k \in DOMAIN frames : /\ wire'[k].kind = frames[k].kind
                                  /\ frames[k].kind # "reply" => wire'[k] = frames[k]
  BY AbandonedIs
<1>2. ASSUME NEW k \in DOMAIN wire', NEW t \in Tokens
      PROVE  Announces(wire'[k], t) <=> Announces(wire[k + d], t)
  BY <1>1 DEF Announces
<1>3. ASSUME NEW k \in DOMAIN wire, \E t \in Tokens : Announces(wire[k], t)
      PROVE  k - d \in DOMAIN wire' /\ (k - d) + d = k
  BY <1>1, <1>3 DEF Announces
<1> QED BY <1>1, <1>2, <1>3 DEF Kept

LEMMA AbandonKeepsDialogs ==
  ASSUME ChannelInv, DialogsInv, NEW d \in Nat, Kept(d), Raises, timeouts' \in Nat \ {0}
  PROVE  DialogsInv'
<1>1. /\ call' = NoCall /\ UNCHANGED <<prompts, dialogs, decided>>
  BY RaisesIs
<1>2. \A t \in Tokens : ~Asked(t)'
  BY <1>1, NoCallIs DEF Asked
<1> QED BY <1>1, <1>2, PromptsStay

LEMMA RequestTimesOutKeepsDialogs ==
  ASSUME ChannelInv, DialogsInv, RequestTimesOut
  PROVE  DialogsInv'
<1>1. wire \in Seq(Message) /\ timeouts \in Nat
  BY Unpacked, Types
<1>2. Abandoned(wire) /\ Raises /\ timeouts' = timeouts + 1
  BY DEF RequestTimesOut
<1>3. timeouts' \in Nat \ {0}
  BY <1>1, <1>2
<1>4. \A k \in DOMAIN wire : k \in Nat
  BY <1>1, LenProperties
<1>5. \A k \in DOMAIN wire : k + 0 = k /\ k - 0 = k
  BY <1>4
<1>6. Kept(0)
  BY <1>1, <1>2, <1>4, <1>5, KeptAbandoned
<1> QED BY <1>2, <1>3, <1>6, AbandonKeepsDialogs

LEMMA RequestMeetsLateReplyKeepsDialogs ==
  ASSUME ChannelInv, DialogsInv, RequestMeetsLateReply
  PROVE  DialogsInv'
<1>1. wire \in Seq(Message) /\ timeouts \in Nat
  BY Unpacked, Types
<1>2. /\ wire # <<>> /\ Head(wire).kind = "reply" /\ ~Head(wire).fresh
      /\ Abandoned(Tail(wire)) /\ Raises /\ timeouts' = timeouts
  BY DEF RequestMeetsLateReply, ReplyIs
<1>3. timeouts' \in Nat \ {0}
  BY <1>1, <1>2, LateReplyIs
<1>4. Head(wire) = wire[1]
  BY <1>1, <1>2, Taken
<1> PICK frames : frames = Tail(wire)
  OBVIOUS
<1>5. /\ frames \in Seq(Message)
      /\ \A k \in DOMAIN frames : k \in Nat /\ k + 1 \in DOMAIN wire /\ frames[k] = wire[k + 1]
      /\ \A k \in DOMAIN wire : k # 1 => k - 1 \in DOMAIN frames /\ (k - 1) + 1 = k
  BY <1>1, <1>2, Rest
<1>6. \A k \in DOMAIN wire : wire[k].kind # "reply" => k # 1
  BY <1>2, <1>4
<1>7. Abandoned(frames)
  BY <1>2
<1>8. Kept(1)
  BY <1>5, <1>6, <1>7, KeptAbandoned
<1> QED BY <1>2, <1>3, <1>8, AbandonKeepsDialogs

LEMMA KeptAnswered ==
  ASSUME ChannelInv, NEW ok \in BOOLEAN, Answered(ok)
  PROVE  Kept(1) /\ UNCHANGED <<dialogs, decided, timeouts>> /\ timeouts' \in Nat
         /\ \A k \in DOMAIN wire' : ~Awaited(wire'[k])
<1>1. wire # <<>> /\ Awaited(wire[1]) /\ \A k \in DOMAIN wire' : ~Awaited(wire'[k])
  BY AnsweredIs
<1>2. wire' = Tail(wire) /\ UNCHANGED <<dialogs, decided, timeouts>>
  BY DEF Answered
<1>3. Kept(1)
  BY <1>1, <1>2, KeptTaken DEF Awaited
<1> QED BY <1>1, <1>2, <1>3, Unpacked, Types

LEMMA RequestRefusedKeepsDialogs ==
  ASSUME ChannelInv, DialogsInv, RequestRefused
  PROVE  DialogsInv'
<1>1. /\ Answered(FALSE) /\ call' = NoCall /\ UNCHANGED prompts
  BY RefusedIs
<1>2. /\ Kept(1) /\ UNCHANGED <<dialogs, decided, timeouts>> /\ timeouts' \in Nat
  BY <1>1, KeptAnswered
<1>3. 1 \in DOMAIN wire /\ Awaited(wire[1]) /\ wire[1].ok = FALSE /\ InRequest
  BY <1>1, AnsweredIs DEF Answered, InRequest
<1>4. ASSUME call.op = "decide" PROVE timeouts # 0
  <2>1. call.token \in Tokens
    BY <1>4, Unpacked DEF CallInv
  <2>2. AskedInv(call.token) /\ Asked(call.token)
    BY <1>4, <2>1 DEF DialogsInv, Asked
  <2> QED BY <1>3, <2>2 DEF AskedInv
<1>5. \A t \in Tokens : ~Asked(t)'
  BY <1>1, NoCallIs DEF Asked
<1> QED BY <1>1, <1>2, <1>4, <1>5, PromptsStay

LEMMA DecidedKeepsDialogs ==
  ASSUME ChannelInv, DialogsInv, Decided
  PROVE  DialogsInv'
<1> PICK u : u = call.token
  OBVIOUS
<1>1. /\ Answered(TRUE) /\ call.op = "decide" /\ u \in Tokens
      /\ prompts'[u] = "resolved"
      /\ \A t \in Tokens \ {u} : prompts'[t] = prompts[t]
      /\ call'.stage = "drain"
  BY DecidedIs
<1>2. /\ Kept(1) /\ UNCHANGED <<dialogs, decided, timeouts>>
  BY <1>1, KeptAnswered
<1>3. 1 \in DOMAIN wire /\ Awaited(wire[1]) /\ wire[1].ok = TRUE /\ InRequest
  BY <1>1, AnsweredIs DEF Answered, InRequest
<1> SUFFICES ASSUME NEW t \in Tokens PROVE PromptInv(t)' /\ AskedInv(t)'
  BY DEF DialogsInv
<1>4. PromptInv(t) /\ AskedInv(t) /\ (Announced(t)' <=> Announced(t)) /\ Once(t)'
  BY <1>2, KeptIs DEF DialogsInv, PromptInv
<1>5. CASE t = u
  <2>1. Asked(t)
    BY <1>1, <1>5 DEF Asked
  <2>2. prompts[t] = "pending" /\ dialogs[t].status = "consumed"
    BY <1>3, <1>4, <2>1 DEF AskedInv
  <2>3. ~Announced(t)
    BY <1>4, <2>2 DEF PromptInv
  <2>4. prompts'[t] = "resolved" /\ ~InRequest' /\ dialogs'[t].status = "consumed"
    BY <1>1, <1>2, <1>5, <2>2 DEF InRequest
  <2>5. PromptInv(t)'
    BY <1>2, <1>4, <2>2, <2>3, <2>4 DEF PromptInv
  <2>6. AskedInv(t)'
    BY <2>4 DEF AskedInv
  <2> QED BY <2>5, <2>6
<1>6. CASE t # u
  <2>1. prompts'[t] = prompts[t]
    BY <1>1, <1>6
  <2>2. ~Asked(t) /\ ~InRequest'
    BY <1>1, <1>6 DEF Asked, InRequest
  <2>3. PromptInv(t)'
    BY <1>2, <1>4, <2>1 DEF PromptInv
  <2>4. AskedInv(t)'
    BY <1>2, <1>4, <2>1, <2>2 DEF AskedInv
  <2> QED BY <2>3, <2>4
<1> QED BY <1>5, <1>6

\* A positive reply to a decision resolves its prompt.
LEMMA RepliesKeepDialogs ==
  ASSUME ChannelInv, DialogsInv, Replies
  PROVE  DialogsInv'
<1>1. CASE RequestTimesOut \/ RequestMeetsLateReply \/ RequestRefused \/ Decided
  BY <1>1, RequestTimesOutKeepsDialogs, RequestMeetsLateReplyKeepsDialogs,
     RequestRefusedKeepsDialogs, DecidedKeepsDialogs
<1>2. CASE ~(RequestTimesOut \/ RequestMeetsLateReply \/ RequestRefused \/ Decided)
  <2>1. Answered(TRUE) /\ UNCHANGED prompts /\ call.op # "decide" /\ call'.op # "decide"
    <3>1. CASE Created
      BY <3>1, CreatedIs, NoCallIs
    <3>2. CASE TabOpened \/ TabClosed \/ NavigationAccepted \/ StateObserved
               \/ TargetsObserved
      BY <3>2, TabOpenedIs, TabClosedIs, NavigationAcceptedIs, StateObservedIs,
         TargetsObservedIs, NoCallIs
    <3>3. CASE RestoreAccepted \/ Clicked \/ Terminated
      BY <3>3, WaitsOnIs
    <3> QED BY <1>2, <3>1, <3>2, <3>3 DEF Replies
  <2>2. Kept(1) /\ UNCHANGED <<dialogs, decided, timeouts>> /\ timeouts' \in Nat
    BY <2>1, KeptAnswered
  <2>3. \A t \in Tokens : ~Asked(t)'
    BY <2>1 DEF Asked
  <2> QED BY <2>1, <2>2, <2>3, PromptsStay
<1> QED BY <1>1, <1>2

LEMMA PumpsKeepDialogs ==
  ASSUME ChannelInv, DialogsInv, Pumps
  PROVE  DialogsInv'
<1>1. CASE PumpMeetsLateReply
  <2>1. /\ wire # <<>> /\ wire[1].kind = "reply"
        /\ call.stage # "request" /\ call' = NoCall
        /\ UNCHANGED <<prompts, timeouts, dialogs, decided>>
    BY <1>1, PumpMeetsLateReplyIs
  <2>2. wire' = Tail(wire) /\ timeouts' \in Nat
    BY <1>1, <2>1, Unpacked, Types DEF PumpMeetsLateReply
  <2>3. Kept(1)
    BY <2>1, <2>2, KeptTaken
  <2>4. \A t \in Tokens : ~Asked(t)'
    BY <2>1, NoCallIs DEF Asked
  <2> QED BY <2>1, <2>2, <2>3, <2>4, PromptsStay
<1>2. CASE ~PumpMeetsLateReply
  <2>1. /\ UNCHANGED worker /\ UNCHANGED <<prompts, timeouts>>
        /\ call.stage # "request" /\ call'.op # "decide"
    BY <1>2, PumpsIs, NoCallIs
  <2>2. UNCHANGED <<wire, dialogs, decided>> /\ timeouts' \in Nat
    BY <2>1, Unpacked, Types DEF worker
  <2>3. Kept(0)
    BY <2>2, KeptSame
  <2>4. \A t \in Tokens : ~Asked(t)'
    BY <2>1 DEF Asked
  <2> QED BY <2>1, <2>2, <2>3, <2>4, PromptsStay
<1> QED BY <1>1, <1>2

LEMMA InitDialogs ==
  ASSUME Init
  PROVE  DialogsInv
<1>1. /\ wire = <<>> /\ dialogs = [t \in Tokens |-> [status |-> "unused", page |-> 0]]
      /\ decided = [t \in Tokens |-> 0] /\ prompts = [t \in Tokens |-> "absent"]
      /\ call = NoCall
  BY DEF Init, InitWorker
<1>2. DOMAIN wire = {}
  BY <1>1
<1> SUFFICES ASSUME NEW t \in Tokens PROVE PromptInv(t) /\ AskedInv(t)
  BY DEF DialogsInv
<1>3. PromptInv(t)
  BY <1>1, <1>2 DEF PromptInv, Announced, Once
<1>4. AskedInv(t)
  BY <1>1, NoCallIs DEF AskedInv, Asked
<1> QED BY <1>3, <1>4

LEMMA StutterKeepsDialogs ==
  ASSUME DialogsInv, UNCHANGED vars
  PROVE  DialogsInv'
BY DEF vars, worker, host, DialogsInv, PromptInv, AskedInv, Announced, Announces, Once, Asked,
       InRequest, Ready, Awaited

\* The second invariant holds.
LEMMA DialogsHeld == Spec => []DialogsInv
<1>1. Init => DialogsInv
  BY InitDialogs
<1>2. ChannelInv /\ DialogsInv /\ [Next]_vars => DialogsInv'
  BY CallsKeepDialogs, TakeEventKeepsDialogs, RepliesKeepDialogs, PumpsKeepDialogs,
     WorkerKeepsDialogs, StutterKeepsDialogs DEF Next
<1> QED BY <1>1, <1>2, ChannelHeld, PTL DEF Spec

\* A decision is applied at most once, and what the host records as resolved has
\* been applied.
THEOREM DecisionsApplied == Spec => []DecidedOnce
<1>1. DialogsInv => DecidedOnce
  <2> SUFFICES ASSUME DialogsInv, NEW t \in Tokens
               PROVE  decided[t] <= 1 /\ (prompts[t] = "resolved" => decided[t] = 1)
    BY DEF DecidedOnce
  <2>1. decided[t] = (IF dialogs[t].status = "consumed" THEN 1 ELSE 0)
        /\ (prompts[t] = "resolved" => dialogs[t].status = "consumed")
    BY DEF DialogsInv, PromptInv
  <2> QED BY <2>1
<1> QED BY <1>1, DialogsHeld, PTL

\* Once the host has caught up, its pending prompts are those the engine holds.
THEOREM PromptsKnown == Spec => []PromptsFollow
<1>1. DialogsInv => PromptsFollow
  <2> SUFFICES ASSUME DialogsInv, Settled, NEW t \in Tokens
               PROVE  /\ dialogs[t].status = "held" => prompts[t] = "pending"
                      /\ timeouts = 0 /\ prompts[t] = "pending" => dialogs[t].status = "held"
    BY DEF PromptsFollow
  <2>1. PromptInv(t) /\ AskedInv(t)
    BY DEF DialogsInv
  <2>2. DOMAIN wire = {}
    BY DEF Settled
  <2>3. ~Announced(t) /\ ~Ready
    BY <2>2 DEF Announced, Ready
  <2> QED BY <2>1, <2>3 DEF PromptInv, AskedInv
<1> QED BY <1>1, DialogsHeld, PTL

-----------------------------------------------------------------------------
(* The third invariant: the pages of the host and of the adapter.           *)

Good(m) == Awaited(m) /\ m.ok

ActiveInv ==
  /\ active = 0 => \A p \in Pages : ~Known(p)
  /\ active # 0 => Known(active)

Seen == \A p \in Pages : Known(p) => views[p].state # "none"

Ends == {"dead", "closed"}
Ended(p) == views[p].state \in Ends
Waits ==
  /\ call.op = "restore" => Known(call.page)
  /\ call.op = "crash" /\ call.stage \in {"death", "drain"} =>
       inbox = <<>> /\ Ended(call.page)

\* What a reply under way says is true.
Told ==
  \A k \in DOMAIN wire : Good(wire[k]) =>
    /\ call.op = "crash" => Ended(call.page)
    /\ call.op = "close" => views[call.page].state = "closed"
    /\ Opens => Exists(wire[k].value) /\ ~Known(wire[k].value)

\* The two differ by the page that a reply under way closes or opens.
Closing(p) == call.op = "close" /\ call.page = p /\ \E k \in DOMAIN wire : Good(wire[k])
Opening(p) == Opens /\ \E k \in DOMAIN wire : Good(wire[k]) /\ wire[k].value = p
Agreed ==
  timeouts = 0 => \A p \in Pages :
    /\ Known(p) => Exists(p) \/ Closing(p)
    /\ Exists(p) => Known(p) \/ Opening(p)

PagesInv == ActiveInv /\ Seen /\ Waits /\ Told /\ Agreed

\* What the worker's step does to the life of pages, with these messages.
Moves(ms) ==
  /\ ms \in Seq(Message) /\ Adds(ms)
  /\ \A p \in Pages : views[p].state # "none" => views'[p].state # "none"
  /\ \A j \in DOMAIN ms : Good(ms[j]) =>
       /\ call.op = "crash" => views'[call.page].state \in Ends
       /\ call.op = "close" => views'[call.page].state = "closed"
       /\ Opens => /\ ms[j].value \in Pages /\ views[ms[j].value].state = "none"
                   /\ views'[ms[j].value].state = "live"
  /\ timeouts = 0 => \A p \in Pages :
       /\ Exists(p) => Exists(p)' \/ (/\ call.op = "close" /\ call.page = p
                                      /\ \E j \in DOMAIN ms : Good(ms[j]))
       /\ Exists(p)' => Exists(p) \/ (/\ Opens
                                      /\ \E j \in DOMAIN ms : Good(ms[j]) /\ ms[j].value = p)
  /\ inbox = <<>> =>
       /\ inbox' = <<>>
       /\ \A p \in Pages : /\ Ended(p) => Ended(p)'
                           /\ views[p].state = "closed" => views'[p].state = "closed"
                           /\ Exists(p) => Exists(p)'

\* A move keeps the third invariant.
LEMMA MovesKeepPages ==
  ASSUME ChannelInv, PagesInv, NEW ms, Moves(ms), UNCHANGED host
  PROVE  PagesInv'
<1>1. /\ TypeOK /\ CallInv /\ RepliesFresh /\ ms \in Seq(Message) /\ Adds(ms)
  BY Unpacked DEF FreshInv, Moves
<1>2. /\ \A k \in DOMAIN wire : k \in DOMAIN wire' /\ wire'[k] = wire[k]
      /\ \A j \in DOMAIN ms : Len(wire) + j \in DOMAIN wire' /\ wire'[Len(wire) + j] = ms[j]
      /\ \A k \in DOMAIN wire' :
           k \in DOMAIN wire \/ \E j \in DOMAIN ms : wire'[k] = ms[j]
  BY <1>1, WireJoined
<1>3. UNCHANGED <<pages, active, call, timeouts>>
  BY DEF host
<1>4. \A p \in Pages : Known(p)' <=> Known(p)
  BY <1>3 DEF Known
<1>5. ActiveInv'
  BY <1>3, <1>4 DEF PagesInv, ActiveInv, Known
<1>6. Seen'
  BY <1>3, <1>4 DEF PagesInv, Seen, Moves
<1>7. call.op \in {"crash", "close", "restore"} => call.page \in Pages
  BY <1>1 DEF CallInv
<1>8. Waits'
  BY <1>3, <1>4, <1>7 DEF PagesInv, Waits, Moves
<1>9. Told'
  <2>0. ASSUME NEW k \in DOMAIN wire', NEW v, v = wire'[k].value, Good(wire'[k])
        PROVE  /\ call.op = "crash" => views'[call.page].state \in Ends
               /\ call.op = "close" => views'[call.page].state = "closed"
               /\ Opens => /\ v \in Pages /\ views'[v].state \in {"live", "dead"}
                           /\ ~Known(v)
    <3>1. CASE k \in DOMAIN wire
      <4>1. wire'[k] = wire[k] /\ Good(wire[k]) /\ Awaited(wire[k])
        BY <1>2, <2>0, <3>1 DEF Good
      <4>2. inbox = <<>>
        BY <1>1, <3>1, <4>1 DEF RepliesFresh
      <4>3. /\ call.op = "crash" => Ended(call.page)
            /\ call.op = "close" => views[call.page].state = "closed"
            /\ Opens => Exists(v) /\ ~Known(v)
        BY <2>0, <3>1, <4>1 DEF PagesInv, Told
      <4>4. \A p \in Pages :
              /\ Ended(p) => views'[p].state \in Ends
              /\ views[p].state = "closed" => views'[p].state = "closed"
              /\ Exists(p) => views'[p].state \in {"live", "dead"}
        BY <4>2 DEF Moves, Exists, Ended
      <4>5. Opens => v \in Pages
        BY <4>3 DEF Exists
      <4> QED BY <1>7, <4>3, <4>4, <4>5
    <3>2. CASE k \notin DOMAIN wire
      <4>1. PICK j \in DOMAIN ms : wire'[k] = ms[j]
        BY <1>2, <3>2
      <4>2. Good(ms[j]) /\ v = ms[j].value
        BY <2>0, <4>1
      <4>3. /\ call.op = "crash" => views'[call.page].state \in Ends
            /\ call.op = "close" => views'[call.page].state = "closed"
            /\ Opens => v \in Pages /\ views[v].state = "none" /\ views'[v].state = "live"
        BY <4>2 DEF Moves
      <4>4. Opens => ~Known(v)
        BY <4>3 DEF PagesInv, Seen
      <4> QED BY <4>3, <4>4
    <3> QED BY <3>1, <3>2
  <2> QED BY <1>3, <2>0 DEF Told, Good, Awaited, Opens, Known, Ended, Exists
<1>10. Agreed'
  <2>1. \A p \in Pages : Closing(p) => Closing(p)'
    BY <1>2, <1>3 DEF Closing, Good, Awaited
  <2>2. \A p \in Pages : Opening(p) => Opening(p)'
    BY <1>2, <1>3 DEF Opening, Good, Awaited, Opens
  <2>3. \A p \in Pages :
          call.op = "close" /\ call.page = p /\ (\E j \in DOMAIN ms : Good(ms[j])) => Closing(p)'
    BY <1>2, <1>3 DEF Closing, Good, Awaited
  <2>4. \A p \in Pages :
          Opens /\ (\E j \in DOMAIN ms : Good(ms[j]) /\ ms[j].value = p) => Opening(p)'
    BY <1>2, <1>3 DEF Opening, Good, Awaited, Opens
  <2> SUFFICES ASSUME timeouts = 0, NEW p \in Pages
               PROVE  /\ Known(p) => Exists(p)' \/ Closing(p)'
                      /\ Exists(p)' => Known(p) \/ Opening(p)'
    BY <1>3, <1>4 DEF Agreed, Exists, Closing, Opening, Known
  <2>5. /\ Known(p) => Exists(p) \/ Closing(p)
        /\ Exists(p) => Known(p) \/ Opening(p)
    BY DEF PagesInv, Agreed
  <2>6. /\ Exists(p) => Exists(p)' \/ (/\ call.op = "close" /\ call.page = p
                                       /\ \E j \in DOMAIN ms : Good(ms[j]))
        /\ Exists(p)' => Exists(p) \/ (/\ Opens
                                       /\ \E j \in DOMAIN ms : Good(ms[j]) /\ ms[j].value = p)
    BY DEF Moves
  <2> QED BY <2>1, <2>2, <2>3, <2>4, <2>5, <2>6
<1> QED BY <1>5, <1>6, <1>8, <1>9, <1>10 DEF PagesInv

\* A handler, and what it replies.
LEMMA MovesAnswer ==
  ASSUME ChannelInv, inbox # <<>>, NEW ms \in Seq(Message), Adds(ms),
         \A j \in DOMAIN ms : ms[j].kind = "reply" => ms[j].fresh = Head(inbox).fresh,
         \A p \in Pages : views[p].state # "none" => views'[p].state # "none",
         \A p \in Pages : Exists(p)' <=> Exists(p),
         \/ Head(inbox).op \notin {"session.open", "page.new", "page.close", "page.terminate"}
         \/ \A j \in DOMAIN ms : ms[j].kind = "reply" => ~ms[j].ok
         \/ Head(inbox).op = "page.terminate" /\ views'[Head(inbox).page].state \in Ends
  PROVE  \E ns : Moves(ns)
<1> PICK r : r = Head(inbox)
  OBVIOUS
<1>1. /\ r \in Request
      /\ r.fresh => Sought(r)
  BY HeadIs
<1>2. ASSUME NEW j \in DOMAIN ms, Good(ms[j])
      PROVE  /\ call.op = "crash" => views'[call.page].state \in Ends
             /\ call.op = "close" => views'[call.page].state = "closed"
             /\ ~Opens
  <2>1. ms[j].kind = "reply" /\ ms[j].ok /\ Sought(r)
    BY <1>1, <1>2 DEF Good, Awaited
  <2>2. \/ r.op \notin {"session.open", "page.new", "page.close", "page.terminate"}
        \/ r.op = "page.terminate" /\ views'[r.page].state \in Ends
    BY <2>1
  <2>3. CASE r.op \notin {"session.open", "page.new", "page.close", "page.terminate"}
    BY <2>1, <2>3 DEF Sought, Opens
  <2>4. CASE r.op = "page.terminate" /\ views'[r.page].state \in Ends
    <3>1. call.op = "crash" /\ call.page = r.page
      BY <2>1, <2>4 DEF Sought
    <3>2. views'[call.page].state \in Ends
      BY <2>4, <3>1
    <3> QED BY <3>1, <3>2 DEF Opens
  <2> QED BY <2>2, <2>3, <2>4
<1>3. Moves(ms)
  BY <1>2 DEF Moves
<1> QED BY <1>3

\* A step of the engine.
LEMMA MovesEngine ==
  ASSUME ChannelInv, UNCHANGED inbox, NEW ms \in Seq(Message), Adds(ms),
         \A j \in DOMAIN ms : Awaited(ms[j]) => call.op \notin {"crash", "close", "create", "new"},
         \A p \in Pages : \/ views'[p].state = views[p].state
                          \/ views[p].state = "live" /\ views'[p].state = "dead"
  PROVE  \E ns : Moves(ns)
<1>1. \A p \in Pages : Exists(p)' <=> Exists(p)
  BY DEF Exists
<1>2. \A p \in Pages : /\ Ended(p) => Ended(p)'
                       /\ views[p].state = "closed" => views'[p].state = "closed"
  BY DEF Ended, Ends
<1>3. Moves(ms)
  BY <1>1, <1>2 DEF Moves, Opens, Good
<1> QED BY <1>3

LEMMA MovesSingle ==
  ASSUME ChannelInv, inbox # <<>>, NEW m \in Message, Adds(<<m>>),
         m.kind = "reply" => m.fresh = Head(inbox).fresh,
         \A p \in Pages : views[p].state # "none" => views'[p].state # "none",
         \A p \in Pages : Exists(p)' <=> Exists(p),
         \/ Head(inbox).op \notin {"session.open", "page.new", "page.close", "page.terminate"}
         \/ m.kind = "reply" => ~m.ok
  PROVE  \E ns : Moves(ns)
<1> PICK ms : ms = <<m>>
  OBVIOUS
<1>1. ms \in Seq(Message) /\ DOMAIN ms = {1} /\ ms[1] = m /\ Adds(ms)
  BY One
<1> QED BY <1>1, MovesAnswer

LEMMA MovesOpens ==
  ASSUME ChannelInv, inbox # <<>>, Head(inbox).op \in {"session.open", "page.new"},
         NEW p \in Pages, views[p].state = "none",
         views' = [views EXCEPT ![p].state = "live"],
         Adds(<<Reply(Head(inbox), TRUE, p)>>)
  PROVE  \E ns : Moves(ns)
<1> PICK r : r = Head(inbox)
  OBVIOUS
<1> PICK m : m = Reply(r, TRUE, p)
  OBVIOUS
<1>1. /\ r \in Request /\ (r.fresh => Sought(r)) /\ (timeouts = 0 => r.fresh)
      /\ views \in [Pages -> View] /\ p \in Nat
  BY HeadIs, Unpacked, PagesAre
<1>2. TRUE \in BOOLEAN
  OBVIOUS
<1>3. m \in Message /\ m.kind = "reply" /\ m.fresh = r.fresh /\ m.ok = TRUE /\ m.value = p
  <2>1. \A ok \in BOOLEAN, v \in Nat :
          LET x == Reply(r, ok, v)
          IN  /\ x \in Message /\ x.kind = "reply" /\ x.fresh = r.fresh
              /\ x.ok = ok /\ x.value = v
    BY <1>1, ReplyIsMessage
  <2> QED BY <1>1, <1>2, <2>1
<1> PICK ms : ms = <<m>>
  OBVIOUS
<1>4. ms \in Seq(Message) /\ DOMAIN ms = {1} /\ ms[1] = m /\ Adds(ms)
  BY <1>3, One
<1>5. /\ views'[p].state = "live"
      /\ \A q \in Pages \ {p} : views'[q] = views[q]
  BY <1>1 DEF View
<1>6. Good(m) => Opens /\ call.op \notin {"crash", "close"}
  BY <1>1, <1>3 DEF Good, Awaited, Sought, Opens
<1>7. timeouts = 0 => Good(m)
  BY <1>1, <1>3 DEF Good, Awaited
<1>8. \A q \in Pages : /\ views[q].state # "none" => views'[q].state # "none"
                       /\ Exists(q) => Exists(q)'
                       /\ Exists(q)' => Exists(q) \/ q = p
  BY <1>5 DEF Exists
<1>9. \A j \in DOMAIN ms : ms[j] = m
  BY <1>4
<1>10. \A j \in DOMAIN ms : Good(ms[j]) =>
         /\ call.op = "crash" => views'[call.page].state \in Ends
         /\ call.op = "close" => views'[call.page].state = "closed"
         /\ Opens => /\ ms[j].value \in Pages /\ views[ms[j].value].state = "none"
                     /\ views'[ms[j].value].state = "live"
  <2> SUFFICES ASSUME NEW j \in DOMAIN ms, Good(ms[j])
               PROVE  /\ call.op \notin {"crash", "close"}
                      /\ ms[j].value = p
    BY <1>5
  <2> QED BY <1>3, <1>6, <1>9
<1>11. timeouts = 0 => Opens /\ \E j \in DOMAIN ms : Good(ms[j]) /\ ms[j].value = p
  <2>1. 1 \in DOMAIN ms /\ ms[1] = m /\ m.value = p
    BY <1>3, <1>4
  <2> HIDE DEF Good
  <2> QED BY <1>6, <1>7, <2>1
<1> HIDE DEF Good
<1>12. timeouts = 0 => \A q \in Pages :
         /\ Exists(q) => Exists(q)'
         /\ Exists(q)' => Exists(q) \/ (/\ Opens
                                        /\ \E j \in DOMAIN ms : Good(ms[j]) /\ ms[j].value = q)
  BY <1>8, <1>11
<1>13. \A q \in Pages : views[q].state # "none" => views'[q].state # "none"
  BY <1>8
<1>14. Moves(ms)
  BY <1>4, <1>10, <1>12, <1>13 DEF Moves
<1> QED BY <1>14

LEMMA MovesClose ==
  ASSUME ChannelInv, OpPageClose
  PROVE  \E ns : Moves(ns)
<1> PICK r : r = Head(inbox)
  OBVIOUS
<1> PICK p : p = r.page
  OBVIOUS
<1> PICK m : m = Reply(r, TRUE, 0)
  OBVIOUS
<1>1. /\ inbox # <<>> /\ r.op = "page.close" /\ p \in Pages /\ Exists(p)
      /\ views' = Gone(p, "closed") /\ Adds(<<m>>)
  BY OpPageCloseIs
<1>2. r \in Request /\ (r.fresh => Sought(r)) /\ (timeouts = 0 => r.fresh) /\ TypeOK
  BY <1>1, HeadIs, Unpacked
<1>3. m \in Message /\ m.kind = "reply" /\ m.fresh = r.fresh /\ m.ok
  BY <1>2, AcceptIs
<1> PICK ms : ms = <<m>>
  OBVIOUS
<1>4. ms \in Seq(Message) /\ DOMAIN ms = {1} /\ ms[1] = m /\ Adds(ms)
  BY <1>1, <1>3, One
<1>5. OnlyPage(p) /\ views'[p].state = "closed"
  BY <1>1, <1>2, GoneIs
<1>6. \A q \in Pages \ {p} : views'[q] = views[q]
  BY <1>5 DEF OnlyPage
<1>7. Good(m) => call.op = "close" /\ call.page = p
  BY <1>1, <1>2, <1>3 DEF Good, Awaited, Sought
<1>8. timeouts = 0 => Good(m)
  BY <1>2, <1>3 DEF Good, Awaited
<1>9. \A q \in Pages : /\ views[q].state # "none" => views'[q].state # "none"
                       /\ Exists(q)' => Exists(q)
                       /\ Exists(q) => Exists(q)' \/ q = p
  BY <1>1, <1>5, <1>6 DEF Exists
<1>10. \A j \in DOMAIN ms : ms[j] = m
  BY <1>4
<1> HIDE DEF Good
<1>11. \A j \in DOMAIN ms : Good(ms[j]) =>
         /\ call.op = "crash" => views'[call.page].state \in Ends
         /\ call.op = "close" => views'[call.page].state = "closed"
         /\ Opens => /\ ms[j].value \in Pages /\ views[ms[j].value].state = "none"
                     /\ views'[ms[j].value].state = "live"
  BY <1>5, <1>7, <1>10 DEF Opens
<1>12. timeouts = 0 => /\ call.op = "close" /\ call.page = p
                       /\ \E j \in DOMAIN ms : Good(ms[j])
  BY <1>4, <1>7, <1>8
<1>13. timeouts = 0 => \A q \in Pages :
         /\ Exists(q) => Exists(q)' \/ (/\ call.op = "close" /\ call.page = q
                                        /\ \E j \in DOMAIN ms : Good(ms[j]))
         /\ Exists(q)' => Exists(q)
  BY <1>9, <1>12
<1>14. \A q \in Pages : views[q].state # "none" => views'[q].state # "none"
  BY <1>9
<1>15. Moves(ms)
  BY ZenonT(40), <1>1, <1>4, <1>11, <1>13, <1>14 DEF Moves
<1> QED BY <1>15

LEMMA MovesTerminate ==
  ASSUME ChannelInv, OpPageTerminate
  PROVE  \E ns : Moves(ns)
<1> PICK r : r = Head(inbox)
  OBVIOUS
<1> PICK p : p = r.page
  OBVIOUS
<1> PICK m : m = Reply(r, TRUE, 0)
  OBVIOUS
<1> PICK e : e = Event("terminated", p)
  OBVIOUS
<1>1. TypeOK
  BY Unpacked
<1>2. /\ inbox # <<>> /\ r \in Request /\ r.op = "page.terminate"
      /\ Exists(p) /\ p \in Pages
      /\ Adds(<<m>>) \/ Adds(<<e, m>>) \/ Adds(<<m, e>>)
      /\ \/ views[p].state = "live" /\ views' = Gone(p, "dead")
         \/ views[p].state = "dead" /\ UNCHANGED views
  BY <1>1, TerminateIs
<1>3. m \in Message /\ m.kind = "reply" /\ m.fresh = r.fresh
  BY <1>2, AcceptIs
<1>4. e \in Message /\ e.kind # "reply"
  BY <1>2, EventIsMessage
<1>5. PICK ms \in With(m, e) : Adds(ms)
  BY <1>2 DEF With
<1>6. /\ ms \in Seq(Message)
      /\ \A j \in DOMAIN ms : ms[j].kind = "reply" => ms[j] = m
  BY <1>3, <1>4, <1>5, Answers
<1>7. OnlyPage(p) /\ views'[p].state = "dead"
  <2>1. CASE views' = Gone(p, "dead")
    BY <1>1, <1>2, <2>1, GoneIs
  <2>2. CASE views[p].state = "dead" /\ UNCHANGED views
    BY <1>1, <2>2, Types DEF OnlyPage
  <2> QED BY <1>2, <2>1, <2>2
<1>8. \A q \in Pages \ {p} : views'[q] = views[q]
  BY <1>7 DEF OnlyPage
<1>9. \A q \in Pages : /\ views[q].state # "none" => views'[q].state # "none"
                       /\ Exists(q)' <=> Exists(q)
  BY <1>2, <1>7, <1>8 DEF Exists
<1>10. Head(inbox).op = "page.terminate" /\ views'[Head(inbox).page].state \in Ends
  BY <1>2, <1>7 DEF Ends
<1>11. \A j \in DOMAIN ms : ms[j].kind = "reply" => ms[j].fresh = Head(inbox).fresh
  BY <1>3, <1>6
<1> QED BY <1>2, <1>5, <1>6, <1>9, <1>10, <1>11, MovesAnswer

LEMMA MovesNavigate ==
  ASSUME ChannelInv, OpPageNavigate
  PROVE  \E ns : Moves(ns)
<1> PICK r : r = Head(inbox)
  OBVIOUS
<1> PICK p : p = r.page
  OBVIOUS
<1> PICK m : m = Reply(r, TRUE, 0)
  OBVIOUS
<1> PICK e : e = Event("failed", p)
  OBVIOUS
<1>1. TypeOK
  BY Unpacked
<1>2. /\ inbox # <<>> /\ r \in Request /\ r.op = "page.navigate"
      /\ Exists(p) /\ p \in Pages /\ views' = Loading(p, TRUE)
      /\ Adds(<<m>>) \/ Adds(<<e, m>>)
  BY <1>1, NavigateIs
<1>3. m \in Message /\ m.kind = "reply" /\ m.fresh = r.fresh
  BY <1>2, AcceptIs
<1>4. e \in Message /\ e.kind # "reply"
  BY <1>2, EventIsMessage DEF LoadEvent
<1>5. PICK ms \in With(m, e) : Adds(ms)
  BY <1>2 DEF With
<1>6. /\ ms \in Seq(Message)
      /\ \A j \in DOMAIN ms : ms[j].kind = "reply" => ms[j] = m
  BY <1>3, <1>4, <1>5, Answers
<1>7. TRUE \in BOOLEAN
  OBVIOUS
<1>8. OnlyPage(p) /\ views'[p].state = "live"
  BY <1>1, <1>2, <1>7, LoadingIs
<1>9. \A q \in Pages \ {p} : views'[q] = views[q]
  BY <1>8 DEF OnlyPage
<1>10. \A q \in Pages : /\ views[q].state # "none" => views'[q].state # "none"
                        /\ Exists(q)' <=> Exists(q)
  BY <1>2, <1>8, <1>9 DEF Exists
<1>11. \A j \in DOMAIN ms : ms[j].kind = "reply" => ms[j].fresh = Head(inbox).fresh
  BY <1>3, <1>6
<1>12. Head(inbox).op \notin {"session.open", "page.new", "page.close", "page.terminate"}
  BY <1>2
<1> QED BY <1>2, <1>5, <1>6, <1>10, <1>11, <1>12, MovesAnswer

\* Every handler of the worker makes a move.
LEMMA HandlerMoves ==
  ASSUME ChannelInv, Handler
  PROVE  \E ns : Moves(ns)
<1>0. TypeOK
  BY Unpacked
<1> PICK r : r = Head(inbox)
  OBVIOUS
<1>1. ASSUME inbox # <<>>, UNCHANGED views, NEW ok \in BOOLEAN, NEW v \in Nat,
             Adds(<<Reply(r, ok, v)>>),
             \/ r.op \notin {"session.open", "page.new", "page.close", "page.terminate"}
             \/ ~ok
      PROVE  \E ns : Moves(ns)
  <2>1. r \in Request
    BY <1>1, HeadIs
  <2> PICK m : m = Reply(r, ok, v)
    OBVIOUS
  <2>2. m \in Message /\ m.kind = "reply" /\ m.fresh = r.fresh /\ m.ok = ok /\ Adds(<<m>>)
    BY <1>1, <2>1, ReplyIsMessage
  <2>3. \A p \in Pages : Exists(p)' <=> Exists(p)
    BY <1>1 DEF Exists
  <2> QED BY <1>1, <2>2, <2>3, MovesSingle
<1>2. CASE PageNotFound
  <2>1. inbox # <<>> /\ Adds(<<Reply(r, FALSE, 0)>>) /\ UNCHANGED views
    BY <1>2, Emits DEF PageNotFound, Handles
  <2> QED BY <1>1, <2>1
<1>3. CASE OpSessionOpen
  <2>1. /\ inbox # <<>> /\ r.op = "session.open"
        /\ \/ Adds(<<Reply(r, FALSE, 0)>>) /\ UNCHANGED views
           \/ /\ Used = {} /\ views' = [views EXCEPT ![1].state = "live"]
              /\ Adds(<<Reply(r, TRUE, 1)>>)
    BY <1>3, OpSessionOpenIs
  <2>2. CASE Adds(<<Reply(r, FALSE, 0)>>) /\ UNCHANGED views
    BY <1>1, <2>1, <2>2
  <2>3. CASE /\ Used = {} /\ views' = [views EXCEPT ![1].state = "live"]
             /\ Adds(<<Reply(r, TRUE, 1)>>)
    <3>1. 1 \in Pages /\ views[1].state = "none"
      BY <2>3, PagesAre DEF Used
    <3> QED BY <2>1, <2>3, <3>1, MovesOpens
  <2> QED BY <2>1, <2>2, <2>3
<1>4. CASE OpPageNew
  <2>1. PICK n \in 0..MaxPages :
          /\ Used = 1..n /\ n + 1 \in Pages
          /\ inbox # <<>> /\ r.op = "page.new"
          /\ views' = [views EXCEPT ![n + 1].state = "live"]
          /\ Adds(<<Reply(r, TRUE, n + 1)>>)
    BY <1>4, OpPageNewIs
  <2> PICK p : p = n + 1
    OBVIOUS
  <2>2. p \notin Used
    BY <2>1
  <2>3. p \in Pages /\ views[p].state = "none"
    BY <2>1, <2>2 DEF Used
  <2> QED BY <2>1, <2>3, MovesOpens
<1>5. CASE OpPageObserve
  <2> PICK v : v = IF views[Head(inbox).page].load # "none" THEN 1 ELSE 0
    OBVIOUS
  <2>1. /\ inbox # <<>> /\ r.op = "page.observe" /\ UNCHANGED views
        /\ Adds(<<Reply(r, TRUE, v)>>) /\ v \in Nat
    BY <1>5, Emits DEF OpPageObserve, HandlesPage, Handles
  <2> QED BY <1>1, <2>1
<1>6. CASE OpPageEvaluate
  <2>1. inbox # <<>> /\ r.op \in {"targets", "click"} /\ UNCHANGED <<wire, views>>
    BY <1>6, OpPageEvaluateIs
  <2> PICK ms : ms = <<>>
    OBVIOUS
  <2>2. ms \in Seq(Message) /\ DOMAIN ms = {} /\ Adds(ms)
    BY <1>0, <2>1, NothingAdded
  <2>3. \A p \in Pages : Exists(p)' <=> Exists(p)
    BY <2>1 DEF Exists
  <2>4. Head(inbox).op \notin {"session.open", "page.new", "page.close", "page.terminate"}
    BY <2>1
  <2> QED BY <2>1, <2>2, <2>3, <2>4, MovesAnswer
<1>7. CASE OpPageDecide
  <2>1. PICK ok \in BOOLEAN :
          /\ inbox # <<>> /\ r.op = "page.decide" /\ UNCHANGED views
          /\ Adds(<<Reply(r, ok, 0)>>)
    BY <1>7, DecideIs
  <2> QED BY <1>1, <2>1
<1> QED
  BY <1>2, <1>3, <1>4, <1>5, <1>6, <1>7, MovesClose, MovesNavigate, MovesTerminate DEF Handler

LEMMA MovesEvent ==
  ASSUME ChannelInv, UNCHANGED inbox, NEW m \in Message, m.kind # "reply", Adds(<<m>>),
         \A p \in Pages : \/ views'[p].state = views[p].state
                          \/ views[p].state = "live" /\ views'[p].state = "dead"
  PROVE  \E ns : Moves(ns)
<1> PICK ms : ms = <<m>>
  OBVIOUS
<1>1. ms \in Seq(Message) /\ DOMAIN ms = {1} /\ ms[1] = m /\ Adds(ms)
  BY One
<1>2. \A j \in DOMAIN ms : ~Awaited(ms[j])
  BY <1>1 DEF Awaited
<1> QED BY <1>1, <1>2, MovesEngine

LEMMA MovesQuiet ==
  ASSUME ChannelInv, UNCHANGED <<inbox, wire>>,
         \A p \in Pages : views'[p].state = views[p].state
  PROVE  \E ns : Moves(ns)
<1>1. TypeOK
  BY Unpacked
<1> PICK ms : ms = <<>>
  OBVIOUS
<1>2. ms \in Seq(Message) /\ DOMAIN ms = {} /\ Adds(ms)
  BY <1>1, NothingAdded
<1> QED BY <1>2, MovesEngine

\* Every step of the engine makes a move.
LEMMA EngineMoves ==
  ASSUME ChannelInv, Engine
  PROVE  \E ns : Moves(ns)
<1>0. TypeOK
  BY Unpacked
<1>1. ASSUME NEW p \in Pages,
             LoadStarts(p) \/ LoadCommits(p) \/ LoadFinishes(p) \/ LoadFails(p)
      PROVE  \E ns : Moves(ns)
  <2>1. PICK kind \in LoadEvent :
          /\ Adds(<<Event(kind, p)>>) /\ UNCHANGED inbox
          /\ OnlyPage(p) /\ views'[p].state = views[p].state
    BY <1>1, LoadEventIs DEF LoadEvent
  <2> PICK e : e = Event(kind, p)
    OBVIOUS
  <2>2. e \in Message /\ e.kind # "reply" /\ Adds(<<e>>)
    BY <2>1, EventIsMessage
  <2>3. \A q \in Pages : views'[q].state = views[q].state
    BY <2>1 DEF OnlyPage
  <2> QED BY <2>1, <2>2, <2>3, MovesEvent
<1>2. ASSUME NEW p \in Pages, views[p].state = "live", views' = Loading(p, FALSE),
             UNCHANGED <<inbox, wire>>
      PROVE  \E ns : Moves(ns)
  <2>1. FALSE \in BOOLEAN
    OBVIOUS
  <2>2. OnlyPage(p) /\ views'[p].state = "live"
    BY <1>0, <1>2, <2>1, LoadingIs
  <2>3. \A q \in Pages : views'[q].state = views[q].state
    BY <1>2, <2>2 DEF OnlyPage
  <2> QED BY <1>2, <2>3, MovesQuiet
<1>3. ASSUME NEW p \in Pages, NEW t \in Tokens, Asks(p, t), UNCHANGED <<inbox, views>>
      PROVE  \E ns : Moves(ns)
  <2> PICK m : m = [kind |-> "dialog", page |-> p, token |-> t]
    OBVIOUS
  <2>1. m \in Message /\ m.kind # "reply" /\ Adds(<<m>>)
    BY <1>0, <1>3, AsksIs, DialogIsMessage
  <2>2. \A q \in Pages : views'[q].state = views[q].state
    BY <1>3
  <2> QED BY <1>3, <2>1, <2>2, MovesEvent
<1>4. ASSUME NEW p \in Pages, PageNavigates(p) PROVE \E ns : Moves(ns)
  <2>1. views[p].state = "live" /\ views' = Loading(p, FALSE) /\ UNCHANGED <<inbox, wire>>
    BY <1>4 DEF PageNavigates
  <2> QED BY <1>2, <2>1
<1>5. ASSUME NEW p \in Pages, ProcessDies(p) PROVE \E ns : Moves(ns)
  <2> PICK e : e = Event("terminated", p)
    OBVIOUS
  <2>1. /\ views[p].state = "live" /\ views' = Gone(p, "dead") /\ UNCHANGED inbox
        /\ Adds(<<e>>)
    BY <1>5, Emits DEF ProcessDies
  <2>2. e \in Message /\ e.kind # "reply"
    BY EventIsMessage
  <2>3. OnlyPage(p) /\ views'[p].state = "dead"
    BY <1>0, <2>1, GoneIs
  <2>4. \A q \in Pages : \/ views'[q].state = views[q].state
                         \/ views[q].state = "live" /\ views'[q].state = "dead"
    BY <2>1, <2>3 DEF OnlyPage
  <2> QED BY <2>1, <2>2, <2>4, MovesEvent
<1>6. ASSUME NEW p \in Pages, NEW t \in Tokens, ScriptDialog(p, t) PROVE \E ns : Moves(ns)
  BY <1>3, <1>6 DEF ScriptDialog
<1>7. ASSUME NEW i \in DOMAIN evaluations, TargetScript(i) PROVE \E ns : Moves(ns)
  <2> PICK p : p = evaluations[i].request.page
    OBVIOUS
  <2>1. /\ OnlyPage(p) /\ views'[p].state = views[p].state
        /\ UNCHANGED <<inbox, wire>>
    BY <1>7, TargetScriptIs
  <2>2. \A q \in Pages : views'[q].state = views[q].state
    BY <2>1 DEF OnlyPage
  <2> QED BY <2>1, <2>2, MovesQuiet
<1>8. ASSUME NEW i \in DOMAIN evaluations, ClickScript(i) PROVE \E ns : Moves(ns)
  <2> PICK p : p = evaluations[i].request.page
    OBVIOUS
  <2>1. /\ p \in Pages /\ views[p].state = "live" /\ UNCHANGED inbox
        /\ \/ UNCHANGED <<wire, views>>
           \/ views' = Loading(p, FALSE) /\ UNCHANGED wire
           \/ \E t \in Tokens : Asks(p, t) /\ UNCHANGED views
    BY <1>8, ClickScriptIs
  <2>2. UNCHANGED views => \A q \in Pages : views'[q].state = views[q].state
    OBVIOUS
  <2> QED BY <1>2, <1>3, <2>1, <2>2, MovesQuiet
<1>9. ASSUME NEW i \in DOMAIN evaluations, ClickResumes(i) PROVE \E ns : Moves(ns)
  <2>1. UNCHANGED <<inbox, wire>> /\ \A q \in Pages : views'[q].state = views[q].state
    BY <1>9 DEF ClickResumes
  <2> QED BY <2>1, MovesQuiet
<1>10. ASSUME NEW i \in DOMAIN evaluations, EvaluationReplies(i) PROVE \E ns : Moves(ns)
  <2>1. PICK q \in Request, ok \in BOOLEAN, v \in Nat :
          /\ q = evaluations[i].request
          /\ Adds(<<Reply(q, ok, v)>>) /\ UNCHANGED <<inbox, views>>
    BY <1>10, EvaluationRepliesIs
  <2> PICK a : a = Reply(q, ok, v)
    OBVIOUS
  <2>2. a \in Message /\ a.kind = "reply" /\ a.fresh = q.fresh
    BY ReplyIsMessage
  <2>3. q.op \in {"targets", "click"} /\ (q.fresh => Sought(q))
    BY <2>1, EvaluationIs, Unpacked DEF RequestsInv
  <2>4. Awaited(a) => call.op \notin {"crash", "close", "create", "new"}
    BY <2>2, <2>3 DEF Awaited, Sought
  <2> PICK ms : ms = <<a>>
    OBVIOUS
  <2>5. ms \in Seq(Message) /\ DOMAIN ms = {1} /\ ms[1] = a /\ Adds(ms)
    BY <2>1, <2>2, One
  <2>6. \A p \in Pages : views'[p].state = views[p].state
    BY <2>1
  <2>7. \A j \in DOMAIN ms : Awaited(ms[j]) => call.op \notin {"crash", "close", "create", "new"}
    BY <2>4, <2>5
  <2> QED BY <2>1, <2>5, <2>6, <2>7, MovesEngine
<1> QED
  BY <1>1, <1>4, <1>5, <1>6, <1>7, <1>8, <1>9, <1>10 DEF Engine

\* Every step of the worker keeps the third invariant.
LEMMA WorkerKeepsPages ==
  ASSUME ChannelInv, PagesInv, WorkerStep
  PROVE  PagesInv'
<1>1. PICK ns : Moves(ns)
  BY HandlerMoves, EngineMoves DEF WorkerStep
<1>2. UNCHANGED host
  BY DEF WorkerStep
<1> QED BY <1>1, <1>2, MovesKeepPages

-----------------------------------------------------------------------------
(* Pages and the host's steps.                                              *)

\* No reply says anything: the two agree.
LEMMA AgreeNow ==
  ASSUME PagesInv, timeouts = 0, NEW p \in Pages,
         \/ call.op \notin {"close", "create", "new"}
         \/ \A k \in DOMAIN wire : ~Good(wire[k])
  PROVE  Known(p) <=> Exists(p)
<1>1. ~Closing(p) /\ ~Opening(p)
  BY DEF Closing, Opening, Opens
<1> QED BY <1>1 DEF PagesInv, Agreed

\* A step of the host after which it waits for no reply that changes a page.
LEMMA HostKeepsPages ==
  ASSUME PagesInv, UNCHANGED views,
         \A k \in DOMAIN wire' : ~Good(wire'[k]),
         ActiveInv',
         \A p \in Pages : Known(p)' => views[p].state # "none",
         call'.op = "restore" => Known(call.page)',
         call'.op = "crash" /\ call'.stage \in {"death", "drain"} =>
           inbox' = <<>> /\ views[call'.page].state \in Ends,
         timeouts' = 0 => \A p \in Pages : Known(p)' <=> Exists(p)
  PROVE  PagesInv'
<1>1. Seen'
  BY DEF Seen
<1>2. Waits'
  BY DEF Waits, Known, Ended
<1>3. Told'
  BY DEF Told, Good, Awaited
<1>4. Agreed'
  BY DEF Agreed, Exists
<1> QED BY <1>1, <1>2, <1>3, <1>4 DEF PagesInv

\* The host knows the same pages as before.
LEMMA KnownKeepsPages ==
  ASSUME PagesInv, UNCHANGED <<views, active>>,
         \A k \in DOMAIN wire' : ~Good(wire'[k]),
         \A p \in Pages : Known(p)' <=> Known(p),
         call'.op = "restore" => call.op = "restore" /\ call'.page = call.page,
         call'.op = "crash" /\ call'.stage \in {"death", "drain"} =>
           inbox' = <<>> /\ views[call'.page].state \in Ends,
         timeouts' = 0 => timeouts = 0,
         \/ timeouts' # 0
         \/ call.op \notin {"close", "create", "new"}
         \/ \A k \in DOMAIN wire : ~Good(wire[k])
  PROVE  PagesInv'
<1>1. ActiveInv'
  <2>1. ActiveInv
    BY DEF PagesInv
  <2>2. active # 0 => Known(active)'
    <3> PICK a : a = active
      OBVIOUS
    <3>1. a # 0 => Known(a) /\ a \in Pages
      BY <2>1 DEF ActiveInv, Known
    <3>2. a # 0 => Known(a)'
      BY <3>1
    <3> QED BY <3>2 DEF Known
  <2> QED BY <2>1, <2>2 DEF ActiveInv
<1>2. \A p \in Pages : Known(p)' => views[p].state # "none"
  BY DEF PagesInv, Seen
<1>3. call'.op = "restore" => Known(call.page)'
  <2> SUFFICES ASSUME call'.op = "restore" PROVE Known(call.page)'
    OBVIOUS
  <2> PICK a : a = call.page
    OBVIOUS
  <2>1. Known(a) /\ a \in Pages /\ call'.page = a
    BY DEF PagesInv, Waits, Known
  <2>2. Known(a)'
    BY <2>1
  <2> QED BY <2>1, <2>2 DEF Known
<1>4. timeouts' = 0 => \A p \in Pages : Known(p)' <=> Exists(p)
  BY AgreeNow
<1> QED BY <1>1, <1>2, <1>3, <1>4, HostKeepsPages

LEMMA NoneGood ==
  ASSUME ChannelInv, call.stage # "request"
  PROVE  \A k \in DOMAIN wire : ~Good(wire[k])
BY NotInRequest DEF Good

\* A call changes no page but the loading mark of one.
LEMMA CallsKeepPages ==
  ASSUME ChannelInv, PagesInv, Calls
  PROVE  PagesInv'
<1>1. CASE \E r \in Request : Sent(r) /\ Checked(r)
  <2> PICK r \in Request : Sent(r) /\ Checked(r)
    BY <1>1
  <2>1. /\ Idle /\ Sought(r)' /\ call'.stage = "request"
        /\ UNCHANGED <<wire, views, active, timeouts>>
    BY DEF Sent
  <2>2. call.stage # "request" /\ TypeOK
    BY <2>1, NoCallIs, Unpacked DEF Idle
  <2>3. \A k \in DOMAIN wire : ~Good(wire[k])
    BY <2>2, NoneGood
  <2>4. \A k \in DOMAIN wire' : ~Good(wire'[k])
    BY <2>1, <2>3
  <2>5. call'.op # "restore"
    BY <2>1 DEF Sought, Checked
  <2>6. \A p \in Pages : Known(p)' <=> Known(p)
    <3>1. CASE r.op = "page.navigate"
      <4>1. /\ r.page \in Pages
            /\ pages' = [pages EXCEPT ![r.page].load = "loading"]
        BY <3>1 DEF Checked, Known, MarkedLoading
      <4>2. OnlyEntry(r.page) /\ EntryStays(r.page)
        BY <2>2, <4>1, LoadPut
      <4> QED BY <4>2 DEF OnlyEntry, EntryStays, Known
    <3>2. CASE r.op # "page.navigate"
      BY <3>2 DEF Checked, Known
    <3> QED BY <3>1, <3>2
  <2> QED BY <2>1, <2>3, <2>4, <2>5, <2>6, KnownKeepsPages
<1>2. CASE Idle /\ call'.op \in {"await", "none"}
           /\ UNCHANGED <<worker, pages, active, timeouts>>
  <2>1. UNCHANGED <<wire, views, pages, active, timeouts>> /\ call.stage # "request"
    BY <1>2, NoCallIs DEF worker, Idle
  <2>2. \A k \in DOMAIN wire : ~Good(wire[k])
    BY <2>1, NoneGood
  <2>3. \A k \in DOMAIN wire' : ~Good(wire'[k])
    BY <2>1, <2>2
  <2>4. \A p \in Pages : Known(p)' <=> Known(p)
    BY <2>1 DEF Known
  <2> QED BY <1>2, <2>1, <2>2, <2>3, <2>4, KnownKeepsPages
<1>3. Pauses => Idle /\ call'.op \in {"await", "none"}
                /\ UNCHANGED <<worker, pages, active, timeouts>>
  BY DEF Pauses
<1>4. Idle /\ UNCHANGED call => call'.op = "none"
  BY NoCallIs DEF Idle
<1> QED BY <1>1, <1>2, <1>3, <1>4, CallsAre

LEMMA TakeEventKeepsPages ==
  ASSUME ChannelInv, PagesInv, TakeEvent
  PROVE  PagesInv'
<1>1. PICK m \in Message :
        /\ m = wire[1] /\ m.kind # "reply" /\ m.page \in Pages
        /\ wire' = Tail(wire) /\ 1 \in DOMAIN wire
        /\ UNCHANGED <<inbox, active, call, timeouts, views>>
        /\ OnlyEntry(m.page)
        /\ ~Known(m.page) => pages'[m.page] = pages[m.page]
        /\ Known(m.page) => pages'[m.page] = Applied(pages[m.page], m.kind)
  BY TakeEventIs
<1>2. wire # <<>>
  BY <1>1
<1>3. /\ \A k \in DOMAIN wire' :
           k \in Nat /\ k >= 1 /\ k + 1 \in DOMAIN wire /\ wire'[k] = wire[k + 1]
      /\ \A k \in DOMAIN wire : k # 1 => k - 1 \in DOMAIN wire' /\ (k - 1) + 1 = k
  BY <1>1, <1>2, TakenIs
<1>4. \A p \in Pages : Known(p)' <=> Known(p)
  <2> SUFFICES ASSUME NEW p \in Pages PROVE Known(p)' <=> Known(p)
    OBVIOUS
  <2>1. CASE p # m.page \/ ~Known(m.page)
    BY <1>1, <2>1 DEF Known, OnlyEntry
  <2>2. CASE p = m.page /\ Known(m.page)
    <3>1. pages[p] \in Page
      BY Unpacked, Types
    <3>2. PICK a \in Page : /\ a = Applied(pages[p], m.kind)
                            /\ a.lifecycle \in {"terminated", pages[p].lifecycle}
      BY <3>1, AppliedIs
    <3>3. pages'[p] = a
      BY <1>1, <2>2, <3>2
    <3>4. pages[p].lifecycle # "absent"
      BY <2>2 DEF Known
    <3> QED BY <2>2, <3>2, <3>3, <3>4 DEF Known
  <2> QED BY <2>1, <2>2
<1>5. \A k \in DOMAIN wire : Good(wire[k]) =>
        \E j \in DOMAIN wire' : wire'[j] = wire[k]
  <2> SUFFICES ASSUME NEW k \in DOMAIN wire, Good(wire[k])
               PROVE  \E j \in DOMAIN wire' : wire'[j] = wire[k]
    OBVIOUS
  <2> PICK j : j = k - 1
    OBVIOUS
  <2>1. k # 1
    BY <1>1 DEF Good, Awaited
  <2>2. j \in DOMAIN wire' /\ j + 1 = k
    BY <1>3, <2>1
  <2> QED BY <1>3, <2>2
<1>6. ActiveInv'
  <2> PICK a : a = active
    OBVIOUS
  <2>1. ActiveInv /\ (a # 0 => a \in Pages)
    BY DEF PagesInv, ActiveInv, Known
  <2>2. a # 0 => Known(a)'
    BY <1>4, <2>1 DEF ActiveInv
  <2> QED BY <1>1, <1>4, <2>1, <2>2 DEF ActiveInv, Known
<1>7. Seen'
  BY <1>1, <1>4 DEF PagesInv, Seen
<1>8. Waits'
  <2>1. Waits
    BY DEF PagesInv
  <2>2. call.op = "restore" => Known(call.page)'
    <3> PICK a : a = call.page
      OBVIOUS
    <3>1. call.op = "restore" => Known(a) /\ a \in Pages
      BY <2>1 DEF Waits, Known
    <3>2. call.op = "restore" => Known(a)'
      BY <1>4, <3>1
    <3> QED BY <1>1, <3>2 DEF Known
  <2> QED BY <1>1, <2>1, <2>2 DEF Waits, Ended
<1>9. Told'
  <2>1. ASSUME NEW k \in DOMAIN wire', NEW v, v = wire'[k].value, Good(wire'[k])
        PROVE  /\ call.op = "crash" => Ended(call.page)
               /\ call.op = "close" => views[call.page].state = "closed"
               /\ Opens => Exists(v) /\ ~Known(v)'
    <3> PICK j : j = k + 1
      OBVIOUS
    <3>1. j \in DOMAIN wire /\ wire[j] = wire'[k]
      BY <1>3
    <3>2. /\ call.op = "crash" => Ended(call.page)
          /\ call.op = "close" => views[call.page].state = "closed"
          /\ Opens => Exists(v) /\ ~Known(v)
      BY <2>1, <3>1 DEF PagesInv, Told
    <3>3. Exists(v) => v \in Pages
      BY DEF Exists
    <3> QED BY <1>4, <3>2, <3>3
  <2> QED BY <1>1, <2>1 DEF Told, Good, Awaited, Opens, Known, Ended, Exists
<1>10. Agreed'
  <2>1. \A p \in Pages : Closing(p) => Closing(p)'
    BY <1>1, <1>5 DEF Closing, Good, Awaited
  <2>2. \A p \in Pages : Opening(p) => Opening(p)'
    BY <1>1, <1>5 DEF Opening, Good, Awaited, Opens
  <2>3. \A p \in Pages : Exists(p)' <=> Exists(p)
    BY <1>1 DEF Exists
  <2>4. timeouts = 0 => \A p \in Pages : /\ Known(p) => Exists(p) \/ Closing(p)
                                         /\ Exists(p) => Known(p) \/ Opening(p)
    BY DEF PagesInv, Agreed
  <2> SUFFICES ASSUME timeouts = 0, NEW p \in Pages
               PROVE  /\ Known(p)' => Exists(p)' \/ Closing(p)'
                      /\ Exists(p)' => Known(p)' \/ Opening(p)'
    BY <1>1 DEF Agreed, Exists, Closing, Opening, Known
  <2> QED BY <1>4, <2>1, <2>2, <2>3, <2>4
<1> QED BY <1>6, <1>7, <1>8, <1>9, <1>10 DEF PagesInv

LEMMA AbandonKeepsPages ==
  ASSUME ChannelInv, PagesInv, NEW frames \in Seq(Message), Abandoned(frames), Raises,
         timeouts' \in Nat \ {0}
  PROVE  PagesInv'
<1>1. /\ DOMAIN wire' = DOMAIN frames
      /\ \A k \in DOMAIN frames : ~Awaited(wire'[k])
  BY AbandonedIs
<1>2. /\ call' = NoCall /\ UNCHANGED <<views, active>>
      /\ \A p \in Pages : EntryStays(p)
  BY RaisesIs
<1>3. \A k \in DOMAIN wire' : ~Good(wire'[k])
  BY <1>1 DEF Good
<1>4. \A p \in Pages : Known(p)' <=> Known(p)
  BY <1>2 DEF Known, EntryStays
<1> QED BY <1>2, <1>3, <1>4, NoCallIs, KnownKeepsPages

\* After a request given up, the pages may differ.
LEMMA RequestTimesOutKeepsPages ==
  ASSUME ChannelInv, PagesInv, RequestTimesOut
  PROVE  PagesInv'
<1>1. wire \in Seq(Message) /\ timeouts \in Nat
  BY Unpacked, Types
<1>2. Abandoned(wire) /\ Raises /\ timeouts' = timeouts + 1
  BY DEF RequestTimesOut
<1>3. timeouts' \in Nat \ {0}
  BY <1>1, <1>2
<1> QED BY <1>1, <1>2, <1>3, AbandonKeepsPages

LEMMA RequestMeetsLateReplyKeepsPages ==
  ASSUME ChannelInv, PagesInv, RequestMeetsLateReply
  PROVE  PagesInv'
<1>1. wire \in Seq(Message) /\ timeouts \in Nat
  BY Unpacked, Types
<1>2. /\ wire # <<>> /\ Head(wire).kind = "reply" /\ ~Head(wire).fresh
      /\ Abandoned(Tail(wire)) /\ Raises /\ timeouts' = timeouts
  BY DEF RequestMeetsLateReply, ReplyIs
<1>3. timeouts' \in Nat \ {0}
  BY <1>1, <1>2, LateReplyIs
<1>4. Tail(wire) \in Seq(Message)
  BY <1>1, <1>2, Rest
<1> QED BY <1>2, <1>3, <1>4, AbandonKeepsPages

\* The reply the host takes is the one that tells something.
LEMMA ToldIs ==
  ASSUME ChannelInv, PagesInv, NEW ok \in BOOLEAN, Answered(ok)
  PROVE  /\ \A k \in DOMAIN wire' : ~Good(wire'[k])
         /\ inbox = <<>> /\ UNCHANGED <<views, timeouts>>
         /\ \A k \in DOMAIN wire : Good(wire[k]) => ok /\ wire[k].value = value
         /\ ok => /\ call.op = "crash" => Ended(call.page)
                  /\ call.op = "close" => views[call.page].state = "closed"
                  /\ Opens => Exists(value) /\ ~Known(value)
<1>1. /\ 1 \in DOMAIN wire /\ Awaited(wire[1]) /\ wire[1].ok = ok /\ value = wire[1].value
      /\ \A k \in DOMAIN wire' : ~Awaited(wire'[k])
      /\ inbox = <<>>
  BY AnsweredIs
<1>2. \A k \in DOMAIN wire' : ~Good(wire'[k])
  BY <1>1 DEF Good
<1>3. \A k \in DOMAIN wire : Awaited(wire[k]) => k = 1
  BY <1>1, Unpacked DEF FreshInv, RepliesFresh
<1>4. \A k \in DOMAIN wire : Good(wire[k]) => ok /\ wire[k].value = value
  BY <1>1, <1>3 DEF Good
<1>5. ok => Good(wire[1])
  BY <1>1 DEF Good
<1>6. ok => /\ call.op = "crash" => Ended(call.page)
            /\ call.op = "close" => views[call.page].state = "closed"
            /\ Opens => Exists(value) /\ ~Known(value)
  BY <1>1, <1>5 DEF PagesInv, Told
<1> QED BY <1>1, <1>2, <1>4, <1>6 DEF Answered

LEMMA RequestRefusedKeepsPages ==
  ASSUME ChannelInv, PagesInv, RequestRefused
  PROVE  PagesInv'
<1>1. Answered(FALSE) /\ call' = NoCall
  BY RefusedIs
<1>2. /\ \A k \in DOMAIN wire' : ~Good(wire'[k])
      /\ \A k \in DOMAIN wire : ~Good(wire[k])
      /\ UNCHANGED <<views, timeouts>>
  BY <1>1, ToldIs
<1>3. timeouts' \in Nat /\ Raises
  BY <1>2, Unpacked, Types DEF RequestRefused
<1>4. UNCHANGED active /\ \A p \in Pages : EntryStays(p)
  BY <1>3, RaisesIs
<1>5. \A p \in Pages : Known(p)' <=> Known(p)
  BY <1>4 DEF Known, EntryStays
<1> QED BY <1>1, <1>2, <1>4, <1>5, NoCallIs, KnownKeepsPages

\* The host learns of the page that its reply opened.
LEMMA OpenedKeepsPages ==
  ASSUME ChannelInv, PagesInv, Answered(TRUE), call.op \in {"create", "new"},
         NEW p \in Pages, p = value, active' = p, OnlyEntry(p),
         pages'[p].lifecycle = "open",
         call'.op = "restore" => call'.page = p,
         call'.op # "crash"
  PROVE  PagesInv'
<1>0. TRUE \in BOOLEAN
  OBVIOUS
<1>1. /\ \A k \in DOMAIN wire' : ~Good(wire'[k])
      /\ UNCHANGED <<views, timeouts>>
      /\ \A k \in DOMAIN wire : Good(wire[k]) => wire[k].value = p
      /\ Opens => Exists(p) /\ ~Known(p)
  BY <1>0, ToldIs
<1>2. Exists(p)
  BY <1>1 DEF Opens
<1>3. \A q \in Pages : Known(q)' <=> Known(q) \/ q = p
  BY DEF Known, OnlyEntry
<1>4. ActiveInv'
  BY <1>3, PagesAre DEF ActiveInv, Known
<1>5. \A q \in Pages : Known(q)' => views[q].state # "none"
  BY <1>2, <1>3 DEF PagesInv, Seen, Exists
<1>6. call'.op = "restore" => Known(call.page)'
  BY <1>3 DEF Known
<1>7. ASSUME timeouts' = 0, NEW q \in Pages PROVE Known(q)' <=> Exists(q)
  <2>1. ~Closing(q) /\ (Opening(q) => q = p)
    BY <1>1 DEF Closing, Opening
  <2>2. /\ Known(q) => Exists(q) \/ Closing(q)
        /\ Exists(q) => Known(q) \/ Opening(q)
    BY <1>1, <1>7 DEF PagesInv, Agreed
  <2> QED BY <1>2, <1>3, <2>1, <2>2
<1> QED BY <1>1, <1>4, <1>5, <1>6, <1>7, HostKeepsPages

\* The host forgets the page that its reply closed.
LEMMA TabClosedKeepsPages ==
  ASSUME ChannelInv, PagesInv, TabClosed
  PROVE  PagesInv'
<1> PICK p : p = call.page
  OBVIOUS
<1>1. /\ Answered(TRUE) /\ call.op = "close" /\ p \in Pages
      /\ OnlyEntry(p) /\ pages'[p] = Absent /\ call' = NoCall
      /\ \/ active' = 0 /\ \A q \in Pages \ {p} : ~Known(q)
         \/ active' \in Pages \ {p} /\ Known(active')
  BY TabClosedIs
<1>2. TRUE \in BOOLEAN
  OBVIOUS
<1>3. /\ \A k \in DOMAIN wire' : ~Good(wire'[k])
      /\ UNCHANGED <<views, timeouts>>
      /\ views[p].state = "closed"
  BY <1>1, <1>2, ToldIs
<1>4. \A q \in Pages : Known(q)' <=> Known(q) /\ q # p
  BY <1>1, NewPageIs DEF Known, OnlyEntry
<1>5. ActiveInv'
  <2>1. CASE active' = 0 /\ \A q \in Pages \ {p} : ~Known(q)
    BY <1>4, <2>1 DEF ActiveInv, Known
  <2>2. CASE active' \in Pages \ {p} /\ Known(active')
    <3> PICK a : a = active'
      OBVIOUS
    <3>1. a \in Pages /\ a # p /\ Known(a) /\ a # 0
      BY <2>2, PagesAre
    <3>2. Known(a)'
      BY <1>4, <3>1
    <3> QED BY <3>1, <3>2 DEF ActiveInv, Known
  <2> QED BY <1>1, <2>1, <2>2
<1>6. \A q \in Pages : Known(q)' => views[q].state # "none"
  BY <1>4 DEF PagesInv, Seen
<1>7. ASSUME timeouts' = 0, NEW q \in Pages PROVE Known(q)' <=> Exists(q)
  <2>1. ~Opening(q) /\ (Closing(q) => q = p)
    BY <1>1 DEF Closing, Opening, Opens
  <2>2. /\ Known(q) => Exists(q) \/ Closing(q)
        /\ Exists(q) => Known(q) \/ Opening(q)
    BY <1>3, <1>7 DEF PagesInv, Agreed
  <2>3. ~Exists(p)
    BY <1>3 DEF Exists
  <2> QED BY <1>4, <2>1, <2>2, <2>3
<1> QED BY <1>1, <1>3, <1>5, <1>6, <1>7, NoCallIs, HostKeepsPages

LEMMA RepliesKeepPages ==
  ASSUME ChannelInv, PagesInv, Replies
  PROVE  PagesInv'
<1>0. TRUE \in BOOLEAN /\ TypeOK
  BY Unpacked
<1>1. CASE Created
  <2> PICK p : p = value
    OBVIOUS
  <2>1. /\ Answered(TRUE) /\ call.op = "create" /\ p \in Pages /\ active' = p
        /\ OnlyEntry(p) /\ pages'[p].lifecycle = "open"
        /\ call' = NoCall \/ (call'.op = "restore" /\ call'.page = p)
    BY <1>1, CreatedIs
  <2> QED BY <2>1, NoCallIs, OpenedKeepsPages
<1>2. CASE TabOpened
  <2> PICK p : p = value
    OBVIOUS
  <2>1. /\ Answered(TRUE) /\ call.op = "new" /\ p \in Pages /\ active' = p
        /\ OnlyEntry(p) /\ pages'[p].lifecycle = "open" /\ call' = NoCall
    BY <1>2, TabOpenedIs, NewPageIs
  <2> QED BY <2>1, NoCallIs, OpenedKeepsPages
<1>3. CASE RestoreAccepted \/ Clicked \/ Terminated
  <2>1. /\ Answered(TRUE) /\ UNCHANGED <<inbox, pages, active>>
        /\ call'.op = call.op /\ call'.page = call.page
        /\ call.op \in {"restore", "click", "crash"}
    BY <1>3, WaitsOnIs
  <2>2. /\ \A k \in DOMAIN wire' : ~Good(wire'[k])
        /\ inbox = <<>> /\ UNCHANGED <<views, timeouts>>
        /\ call.op = "crash" => Ended(call.page)
    BY <1>0, <2>1, ToldIs
  <2>3. \A p \in Pages : Known(p)' <=> Known(p)
    BY <2>1 DEF Known
  <2>4. call'.op = "crash" => inbox' = <<>> /\ views[call'.page].state \in Ends
    BY <2>1, <2>2 DEF Ended
  <2> QED BY <2>1, <2>2, <2>3, <2>4, KnownKeepsPages
<1>4. CASE NavigationAccepted \/ StateObserved \/ TargetsObserved \/ Decided
  <2>1. /\ Answered(TRUE) /\ UNCHANGED active
        /\ call.op \in {"navigate", "observe", "targets", "decide"}
        /\ call' = NoCall \/ call'.op = "decide"
        /\ pages' = pages \/ (call.page \in Pages /\ OnlyEntry(call.page) /\ EntryStays(call.page))
    BY <1>4, NavigationAcceptedIs, StateObservedIs, TargetsObservedIs, DecidedIs
  <2>2. /\ \A k \in DOMAIN wire' : ~Good(wire'[k])
        /\ UNCHANGED <<views, timeouts>>
    BY <1>0, <2>1, ToldIs
  <2>3. \A p \in Pages : Known(p)' <=> Known(p)
    BY <2>1 DEF Known, OnlyEntry, EntryStays
  <2> QED BY <2>1, <2>2, <2>3, NoCallIs, KnownKeepsPages
<1> QED
  BY <1>1, <1>2, <1>3, <1>4, RequestTimesOutKeepsPages, RequestMeetsLateReplyKeepsPages,
     RequestRefusedKeepsPages, TabClosedKeepsPages DEF Replies

LEMMA PumpsKeepPages ==
  ASSUME ChannelInv, PagesInv, Pumps
  PROVE  PagesInv'
<1>1. CASE PumpMeetsLateReply
  <2>1. /\ timeouts # 0 /\ call.stage # "request" /\ call' = NoCall
        /\ \A k \in DOMAIN wire' : k + 1 \in DOMAIN wire /\ wire'[k] = wire[k + 1]
        /\ UNCHANGED <<pages, active, timeouts, views>>
    BY <1>1, PumpMeetsLateReplyIs
  <2>2. \A k \in DOMAIN wire' : ~Good(wire'[k])
    BY <2>1, NoneGood
  <2>3. \A p \in Pages : Known(p)' <=> Known(p)
    BY <2>1 DEF Known
  <2> QED BY <2>1, <2>2, <2>3, NoCallIs, KnownKeepsPages
<1>2. CASE ~PumpMeetsLateReply
  <2>1. /\ UNCHANGED worker /\ UNCHANGED <<active, timeouts>> /\ call.stage # "request"
        /\ \/ call' = NoCall
           \/ /\ call.stage = "death" /\ call.op = "crash"
              /\ call'.op = "crash" /\ call'.page = call.page
        /\ \/ pages' = pages
           \/ /\ call.op = "restore" /\ call.page \in Pages
              /\ OnlyEntry(call.page) /\ pages'[call.page].lifecycle = "open"
    BY <1>2, PumpsIs
  <2>2. UNCHANGED <<inbox, wire, views>>
    BY <2>1 DEF worker
  <2>3. /\ \A k \in DOMAIN wire : ~Good(wire[k])
        /\ \A k \in DOMAIN wire' : ~Good(wire'[k])
    BY <2>1, <2>2, NoneGood
  <2>4. /\ call.op = "restore" => Known(call.page)
        /\ call.op = "crash" /\ call.stage = "death" => inbox = <<>> /\ Ended(call.page)
    BY DEF PagesInv, Waits
  <2>5. \A p \in Pages : Known(p)' <=> Known(p)
    BY <2>1, <2>4 DEF Known, OnlyEntry
  <2>6. call'.op = "crash" => inbox' = <<>> /\ views[call'.page].state \in Ends
    BY <2>1, <2>2, <2>4, NoCallIs DEF Ended
  <2>7. call'.op # "restore"
    BY <2>1, NoCallIs
  <2> QED BY <2>1, <2>2, <2>3, <2>5, <2>6, <2>7, KnownKeepsPages
<1> QED BY <1>1, <1>2

LEMMA InitPages ==
  ASSUME Init
  PROVE  PagesInv
<1>1. /\ wire = <<>> /\ views = [p \in Pages |-> NoView]
      /\ pages = [p \in Pages |-> Absent] /\ active = 0 /\ call = NoCall
  BY DEF Init, InitWorker
<1>2. DOMAIN wire = {} /\ \A p \in Pages : ~Known(p) /\ ~Exists(p)
  BY <1>1, NewPageIs DEF Known, Exists, NoView
<1> QED
  BY <1>1, <1>2, NoCallIs DEF PagesInv, ActiveInv, Seen, Waits, Told, Agreed

LEMMA StutterKeepsPages ==
  ASSUME PagesInv, UNCHANGED vars
  PROVE  PagesInv'
BY DEF vars, worker, host, PagesInv, ActiveInv, Seen, Waits, Told, Agreed, Known, Ended, Exists,
       Closing, Opening, Opens, Good, Awaited

\* The third invariant holds.
LEMMA PagesHeld == Spec => []PagesInv
<1>1. Init => PagesInv
  BY InitPages
<1>2. ChannelInv /\ PagesInv /\ [Next]_vars => PagesInv'
  BY CallsKeepPages, TakeEventKeepsPages, RepliesKeepPages, PumpsKeepPages,
     WorkerKeepsPages, StutterKeepsPages DEF Next
<1> QED BY <1>1, <1>2, ChannelHeld, PTL DEF Spec

\* When test.crash reports success, the web process is gone: nothing the adapter
\* does later, and no load, has started another one.
THEOREM CrashReal == Spec => []CrashIsReal
<1>1. PagesInv => CrashIsReal
  BY DEF PagesInv, Waits, Ended, Ends, CrashIsReal
<1> QED BY <1>1, PagesHeld, PTL

\* Between calls host and adapter have the same pages, unless a request was given
\* up, and the page scripts run in is one the host knows.
THEOREM PagesSame == Spec => []PagesAgree
<1>1. ChannelInv /\ PagesInv => PagesAgree
  <2> SUFFICES ASSUME ChannelInv, PagesInv, Idle
               PROVE  /\ timeouts = 0 => \A p \in Pages : Known(p) <=> Exists(p)
                      /\ active = 0 => \A p \in Pages : ~Known(p)
                      /\ active # 0 => Known(active)
    BY DEF PagesAgree
  <2>1. call.op = "none"
    BY NoCallIs DEF Idle
  <2>2. timeouts = 0 => \A p \in Pages : Known(p) <=> Exists(p)
    BY <2>1, AgreeNow
  <2> QED BY <2>2 DEF PagesInv, ActiveInv
<1> QED BY <1>1, ChannelHeld, PagesHeld, PTL

-----------------------------------------------------------------------------
(* The fourth invariant: what the marks in a document and the targets the   *)
(* client holds have to do with each other.                                 *)

Stamp(q, d) == views[q].marked => views[q].document = d
Reading == call.op = "targets"

\* A reading under way, with the document it was made in.
Done(d) ==
  \E i \in DOMAIN evaluations : evaluations[i].stage = "done" /\ evaluations[i].document = d
Given(d) == \E k \in DOMAIN wire : Good(wire[k]) /\ wire[k].value = d
Result(d) == Done(d) \/ Given(d)
Unblocked == \A i \in DOMAIN evaluations : evaluations[i].stage # "blocked"

ClickInv ==
  timeouts = 0 =>
    /\ "document" \notin strays
    /\ \A q \in Pages : q = target.readPage =>
         \/ Stamp(q, target.readDocument)
         \/ Reading /\ q = active /\ \E d \in Nat : Result(d)
    /\ Reading => /\ Unblocked
                  /\ \A q \in Pages : q = active => \A d \in Nat : Result(d) => Stamp(q, d)

\* No step but TARGET_SCRIPT's marks a document, and none replaces a marked one
\* and leaves the mark.
Fades ==
  \A q \in Pages : views'[q].marked => views[q].marked /\ views'[q].document = views[q].document

\* Steps that mark no document and read no targets.
LEMMA ClickKept ==
  ASSUME ClickInv, UNCHANGED <<timeouts, call, target, active>>, Fades,
         timeouts = 0 /\ Reading /\ Unblocked =>
           Unblocked' /\ \A d \in Nat : Result(d)' <=> Result(d),
         timeouts = 0 /\ "document" \notin strays => "document" \notin strays'
  PROVE  ClickInv'
<1>1. UNCHANGED <<timeouts, call, target, active>>
  OBVIOUS
<1> SUFFICES ASSUME timeouts = 0
             PROVE  /\ "document" \notin strays'
                    /\ \A q \in Pages : q = target.readPage =>
                         \/ Stamp(q, target.readDocument)'
                         \/ Reading /\ q = active /\ \E d \in Nat : Result(d)'
                    /\ Reading => /\ Unblocked'
                                  /\ \A q \in Pages : q = active =>
                                       \A d \in Nat : Result(d)' => Stamp(q, d)'
  BY <1>1 DEF ClickInv, Reading, Stamp
<1>2. /\ "document" \notin strays
      /\ \A q \in Pages : q = target.readPage =>
           \/ Stamp(q, target.readDocument)
           \/ Reading /\ q = active /\ \E d \in Nat : Result(d)
      /\ Reading => /\ Unblocked
                    /\ \A q \in Pages : q = active => \A d \in Nat : Result(d) => Stamp(q, d)
  BY DEF ClickInv
<1>3. \A q \in Pages, d \in Nat : Stamp(q, d) => Stamp(q, d)'
  BY DEF Stamp, Fades
<1>4. \A q \in Pages : Stamp(q, target.readDocument) => Stamp(q, target.readDocument)'
  BY <1>1 DEF Stamp, Fades
<1>5. Reading => Unblocked' /\ \A d \in Nat : Result(d)' <=> Result(d)
  BY <1>2
<1> QED BY <1>2, <1>3, <1>4, <1>5

LEMMA FadesKeepClick ==
  ASSUME ClickInv, UNCHANGED host, Fades,
         timeouts = 0 /\ Reading /\ Unblocked =>
           Unblocked' /\ \A d \in Nat : Result(d)' <=> Result(d),
         timeouts = 0 /\ "document" \notin strays => "document" \notin strays'
  PROVE  ClickInv'
<1>1. UNCHANGED <<timeouts, call, target, active>>
  BY DEF host
<1> QED BY <1>1, ClickKept

LEMMA GivenSame ==
  ASSUME TypeOK, NEW ms \in Seq(Message), Adds(ms), \A j \in DOMAIN ms : ~Good(ms[j])
  PROVE  \A d \in Nat : Given(d)' <=> Given(d)
<1>1. /\ \A k \in DOMAIN wire : k \in DOMAIN wire' /\ wire'[k] = wire[k]
      /\ \A k \in DOMAIN wire' :
           k \in DOMAIN wire \/ \E j \in DOMAIN ms : wire'[k] = ms[j]
  BY WireJoined
<1>2. \A k \in DOMAIN wire' : Good(wire'[k]) => k \in DOMAIN wire
  BY <1>1
<1> QED BY <1>1, <1>2 DEF Given, Good, Awaited

LEMMA GivenEvent ==
  ASSUME TypeOK, NEW m \in Message, m.kind # "reply", Adds(<<m>>)
  PROVE  \A d \in Nat : Given(d)' <=> Given(d)
<1> PICK ms : ms = <<m>>
  OBVIOUS
<1>1. ms \in Seq(Message) /\ DOMAIN ms = {1} /\ ms[1] = m /\ Adds(ms)
  BY One
<1>2. \A j \in DOMAIN ms : ~Good(ms[j])
  BY <1>1 DEF Good, Awaited
<1> QED BY <1>1, <1>2, GivenSame

LEMMA DoneSame ==
  ASSUME EvaluationsStay
  PROVE  (\A d \in Nat : Done(d)' <=> Done(d)) /\ (Unblocked => Unblocked')
<1>1. /\ DOMAIN evaluations' = DOMAIN evaluations
      /\ \A i \in DOMAIN evaluations :
           \/ evaluations'[i] = evaluations[i]
           \/ evaluations[i].stage # "done" /\ evaluations'[i].stage = "failed"
  BY DEF EvaluationsStay
<1>2. \A i \in DOMAIN evaluations : evaluations[i].stage = "done" \/ evaluations'[i].stage = "done"
        => evaluations'[i] = evaluations[i]
  BY <1>1
<1>3. \A d \in Nat : Done(d)' <=> Done(d)
  BY <1>1, <1>2 DEF Done
<1>4. Unblocked => Unblocked'
  BY <1>1 DEF Unblocked
<1> QED BY <1>3, <1>4

\* What is handled for another call than a reading leaves readings alone.
LEMMA OtherKeepsClick ==
  ASSUME ChannelInv, ClickInv, UNCHANGED host, inbox # <<>>, Head(inbox).op # "targets",
         Fades, UNCHANGED strays
  PROVE  ClickInv'
<1> PICK r : r = Head(inbox)
  OBVIOUS
<1>1. timeouts = 0 => Sought(r)
  BY HeadIs
<1>2. ~(timeouts = 0 /\ Reading)
  BY <1>1 DEF Sought, Reading
<1> QED BY <1>2, FadesKeepClick

\* Every handler of the worker keeps the fourth invariant.
LEMMA HandlerKeepsClick ==
  ASSUME ChannelInv, ClickInv, UNCHANGED host, Handler
  PROVE  ClickInv'
<1>0. TypeOK /\ views \in [Pages -> View]
  BY Unpacked
<1> PICK r : r = Head(inbox)
  OBVIOUS
<1> PICK p : p = r.page
  OBVIOUS
<1>1. UNCHANGED views => Fades
  BY DEF Fades
<1>2. ASSUME NEW q \in Pages, views' = [views EXCEPT ![q].state = "live"] PROVE Fades
  BY <1>0, <1>2 DEF Fades, View
<1>3. ASSUME NEW q \in Pages, OnlyPage(q),
             views'[q].marked => views[q].marked /\ views'[q].document = views[q].document
      PROVE  Fades
  BY <1>3 DEF Fades, OnlyPage
<1>4. CASE PageNotFound
  <2>1. inbox # <<>> /\ Adds(<<Reply(r, FALSE, 0)>>) /\ UNCHANGED <<views, evaluations, strays>>
    BY <1>4, Emits DEF PageNotFound, Handles
  <2> PICK ok \in BOOLEAN : ok = FALSE
    OBVIOUS
  <2> PICK m : m = Reply(r, ok, 0)
    OBVIOUS
  <2>2. r \in Request /\ 0 \in Nat
    BY <2>1, HeadIs
  <2>3. m \in Message /\ m.ok = ok /\ Adds(<<m>>)
    BY <2>1, <2>2, ReplyIsMessage
  <2> PICK ms : ms = <<m>>
    OBVIOUS
  <2>4. ms \in Seq(Message) /\ DOMAIN ms = {1} /\ ms[1] = m /\ Adds(ms)
    BY <2>3, One
  <2>5. \A j \in DOMAIN ms : ~Good(ms[j])
    BY <2>3, <2>4 DEF Good
  <2>6. \A d \in Nat : Given(d)' <=> Given(d)
    BY <1>0, <2>4, <2>5, GivenSame
  <2>7. (\A d \in Nat : Done(d)' <=> Done(d)) /\ (Unblocked => Unblocked')
    BY <2>1 DEF Done, Unblocked
  <2>8. \A d \in Nat : Result(d)' <=> Result(d)
    BY <2>6, <2>7 DEF Result
  <2> QED BY <1>1, <2>1, <2>7, <2>8, FadesKeepClick
<1>5. CASE OpSessionOpen
  <2>1. /\ inbox # <<>> /\ r.op = "session.open" /\ UNCHANGED strays
        /\ UNCHANGED views \/ views' = [views EXCEPT ![1].state = "live"]
    BY <1>5, OpSessionOpenIs
  <2>2. Fades
    BY <1>1, <1>2, <2>1, PagesAre
  <2> QED BY <2>1, <2>2, OtherKeepsClick
<1>6. CASE OpPageNew
  <2>1. PICK n \in 0..MaxPages :
          /\ n + 1 \in Pages /\ inbox # <<>> /\ r.op = "page.new" /\ UNCHANGED strays
          /\ views' = [views EXCEPT ![n + 1].state = "live"]
    BY <1>6, OpPageNewIs
  <2>2. Fades
    BY <1>2, <2>1
  <2> QED BY <2>1, <2>2, OtherKeepsClick
<1>7. CASE OpPageClose
  <2>1. /\ inbox # <<>> /\ r.op = "page.close" /\ p \in Pages
        /\ views' = Gone(p, "closed") /\ UNCHANGED strays
    BY <1>7, OpPageCloseIs
  <2>2. OnlyPage(p) /\ views'[p].marked = FALSE
    BY <1>0, <2>1, GoneIs
  <2>3. Fades
    BY <1>3, <2>1, <2>2
  <2> QED BY <2>1, <2>3, OtherKeepsClick
<1>8. CASE OpPageNavigate
  <2>1. /\ inbox # <<>> /\ r.op = "page.navigate" /\ p \in Pages
        /\ views' = Loading(p, TRUE) /\ UNCHANGED strays
    BY <1>0, <1>8, NavigateIs
  <2>2. TRUE \in BOOLEAN
    OBVIOUS
  <2>3. OnlyPage(p) /\ views'[p].marked = views[p].marked
        /\ views'[p].document = views[p].document
    BY <1>0, <2>1, <2>2, LoadingIs
  <2>4. Fades
    BY <1>3, <2>1, <2>3
  <2> QED BY <2>1, <2>4, OtherKeepsClick
<1>9. CASE OpPageObserve
  <2>1. inbox # <<>> /\ r.op = "page.observe" /\ UNCHANGED <<views, strays>>
    BY <1>9 DEF OpPageObserve, HandlesPage, Handles
  <2> QED BY <1>1, <2>1, OtherKeepsClick
<1>10. CASE OpPageTerminate
  <2>1. /\ inbox # <<>> /\ r.op = "page.terminate" /\ p \in Pages /\ UNCHANGED strays
        /\ views' = Gone(p, "dead") \/ UNCHANGED views
    BY <1>0, <1>10, TerminateIs
  <2>2. ASSUME views' = Gone(p, "dead") PROVE Fades
    <3>1. OnlyPage(p) /\ views'[p].marked = FALSE
      BY <1>0, <2>1, <2>2, GoneIs
    <3> QED BY <1>3, <2>1, <3>1
  <2> QED BY <1>1, <2>1, <2>2, OtherKeepsClick
<1>11. CASE OpPageEvaluate
  <2>1. PICK e \in Evaluation :
          /\ evaluations' = Append(evaluations, e) /\ e.stage \in {"queued", "failed"}
          /\ UNCHANGED <<wire, views, strays>>
    BY <1>11, OpPageEvaluateIs
  <2> PICK n : n = Len(evaluations) + 1
    OBVIOUS
  <2>2. /\ n \notin DOMAIN evaluations
        /\ DOMAIN evaluations' = DOMAIN evaluations \union {n}
        /\ \A i \in DOMAIN evaluations : evaluations'[i] = evaluations[i]
        /\ evaluations'[n] = e
    BY <2>1, Unpacked, Appended
  <2>3. (\A d \in Nat : Done(d)' <=> Done(d)) /\ (Unblocked => Unblocked')
    BY <2>1, <2>2 DEF Done, Unblocked
  <2>4. \A d \in Nat : Given(d)' <=> Given(d)
    BY <2>1 DEF Given, Good, Awaited
  <2>5. \A d \in Nat : Result(d)' <=> Result(d)
    BY <2>3, <2>4 DEF Result
  <2> QED BY <1>1, <2>1, <2>3, <2>5, FadesKeepClick
<1>12. CASE OpPageDecide
  <2>1. inbox # <<>> /\ r.op = "page.decide" /\ UNCHANGED <<views, strays>>
    BY <1>12, DecideIs
  <2> QED BY <1>1, <2>1, OtherKeepsClick
<1> QED
  BY <1>4, <1>5, <1>6, <1>7, <1>8, <1>9, <1>10, <1>11, <1>12 DEF Handler

LEMMA QuietKeepsClick ==
  ASSUME ChannelInv, ClickInv, UNCHANGED host, Fades, UNCHANGED strays, EvaluationsStay,
         UNCHANGED wire \/ \E m \in Message : m.kind # "reply" /\ Adds(<<m>>)
  PROVE  ClickInv'
<1>1. TypeOK
  BY Unpacked
<1>2. (\A d \in Nat : Done(d)' <=> Done(d)) /\ (Unblocked => Unblocked')
  BY DoneSame
<1>3. UNCHANGED wire => \A d \in Nat : Given(d)' <=> Given(d)
  BY DEF Given, Good, Awaited
<1>4. \A d \in Nat : Given(d)' <=> Given(d)
  BY <1>1, <1>3, GivenEvent
<1>5. \A d \in Nat : Result(d)' <=> Result(d)
  BY <1>2, <1>4 DEF Result
<1> QED BY <1>2, <1>5, FadesKeepClick

\* Unless a request was given up, an evaluation is what the call in progress sent,
\* and nothing else is under way.
LEMMA OnlyEvaluation ==
  ASSUME ChannelInv, timeouts = 0, NEW i \in DOMAIN evaluations
  PROVE  /\ Sought(evaluations[i].request) /\ evaluations[i].request.fresh
         /\ DOMAIN evaluations = {i}
         /\ \A k \in DOMAIN wire : ~Good(wire[k])
<1>1. /\ Sought(evaluations[i].request) /\ evaluations[i].request.fresh
      /\ \A k \in DOMAIN wire : ~Awaited(wire[k])
  BY EvaluationIs
<1>2. \A j \in DOMAIN evaluations : j = i
  BY <1>1, Unpacked DEF FreshInv, EvaluationsFresh, NothingStale
<1>3. DOMAIN evaluations = {i}
  BY <1>2
<1> QED BY <1>1, <1>3 DEF Good

\* TARGET_SCRIPT marks the document whose targets it reads.
LEMMA TargetScriptKeepsClick ==
  ASSUME ChannelInv, ClickInv, UNCHANGED host, NEW i \in DOMAIN evaluations, TargetScript(i)
  PROVE  ClickInv'
<1> PICK p : p = evaluations[i].request.page
  OBVIOUS
<1>1. /\ p \in Pages /\ evaluations[i].request.op = "targets"
      /\ RequestsStay /\ evaluations'[i].stage = "done"
      /\ evaluations'[i].document = views[p].document
      /\ OnlyPage(p) /\ views'[p].document = views[p].document
      /\ UNCHANGED <<wire, strays>>
  BY TargetScriptIs
<1>2. UNCHANGED <<timeouts, call, target, active>>
  BY DEF host
<1>3. CASE timeouts # 0
  BY <1>2, <1>3 DEF ClickInv
<1>4. CASE timeouts = 0
  <2>1. /\ Sought(evaluations[i].request) /\ DOMAIN evaluations = {i}
        /\ \A k \in DOMAIN wire : ~Good(wire[k])
    BY <1>4, OnlyEvaluation
  <2>2. Reading /\ p = active
    BY <1>1, <2>1 DEF Sought, Reading
  <2> PICK d0 : d0 = views[p].document
    OBVIOUS
  <2>3. d0 \in Nat
    BY <1>1, Unpacked DEF View
  <2>4. DOMAIN evaluations' = {i}
    BY <1>1, <2>1 DEF RequestsStay
  <2>5. \A d \in Nat : Done(d)' <=> d = d0
    BY <1>1, <2>4 DEF Done
  <2>6. \A d \in Nat : ~Given(d)'
    BY <1>1, <2>1 DEF Given, Good, Awaited
  <2>7. \A d \in Nat : Result(d)' <=> d = d0
    BY <2>5, <2>6 DEF Result
  <2>8. Unblocked'
    BY <1>1, <2>4 DEF Unblocked
  <2>9. \A d \in Nat : Result(d)' => Stamp(p, d)'
    BY <1>1, <2>7 DEF Stamp
  <2>10. ASSUME NEW q \in Pages, q = target.readPage
         PROVE  \/ Stamp(q, target.readDocument)'
                \/ q = p /\ \E d \in Nat : Result(d)'
    <3>1. CASE q = p
      BY <2>3, <2>7, <3>1
    <3>2. CASE q # p
      <4>1. Stamp(q, target.readDocument)
        BY <1>4, <2>2, <2>10, <3>2 DEF ClickInv
      <4>2. views'[q] = views[q]
        BY <1>1, <3>2 DEF OnlyPage
      <4> QED BY <1>2, <4>1, <4>2 DEF Stamp
    <3> QED BY <3>1, <3>2
  <2>11. "document" \notin strays'
    BY <1>1, <1>4 DEF ClickInv
  <2> HIDE DEF Result
  <2>12. \A q \in Pages : q = target.readPage =>
           \/ Stamp(q, target.readDocument)'
           \/ Reading /\ q = active /\ \E d \in Nat : Result(d)'
    BY <2>2, <2>10
  <2>13. \A q \in Pages : q = active => \A d \in Nat : Result(d)' => Stamp(q, d)'
    BY <2>2, <2>9
  <2> QED BY <1>2, <2>8, <2>11, <2>12, <2>13 DEF ClickInv, Reading, Stamp
<1> QED BY <1>3, <1>4

\* CLICK_SCRIPT finds the marked element only.
LEMMA ClickScriptKeepsClick ==
  ASSUME ChannelInv, ClickInv, UNCHANGED host, NEW i \in DOMAIN evaluations, ClickScript(i)
  PROVE  ClickInv'
<1> PICK p : p = evaluations[i].request.page
  OBVIOUS
<1>1. /\ p \in Pages /\ evaluations[i].request.op = "click" /\ views[p].state = "live"
      /\ strays' = strays \/ (views[p].marked /\ strays' = strays \union Missed(i))
      /\ UNCHANGED views \/ views' = Loading(p, FALSE)
  BY ClickScriptIs
<1>2. Fades
  <2>1. CASE UNCHANGED views
    BY <2>1 DEF Fades
  <2>2. CASE views' = Loading(p, FALSE)
    <3>1. FALSE \in BOOLEAN /\ TypeOK
      BY Unpacked
    <3>2. OnlyPage(p) /\ views'[p].marked = views[p].marked
          /\ views'[p].document = views[p].document
      BY <1>1, <2>2, <3>1, LoadingIs
    <3> QED BY <3>2 DEF Fades, OnlyPage
  <2> QED BY <1>1, <2>1, <2>2
<1>3. timeouts = 0 => /\ ~Reading /\ p = active /\ evaluations[i].request.target = target
  BY <1>1, OnlyEvaluation DEF Sought, Reading
<1>4. ASSUME timeouts = 0, "document" \notin strays PROVE "document" \notin strays'
  <2>1. CASE strays' = strays
    BY <1>4, <2>1
  <2>2. CASE views[p].marked /\ strays' = strays \union Missed(i)
    <3>1. p = target.readPage => Stamp(p, target.readDocument)
      BY <1>1, <1>3, <1>4 DEF ClickInv
    <3>2. p = target.readPage => views[p].document = target.readDocument
      BY <2>2, <3>1 DEF Stamp
    <3>3. "document" \notin Missed(i)
      BY <1>3, <1>4, <3>2 DEF Missed
    <3> QED BY <1>4, <2>2, <3>3
  <2> QED BY <1>1, <2>1, <2>2
<1> QED BY <1>2, <1>3, <1>4, FadesKeepClick

\* A result goes from the script to the wire.
LEMMA EvaluationRepliesKeepsClick ==
  ASSUME ChannelInv, ClickInv, UNCHANGED host, NEW i \in DOMAIN evaluations,
         EvaluationReplies(i)
  PROVE  ClickInv'
<1>1. PICK q \in Request, ok \in BOOLEAN, v \in Nat :
        /\ q = evaluations[i].request /\ v = evaluations[i].document
        /\ ok <=> evaluations[i].stage = "done"
        /\ Adds(<<Reply(q, ok, v)>>) /\ UNCHANGED <<views, strays>>
        /\ \A j \in DOMAIN evaluations' : \E k \in DOMAIN evaluations \ {i} :
             evaluations'[j] = evaluations[k]
  BY EvaluationRepliesIs
<1> PICK a : a = Reply(q, ok, v)
  OBVIOUS
<1>2. a \in Message /\ a.kind = "reply" /\ a.fresh = q.fresh /\ a.ok = ok /\ a.value = v
  BY ReplyIsMessage
<1>3. Adds(<<a>>) /\ TypeOK
  BY <1>1, Unpacked
<1>4. /\ Len(wire) + 1 \in DOMAIN wire' /\ wire'[Len(wire) + 1] = a
      /\ \A k \in DOMAIN wire : k \in DOMAIN wire' /\ wire'[k] = wire[k]
      /\ \A k \in DOMAIN wire' : k \in DOMAIN wire \/ k = Len(wire) + 1
  BY <1>2, <1>3, OneAdded
<1>5. Fades
  BY <1>1 DEF Fades
<1>6. ASSUME timeouts = 0 PROVE Unblocked' /\ \A d \in Nat : Result(d)' <=> Result(d)
  <2>1. /\ q.fresh /\ DOMAIN evaluations = {i} /\ \A k \in DOMAIN wire : ~Good(wire[k])
    BY <1>1, <1>6, OnlyEvaluation
  <2>2. DOMAIN evaluations' = {}
    BY <1>1, <2>1
  <2>3. Unblocked' /\ \A d \in Nat : ~Done(d)'
    BY <2>2 DEF Unblocked, Done
  <2>4. \A d \in Nat : Done(d) <=> ok /\ d = v
    BY <1>1, <2>1 DEF Done
  <2>5. Good(a) <=> ok
    BY <1>2, <2>1 DEF Good, Awaited
  <2>6. \A d \in Nat : Given(d)' <=> ok /\ d = v
    <3>1. \A k \in DOMAIN wire' : Good(wire'[k]) => k = Len(wire) + 1
      BY <1>4, <2>1
    <3> QED BY <1>2, <1>4, <2>5, <3>1 DEF Given, Good, Awaited
  <2>7. \A d \in Nat : ~Given(d)
    BY <2>1 DEF Given
  <2> QED BY <2>3, <2>4, <2>6, <2>7 DEF Result
<1> QED BY <1>1, <1>5, <1>6, FadesKeepClick

\* Every step of the engine keeps the fourth invariant.
LEMMA EngineKeepsClick ==
  ASSUME ChannelInv, ClickInv, UNCHANGED host, Engine
  PROVE  ClickInv'
<1>0. TypeOK
  BY Unpacked
<1>1. UNCHANGED evaluations => EvaluationsStay
  BY <1>0, StayIs
<1>2. ASSUME NEW q \in Pages, OnlyPage(q),
             views'[q].marked => views[q].marked /\ views'[q].document = views[q].document
      PROVE  Fades
  BY <1>2 DEF Fades, OnlyPage
<1>3. ASSUME NEW p \in Pages,
             LoadStarts(p) \/ LoadCommits(p) \/ LoadFinishes(p) \/ LoadFails(p)
      PROVE  ClickInv'
  <2>1. PICK kind \in LoadEvent :
          /\ Adds(<<Event(kind, p)>>) /\ UNCHANGED <<evaluations, strays>> /\ OnlyPage(p)
          /\ views'[p].marked => views[p].marked /\ views'[p].document = views[p].document
    BY <1>3, LoadEventIs DEF LoadEvent
  <2> PICK e : e = Event(kind, p)
    OBVIOUS
  <2>2. e \in Message /\ e.kind # "reply" /\ Adds(<<e>>)
    BY <2>1, EventIsMessage
  <2>3. Fades
    BY <1>2, <2>1
  <2> QED BY <1>1, <2>1, <2>2, <2>3, QuietKeepsClick
<1>4. ASSUME NEW p \in Pages, PageNavigates(p) PROVE ClickInv'
  <2>1. views' = Loading(p, FALSE) /\ UNCHANGED <<wire, evaluations, strays>>
    BY <1>4 DEF PageNavigates
  <2>2. FALSE \in BOOLEAN
    OBVIOUS
  <2>3. OnlyPage(p) /\ views'[p].marked = views[p].marked
        /\ views'[p].document = views[p].document
    BY <1>0, <2>1, <2>2, LoadingIs
  <2>4. Fades
    BY <1>2, <2>3
  <2> QED BY <1>1, <2>1, <2>4, QuietKeepsClick
<1>5. ASSUME NEW p \in Pages, ProcessDies(p) PROVE ClickInv'
  <2> PICK e : e = Event("terminated", p)
    OBVIOUS
  <2>1. /\ views' = Gone(p, "dead") /\ evaluations' = Failed(p) /\ UNCHANGED strays
        /\ Adds(<<e>>)
    BY <1>5, Emits DEF ProcessDies
  <2>2. e \in Message /\ e.kind # "reply"
    BY EventIsMessage
  <2>3. OnlyPage(p) /\ views'[p].marked = FALSE
    BY <1>0, <2>1, GoneIs
  <2>4. Fades
    BY <1>2, <2>3
  <2>5. EvaluationsStay
    BY <1>0, <2>1, FailedIs
  <2> QED BY <2>1, <2>2, <2>4, <2>5, QuietKeepsClick
<1>6. ASSUME NEW p \in Pages, NEW t \in Tokens, ScriptDialog(p, t) PROVE ClickInv'
  <2> PICK m : m = [kind |-> "dialog", page |-> p, token |-> t]
    OBVIOUS
  <2>1. Asks(p, t) /\ UNCHANGED <<views, evaluations, strays>>
    BY <1>6 DEF ScriptDialog
  <2>2. m \in Message /\ m.kind # "reply" /\ Adds(<<m>>)
    BY <1>0, <2>1, AsksIs, DialogIsMessage
  <2>3. Fades
    BY <2>1 DEF Fades
  <2> QED BY <1>1, <2>1, <2>2, <2>3, QuietKeepsClick
<1>7. ASSUME NEW i \in DOMAIN evaluations, ClickResumes(i) PROVE ClickInv'
  <2>1. evaluations[i].stage = "blocked" /\ UNCHANGED <<views, strays>>
    BY <1>7 DEF ClickResumes
  <2>2. ~Unblocked /\ Fades
    BY <2>1 DEF Unblocked, Fades
  <2> QED BY <2>1, <2>2, FadesKeepClick
<1> QED
  BY <1>3, <1>4, <1>5, <1>6, <1>7, TargetScriptKeepsClick, ClickScriptKeepsClick,
     EvaluationRepliesKeepsClick DEF Engine

LEMMA NoReadings ==
  ASSUME UNCHANGED <<views, strays, target>>,
         timeouts' = 0 => timeouts = 0, ClickInv,
         timeouts' = 0 /\ Reading => \A d \in Nat : ~Result(d),
         timeouts' = 0 /\ Reading' => /\ DOMAIN evaluations' = {}
                                      /\ \A k \in DOMAIN wire' : ~Good(wire'[k])
  PROVE  ClickInv'
<1> SUFFICES ASSUME timeouts' = 0
             PROVE  /\ "document" \notin strays
                    /\ \A q \in Pages : q = target.readPage => Stamp(q, target.readDocument)
                    /\ Reading' => /\ Unblocked'
                                   /\ \A q \in Pages : q = active' =>
                                        \A d \in Nat : Result(d)' => Stamp(q, d)'
  BY DEF ClickInv, Reading, Stamp
<1>1. "document" \notin strays
  BY DEF ClickInv
<1>2. \A q \in Pages : q = target.readPage => Stamp(q, target.readDocument)
  BY DEF ClickInv
<1>3. ASSUME Reading'
      PROVE  Unblocked' /\ \A d \in Nat : ~Result(d)'
  BY <1>3 DEF Unblocked, Result, Done, Given, Good, Awaited
<1> QED BY <1>1, <1>2, <1>3

LEMMA NothingUnderWay ==
  ASSUME ChannelInv, call.stage # "request"
  PROVE  /\ ~Reading
         /\ \A k \in DOMAIN wire : ~Good(wire[k])
         /\ timeouts = 0 => DOMAIN evaluations = {}
<1>1. /\ \A k \in DOMAIN wire : ~Good(wire[k])
      /\ \A i \in DOMAIN evaluations : ~evaluations[i].request.fresh
  BY NotInRequest, NoneGood
<1>2. timeouts = 0 => \A i \in DOMAIN evaluations : evaluations[i].request.fresh
  BY Unpacked DEF FreshInv, NothingStale
<1>3. timeouts = 0 => DOMAIN evaluations = {}
  BY <1>1, <1>2
<1>4. call \in Call /\ CallInv
  BY Unpacked, Types
<1>5. call.stage \in {"none", "load", "prompt", "death", "drain"}
  BY <1>4 DEF Call
<1>6. ~Reading
  BY <1>4, <1>5, NoCallIs DEF CallInv, Reading
<1> QED BY <1>1, <1>3, <1>6

LEMMA CallsKeepClick ==
  ASSUME ChannelInv, ClickInv, Calls
  PROVE  ClickInv'
<1>1. /\ Idle
      /\ UNCHANGED <<wire, views, evaluations, strays, target, timeouts>>
  BY CallsAre DEF Sent, Pauses, worker
<1>2. call.stage # "request"
  BY <1>1, NoCallIs DEF Idle
<1>3. /\ ~Reading
      /\ \A k \in DOMAIN wire : ~Good(wire[k])
      /\ timeouts = 0 => DOMAIN evaluations = {}
  BY <1>2, NothingUnderWay
<1>4. timeouts' = 0 => /\ DOMAIN evaluations' = {}
                       /\ \A k \in DOMAIN wire' : ~Good(wire'[k])
  BY <1>1, <1>3
<1> QED BY <1>1, <1>3, <1>4, NoReadings

LEMMA TakeEventKeepsClick ==
  ASSUME ChannelInv, ClickInv, TakeEvent
  PROVE  ClickInv'
<1>1. PICK m \in Message :
        /\ m = wire[1] /\ m.kind # "reply" /\ wire' = Tail(wire) /\ 1 \in DOMAIN wire
        /\ UNCHANGED <<active, target, call, timeouts, views, evaluations, strays>>
  BY TakeEventIs
<1>2. wire # <<>>
  BY <1>1
<1>3. /\ \A k \in DOMAIN wire' :
           k \in Nat /\ k >= 1 /\ k + 1 \in DOMAIN wire /\ wire'[k] = wire[k + 1]
      /\ \A k \in DOMAIN wire : k # 1 => k - 1 \in DOMAIN wire' /\ (k - 1) + 1 = k
  BY <1>1, <1>2, TakenIs
<1>4. \A k \in DOMAIN wire' : \E j \in DOMAIN wire : wire[j] = wire'[k]
  BY <1>3
<1>5. ASSUME NEW k \in DOMAIN wire, Good(wire[k])
      PROVE  \E j \in DOMAIN wire' : wire'[j] = wire[k]
  <2> PICK j : j = k - 1
    OBVIOUS
  <2>1. k # 1
    BY <1>1, <1>5 DEF Good, Awaited
  <2>2. j \in DOMAIN wire' /\ j + 1 = k
    BY <1>3, <2>1
  <2> QED BY <1>3, <2>2
<1>6. \A d \in Nat : Given(d)' <=> Given(d)
  <2>1. \A d \in Nat : Given(d)' => Given(d)
    BY <1>4 DEF Given, Good, Awaited
  <2>2. \A d \in Nat : Given(d) => Given(d)'
    BY <1>5 DEF Given, Good, Awaited
  <2> QED BY <2>1, <2>2
<1>7. (\A d \in Nat : Done(d)' <=> Done(d)) /\ (Unblocked => Unblocked')
  BY <1>1 DEF Done, Unblocked
<1>8. \A d \in Nat : Result(d)' <=> Result(d)
  BY <1>6, <1>7 DEF Result
<1>9. Fades
  BY <1>1 DEF Fades
<1> QED BY <1>1, <1>7, <1>8, <1>9, ClickKept

\* The targets of the reading become the ones the client holds.
LEMMA TargetsObservedKeepsClick ==
  ASSUME ChannelInv, ClickInv, TargetsObserved
  PROVE  ClickInv'
<1>1. /\ Answered(TRUE) /\ call.op = "targets" /\ call' = NoCall
      /\ target'.readPage = active /\ target'.readDocument = value
  BY TargetsObservedIs
<1>2. TRUE \in BOOLEAN
  OBVIOUS
<1>3. /\ 1 \in DOMAIN wire /\ Awaited(wire[1]) /\ wire[1].ok = TRUE
      /\ value = wire[1].value /\ value \in Nat
  BY <1>1, <1>2, AnsweredIs
<1>4. UNCHANGED <<views, strays, timeouts>>
  BY <1>1 DEF Answered
<1>5. CASE timeouts # 0
  BY <1>4, <1>5 DEF ClickInv
<1>6. CASE timeouts = 0
  <2>1. Result(value)
    BY <1>3 DEF Result, Given, Good
  <2>2. \A q \in Pages : q = active => Stamp(q, value)
    BY <1>1, <1>3, <1>6, <2>1 DEF ClickInv, Reading
  <2>3. \A q \in Pages : q = target'.readPage => Stamp(q, target.readDocument)'
    BY <1>1, <1>4, <2>2 DEF Stamp
  <2>4. ~Reading'
    BY <1>1, NoCallIs DEF Reading
  <2>5. "document" \notin strays'
    BY <1>4, <1>6 DEF ClickInv
  <2> QED BY <2>3, <2>4, <2>5 DEF ClickInv
<1> QED BY <1>5, <1>6

\* Every reply keeps the fourth invariant.
LEMMA RepliesKeepClick ==
  ASSUME ChannelInv, PagesInv, ClickInv, Replies
  PROVE  ClickInv'
<1>0. TRUE \in BOOLEAN /\ FALSE \in BOOLEAN /\ timeouts \in Nat
  BY Unpacked, Types
<1>1. CASE RequestTimesOut
  <2>1. timeouts' = timeouts + 1
    BY <1>1 DEF RequestTimesOut
  <2>2. timeouts' # 0
    BY <1>0, <2>1
  <2> QED BY <2>2 DEF ClickInv
<1>2. CASE RequestMeetsLateReply
  <2>1. wire # <<>> /\ Head(wire).kind = "reply" /\ ~Head(wire).fresh /\ timeouts' = timeouts
    BY <1>2 DEF RequestMeetsLateReply, ReplyIs
  <2>2. timeouts' # 0
    BY <2>1, LateReplyIs
  <2> QED BY <2>2 DEF ClickInv
<1>3. CASE RequestRefused
  <2>1. Answered(FALSE) /\ call' = NoCall /\ UNCHANGED target
    BY <1>3, RefusedIs
  <2>2. /\ UNCHANGED <<views, strays, timeouts>>
        /\ \A k \in DOMAIN wire : ~Good(wire[k])
    BY <1>0, <2>1, ToldIs DEF Answered
  <2>3. timeouts = 0 => DOMAIN evaluations = {}
    BY <1>0, <2>1, AnsweredIs
  <2>4. timeouts = 0 => \A d \in Nat : ~Result(d)
    BY <2>2, <2>3 DEF Result, Done, Given
  <2>5. ~Reading'
    BY <2>1, NoCallIs DEF Reading
  <2> QED BY <2>1, <2>2, <2>4, <2>5, NoReadings
<1>4. CASE \/ Created \/ RestoreAccepted \/ TabOpened \/ TabClosed \/ NavigationAccepted
           \/ StateObserved \/ Clicked \/ Decided \/ Terminated
  <2>1. Answered(TRUE) /\ UNCHANGED target /\ call.op # "targets" /\ call'.op # "targets"
    <3>1. CASE Created
      BY <3>1, CreatedIs, NoCallIs
    <3>2. CASE TabOpened \/ TabClosed \/ NavigationAccepted \/ StateObserved \/ Decided
      BY <3>2, TabOpenedIs, TabClosedIs, NavigationAcceptedIs, StateObservedIs, DecidedIs,
         NoCallIs
    <3>3. CASE RestoreAccepted \/ Clicked \/ Terminated
      BY <3>3, WaitsOnIs
    <3> QED BY <1>4, <3>1, <3>2, <3>3
  <2>2. UNCHANGED <<views, strays, timeouts>>
    BY <2>1 DEF Answered
  <2>3. ~Reading /\ ~Reading'
    BY <2>1 DEF Reading
  <2> QED BY <2>1, <2>2, <2>3, NoReadings
<1> QED BY <1>1, <1>2, <1>3, <1>4, TargetsObservedKeepsClick DEF Replies

LEMMA PumpsKeepClick ==
  ASSUME ChannelInv, ClickInv, Pumps
  PROVE  ClickInv'
<1>1. CASE PumpMeetsLateReply
  <2>1. timeouts' # 0
    BY <1>1, PumpMeetsLateReplyIs
  <2> QED BY <2>1 DEF ClickInv
<1>2. CASE ~PumpMeetsLateReply
  <2>1. /\ UNCHANGED worker /\ UNCHANGED <<target, timeouts>> /\ call.stage # "request"
        /\ call'.op # "targets"
    BY <1>2, PumpsIs, NoCallIs
  <2>2. UNCHANGED <<views, strays>>
    BY <2>1 DEF worker
  <2>3. ~Reading /\ ~Reading'
    BY <2>1, NothingUnderWay DEF Reading
  <2> QED BY <2>1, <2>2, <2>3, NoReadings
<1> QED BY <1>1, <1>2

LEMMA InitClick ==
  ASSUME Init
  PROVE  ClickInv
<1>1. strays = {} /\ target = NoTarget /\ call = NoCall
  BY DEF Init, InitWorker
<1>2. target.readPage = 0 /\ ~Reading
  BY <1>1, NoCallIs DEF NoTarget, Reading
<1> QED BY <1>1, <1>2, PagesAre DEF ClickInv

LEMMA StutterKeepsClick ==
  ASSUME ClickInv, UNCHANGED vars
  PROVE  ClickInv'
BY DEF vars, worker, host, ClickInv, Stamp, Reading, Result, Done, Given, Unblocked, Good,
       Awaited

\* The fourth invariant holds.
LEMMA ClickHeld == Spec => []ClickInv
<1>1. Init => ClickInv
  BY InitClick
<1>2. ASSUME ChannelInv, PagesInv, ClickInv, [Next]_vars PROVE ClickInv'
  BY <1>2, CallsKeepClick, TakeEventKeepsClick, RepliesKeepClick, PumpsKeepClick,
     HandlerKeepsClick, EngineKeepsClick, StutterKeepsClick DEF Next, WorkerStep
<1> QED BY <1>1, <1>2, ChannelHeld, PagesHeld, PTL DEF Spec

\* Unless a request was given up, a click lands in the document its targets were
\* read from: CLICK_SCRIPT finds the element only by the mark TARGET_SCRIPT left
\* in that document, and no later document has it.
THEOREM ClicksHit == Spec => []ClickHitsItsDocument
<1>1. ClickInv => ClickHitsItsDocument
  BY DEF ClickInv, ClickHitsItsDocument
<1> QED BY <1>1, ClickHeld, PTL

-----------------------------------------------------------------------------
(* The fifth invariant: what the host knows of the documents and loads.      *)

\* A report on the page's loads or its process.
Reports(m, p) == m.kind \in LoadEvent \union {"terminated"} /\ m.page = p
Commits(m, p) == m.kind = "committed" /\ m.page = p
\* One after which the host knows anew whether the page loads.
Marks(m, p) == m.kind \in {"started", "finished", "failed", "terminated"} /\ m.page = p

\* Of a page that is not there nothing is said, and no script runs in it.
Unborn(p) ==
  views[p].state = "none" =>
    /\ views[p].document = 0 /\ views[p].load = "none"
    /\ \A k \in DOMAIN wire : ~Reports(wire[k], p)
    /\ \A i \in DOMAIN evaluations : evaluations[i].request.page # p

\* A page that the host will learn of has shown nothing yet: all there is to
\* report is the end of its process, after the reply.
Newborn(k, p) ==
  /\ views[p].document = 0 /\ views[p].load = "none"
  /\ \A j \in DOMAIN wire : Reports(wire[j], p) => j > k /\ wire[j].kind = "terminated"
  /\ views[p].state = "dead" => \E j \in DOMAIN wire : Reports(wire[j], p)
  /\ \A i \in DOMAIN evaluations : evaluations[i].request.page # p
Births ==
  \A k \in DOMAIN wire : \A p \in Pages :
    Good(wire[k]) /\ Opens /\ wire[k].value = p => Newborn(k, p)

\* A load is refused only if the page is gone.
Refusals ==
  \A k \in DOMAIN wire :
    Awaited(wire[k]) /\ ~wire[k].ok /\ call.op \in {"navigate", "restore"} =>
      ~Exists(call.page)

\* The documents the host counts and those it will hear of are all there were.
Pending(p) == {k \in DOMAIN wire : Commits(wire[k], p)}
Counted(p) == pages[p].document + Cardinality(Pending(p)) = views[p].document

\* What says that the page loads: the host's record, an event, page.observe.
Silent(k, p) == \A j \in DOMAIN wire : j > k => ~Marks(wire[j], p)
Starts(m, p) == m.kind = "started" /\ m.page = p
Observes(m, p) == Good(m) /\ call.op = "observe" /\ call.page = p /\ m.value = 1
Due(p) ==
  \E i \in DOMAIN inbox :
    inbox[i].fresh /\ inbox[i].op = "page.navigate" /\ inbox[i].page = p
Loads(p) ==
  /\ \A k \in DOMAIN wire :
       Silent(k, p) /\ (Starts(wire[k], p) \/ Observes(wire[k], p)) => views[p].load # "none"
  /\ Silent(0, p) /\ pages[p].load = "loading" => views[p].load # "none" \/ Due(p)
  /\ timeouts = 0 /\ views[p].load \in {"started", "committed"} =>
       \/ Silent(0, p) /\ pages[p].load = "loading"
       \/ \E k \in DOMAIN wire : Starts(wire[k], p) /\ Silent(k, p)

\* A process that ended is known to have, or its end is announced.
Mourned(p) ==
  views[p].state = "dead" /\ ~pages[p].restored =>
    \/ pages[p].lifecycle = "terminated"
    \/ \E k \in DOMAIN wire : wire[k].kind = "terminated" /\ wire[k].page = p

Followed(p) == Counted(p) /\ Mourned(p) /\ (Exists(p) => Loads(p))
FollowInv ==
  /\ Births /\ Refusals
  /\ \A p \in Pages : Unborn(p) /\ (Known(p) => Followed(p))

-----------------------------------------------------------------------------
(* What a worker's step does to a page, with the messages it adds.           *)

Says(ms, p, kinds) == \A j \in DOMAIN ms : Reports(ms[j], p) => ms[j].kind \in kinds
SameDocument(p) == views'[p].document = views[p].document

Rests(p, ms) ==
  /\ views'[p].state = views[p].state /\ views'[p].load = views[p].load
  /\ SameDocument(p) /\ Says(ms, p, {})
Arises(p, ms) ==
  /\ inbox # <<>> /\ views[p].state = "none" /\ views'[p].state = "live"
  /\ views'[p].load = views[p].load /\ SameDocument(p) /\ Says(ms, p, {})
Leaves(p, ms) ==
  /\ inbox # <<>> /\ Exists(p) /\ views'[p].state = "closed" /\ views'[p].load = "none"
  /\ SameDocument(p) /\ Says(ms, p, {})
Requests(p, ms) ==
  /\ \/ inbox # <<>> \/ views[p].document # 0
     \/ \E i \in DOMAIN evaluations : evaluations[i].request.page = p
  /\ Exists(p) /\ views'[p].state = "live" /\ views'[p].load = "requested"
  /\ SameDocument(p) /\ Says(ms, p, {"failed"})
Progresses(p, ms) ==
  /\ views[p].load # "none" /\ views'[p].state = views[p].state
  /\ \/ /\ views[p].load = "requested" /\ views'[p].load = "started"
        /\ SameDocument(p) /\ ms = <<Event("started", p)>>
     \/ /\ views[p].load = "started" /\ views'[p].load = "committed"
        /\ views'[p].document = views[p].document + 1 /\ ms = <<Event("committed", p)>>
     \/ /\ views'[p].load = "none" /\ SameDocument(p)
        /\ \E kind \in {"finished", "failed"} : ms = <<Event(kind, p)>>
Dies(p, ms) ==
  /\ views[p].state = "live" /\ views'[p].state = "dead" /\ views'[p].load = "none"
  /\ SameDocument(p) /\ Says(ms, p, {"terminated"})
  /\ \E j \in DOMAIN ms : Reports(ms[j], p)

Fares(p, ms) ==
  \/ Rests(p, ms) \/ Arises(p, ms) \/ Leaves(p, ms) \/ Requests(p, ms)
  \/ Progresses(p, ms) \/ Dies(p, ms)

\* A reply that the host waits for says what is so when it is written.
Truthful(ms) ==
  \A j \in DOMAIN ms : Awaited(ms[j]) =>
    /\ ms[j].ok /\ call.op = "observe" /\ ms[j].value = 1 =>
         views'[call.page].load # "none"
    /\ \A p \in Pages :
         /\ ~ms[j].ok /\ call.op \in {"navigate", "restore"} /\ call.page = p => ~Exists(p)'
         /\ ms[j].ok /\ Opens /\ ms[j].value = p => Arises(p, ms)

\* A navigation asked for loads, if the page is there.
Serves ==
  \A p \in Pages : Due(p) => Due(p)' \/ views'[p].load # "none" \/ ~Exists(p)'

\* Scripts run in pages that are there.
Runs ==
  \A i \in DOMAIN evaluations' : \A p \in Pages : evaluations'[i].request.page = p =>
    \/ \E j \in DOMAIN evaluations : evaluations[j].request.page = p
    \/ inbox # <<>> /\ Exists(p)

Works(ms) ==
  /\ ms \in Seq(Message) /\ Adds(ms)
  /\ \A p \in Pages : Fares(p, ms)
  /\ Truthful(ms) /\ Serves /\ Runs

LEMMA UnbornKept ==
  ASSUME ChannelInv, FollowInv, NEW ms, Works(ms), NEW p \in Pages
  PROVE  Unborn(p)'
<1>1. /\ ms \in Seq(Message) /\ Adds(ms) /\ Fares(p, ms) /\ Runs /\ TypeOK
      /\ Unborn(p)
  BY Unpacked DEF Works, FollowInv
<1>2. /\ \A k \in DOMAIN wire : k \in DOMAIN wire' /\ wire'[k] = wire[k]
      /\ \A k \in DOMAIN wire' :
           k \in DOMAIN wire \/ \E j \in DOMAIN ms : wire'[k] = ms[j]
  BY <1>1, WireJoined
<1> SUFFICES ASSUME views'[p].state = "none"
             PROVE  /\ views'[p].document = 0 /\ views'[p].load = "none"
                    /\ \A k \in DOMAIN wire' : ~Reports(wire'[k], p)
                    /\ \A i \in DOMAIN evaluations' : evaluations'[i].request.page # p
  BY DEF Unborn, Reports
<1>3. Rests(p, ms)
  BY <1>1 DEF Fares, Arises, Leaves, Requests, Progresses, Dies, Unborn
<1>4. /\ views[p].state = "none" /\ views[p].document = 0 /\ views[p].load = "none"
      /\ \A k \in DOMAIN wire : ~Reports(wire[k], p)
      /\ \A i \in DOMAIN evaluations : evaluations[i].request.page # p
  BY <1>1, <1>3 DEF Rests, Unborn
<1>5. \A k \in DOMAIN wire' : ~Reports(wire'[k], p)
  BY <1>2, <1>3, <1>4 DEF Rests, Says
<1>6. \A i \in DOMAIN evaluations' : evaluations'[i].request.page # p
  BY <1>1, <1>4 DEF Runs, Exists
<1> QED BY <1>3, <1>4, <1>5, <1>6 DEF Rests, SameDocument

\* The messages of a step, behind those of the wire.
LEMMA WireWorked ==
  ASSUME ChannelInv, NEW ms, Works(ms)
  PROVE  /\ ms \in Seq(Message) /\ Len(wire) \in Nat /\ DOMAIN wire = 1..Len(wire)
         /\ \A k \in DOMAIN wire :
              k \in Nat /\ k <= Len(wire) /\ k \in DOMAIN wire' /\ wire'[k] = wire[k]
         /\ \A j \in DOMAIN ms : /\ j \in Nat /\ j >= 1 /\ Len(wire) + j \in DOMAIN wire'
                                 /\ wire'[Len(wire) + j] = ms[j]
         /\ \A k \in DOMAIN wire' :
              k \in DOMAIN wire \/ \E j \in DOMAIN ms : k = Len(wire) + j /\ wire'[k] = ms[j]
<1>1. ms \in Seq(Message) /\ Adds(ms) /\ TypeOK
  BY Unpacked DEF Works
<1> PICK n : n = Len(wire)
  OBVIOUS
<1>2. /\ n \in Nat /\ DOMAIN wire = 1..n
      /\ \A k \in DOMAIN wire : k <= n /\ k \in DOMAIN wire' /\ wire'[k] = wire[k]
      /\ \A j \in DOMAIN ms : j \in Nat /\ j >= 1 /\ n + j \in DOMAIN wire' /\ wire'[n + j] = ms[j]
      /\ \A k \in DOMAIN wire' : k \in DOMAIN wire \/ \E j \in DOMAIN ms : k = n + j
  BY ZenonT(40), <1>1, WireJoined
<1>3. \A k \in DOMAIN wire : k \in Nat
  BY <1>2
<1>4. \A k \in DOMAIN wire' :
        k \in DOMAIN wire \/ \E j \in DOMAIN ms : k = n + j /\ wire'[k] = ms[j]
  BY <1>2
<1> QED BY <1>1, <1>2, <1>3, <1>4

LEMMA BirthsKept ==
  ASSUME ChannelInv, FollowInv, NEW ms, Works(ms), UNCHANGED host
  PROVE  Births'
<1> PICK n : n = Len(wire)
  OBVIOUS
<1>1. /\ n \in Nat
      /\ \A k \in DOMAIN wire : k \in Nat /\ k <= n /\ k \in DOMAIN wire' /\ wire'[k] = wire[k]
      /\ \A j \in DOMAIN ms : /\ j \in Nat /\ j >= 1 /\ n + j \in DOMAIN wire'
                              /\ wire'[n + j] = ms[j]
      /\ \A k \in DOMAIN wire' :
           k \in DOMAIN wire \/ \E j \in DOMAIN ms : k = n + j /\ wire'[k] = ms[j]
  BY ZenonT(40), WireWorked
<1>2. Truthful(ms) /\ Runs /\ Births /\ UNCHANGED call
  BY DEF Works, FollowInv, host
<1> SUFFICES ASSUME NEW k \in DOMAIN wire', NEW p \in Pages,
                    Good(wire'[k]), Opens, wire'[k].value = p
             PROVE  Newborn(k, p)'
  BY <1>2 DEF Births, Good, Awaited, Opens
<1>3. Fares(p, ms) /\ Unborn(p)
  BY DEF Works, FollowInv
<1>4. CASE k \in DOMAIN wire
  <2>1. Good(wire[k]) /\ wire[k].value = p
    BY <1>1, <1>4
  <2>2. /\ views[p].document = 0 /\ views[p].load = "none"
        /\ \A j \in DOMAIN wire : Reports(wire[j], p) => j > k /\ wire[j].kind = "terminated"
        /\ views[p].state = "dead" => \E j \in DOMAIN wire : Reports(wire[j], p)
        /\ \A i \in DOMAIN evaluations : evaluations[i].request.page # p
    BY <1>2, <1>4, <2>1 DEF Births, Newborn
  <2>3. inbox = <<>>
    BY <1>4, <2>1, Unpacked DEF FreshInv, RepliesFresh, Good
  <2>4. Rests(p, ms) \/ Dies(p, ms)
    BY <1>3, <2>2, <2>3 DEF Fares, Arises, Leaves, Requests, Progresses
  <2>5. views'[p].document = 0 /\ views'[p].load = "none" /\ Says(ms, p, {"terminated"})
    BY <2>2, <2>4 DEF Rests, Dies, SameDocument, Says
  <2>6. \A j \in DOMAIN wire' : Reports(wire'[j], p) => j > k /\ wire'[j].kind = "terminated"
    <3> SUFFICES ASSUME NEW j \in DOMAIN wire', Reports(wire'[j], p)
                 PROVE  j > k /\ wire'[j].kind = "terminated"
      OBVIOUS
    <3>1. CASE j \in DOMAIN wire
      BY <1>1, <2>2, <3>1
    <3>2. CASE \E i \in DOMAIN ms : j = n + i /\ wire'[j] = ms[i]
      <4>1. PICK i \in DOMAIN ms : j = n + i /\ wire'[j] = ms[i]
        BY <3>2
      <4>2. j > k
        BY <1>1, <1>4, <4>1
      <4>3. wire'[j].kind = "terminated"
        BY <2>5, <4>1 DEF Says
      <4> QED BY <4>2, <4>3
    <3> QED BY <1>1, <3>1, <3>2
  <2>7. views'[p].state = "dead" => \E j \in DOMAIN wire' : Reports(wire'[j], p)
    BY <1>1, <2>2, <2>4 DEF Rests, Dies
  <2>8. \A i \in DOMAIN evaluations' : evaluations'[i].request.page # p
    BY <1>2, <2>2, <2>3 DEF Runs
  <2> QED BY <2>5, <2>6, <2>7, <2>8 DEF Newborn, Reports
<1>5. CASE \E j \in DOMAIN ms : k = n + j /\ wire'[k] = ms[j]
  <2>1. Arises(p, ms)
    BY <1>2, <1>5 DEF Truthful, Good
  <2>2. /\ views[p].document = 0 /\ views[p].load = "none"
        /\ \A j \in DOMAIN wire : ~Reports(wire[j], p)
        /\ \A i \in DOMAIN evaluations : evaluations[i].request.page # p
    BY <1>3, <2>1 DEF Arises, Unborn
  <2>3. \A j \in DOMAIN wire' : ~Reports(wire'[j], p)
    BY <1>1, <2>1, <2>2 DEF Arises, Says
  <2>4. \A i \in DOMAIN evaluations' : evaluations'[i].request.page # p
    BY <1>2, <2>1, <2>2 DEF Runs, Arises, Exists
  <2>5. /\ views'[p].document = 0 /\ views'[p].load = "none" /\ views'[p].state # "dead"
    BY <2>1, <2>2 DEF Arises, SameDocument
  <2> QED BY <2>3, <2>4, <2>5 DEF Newborn, Reports
<1> QED BY <1>1, <1>4, <1>5

LEMMA RefusalsKept ==
  ASSUME ChannelInv, FollowInv, NEW ms, Works(ms), UNCHANGED host
  PROVE  Refusals'
<1>1. /\ \A k \in DOMAIN wire : wire'[k] = wire[k]
      /\ \A k \in DOMAIN wire' : k \in DOMAIN wire \/ \E j \in DOMAIN ms : wire'[k] = ms[j]
  BY WireWorked
<1>2. Truthful(ms) /\ Refusals /\ UNCHANGED call
  BY DEF Works, FollowInv, host
<1> PICK p : p = call.page
  OBVIOUS
<1> SUFFICES ASSUME NEW k \in DOMAIN wire', Awaited(wire'[k]), ~wire'[k].ok,
                    call.op \in {"navigate", "restore"}
             PROVE  ~Exists(p)'
  BY <1>2 DEF Refusals, Awaited, Exists
<1>3. CASE k \in DOMAIN wire
  <2>1. Awaited(wire[k]) /\ ~wire[k].ok
    BY <1>1, <1>3
  <2>2. ~Exists(p) /\ inbox = <<>>
    BY <1>2, <1>3, <2>1, Unpacked DEF Refusals, FreshInv, RepliesFresh
  <2>3. p \in Pages => Fares(p, ms)
    BY DEF Works
  <2> QED BY <2>2, <2>3
          DEF Fares, Rests, Arises, Leaves, Requests, Progresses, Dies, Exists
<1>4. CASE \E j \in DOMAIN ms : wire'[k] = ms[j]
  BY <1>2, <1>4 DEF Truthful, Exists
<1> QED BY <1>1, <1>3, <1>4

LEMMA PendingIs ==
  ASSUME TypeOK, NEW p
  PROVE  IsFiniteSet(Pending(p)) /\ Cardinality(Pending(p)) \in Nat /\ Pending(p) \subseteq Nat
<1>1. Len(wire) \in Nat /\ DOMAIN wire = 1..Len(wire)
  BY Types
<1>2. 0 \in Int /\ Len(wire) \in Int
  BY <1>1
<1>3. IsFiniteSet(1..Len(wire))
  BY <1>1, FS_Interval
<1>4. Pending(p) \subseteq 1..Len(wire)
  BY <1>1 DEF Pending
<1>5. IsFiniteSet(Pending(p))
  BY <1>3, <1>4, FS_Subset
<1> QED BY <1>4, <1>5, FS_CardinalityType

LEMMA CountedKept ==
  ASSUME ChannelInv, FollowInv, NEW ms, Works(ms), UNCHANGED host, NEW p \in Pages, Counted(p)
  PROVE  Counted(p)'
<1> PICK n : n = Len(wire)
  OBVIOUS
<1>1. /\ n \in Nat /\ DOMAIN wire = 1..n
      /\ \A k \in DOMAIN wire : k <= n /\ k \in DOMAIN wire' /\ wire'[k] = wire[k]
      /\ \A j \in DOMAIN ms : j \in Nat /\ n + j \in DOMAIN wire' /\ wire'[n + j] = ms[j]
      /\ \A k \in DOMAIN wire' :
           k \in DOMAIN wire \/ \E j \in DOMAIN ms : k = n + j /\ wire'[k] = ms[j]
  BY ZenonT(40), WireWorked
<1>2. Fares(p, ms) /\ UNCHANGED pages /\ ms \in Seq(Message) /\ TypeOK
  BY Unpacked DEF Works, host
<1>3. CASE SameDocument(p) /\ \A j \in DOMAIN ms : ~Commits(ms[j], p)
  <2>1. Pending(p)' = Pending(p)
    BY <1>1, <1>3 DEF Pending, Commits
  <2> QED BY <1>2, <1>3, <2>1 DEF Counted, SameDocument
<1>4. CASE /\ ms = <<Event("committed", p)>>
           /\ views'[p].document = views[p].document + 1
  <2> DEFINE m == Event("committed", p)
  <2>1. m \in Message /\ Commits(m, p)
    BY EventIsMessage DEF LoadEvent, Commits
  <2> HIDE DEF m
  <2>2. ms = <<m>> /\ DOMAIN ms = {1} /\ ms[1] = m
    BY <1>4, <2>1, One DEF m
  <2>3. Pending(p)' = Pending(p) \union {n + 1} /\ n + 1 \notin Pending(p)
    BY <1>1, <2>1, <2>2 DEF Pending, Commits
  <2>4. IsFiniteSet(Pending(p)) /\ Cardinality(Pending(p)) \in Nat
    BY <1>2, PendingIs
  <2>5. Cardinality(Pending(p) \union {n + 1}) = Cardinality(Pending(p)) + 1
    BY <2>3, <2>4, FS_AddElement
  <2>6. Cardinality(Pending(p)') = Cardinality(Pending(p)) + 1
    BY <2>3, <2>5
  <2>7. pages[p].document \in Nat /\ views[p].document \in Nat
    BY <1>2, Types DEF Page, View
  <2>8. pages'[p].document + Cardinality(Pending(p)') = views'[p].document
    BY <1>2, <1>4, <2>4, <2>6, <2>7 DEF Counted
  <2> QED BY <2>8 DEF Counted
<1>5. \A kind \in {"started", "finished", "failed"} : ms = <<Event(kind, p)>> =>
        \A j \in DOMAIN ms : ~Commits(ms[j], p)
  BY EventIsMessage, One DEF LoadEvent, Commits
<1>6. \A kinds \in {{}, {"failed"}, {"terminated"}} : Says(ms, p, kinds) =>
        \A j \in DOMAIN ms : ~Commits(ms[j], p)
  BY DEF Says, Commits, Reports, LoadEvent
<1>7. CASE Rests(p, ms) \/ Arises(p, ms) \/ Leaves(p, ms) \/ Requests(p, ms) \/ Dies(p, ms)
  BY <1>3, <1>6, <1>7 DEF Rests, Arises, Leaves, Requests, Dies
<1>8. CASE Progresses(p, ms)
  BY <1>3, <1>4, <1>5, <1>8 DEF Progresses
<1> QED BY <1>2, <1>7, <1>8 DEF Fares

LEMMA MournedKept ==
  ASSUME ChannelInv, FollowInv, NEW ms, Works(ms), UNCHANGED host, NEW p \in Pages, Mourned(p)
  PROVE  Mourned(p)'
<1> PICK n : n = Len(wire)
  OBVIOUS
<1>1. /\ \A k \in DOMAIN wire : k \in DOMAIN wire' /\ wire'[k] = wire[k]
      /\ \A j \in DOMAIN ms : n + j \in DOMAIN wire' /\ wire'[n + j] = ms[j]
  BY ZenonT(40), WireWorked
<1>2. Fares(p, ms) /\ UNCHANGED pages
  BY DEF Works, host
<1> SUFFICES ASSUME views'[p].state = "dead", ~pages[p].restored, pages[p].lifecycle # "terminated"
             PROVE  \E k \in DOMAIN wire' : wire'[k].kind = "terminated" /\ wire'[k].page = p
  BY <1>2 DEF Mourned
<1>3. CASE views[p].state = "dead"
  BY <1>1, <1>3 DEF Mourned
<1>4. CASE views[p].state # "dead"
  <2>1. Dies(p, ms)
    BY <1>2, <1>4 DEF Fares, Rests, Arises, Leaves, Requests, Progresses
  <2>2. PICK j \in DOMAIN ms : ms[j].kind = "terminated" /\ ms[j].page = p
    BY <2>1 DEF Dies, Says, Reports
  <2> QED BY <1>1, <2>2
<1> QED BY <1>3, <1>4

\* The last message of a step that says anything about the page's loads is the
\* last that says it.
LEMMA SilentWorked ==
  ASSUME ChannelInv, NEW ms, Works(ms), NEW p
  PROVE  /\ \A k \in DOMAIN wire \union {0} : Silent(k, p)' => Silent(k, p)
         /\ \A k \in DOMAIN wire \union {0} : Silent(k, p)' => \A j \in DOMAIN ms : ~Marks(ms[j], p)
         /\ (\A j \in DOMAIN ms : ~Marks(ms[j], p)) =>
              \A k \in DOMAIN wire \union {0} : Silent(k, p) => Silent(k, p)'
<1> PICK n : n = Len(wire)
  OBVIOUS
<1>1. /\ n \in Nat
      /\ \A k \in DOMAIN wire : k \in Nat /\ k <= n /\ k \in DOMAIN wire' /\ wire'[k] = wire[k]
      /\ \A j \in DOMAIN ms : /\ j \in Nat /\ j >= 1 /\ n + j \in DOMAIN wire'
                              /\ wire'[n + j] = ms[j]
      /\ \A k \in DOMAIN wire' :
           k \in DOMAIN wire \/ \E j \in DOMAIN ms : k = n + j /\ wire'[k] = ms[j]
  BY ZenonT(40), WireWorked
<1>2. \A k \in DOMAIN wire \union {0} : Silent(k, p)' => Silent(k, p)
  BY <1>1 DEF Silent, Marks
<1>3. ASSUME NEW k \in DOMAIN wire \union {0}, Silent(k, p)', NEW j \in DOMAIN ms
      PROVE  ~Marks(ms[j], p)
  <2>1. n + j > k /\ n + j \in DOMAIN wire' /\ wire'[n + j] = ms[j]
    BY <1>1
  <2> QED BY <1>3, <2>1 DEF Silent, Marks
<1>4. ASSUME \A j \in DOMAIN ms : ~Marks(ms[j], p), NEW k \in DOMAIN wire \union {0}, Silent(k, p)
      PROVE  Silent(k, p)'
  BY <1>1, <1>4 DEF Silent, Marks
<1> QED BY <1>2, <1>3, <1>4

\* Where a step leaves no load, nothing later than its messages says there is one.
LEMMA Settles ==
  ASSUME NEW p \in Pages, NEW ms, Fares(p, ms), views'[p].load = "none", Exists(p)',
         \A j \in DOMAIN ms : ~Marks(ms[j], p)
  PROVE  views[p].load = "none"
<1>1. CASE Rests(p, ms) \/ Arises(p, ms)
  BY <1>1 DEF Rests, Arises
<1>2. CASE Dies(p, ms)
  BY <1>2 DEF Dies, Says, Reports, Marks
<1>3. CASE Progresses(p, ms)
  <2>1. PICK kind \in {"finished", "failed"} : ms = <<Event(kind, p)>>
    BY <1>3 DEF Progresses
  <2> PICK m : m = Event(kind, p)
    OBVIOUS
  <2>2. m \in Message /\ Marks(m, p)
    BY EventIsMessage DEF LoadEvent, Marks
  <2>3. DOMAIN ms = {1} /\ ms[1] = m
    BY <2>1, <2>2, One
  <2> QED BY <2>2, <2>3
<1>4. CASE Leaves(p, ms) \/ Requests(p, ms)
  BY <1>4 DEF Leaves, Requests, Exists
<1> QED BY <1>1, <1>2, <1>3, <1>4 DEF Fares

LEMMA LoadsKept ==
  ASSUME ChannelInv, PagesInv, FollowInv, NEW ms, Works(ms), UNCHANGED host, NEW p \in Pages,
         Known(p), Exists(p) => Loads(p), Exists(p)'
  PROVE  Loads(p)'
<1> PICK n : n = Len(wire)
  OBVIOUS
<1>1. /\ n \in Nat
      /\ \A k \in DOMAIN wire : k \in Nat /\ k <= n /\ k \in DOMAIN wire' /\ wire'[k] = wire[k]
      /\ \A j \in DOMAIN ms : /\ j \in Nat /\ j >= 1 /\ n + j \in DOMAIN wire'
                              /\ wire'[n + j] = ms[j]
      /\ \A k \in DOMAIN wire' :
           k \in DOMAIN wire \/ \E j \in DOMAIN ms : k = n + j /\ wire'[k] = ms[j]
  BY ZenonT(40), WireWorked
<1>2. /\ \A k \in DOMAIN wire \union {0} : Silent(k, p)' => Silent(k, p)
      /\ \A k \in DOMAIN wire \union {0} : Silent(k, p)' => \A j \in DOMAIN ms : ~Marks(ms[j], p)
      /\ (\A j \in DOMAIN ms : ~Marks(ms[j], p)) =>
           \A k \in DOMAIN wire \union {0} : Silent(k, p) => Silent(k, p)'
  BY SilentWorked
<1>3. UNCHANGED <<pages, call, timeouts>> /\ Fares(p, ms) /\ Truthful(ms) /\ Serves /\ ms \in Seq(Message)
  BY DEF Works, host
<1>4. \A j \in DOMAIN ms : \A kind \in {"started", "committed", "finished", "failed"} :
        ms = <<Event(kind, p)>> => DOMAIN ms = {1} /\ ms[1].kind = kind /\ ms[1].page = p
  BY EventIsMessage, One DEF LoadEvent
<1>5. CASE ~Exists(p)
  BY <1>3, <1>5 DEF PagesInv, Seen, Fares, Rests, Arises, Leaves, Requests, Progresses, Dies, Exists
<1>6. CASE Loads(p) /\ Exists(p)
  <2>0. /\ \A k \in DOMAIN wire :
             Silent(k, p) /\ (Starts(wire[k], p) \/ Observes(wire[k], p)) => views[p].load # "none"
        /\ Silent(0, p) /\ pages[p].load = "loading" => views[p].load # "none" \/ Due(p)
        /\ timeouts = 0 /\ views[p].load \in {"started", "committed"} =>
             \/ Silent(0, p) /\ pages[p].load = "loading"
             \/ \E k \in DOMAIN wire : Starts(wire[k], p) /\ Silent(k, p)
    BY <1>6 DEF Loads
  <2>1. ASSUME NEW k \in DOMAIN wire', Silent(k, p)',
               Starts(wire'[k], p) \/ Observes(wire'[k], p)
        PROVE  views'[p].load # "none"
    <3>1. CASE k \in DOMAIN wire
      <4>1. Silent(k, p) /\ \A j \in DOMAIN ms : ~Marks(ms[j], p)
        BY <1>2, <2>1, <3>1
      <4>2. Starts(wire[k], p) \/ Observes(wire[k], p)
        BY <1>1, <1>3, <2>1, <3>1 DEF Observes, Good, Awaited
      <4>3. views[p].load # "none"
        BY <2>0, <3>1, <4>1, <4>2
      <4> QED BY <1>3, <4>1, <4>3, Settles
    <3>2. CASE \E j \in DOMAIN ms : k = n + j /\ wire'[k] = ms[j]
      <4>1. PICK j \in DOMAIN ms : k = n + j /\ wire'[k] = ms[j]
        BY <3>2
      <4>2. CASE Observes(wire'[k], p)
        BY <1>3, <4>1, <4>2 DEF Observes, Good, Awaited, Truthful
      <4>3. CASE Starts(wire'[k], p)
        <5>1. Reports(ms[j], p) /\ ms[j].kind = "started"
          BY <4>1, <4>3 DEF Reports, Starts, LoadEvent
        <5>2. Progresses(p, ms)
          BY <1>3, <5>1 DEF Fares, Rests, Arises, Leaves, Requests, Dies, Says
        <5>3. ms = <<Event("started", p)>>
          BY <1>4, <5>1, <5>2 DEF Progresses
        <5>4. \A kind \in {"finished", "failed"} : ms # <<Event(kind, p)>>
          BY <1>4, <5>1
        <5> QED BY <5>2, <5>4 DEF Progresses
      <4> QED BY <2>1, <4>2, <4>3
    <3> QED BY <1>1, <3>1, <3>2
  <2>2. ASSUME Silent(0, p)', pages[p].load = "loading"
        PROVE  views'[p].load # "none" \/ Due(p)'
    <3>1. Silent(0, p) /\ \A j \in DOMAIN ms : ~Marks(ms[j], p)
      BY <1>2, <2>2
    <3>2. views[p].load # "none" \/ Due(p)
      BY <2>0, <2>2, <3>1
    <3>3. Due(p) => Due(p)' \/ views'[p].load # "none"
      BY <1>3 DEF Serves
    <3> QED BY <1>3, <3>1, <3>2, <3>3, Settles
  <2>3. ASSUME timeouts = 0, views'[p].load \in {"started", "committed"}
        PROVE  \/ Silent(0, p)' /\ pages[p].load = "loading"
               \/ \E k \in DOMAIN wire' : Starts(wire'[k], p) /\ Silent(k, p)'
    <3>1. CASE /\ \A j \in DOMAIN ms : ~Marks(ms[j], p)
               /\ views[p].load \in {"started", "committed"}
      <4>1. \A k \in DOMAIN wire \union {0} : Silent(k, p) => Silent(k, p)'
        BY <1>2, <3>1
      <4>2. \/ Silent(0, p) /\ pages[p].load = "loading"
            \/ \E k \in DOMAIN wire : Starts(wire[k], p) /\ Silent(k, p)
        BY <2>0, <2>3, <3>1
      <4> QED BY <1>1, <4>1, <4>2
    <3>2. CASE ms = <<Event("started", p)>>
      <4> PICK m : m = Event("started", p)
        OBVIOUS
      <4>1. m \in Message /\ m.kind = "started" /\ m.page = p
        BY EventIsMessage DEF LoadEvent
      <4>2. DOMAIN ms = {1} /\ ms[1] = m
        BY <3>2, <4>1, One
      <4>3. n + 1 \in DOMAIN wire' /\ wire'[n + 1] = m
        BY <1>1, <4>2
      <4>4. Silent(n + 1, p)'
        BY <1>1, <4>2 DEF Silent
      <4> QED BY <4>1, <4>3, <4>4 DEF Starts
    <3>3. CASE Rests(p, ms) \/ Arises(p, ms)
      BY <2>3, <3>1, <3>3 DEF Rests, Arises, Says, Marks, Reports, LoadEvent
    <3>4. CASE ms = <<Event("committed", p)>> /\ views[p].load = "started"
      BY <1>4, <3>1, <3>4 DEF Marks
    <3> QED BY <1>3, <2>3, <3>2, <3>3, <3>4 DEF Fares, Leaves, Requests, Dies, Progresses
  <2>4. \A k \in DOMAIN wire' : Silent(k, p)' /\ (Starts(wire[k], p)' \/ Observes(wire[k], p)') =>
          views'[p].load # "none"
    BY <1>3, <2>1 DEF Starts, Observes, Good, Awaited
  <2> QED BY <1>3, <2>2, <2>3, <2>4 DEF Loads, Starts
<1> QED BY <1>5, <1>6

\* What the worker's steps do to pages keeps the fifth invariant.
LEMMA WorksKeepFollow ==
  ASSUME ChannelInv, PagesInv, FollowInv, NEW ms, Works(ms), UNCHANGED host
  PROVE  FollowInv'
<1>1. \A p \in Pages : Unborn(p)'
  BY UnbornKept
<1>2. Births' /\ Refusals'
  BY BirthsKept, RefusalsKept
<1>3. ASSUME NEW p \in Pages, Known(p)' PROVE Followed(p)'
  <2>1. Known(p)
    BY <1>3 DEF Known, host
  <2>2. Followed(p)
    BY <2>1 DEF FollowInv
  <2>3. Counted(p)' /\ Mourned(p)'
    BY <2>2, CountedKept, MournedKept DEF Followed
  <2>4. Exists(p)' => Loads(p)'
    BY <2>1, <2>2, LoadsKept DEF Followed
  <2> QED BY <2>3, <2>4 DEF Followed
<1> QED BY <1>1, <1>2, <1>3 DEF FollowInv

LEMMA OthersRest ==
  ASSUME NEW p \in Pages, OnlyPage(p), NEW ms,
         \A j \in DOMAIN ms : ms[j].kind \in {"reply", "dialog"} \/ ms[j].page = p,
         Fares(p, ms)
  PROVE  \A q \in Pages : Fares(q, ms)
<1>1. ASSUME NEW q \in Pages \ {p} PROVE Rests(q, ms)
  BY <1>1 DEF OnlyPage, Rests, SameDocument, Says, Reports, LoadEvent
<1> QED BY <1>1 DEF Fares

LEMMA AllRest ==
  ASSUME UNCHANGED views, NEW ms,
         \A j \in DOMAIN ms : ms[j].kind \in {"reply", "dialog"}
  PROVE  \A q \in Pages : Fares(q, ms)
BY DEF Fares, Rests, SameDocument, Says, Reports, LoadEvent

\* A navigation that is served was due, and what else was due is still there.
LEMMA ServesHead ==
  ASSUME ChannelInv, NEW r \in Request, r = Head(inbox), inbox # <<>>, inbox' = Tail(inbox),
         r.op = "page.navigate" => ~Exists(r.page)' \/ views'[r.page].load # "none"
  PROVE  Serves
<1>0. TypeOK
  BY Unpacked
<1>1. /\ r = inbox[1] /\ inbox \in Seq(Request)
      /\ \A k \in DOMAIN inbox' :
           k \in Nat /\ k >= 1 /\ k + 1 \in DOMAIN inbox /\ inbox'[k] = inbox[k + 1]
      /\ \A k \in DOMAIN inbox : k # 1 => k - 1 \in DOMAIN inbox' /\ (k - 1) + 1 = k
  BY <1>0, InboxTaken, Types, Rest
<1> SUFFICES ASSUME NEW p \in Pages, Due(p)
             PROVE  Due(p)' \/ views'[p].load # "none" \/ ~Exists(p)'
  BY DEF Serves
<1>2. PICK i \in DOMAIN inbox :
        inbox[i].fresh /\ inbox[i].op = "page.navigate" /\ inbox[i].page = p
  BY DEF Due
<1>3. CASE i = 1
  BY <1>1, <1>2, <1>3 DEF Exists
<1>4. CASE i # 1
  <2> PICK j : j = i - 1
    OBVIOUS
  <2>1. j \in DOMAIN inbox' /\ j + 1 = i
    BY <1>1, <1>4
  <2>2. inbox'[j] = inbox[i]
    BY <1>1, <2>1
  <2> QED BY <1>2, <2>1, <2>2 DEF Due
<1> QED BY <1>3, <1>4

LEMMA RunsStay ==
  ASSUME RequestsStay
  PROVE  Runs
BY DEF RequestsStay, Runs

\* The replies to a request are true of it.
TrueOf(r, ms) ==
  /\ \A j \in DOMAIN ms : ms[j].kind = "reply" =>
       /\ ms[j].fresh = r.fresh
       /\ r.op = "page.observe" /\ ms[j].value = 1 => views'[r.page].load # "none"
       /\ r.op = "page.navigate" /\ ~ms[j].ok => ~Exists(r.page)'
       /\ r.op \in {"session.open", "page.new"} /\ ms[j].ok =>
            \A p \in Pages : ms[j].value = p => Arises(p, ms)
  /\ r.op = "page.navigate" => ~Exists(r.page)' \/ views'[r.page].load # "none"

\* A request that is answered: the reply is true of it, so of the call that sent it.
LEMMA AnswerWorks ==
  ASSUME ChannelInv, NEW r \in Request, r = Head(inbox), inbox # <<>>, inbox' = Tail(inbox),
         NEW ms \in Seq(Message), Adds(ms), RequestsStay, \A p \in Pages : Fares(p, ms),
         TrueOf(r, ms)
  PROVE  \E ns : Works(ns)
<1>1. r.fresh => Sought(r)
  BY HeadIs
<1>2. /\ r.fresh /\ call.op = "observe" => r.op = "page.observe" /\ r.page = call.page
      /\ r.fresh /\ call.op \in {"navigate", "restore"} =>
           r.op = "page.navigate" /\ r.page = call.page
      /\ r.fresh /\ Opens => r.op \in {"session.open", "page.new"}
  BY <1>1 DEF Sought, Opens
<1>3. ASSUME NEW j \in DOMAIN ms, Awaited(ms[j])
      PROVE  /\ ms[j].ok /\ call.op = "observe" /\ ms[j].value = 1 =>
                  views'[call.page].load # "none"
             /\ \A p \in Pages :
                  /\ ~ms[j].ok /\ call.op \in {"navigate", "restore"} /\ call.page = p => ~Exists(p)'
                  /\ ms[j].ok /\ Opens /\ ms[j].value = p => Arises(p, ms)
  <2>1. r.fresh
    BY <1>3 DEF Awaited, TrueOf
  <2>2. CASE call.op = "observe"
    BY <1>2, <1>3, <2>1, <2>2 DEF TrueOf, Awaited, Opens
  <2>3. CASE call.op \in {"navigate", "restore"}
    <3>1. r.op = "page.navigate" /\ r.page = call.page /\ ~Opens
      BY <1>2, <2>1, <2>3 DEF Opens
    <3>2. ~ms[j].ok => ~Exists(r.page)'
      BY <1>3, <3>1 DEF TrueOf, Awaited
    <3>3. \A p \in Pages : ~ms[j].ok /\ call.page = p => ~Exists(p)'
      BY <3>1, <3>2 DEF Exists
    <3> QED BY <2>3, <3>1, <3>3
  <2>4. CASE Opens
    BY <1>2, <1>3, <2>1, <2>4 DEF TrueOf, Awaited, Opens
  <2> QED BY <2>2, <2>3, <2>4
<1>4. Truthful(ms)
  BY <1>3 DEF Truthful
<1>5. Serves /\ Runs
  BY ServesHead, RunsStay DEF TrueOf
<1> QED BY <1>4, <1>5 DEF Works

\* One that is answered by its reply alone, and changes no page.
LEMMA ReplyWorks ==
  ASSUME ChannelInv, NEW r \in Request, r = Head(inbox), inbox # <<>>, inbox' = Tail(inbox),
         UNCHANGED views, RequestsStay,
         NEW ok \in BOOLEAN, NEW v \in Nat, Adds(<<Reply(r, ok, v)>>),
         r.op = "page.observe" /\ v = 1 => views[r.page].load # "none",
         r.op = "page.navigate" => ~ok /\ ~Exists(r.page),
         r.op \in {"session.open", "page.new"} => ~ok
  PROVE  \E ns : Works(ns)
<1> PICK m : m = Reply(r, ok, v)
  OBVIOUS
<1>2. m \in Message /\ m.kind = "reply" /\ m.ok = ok /\ m.value = v /\ m.fresh = r.fresh
  BY ReplyIsMessage
<1> PICK ms : ms = <<m>>
  OBVIOUS
<1>3. ms \in Seq(Message) /\ DOMAIN ms = {1} /\ ms[1] = m /\ Adds(ms)
  BY <1>2, One
<1>4. \A p \in Pages : Fares(p, ms)
  BY <1>2, <1>3, AllRest
<1>5. r.op = "page.navigate" => ~ok /\ ~Exists(r.page)'
  BY DEF Exists
<1>6. \A j \in DOMAIN ms : ms[j] = m
  BY <1>3
<1>7. TrueOf(r, ms)
  BY <1>2, <1>5, <1>6 DEF TrueOf
<1> QED BY <1>3, <1>4, <1>7, AnswerWorks

LEMMA OpensWorks ==
  ASSUME ChannelInv, NEW r \in Request, r = Head(inbox), inbox # <<>>, inbox' = Tail(inbox),
         RequestsStay,
         r.op \in {"session.open", "page.new"},
         NEW p \in Pages, views[p].state = "none",
         views' = [views EXCEPT ![p].state = "live"],
         Adds(<<Reply(r, TRUE, p)>>)
  PROVE  \E ns : Works(ns)
<1> PICK m : m = Reply(r, TRUE, p)
  OBVIOUS
<1>1. TypeOK /\ views \in [Pages -> View] /\ p \in Nat
  BY Unpacked, PagesAre
<1>2. \A ok \in BOOLEAN, v \in Nat :
        LET x == Reply(r, ok, v)
        IN  /\ x \in Message /\ x.kind = "reply" /\ x.fresh = r.fresh
            /\ x.ok = ok /\ x.value = v
  BY ReplyIsMessage
<1>3. TRUE \in BOOLEAN
  OBVIOUS
<1>4. m \in Message /\ m.kind = "reply" /\ m.fresh = r.fresh /\ m.value = p
  BY <1>1, <1>2, <1>3
<1> PICK ms : ms = <<m>>
  OBVIOUS
<1>5. ms \in Seq(Message) /\ DOMAIN ms = {1} /\ ms[1] = m /\ Adds(ms)
  BY <1>4, One
<1>6. /\ views'[p].state = "live" /\ views'[p].load = views[p].load
      /\ views'[p].document = views[p].document
      /\ OnlyPage(p)
  BY <1>1 DEF View, OnlyPage
<1>7. \A j \in DOMAIN ms : ms[j] = m
  BY <1>5
<1>8. Arises(p, ms)
  BY <1>4, <1>6, <1>7 DEF Arises, SameDocument, Says, Reports, LoadEvent
<1>9. \A q \in Pages : Fares(q, ms)
  <2>1. Fares(p, ms)
    BY <1>8 DEF Fares
  <2>2. \A j \in DOMAIN ms : ms[j].kind \in {"reply", "dialog"} \/ ms[j].page = p
    BY <1>4, <1>7
  <2>3. OnlyPage(p)
    BY <1>6
  <2> QED BY <2>1, <2>2, <2>3, OthersRest
<1>10. TrueOf(r, ms)
  <2>1. \A j \in DOMAIN ms : ms[j].fresh = r.fresh /\ ms[j].value = p
    BY <1>4, <1>7
  <2>2. r.op \notin {"page.observe", "page.navigate"}
    OBVIOUS
  <2>3. \A j \in DOMAIN ms : \A q \in Pages : ms[j].value = q => Arises(q, ms)
    BY <1>8, <2>1
  <2> QED BY ZenonT(30), <2>1, <2>2, <2>3 DEF TrueOf
<1> QED BY <1>5, <1>9, <1>10, AnswerWorks

LEMMA OneMessage ==
  ASSUME NEW m \in Message
  PROVE  /\ <<m>> \in Seq(Message) /\ \A j \in DOMAIN <<m>> : <<m>>[j] = m
         /\ 1 \in DOMAIN <<m>>
<1>1. <<m>> \in Seq(Message) /\ DOMAIN <<m>> = {1} /\ <<m>>[1] = m
  BY One
<1> QED BY <1>1

\* An answer and an event are told apart by their kinds.
LEMMA AnswerAndEvent ==
  ASSUME NEW m \in Message, m.kind = "reply", NEW e \in Message, e.kind # "reply",
         NEW ms \in With(m, e)
  PROVE  /\ ms \in Seq(Message)
         /\ \A j \in DOMAIN ms : ms[j].kind = "reply" => ms[j] = m
         /\ \A j \in DOMAIN ms : ms[j].kind # "reply" => ms[j] = e
         /\ ms \in {<<e, m>>, <<m, e>>} => \E j \in DOMAIN ms : ms[j] = e
<1>1. /\ ms \in Seq(Message)
      /\ \A j \in DOMAIN ms : ms[j] = m \/ ms[j] = e
  BY Answers
<1>2. /\ \A j \in DOMAIN ms : ms[j].kind = "reply" => ms[j] = m
      /\ \A j \in DOMAIN ms : ms[j].kind # "reply" => ms[j] = e
  BY <1>1
<1>3. ASSUME ms = <<e, m>> PROVE \E j \in DOMAIN ms : ms[j] = e
  <2>1. DOMAIN ms = {1, 2} /\ ms[1] = e
    BY <1>3, Two
  <2>2. 1 \in DOMAIN ms
    BY <2>1
  <2> QED BY <2>1, <2>2
<1>4. ASSUME ms = <<m, e>> PROVE \E j \in DOMAIN ms : ms[j] = e
  <2>1. DOMAIN ms = {1, 2} /\ ms[2] = e
    BY <1>4, Two
  <2>2. 2 \in DOMAIN ms
    BY <2>1
  <2> QED BY <2>1, <2>2
<1> QED BY <1>1, <1>2, <1>3, <1>4

LEMMA CloseWorks ==
  ASSUME ChannelInv, OpPageClose
  PROVE  \E ns : Works(ns)
<1> PICK r : r = Head(inbox)
  OBVIOUS
<1> PICK p : p = r.page
  OBVIOUS
<1> PICK m : m = Reply(r, TRUE, 0)
  OBVIOUS
<1>1. /\ inbox # <<>> /\ inbox' = Tail(inbox) /\ r.op = "page.close"
      /\ p \in Pages /\ Exists(p)
      /\ views' = Gone(p, "closed") /\ evaluations' = Failed(p) /\ Adds(<<m>>)
  BY OpPageCloseIs
<1>2. r \in Request /\ TypeOK
  BY <1>1, HeadIs, Unpacked
<1>3. m \in Message /\ m.kind = "reply" /\ m.fresh = r.fresh
  BY <1>2, AcceptIs
<1> PICK ms : ms = <<m>>
  OBVIOUS
<1>4. ms \in Seq(Message) /\ Adds(ms) /\ \A j \in DOMAIN ms : ms[j] = m
  BY <1>1, <1>3, OneMessage
<1>5. /\ OnlyPage(p) /\ views'[p].state = "closed" /\ views'[p].load = "none"
      /\ views'[p].document = views[p].document
  BY <1>1, <1>2, GoneIs
<1>6. Leaves(p, ms)
  BY <1>1, <1>3, <1>4, <1>5 DEF Leaves, SameDocument, Says, Reports, LoadEvent
<1>7. Fares(p, ms) /\ \A j \in DOMAIN ms : ms[j].kind \in {"reply", "dialog"} \/ ms[j].page = p
  BY <1>3, <1>4, <1>6 DEF Fares
<1>8. \A q \in Pages : Fares(q, ms)
  BY <1>1, <1>5, <1>7, OthersRest
<1>9. RequestsStay
  BY <1>1, <1>2, FailedIs, StayIs
<1>10. \A j \in DOMAIN ms : ms[j].kind = "reply" => ms[j].fresh = r.fresh
  BY <1>3, <1>4
<1>11. r.op \notin {"page.observe", "page.navigate", "session.open", "page.new"}
  BY <1>1
<1>12. TrueOf(r, ms)
  BY <1>10, <1>11 DEF TrueOf
<1> QED BY <1>1, <1>2, <1>4, <1>8, <1>9, <1>12, AnswerWorks

LEMMA TerminateWorks ==
  ASSUME ChannelInv, OpPageTerminate
  PROVE  \E ns : Works(ns)
<1>1. PICK r : r = Head(inbox)
  OBVIOUS
<1>2. PICK p : p = r.page
  OBVIOUS
<1>3. PICK m : m = Reply(r, TRUE, 0)
  OBVIOUS
<1>4. PICK e : e = Event("terminated", p)
  OBVIOUS
<1>5. TypeOK
  BY Unpacked
<1>6. /\ inbox # <<>> /\ inbox' = Tail(inbox) /\ r \in Request /\ r.op = "page.terminate"
      /\ Exists(p) /\ p \in Pages
      /\ \/ /\ views[p].state = "live" /\ views' = Gone(p, "dead") /\ evaluations' = Failed(p)
            /\ Adds(<<e, m>>) \/ Adds(<<m, e>>)
         \/ Adds(<<m>>) /\ UNCHANGED <<views, evaluations>>
  BY <1>5, <1>1, <1>2, <1>3, <1>4, TerminateIs
<1>7. m \in Message /\ m.kind = "reply" /\ m.fresh = r.fresh
  BY <1>6, <1>3, AcceptIs
<1>8. e \in Message /\ e.kind = "terminated" /\ e.page = p
  BY <1>6, <1>4, EventIsMessage
<1>9. r.op \notin {"page.observe", "page.navigate", "session.open", "page.new"}
  BY <1>6
<1>10. CASE Adds(<<m>>) /\ UNCHANGED <<views, evaluations>>
  <2> PICK ms : ms = <<m>>
    OBVIOUS
  <2>1. ms \in Seq(Message) /\ Adds(ms) /\ \A j \in DOMAIN ms : ms[j] = m
    BY <1>7, <1>10, OneMessage
  <2>2. \A q \in Pages : Fares(q, ms)
    BY <1>7, <1>10, <2>1, AllRest
  <2>3. RequestsStay
    BY <1>5, <1>10, StayIs
  <2>4. \A j \in DOMAIN ms : ms[j].kind = "reply" => ms[j].fresh = r.fresh
    BY <1>7, <2>1
  <2>5. TrueOf(r, ms)
    BY <1>9, <2>4 DEF TrueOf
  <2> QED BY <1>6, <2>1, <2>2, <2>3, <2>5, <1>1, AnswerWorks
<1>11. CASE /\ views[p].state = "live" /\ views' = Gone(p, "dead") /\ evaluations' = Failed(p)
            /\ Adds(<<e, m>>) \/ Adds(<<m, e>>)
  <2>1. PICK ms \in {<<e, m>>, <<m, e>>} : Adds(ms)
    BY <1>11
  <2>2. /\ ms \in Seq(Message)
        /\ \A j \in DOMAIN ms : ms[j].kind = "reply" => ms[j] = m
        /\ \A j \in DOMAIN ms : ms[j].kind # "reply" => ms[j] = e
        /\ \E j \in DOMAIN ms : ms[j] = e
    <3>1. m \in Message /\ m.kind = "reply" /\ e \in Message /\ e.kind # "reply"
      BY <1>7, <1>8
    <3>2. ms \in With(m, e)
      BY DEF With
    <3>3. ms \in Seq(Message)
      BY <3>1, <3>2, AnswerAndEvent
    <3>4. \A j \in DOMAIN ms : ms[j].kind = "reply" => ms[j] = m
      BY <3>1, <3>2, AnswerAndEvent
    <3>5. \A j \in DOMAIN ms : ms[j].kind # "reply" => ms[j] = e
      BY <3>1, <3>2, AnswerAndEvent
    <3>6. ms \in {<<e, m>>, <<m, e>>} => \E j \in DOMAIN ms : ms[j] = e
      BY <3>1, <3>2, AnswerAndEvent
    <3> QED BY <3>3, <3>4, <3>5, <3>6
  <2>3. /\ OnlyPage(p) /\ views'[p].state = "dead" /\ views'[p].load = "none"
        /\ views'[p].document = views[p].document
    BY <1>5, <1>6, <1>11, GoneIs
  <2>4. Dies(p, ms)
    BY <1>7, <1>8, <1>11, <2>2, <2>3 DEF Dies, SameDocument, Says, Reports, LoadEvent
  <2>5. Fares(p, ms) /\ \A j \in DOMAIN ms : ms[j].kind \in {"reply", "dialog"} \/ ms[j].page = p
    BY <1>7, <1>8, <2>2, <2>4 DEF Fares
  <2>6. \A q \in Pages : Fares(q, ms)
    BY <1>6, <2>3, <2>5, OthersRest
  <2>7. RequestsStay
    BY <1>5, <1>6, <1>11, FailedIs, StayIs
  <2>8. \A j \in DOMAIN ms : ms[j].kind = "reply" => ms[j].fresh = r.fresh
    BY <1>7, <1>8, <2>2
  <2>9. TrueOf(r, ms)
    BY <1>9, <2>8 DEF TrueOf
  <2> QED BY <1>6, <2>1, <2>2, <2>6, <2>7, <2>9, <1>1, AnswerWorks
<1> QED BY <1>6, <1>10, <1>11

LEMMA NavigateWorks ==
  ASSUME ChannelInv, OpPageNavigate
  PROVE  \E ns : Works(ns)
<1>1. PICK r : r = Head(inbox)
  OBVIOUS
<1>2. PICK p : p = r.page
  OBVIOUS
<1>3. PICK m : m = Reply(r, TRUE, 0)
  OBVIOUS
<1>4. PICK e : e = Event("failed", p)
  OBVIOUS
<1>5. TypeOK
  BY Unpacked
<1>6. /\ inbox # <<>> /\ inbox' = Tail(inbox) /\ r \in Request /\ r.op = "page.navigate"
      /\ Exists(p) /\ p \in Pages /\ views' = Loading(p, TRUE)
      /\ Adds(<<m>>) \/ Adds(<<e, m>>)
  BY <1>5, <1>1, <1>2, <1>3, <1>4, NavigateIs
<1>7. m \in Message /\ m.kind = "reply" /\ m.fresh = r.fresh /\ m.ok
  BY <1>6, <1>3, AcceptIs
<1>8. e \in Message /\ e.kind = "failed" /\ e.page = p
  BY <1>6, <1>4, EventIsMessage DEF LoadEvent
<1>9. PICK ms \in With(m, e) : Adds(ms)
  BY <1>6 DEF With
<1>10. /\ ms \in Seq(Message)
       /\ \A j \in DOMAIN ms : ms[j].kind = "reply" => ms[j] = m
       /\ \A j \in DOMAIN ms : ms[j].kind # "reply" => ms[j] = e
  <2>1. m \in Message /\ m.kind = "reply" /\ e \in Message /\ e.kind # "reply"
    BY <1>7, <1>8
  <2>2. ms \in With(m, e)
    BY <1>9
  <2>3. ms \in Seq(Message)
    BY <2>1, <2>2, AnswerAndEvent
  <2>4. \A j \in DOMAIN ms : ms[j].kind = "reply" => ms[j] = m
    BY <2>1, <2>2, AnswerAndEvent
  <2>5. \A j \in DOMAIN ms : ms[j].kind # "reply" => ms[j] = e
    BY <2>1, <2>2, AnswerAndEvent
  <2> QED BY <2>3, <2>4, <2>5
<1>11. TRUE \in BOOLEAN
  OBVIOUS
<1>12. /\ OnlyPage(p) /\ views'[p].state = "live" /\ views'[p].load = "requested"
       /\ views'[p].document = views[p].document
  BY <1>5, <1>6, <1>11, LoadingIs
<1>13. Requests(p, ms)
  BY <1>6, <1>7, <1>8, <1>10, <1>12 DEF Requests, SameDocument, Says, Reports, LoadEvent
<1>14. Fares(p, ms) /\ \A j \in DOMAIN ms : ms[j].kind \in {"reply", "dialog"} \/ ms[j].page = p
  BY <1>7, <1>8, <1>10, <1>13 DEF Fares
<1>15. \A q \in Pages : Fares(q, ms)
  BY <1>6, <1>12, <1>14, OthersRest
<1>16. RequestsStay
  <2>1. UNCHANGED evaluations
    BY <1>5, NavigateIs
  <2> QED BY <1>5, <2>1, StayIs
<1>17. \A j \in DOMAIN ms : ms[j].kind = "reply" => ms[j].fresh = r.fresh /\ ms[j].ok
  BY <1>7, <1>8, <1>10
<1>18. TrueOf(r, ms)
  BY <1>2, <1>6, <1>12, <1>17 DEF TrueOf
<1> QED BY <1>6, <1>9, <1>10, <1>15, <1>16, <1>18, <1>1, AnswerWorks

LEMMA EvaluateWorks ==
  ASSUME ChannelInv, OpPageEvaluate
  PROVE  \E ns : Works(ns)
<1> PICK r : r = Head(inbox)
  OBVIOUS
<1>1. /\ inbox # <<>> /\ inbox' = Tail(inbox) /\ r.op \in {"targets", "click"} /\ r \in Request
      /\ UNCHANGED <<wire, views>> /\ TypeOK
  BY OpPageEvaluateIs, Unpacked
<1>2. Exists(r.page)
  BY DEF OpPageEvaluate, HandlesPage
<1>3. PICK e \in Evaluation : evaluations' = Append(evaluations, e) /\ e.request = r
  BY OpPageEvaluateIs
<1> PICK ms : ms = <<>>
  OBVIOUS
<1>4. ms \in Seq(Message) /\ DOMAIN ms = {} /\ Adds(ms)
  BY <1>1, NothingAdded
<1>5. \A q \in Pages : Fares(q, ms)
  BY <1>1, <1>4, AllRest
<1>6. Serves
  BY <1>1, ServesHead
<1>7. Truthful(ms)
  BY <1>4 DEF Truthful
<1>8. Runs
  <2> PICK n : n = Len(evaluations) + 1
    OBVIOUS
  <2>1. /\ DOMAIN evaluations' = DOMAIN evaluations \union {n} /\ evaluations'[n] = e
        /\ \A i \in DOMAIN evaluations : evaluations'[i] = evaluations[i]
    BY <1>1, <1>3, Types, Appended
  <2> QED BY <1>1, <1>2, <1>3, <2>1 DEF Runs
<1>9. Works(ms)
  BY <1>4, <1>5, <1>6, <1>7, <1>8 DEF Works
<1> QED BY <1>9

\* Every handler of the worker works.
LEMMA HandlerWorks ==
  ASSUME ChannelInv, Handler
  PROVE  \E ns : Works(ns)
<1>0. TypeOK
  BY Unpacked
<1>1. PICK r : r = Head(inbox)
  OBVIOUS
<1>2. inbox # <<>> => r \in Request
  BY <1>1, HeadIs
<1>3. UNCHANGED evaluations => RequestsStay
  BY <1>0, StayIs
<1>4. TRUE \in BOOLEAN /\ FALSE \in BOOLEAN /\ 0 \in Nat /\ 0 # 1
  OBVIOUS
<1>5. CASE PageNotFound
  <2>1. /\ inbox # <<>> /\ inbox' = Tail(inbox) /\ Adds(<<Reply(r, FALSE, 0)>>)
        /\ UNCHANGED views /\ UNCHANGED evaluations
        /\ r.op \in PageOps /\ ~Exists(r.page)
    BY <1>1, <1>5, Emits DEF PageNotFound, Handles
  <2>2. r.op \notin {"session.open", "page.new"}
    BY <2>1 DEF PageOps
  <2>3. RequestsStay
    BY <1>3, <2>1
  <2> QED BY <1>1, <1>2, <1>4, <2>1, <2>2, <2>3, ReplyWorks
<1>6. CASE OpSessionOpen
  <2>1. /\ inbox # <<>> /\ inbox' = Tail(inbox) /\ r.op = "session.open"
        /\ \/ Adds(<<Reply(r, FALSE, 0)>>) /\ UNCHANGED views
           \/ /\ Used = {} /\ views' = [views EXCEPT ![1].state = "live"]
              /\ Adds(<<Reply(r, TRUE, 1)>>)
        /\ UNCHANGED evaluations
    BY <1>1, <1>6, OpSessionOpenIs
  <2>2. RequestsStay
    BY <1>3, <2>1
  <2>3. CASE Adds(<<Reply(r, FALSE, 0)>>) /\ UNCHANGED views
    BY <1>1, <1>2, <1>4, <2>1, <2>2, <2>3, ReplyWorks
  <2>4. CASE /\ Used = {} /\ views' = [views EXCEPT ![1].state = "live"]
             /\ Adds(<<Reply(r, TRUE, 1)>>)
    <3>1. 1 \in Pages /\ views[1].state = "none"
      BY <2>4, PagesAre DEF Used
    <3> QED BY <1>1, <1>2, <2>1, <2>2, <2>4, <3>1, OpensWorks
  <2> QED BY <2>1, <2>3, <2>4
<1>7. CASE OpPageNew
  <2>1. PICK n \in 0..MaxPages :
          /\ Used = 1..n /\ n + 1 \in Pages
          /\ inbox # <<>> /\ inbox' = Tail(inbox) /\ r.op = "page.new"
          /\ views' = [views EXCEPT ![n + 1].state = "live"]
          /\ Adds(<<Reply(r, TRUE, n + 1)>>)
          /\ UNCHANGED evaluations
    BY <1>1, <1>7, OpPageNewIs
  <2> PICK p : p = n + 1
    OBVIOUS
  <2>2. p \notin Used
    BY <2>1
  <2>3. p \in Pages /\ views[p].state = "none"
    BY <2>1, <2>2 DEF Used
  <2>4. RequestsStay
    BY <1>3, <2>1
  <2> QED BY <1>1, <1>2, <2>1, <2>3, <2>4, OpensWorks
<1>8. CASE OpPageObserve
  <2>1. PICK v : v = IF views[Head(inbox).page].load # "none" THEN 1 ELSE 0
    OBVIOUS
  <2>2. /\ inbox # <<>> /\ inbox' = Tail(inbox) /\ r.op = "page.observe"
        /\ UNCHANGED views /\ UNCHANGED evaluations
        /\ Adds(<<Reply(r, TRUE, v)>>)
    BY <1>1, <1>8, <2>1, Emits DEF OpPageObserve, HandlesPage, Handles
  <2>3. v \in Nat /\ (v = 1 => views[r.page].load # "none")
    BY <1>1, <2>1
  <2>4. RequestsStay
    BY <1>3, <2>2
  <2>5. r.op \notin {"page.navigate", "session.open", "page.new"}
    BY <2>2
  <2> QED BY <1>1, <1>2, <1>4, <2>2, <2>3, <2>4, <2>5, ReplyWorks
<1>9. CASE OpPageDecide
  <2>1. PICK ok \in BOOLEAN :
          /\ inbox # <<>> /\ inbox' = Tail(inbox) /\ r.op = "page.decide"
          /\ UNCHANGED views /\ UNCHANGED evaluations
          /\ Adds(<<Reply(r, ok, 0)>>)
    BY <1>1, <1>9, DecideIs
  <2>2. RequestsStay
    BY <1>3, <2>1
  <2>3. r.op \notin {"page.observe", "page.navigate", "session.open", "page.new"}
    BY <2>1
  <2> QED BY <1>1, <1>2, <1>4, <2>1, <2>2, <2>3, ReplyWorks
<1> QED
  BY <1>5, <1>6, <1>7, <1>8, <1>9, CloseWorks, NavigateWorks, TerminateWorks, EvaluateWorks
     DEF Handler

-----------------------------------------------------------------------------
(* The engine.                                                               *)

\* A step of the engine takes no request and adds no reply.
LEMMA EngineStepWorks ==
  ASSUME UNCHANGED inbox, RequestsStay, NEW ms \in Seq(Message), Adds(ms),
         \A j \in DOMAIN ms : ~Awaited(ms[j]),
         \A q \in Pages : Fares(q, ms)
  PROVE  \E ns : Works(ns)
<1>1. Serves
  BY DEF Serves, Due
<1>2. Runs
  BY RunsStay
<1>3. Truthful(ms)
  BY DEF Truthful
<1> QED BY <1>1, <1>2, <1>3 DEF Works

\* One that changes one page and tells of it.
LEMMA EventWorks ==
  ASSUME UNCHANGED inbox, RequestsStay, NEW m \in Message, m.kind # "reply", Adds(<<m>>),
         NEW p \in Pages, OnlyPage(p), m.kind = "dialog" \/ m.page = p,
         Fares(p, <<m>>)
  PROVE  \E ns : Works(ns)
<1>1. PICK ms : ms = <<m>>
  OBVIOUS
<1>2. <<m>> \in Seq(Message) /\ \A j \in DOMAIN <<m>> : <<m>>[j] = m
  BY OneMessage
<1>3. ms \in Seq(Message) /\ Adds(ms) /\ Fares(p, ms) /\ \A j \in DOMAIN ms : ms[j] = m
  BY <1>1, <1>2
<1>4. \A j \in DOMAIN ms : ~Awaited(ms[j])
  BY <1>3 DEF Awaited
<1>5. \A j \in DOMAIN ms : ms[j].kind \in {"reply", "dialog"} \/ ms[j].page = p
  BY <1>3
<1>6. \A q \in Pages : Fares(q, ms)
  BY <1>3, <1>5, OthersRest
<1> QED BY <1>3, <1>4, <1>6, EngineStepWorks

\* One that writes nothing.
LEMMA QuietWorks ==
  ASSUME ChannelInv, UNCHANGED <<inbox, wire>>, RequestsStay,
         \/ UNCHANGED views
         \/ \E p \in Pages : OnlyPage(p) /\ Fares(p, <<>>)
  PROVE  \E ns : Works(ns)
<1>1. TypeOK
  BY Unpacked
<1>2. PICK ms : ms = <<>>
  OBVIOUS
<1>3. ms \in Seq(Message) /\ DOMAIN ms = {} /\ Adds(ms)
  BY <1>1, <1>2, NothingAdded
<1>4. CASE UNCHANGED views
  <2>1. \A q \in Pages : Fares(q, ms)
    BY <1>3, <1>4, AllRest
  <2> QED BY <1>3, <2>1, EngineStepWorks
<1>5. ASSUME NEW p \in Pages, OnlyPage(p), Fares(p, <<>>) PROVE \E ns : Works(ns)
  <2>1. \A q \in Pages : Fares(q, ms)
    BY <1>2, <1>3, <1>5, OthersRest
  <2> QED BY <1>3, <2>1, EngineStepWorks
<1> QED BY <1>4, <1>5

\* Some are asked for by a script or by the page itself.
LEMMA RequestsQuietly ==
  ASSUME ChannelInv, NEW p \in Pages, Exists(p), views' = Loading(p, FALSE),
         \/ views[p].document # 0
         \/ \E i \in DOMAIN evaluations : evaluations[i].request.page = p
  PROVE  OnlyPage(p) /\ Fares(p, <<>>)
<1>1. TypeOK /\ FALSE \in BOOLEAN
  BY Unpacked
<1>2. /\ OnlyPage(p) /\ views'[p].state = "live"
      /\ views'[p].document = views[p].document /\ views'[p].load = "requested"
  BY <1>1, LoadingIs
<1>3. PICK ms : ms = <<>>
  OBVIOUS
<1>4. DOMAIN ms = {}
  BY <1>3
<1>5. Requests(p, ms)
  BY <1>2, <1>4 DEF Requests, SameDocument, Says
<1> QED BY <1>2, <1>3, <1>5 DEF Fares

LEMMA LoadWorks ==
  ASSUME ChannelInv, NEW p \in Pages,
         LoadStarts(p) \/ LoadCommits(p) \/ LoadFinishes(p) \/ LoadFails(p)
  PROVE  \E ns : Works(ns)
<1>0. TypeOK
  BY Unpacked
<1>1. /\ OnlyPage(p) /\ views'[p].state = views[p].state
      /\ views[p].load # "none" /\ UNCHANGED inbox /\ UNCHANGED evaluations
      /\ \/ /\ Adds(<<Event("started", p)>>)
            /\ views[p].load = "requested" /\ views'[p].load = "started"
            /\ views'[p].document = views[p].document
         \/ /\ Adds(<<Event("committed", p)>>)
            /\ views[p].load = "started" /\ views'[p].load = "committed"
            /\ views'[p].document = views[p].document + 1
         \/ /\ \E kind \in {"finished", "failed"} : Adds(<<Event(kind, p)>>)
            /\ views'[p].load = "none" /\ views'[p].document = views[p].document
  BY LoadEventIs
<1>2. RequestsStay
  BY <1>0, <1>1, StayIs
<1>3. \A kind \in LoadEvent :
        /\ Event(kind, p) \in Message /\ Event(kind, p).kind # "reply"
        /\ Event(kind, p).page = p
  BY EventIsMessage
<1>4. PICK kind \in LoadEvent : Adds(<<Event(kind, p)>>) /\ Progresses(p, <<Event(kind, p)>>)
  <2>1. {"started", "committed", "finished", "failed"} \subseteq LoadEvent
    BY DEF LoadEvent
  <2>2. CASE /\ Adds(<<Event("started", p)>>)
             /\ views[p].load = "requested" /\ views'[p].load = "started"
             /\ views'[p].document = views[p].document
    <3>1. Progresses(p, <<Event("started", p)>>)
      BY <1>1, <2>2 DEF Progresses, SameDocument
    <3> QED BY <2>1, <2>2, <3>1
  <2>3. CASE /\ Adds(<<Event("committed", p)>>)
             /\ views[p].load = "started" /\ views'[p].load = "committed"
             /\ views'[p].document = views[p].document + 1
    <3>1. Progresses(p, <<Event("committed", p)>>)
      BY <1>1, <2>3 DEF Progresses, SameDocument
    <3> QED BY <2>1, <2>3, <3>1
  <2>4. ASSUME NEW kind \in {"finished", "failed"}, Adds(<<Event(kind, p)>>),
               views'[p].load = "none", views'[p].document = views[p].document
        PROVE  \E k \in LoadEvent : Adds(<<Event(k, p)>>) /\ Progresses(p, <<Event(k, p)>>)
    <3>1. Progresses(p, <<Event(kind, p)>>)
      BY <1>1, <2>4 DEF Progresses, SameDocument
    <3> QED BY <2>1, <2>4, <3>1
  <2> QED BY <1>1, <2>2, <2>3, <2>4
<1>5. PICK e : e = Event(kind, p)
  OBVIOUS
<1>6. e \in Message /\ e.kind # "reply" /\ e.page = p /\ Adds(<<e>>) /\ Fares(p, <<e>>)
  BY <1>3, <1>4, <1>5 DEF Fares
<1> QED BY <1>1, <1>2, <1>6, EventWorks

LEMMA DeathWorks ==
  ASSUME ChannelInv, NEW p \in Pages, ProcessDies(p)
  PROVE  \E ns : Works(ns)
<1>0. TypeOK
  BY Unpacked
<1>1. PICK e : e = Event("terminated", p)
  OBVIOUS
<1>2. /\ views[p].state = "live" /\ views' = Gone(p, "dead") /\ UNCHANGED inbox
      /\ evaluations' = Failed(p) /\ Adds(<<e>>)
  BY <1>1, Emits DEF ProcessDies
<1>3. e \in Message /\ e.kind = "terminated" /\ e.kind # "reply" /\ e.page = p
  BY <1>1, EventIsMessage
<1>4. /\ OnlyPage(p) /\ views'[p].state = "dead" /\ views'[p].load = "none"
      /\ views'[p].document = views[p].document
  BY <1>0, <1>2, GoneIs
<1>5. RequestsStay
  BY <1>0, <1>2, FailedIs, StayIs
<1>6. PICK ms : ms = <<e>>
  OBVIOUS
<1>7. (\A j \in DOMAIN ms : ms[j] = e) /\ 1 \in DOMAIN ms
  BY <1>3, <1>6, OneMessage
<1>8. Dies(p, ms)
  BY <1>2, <1>3, <1>4, <1>7 DEF Dies, SameDocument, Says, Reports
<1>9. Fares(p, <<e>>)
  BY <1>6, <1>8 DEF Fares
<1> QED BY <1>2, <1>3, <1>4, <1>5, <1>9, EventWorks

LEMMA DialogWorks ==
  ASSUME ChannelInv, NEW p \in Pages, NEW t \in Tokens, Asks(p, t),
         UNCHANGED <<inbox, views>>, RequestsStay
  PROVE  \E ns : Works(ns)
<1>0. TypeOK
  BY Unpacked
<1>1. PICK m : m = [kind |-> "dialog", page |-> p, token |-> t]
  OBVIOUS
<1>2. m \in Message /\ m.kind = "dialog" /\ Adds(<<m>>)
  BY <1>0, <1>1, AsksIs, DialogIsMessage
<1>3. PICK ms : ms = <<m>>
  OBVIOUS
<1>4. ms \in Seq(Message) /\ Adds(ms) /\ \A j \in DOMAIN ms : ms[j] = m
  BY <1>2, <1>3, OneMessage
<1>5. \A j \in DOMAIN ms : ms[j].kind \in {"reply", "dialog"} /\ ~Awaited(ms[j])
  BY <1>2, <1>4 DEF Awaited
<1>6. \A q \in Pages : Fares(q, ms)
  BY <1>5, AllRest
<1> QED BY <1>4, <1>5, <1>6, EngineStepWorks

LEMMA ScriptReplyWorks ==
  ASSUME ChannelInv, NEW i \in DOMAIN evaluations, EvaluationReplies(i)
  PROVE  \E ns : Works(ns)
<1>1. PICK q \in Request, ok \in BOOLEAN, v \in Nat :
        /\ q = evaluations[i].request
        /\ Adds(<<Reply(q, ok, v)>>) /\ UNCHANGED <<inbox, views>>
        /\ \A j \in DOMAIN evaluations' : \E k \in DOMAIN evaluations \ {i} :
             evaluations'[j] = evaluations[k]
  BY EvaluationRepliesIs
<1>2. PICK a : a = Reply(q, ok, v)
  OBVIOUS
<1>3. a \in Message /\ a.kind = "reply" /\ a.fresh = q.fresh /\ Adds(<<a>>)
  BY <1>1, <1>2, ReplyIsMessage
<1>4. q.op \in {"targets", "click"} /\ (q.fresh => Sought(q))
  BY <1>1, EvaluationIs, Unpacked DEF RequestsInv
<1>5. Awaited(a) => call.op \notin {"observe", "navigate", "restore", "create", "new"}
  BY <1>3, <1>4 DEF Awaited, Sought
<1>6. PICK ms : ms = <<a>>
  OBVIOUS
<1>7. ms \in Seq(Message) /\ Adds(ms) /\ \A j \in DOMAIN ms : ms[j] = a
  BY <1>3, <1>6, OneMessage
<1>8. \A p \in Pages : Fares(p, ms)
  <2>1. \A j \in DOMAIN ms : ms[j].kind \in {"reply", "dialog"}
    BY <1>3, <1>7
  <2> QED BY <1>1, <2>1, AllRest
<1>9. Truthful(ms)
  BY <1>5, <1>7 DEF Truthful, Opens
<1>10. Serves
  BY <1>1 DEF Serves, Due
<1>11. Runs
  BY <1>1 DEF Runs
<1> QED BY <1>7, <1>8, <1>9, <1>10, <1>11 DEF Works

LEMMA ClickWorks ==
  ASSUME ChannelInv, NEW i \in DOMAIN evaluations, ClickScript(i)
  PROVE  \E ns : Works(ns)
<1>1. PICK p : p = evaluations[i].request.page
  OBVIOUS
<1>2. /\ p \in Pages /\ views[p].state = "live" /\ RequestsStay /\ UNCHANGED inbox
      /\ \/ UNCHANGED wire /\ UNCHANGED views
         \/ views' = Loading(p, FALSE) /\ UNCHANGED wire
         \/ \E t \in Tokens : Asks(p, t) /\ UNCHANGED views
  BY <1>1, ClickScriptIs
<1>3. CASE UNCHANGED wire /\ UNCHANGED views
  BY <1>2, <1>3, QuietWorks
<1>4. CASE views' = Loading(p, FALSE) /\ UNCHANGED wire
  <2>1. Exists(p) /\ \E k \in DOMAIN evaluations : evaluations[k].request.page = p
    BY <1>1, <1>2 DEF Exists
  <2>2. OnlyPage(p) /\ Fares(p, <<>>)
    BY <1>2, <1>4, <2>1, RequestsQuietly
  <2> QED BY <1>2, <1>4, <2>2, QuietWorks
<1>5. ASSUME NEW t \in Tokens, Asks(p, t), UNCHANGED views PROVE \E ns : Works(ns)
  BY <1>2, <1>5, DialogWorks
<1> QED BY <1>2, <1>3, <1>4, <1>5

\* Every step of the engine works.
LEMMA EngineWorks ==
  ASSUME ChannelInv, Engine
  PROVE  \E ns : Works(ns)
<1>0. TypeOK
  BY Unpacked
<1>1. ASSUME NEW p \in Pages, PageNavigates(p) PROVE \E ns : Works(ns)
  <2>1. /\ Exists(p) /\ views[p].document # 0 /\ views' = Loading(p, FALSE)
        /\ UNCHANGED <<inbox, wire>> /\ UNCHANGED evaluations
    <3>1. views[p].document \in Nat
      BY <1>0, Types DEF View
    <3> QED BY <1>1, <3>1 DEF PageNavigates, Exists
  <2>2. OnlyPage(p) /\ Fares(p, <<>>)
    BY <2>1, RequestsQuietly
  <2>3. RequestsStay
    BY <1>0, <2>1, StayIs
  <2> QED BY <2>1, <2>2, <2>3, QuietWorks
<1>2. ASSUME NEW p \in Pages, NEW t \in Tokens, ScriptDialog(p, t) PROVE \E ns : Works(ns)
  <2>1. Asks(p, t) /\ UNCHANGED <<inbox, views>> /\ UNCHANGED evaluations
    BY <1>2 DEF ScriptDialog
  <2>2. RequestsStay
    BY <1>0, <2>1, StayIs
  <2> QED BY <2>1, <2>2, DialogWorks
<1>3. ASSUME NEW i \in DOMAIN evaluations, TargetScript(i) PROVE \E ns : Works(ns)
  <2>1. PICK p : p = evaluations[i].request.page
    OBVIOUS
  <2>2. /\ p \in Pages /\ RequestsStay /\ UNCHANGED <<inbox, wire>>
        /\ OnlyPage(p) /\ views'[p].state = views[p].state
        /\ views'[p].document = views[p].document
        /\ views'[p].load = views[p].load
    BY <1>3, <2>1, TargetScriptIs
  <2>3. PICK ms : ms = <<>>
    OBVIOUS
  <2>4. DOMAIN ms = {}
    BY <2>3
  <2>5. Rests(p, ms)
    BY <2>2, <2>4 DEF Rests, SameDocument, Says
  <2>6. Fares(p, <<>>)
    BY <2>3, <2>5 DEF Fares
  <2> QED BY <2>2, <2>6, QuietWorks
<1>4. ASSUME NEW i \in DOMAIN evaluations, ClickResumes(i) PROVE \E ns : Works(ns)
  <2>1. UNCHANGED <<inbox, wire>> /\ UNCHANGED views /\ ScriptEnds(i, "done")
    BY <1>4 DEF ClickResumes
  <2>2. RequestsStay
    BY <1>0, <2>1, StageIs
  <2> QED BY <2>1, <2>2, QuietWorks
<1> QED
  BY <1>1, <1>2, <1>3, <1>4, LoadWorks, DeathWorks, ClickWorks, ScriptReplyWorks DEF Engine

\* Every step of the worker keeps the fifth invariant.
LEMMA WorkerKeepsFollow ==
  ASSUME ChannelInv, PagesInv, FollowInv, WorkerStep
  PROVE  FollowInv'
<1>1. PICK ns : Works(ns)
  BY HandlerWorks, EngineWorks DEF WorkerStep
<1>2. UNCHANGED host
  BY DEF WorkerStep
<1> QED BY <1>1, <1>2, WorksKeepFollow

-----------------------------------------------------------------------------
(* What the host takes off the wire.                                         *)

\* The d first messages are gone, and of the others the events stay as they are.
Slides(d) ==
  /\ d \in Nat
  /\ \A k \in DOMAIN wire' :
       /\ k \in Nat /\ k >= 1 /\ k + d \in DOMAIN wire
       /\ wire'[k].kind = wire[k + d].kind
       /\ wire[k + d].kind # "reply" => wire'[k] = wire[k + d]
  /\ \A k \in DOMAIN wire : k \in Nat /\ (k > d => k - d \in DOMAIN wire' /\ (k - d) + d = k)

\* The same number of elements, each d less.
LEMMA ShiftedCardinality ==
  ASSUME NEW S \in SUBSET Nat, NEW T \in SUBSET Nat, IsFiniteSet(T), NEW d \in Nat,
         \A k \in S : k + d \in T,
         \A j \in T : j - d \in S
  PROVE  Cardinality(S) = Cardinality(T)
<1>1. PICK f : f = [j \in T |-> j - d]
  OBVIOUS
<1>2. f \in [T -> S] /\ \A j \in T : f[j] = j - d
  BY <1>1
<1>3. \A i, j \in T : f[i] = f[j] => i = j
  BY <1>2
<1>4. \A k \in S : \E j \in T : f[j] = k
  <2> SUFFICES ASSUME NEW k \in S PROVE \E j \in T : f[j] = k
    OBVIOUS
  <2>1. k + d \in T /\ (k + d) - d = k
    OBVIOUS
  <2> QED BY <1>2, <2>1
<1>5. f \in Bijection(T, S)
  BY <1>2, <1>3, <1>4 DEF Bijection, Injection, Surjection, IsInjective
<1>6. ExistsBijection(T, S)
  BY <1>5 DEF ExistsBijection
<1> QED BY <1>6, FS_Bijection

LEMMA PendingSlides ==
  ASSUME TypeOK, NEW d, Slides(d), NEW p
  PROVE  Cardinality(Pending(p)') = Cardinality({k \in Pending(p) : k > d})
<1>1. PICK S : S = Pending(p)'
  OBVIOUS
<1>2. PICK T : T = {k \in Pending(p) : k > d}
  OBVIOUS
<1>3. IsFiniteSet(Pending(p)) /\ Pending(p) \subseteq Nat
  BY PendingIs
<1>4. IsFiniteSet(T) /\ T \in SUBSET Nat
  <2>1. T \subseteq Pending(p)
    BY <1>2
  <2> QED BY <1>3, <2>1, FS_Subset
<1>5. S \in SUBSET Nat /\ d \in Nat
  BY <1>1 DEF Slides, Pending
<1>6. ASSUME NEW k \in S PROVE k + d \in T
  <2>1. k \in DOMAIN wire' /\ wire'[k].kind = "committed" /\ wire'[k].page = p
    BY <1>1, <1>6 DEF Pending, Commits
  <2>2. /\ k \in Nat /\ k >= 1 /\ k + d \in DOMAIN wire /\ wire'[k] = wire[k + d]
    BY <2>1 DEF Slides
  <2>3. k + d \in Pending(p)
    BY <2>1, <2>2 DEF Pending, Commits
  <2>4. k + d > d
    BY <1>5, <2>2
  <2> QED BY <1>2, <2>3, <2>4
<1>7. ASSUME NEW j \in T PROVE j - d \in S
  <2>1. j \in DOMAIN wire /\ wire[j].kind = "committed" /\ wire[j].page = p /\ j > d
    BY <1>2, <1>7 DEF Pending, Commits
  <2>2. PICK k : k = j - d
    OBVIOUS
  <2>3. k \in DOMAIN wire' /\ k + d = j
    BY <2>1, <2>2 DEF Slides
  <2>4. wire'[k] = wire[j]
    BY <2>1, <2>3 DEF Slides
  <2>5. k \in S
    BY <1>1, <2>1, <2>3, <2>4 DEF Pending, Commits
  <2> QED BY <2>2, <2>5
<1>8. Cardinality(S) = Cardinality(T)
  BY <1>4, <1>5, <1>6, <1>7, ShiftedCardinality
<1> QED BY <1>1, <1>2, <1>8

\* The host has not heard of this many documents.
LEMMA PendingSame ==
  ASSUME TypeOK, NEW d, Slides(d), NEW p,
         \A k \in DOMAIN wire : Reports(wire[k], p) => k > d
  PROVE  Cardinality(Pending(p)') = Cardinality(Pending(p))
<1>1. {k \in Pending(p) : k > d} = Pending(p)
  BY DEF Pending, Commits, Reports, LoadEvent
<1> QED BY <1>1, PendingSlides

LEMMA SilentSlides ==
  ASSUME NEW d, Slides(d), NEW p, NEW k \in Nat
  PROVE  Silent(k, p)' <=> Silent(k + d, p)
<1>0. d \in Nat
  BY DEF Slides
<1>1. ASSUME \A j \in DOMAIN wire' : j > k => ~Marks(wire'[j], p), NEW j \in DOMAIN wire, j > k + d
      PROVE  ~Marks(wire[j], p)
  <2>1. j \in Nat /\ j > d
    BY <1>0, <1>1 DEF Slides
  <2>2. PICK i : i = j - d
    OBVIOUS
  <2>3. i \in DOMAIN wire' /\ i + d = j
    BY <2>1, <2>2 DEF Slides
  <2>4. wire[j].kind # "reply" => wire'[i] = wire[j]
    BY <2>3 DEF Slides
  <2>5. i > k
    BY <1>0, <1>1, <2>1, <2>2
  <2> QED BY <1>1, <2>3, <2>4, <2>5 DEF Marks
<1>2. ASSUME \A j \in DOMAIN wire : j > k + d => ~Marks(wire[j], p), NEW j \in DOMAIN wire', j > k
      PROVE  ~Marks(wire'[j], p)
  <2>1. /\ j \in Nat /\ j + d \in DOMAIN wire /\ wire'[j].kind = wire[j + d].kind
        /\ wire[j + d].kind # "reply" => wire'[j] = wire[j + d]
    BY DEF Slides
  <2>2. j + d > k + d
    BY <1>0, <1>2, <2>1
  <2>3. ~Marks(wire[j + d], p)
    BY <1>2, <2>1, <2>2
  <2> QED BY <2>1, <2>3 DEF Marks
<1> QED BY <1>1, <1>2 DEF Silent, Marks

\* The process's end is announced; the last mark is a load's start.
Ending(p) == \E k \in DOMAIN wire : wire[k].kind = "terminated" /\ wire[k].page = p
Begun(p) == \E k \in DOMAIN wire : Starts(wire[k], p) /\ Silent(k, p)

LEMMA EndingSlides ==
  ASSUME NEW d, Slides(d), NEW p
  PROVE  /\ Ending(p)' => Ending(p)
         /\ (\A k \in DOMAIN wire : Reports(wire[k], p) => k > d) => (Ending(p) => Ending(p)')
<1>1. ASSUME NEW k \in DOMAIN wire', wire'[k].kind = "terminated", wire'[k].page = p
      PROVE  Ending(p)
  BY <1>1 DEF Slides, Ending
<1>2. ASSUME NEW k \in DOMAIN wire, wire[k].kind = "terminated", wire[k].page = p, k > d
      PROVE  \E i \in DOMAIN wire' : wire'[i].kind = "terminated" /\ wire'[i].page = p
  <2>1. PICK i : i = k - d
    OBVIOUS
  <2>2. i \in DOMAIN wire' /\ i + d = k
    BY <1>2, <2>1 DEF Slides
  <2>3. wire'[i] = wire[k]
    BY <1>2, <2>2 DEF Slides
  <2> QED BY <1>2, <2>2, <2>3
<1> QED BY <1>1, <1>2 DEF Ending, Reports

LEMMA BegunSlides ==
  ASSUME NEW d, Slides(d), NEW p
  PROVE  /\ Begun(p)' => Begun(p)
         /\ (\E k \in DOMAIN wire : k > d /\ Starts(wire[k], p) /\ Silent(k, p)) => Begun(p)'
<1>0. d \in Nat
  BY DEF Slides
<1>1. ASSUME NEW k \in DOMAIN wire', Starts(wire'[k], p), Silent(k, p)'
      PROVE  Begun(p)
  <2>1. k \in Nat /\ k + d \in DOMAIN wire /\ wire'[k] = wire[k + d]
    BY <1>1 DEF Slides, Starts
  <2>2. Silent(k + d, p)
    BY <1>1, <2>1, SilentSlides
  <2> QED BY <1>1, <2>1, <2>2 DEF Begun
<1>2. ASSUME NEW k \in DOMAIN wire, k > d, Starts(wire[k], p), Silent(k, p)
      PROVE  \E i \in DOMAIN wire' : Starts(wire'[i], p) /\ Silent(i, p)'
  <2>1. PICK i : i = k - d
    OBVIOUS
  <2>2. i \in DOMAIN wire' /\ i + d = k
    BY <1>2, <2>1 DEF Slides
  <2>3. wire'[i] = wire[k] /\ i \in Nat
    BY <1>2, <2>2 DEF Slides, Starts
  <2>4. Silent(i, p)' <=> Silent(i + d, p)
    BY <2>3, SilentSlides
  <2> QED BY <1>2, <2>2, <2>3, <2>4
<1> QED BY <1>1, <1>2 DEF Begun, Starts

-----------------------------------------------------------------------------
(* The host's steps that wait for no reply afterwards.                       *)

\* What a step leaves of a page's entry: a load is idle again only if no mark
\* says otherwise, or after a missed deadline.
Holds(p) ==
  /\ Known(p) /\ pages'[p].document = pages[p].document
  /\ \/ pages'[p].restored
     \/ ~pages[p].restored /\ pages'[p].lifecycle = pages[p].lifecycle
  /\ Exists(p) =>
       /\ Silent(0, p) /\ pages'[p].load = "loading" => views[p].load # "none" \/ Due(p)'
       /\ timeouts' = 0 =>
            timeouts = 0 /\ (pages[p].load = "loading" => pages'[p].load = "loading")

\* The replies awaited are taken, and scripts run in no other pages.
Takes(d) ==
  /\ Slides(d) /\ UNCHANGED views
  /\ \A k \in DOMAIN wire : k <= d => wire[k].kind = "reply"
  /\ \A k \in DOMAIN wire' : ~Awaited(wire'[k])
  /\ \A i \in DOMAIN evaluations' : \E j \in DOMAIN evaluations :
       evaluations'[i].request.page = evaluations[j].request.page

LEMMA NoReportTaken ==
  ASSUME NEW d, Takes(d), NEW p
  PROVE  \A k \in DOMAIN wire : Reports(wire[k], p) => k > d
<1>1. \A k \in DOMAIN wire : Reports(wire[k], p) => wire[k].kind # "reply"
  BY DEF Reports, LoadEvent
<1>2. \A k \in DOMAIN wire : k \in Nat
  BY DEF Takes, Slides
<1>3. d \in Nat
  BY DEF Takes, Slides
<1> QED BY <1>1, <1>2, <1>3 DEF Takes

LEMMA HoldsFollowed ==
  ASSUME TypeOK, NEW d, Takes(d), NEW p \in Pages, Followed(p), Holds(p)
  PROVE  Followed(p)'
<1>0. d \in Nat /\ Slides(d) /\ UNCHANGED views /\ \A k \in DOMAIN wire' : ~Awaited(wire'[k])
  BY DEF Takes, Slides
<1>1. \A k \in DOMAIN wire : Reports(wire[k], p) => k > d
  BY NoReportTaken
<1>2. Counted(p)'
  <2>1. Cardinality(Pending(p)') = Cardinality(Pending(p))
    BY <1>0, <1>1, PendingSame
  <2>2. pages[p].document + Cardinality(Pending(p)) = views[p].document
    BY DEF Followed, Counted
  <2>3. pages'[p].document = pages[p].document /\ views'[p].document = views[p].document
    BY <1>0 DEF Holds
  <2>4. pages'[p].document + Cardinality(Pending(p)') = views'[p].document
    BY <2>1, <2>2, <2>3
  <2> QED BY <2>4 DEF Counted
<1>3. Mourned(p)'
  <2>1. Ending(p) => Ending(p)'
    BY <1>0, <1>1, EndingSlides
  <2>2. Mourned(p)
    BY DEF Followed
  <2> SUFFICES ASSUME views'[p].state = "dead", ~pages'[p].restored
               PROVE  pages'[p].lifecycle = "terminated" \/ Ending(p)'
    BY DEF Mourned, Ending
  <2>3. pages[p].lifecycle = "terminated" \/ Ending(p)
    BY <1>0, <2>2 DEF Mourned, Ending, Holds
  <2> QED BY <2>1, <2>3 DEF Holds
<1>4. ASSUME Exists(p) PROVE Loads(p)'
  <2>1. Loads(p)
    BY <1>4 DEF Followed
  <2>2. Silent(0, p)' <=> Silent(0, p)
    <3>1. \A k \in DOMAIN wire : Marks(wire[k], p) => Reports(wire[k], p)
      BY DEF Marks, Reports, LoadEvent
    <3>2. Silent(0, p)' <=> Silent(0 + d, p)
      BY <1>0, SilentSlides
    <3>3. \A k \in DOMAIN wire : k \in Nat /\ (k > d => k > 0)
      BY <1>0 DEF Slides
    <3>4. Silent(0 + d, p) <=> Silent(0, p)
      BY <1>0, <1>1, <3>1, <3>3 DEF Silent
    <3> QED BY <3>2, <3>4
  <2>3. Begun(p)' <=> Begun(p)
    <3>1. \A k \in DOMAIN wire : Starts(wire[k], p) => k > d
      BY <1>1 DEF Starts, Reports, LoadEvent
    <3>2. Begun(p) => \E k \in DOMAIN wire : k > d /\ Starts(wire[k], p) /\ Silent(k, p)
      BY <3>1 DEF Begun
    <3> QED BY <1>0, <3>2, BegunSlides
  <2>4. Begun(p) => views[p].load # "none"
    BY <2>1 DEF Loads, Begun
  <2>5. ASSUME NEW k \in DOMAIN wire', Silent(k, p)', Starts(wire'[k], p) \/ Observes(wire[k], p)'
        PROVE  views'[p].load # "none"
    <3>1. ~Observes(wire[k], p)'
      BY <1>0 DEF Observes, Good, Awaited
    <3>2. Begun(p)'
      BY <2>5, <3>1 DEF Begun, Starts
    <3> QED BY <1>0, <2>3, <2>4, <3>2
  <2>6. Silent(0, p)' /\ pages'[p].load = "loading" => views'[p].load # "none" \/ Due(p)'
    BY <1>0, <1>4, <2>2 DEF Holds
  <2>7. timeouts' = 0 /\ views'[p].load \in {"started", "committed"} =>
          (Silent(0, p)' /\ pages'[p].load = "loading") \/ Begun(p)'
    <3>1. timeouts = 0 /\ views[p].load \in {"started", "committed"} =>
            (Silent(0, p) /\ pages[p].load = "loading") \/ Begun(p)
      BY <2>1 DEF Loads, Begun
    <3> QED BY <1>0, <1>4, <2>2, <2>3, <3>1 DEF Holds
  <2>8. \A k \in DOMAIN wire' :
          Silent(k, p)' /\ (Starts(wire[k], p)' \/ Observes(wire[k], p)') => views'[p].load # "none"
    BY <2>5 DEF Starts
  <2> QED BY <2>6, <2>7, <2>8 DEF Loads, Begun
<1>5. Exists(p)' => Exists(p)
  BY <1>0 DEF Exists
<1> QED BY <1>2, <1>3, <1>4, <1>5 DEF Followed

\* The page that is not there has nothing reported.
LEMMA UnbornHeld ==
  ASSUME NEW d, Slides(d), UNCHANGED views, NEW p, Unborn(p),
         \A i \in DOMAIN evaluations' : \E j \in DOMAIN evaluations :
           evaluations'[i].request.page = evaluations[j].request.page
  PROVE  Unborn(p)'
<1> SUFFICES ASSUME views[p].state = "none"
             PROVE  /\ views[p].document = 0 /\ views[p].load = "none"
                    /\ \A k \in DOMAIN wire' : ~Reports(wire'[k], p)
                    /\ \A i \in DOMAIN evaluations' : evaluations'[i].request.page # p
  BY DEF Unborn, Reports
<1>1. /\ views[p].document = 0 /\ views[p].load = "none"
      /\ \A k \in DOMAIN wire : ~Reports(wire[k], p)
      /\ \A i \in DOMAIN evaluations : evaluations[i].request.page # p
  BY DEF Unborn
<1>2. \A k \in DOMAIN wire' : Reports(wire'[k], p) => Reports(wire[k + d], p) /\ k + d \in DOMAIN wire
  BY DEF Slides, Reports, LoadEvent
<1> QED BY <1>1, <1>2

LEMMA HostKeepsFollow ==
  ASSUME TypeOK, FollowInv, NEW d, Takes(d),
         \A p \in Pages : Known(p)' => Holds(p) \/ Followed(p)'
  PROVE  FollowInv'
<1>1. Births'
  BY DEF Takes, Births, Good, Awaited
<1>2. Refusals'
  BY DEF Takes, Refusals, Awaited
<1>3. ASSUME NEW p \in Pages PROVE Unborn(p)'
  BY UnbornHeld DEF FollowInv, Takes
<1>4. ASSUME NEW p \in Pages, Known(p)' PROVE Followed(p)'
  <2>1. CASE Holds(p)
    <3>1. Followed(p)
      BY <2>1 DEF FollowInv, Holds
    <3> QED BY <2>1, <3>1, HoldsFollowed
  <2> QED BY <1>4, <2>1
<1> QED BY <1>1, <1>2, <1>3, <1>4 DEF FollowInv

LEMMA TakesNothing ==
  ASSUME ChannelInv, UNCHANGED <<wire, views>>, UNCHANGED evaluations, call.stage # "request"
  PROVE  Takes(0)
<1>1. \A k \in DOMAIN wire : k \in Nat /\ k >= 1 /\ k + 0 = k /\ k - 0 = k /\ ~(k <= 0)
  BY Unpacked, LenProperties
<1>2. Slides(0)
  BY <1>1 DEF Slides
<1>3. \A k \in DOMAIN wire' : ~Awaited(wire'[k])
  BY NotInRequest
<1> QED BY <1>1, <1>2, <1>3 DEF Takes

LEMMA SlidesTaken ==
  ASSUME ChannelInv, wire # <<>>, wire' = Tail(wire)
  PROVE  Slides(1)
<1>1. /\ \A k \in DOMAIN wire' :
           k \in Nat /\ k >= 1 /\ k + 1 \in DOMAIN wire /\ wire'[k] = wire[k + 1]
      /\ \A k \in DOMAIN wire : k # 1 => k - 1 \in DOMAIN wire' /\ (k - 1) + 1 = k
  BY TakenIs
<1>2. \A k \in DOMAIN wire : k \in Nat
  BY Unpacked, LenProperties
<1>3. \A k \in DOMAIN wire : k > 1 => k # 1
  BY <1>2
<1> QED BY <1>1, <1>2, <1>3 DEF Slides

\* The reply the host waits for, or a late one in a loop.
LEMMA TakesReply ==
  ASSUME ChannelInv, wire # <<>>, wire[1].kind = "reply", wire' = Tail(wire),
         UNCHANGED views, UNCHANGED evaluations,
         \A k \in DOMAIN wire' : ~Awaited(wire'[k])
  PROVE  Takes(1)
<1>1. Slides(1)
  BY SlidesTaken
<1>2. \A k \in DOMAIN wire : k \in Nat /\ k >= 1
  BY Unpacked, LenProperties
<1>3. \A k \in DOMAIN wire : k <= 1 => wire[k].kind = "reply"
  <2>1. \A k \in DOMAIN wire : k <= 1 => k = 1
    BY <1>2
  <2> QED BY <2>1
<1> QED BY <1>1, <1>3 DEF Takes

LEMMA TakesAnswer ==
  ASSUME ChannelInv, NEW ok \in BOOLEAN, Answered(ok)
  PROVE  Takes(1) /\ inbox = <<>> /\ \A p \in Pages : ~Due(p)
<1>1. wire # <<>> /\ wire[1].kind = "reply" /\ inbox = <<>>
      /\ \A k \in DOMAIN wire' : ~Awaited(wire'[k])
  BY AnsweredIs DEF Awaited
<1>2. wire' = Tail(wire) /\ UNCHANGED views /\ UNCHANGED evaluations
  BY DEF Answered
<1>3. Takes(1)
  BY <1>1, <1>2, TakesReply
<1>4. DOMAIN inbox = {}
  BY <1>1
<1> QED BY <1>1, <1>3, <1>4 DEF Due

\* What is given up is not awaited.
LEMMA TakesAbandoned ==
  ASSUME ChannelInv, NEW frames \in Seq(Message), Abandoned(frames), NEW d \in Nat,
         UNCHANGED views,
         \A k \in DOMAIN frames :
           k \in Nat /\ k >= 1 /\ k + d \in DOMAIN wire /\ frames[k] = wire[k + d],
         \A k \in DOMAIN wire : k \in Nat /\ (k > d => k - d \in DOMAIN frames /\ (k - d) + d = k),
         \A k \in DOMAIN wire : k <= d => wire[k].kind = "reply"
  PROVE  Takes(d)
<1>1. /\ DOMAIN wire' = DOMAIN frames
      /\ \A k \in DOMAIN frames : /\ ~Awaited(wire'[k]) /\ wire'[k].kind = frames[k].kind
                                  /\ frames[k].kind # "reply" => wire'[k] = frames[k]
  BY AbandonedIs
<1>2. Slides(d)
  BY <1>1 DEF Slides
<1>3. /\ DOMAIN evaluations' = DOMAIN evaluations
      /\ \A i \in DOMAIN evaluations : evaluations'[i].request.page = evaluations[i].request.page
  BY AbandonedIs
<1> QED BY <1>1, <1>2, <1>3 DEF Takes

\* An entry that stays, but for a mark.
LEMMA StaysHolds ==
  ASSUME NEW p \in Pages, Known(p), EntryStays(p),
         Exists(p) =>
           /\ Silent(0, p) /\ pages'[p].load = "loading" => views[p].load # "none" \/ Due(p)'
           /\ timeouts' = 0 =>
                timeouts = 0 /\ (pages[p].load = "loading" => pages'[p].load = "loading"),
         pages'[p].restored \in BOOLEAN
  PROVE  Holds(p)
BY DEF Holds, EntryStays

LEMMA EntrySame ==
  ASSUME NEW p, pages'[p] = pages[p]
  PROVE  EntryStays(p) /\ (Known(p)' <=> Known(p))
BY DEF EntryStays, Known

\* One that is not touched, when no load was asked for that the mark waits for.
LEMMA SameHolds ==
  ASSUME TypeOK, FollowInv, NEW p \in Pages, Known(p), pages'[p] = pages[p],
         Due(p) => Due(p)', UNCHANGED timeouts
  PROVE  Holds(p)
<1>1. EntryStays(p)
  BY EntrySame
<1>2. pages[p].restored \in BOOLEAN
  BY Types DEF Page
<1>3. Exists(p) => (Silent(0, p) /\ pages[p].load = "loading" => views[p].load # "none" \/ Due(p))
  BY DEF FollowInv, Followed, Loads
<1> QED BY <1>1, <1>2, <1>3, StaysHolds

-----------------------------------------------------------------------------
(* Calls.                                                                    *)

LEMMA NoneDue ==
  ASSUME ChannelInv, call.stage # "request", NEW p
  PROVE  ~Due(p)
BY NotInRequest DEF Due

LEMMA IdleIs ==
  ASSUME Idle
  PROVE  call.stage # "request"
BY NoCallIs DEF Idle

\* A call marks the page it navigates, whose request is then under way.
LEMMA CallsKeepFollow ==
  ASSUME ChannelInv, FollowInv, Calls
  PROVE  FollowInv'
<1>0. TypeOK
  BY Unpacked
<1>1. ASSUME NEW r \in Request, Sent(r), Checked(r) PROVE FollowInv'
  <2>1. /\ call.stage # "request" /\ UNCHANGED <<wire, views>> /\ UNCHANGED evaluations
        /\ UNCHANGED timeouts /\ inbox' = Append(inbox, r) /\ r.fresh
    BY <1>1, IdleIs DEF Sent
  <2>2. Takes(0)
    BY <2>1, TakesNothing
  <2>3. \A p \in Pages : ~Due(p)
    BY <2>1, NoneDue
  <2>4. \A p \in Pages : r.op = "page.navigate" /\ r.page = p => Due(p)'
    <3>1. PICK n : n = Len(inbox) + 1
      OBVIOUS
    <3>2. n \in DOMAIN inbox' /\ inbox'[n] = r
      BY <1>0, <2>1, <3>1, Types, Appended
    <3> QED BY <2>1, <3>2 DEF Due
  <2>5. CASE pages' = pages
    <3>1. \A p \in Pages : Known(p)' => Holds(p)
      BY <1>0, <2>1, <2>3, <2>5, EntrySame, SameHolds
    <3> QED BY <1>0, <2>2, <3>1, HostKeepsFollow
  <2>6. CASE r.op = "page.navigate" /\ pages' = MarkedLoading(r.page)
    <3>1. PICK q : q = r.page
      OBVIOUS
    <3>2. q \in Pages /\ Known(q)
      BY <1>1, <2>6, <3>1 DEF Checked, Known
    <3>3. pages' = [pages EXCEPT ![q].load = "loading"]
      BY <2>6, <3>1 DEF MarkedLoading
    <3>4. OnlyEntry(q) /\ EntryStays(q) /\ pages'[q].load = "loading"
      BY <1>0, <3>2, <3>3, LoadPut
    <3>5. Due(q)'
      BY <2>4, <2>6, <3>1, <3>2
    <3>6. Holds(q)
      <4>1. pages'[q].restored \in BOOLEAN
        BY <3>2, <3>4 DEF OnlyEntry, Page
      <4>2. timeouts' = 0 => timeouts = 0
        BY <2>1
      <4> QED BY <3>2, <3>4, <3>5, <4>1, <4>2, StaysHolds
    <3>7. ASSUME NEW p \in Pages, p # q, Known(p)' PROVE Holds(p)
      <4>1. pages'[p] = pages[p]
        BY <3>4, <3>7 DEF OnlyEntry
      <4>2. Known(p)
        BY <3>7, <4>1, EntrySame
      <4> QED BY <1>0, <2>1, <2>3, <4>1, <4>2, SameHolds
    <3>8. \A p \in Pages : Known(p)' => Holds(p)
      BY <3>6, <3>7
    <3> QED BY <1>0, <2>2, <3>8, HostKeepsFollow
  <2> QED BY <1>1, <2>5, <2>6 DEF Checked
<1>2. ASSUME Idle, UNCHANGED worker, UNCHANGED <<pages, timeouts>> PROVE FollowInv'
  <2>1. call.stage # "request" /\ UNCHANGED <<wire, views, inbox>> /\ UNCHANGED evaluations
    BY <1>2, IdleIs DEF worker
  <2>2. Takes(0)
    BY <2>1, TakesNothing
  <2>3. \A p \in Pages : ~Due(p)
    BY <2>1, NoneDue
  <2>4. \A p \in Pages : Known(p)' => Holds(p)
    BY <1>0, <1>2, <2>3, EntrySame, SameHolds
  <2> QED BY <1>0, <2>2, <2>4, HostKeepsFollow
<1>3. Pauses => Idle /\ UNCHANGED worker /\ UNCHANGED <<pages, timeouts>>
  BY DEF Pauses
<1> QED BY <1>1, <1>2, <1>3, CallsAre

-----------------------------------------------------------------------------
(* Requests given up, and refused.                                           *)

\* The page whose navigation is asked for is the one the call is about: its mark
\* is taken back.
LEMMA RaisesUnmarks ==
  ASSUME ChannelInv, Raises, timeouts' \in Nat, NEW p \in Pages
  PROVE  /\ EntryStays(p) /\ (Known(p)' <=> Known(p)) /\ pages'[p].restored \in BOOLEAN
         /\ pages'[p].load = "loading" => pages[p].load = "loading"
         /\ Due(p) => pages'[p].load = "idle"
         /\ \/ pages'[p] = pages[p]
            \/ p = call.page /\ call.op \in {"navigate", "restore"} /\ call.stage = "request"
<1>1. /\ EntryStays(p) /\ pages' \in [Pages -> Page]
      /\ \/ pages'[p] = pages[p]
         \/ /\ p = call.page /\ call.op \in {"navigate", "restore"}
            /\ call.stage = "request" /\ pages'[p].load = "idle"
  BY RaisesIs
<1>2. Due(p) => pages'[p].load = "idle"
  <2> SUFFICES ASSUME Due(p) PROVE pages'[p].load = "idle"
    OBVIOUS
  <2>1. call.op \in {"navigate", "restore"} /\ call.stage = "request" /\ call.page = p
    BY Unpacked DEF Due, FreshInv, InboxFresh, Sought, InRequest
  <2>2. pages' = [pages EXCEPT ![p].load = "idle"]
    BY <2>1 DEF Raises
  <2>3. TypeOK /\ "idle" \in {"idle", "loading"}
    BY Unpacked
  <2> QED BY <2>2, <2>3, LoadPut
<1>3. Known(p)' <=> Known(p)
  BY <1>1 DEF Known, EntryStays
<1>4. pages'[p].restored \in BOOLEAN
  BY <1>1 DEF Page
<1> QED BY <1>1, <1>2, <1>3, <1>4

LEMMA AbandonKeepsFollow ==
  ASSUME ChannelInv, FollowInv, NEW d, Takes(d), Raises, timeouts' \in Nat \ {0}
  PROVE  FollowInv'
<1>0. TypeOK /\ timeouts' \in Nat
  BY Unpacked
<1>1. ASSUME NEW p \in Pages, Known(p)' PROVE Holds(p)
  <2>1. /\ EntryStays(p) /\ (Known(p)' <=> Known(p)) /\ pages'[p].restored \in BOOLEAN
        /\ pages'[p].load = "loading" => pages[p].load = "loading"
        /\ Due(p) => pages'[p].load = "idle"
    BY <1>0, RaisesUnmarks
  <2>2. Exists(p) => (Silent(0, p) /\ pages[p].load = "loading" => views[p].load # "none" \/ Due(p))
    BY <1>1, <2>1 DEF FollowInv, Followed, Loads
  <2>3. Exists(p) => (Silent(0, p) /\ pages'[p].load = "loading" => views[p].load # "none" \/ Due(p)')
    BY <2>1, <2>2
  <2> QED BY <1>1, <2>1, <2>3, StaysHolds
<1> QED BY <1>0, <1>1, HostKeepsFollow

LEMMA RequestTimesOutKeepsFollow ==
  ASSUME ChannelInv, FollowInv, RequestTimesOut
  PROVE  FollowInv'
<1>1. wire \in Seq(Message) /\ timeouts \in Nat
  BY Unpacked, Types
<1>2. Abandoned(wire) /\ Raises /\ timeouts' = timeouts + 1 /\ UNCHANGED views
  BY DEF RequestTimesOut, Raises
<1>3. timeouts' \in Nat \ {0}
  BY <1>1, <1>2
<1>4. \A k \in DOMAIN wire : k \in Nat /\ k >= 1
  BY <1>1, LenProperties
<1>5. \A k \in DOMAIN wire : k + 0 = k /\ k - 0 = k /\ ~(k <= 0)
  BY <1>4
<1>6. Takes(0)
  BY <1>1, <1>2, <1>4, <1>5, TakesAbandoned
<1> QED BY <1>2, <1>3, <1>6, AbandonKeepsFollow

LEMMA RequestMeetsLateReplyKeepsFollow ==
  ASSUME ChannelInv, FollowInv, RequestMeetsLateReply
  PROVE  FollowInv'
<1>1. wire \in Seq(Message) /\ timeouts \in Nat
  BY Unpacked, Types
<1>2. /\ wire # <<>> /\ Head(wire).kind = "reply" /\ ~Head(wire).fresh
      /\ Abandoned(Tail(wire)) /\ Raises /\ timeouts' = timeouts /\ UNCHANGED views
  BY DEF RequestMeetsLateReply, ReplyIs, Raises
<1>3. timeouts' \in Nat \ {0}
  BY <1>1, <1>2, LateReplyIs
<1>4. Head(wire) = wire[1]
  BY <1>1, <1>2, Taken
<1>5. PICK frames : frames = Tail(wire)
  OBVIOUS
<1>6. /\ frames \in Seq(Message)
      /\ \A k \in DOMAIN frames :
           k \in Nat /\ k >= 1 /\ k + 1 \in DOMAIN wire /\ frames[k] = wire[k + 1]
      /\ \A k \in DOMAIN wire : k # 1 => k - 1 \in DOMAIN frames /\ (k - 1) + 1 = k
  BY <1>1, <1>2, <1>5, Rest
<1>7. \A k \in DOMAIN wire : k \in Nat /\ k >= 1
  BY <1>1, LenProperties
<1>8. \A k \in DOMAIN wire : k \in Nat /\ (k > 1 => k - 1 \in DOMAIN frames /\ (k - 1) + 1 = k)
  BY <1>6, <1>7
<1>9. \A k \in DOMAIN wire : k <= 1 => wire[k].kind = "reply"
  <2>1. \A k \in DOMAIN wire : k <= 1 => k = 1
    BY <1>7
  <2> QED BY <1>2, <1>4, <2>1
<1>10. Abandoned(frames) /\ UNCHANGED views
  BY <1>2, <1>5
<1>11. Takes(1)
  BY <1>6, <1>8, <1>9, <1>10, TakesAbandoned
<1> QED BY <1>2, <1>3, <1>11, AbandonKeepsFollow

\* A navigation is refused only when the page is gone.
LEMMA RequestRefusedKeepsFollow ==
  ASSUME ChannelInv, FollowInv, RequestRefused
  PROVE  FollowInv'
<1>0. TypeOK /\ FALSE \in BOOLEAN
  BY Unpacked
<1>1. Answered(FALSE) /\ UNCHANGED inbox
  BY RefusedIs
<1>2. /\ Raises /\ UNCHANGED timeouts /\ timeouts' \in Nat
  BY <1>0, Types DEF RequestRefused
<1>3. Takes(1) /\ \A p \in Pages : ~Due(p)
  BY <1>0, <1>1, TakesAnswer
<1>4. 1 \in DOMAIN wire /\ Awaited(wire[1]) /\ ~wire[1].ok
  BY <1>0, <1>1, AnsweredIs
<1>5. ASSUME NEW p \in Pages, Known(p)' PROVE Holds(p)
  <2>1. /\ EntryStays(p) /\ (Known(p)' <=> Known(p)) /\ pages'[p].restored \in BOOLEAN
        /\ pages'[p].load = "loading" => pages[p].load = "loading"
        /\ \/ pages'[p] = pages[p]
           \/ p = call.page /\ call.op \in {"navigate", "restore"} /\ call.stage = "request"
    BY <1>2, RaisesUnmarks
  <2>2. Exists(p) => pages'[p] = pages[p]
    BY <1>4, <2>1 DEF FollowInv, Refusals
  <2>3. Exists(p) => (Silent(0, p) /\ pages[p].load = "loading" => views[p].load # "none")
    BY <1>3, <1>5, <2>1 DEF FollowInv, Followed, Loads
  <2>4. Exists(p) => (Silent(0, p) /\ pages'[p].load = "loading" => views[p].load # "none" \/ Due(p)')
    BY <2>1, <2>3
  <2> QED BY <1>2, <1>5, <2>1, <2>2, <2>4, StaysHolds
<1> QED BY <1>0, <1>3, <1>5, HostKeepsFollow

-----------------------------------------------------------------------------
(* Replies.                                                                  *)

\* A page the host learns of has shown nothing yet.
LEMMA OpenedKeepsFollow ==
  ASSUME ChannelInv, FollowInv, Answered(TRUE), Opens,
         NEW v \in Pages, v = value, OnlyEntry(v),
         pages'[v].document = 0,
         pages'[v].load = "loading" => Due(v)'
  PROVE  FollowInv'
<1>0. TypeOK /\ TRUE \in BOOLEAN
  BY Unpacked
<1>1. Takes(1) /\ \A p \in Pages : ~Due(p)
  BY <1>0, TakesAnswer
<1>2. 1 \in DOMAIN wire /\ Good(wire[1]) /\ wire[1].value = v
  BY <1>0, AnsweredIs DEF Good
<1>3. /\ views[v].document = 0 /\ views[v].load = "none"
      /\ \A j \in DOMAIN wire : Reports(wire[j], v) => j > 1 /\ wire[j].kind = "terminated"
      /\ views[v].state = "dead" => \E j \in DOMAIN wire : Reports(wire[j], v)
  BY <1>2 DEF FollowInv, Births, Newborn
<1>4. /\ Slides(1) /\ UNCHANGED views /\ \A k \in DOMAIN wire' : ~Awaited(wire'[k])
  BY <1>1 DEF Takes
<1>5. Counted(v)'
  <2>1. Pending(v) = {}
    BY <1>3 DEF Pending, Commits, Reports, LoadEvent
  <2>2. Cardinality(Pending(v)) = 0
    BY <2>1, FS_EmptySet
  <2>3. Cardinality(Pending(v)') = Cardinality(Pending(v))
    BY <1>0, <1>3, <1>4, PendingSame
  <2>4. pages'[v].document + Cardinality(Pending(v)') = views'[v].document
    BY <1>3, <1>4, <2>2, <2>3
  <2> QED BY <2>4 DEF Counted
<1>6. Mourned(v)'
  <2>1. views[v].state = "dead" => Ending(v)
    BY <1>3 DEF Ending, Reports
  <2>2. Ending(v) => Ending(v)'
    BY <1>3, <1>4, EndingSlides
  <2> QED BY <1>4, <2>1, <2>2 DEF Mourned, Ending
<1>7. Loads(v)'
  <2>1. \A k \in DOMAIN wire' : ~Starts(wire[k], v)' /\ ~Observes(wire[k], v)'
    <3> SUFFICES ASSUME NEW k \in DOMAIN wire'
                 PROVE  ~Starts(wire[k], v)' /\ ~Observes(wire[k], v)'
      OBVIOUS
    <3>1. ~Observes(wire[k], v)'
      BY <1>4 DEF Observes, Good, Awaited
    <3>2. k + 1 \in DOMAIN wire /\ (wire[k + 1].kind # "reply" => wire'[k] = wire[k + 1])
          /\ wire'[k].kind = wire[k + 1].kind
      BY <1>4 DEF Slides
    <3>3. ~Starts(wire[k + 1], v)
      BY <1>3, <3>2 DEF Starts, Reports, LoadEvent
    <3> QED BY <3>1, <3>2, <3>3 DEF Starts
  <2>2. views'[v].load = "none"
    BY <1>3, <1>4
  <2> QED BY <2>1, <2>2 DEF Loads
<1>8. Followed(v)'
  BY <1>5, <1>6, <1>7 DEF Followed
<1>9. ASSUME NEW p \in Pages, p # v, Known(p)' PROVE Holds(p)
  <2>1. pages'[p] = pages[p]
    BY <1>9 DEF OnlyEntry
  <2>2. Known(p) /\ UNCHANGED timeouts
    BY <1>9, <2>1, EntrySame DEF Answered
  <2> QED BY <1>0, <1>1, <2>1, <2>2, SameHolds
<1>10. \A p \in Pages : Known(p)' => Holds(p) \/ Followed(p)'
  BY <1>8, <1>9
<1> QED BY <1>0, <1>1, <1>10, HostKeepsFollow

\* The entries of the other pages stay.
LEMMA AnsweredKeepsFollow ==
  ASSUME ChannelInv, FollowInv, Answered(TRUE),
         \A p \in Pages : Known(p)' => (Known(p) /\ pages'[p] = pages[p]) \/ Holds(p)
  PROVE  FollowInv'
<1>0. TypeOK /\ TRUE \in BOOLEAN
  BY Unpacked
<1>1. Takes(1) /\ \A p \in Pages : ~Due(p)
  BY <1>0, TakesAnswer
<1>2. UNCHANGED timeouts
  BY DEF Answered
<1>3. \A p \in Pages : Known(p)' => Holds(p)
  BY <1>0, <1>1, <1>2, SameHolds
<1> QED BY <1>0, <1>1, <1>3, HostKeepsFollow

\* The engine says that the page loads, and nothing on the way says otherwise.
LEMMA StateObservedKeepsFollow ==
  ASSUME ChannelInv, FollowInv, StateObserved
  PROVE  FollowInv'
<1>0. TypeOK /\ TRUE \in BOOLEAN
  BY Unpacked
<1>1. PICK q : q = call.page
  OBVIOUS
<1>2. /\ Answered(TRUE) /\ call.op = "observe" /\ q \in Pages
      /\ \/ pages' = pages
         \/ value = 1 /\ OnlyEntry(q) /\ EntryStays(q) /\ pages'[q].load = "loading"
  BY <1>1, StateObservedIs
<1>3. CASE pages' = pages
  <2>1. \A p \in Pages : Known(p)' => Known(p) /\ pages'[p] = pages[p]
    BY <1>3, EntrySame
  <2> QED BY <1>2, <2>1, AnsweredKeepsFollow
<1>4. CASE value = 1 /\ OnlyEntry(q) /\ EntryStays(q) /\ pages'[q].load = "loading"
  <2>1. ASSUME NEW p \in Pages, Known(p)', p # q PROVE Known(p) /\ pages'[p] = pages[p]
    <3>1. pages'[p] = pages[p]
      BY <1>4, <2>1 DEF OnlyEntry
    <3> QED BY <2>1, <3>1, EntrySame
  <2>2. ASSUME Known(q)' PROVE Holds(q)
    <3>1. Known(q)
      BY <1>4, <2>2 DEF Known, EntryStays
    <3>2. 1 \in DOMAIN wire /\ Observes(wire[1], q)
      BY <1>0, <1>1, <1>2, <1>4, AnsweredIs DEF Observes, Good
    <3>3. Silent(0, q) => Silent(1, q)
      <4>1. \A k \in DOMAIN wire : k \in Nat /\ (k > 1 => k > 0)
        BY Unpacked, LenProperties
      <4> QED BY <4>1 DEF Silent
    <3>4. Exists(q) => (Silent(0, q) => views[q].load # "none")
      BY <1>2, <3>1, <3>2, <3>3 DEF FollowInv, Followed, Loads
    <3>5. pages'[q].restored \in BOOLEAN
      BY <1>2, <1>4 DEF OnlyEntry, Page
    <3>6. UNCHANGED timeouts
      BY <1>2 DEF Answered
    <3> QED BY <1>2, <1>4, <3>1, <3>4, <3>5, <3>6, StaysHolds
  <2>3. \A p \in Pages : Known(p)' => (Known(p) /\ pages'[p] = pages[p]) \/ Holds(p)
    BY <2>1, <2>2
  <2> QED BY <1>2, <2>3, AnsweredKeepsFollow
<1> QED BY <1>2, <1>3, <1>4

LEMMA OpeningKeepsFollow ==
  ASSUME ChannelInv, FollowInv, Created \/ TabOpened
  PROVE  FollowInv'
<1>0. TypeOK /\ TRUE \in BOOLEAN
  BY Unpacked
<1>1. PICK v : v = value
  OBVIOUS
<1>2. CASE Created
  <2>1. /\ Answered(TRUE) /\ Opens /\ v \in Pages /\ OnlyEntry(v)
        /\ pages'[v].document = 0
        /\ \/ pages'[v].load = "idle"
           \/ \E r \in Request : /\ inbox' = Append(inbox, r) /\ r.op = "page.navigate"
                                 /\ r.page = v /\ r.fresh
    BY <1>1, <1>2, CreatedIs DEF Opens
  <2>2. ASSUME NEW r \in Request, inbox' = Append(inbox, r), r.op = "page.navigate",
               r.page = v, r.fresh
        PROVE  Due(v)'
    <3>1. PICK n : n = Len(inbox) + 1
      OBVIOUS
    <3>2. n \in DOMAIN inbox' /\ inbox'[n] = r
      BY <1>0, <2>2, <3>1, Types, Appended
    <3> QED BY <2>2, <3>2 DEF Due
  <2>3. pages'[v].load = "loading" => Due(v)'
    BY <2>1, <2>2
  <2> QED BY <1>1, <2>1, <2>3, OpenedKeepsFollow
<1>3. CASE TabOpened
  <2>1. /\ Answered(TRUE) /\ Opens /\ v \in Pages /\ OnlyEntry(v)
        /\ pages'[v].document = 0 /\ pages'[v].load # "loading"
    BY <1>1, <1>3, TabOpenedIs, NewPageIs DEF Opens
  <2> QED BY <1>1, <2>1, OpenedKeepsFollow
<1> QED BY <1>2, <1>3

\* Every reply keeps the fifth invariant.
LEMMA RepliesKeepFollow ==
  ASSUME ChannelInv, FollowInv, Replies
  PROVE  FollowInv'
<1>1. CASE TabClosed
  <2>1. PICK q : q = call.page
    OBVIOUS
  <2>2. /\ Answered(TRUE) /\ q \in Pages /\ OnlyEntry(q) /\ pages'[q].lifecycle = "absent"
    BY <1>1, <2>1, TabClosedIs, NewPageIs
  <2>3. ASSUME NEW p \in Pages, Known(p)' PROVE Known(p) /\ pages'[p] = pages[p]
    <3>1. p # q
      BY <2>2, <2>3 DEF Known
    <3>2. pages'[p] = pages[p]
      BY <2>2, <3>1 DEF OnlyEntry
    <3> QED BY <2>3, <3>2, EntrySame
  <2> QED BY <2>2, <2>3, AnsweredKeepsFollow
<1>2. CASE \/ RestoreAccepted \/ Clicked \/ Terminated
           \/ NavigationAccepted \/ TargetsObserved \/ Decided
  <2>1. Answered(TRUE) /\ UNCHANGED pages
    BY <1>2, WaitsOnIs, NavigationAcceptedIs, TargetsObservedIs, DecidedIs
  <2>2. \A p \in Pages : Known(p)' => Known(p) /\ pages'[p] = pages[p]
    BY <2>1, EntrySame
  <2> QED BY <2>1, <2>2, AnsweredKeepsFollow
<1> QED
  BY <1>1, <1>2, OpeningKeepsFollow, StateObservedKeepsFollow, RequestTimesOutKeepsFollow,
     RequestMeetsLateReplyKeepsFollow, RequestRefusedKeepsFollow DEF Replies

-----------------------------------------------------------------------------
(* Loops.                                                                    *)

LEMMA PumpMeetsLateReplyKeepsFollow ==
  ASSUME ChannelInv, FollowInv, PumpMeetsLateReply
  PROVE  FollowInv'
<1>0. TypeOK
  BY Unpacked
<1>1. /\ wire # <<>> /\ wire[1].kind = "reply" /\ call.stage # "request"
      /\ UNCHANGED <<inbox, pages, timeouts, views>> /\ UNCHANGED evaluations
      /\ \A k \in DOMAIN wire' : k + 1 \in DOMAIN wire /\ wire'[k] = wire[k + 1]
  BY PumpMeetsLateReplyIs
<1>2. wire' = Tail(wire)
  BY DEF PumpMeetsLateReply
<1>3. \A k \in DOMAIN wire' : ~Awaited(wire'[k])
  BY <1>1, NotInRequest
<1>4. Takes(1)
  BY <1>1, <1>2, <1>3, TakesReply
<1>5. \A p \in Pages : ~Due(p)
  BY <1>1, NoneDue
<1>6. \A p \in Pages : Known(p)' => Holds(p)
  BY <1>0, <1>1, <1>5, EntrySame, SameHolds
<1> QED BY <1>0, <1>4, <1>6, HostKeepsFollow

\* A page restored keeps its documents, and is idle as it was.
LEMMA PumpsKeepFollow ==
  ASSUME ChannelInv, PagesInv, FollowInv, Pumps
  PROVE  FollowInv'
<1>0. TypeOK
  BY Unpacked
<1>1. CASE ~PumpMeetsLateReply
  <2>1. PICK q : q = call.page
    OBVIOUS
  <2>2. /\ UNCHANGED worker /\ UNCHANGED timeouts /\ call.stage # "request"
        /\ \/ pages' = pages
           \/ /\ call.op = "restore" /\ q \in Pages /\ pages[q].load = "idle"
              /\ OnlyEntry(q) /\ pages'[q].restored = TRUE /\ pages'[q].load = "idle"
              /\ pages'[q].document = pages[q].document
    BY <1>1, <2>1, PumpsIs
  <2>3. UNCHANGED <<wire, views, inbox>> /\ UNCHANGED evaluations
    BY <2>2 DEF worker
  <2>4. Takes(0)
    BY <2>2, <2>3, TakesNothing
  <2>5. \A p \in Pages : ~Due(p)
    BY <2>2, NoneDue
  <2>6. ASSUME NEW p \in Pages, Known(p)', pages'[p] = pages[p] PROVE Holds(p)
    <3>1. Known(p)
      BY <2>6, EntrySame
    <3> QED BY <1>0, <2>2, <2>5, <2>6, <3>1, SameHolds
  <2>7. ASSUME NEW p \in Pages, Known(p)', pages' # pages PROVE Holds(p)
    <3>1. CASE p # q
      BY <2>2, <2>6, <2>7, <3>1 DEF OnlyEntry
    <3>2. CASE p = q
      <4>1. Known(q)
        BY <2>1, <2>2, <2>7 DEF PagesInv, Waits
      <4> QED BY <2>2, <2>7, <3>2, <4>1 DEF Holds
    <3> QED BY <3>1, <3>2
  <2>8. \A p \in Pages : Known(p)' => Holds(p)
    BY <2>6, <2>7
  <2> QED BY <1>0, <2>4, <2>8, HostKeepsFollow
<1> QED BY <1>1, PumpMeetsLateReplyKeepsFollow

-----------------------------------------------------------------------------
(* An event taken.                                                           *)

Takes1(m) ==
  /\ m = wire[1] /\ m \in Message /\ m.kind # "reply" /\ m.page \in Pages
  /\ 1 \in DOMAIN wire /\ Slides(1)
  /\ \A k \in DOMAIN wire' : wire'[k] = wire[k + 1]
  /\ UNCHANGED <<inbox, call, timeouts, views>> /\ UNCHANGED evaluations
  /\ OnlyEntry(m.page)
  /\ ~Known(m.page) => pages'[m.page] = pages[m.page]
  /\ Known(m.page) => pages'[m.page] = Applied(pages[m.page], m.kind)

LEMMA TakeEventTakes ==
  ASSUME ChannelInv, TakeEvent
  PROVE  \E m : Takes1(m)
<1>1. PICK m \in Message :
        /\ m = wire[1] /\ 1 \in DOMAIN wire /\ m.kind # "reply" /\ m.page \in Pages
        /\ wire' = Tail(wire)
        /\ \A k \in DOMAIN wire' : wire'[k] = wire[k + 1]
        /\ UNCHANGED <<inbox, call, timeouts, views>> /\ UNCHANGED evaluations
        /\ OnlyEntry(m.page)
        /\ ~Known(m.page) => pages'[m.page] = pages[m.page]
        /\ Known(m.page) => pages'[m.page] = Applied(pages[m.page], m.kind)
  BY TakeEventIs
<1>2. wire # <<>>
  BY <1>1
<1>3. Slides(1)
  BY <1>1, <1>2, SlidesTaken
<1> QED BY <1>1, <1>3 DEF Takes1

LEMMA BirthsTaken ==
  ASSUME FollowInv, NEW m, Takes1(m)
  PROVE  Births' /\ Refusals'
<1>1. /\ UNCHANGED call /\ UNCHANGED views /\ UNCHANGED evaluations
      /\ \A k \in DOMAIN wire' : k \in Nat /\ k >= 1 /\ k + 1 \in DOMAIN wire /\ wire'[k] = wire[k + 1]
      /\ \A k \in DOMAIN wire : k \in Nat /\ (k > 1 => k - 1 \in DOMAIN wire' /\ (k - 1) + 1 = k)
  BY DEF Takes1, Slides
<1>2. ASSUME NEW k \in DOMAIN wire', NEW p \in Pages, Good(wire'[k]), Opens, wire'[k].value = p
      PROVE  Newborn(k, p)'
  <2>1. PICK i : i = k + 1
    OBVIOUS
  <2>2. i \in DOMAIN wire /\ wire[i] = wire'[k] /\ i > 1 /\ i \in Nat
    BY <1>1, <2>1
  <2>3. Newborn(i, p)
    BY <1>2, <2>2 DEF FollowInv, Births
  <2>4. \A j \in DOMAIN wire' : Reports(wire'[j], p) => j > k /\ wire'[j].kind = "terminated"
    <3> SUFFICES ASSUME NEW j \in DOMAIN wire', Reports(wire'[j], p)
                 PROVE  j > k /\ wire'[j].kind = "terminated"
      OBVIOUS
    <3>1. j \in Nat /\ j + 1 \in DOMAIN wire /\ wire'[j] = wire[j + 1]
      BY <1>1
    <3>2. j + 1 > i /\ wire[j + 1].kind = "terminated"
      BY <2>3, <3>1 DEF Newborn
    <3>3. j > k
      BY <1>1, <2>1, <3>1, <3>2
    <3> QED BY <3>1, <3>2, <3>3
  <2>5. views[p].state = "dead" => \E j \in DOMAIN wire' : Reports(wire'[j], p)
    <3> SUFFICES ASSUME views[p].state = "dead" PROVE \E j \in DOMAIN wire' : Reports(wire'[j], p)
      OBVIOUS
    <3>1. PICK j \in DOMAIN wire : Reports(wire[j], p) /\ j > i
      BY <2>3 DEF Newborn
    <3>2. PICK n : n = j - 1
      OBVIOUS
    <3>3. j > 1
      BY <1>1, <2>2, <3>1
    <3>4. n \in DOMAIN wire' /\ n + 1 = j
      BY <1>1, <3>2, <3>3
    <3>5. wire'[n] = wire[j]
      BY <1>1, <3>4
    <3> QED BY <3>1, <3>4, <3>5
  <2> QED BY <1>1, <2>3, <2>4, <2>5 DEF Newborn, Reports
<1>3. Births'
  BY <1>1, <1>2 DEF Births, Good, Awaited, Opens
<1>4. Refusals'
  BY <1>1 DEF FollowInv, Refusals, Awaited, Exists
<1> QED BY <1>3, <1>4

\* What is left on the wire says of a page's load what it said.
SaysLoads(p) ==
  \A k \in DOMAIN wire :
    Silent(k, p) /\ (Starts(wire[k], p) \/ Observes(wire[k], p)) => views[p].load # "none"

LEMMA SaysLoadsTaken ==
  ASSUME NEW m, Takes1(m), NEW p, SaysLoads(p)
  PROVE  SaysLoads(p)'
<1>0. /\ Slides(1) /\ UNCHANGED views /\ UNCHANGED call
      /\ \A k \in DOMAIN wire' : k \in Nat /\ k + 1 \in DOMAIN wire /\ wire'[k] = wire[k + 1]
  BY DEF Takes1, Slides
<1> SUFFICES ASSUME NEW k \in DOMAIN wire', Silent(k, p)',
                    Starts(wire[k], p)' \/ Observes(wire[k], p)'
             PROVE  views'[p].load # "none"
  BY DEF SaysLoads
<1>1. k \in Nat /\ k + 1 \in DOMAIN wire /\ wire'[k] = wire[k + 1]
  BY <1>0
<1>2. Silent(k + 1, p)
  BY <1>0, <1>1, SilentSlides
<1>3. Starts(wire[k + 1], p) \/ Observes(wire[k + 1], p)
  BY <1>0, <1>1 DEF Starts, Observes, Good, Awaited
<1> QED BY <1>0, <1>1, <1>2, <1>3 DEF SaysLoads

\* The page the event is not about.
LEMMA OtherTaken ==
  ASSUME TypeOK, FollowInv, NEW m, Takes1(m), NEW p \in Pages, Known(p), Followed(p),
         pages'[p] = pages[p], ~Reports(m, p)
  PROVE  Followed(p)'
<1>0. /\ Slides(1) /\ UNCHANGED views /\ UNCHANGED timeouts /\ UNCHANGED call /\ UNCHANGED inbox
      /\ m = wire[1]
      /\ \A k \in DOMAIN wire' : k \in Nat /\ k + 1 \in DOMAIN wire /\ wire'[k] = wire[k + 1]
      /\ \A k \in DOMAIN wire : k \in Nat
  BY DEF Takes1, Slides
<1>1. \A k \in DOMAIN wire : Reports(wire[k], p) => k > 1
  <2>1. \A k \in DOMAIN wire : k >= 1
    BY Types, LenProperties
  <2>2. \A k \in DOMAIN wire : k # 1 => k > 1
    BY <1>0, <2>1
  <2> QED BY <1>0, <2>2
<1>2. Counted(p)'
  <2>1. Cardinality(Pending(p)') = Cardinality(Pending(p))
    BY <1>0, <1>1, PendingSame
  <2>2. pages[p].document + Cardinality(Pending(p)) = views[p].document
    BY DEF Followed, Counted
  <2>3. pages'[p].document + Cardinality(Pending(p)') = views'[p].document
    BY <1>0, <2>1, <2>2
  <2> QED BY <2>3 DEF Counted
<1>3. Mourned(p)'
  <2>1. Ending(p) => Ending(p)'
    BY <1>0, <1>1, EndingSlides
  <2> QED BY <1>0, <2>1 DEF Followed, Mourned, Ending
<1>4. ASSUME Exists(p) PROVE Loads(p)'
  <2>1. Loads(p)
    BY <1>4 DEF Followed
  <2>2. Silent(0, p)' <=> Silent(0, p)
    <3>1. \A k \in DOMAIN wire : Marks(wire[k], p) => Reports(wire[k], p)
      BY DEF Marks, Reports, LoadEvent
    <3>2. Silent(0, p)' <=> Silent(1, p)
      BY <1>0, SilentSlides
    <3>3. \A k \in DOMAIN wire : k > 1 => k > 0
      BY <1>0
    <3>4. Silent(1, p) <=> Silent(0, p)
      BY <1>1, <3>1, <3>3 DEF Silent
    <3> QED BY <3>2, <3>4
  <2>3. \A k \in DOMAIN wire : Starts(wire[k], p) => k > 1
    BY <1>1 DEF Starts, Reports, LoadEvent
  <2>4. Begun(p) => Begun(p)'
    <3>1. Begun(p) => \E k \in DOMAIN wire : k > 1 /\ Starts(wire[k], p) /\ Silent(k, p)
      BY <2>3 DEF Begun
    <3> QED BY <1>0, <3>1, BegunSlides
  <2>5. SaysLoads(p)'
    BY <2>1, SaysLoadsTaken DEF Loads, SaysLoads
  <2>6. Due(p)' <=> Due(p)
    BY <1>0 DEF Due
  <2>7. /\ Silent(0, p) /\ pages[p].load = "loading" => views[p].load # "none" \/ Due(p)
        /\ timeouts = 0 /\ views[p].load \in {"started", "committed"} =>
             (Silent(0, p) /\ pages[p].load = "loading") \/ Begun(p)
    BY <2>1 DEF Loads, Begun
  <2>8. /\ Silent(0, p)' /\ pages'[p].load = "loading" => views'[p].load # "none" \/ Due(p)'
        /\ timeouts' = 0 /\ views'[p].load \in {"started", "committed"} =>
             (Silent(0, p)' /\ pages'[p].load = "loading") \/ Begun(p)'
    BY <1>0, <2>2, <2>4, <2>6, <2>7
  <2> QED BY <2>5, <2>8 DEF Loads, Begun, SaysLoads
<1>5. Exists(p)' => Exists(p)
  BY <1>0 DEF Exists
<1> QED BY <1>2, <1>3, <1>4, <1>5 DEF Followed

\* The page the event is about.
LEMMA ReportedCounted ==
  ASSUME TypeOK, NEW m, Takes1(m), NEW p \in Pages, Known(p), Counted(p), Reports(m, p)
  PROVE  Counted(p)'
<1>0. /\ Slides(1) /\ UNCHANGED views /\ m = wire[1] /\ 1 \in DOMAIN wire /\ p = m.page
      /\ pages'[p] = Applied(pages[p], m.kind)
  BY DEF Takes1, Reports
<1>1. pages[p] \in Page /\ pages[p].document \in Nat
  BY Types DEF Page
<1>2. PICK a \in Page : /\ a = Applied(pages[p], m.kind)
                        /\ m.kind = "committed" => a.document = pages[p].document + 1
                        /\ m.kind # "committed" => a.document = pages[p].document
  BY <1>1, AppliedIs
<1>3. Cardinality(Pending(p)') = Cardinality({k \in Pending(p) : k > 1})
  BY <1>0, PendingSlides
<1>4. IsFiniteSet(Pending(p)) /\ Cardinality(Pending(p)) \in Nat /\ Pending(p) \subseteq DOMAIN wire
  BY PendingIs DEF Pending
<1>5. \A k \in DOMAIN wire : k > 1 <=> k # 1
  <2>1. \A k \in DOMAIN wire : k \in Nat /\ k >= 1
    BY Types, LenProperties
  <2> QED BY <2>1
<1>6. pages[p].document + Cardinality(Pending(p)) = views[p].document
  BY DEF Counted
<1>7. views'[p].document = views[p].document /\ pages'[p].document = a.document
  BY <1>0, <1>2
<1>8. CASE m.kind = "committed"
  <2>1. 1 \in Pending(p)
    BY <1>0, <1>8 DEF Pending, Commits
  <2>2. {k \in Pending(p) : k > 1} = Pending(p) \ {1}
    BY <1>4, <1>5
  <2>3. Cardinality(Pending(p) \ {1}) = Cardinality(Pending(p)) - 1
    BY <1>4, <2>1, FS_RemoveElement
  <2>4. Cardinality(Pending(p)') = Cardinality(Pending(p)) - 1
    BY <1>3, <2>2, <2>3
  <2>5. a.document = pages[p].document + 1
    BY <1>2, <1>8
  <2>6. a.document + Cardinality(Pending(p)') = views[p].document
    BY <1>1, <1>4, <1>6, <2>4, <2>5
  <2> QED BY <1>7, <2>6 DEF Counted
<1>9. CASE m.kind # "committed"
  <2>1. 1 \notin Pending(p)
    BY <1>0, <1>9 DEF Pending, Commits
  <2>2. {k \in Pending(p) : k > 1} = Pending(p)
    BY <1>4, <1>5, <2>1
  <2>3. a.document = pages[p].document
    BY <1>2, <1>9
  <2>4. a.document + Cardinality(Pending(p)') = views[p].document
    BY <1>3, <1>6, <2>2, <2>3
  <2> QED BY <1>7, <2>4 DEF Counted
<1> QED BY <1>8, <1>9

LEMMA ReportedMourned ==
  ASSUME TypeOK, NEW m, Takes1(m), NEW p \in Pages, Known(p), Mourned(p), Reports(m, p)
  PROVE  Mourned(p)'
<1>0. /\ Slides(1) /\ UNCHANGED views /\ m = wire[1] /\ p = m.page
      /\ pages'[p] = Applied(pages[p], m.kind)
  BY DEF Takes1, Reports
<1>1. pages[p] \in Page
  BY Types
<1>2. PICK a \in Page : /\ a = Applied(pages[p], m.kind) /\ a.restored = pages[p].restored
                        /\ m.kind = "terminated" => a.lifecycle = "terminated"
                        /\ m.kind # "terminated" => a.lifecycle = pages[p].lifecycle
  BY <1>1, AppliedIs
<1>3. pages'[p] = a
  BY <1>0, <1>2
<1>4. CASE m.kind = "terminated"
  BY <1>2, <1>3, <1>4 DEF Mourned
<1>5. CASE m.kind # "terminated"
  <2>1. ASSUME NEW k \in DOMAIN wire, wire[k].kind = "terminated", wire[k].page = p
        PROVE  \E i \in DOMAIN wire' : wire'[i].kind = "terminated" /\ wire'[i].page = p
    <3>1. PICK i : i = k - 1
      OBVIOUS
    <3>2. k > 1
      <4>1. k \in Nat /\ k >= 1
        BY Types, LenProperties
      <4>2. k # 1
        BY <1>0, <1>5, <2>1
      <4> QED BY <4>1, <4>2
    <3>3. i \in DOMAIN wire' /\ i + 1 = k
      BY <1>0, <3>1, <3>2 DEF Slides
    <3>4. wire'[i] = wire[k]
      BY <1>0, <2>1, <3>3 DEF Slides
    <3> QED BY <2>1, <3>3, <3>4
  <2> QED BY <1>0, <1>2, <1>3, <1>5, <2>1 DEF Mourned
<1> QED BY <1>4, <1>5

LEMMA ReportedLoads ==
  ASSUME TypeOK, NEW m, Takes1(m), NEW p \in Pages, Known(p), Loads(p), Reports(m, p)
  PROVE  Loads(p)'
<1>0. /\ Slides(1) /\ UNCHANGED views /\ UNCHANGED timeouts /\ UNCHANGED inbox
      /\ m = wire[1] /\ 1 \in DOMAIN wire /\ p = m.page
      /\ pages'[p] = Applied(pages[p], m.kind)
  BY DEF Takes1, Reports
<1>1. pages[p] \in Page
  BY Types
<1>2. PICK a \in Page :
        /\ a = Applied(pages[p], m.kind)
        /\ m.kind = "started" => a.load = "loading"
        /\ m.kind \in {"finished", "failed", "terminated"} => a.load = "idle"
        /\ m.kind \notin {"started", "finished", "failed", "terminated"} =>
             a.load = pages[p].load
  BY <1>1, AppliedIs
<1>3. pages'[p] = a
  BY <1>0, <1>2
<1>4. Silent(0, p)' <=> Silent(1, p)
  BY <1>0, SilentSlides
<1>5. \A k \in DOMAIN wire : k > 0 /\ (k # 1 => k > 1) /\ k \in Nat
  BY Types, LenProperties
<1>6. SaysLoads(p)'
  BY SaysLoadsTaken DEF Loads, SaysLoads
<1>7. Due(p)' <=> Due(p)
  BY <1>0 DEF Due
<1>8. /\ Silent(1, p) /\ Starts(m, p) => views[p].load # "none"
      /\ Silent(0, p) /\ pages[p].load = "loading" => views[p].load # "none" \/ Due(p)
      /\ timeouts = 0 /\ views[p].load \in {"started", "committed"} =>
           (Silent(0, p) /\ pages[p].load = "loading") \/ Begun(p)
  BY <1>0 DEF Loads, Begun
<1>9. ASSUME NEW k \in DOMAIN wire, Starts(wire[k], p), Silent(k, p), k # 1 PROVE Begun(p)'
  BY <1>0, <1>5, <1>9, BegunSlides
<1>10. /\ Silent(1, p) /\ a.load = "loading" => views[p].load # "none" \/ Due(p)
       /\ timeouts = 0 /\ views[p].load \in {"started", "committed"} =>
            (Silent(1, p) /\ a.load = "loading") \/ Begun(p)'
  <2>1. CASE m.kind = "started"
    <3>1. Starts(m, p) /\ a.load = "loading"
      BY <1>0, <1>2, <2>1 DEF Starts
    <3>2. ~Silent(0, p)
      BY <1>0, <1>5, <2>1 DEF Silent, Marks
    <3>3. Begun(p) => Silent(1, p) \/ Begun(p)'
      BY <1>9 DEF Begun
    <3> QED BY <1>8, <3>1, <3>2, <3>3
  <2>2. CASE m.kind \in {"finished", "failed", "terminated"}
    <3>1. ~Starts(m, p) /\ a.load = "idle"
      BY <1>2, <2>2 DEF Starts
    <3>2. ~Silent(0, p)
      BY <1>0, <1>5, <2>2 DEF Silent, Marks
    <3>3. Begun(p) => Begun(p)'
      BY <1>0, <1>9, <3>1 DEF Begun
    <3> QED BY <1>8, <3>1, <3>2, <3>3
  <2>3. CASE m.kind \notin {"started", "finished", "failed", "terminated"}
    <3>1. ~Starts(m, p) /\ a.load = pages[p].load /\ ~Marks(m, p)
      BY <1>2, <2>3 DEF Starts, Marks
    <3>2. Silent(1, p) <=> Silent(0, p)
      BY <1>0, <1>5, <3>1 DEF Silent
    <3>3. Begun(p) => Begun(p)'
      BY <1>0, <1>9, <3>1 DEF Begun
    <3> QED BY <1>8, <3>1, <3>2, <3>3
  <2> QED BY <2>1, <2>2, <2>3
<1>11. /\ Silent(0, p)' /\ pages'[p].load = "loading" => views'[p].load # "none" \/ Due(p)'
       /\ timeouts' = 0 /\ views'[p].load \in {"started", "committed"} =>
            (Silent(0, p)' /\ pages'[p].load = "loading") \/ Begun(p)'
  BY <1>0, <1>3, <1>4, <1>7, <1>10
<1> QED BY <1>6, <1>11 DEF Loads, Begun, SaysLoads

\* An event that is no report on a page leaves the page's entry as it is.
LEMMA UnreportedSame ==
  ASSUME TypeOK, NEW m, Takes1(m), NEW p \in Pages, ~Reports(m, p)
  PROVE  pages'[p] = pages[p]
<1>1. CASE p # m.page \/ ~Known(m.page)
  BY <1>1 DEF Takes1, OnlyEntry
<1>2. CASE p = m.page /\ Known(m.page)
  <2>1. pages'[p] = Applied(pages[p], m.kind)
    BY <1>2 DEF Takes1
  <2>2. m.kind \notin {"started", "committed", "finished", "failed", "terminated"}
    BY <1>2 DEF Reports, LoadEvent
  <2>3. Applied(pages[p], m.kind) = pages[p]
    BY <2>2 DEF Applied
  <2> QED BY <2>1, <2>3
<1> QED BY <1>1, <1>2

LEMMA TakeEventKeepsFollow ==
  ASSUME ChannelInv, FollowInv, TakeEvent
  PROVE  FollowInv'
<1>0. TypeOK
  BY Unpacked
<1>1. PICK m : Takes1(m)
  BY TakeEventTakes
<1>2. Births' /\ Refusals'
  BY <1>1, BirthsTaken
<1>3. ASSUME NEW p \in Pages PROVE Unborn(p)'
  <2>1. Slides(1) /\ UNCHANGED views /\ UNCHANGED evaluations
    BY <1>1 DEF Takes1
  <2>2. Unborn(p)
    BY DEF FollowInv
  <2>3. \A i \in DOMAIN evaluations' : \E j \in DOMAIN evaluations :
          evaluations'[i].request.page = evaluations[j].request.page
    BY <2>1
  <2> QED BY <2>1, <2>2, <2>3, UnbornHeld
<1>4. ASSUME NEW p \in Pages, Known(p)' PROVE Followed(p)'
  <2>1. CASE Reports(m, p) /\ Known(p)
    <3>1. Counted(p) /\ Mourned(p) /\ (Exists(p) => Loads(p))
      BY <2>1 DEF FollowInv, Followed
    <3>2. Counted(p)'
      BY <1>0, <1>1, <2>1, <3>1, ReportedCounted
    <3>3. Mourned(p)'
      BY <1>0, <1>1, <2>1, <3>1, ReportedMourned
    <3>4. Exists(p)' => Exists(p)
      BY <1>1 DEF Takes1, Exists
    <3>5. ASSUME Exists(p) PROVE Loads(p)'
      BY <1>0, <1>1, <2>1, <3>1, <3>5, ReportedLoads
    <3> QED BY <3>2, <3>3, <3>4, <3>5 DEF Followed
  <2>2. CASE ~Reports(m, p)
    <3>1. pages'[p] = pages[p]
      BY <1>0, <1>1, <2>2, UnreportedSame
    <3>2. Known(p)
      BY <1>4, <3>1 DEF Known
    <3>3. Followed(p)
      BY <3>2 DEF FollowInv
    <3> QED BY <1>0, <1>1, <2>2, <3>1, <3>2, <3>3, OtherTaken
  <2>3. CASE Reports(m, p) /\ ~Known(p)
    <3>1. pages'[p] = pages[p]
      BY <1>1, <2>3 DEF Takes1, Reports
    <3> QED BY <1>4, <2>3, <3>1 DEF Known
  <2> QED BY <2>1, <2>2, <2>3
<1> QED BY <1>2, <1>3, <1>4 DEF FollowInv

LEMMA InitFollow ==
  ASSUME Init
  PROVE  FollowInv
<1>1. /\ wire = <<>> /\ views = [p \in Pages |-> NoView] /\ evaluations = <<>>
      /\ pages = [p \in Pages |-> Absent]
  BY DEF Init, InitWorker
<1>2. DOMAIN wire = {} /\ DOMAIN evaluations = {}
  BY <1>1
<1>3. Births /\ Refusals
  BY <1>2 DEF Births, Refusals
<1>4. \A p \in Pages : ~Known(p)
  BY <1>1, NewPageIs DEF Known
<1>5. \A p \in Pages : Unborn(p)
  BY <1>1, <1>2 DEF Unborn, NoView
<1> QED BY <1>3, <1>4, <1>5 DEF FollowInv

LEMMA StutterKeepsFollow ==
  ASSUME FollowInv, UNCHANGED vars
  PROVE  FollowInv'
<1>1. /\ UNCHANGED <<wire, inbox, evaluations, views, call, timeouts, pages>>
  BY DEF vars, worker, host
<1>2. Births' /\ Refusals'
  BY <1>1 DEF FollowInv, Births, Refusals, Newborn, Reports, Good, Awaited, Opens, Exists
<1>3. ASSUME NEW p \in Pages PROVE Unborn(p)'
  BY <1>1 DEF FollowInv, Unborn, Reports
<1>4. ASSUME NEW p \in Pages, Known(p)' PROVE Followed(p)'
  <2>1. Followed(p)
    BY <1>1, <1>4 DEF FollowInv, Known
  <2>2. Counted(p)'
    BY <1>1, <2>1 DEF Followed, Counted, Pending, Commits
  <2>3. Mourned(p)'
    BY <1>1, <2>1 DEF Followed, Mourned
  <2>4. Exists(p)' => Loads(p)'
    BY <1>1, <2>1 DEF Followed, Exists, Loads, Silent, Marks, Starts, Observes, Good, Awaited, Due
  <2> QED BY <2>2, <2>3, <2>4 DEF Followed
<1> QED BY <1>2, <1>3, <1>4 DEF FollowInv

\* The fifth invariant holds.
LEMMA FollowHeld == Spec => []FollowInv
<1>1. Init => FollowInv
  BY InitFollow
<1>2. ASSUME ChannelInv, PagesInv, FollowInv, [Next]_vars PROVE FollowInv'
  BY <1>2, CallsKeepFollow, TakeEventKeepsFollow, RepliesKeepFollow, PumpsKeepFollow,
     WorkerKeepsFollow, StutterKeepsFollow DEF Next
<1> QED BY <1>1, <1>2, ChannelHeld, PagesHeld, PTL DEF Spec

\* Once the host has taken everything the adapter wrote and no call is in
\* progress, it counts every document of a page, has a page that loads for
\* loading and, unless a request was given up, only that, and knows of every web
\* process that ended, however the events lay among the replies.
THEOREM ProjectionTrue == Spec => []ProjectionFollows
<1>1. ChannelInv /\ FollowInv => ProjectionFollows
  <2> SUFFICES ASSUME ChannelInv, FollowInv, Settled, NEW p \in Pages, Known(p), Exists(p)
               PROVE  /\ pages[p].document = views[p].document
                      /\ pages[p].load = "loading" => views[p].load # "none"
                      /\ timeouts = 0 /\ views[p].load \in {"started", "committed"} =>
                           pages[p].load = "loading"
                      /\ views[p].state = "dead" /\ ~pages[p].restored =>
                           pages[p].lifecycle = "terminated"
    BY DEF ProjectionFollows
  <2>1. DOMAIN wire = {}
    BY DEF Settled
  <2>2. ~Due(p)
    BY IdleIs, NoneDue DEF Settled
  <2>3. Counted(p) /\ Mourned(p) /\ Loads(p)
    BY DEF FollowInv, Followed
  <2>4. Silent(0, p)
    BY <2>1 DEF Silent
  <2>5. pages[p].document = views[p].document
    <3>1. pages[p].document \in Nat
      BY Unpacked, Types DEF Page
    <3>2. Pending(p) = {}
      BY <2>1 DEF Pending
    <3>3. Cardinality(Pending(p)) = 0
      BY <3>2, FS_EmptySet
    <3>4. pages[p].document + Cardinality(Pending(p)) = views[p].document
      BY <2>3 DEF Counted
    <3> QED BY <3>1, <3>3, <3>4
  <2>6. views[p].state = "dead" /\ ~pages[p].restored => pages[p].lifecycle = "terminated"
    BY <2>1, <2>3 DEF Mourned
  <2>7. /\ pages[p].load = "loading" => views[p].load # "none"
        /\ timeouts = 0 /\ views[p].load \in {"started", "committed"} => pages[p].load = "loading"
    BY <2>1, <2>2, <2>3, <2>4 DEF Loads
  <2> QED BY <2>5, <2>6, <2>7
<1> QED BY <1>1, ChannelHeld, FollowHeld, PTL
=============================================================================
