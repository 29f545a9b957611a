----------------------------- MODULE MockBackend -----------------------------
(***************************************************************************)
(* One session of the deterministic backend, src/workbench/mock_backend.py:*)
(* the single-writer lease, checkpoints and their resumption, and one page *)
(* whose navigations are callbacks on a virtual clock.                     *)
(*                                                                         *)
(* Python closures capture the page OBJECT, and resuming a checkpoint      *)
(* replaces the object: `objects' holds every object there has been, `page'*)
(* is the index of the one the session has now, and a callback names the   *)
(* object it was made for.  The backend never makes a second page.         *)
(*                                                                         *)
(* A call that raises changes nothing and is not an action, except an      *)
(* await, whose callbacks have run by the time its deadline is reported.   *)
(***************************************************************************)
EXTENDS Integers, Sequences, FiniteSets

CONSTANTS
  Clients,          \* client identities
  None,             \* Python's None: no writer, a call that names no client
  Urls,             \* the URLs navigated to
  PromptUrl,        \* the one whose document asks for decisions
  Tokens,           \* the decisions it asks for: a dialog and a permission
  Blank,            \* about:blank
  Deadlines,        \* the deadline_ms of awaits
  MaxMoves,         \* bound: navigations, stops and crashes
  MaxSessions,      \* bound: session.create calls
  MaxCheckpoints    \* bound: session.checkpoint calls

ASSUME ConstantsAssumption ==
  /\ None \notin Clients
  /\ Blank \notin Urls /\ PromptUrl \in Urls
  /\ Deadlines \subseteq Nat
  /\ MaxMoves \in Nat /\ MaxSessions \in Nat /\ MaxCheckpoints \in Nat

VARIABLES
  writer,       \* writer_id
  epoch,        \* lease_epoch
  grants,       \* the session.created events: who got the lease, at which epoch
  objects,      \* page objects, in order of creation
  page,         \* the object in self.pages, 0 before the first session
  documents,    \* documents shown so far, by commits and by restores
  checkpoints,  \* checkpoint artifacts
  scheduled,    \* pending callbacks in due order, each with its time to go
  trail,        \* the page's navigation and termination events
  prompts,      \* self.dialogs and self.permissions: status of each token
  target,       \* the target a client holds, NoTarget before it has observed
  waiting       \* the await in progress

sessionVars == <<writer, epoch, grants, checkpoints>>
pageVars    == <<objects, page, documents, scheduled, trail, prompts>>
vars == <<sessionVars, pageVars, target, waiting>>

-----------------------------------------------------------------------------
Page == [generation : Nat, lifecycle : {"open", "terminated"},
         load : {"idle", "loading"}, url : Urls \union {Blank},
         outcome : {"none", "success", "stopped"},
         document : Nat]         \* which document: not in the code's record

NewPage == [generation |-> 1, lifecycle |-> "open", load |-> "idle",
            url |-> Blank, outcome |-> "none", document |-> 1]

EventKind == {"started", "committed", "finished", "stopped", "terminated"}

\* A navigation is known by the number of its started event in the trail.
Callback == [step : {"commit", "finish"}, object : Nat, nav : Nat,
             url : Urls, delay : Int]
Condition == [kind : {"load_state"}] \union [kind : {"url"}, url : Urls]
             \union [kind : {"event_kind"}, event : EventKind]
NotWaiting == [conditions |-> {}, left |-> 0]

\* Generations start at 1, so no page takes this for one of its targets.
NoTarget == [generation |-> 0, object |-> 0, document |-> 0]

Init ==
  /\ writer = None /\ epoch = 0 /\ grants = <<>> /\ checkpoints = <<>>
  /\ objects = <<>> /\ page = 0 /\ documents = 0
  /\ scheduled = <<>> /\ trail = <<>>
  /\ prompts = [t \in Tokens |-> "absent"]
  /\ target = NoTarget /\ waiting = NotWaiting

Current == objects[page]

\* Calls are served one at a time.
Serving == waiting = NotWaiting

\* _require_writer: whoever names no client passes as the writer.
MayWrite(client) == writer # None /\ client \in {None, writer}

Happened(kind, object, nav) ==
  [kind |-> kind, object |-> object, nav |-> nav,
   generation |-> objects[object].generation]

-----------------------------------------------------------------------------
(* The clock.  Only its distance to what is due matters, so each callback   *)
(* keeps the time it has to go.                                             *)

AppendOnly(s, c) == Append(s, c)             \* mutant: the sort is missing

\* _schedule: sorted by due time, then by order of scheduling, so behind all that
\* is not due later.
Insert(s, c) ==
  LET at == CHOOSE k \in 1..Len(s) + 1 :
              \A i \in 1..Len(s) : i < k <=> s[i].delay <= c.delay
  IN  [i \in 1..Len(s) + 1 |->
         IF i < at THEN s[i] ELSE IF i = at THEN c ELSE s[i - 1]]

\* EventLog.advance.
Advance(s, ms) == [i \in 1..Len(s) |-> [s[i] EXCEPT !.delay = @ - ms]]

CommitKeepsGeneration(c, objs) ==            \* mutant: no generation increment
  [objs EXCEPT ![c.object].url = c.url, ![c.object].document = documents + 1]
Committed(c, objs) ==
  [objs EXCEPT ![c.object].generation = @ + 1, ![c.object].url = c.url,
               ![c.object].document = documents + 1]

Finished(c, objs) ==
  [objs EXCEPT ![c.object].load = "idle", ![c.object].outcome = "success"]

\* _run_next_scheduled: the clock moves to the due time of the first callback
\* of queue s, which then runs on objs after the events tr.
RunNext(s, objs, tr) ==
  LET c == Head(s)
      after == IF c.step = "commit" THEN Committed(c, objs) ELSE Finished(c, objs)
      opens == c.step = "commit" /\ c.url = PromptUrl
  IN  /\ scheduled' = Advance(Tail(s), IF c.delay > 0 THEN c.delay ELSE 0)
      /\ objects' = after
      /\ documents' = IF c.step = "commit" THEN documents + 1 ELSE documents
      /\ trail' = Append(tr, [kind |-> IF c.step = "commit" THEN "committed"
                                       ELSE "finished",
                              object |-> c.object, nav |-> c.nav,
                              generation |-> after[c.object].generation])
      /\ prompts' = IF opens THEN [t \in Tokens |-> "pending"] ELSE prompts

-----------------------------------------------------------------------------
(* session.create and session.checkpoint.                                   *)

StealsLease(client) == Serving /\ Len(grants) < MaxSessions   \* mutant: no conflict
MayAcquire(client) ==
  /\ Serving /\ Len(grants) < MaxSessions
  /\ writer \in {None, client}

Grant(client, e) ==
  /\ writer' = client /\ epoch' = e
  /\ grants' = Append(grants, [client |-> client, epoch |-> e])

CreateFirst(client) ==
  /\ MayAcquire(client) /\ page = 0
  /\ Grant(client, 1)
  /\ objects' = <<NewPage>> /\ page' = 1 /\ documents' = 1
  /\ UNCHANGED <<checkpoints, scheduled, trail, prompts, target, waiting>>

\* Without a checkpoint, the session there is is taken over as it stands, at
\* the epoch it has.
CreateAgain(client) ==
  /\ MayAcquire(client) /\ page # 0
  /\ Grant(client, epoch)
  /\ UNCHANGED <<checkpoints, pageVars, target, waiting>>

\* A deep copy of the checkpoint's page becomes the page.  Callbacks already
\* scheduled keep the object they were made for.
Resume(client, k) ==
  LET saved == checkpoints[k].page
      dead == saved.lifecycle = "terminated"
  IN  /\ MayAcquire(client)
      /\ objects' = Append(objects,
           [saved EXCEPT !.generation = @ + 1, !.document = documents + 1,
                         !.lifecycle = "open",
                         !.load = IF dead THEN "idle" ELSE @])
      /\ page' = Len(objects) + 1
      /\ documents' = documents + 1
      /\ Grant(client, checkpoints[k].epoch + 1)
      /\ UNCHANGED <<checkpoints, scheduled, trail, prompts,
                     target, waiting>>

Checkpoint(client, release) ==
  /\ Serving /\ MayWrite(client)
  /\ Len(checkpoints) < MaxCheckpoints
  /\ checkpoints' = Append(checkpoints,
       [page |-> Current, epoch |-> epoch, writer |-> writer])
  /\ writer' = IF release THEN None ELSE writer
  /\ UNCHANGED <<epoch, grants, pageVars, target, waiting>>

-----------------------------------------------------------------------------
(* page.navigate, page.observe and page.act.                                *)

Invoke(client) ==
  /\ Serving /\ MayWrite(client)
  /\ UNCHANGED <<sessionVars, target, waiting>>

\* Moves count towards the bound.
Move(client) ==
  /\ Invoke(client)
  /\ Cardinality({i \in DOMAIN trail :
                    trail[i].kind \in {"started", "stopped", "terminated"}}) < MaxMoves

\* wait = "commit" runs the next callback that is due, whosever it is.
Navigable(p) == p.lifecycle = "open"

FinishBeforeCommit(nav, url) ==              \* mutant: the delays are swapped
  Insert(Insert(scheduled, [step |-> "commit", object |-> page, nav |-> nav,
                            url |-> url, delay |-> 10]),
         [step |-> "finish", object |-> page, nav |-> nav, url |-> url,
          delay |-> 5])
WithNavigation(nav, url) ==
  Insert(Insert(scheduled, [step |-> "commit", object |-> page, nav |-> nav,
                            url |-> url, delay |-> 5]),
         [step |-> "finish", object |-> page, nav |-> nav, url |-> url,
          delay |-> 10])

Navigate(client, url, wait) ==
  LET nav == Len(trail) + 1
      queue == WithNavigation(nav, url)
      loading == [objects EXCEPT ![page].load = "loading"]
      started == Append(trail, Happened("started", page, nav))
  IN  /\ Move(client)
      /\ Navigable(Current)
      /\ IF wait = "commit"
         THEN RunNext(queue, loading, started)
         ELSE /\ objects' = loading /\ scheduled' = queue /\ trail' = started
              /\ UNCHANGED <<documents, prompts>>
      /\ UNCHANGED page

\* Any client may read.
Observe ==
  /\ Serving /\ page # 0
  /\ target' = [generation |-> Current.generation, object |-> page,
                 document |-> Current.document]
  /\ UNCHANGED <<sessionVars, pageVars, waiting>>

\* _check_target: what a click or a type is admitted on.  Their effect, and
\* that of javascript, upload and download.accept, is data nothing here reads:
\* they are not actions.
Admissible == target.generation = Current.generation

Resolve(client, token) ==
  /\ Invoke(client)
  /\ prompts[token] = "pending"
  /\ prompts' = [prompts EXCEPT ![token] = "resolved"]
  /\ UNCHANGED <<objects, page, documents, scheduled, trail>>

StopLeavesFinish(client) ==                  \* mutant: drops commits only
  /\ Move(client)
  /\ objects' = [objects EXCEPT ![page].load = "idle",
                                ![page].outcome = "stopped"]
  /\ scheduled' = SelectSeq(scheduled, LAMBDA c : c.step = "finish")
  /\ trail' = Append(trail, Happened("stopped", page, 0))
  /\ UNCHANGED <<page, documents, prompts>>
StopStaysLoading(client) ==                  \* mutant: the page is not updated
  /\ Move(client)
  /\ scheduled' = <<>>
  /\ trail' = Append(trail, Happened("stopped", page, 0))
  /\ UNCHANGED <<objects, page, documents, prompts>>
Stop(client) ==
  /\ Move(client)
  /\ objects' = [objects EXCEPT ![page].load = "idle",
                                ![page].outcome = "stopped"]
  /\ scheduled' = <<>>
  /\ trail' = Append(trail, Happened("stopped", page, 0))
  /\ UNCHANGED <<page, documents, prompts>>

\* test.crash leaves what is scheduled alone.
Crash(client) ==
  /\ Move(client)
  /\ objects' = [objects EXCEPT ![page].lifecycle = "terminated",
                                ![page].load = "idle"]
  /\ trail' = Append(trail, Happened("terminated", page, 0))
  /\ UNCHANGED <<page, documents, scheduled, prompts>>

-----------------------------------------------------------------------------
(* page.await: runs callbacks until the conditions hold or the next one is  *)
(* due after the deadline.  Each callback is a step; no other call is       *)
(* served in between.                                                       *)

Holds(c) ==
  \/ c.kind = "load_state" /\ Current.load = "idle"
  \/ c.kind = "url" /\ Current.url = c.url
  \/ c.kind = "event_kind" /\ \E i \in 1..Len(trail) : trail[i].kind = c.event

Satisfied == \A c \in waiting.conditions : Holds(c)

IgnoresDeadline == scheduled # <<>>          \* mutant: the deadline is not tested
NextIsDue == scheduled # <<>> /\ Head(scheduled).delay <= waiting.left

AwaitStarts(conditions, deadline) ==
  /\ Serving /\ page # 0
  /\ waiting' = [conditions |-> conditions, left |-> deadline]
  /\ UNCHANGED <<sessionVars, pageVars, target>>

AwaitRuns ==
  /\ ~Serving /\ ~Satisfied
  /\ NextIsDue
  /\ RunNext(scheduled, objects, trail)
  /\ waiting' = [waiting EXCEPT !.left = @ - Head(scheduled).delay]
  /\ UNCHANGED <<sessionVars, page, target>>

AwaitReturns ==
  /\ ~Serving /\ Satisfied
  /\ waiting' = NotWaiting
  /\ UNCHANGED <<sessionVars, pageVars, target>>

AwaitsCallback ==                            \* mutant: expects one to be scheduled
  /\ ~Serving /\ ~Satisfied
  /\ ~NextIsDue /\ scheduled # <<>>
  /\ scheduled' = Advance(scheduled, waiting.left)
  /\ waiting' = NotWaiting
  /\ UNCHANGED <<sessionVars, objects, page, documents, trail, prompts,
                 target>>
AwaitTimesOut ==
  /\ ~Serving /\ ~Satisfied
  /\ ~NextIsDue
  /\ scheduled' = Advance(scheduled, waiting.left)
  /\ waiting' = NotWaiting
  /\ UNCHANGED <<sessionVars, objects, page, documents, trail, prompts,
                 target>>

AwaitStep == AwaitRuns \/ AwaitReturns \/ AwaitTimesOut

-----------------------------------------------------------------------------
\* The awaits of the examples and tests: idle, a URL, both, or an event.
Awaited ==
  {{[kind |-> "load_state"]},
   {[kind |-> "load_state"], [kind |-> "url", url |-> PromptUrl]},
   {[kind |-> "event_kind", event |-> "finished"]}}

SessionStep ==
  \/ \E client \in Clients :
       \/ CreateFirst(client) \/ CreateAgain(client)
       \/ \E k \in 1..Len(checkpoints) : Resume(client, k)
  \/ \E client \in Clients \union {None}, release \in BOOLEAN :
       Checkpoint(client, release)

PageStep ==
  \/ Observe
  \/ \E client \in Clients \union {None} :
       \/ \E url \in Urls, wait \in {"none", "commit"} : Navigate(client, url, wait)
       \/ \E token \in Tokens : Resolve(client, token)
       \/ Stop(client) \/ Crash(client)
  \/ \E conditions \in Awaited, deadline \in Deadlines :
       AwaitStarts(conditions, deadline)

Next == SessionStep \/ PageStep \/ AwaitStep

Spec == Init /\ [][Next]_vars

\* The loop of page_await runs to its end; nothing is assumed of the callers.
FairSpec == Spec /\ WF_vars(AwaitStep)

-----------------------------------------------------------------------------
(* Properties.                                                              *)

\* Every variable has its type.
TypeOK ==
  /\ writer \in Clients \union {None} /\ epoch \in Nat
  /\ grants \in Seq([client : Clients, epoch : Nat])
  /\ checkpoints \in Seq([page : Page, epoch : Nat, writer : Clients])
  /\ objects \in Seq(Page) /\ page \in 0..Len(objects) /\ documents \in Nat
  /\ scheduled \in Seq(Callback)
  /\ trail \in Seq([kind : EventKind, object : Nat, nav : Nat, generation : Nat])
  /\ prompts \in [Tokens -> {"absent", "pending", "resolved"}]
  /\ target \in [generation : Nat, object : Nat, document : Nat]
  /\ waiting \in [conditions : SUBSET Condition, left : Nat]

\* The lease goes from one client to another only through the checkpoint that
\* releases it: nobody is dispossessed, and what the successor can resume was
\* written by the writer before it.  (session_create's conflict check and
\* session_checkpoint's release.)
HandoverOnlyByRelease ==
  [][writer # None /\ writer' # writer =>
       /\ writer' = None
       /\ Len(checkpoints') = Len(checkpoints) + 1
       /\ checkpoints'[Len(checkpoints')].writer = writer]_vars

\* No callback is ever overdue: whatever awaits, deadlines and stops came in
\* between, the clock stops at each due time in turn.  (_schedule's sort.)
NeverOverdue == \A i \in 1..Len(scheduled) : scheduled[i].delay >= 0

\* A navigation is reported as started, committed, finished, in this order and
\* each at most once, with a new generation from the commit on; it may stop
\* short anywhere.
NavigationOrder ==
  \A i, j \in 1..Len(trail) :
    /\ trail[i].kind = "finished" =>
         \E m \in 1..(i - 1) :
           /\ trail[m].kind = "committed" /\ trail[m].nav = trail[i].nav
           /\ trail[trail[m].nav].kind = "started"
           /\ trail[m].generation > trail[trail[m].nav].generation
    /\ i # j /\ trail[i].nav = trail[j].nav /\ trail[i].nav # 0 =>
         trail[i].kind # trail[j].kind

\* After navigation.stop no navigation that was under way says anything more,
\* on this page object or on one a resumption has left behind.
StopIsFinal ==
  \A i, j \in 1..Len(trail) :
    i < j /\ trail[i].kind = "stopped" /\ trail[j].nav # 0 => trail[j].nav > i

\* A page that says it is loading has the callback that ends it ahead, so
\* awaiting idle can succeed - unless it was restored from a checkpoint.
LoadingIsDriven ==
  page # 0 /\ Current.load = "loading" /\ page = 1 =>
    \E i \in 1..Len(scheduled) :
      scheduled[i].object = page /\ scheduled[i].step = "finish"

\* Within one page object a generation stands for one document: a target of an
\* earlier document of it is refused, however commits interleave.
GenerationNamesDocument ==
  page # 0 /\ target.object = page /\ Admissible =>
    target.document = Current.document

\* Every await returns or raises.
AwaitEnds == ~Serving ~> Serving

\* docs/ARCHITECTURE.md: "An action referencing an older target fails with
\* `stale_target` before the backend is invoked."
OlderTargetRefused ==
  page # 0 /\ Admissible => target.document = Current.document

\* docs/ARCHITECTURE.md: "A checkpoint may release the writer lease; the
\* successor receives a higher epoch".
SuccessorHasHigherEpoch ==
  \A i \in 2..Len(grants) :
    grants[i].client # grants[i - 1].client =>
      grants[i].epoch > grants[i - 1].epoch
=============================================================================
