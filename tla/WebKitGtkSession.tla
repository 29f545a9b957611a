-------------------------- MODULE WebKitGtkSession --------------------------
(***************************************************************************)
(* The WebKitGTK backend, src/workbench/webkitgtk_backend.py, over the     *)
(* pages of the adapter (WebKitGtkWorker): what it knows of the pages by   *)
(* folding the engine's events, what it sends, and what its waits mean.    *)
(*                                                                         *)
(* The host is sequential: `call' is the protocol operation in progress and*)
(* where it waits.  In a request it takes events until its reply           *)
(* (AdapterTransport.request), in a loop it takes one event per turn       *)
(* (pump_events) and tests its condition in between.                       *)
(***************************************************************************)
EXTENDS WebKitGtkWorker

CONSTANTS
  Clients,        \* client identities
  Saved,          \* checkpoints of earlier sessions that may be resumed
  MaxTimeouts,    \* bound: requests that miss their deadline
  Handover        \* bound: whether a checkpoint may release the lease

ASSUME SessionAssumption ==
  /\ None \notin Clients /\ MaxTimeouts \in Nat /\ Handover \in BOOLEAN
  /\ Saved \subseteq [generation : Nat, blank : BOOLEAN]

VARIABLES
  writer,      \* writer_id
  pages,       \* self.pages
  active,      \* active_page_id, 0 for None
  prompts,     \* self.dialogs: status of each token
  target,      \* the target the client read last
  call,        \* the operation in progress
  timeouts     \* requests that missed their deadline

host == <<writer, pages, active, prompts, target, call, timeouts>>
vars == <<worker, host>>

-----------------------------------------------------------------------------
\* document and restored are not in the code's record: the documents committed
\* as far as the host knows, and whether _restore set the page up.
Page == [lifecycle : {"absent", "open", "terminated"}, generation : Nat,
         load : {"idle", "loading"},
         document : Nat, restored : BOOLEAN]
Absent == [lifecycle |-> "absent", generation |-> 0, load |-> "idle",
           document |-> 0, restored |-> FALSE]
NewPage == [Absent EXCEPT !.lifecycle = "open", !.generation = 1]

NotSaved == [generation |-> 0, blank |-> TRUE]

\* stage: waiting for a reply, or pumping until the page is idle, a dialog is
\* there, the process has ended, or the engine is quiet.
Call == [op : {"none", "create", "restore", "new", "close", "navigate", "await",
               "observe", "targets", "click", "decide", "crash"},
         stage : {"none", "request", "load", "prompt", "death", "drain"},
         page : 0..MaxPages, token : Tokens \union {None},
         client : Clients \union {None}, saved : Saved \union {NotSaved}]
NoCall == [op |-> "none", stage |-> "none", page |-> 0, token |-> None,
           client |-> None, saved |-> NotSaved]

Init ==
  /\ InitWorker
  /\ writer = None
  /\ pages = [p \in Pages |-> Absent] /\ active = 0
  /\ prompts = [t \in Tokens |-> "absent"]
  /\ target = NoTarget /\ call = NoCall /\ timeouts = 0

Known(p) == p \in Pages /\ pages[p].lifecycle # "absent"

\* The calls of the host touch the worker through the channel alone.
UnchangedEngine == UNCHANGED <<views, evaluations, dialogs, loads, decided, strays>>

-----------------------------------------------------------------------------
(* Calls: what is checked and done before the first wait.                   *)

Idle == call = NoCall

\* _require_writer: whoever names no client passes as the writer.
MayWrite(client) == writer # None /\ client \in {None, writer}

Query(op, page, token, read) ==
  [op |-> op, page |-> page, token |-> token, target |-> read, fresh |-> TRUE]
Sends(request) ==
  inbox' = Append(inbox, request) /\ UNCHANGED wire /\ UnchangedEngine

Enters(op, stage, page) ==
  call' = [NoCall EXCEPT !.op = op, !.stage = stage, !.page = page]

Create(client, saved) ==
  /\ Idle /\ writer \in {None, client}
  /\ Sends(Query("session.open", 0, None, NoTarget))
  /\ call' = [NoCall EXCEPT !.op = "create", !.stage = "request",
                            !.client = client, !.saved = saved]
  /\ UNCHANGED <<writer, pages, active, prompts, target, timeouts>>

\* session.checkpoint with release_lease.
Release(client) ==
  /\ Idle /\ MayWrite(client) /\ Handover
  /\ writer' = None
  /\ UNCHANGED <<worker, pages, active, prompts, target, call, timeouts>>

TabNew(client) ==
  /\ Idle /\ MayWrite(client) /\ NextPage + Len(inbox) <= MaxPages
  /\ Sends(Query("page.new", 0, None, NoTarget))
  /\ Enters("new", "request", 0)
  /\ UNCHANGED <<writer, pages, active, prompts, target, timeouts>>

TabClose(client, p) ==
  /\ Idle /\ MayWrite(client) /\ Known(p)
  /\ Sends(Query("page.close", p, None, NoTarget))
  /\ Enters("close", "request", p)
  /\ UNCHANGED <<writer, pages, active, prompts, target, timeouts>>

\* page_navigate tests the writer only if there is one or a client is named.
MayNavigate(client) == (client # None \/ writer # None) => MayWrite(client)

\* The page is marked as loading before the request is sent.
MarkedLoading(p) == [pages EXCEPT ![p].load = "loading"]

Navigate(client, p) ==
  /\ Idle /\ MayNavigate(client)
  /\ Known(p) /\ pages[p].lifecycle = "open"
  /\ loads + Len(inbox) < MaxLoads
  /\ pages' = MarkedLoading(p)
  /\ Sends(Query("page.navigate", p, None, NoTarget))
  /\ Enters("navigate", "request", p)
  /\ UNCHANGED <<writer, active, prompts, target, timeouts>>

AwaitIdle(p) ==
  /\ Idle /\ Known(p)
  /\ Enters("await", "load", p)
  /\ UNCHANGED <<worker, writer, pages, active, prompts, target, timeouts>>

\* await_pending(dialogs=1).
AwaitPrompt ==
  /\ Idle
  /\ Enters("await", "prompt", 0)
  /\ UNCHANGED <<worker, writer, pages, active, prompts, target, timeouts>>

ObserveState(p) ==
  /\ Idle /\ Known(p)
  /\ Sends(Query("page.observe", p, None, NoTarget))
  /\ Enters("observe", "request", p)
  /\ UNCHANGED <<writer, pages, active, prompts, target, timeouts>>

\* _evaluate runs the script in the active page, whichever page is observed.
ObserveTargets(p) ==
  /\ Idle /\ Known(p)
  /\ Sends(Query("targets", active, None, NoTarget))
  /\ Enters("targets", "request", p)
  /\ UNCHANGED <<writer, pages, active, prompts, target, timeouts>>

\* _check_target.
Admissible == Known(target.page) /\ target.generation = pages[target.page].generation

Click(client) ==
  /\ Idle /\ MayWrite(client) /\ Admissible
  /\ Sends(Query("click", active, None, target))
  /\ Enters("click", "request", target.page)
  /\ UNCHANGED <<writer, pages, active, prompts, target, timeouts>>

ResolvesFirst(client, t) ==          \* mutant: recorded before it is applied
  /\ Idle /\ MayWrite(client) /\ active # 0
  /\ prompts[t] = "pending"
  /\ prompts' = [prompts EXCEPT ![t] = "resolved"]
  /\ Sends(Query("page.decide", 0, t, NoTarget))
  /\ call' = [NoCall EXCEPT !.op = "decide", !.stage = "request", !.token = t]
  /\ UNCHANGED <<writer, pages, active, target, timeouts>>
Decide(client, t) ==
  /\ Idle /\ MayWrite(client) /\ active # 0
  /\ prompts[t] = "pending"
  /\ Sends(Query("page.decide", 0, t, NoTarget))
  /\ call' = [NoCall EXCEPT !.op = "decide", !.stage = "request", !.token = t]
  /\ UNCHANGED <<writer, pages, active, prompts, target, timeouts>>

CrashesOnce(client, p) ==            \* mutant: a terminated page is not asked again
  /\ Idle /\ MayWrite(client) /\ Known(p)
  /\ IF pages[p].lifecycle = "terminated"
     THEN Enters("crash", "drain", p) /\ UNCHANGED worker
     ELSE /\ Sends(Query("page.terminate", p, None, NoTarget))
          /\ Enters("crash", "request", p)
  /\ UNCHANGED <<writer, pages, active, prompts, target, timeouts>>
\* The intent test.crash.
Crash(client, p) ==
  /\ Idle /\ MayWrite(client) /\ Known(p)
  /\ Sends(Query("page.terminate", p, None, NoTarget))
  /\ Enters("crash", "request", p)
  /\ UNCHANGED <<writer, pages, active, prompts, target, timeouts>>

-----------------------------------------------------------------------------
(* _ingest: an engine event is folded into the page and the prompts.        *)

FailureIgnored(page, kind) ==        \* mutant: load-failed is not projected
  CASE kind = "started"    -> [page EXCEPT !.load = "loading"]
    [] kind = "committed"  -> [page EXCEPT !.generation = @ + 1, !.document = @ + 1]
    [] kind = "finished"   -> [page EXCEPT !.load = "idle"]
    [] kind = "terminated" -> [page EXCEPT !.lifecycle = "terminated", !.load = "idle"]
    [] OTHER               -> page
FailureIsALifecycle(page, kind) ==   \* mutant: a failure is written over the lifecycle
  IF kind = "failed" THEN [page EXCEPT !.lifecycle = "failed"]
  ELSE FailureIgnored(page, kind)
Applied(page, kind) ==
  CASE kind = "started"    -> [page EXCEPT !.load = "loading"]
    [] kind = "committed"  -> [page EXCEPT !.generation = @ + 1, !.document = @ + 1]
    [] kind = "finished"   -> [page EXCEPT !.load = "idle"]
    [] kind = "failed"     -> [page EXCEPT !.load = "idle"]
    [] kind = "terminated" -> [page EXCEPT !.lifecycle = "terminated", !.load = "idle"]
    [] OTHER               -> page

AppliesToActive ==                   \* mutant: folds into self.page
  /\ call.stage # "none"
  /\ wire # <<>> /\ Head(wire).kind # "reply"
  /\ wire' = Tail(wire)
  /\ LET e == Head(wire)
     IN  /\ pages' = IF Known(active)
                     THEN [pages EXCEPT ![active] = Applied(@, e.kind)] ELSE pages
         /\ prompts' = IF e.kind = "dialog"
                       THEN [prompts EXCEPT ![e.token] = "pending"] ELSE prompts
  /\ UNCHANGED <<inbox, writer, active, target, call, timeouts>>
  /\ UnchangedEngine
\* Events of a page the host does not know are recorded, not applied.
TakeEvent ==
  /\ call.stage # "none"
  /\ wire # <<>> /\ Head(wire).kind # "reply"
  /\ wire' = Tail(wire)
  /\ LET e == Head(wire)
     IN  /\ pages' = IF Known(e.page)
                     THEN [pages EXCEPT ![e.page] = Applied(@, e.kind)] ELSE pages
         /\ prompts' = IF e.kind = "dialog"
                       THEN [prompts EXCEPT ![e.token] = "pending"] ELSE prompts
  /\ UNCHANGED <<inbox, writer, active, target, call, timeouts>>
  /\ UnchangedEngine

-----------------------------------------------------------------------------
(* The end of a request: an exception, or its reply.                        *)

\* Nothing under way will be recognised any more.
Stale(s) == [i \in DOMAIN s |-> [s[i] EXCEPT !.fresh = FALSE]]
Abandoned(frames) ==
  /\ inbox' = Stale(inbox)
  /\ evaluations' = [i \in DOMAIN evaluations |->
                       [evaluations[i] EXCEPT !.request.fresh = FALSE]]
  /\ wire' = [i \in DOMAIN frames |->
                IF frames[i].kind = "reply" THEN [frames[i] EXCEPT !.fresh = FALSE]
                ELSE frames[i]]

\* page_navigate takes its mark back when the request raises.
Raises ==
  /\ call' = NoCall
  /\ pages' = IF call.op \in {"navigate", "restore"} /\ call.stage = "request"
              THEN [pages EXCEPT ![call.page].load = "idle"] ELSE pages
  /\ UNCHANGED <<writer, active, prompts, target,
                 views, dialogs, loads, decided, strays>>

RequestTimesOut ==
  /\ call.stage = "request" /\ timeouts < MaxTimeouts
  /\ Abandoned(wire)
  /\ timeouts' = timeouts + 1
  /\ Raises

ReplyIs(fresh, ok) ==
  /\ wire # <<>>
  /\ Head(wire).kind = "reply"
  /\ Head(wire).fresh = fresh
  /\ Head(wire).ok = ok

\* The reply of a request given up before: integrity_mismatch.
RequestMeetsLateReply ==
  /\ call.stage = "request"
  /\ ReplyIs(FALSE, TRUE) \/ ReplyIs(FALSE, FALSE)
  /\ Abandoned(Tail(wire))
  /\ Raises
  /\ UNCHANGED timeouts

RequestRefused ==
  /\ call.stage = "request" /\ ReplyIs(TRUE, FALSE)
  /\ wire' = Tail(wire)
  /\ Raises
  /\ UNCHANGED <<inbox, evaluations, timeouts>>

Replied(op) ==
  /\ call.op = op /\ call.stage = "request" /\ ReplyIs(TRUE, TRUE)
  /\ wire' = Tail(wire)
  /\ UNCHANGED timeouts
  /\ UnchangedEngine
value == Head(wire).value

\* session_create goes on to _restore, whose page_navigate names no client.
Created ==
  /\ Replied("create")
  /\ active' = value
  /\ LET saved == call.saved
         navigates == saved # NotSaved /\ ~saved.blank
         page == IF saved = NotSaved THEN NewPage
                 ELSE [NewPage EXCEPT !.generation = saved.generation + 1,
                                      !.restored = TRUE]
     IN  IF navigates
         THEN /\ pages' = [pages EXCEPT ![value] = [NewPage EXCEPT !.load = "loading"]]
              /\ inbox' = Append(inbox, Query("page.navigate", value, None, NoTarget))
              /\ call' = [call EXCEPT !.op = "restore", !.page = value]
              /\ UNCHANGED writer
         ELSE /\ pages' = [pages EXCEPT ![value] = page]
              /\ writer' = call.client
              /\ call' = NoCall
              /\ UNCHANGED inbox
  /\ UNCHANGED <<prompts, target>>

RestoreAccepted ==
  /\ Replied("restore")
  /\ call' = [call EXCEPT !.stage = "load"]
  /\ UNCHANGED <<inbox, writer, pages, active, prompts, target>>

TabOpened ==
  /\ Replied("new")
  /\ pages' = [pages EXCEPT ![value] = NewPage]
  /\ active' = value
  /\ call' = NoCall
  /\ UNCHANGED <<inbox, writer, prompts, target>>

KeepsActive ==                       \* mutant: the active page is not replaced
  /\ Replied("close")
  /\ pages' = [pages EXCEPT ![call.page] = Absent]
  /\ call' = NoCall
  /\ UNCHANGED <<inbox, writer, active, prompts, target>>
\* The first page left becomes the active one.
TabClosed ==
  /\ Replied("close")
  /\ pages' = [pages EXCEPT ![call.page] = Absent]
  /\ LET left == {p \in Pages : Known(p)} \ {call.page}
     IN  active' = IF left = {} THEN 0 ELSE CHOOSE p \in left : \A q \in left : p <= q
  /\ call' = NoCall
  /\ UNCHANGED <<inbox, writer, prompts, target>>

NavigationAccepted ==
  /\ Replied("navigate")
  /\ call' = NoCall
  /\ UNCHANGED <<inbox, writer, pages, active, prompts, target>>

\* The engine can say that it loads, not that it does not.
StateObserved ==
  /\ Replied("observe")
  /\ pages' = IF value = 1 THEN MarkedLoading(call.page) ELSE pages
  /\ call' = NoCall
  /\ UNCHANGED <<inbox, writer, active, prompts, target>>

\* The generation is the one the page has when the reply is there.
TargetsObserved ==
  /\ Replied("targets")
  /\ target' = [page |-> call.page, generation |-> pages[call.page].generation,
                readPage |-> active, readDocument |-> value]
  /\ call' = NoCall
  /\ UNCHANGED <<inbox, writer, pages, active, prompts>>

Clicked ==
  /\ Replied("click")
  /\ call' = [call EXCEPT !.stage = "drain"]
  /\ UNCHANGED <<inbox, writer, pages, active, prompts, target>>

Decided ==
  /\ Replied("decide")
  /\ prompts' = [prompts EXCEPT ![call.token] = "resolved"]
  /\ call' = [call EXCEPT !.stage = "drain"]
  /\ UNCHANGED <<inbox, writer, pages, active, target>>

Terminated ==
  /\ Replied("crash")
  /\ call' = [call EXCEPT !.stage = "death"]
  /\ UNCHANGED <<inbox, writer, pages, active, prompts, target>>

-----------------------------------------------------------------------------
(* Loops over pump_events.                                                  *)

Pumping(stage) == call.stage = stage /\ UNCHANGED worker

AwaitReturns ==
  /\ Pumping("load") /\ call.op = "await" /\ pages[call.page].load = "idle"
  /\ call' = NoCall
  /\ UNCHANGED <<writer, pages, active, prompts, target, timeouts>>

\* The rest of _restore and of session_create.
Restored ==
  /\ Pumping("load") /\ call.op = "restore" /\ pages[call.page].load = "idle"
  /\ pages' = [pages EXCEPT ![call.page].generation = call.saved.generation + 1,
                            ![call.page].lifecycle = "open",
                            ![call.page].restored = TRUE]
  /\ writer' = call.client
  /\ call' = NoCall
  /\ UNCHANGED <<active, prompts, target, timeouts>>

LoadDeadline ==
  /\ Pumping("load") /\ pages[call.page].load # "idle"
  /\ call' = NoCall
  /\ UNCHANGED <<writer, pages, active, prompts, target, timeouts>>

\* await_pending counts every dialog there has been.  Its deadline is tested
\* first: returning and raising leave the same state.
PromptWaitEnds ==
  /\ Pumping("prompt")
  /\ call' = NoCall
  /\ UNCHANGED <<writer, pages, active, prompts, target, timeouts>>

TerminationConfirmed ==
  /\ Pumping("death") /\ pages[call.page].lifecycle = "terminated"
  /\ call' = [call EXCEPT !.stage = "drain"]
  /\ UNCHANGED <<writer, pages, active, prompts, target, timeouts>>

TerminationDeadline ==
  /\ Pumping("death") /\ pages[call.page].lifecycle # "terminated"
  /\ call' = NoCall
  /\ UNCHANGED <<writer, pages, active, prompts, target, timeouts>>

\* _drain_effects: 250 ms without an event, or 4 s in all.
DrainEnds ==
  /\ Pumping("drain")
  /\ call' = NoCall
  /\ UNCHANGED <<writer, pages, active, prompts, target, timeouts>>

\* pump_events raises integrity_mismatch when it meets a late reply.
PumpMeetsLateReply ==
  /\ call.stage \in {"load", "prompt", "death", "drain"}
  /\ wire # <<>> /\ Head(wire).kind = "reply"
  /\ wire' = Tail(wire)
  /\ Raises
  /\ UNCHANGED <<inbox, evaluations, timeouts>>

-----------------------------------------------------------------------------
Calls ==
  \/ \E client \in Clients, saved \in Saved \union {NotSaved} : Create(client, saved)
  \/ \E client \in Clients \union {None} :
       \/ Release(client) \/ TabNew(client) \/ Click(client)
       \/ \E p \in Pages : TabClose(client, p) \/ Navigate(client, p) \/ Crash(client, p)
       \/ \E t \in Tokens : Decide(client, t)
  \/ \E p \in Pages : AwaitIdle(p) \/ ObserveState(p) \/ ObserveTargets(p)
  \/ AwaitPrompt

Replies ==
  \/ RequestTimesOut \/ RequestMeetsLateReply \/ RequestRefused
  \/ Created \/ RestoreAccepted \/ TabOpened \/ TabClosed \/ NavigationAccepted
  \/ StateObserved \/ TargetsObserved \/ Clicked \/ Decided \/ Terminated

Pumps ==
  \/ AwaitReturns \/ Restored \/ LoadDeadline \/ PromptWaitEnds
  \/ TerminationConfirmed \/ TerminationDeadline \/ DrainEnds
  \/ PumpMeetsLateReply

\* The adapter and the engine leave the host's state alone.
WorkerStep == (Handler \/ Engine) /\ UNCHANGED host

Next == Calls \/ TakeEvent \/ Replies \/ Pumps \/ WorkerStep

Spec == Init /\ [][Next]_vars

-----------------------------------------------------------------------------
(* Properties.                                                              *)

\* Every variable has its type.
TypeOK ==
  /\ WorkerTypeOK
  /\ writer \in Clients \union {None}
  /\ pages \in [Pages -> Page] /\ active \in 0..MaxPages
  /\ prompts \in [Tokens -> {"absent", "pending", "resolved"}]
  /\ target \in Target /\ call \in Call /\ timeouts \in Nat

\* The host has taken everything the adapter wrote, and nothing is in progress.
Settled == Idle /\ wire = <<>>

\* Once the host has caught up, it knows each page's document; a page it holds
\* for loading is loading, so that an await for idle is answered by an event to
\* come; and unless a request was given up, a page under way is held for
\* loading.  (_apply, page_navigate's mark, page_observe's correction.)
ProjectionFollows ==
  Settled => \A p \in Pages :
    Known(p) /\ Exists(p) =>
      /\ pages[p].document = views[p].document
      /\ pages[p].load = "loading" => views[p].load # "none"
      /\ timeouts = 0 /\ views[p].load \in {"started", "committed"} =>
           pages[p].load = "loading"
      /\ views[p].state = "dead" /\ ~pages[p].restored =>
           pages[p].lifecycle = "terminated"

\* Between calls host and adapter have the same pages, unless a request was
\* given up, and the page scripts run in is one of them.  (page_tabs.)
PagesAgree ==
  Idle =>
    /\ timeouts = 0 => \A p \in Pages : Known(p) <=> Exists(p)
    /\ active = 0 => \A p \in Pages : ~Known(p)
    /\ active # 0 => Known(active)

\* A decision is applied at most once, however often the host asks again after
\* a request that missed its deadline; and one the host records as resolved has
\* been applied.  (op_page_decide takes the token out; _decide, _act_dialog.)
DecidedOnce ==
  \A t \in Tokens :
    /\ decided[t] <= 1
    /\ prompts[t] = "resolved" => decided[t] = 1

\* Once the host has caught up, it can decide every dialog the engine holds,
\* and unless a request was given up it offers no other.
PromptsFollow ==
  Settled => \A t \in Tokens :
    /\ dialogs[t].status = "held" => prompts[t] = "pending"
    /\ timeouts = 0 /\ prompts[t] = "pending" => dialogs[t].status = "held"

\* When test.crash reports success the web process is gone, also if an earlier
\* one had gone before and a load had started a new one.  (_act_crash.)
CrashIsReal ==
  call.op = "crash" /\ call.stage = "drain" => views[call.page].state # "live"

\* Unless a request was given up, a click with the targets read last lands in
\* the document they were read from, although that document may have been
\* replaced before they were stamped.  (TARGET_SCRIPT's mark, _check_target.)
ClickHitsItsDocument == timeouts = 0 => "document" \notin strays

\* docs/DECISIONS_NATIVE_SLICE1.md: "A wait for an idle page now means 'the
\* navigation I asked for has finished'" (on a page that is open).
AwaitMeansFinished ==
  [][AwaitReturns /\ pages[call.page].lifecycle = "open" =>
       ~views[call.page].byHost]_vars

\* webkitgtk_backend.py: "a target is only valid for the document it was read
\* from."
NoStrayClick == strays = {}

\* webkitgtk_backend.py: a restoration is a navigation, "so the successor
\* observes the engine reaching that state rather than being told it is already
\* there."
RestoredIsShown ==
  [][Restored => /\ views[call.page].state = "live"
                 /\ views[call.page].document > 0]_vars
=============================================================================
