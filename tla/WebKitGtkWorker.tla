--------------------------- MODULE WebKitGtkWorker ---------------------------
(***************************************************************************)
(* The pages of the native adapter, native/webkitgtk-worker/src/           *)
(* native_adapter.rs: its request handlers, its engine callbacks, and of   *)
(* the engine behind them what they report.                                *)
(*                                                                         *)
(* The channel to the host is ordered and loses nothing: that is what      *)
(* NativeTransport establishes (AcceptedIsPrefix), or else ends the session*)
(* (FaultIsTerminal).  Requests arrive in `inbox', events and replies leave*)
(* in `wire'.  `fresh' stands for the seq of a request: it is TRUE as long *)
(* as the host waits for this reply, so that a reply with fresh = FALSE is *)
(* one whose seq the host no longer expects.                               *)
(*                                                                         *)
(* The adapter's own active_page is left out: every request the host sends *)
(* names a page.  Titles, resources, console messages, file choosers,      *)
(* permissions and downloads are left out too; a script dialog stands for  *)
(* the requests held open until the host decides.                          *)
(***************************************************************************)
EXTENDS Integers, Sequences, FiniteSets

CONSTANTS
  None,        \* no token, no client
  MaxPages,    \* bound: pages ever created
  MaxLoads,    \* bound: loads asked for (one under way may exceed it)
  Tokens,      \* bound: the tokens of the dialogs ever opened
  MaxWire      \* bound: frames written and not yet taken

ASSUME WorkerAssumption ==
  /\ MaxPages \in Nat \ {0} /\ MaxLoads \in Nat /\ MaxWire \in Nat \ {0}
  /\ None \notin Tokens

VARIABLES
  inbox,         \* INBOX: requests not yet handled
  wire,          \* events and replies the host has not taken yet
  views,         \* state.pages with the engine's state of each
  evaluations,   \* futures of op_page_evaluate, in the order they were made
  dialogs,       \* state.dialogs: status of each token and the page it blocks
  loads,         \* loads asked for so far
  decided,       \* for each token, how often a decision was applied to it
  strays         \* what clicks missed: "page", "document"

worker == <<inbox, wire, views, evaluations, dialogs, loads, decided, strays>>

-----------------------------------------------------------------------------
Pages == 1..MaxPages

\* A target as a client holds it.  readPage and readDocument say where its
\* element really is: they are not in the code's record.
Target == [page : 0..MaxPages, generation : Nat,
           readPage : 0..MaxPages, readDocument : Nat]
NoTarget == [page |-> 0, generation |-> 0, readPage |-> 0, readDocument |-> 0]

Op == {"session.open", "page.new", "page.close", "page.navigate",
       "page.observe", "page.terminate", "page.decide",
       "targets", "click"}             \* page.evaluate with the host's scripts
Request == [op : Op, page : 0..MaxPages, token : Tokens \union {None},
            target : Target, fresh : BOOLEAN]

LoadEvent == {"started", "committed", "finished", "failed"}
Message ==
  [kind : LoadEvent \union {"terminated"}, page : Pages]
    \union [kind : {"dialog"}, page : Pages, token : Tokens]
    \union [kind : {"reply"}, ok : BOOLEAN, value : Nat, fresh : BOOLEAN]

Event(kind, p) == [kind |-> kind, page |-> p]
Reply(r, ok, value) ==
  [kind |-> "reply", ok |-> ok, value |-> value, fresh |-> r.fresh]

\* byHost: the load under way is one of page.navigate's; marked: TARGET_SCRIPT
\* has set its attributes in the document shown.
View == [state : {"none", "live", "dead", "closed"}, document : Nat,
         load : {"none", "requested", "started", "committed"}, byHost : BOOLEAN,
         marked : BOOLEAN]
NoView == [state |-> "none", document |-> 0, load |-> "none", byHost |-> FALSE,
           marked |-> FALSE]

Evaluation == [request : Request, document : Nat,
               stage : {"queued", "blocked", "done", "failed"}]

InitWorker ==
  /\ inbox = <<>> /\ wire = <<>> /\ evaluations = <<>>
  /\ views = [p \in Pages |-> NoView]
  /\ dialogs = [t \in Tokens |-> [status |-> "unused", page |-> 0]]
  /\ loads = 0 /\ decided = [t \in Tokens |-> 0] /\ strays = {}

Exists(p) == p \in Pages /\ views[p].state \in {"live", "dead"}
Opened == \E p \in Pages : views[p].state # "none"
NextPage == Cardinality({p \in Pages : views[p].state # "none"}) + 1
Blocked(p) == \E t \in Tokens : dialogs[t] = [status |-> "held", page |-> p]

Emit(messages) == Len(wire) < MaxWire /\ wire' = wire \o messages

-----------------------------------------------------------------------------
(* Request handlers.                                                        *)

Handles(ops) ==
  /\ inbox # <<>> /\ Head(inbox).op \in ops
  /\ inbox' = Tail(inbox)

PageOps == {"page.close", "page.navigate", "page.observe", "page.terminate",
            "targets", "click"}

\* page_view found the page the request names.
HandlesPage(op) == Handles({op}) /\ Exists(Head(inbox).page)

PageNotFound ==
  /\ Handles(PageOps) /\ ~Exists(Head(inbox).page)
  /\ Emit(<<Reply(Head(inbox), FALSE, 0)>>)
  /\ UNCHANGED <<views, evaluations, dialogs, loads, decided, strays>>

OpSessionOpen ==
  /\ Handles({"session.open"})
  /\ IF Opened
     THEN Emit(<<Reply(Head(inbox), FALSE, 0)>>) /\ UNCHANGED views
     ELSE /\ views' = [views EXCEPT ![1].state = "live"]
          /\ Emit(<<Reply(Head(inbox), TRUE, 1)>>)
  /\ UNCHANGED <<evaluations, dialogs, loads, decided, strays>>

OpPageNew ==
  /\ Handles({"page.new"})
  /\ views' = [views EXCEPT ![NextPage].state = "live"]
  /\ Emit(<<Reply(Head(inbox), TRUE, NextPage)>>)
  /\ UNCHANGED <<evaluations, dialogs, loads, decided, strays>>

\* What was being evaluated in a page that goes away resolves to an error.
Failed(p) ==
  [i \in DOMAIN evaluations |->
     IF evaluations[i].request.page = p /\ evaluations[i].stage # "done"
     THEN [evaluations[i] EXCEPT !.stage = "failed"] ELSE evaluations[i]]

Gone(p, state) ==
  [views EXCEPT ![p] = [@ EXCEPT !.state = state, !.load = "none", !.byHost = FALSE,
                            !.marked = FALSE]]

OpPageClose ==
  /\ HandlesPage("page.close")
  /\ LET p == Head(inbox).page
     IN  /\ views' = Gone(p, "closed")
         /\ evaluations' = Failed(p)
         /\ Emit(<<Reply(Head(inbox), TRUE, 0)>>)
  /\ UNCHANGED <<dialogs, loads, decided, strays>>

Loading(p, byHost) ==
  [views EXCEPT ![p] = [@ EXCEPT !.state = "live", !.load = "requested",
                                 !.byHost = byHost]]

\* load_uri starts a dead web process again.  The load it replaces may be
\* reported as failed.
OpPageNavigate ==
  /\ HandlesPage("page.navigate")
  /\ LET p == Head(inbox).page
         cancelled == IF views[p].load \in {"started", "committed"}
                      THEN {<<>>, <<Event("failed", p)>>} ELSE {<<>>}
     IN  /\ views' = Loading(p, TRUE)
         /\ loads' = loads + 1
         /\ \E old \in cancelled :
              Emit(Append(old, Reply(Head(inbox), TRUE, 0)))
  /\ UNCHANGED <<evaluations, dialogs, decided, strays>>

\* The reply's value is is_loading.
OpPageObserve ==
  /\ HandlesPage("page.observe")
  /\ LET loading == views[Head(inbox).page].load # "none"
     IN  Emit(<<Reply(Head(inbox), TRUE, IF loading THEN 1 ELSE 0)>>)
  /\ UNCHANGED <<views, evaluations, dialogs, loads, decided, strays>>

\* The engine reports the end of the process before or after the reply.
OpPageTerminate ==
  /\ HandlesPage("page.terminate")
  /\ LET p == Head(inbox).page
         reply == Reply(Head(inbox), TRUE, 0)
         event == Event("terminated", p)
     IN  IF views[p].state = "live"
         THEN /\ views' = Gone(p, "dead")
              /\ evaluations' = Failed(p)
              /\ \E frames \in {<<event, reply>>, <<reply, event>>} : Emit(frames)
         ELSE Emit(<<reply>>) /\ UNCHANGED <<views, evaluations>>
  /\ UNCHANGED <<dialogs, loads, decided, strays>>

\* The reply is written when the future resolves.
OpPageEvaluate ==
  /\ HandlesPage("targets") \/ HandlesPage("click")
  /\ evaluations' = Append(evaluations,
       [request |-> Head(inbox), document |-> 0,
        stage |-> IF views[Head(inbox).page].state = "live" THEN "queued"
                  ELSE "failed"])
  /\ UNCHANGED <<wire, views, dialogs, loads, decided, strays>>

KeepsToken ==                        \* mutant: looks the token up, leaves it in
  /\ Handles({"page.decide"})
  /\ LET t == Head(inbox).token
         held == dialogs[t].status # "unused"
     IN  /\ dialogs' = IF held THEN [dialogs EXCEPT ![t].status = "consumed"] ELSE dialogs
         /\ decided' = IF held THEN [decided EXCEPT ![t] = @ + 1] ELSE decided
         /\ Emit(<<Reply(Head(inbox), held, 0)>>)
  /\ UNCHANGED <<views, evaluations, loads, strays>>
OpPageDecide ==
  /\ Handles({"page.decide"})
  /\ LET t == Head(inbox).token
         held == dialogs[t].status = "held"
     IN  /\ dialogs' = IF held THEN [dialogs EXCEPT ![t].status = "consumed"] ELSE dialogs
         /\ decided' = IF held THEN [decided EXCEPT ![t] = @ + 1] ELSE decided
         /\ Emit(<<Reply(Head(inbox), held, 0)>>)
  /\ UNCHANGED <<views, evaluations, loads, strays>>

Handler ==
  \/ PageNotFound \/ OpSessionOpen \/ OpPageNew \/ OpPageClose
  \/ OpPageNavigate \/ OpPageObserve \/ OpPageTerminate \/ OpPageEvaluate
  \/ OpPageDecide

-----------------------------------------------------------------------------
(* The engine.  Each callback writes its event at once.                     *)

Advances(p, from, to) ==
  /\ views[p].load \in from
  /\ views' = [views EXCEPT ![p].load = to,
                            ![p].byHost = @ /\ to # "none"]
  /\ UNCHANGED <<inbox, evaluations, dialogs, loads, decided, strays>>

LoadStarts(p) ==
  Advances(p, {"requested"}, "started") /\ Emit(<<Event("started", p)>>)

LoadCommits(p) ==
  /\ views[p].load = "started"
  /\ views' = [views EXCEPT ![p] = [@ EXCEPT !.load = "committed",
                                   !.document = views[p].document + 1,
                                   !.marked = FALSE]]
  /\ Emit(<<Event("committed", p)>>)
  /\ UNCHANGED <<inbox, evaluations, dialogs, loads, decided, strays>>

LoadFinishes(p) ==
  Advances(p, {"committed"}, "none") /\ Emit(<<Event("finished", p)>>)

LoadFails(p) ==
  Advances(p, {"started", "committed"}, "none") /\ Emit(<<Event("failed", p)>>)

\* A script of the page asks for another document.
PageNavigates(p) ==
  /\ views[p].state = "live" /\ views[p].document > 0 /\ views[p].load = "none"
  /\ ~Blocked(p) /\ loads < MaxLoads
  /\ views' = Loading(p, FALSE) /\ loads' = loads + 1
  /\ UNCHANGED <<inbox, wire, evaluations, dialogs, decided, strays>>

ProcessDies(p) ==
  /\ views[p].state = "live"
  /\ views' = Gone(p, "dead")
  /\ evaluations' = Failed(p)
  /\ Emit(<<Event("terminated", p)>>)
  /\ UNCHANGED <<inbox, dialogs, loads, decided, strays>>

Asks(p, t) ==
  /\ dialogs[t].status = "unused" /\ ~Blocked(p)
  /\ dialogs' = [dialogs EXCEPT ![t] = [status |-> "held", page |-> p]]
  /\ Emit(<<[kind |-> "dialog", page |-> p, token |-> t]>>)

\* A script of the page opens a dialog: it is held, the page waits.
ScriptDialog(p, t) ==
  /\ views[p].state = "live" /\ views[p].document > 0
  /\ Asks(p, t)
  /\ UNCHANGED <<inbox, views, evaluations, loads, decided, strays>>

-----------------------------------------------------------------------------
(* Evaluations: in the order of their requests within a page, and not while *)
(* a dialog blocks it.  A click may start a load or open a dialog; then it  *)
(* ends only after the decision.                                            *)

InTurn(i) ==
  /\ views[evaluations[i].request.page].state = "live"
  /\ ~Blocked(evaluations[i].request.page)
  /\ \A j \in 1..(i - 1) :
       evaluations[j].request.page = evaluations[i].request.page =>
         evaluations[j].stage \in {"done", "failed"}

ScriptEnds(i, stage) == evaluations' = [evaluations EXCEPT ![i].stage = stage]

\* TARGET_SCRIPT numbers the elements and marks them.
TargetScript(i) ==
  /\ evaluations[i].request.op = "targets" /\ evaluations[i].stage = "queued"
  /\ InTurn(i)
  /\ LET p == evaluations[i].request.page
     IN  /\ evaluations' = [evaluations EXCEPT ![i].stage = "done",
                                               ![i].document = views[p].document]
         /\ views' = [views EXCEPT ![p].marked = TRUE]
  /\ UNCHANGED <<inbox, wire, dialogs, loads, decided, strays>>

\* CLICK_SCRIPT looks for the mark, which no later document has.
ByPosition(p) == TRUE                \* mutant: the element is found by its index
HasElement(p) == views[p].marked

Missed(i) ==
  LET r == evaluations[i].request
      t == r.target
  IN  {w \in {"page", "document"} :
         \/ w = "page" /\ r.page # t.page
         \/ w = "document" /\ r.page = t.readPage
                           /\ views[r.page].document # t.readDocument}

ClickScript(i) ==
  LET p == evaluations[i].request.page
  IN  /\ evaluations[i].request.op = "click" /\ evaluations[i].stage = "queued"
      /\ InTurn(i)
      /\ UNCHANGED <<inbox, decided>>
      /\ \/ /\ ~HasElement(p)
            /\ ScriptEnds(i, "failed")
            /\ UNCHANGED <<wire, views, dialogs, loads, strays>>
         \/ /\ HasElement(p)
            /\ strays' = strays \union Missed(i)
            /\ \/ ScriptEnds(i, "done") /\ UNCHANGED <<wire, views, dialogs, loads>>
               \/ /\ views[p].load = "none" /\ loads < MaxLoads
                  /\ ScriptEnds(i, "done")
                  /\ views' = Loading(p, FALSE) /\ loads' = loads + 1
                  /\ UNCHANGED <<wire, dialogs>>
               \/ \E t \in Tokens :
                    /\ Asks(p, t)
                    /\ ScriptEnds(i, "blocked")
                    /\ UNCHANGED <<views, loads>>

\* The dialog the click opened is decided.
ClickResumes(i) ==
  /\ evaluations[i].stage = "blocked" /\ InTurn(i)
  /\ ScriptEnds(i, "done")
  /\ UNCHANGED <<inbox, wire, views, dialogs, loads, decided, strays>>

\* The main loop gets to the resolved future: events may have come in between.
EvaluationReplies(i) ==
  LET e == evaluations[i]
  IN  /\ e.stage \in {"done", "failed"}
      /\ \A j \in 1..(i - 1) : evaluations[j].request.page # e.request.page
      /\ evaluations' = SubSeq(evaluations, 1, i - 1)
                          \o SubSeq(evaluations, i + 1, Len(evaluations))
      /\ Emit(<<Reply(e.request, e.stage = "done", e.document)>>)
      /\ UNCHANGED <<inbox, views, dialogs, loads, decided, strays>>

Engine ==
  \/ \E p \in Pages :
       \/ LoadStarts(p) \/ LoadCommits(p) \/ LoadFinishes(p) \/ LoadFails(p)
       \/ PageNavigates(p) \/ ProcessDies(p)
       \/ \E t \in Tokens : ScriptDialog(p, t)
  \/ \E i \in DOMAIN evaluations :
       TargetScript(i) \/ ClickScript(i) \/ ClickResumes(i) \/ EvaluationReplies(i)

\* Every variable of the worker has its type.
WorkerTypeOK ==
  /\ inbox \in Seq(Request) /\ wire \in Seq(Message)
  /\ views \in [Pages -> View]
  /\ evaluations \in Seq(Evaluation)
  /\ dialogs \in [Tokens -> [status : {"unused", "held", "consumed"},
                             page : 0..MaxPages]]
  /\ loads \in Nat /\ decided \in [Tokens -> Nat]
  /\ strays \subseteq {"page", "document"}
=============================================================================
