-------------------------- MODULE WebKitGtkRequests --------------------------
(***************************************************************************)
(* What a page asks of the browser and the browser of the host: permission *)
(* requests, file choosers and downloads.  The adapter keeps each under a  *)
(* token (native_adapter.rs), the host registers the tokens it hears of    *)
(* and lets intents decide them (webkitgtk_backend.py).                    *)
(*                                                                         *)
(* The channel is that of WebKitGtkWorker: ordered, requests in `inbox',   *)
(* events and replies in `wire', `fresh' for a seq the host still waits    *)
(* for.  Left out: script dialogs, which block their page, and the writer's*)
(* lease (both in WebKitGtkSession), targets, and the page a request       *)
(* belongs to, which neither registry looks at.                            *)
(*                                                                         *)
(* The quarantine directory and the artifact store's downloads/ are one:   *)
(* the host reads a finished download and writes it back as an artifact.   *)
(***************************************************************************)
EXTENDS Integers, Sequences, FiniteSets

CONSTANTS
  None,         \* no file name yet
  Names,        \* the names that servers suggest
  Kinds,        \* bound: the kinds of request that are raised
  MaxRequests,  \* bound: tokens issued
  MaxUploads,   \* bound: upload intents
  MaxTimeouts,  \* bound: requests that miss their deadline
  MaxWire       \* bound: frames written and not yet taken

ASSUME RequestsAssumption ==
  /\ None \notin Names /\ Kinds \subseteq {"permission", "chooser", "download"}
  /\ MaxRequests \in Nat /\ MaxUploads \in Nat /\ MaxTimeouts \in Nat
  /\ MaxWire \in Nat \ {0}

VARIABLES
  inbox,        \* INBOX: requests not yet handled
  wire,         \* events and replies the host has not taken yet
  requests,     \* what was raised so far, by token
  evaluations,  \* scripts the page has still to run or to answer for
  clicks,       \* uploads whose click may still open a chooser
  files,        \* the quarantine directory
  records,      \* the host's registries, by token
  artifacts,    \* the store's record of each file of downloads/
  receipts,     \* what download.accept reported
  call,         \* the host's call in progress
  uploads,      \* number of upload intents
  timeouts      \* number of requests that missed their deadline

adapter == <<inbox, wire, requests, evaluations, clicks, files>>
evidence == <<artifacts, receipts>>
vars == <<adapter, records, evidence, call, uploads, timeouts>>

-----------------------------------------------------------------------------
Tokens == 1..MaxRequests
Issued == DOMAIN requests

\* A file selected for a chooser is known by the upload that names it.
Decision == [to : {"allow", "deny", "select"}, upload : 0..MaxUploads]
Undecided == [to |-> "none", upload |-> 0]
Allow == [to |-> "allow", upload |-> 0]
Deny == [to |-> "deny", upload |-> 0]
Select(n) == [to |-> "select", upload |-> n]

\* cause: the upload whose click opened the chooser, 0 if no upload's did.
\* answers: the decisions the engine was given, which the code does not keep.
Raised(kind, cause) ==
  [kind |-> kind, held |-> TRUE, cause |-> cause, answers |-> <<>>,
   name |-> None, stage |-> IF kind = "download" THEN "started" ELSE "none"]

Request(op, token, decision) ==
  [op |-> op, token |-> token, decision |-> decision, fresh |-> TRUE]
Event(kind, t) == [kind |-> kind, token |-> t]
Reply(r, ok) == [kind |-> "reply", ok |-> ok, fresh |-> r.fresh]

\* The bytes of a file: whose they are, and whether all of them are there.
NoFile == [of |-> 0, whole |-> FALSE]
Part(t) == [of |-> t, whole |-> FALSE]
Whole(t) == [of |-> t, whole |-> TRUE]

\* since: the upload intent last made when the token was registered (a ghost).
Unknown == [status |-> "absent", decision |-> Undecided, since |-> 0]
NoCall == [op |-> "none", stage |-> "none", token |-> 0, decision |-> Undecided,
           known |-> {}, payload |-> NoFile]

Init ==
  /\ inbox = <<>> /\ wire = <<>> /\ requests = <<>> /\ evaluations = <<>>
  /\ clicks = {} /\ files = [n \in Names |-> NoFile]
  /\ records = [t \in Tokens |-> Unknown]
  /\ artifacts = [n \in Names |-> NoFile] /\ receipts = {}
  /\ call = NoCall /\ uploads = 0 /\ timeouts = 0

Emit(messages) == Len(wire) < MaxWire /\ wire' = wire \o messages

-----------------------------------------------------------------------------
(* The adapter.                                                             *)

Handles(op) == inbox # <<>> /\ Head(inbox).op = op /\ inbox' = Tail(inbox)

OpPageEvaluate ==
  /\ Handles("click") \/ Handles("name")
  /\ evaluations' = Append(evaluations, [request |-> Head(inbox), ran |-> FALSE])
  /\ UNCHANGED <<wire, requests, clicks, files>>

KeepsToken ==                        \* mutant: the token is looked up, not removed
  /\ Handles("decide")
  /\ LET t == Head(inbox).token
     IN  /\ requests' = [requests EXCEPT ![t].answers = Append(@, Head(inbox).decision)]
         /\ Emit(<<Reply(Head(inbox), TRUE)>>)
  /\ UNCHANGED <<evaluations, clicks, files>>

\* The token is removed from its registry, so that it is found once.
OpPageDecide ==
  /\ Handles("decide")
  /\ LET t == Head(inbox).token
         held == requests[t].held
     IN  /\ requests' =
              IF held THEN [requests EXCEPT ![t].held = FALSE,
                                            ![t].answers = Append(@, Head(inbox).decision)]
              ELSE requests
         /\ Emit(<<Reply(Head(inbox), held)>>)
  /\ UNCHANGED <<evaluations, clicks, files>>

Raises(kind, cause) ==
  /\ kind \in Kinds /\ Len(requests) < MaxRequests
  /\ requests' = Append(requests, Raised(kind, cause))
  /\ Emit(<<Event("raised", Len(requests) + 1)>>)

\* A script of the page asks for a permission.
PermissionRequest ==
  Raises("permission", 0) /\ UNCHANGED <<inbox, evaluations, clicks, files>>

\* The click of an upload opens a chooser, or a script of the page does.
RunFileChooser ==
  \E cause \in clicks \union {0} :
    /\ Raises("chooser", cause)
    /\ clicks' = clicks \ {cause}
    /\ UNCHANGED <<inbox, evaluations, files>>

DownloadStarted ==
  Raises("download", 0) /\ UNCHANGED <<inbox, evaluations, clicks, files>>

Transfer(t, from, to) ==
  /\ requests[t].stage \in from
  /\ UNCHANGED <<inbox, evaluations, clicks>>

\* The suggested name decides the path; a file that is there is overwritten.
DecideDestination(t) ==
  /\ Transfer(t, {"started"}, "writing")
  /\ \E n \in Names :
       /\ requests' = [requests EXCEPT ![t].stage = "writing", ![t].name = n]
       /\ files' = [files EXCEPT ![n] = Part(t)]
  /\ UNCHANGED wire

DownloadFinishes(t) ==
  /\ Transfer(t, {"writing"}, "finished")
  /\ requests' = [requests EXCEPT ![t].stage = "finished"]
  /\ files' = [files EXCEPT ![requests[t].name] = Whole(t)]
  /\ Emit(<<Event("finished", t)>>)

\* The engine removes the file, and reports the end after the failure.
DownloadFails(t) ==
  /\ Transfer(t, {"started", "writing"}, "failed")
  /\ requests' = [requests EXCEPT ![t].stage = "failed"]
  /\ files' = [n \in Names |-> IF n = requests[t].name THEN NoFile ELSE files[n]]
  /\ Emit(<<Event("failed", t), Event("finished", t)>>)

\* Scripts run in order; the reply is written when the main loop gets to it.
ScriptRuns ==
  \E i \in DOMAIN evaluations :
    /\ ~evaluations[i].ran /\ \A j \in 1..(i - 1) : evaluations[j].ran
    /\ evaluations' = [evaluations EXCEPT ![i].ran = TRUE]
    /\ LET r == evaluations[i].request
       IN  clicks' = IF r.op = "click" THEN clicks \union {r.decision.upload} ELSE clicks
    /\ UNCHANGED <<inbox, wire, requests, files>>

EvaluationReplies ==
  /\ evaluations # <<>> /\ Head(evaluations).ran
  /\ evaluations' = Tail(evaluations)
  /\ Emit(<<Reply(Head(evaluations).request, TRUE)>>)
  /\ UNCHANGED <<inbox, requests, clicks, files>>

Adapter ==
  \/ OpPageEvaluate \/ OpPageDecide
  \/ PermissionRequest \/ RunFileChooser \/ DownloadStarted
  \/ \E t \in Issued : DecideDestination(t) \/ DownloadFinishes(t) \/ DownloadFails(t)
  \/ ScriptRuns \/ EvaluationReplies

-----------------------------------------------------------------------------
(* The host.                                                                *)

Idle == call = NoCall
Registered(kind) == {t \in Issued : requests[t].kind = kind /\ records[t] # Unknown}

Sends(r) ==
  /\ inbox' = Append(inbox, r)
  /\ UNCHANGED <<wire, requests, evaluations, clicks, files>>

\* _decide: a token that is registered and not resolved.
MayDecide(t) == t \in Registered("permission") /\ records[t].status = "pending"

\* permission.resolve
ActPermission(t, decision) ==
  /\ Idle /\ MayDecide(t)
  /\ Sends(Request("decide", t, decision))
  /\ call' = [NoCall EXCEPT !.op = "permission", !.stage = "decide",
                            !.token = t, !.decision = decision]
  /\ UNCHANGED <<records, evidence, uploads, timeouts>>

\* upload: the choosers known before the click are not the one it opens.
ActUpload ==
  /\ Idle /\ uploads < MaxUploads
  /\ uploads' = uploads + 1
  /\ Sends(Request("click", 0, Select(uploads + 1)))
  /\ call' = [NoCall EXCEPT !.op = "upload", !.stage = "click",
                            !.decision = Select(uploads + 1),
                            !.known = Registered("chooser")]
  /\ UNCHANGED <<records, evidence, timeouts>>

\* download.accept: whatever its status, it is waited for while it is pending.
ActDownload(t) ==
  /\ Idle /\ t \in Registered("download")
  /\ call' = [NoCall EXCEPT !.op = "download", !.stage = "transfer", !.token = t]
  /\ UNCHANGED <<adapter, records, evidence, uploads, timeouts>>

\* page.await, await_pending, await_download: the host takes events.
Await ==
  /\ Idle
  /\ call' = [NoCall EXCEPT !.op = "await", !.stage = "drain"]
  /\ UNCHANGED <<adapter, records, evidence, uploads, timeouts>>

AnyChooser == Registered("chooser")  \* mutant: those known before count as well
Fresh == Registered("chooser") \ call.known

KindIsStatus(e) ==                     \* mutant: the event's name is the status
  IF e.kind = "raised"
  THEN [Unknown EXCEPT !.status = "pending", !.since = uploads]
  ELSE [records[e.token] EXCEPT !.status = e.kind]

\* _register_pending: the last word on a download counts.
RegisterPending(e) ==
  CASE e.kind = "raised"   -> [Unknown EXCEPT !.status = "pending", !.since = uploads]
    [] e.kind = "finished" -> [records[e.token] EXCEPT !.status = "completed"]
    [] e.kind = "failed"   -> [records[e.token] EXCEPT !.status = "failed"]

\* A request takes events until its reply, a loop until what it waits for.
Listens ==
  \/ call.stage \in {"click", "decide", "name", "drain"}
  \/ call.stage = "chooser" /\ Fresh = {}
  \/ call.stage = "transfer" /\ records[call.token].status = "pending"

TakeEvent ==
  /\ Listens /\ wire # <<>> /\ Head(wire).kind # "reply"
  /\ wire' = Tail(wire)
  /\ records' = [records EXCEPT ![Head(wire).token] = RegisterPending(Head(wire))]
  /\ UNCHANGED <<inbox, requests, evaluations, clicks, files,
                 evidence, call, uploads, timeouts>>

-----------------------------------------------------------------------------
(* Replies, and exceptions: a request given up leaves its reply behind.     *)

InRequest == call.stage \in {"click", "decide", "name"}

ReplyIs(fresh, ok) ==
  /\ wire # <<>> /\ Head(wire).kind = "reply"
  /\ Head(wire).fresh = fresh /\ Head(wire).ok = ok

\* Nothing under way will be recognised any more.
GivesUp(frames) ==
  /\ inbox' = [i \in DOMAIN inbox |-> [inbox[i] EXCEPT !.fresh = FALSE]]
  /\ evaluations' = [i \in DOMAIN evaluations |->
                       [evaluations[i] EXCEPT !.request.fresh = FALSE]]
  /\ wire' = [i \in DOMAIN frames |->
                IF frames[i].kind = "reply" THEN [frames[i] EXCEPT !.fresh = FALSE]
                ELSE frames[i]]
  /\ call' = NoCall
  /\ UNCHANGED <<requests, clicks, files, records, evidence, uploads>>

RequestTimesOut ==
  /\ InRequest /\ timeouts < MaxTimeouts
  /\ timeouts' = timeouts + 1
  /\ GivesUp(wire)

\* integrity_mismatch, in a request or in a pump.
MeetsLateReply ==
  /\ Listens
  /\ ReplyIs(FALSE, TRUE) \/ ReplyIs(FALSE, FALSE)
  /\ GivesUp(Tail(wire))
  /\ UNCHANGED timeouts

RequestRefused ==
  /\ InRequest /\ ReplyIs(TRUE, FALSE)
  /\ wire' = Tail(wire) /\ call' = NoCall
  /\ UNCHANGED <<inbox, requests, evaluations, clicks, files,
                 records, evidence, uploads, timeouts>>

Replied(stage, next) ==
  /\ call.stage = stage /\ ReplyIs(TRUE, TRUE)
  /\ wire' = Tail(wire)
  /\ call' = [call EXCEPT !.stage = next]
  /\ UNCHANGED <<requests, evaluations, clicks, files, evidence, uploads, timeouts>>

\* What the click script returns is not looked at.
Clicked == Replied("click", "chooser") /\ UNCHANGED <<inbox, records>>

Resolves(t) ==
  records' = [records EXCEPT ![t].status = "resolved", ![t].decision = call.decision]

PermissionResolved ==
  /\ call.op = "permission" /\ Replied("decide", "drain")
  /\ Resolves(call.token) /\ UNCHANGED inbox

\* The file's name is then read back from the element.
FileSelected ==
  /\ call.op = "upload" /\ Replied("decide", "name")
  /\ Resolves(call.token)
  /\ inbox' = Append(inbox, Request("name", 0, Undecided))

NameRead == Replied("name", "drain") /\ UNCHANGED <<inbox, records>>

-----------------------------------------------------------------------------
(* Loops over pump_events.                                                  *)

Stays == UNCHANGED <<evidence, uploads, timeouts>>

\* _await_token: the first of the new ones.
ChooserArrives ==
  /\ call.stage = "chooser" /\ Fresh # {}
  /\ LET t == CHOOSE f \in Fresh : \A g \in Fresh : f <= g
     IN  /\ Sends(Request("decide", t, call.decision))
         /\ call' = [call EXCEPT !.stage = "decide", !.token = t]
  /\ UNCHANGED records /\ Stays

\* The deadline is looked at before the registry.
Deadline ==
  /\ call.stage = "chooser" \/ call.stage = "transfer"
  /\ call' = NoCall
  /\ UNCHANGED <<adapter, records>> /\ Stays

DrainEnds ==
  /\ call.stage = "drain"
  /\ call' = NoCall
  /\ UNCHANGED <<adapter, records>> /\ Stays

FileOf(t) == IF requests[t].name = None THEN NoFile ELSE files[requests[t].name]

NotPending == records[call.token].status # "absent"  \* mutant: no look at the status
IsComplete == records[call.token].status = "completed"

\* A download that is not completed is refused, and a missing file raises.
DownloadRefused ==
  /\ call.stage = "transfer" /\ records[call.token].status # "pending"
  /\ ~IsComplete \/ FileOf(call.token) = NoFile
  /\ call' = NoCall
  /\ UNCHANGED <<adapter, records>> /\ Stays

ReadsDownload ==
  /\ call.stage = "transfer" /\ IsComplete /\ FileOf(call.token) # NoFile
  /\ call' = [call EXCEPT !.stage = "store", !.payload = FileOf(call.token)]
  /\ UNCHANGED <<adapter, records>> /\ Stays

\* write_bytes writes what was read to where it was read from.
StoresDownload ==
  /\ call.stage = "store"
  /\ LET t == call.token
         n == requests[t].name
     IN  /\ files' = [files EXCEPT ![n] = call.payload]
         /\ artifacts' = [artifacts EXCEPT ![n] = call.payload]
         /\ records' = [records EXCEPT ![t].status = "quarantined"]
         /\ receipts' = receipts \union {[download |-> t, content |-> call.payload]}
  /\ call' = [call EXCEPT !.stage = "drain"]
  /\ UNCHANGED <<inbox, wire, requests, evaluations, clicks, uploads, timeouts>>

Host ==
  \/ \E t \in Issued :
       ActPermission(t, Allow) \/ ActPermission(t, Deny) \/ ActDownload(t)
  \/ ActUpload \/ Await
  \/ TakeEvent
  \/ RequestTimesOut \/ MeetsLateReply \/ RequestRefused
  \/ Clicked \/ PermissionResolved \/ FileSelected \/ NameRead
  \/ ChooserArrives \/ Deadline \/ DrainEnds
  \/ DownloadRefused \/ ReadsDownload \/ StoresDownload

AdapterStep ==
  Adapter /\ UNCHANGED <<records, evidence, call, uploads, timeouts>>

Next == Host \/ AdapterStep

Spec == Init /\ [][Next]_vars

-----------------------------------------------------------------------------
(* Properties.                                                              *)

\* Every variable has its type (native_adapter.rs:52-73,
\* webkitgtk_backend.py:107-112).
TypeOK ==
  /\ \A i \in DOMAIN inbox : inbox[i].op \in {"click", "name", "decide"}
  /\ \A i \in DOMAIN wire :
       wire[i].kind \in {"raised", "finished", "failed", "reply"}
  /\ Issued \subseteq Tokens /\ clicks \subseteq 1..MaxUploads
  /\ \A t \in Issued :
       /\ requests[t].kind \in Kinds /\ requests[t].held \in BOOLEAN
       /\ requests[t].answers \in Seq(Decision)
       /\ requests[t].name \in Names \union {None}
       /\ requests[t].stage \in {"none", "started", "writing", "finished", "failed"}
  /\ \A t \in Tokens :
       /\ records[t].decision \in Decision \union {Undecided}
       /\ records[t].status \in {"absent", "pending", "resolved", "completed",
                                 "failed", "quarantined"}
  /\ call.stage \in {"none", "click", "chooser", "decide", "name", "transfer",
                     "store", "drain"}
  /\ uploads \in 0..MaxUploads /\ timeouts \in 0..MaxTimeouts

Given(t) == {requests[t].answers[i] : i \in DOMAIN requests[t].answers}

\* A request is decided at most once, by what a client decided, and what the
\* host records as its decision is what the engine was given, also after
\* requests that missed their deadline and were sent again: BrowserDecision
\* (op_page_decide, _decide: "A token is consumed exactly once").
Promise == INSTANCE BrowserDecision WITH
  Requests <- Tokens, Decisions <- Decision, Undecided <- Undecided,
  asked <- Issued,
  applied <- [t \in Tokens |->
                IF t \in Issued /\ requests[t].answers # <<>>
                THEN requests[t].answers[Len(requests[t].answers)] ELSE Undecided],
  recorded <- [t \in Tokens |-> records[t].decision]
ImplementsDecision == Promise!Spec

\* The file of an upload is selected in one chooser only, which was not there
\* before the upload; and unless the page opens choosers of its own, in the one
\* its click opened or in that of an upload before it, when one of those up to
\* that was given up and selected nothing (_act_upload, _await_token).
Selected(n) == \E t \in Issued : Select(n) \in Given(t)
UploadAnswersItsClick ==
  \A t \in Issued, n \in 1..MaxUploads :
    Select(n) \in Given(t) =>
      /\ \A u \in Issued \ {t} : Select(n) \notin Given(u)
      /\ records[t].since = n
      /\ LET cause == requests[t].cause
         IN  \/ \E u \in Issued : requests[u].kind = "chooser" /\ requests[u].cause = 0
             \/ cause = n
             \/ cause \in 1..(n - 1) /\ \E m \in 1..cause : ~Selected(m)

Shared(t) == \E u \in Issued \ {t} : requests[u].name = requests[t].name

\* A download is quarantined once, and unless another of the same name comes
\* in, only when it succeeded; its receipt, its artifact's record and the file
\* they name all hold its bytes, and go on to (_act_download,
\* decide_destination).
QuarantineHoldsIt ==
  /\ \A r, s \in receipts : r.download = s.download => r = s
  /\ \A r \in receipts :
       LET t == r.download
       IN  \/ Shared(t)
           \/ /\ requests[t].stage = "finished" /\ r.content = Whole(t)
              /\ FileOf(t) = Whole(t) /\ artifacts[requests[t].name] = Whole(t)

=============================================================================
