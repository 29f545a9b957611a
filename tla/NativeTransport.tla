--------------------------- MODULE NativeTransport ---------------------------
(***************************************************************************)
(* The channel between the host and one native adapter process:            *)
(*                                                                         *)
(*   host       src/workbench/native_transport.py, class AdapterTransport, *)
(*              driven the way webkitgtk_backend.py drives it (start, a    *)
(*              handshake, then requests and event pumps, then close);     *)
(*   reader     the daemon thread that turns the adapter's stdout into the *)
(*              queue `frames' the host reads from;                        *)
(*   adapter    native/webkitgtk-worker/src/native_adapter.rs, reduced to  *)
(*              what it puts on the wire and when;                         *)
(*   engine     the browser engine: events at any time, deferred replies.  *)
(*                                                                         *)
(* One wait of the host is a state of hpc; `late' says that its deadline   *)
(* has passed.  queue.Queue.get(timeout=0) still returns a queued frame,   *)
(* so a wait ends by timeout only when it is late AND the queue is empty.  *)
(***************************************************************************)
EXTENDS Naturals, Sequences

CONSTANTS
  MaxSeq,     \* bound: requests the host sends, handshake and shutdown included
  MaxEvents,  \* bound: engine events
  MaxFaults,  \* bound: crashes, hangs, lost lines, stray output, start failures
  PipeCap     \* lines the stdout pipe holds before a write blocks

ASSUME BoundsAssumption ==
  /\ MaxSeq \in Nat
  /\ MaxEvents \in Nat
  /\ MaxFaults \in Nat
  /\ PipeCap \in Nat \ {0}

VARIABLES
  \* host
  hpc,         \* where the host thread is
  late,        \* the deadline of the host's current wait has passed
  verdict,     \* verdict[s] is how request s ended, "pending" until it has
  ordinal,     \* _ordinal: the last frame accepted
  accepted,    \* every frame the host accepted, in order
  delivered,   \* the event frames handed to an on_event callback
  broken,      \* _next_frame refused a frame
  deviations,  \* _deviations: the kinds recorded by close
  teardown,    \* what close returns: requested_shutdown, killed, exit_code
  \* channel
  inbox,       \* request lines written to the adapter and not yet handled
  pipe,        \* lines on the adapter's stdout, not yet read
  frames,      \* the queue between the reader thread and the host
  reader,      \* the stdout reader thread
  \* adapter
  apc,         \* life cycle of the adapter process
  exitCode,    \* its exit status once it has ended
  version,     \* transport version its frames declare
  deferred,    \* evaluate and snapshot requests whose reply is outstanding
  emitted,     \* every frame numbered by write_frame, written or not
  executed,    \* the requests it performed, in order
  faults       \* faults so far

hostVars    == <<hpc, late, verdict, ordinal, accepted, delivered, broken,
                 deviations, teardown>>
adapterVars == <<apc, exitCode, version, deferred, emitted, executed>>
channelVars == <<inbox, pipe, frames, reader>>
vars == <<hostVars, channelVars, adapterVars, faults>>

-----------------------------------------------------------------------------
(* Lines on the wire.                                                       *)

LineType == {"ready", "event", "reply", "garbage", "exit"}
Line == [type : LineType, ordinal : Nat, seq : Nat, ok : BOOLEAN]

\* What a frame says before write_frame has numbered it.
Ready       == [type |-> "ready", ordinal |-> 0, seq |-> 0, ok |-> TRUE]
Event       == [type |-> "event", ordinal |-> 0, seq |-> 0, ok |-> TRUE]
Reply(s, b) == [type |-> "reply", ordinal |-> 0, seq |-> s, ok |-> b]

\* A line that is not JSON (or exceeds MAX_FRAME_BYTES), and the marker the
\* reader queues when it stops.
Garbage     == [type |-> "garbage", ordinal |-> 0, seq |-> 0, ok |-> FALSE]
AdapterExit == [type |-> "exit", ordinal |-> 0, seq |-> 0, ok |-> FALSE]

Op == {"immediate", "deferred", "shutdown"}
Request == [seq : Nat, op : Op]

HostState == {"init", "starting", "idle", "request", "pump", "closing",
              "shutdown", "reap", "closed", "blocked", "failed", "gone"}
AdapterState == {"unborn", "starting", "running", "hung", "quitting", "exited"}
Outcome == {"pending", "ok", "rejected", "deadline_exceeded",
            "integrity_mismatch", "protocol_mismatch", "backend_failed"}
ExitCode == {"none", "success", "error", "killed"}
Deviation == {"adapter-shutdown-unacknowledged", "adapter-killed"}

TRANSPORT_VERSION == 1

seq == Len(verdict)              \* _seq: the last request number used
Alive == apc \notin {"unborn", "exited"}

Init ==
  /\ hpc = "init" /\ late = FALSE /\ verdict = <<>> /\ ordinal = 0
  /\ accepted = <<>> /\ delivered = <<>> /\ broken = FALSE /\ deviations = {}
  /\ teardown = [requested |-> FALSE, killed |-> FALSE, exit |-> "none"]
  /\ inbox = <<>> /\ pipe = <<>> /\ frames = <<>> /\ reader = "unborn"
  /\ apc = "unborn" /\ exitCode = "none" /\ version \in {TRANSPORT_VERSION, 2}
  /\ deferred = {} /\ emitted = <<>> /\ executed = <<>> /\ faults = 0

Fault == faults < MaxFaults /\ faults' = faults + 1

-----------------------------------------------------------------------------
(* The adapter.  Every frame goes through write_frame: it takes the next    *)
(* ordinal, and a write that fails is ignored, so the line may be lost.     *)
(* The write blocks while the pipe is full and somebody still holds its     *)
(* read end.                                                                *)

WriteFrame(f) ==
  LET frame == [f EXCEPT !.ordinal = Len(emitted) + 1]
  IN  /\ emitted' = Append(emitted, frame)
      /\ \/ /\ Len(pipe) < PipeCap \/ hpc = "gone"
            /\ pipe' = Append(pipe, frame)
            /\ UNCHANGED faults
         \/ /\ Fault
            /\ UNCHANGED pipe

AdapterReady ==
  /\ apc = "starting"
  /\ apc' = "running"
  /\ WriteFrame(Ready)
  /\ UNCHANGED <<hostVars, inbox, frames, reader, exitCode, version, deferred,
                 executed>>

\* No display, no GTK, a bad build: the process ends without a frame.
AdapterFailsToStart ==
  /\ apc = "starting"
  /\ Fault
  /\ apc' = "exited" /\ exitCode' = "error"
  /\ UNCHANGED <<hostVars, channelVars, version, deferred, emitted, executed>>

\* handle_line and dispatch for one request line.
HandleImmediate ==
  /\ apc = "running" /\ inbox # <<>> /\ Head(inbox).op = "immediate"
  /\ executed' = Append(executed, Head(inbox).seq)
  /\ inbox' = Tail(inbox)
  /\ \E ok \in BOOLEAN : WriteFrame(Reply(Head(inbox).seq, ok))
  /\ UNCHANGED <<hostVars, frames, reader, apc, exitCode, version, deferred>>

\* page.evaluate and page.snapshot start a future; the reply comes later.
HandleDeferred ==
  /\ apc = "running" /\ inbox # <<>> /\ Head(inbox).op = "deferred"
  /\ executed' = Append(executed, Head(inbox).seq)
  /\ inbox' = Tail(inbox)
  /\ deferred' = deferred \union {Head(inbox).seq}
  /\ UNCHANGED <<hostVars, pipe, frames, reader, apc, exitCode, version,
                 emitted, faults>>

\* shutdown: reply, then teardown, which quits the main loop.
HandleShutdown ==
  /\ apc = "running" /\ inbox # <<>> /\ Head(inbox).op = "shutdown"
  /\ executed' = Append(executed, Head(inbox).seq)
  /\ inbox' = Tail(inbox)
  /\ apc' = "quitting"
  /\ deferred' = {}
  /\ WriteFrame(Reply(Head(inbox).seq, TRUE))
  /\ UNCHANGED <<hostVars, frames, reader, exitCode, version>>

ResolveDeferred(s) ==
  /\ apc = "running" /\ s \in deferred
  /\ deferred' = deferred \ {s}
  /\ \E ok \in BOOLEAN : WriteFrame(Reply(s, ok))
  /\ UNCHANGED <<hostVars, inbox, frames, reader, apc, exitCode, version,
                 executed>>

\* An engine callback.  There is a page, and so an event, only once a request
\* after the handshake (session.open) has been performed.
EngineEvent ==
  /\ apc \in {"running", "quitting"}
  /\ \E i \in 1..Len(executed) : executed[i] > 1
  /\ Len(SelectSeq(emitted, LAMBDA f : f.type = "event")) < MaxEvents
  /\ WriteFrame(Event)
  /\ UNCHANGED <<hostVars, inbox, frames, reader, apc, exitCode, version,
                 deferred, executed>>

\* A library prints on stdout.
Chatter ==
  /\ apc = "running"
  /\ Len(pipe) < PipeCap
  /\ Fault
  /\ pipe' = Append(pipe, Garbage)
  /\ UNCHANGED <<hostVars, inbox, frames, reader, adapterVars>>

\* End of input on the adapter's stdin: teardown.
InboxClosed ==
  /\ apc = "running" /\ inbox = <<>>
  /\ hpc = "gone"
  /\ apc' = "quitting" /\ deferred' = {}
  /\ UNCHANGED <<hostVars, channelVars, exitCode, version, emitted, executed,
                 faults>>

AdapterQuits ==
  /\ apc = "quitting"
  /\ apc' = "exited" /\ exitCode' = "success"
  /\ UNCHANGED <<hostVars, channelVars, version, deferred, emitted, executed,
                 faults>>

AdapterCrashes ==
  /\ apc \in {"running", "quitting"}
  /\ Fault
  /\ apc' = "exited" /\ exitCode' = "error" /\ deferred' = {}
  /\ UNCHANGED <<hostVars, channelVars, version, emitted, executed>>

\* The main loop never comes back: no reply, no event, no exit.
AdapterHangs ==
  /\ apc \in {"starting", "running", "quitting"}
  /\ Fault
  /\ apc' = "hung"
  /\ UNCHANGED <<hostVars, channelVars, exitCode, version, deferred, emitted,
                 executed>>

-----------------------------------------------------------------------------
(* The reader thread, _read_stdout.                                         *)

ReadFrame ==
  /\ reader = "running" /\ pipe # <<>> /\ Head(pipe) # Garbage
  /\ frames' = Append(frames, Head(pipe))
  /\ pipe' = Tail(pipe)
  /\ UNCHANGED <<hostVars, inbox, reader, adapterVars, faults>>

ReadGarbageContinues ==                      \* mutant: skips the line, reads on
  /\ reader = "running" /\ pipe # <<>> /\ Head(pipe) = Garbage
  /\ frames' = Append(frames, AdapterExit)
  /\ pipe' = Tail(pipe)
  /\ UNCHANGED <<hostVars, inbox, reader, adapterVars, faults>>

\* The thread returns: what is in the pipe from here on is never read.
ReadGarbage ==
  /\ reader = "running" /\ pipe # <<>> /\ Head(pipe) = Garbage
  /\ frames' = Append(frames, AdapterExit)
  /\ pipe' = Tail(pipe)
  /\ reader' = "stopped"
  /\ UNCHANGED <<hostVars, inbox, adapterVars, faults>>

ReadEndOfFile ==
  /\ reader = "running" /\ pipe = <<>> /\ apc = "exited"
  /\ frames' = Append(frames, AdapterExit)
  /\ reader' = "stopped"
  /\ UNCHANGED <<hostVars, inbox, pipe, adapterVars, faults>>

-----------------------------------------------------------------------------
(* The host.  _next_frame takes one entry off the queue and either accepts  *)
(* it, which advances _ordinal, or refuses it.                              *)

AcceptsGap(f) == f.ordinal > ordinal         \* mutant: resynchronises on a gap
Contiguous(f) == f.ordinal = ordinal + 1

Acceptable(f) ==
  /\ f # AdapterExit
  /\ version = TRANSPORT_VERSION
  /\ Contiguous(f)

Refusal(f) ==
  IF f = AdapterExit THEN "backend_failed"
  ELSE IF version # TRANSPORT_VERSION THEN "protocol_mismatch"
  ELSE "integrity_mismatch"

Received == Head(frames)

Accept ==
  /\ frames # <<>> /\ Acceptable(Received)
  /\ frames' = Tail(frames)
  /\ ordinal' = Received.ordinal
  /\ accepted' = Append(accepted, Received)
  /\ UNCHANGED <<broken, inbox, pipe, reader, adapterVars, faults>>

Refuse ==
  /\ frames # <<>> /\ ~Acceptable(Received)
  /\ frames' = Tail(frames)
  /\ broken' = TRUE
  /\ UNCHANGED <<ordinal, accepted, delivered, inbox, pipe, reader,
                 adapterVars, faults>>

\* The queue stayed empty until the deadline.
TimedOut ==
  /\ late /\ frames = <<>>
  /\ UNCHANGED <<ordinal, accepted, delivered, broken, channelVars,
                 adapterVars, faults>>

Waiting == {"starting", "request", "pump", "shutdown", "reap"}

DeadlinePasses ==
  /\ hpc \in Waiting /\ ~late
  /\ late' = TRUE
  /\ UNCHANGED <<hpc, verdict, ordinal, accepted, delivered, broken,
                 deviations, teardown, channelVars, adapterVars, faults>>

\* start
Spawn ==
  /\ hpc = "init"
  /\ hpc' = "starting" /\ apc' = "starting" /\ reader' = "running"
  /\ UNCHANGED <<late, verdict, ordinal, accepted, delivered, broken,
                 deviations, teardown, inbox, pipe, frames, exitCode, version,
                 deferred, emitted, executed, faults>>

SpawnFails ==
  /\ hpc = "init"
  /\ Fault
  /\ hpc' = "blocked"
  /\ UNCHANGED <<late, verdict, ordinal, accepted, delivered, broken,
                 deviations, teardown, channelVars, adapterVars>>

\* The host gives up on the transport: start, or the handshake, raised.  The
\* caller never gets the object, so close is never called; "blocked" is
\* capability_blocked.  The process, if there is one, is left alone.
StartEnds(state) ==
  /\ hpc = "starting"
  /\ hpc' = state /\ late' = FALSE
  /\ UNCHANGED <<verdict, deviations, teardown>>

StartAccepts ==
  /\ Accept
  /\ StartEnds(IF Received.type = "ready" THEN "idle" ELSE "failed")
  /\ UNCHANGED delivered

StartRefuses ==
  /\ Refuse
  /\ StartEnds(IF Refusal(Received) = "backend_failed"
               THEN "blocked" ELSE "failed")

StartTimesOut == TimedOut /\ StartEnds("blocked")

-----------------------------------------------------------------------------
(* request: _seq is consumed, the line is written, and frames are read      *)
(* until the reply.  The first request is the handshake of connect.  Only   *)
(* requests made through the backend's _request have an on_event callback:  *)
(* the handshake and the shutdown have none.                                *)

HasCallback == hpc = "request" /\ seq > 1

\* Writing the request line fails once the adapter has exited (BrokenPipe).
Send(op, waiting, onFailure) ==
  /\ late' = FALSE
  /\ IF Alive
     THEN /\ verdict' = Append(verdict, "pending")
          /\ inbox' = Append(inbox, [seq |-> seq + 1, op |-> op])
          /\ hpc' = waiting
     ELSE /\ verdict' = Append(verdict, "backend_failed")
          /\ hpc' = onFailure
          /\ UNCHANGED inbox
  /\ UNCHANGED <<ordinal, accepted, delivered, broken, teardown, pipe, frames,
                 reader, adapterVars, faults>>

SendRequest ==
  /\ hpc = "idle" /\ seq < MaxSeq - 1
  /\ \E op \in {"immediate", "deferred"} :
       /\ seq = 0 => op = "immediate"
       /\ Send(op, "request", IF seq = 0 THEN "failed" ELSE "idle")
  /\ UNCHANGED deviations

\* The request is over: request returns or raises, close carries on.
Conclude(v) ==
  /\ hpc \in {"request", "shutdown"}
  /\ verdict' = [verdict EXCEPT ![seq] = v]
  /\ late' = FALSE
  /\ IF hpc = "shutdown"
     THEN /\ hpc' = "reap"
          /\ teardown' = [teardown EXCEPT !.requested = (v = "ok")]
          /\ deviations' = IF v = "ok" THEN deviations
                           ELSE deviations \union
                                  {"adapter-shutdown-unacknowledged"}
     ELSE /\ hpc' = IF seq = 1 /\ v # "ok" THEN "failed" ELSE "idle"
          /\ UNCHANGED <<teardown, deviations>>

RequestTakesEvent ==
  /\ hpc \in {"request", "shutdown"}
  /\ Accept /\ Received.type = "event"
  /\ delivered' = IF HasCallback THEN Append(delivered, Received) ELSE delivered
  /\ UNCHANGED <<hpc, late, verdict, deviations, teardown>>

AnyReplyWillDo(f) ==                         \* mutant: no seq check
  IF f.type # "reply" THEN "integrity_mismatch"
  ELSE IF f.ok THEN "ok" ELSE "rejected"
UndeclaredCode(f) ==                         \* mutant: code outside the stable set
  IF f.type # "reply" \/ f.seq # seq THEN "integrity_mismatch"
  ELSE IF f.ok THEN "ok" ELSE "adapter_error"

\* The verdict on a frame that ends the wait: the reply to this request, or
\* a frame that has no business here.
FinalVerdict(f) ==
  IF f.type # "reply" \/ f.seq # seq THEN "integrity_mismatch"
  ELSE IF f.ok THEN "ok" ELSE "rejected"

RequestTakesReply ==
  /\ Accept /\ Received.type # "event"
  /\ Conclude(FinalVerdict(Received))
  /\ UNCHANGED delivered

RequestRefuses  == Refuse /\ Conclude(Refusal(Received))
RetriesOnTimeout ==                          \* mutant: sends the line again
  /\ hpc = "request" /\ late /\ frames = <<>> /\ Alive /\ Len(inbox) < 2
  /\ late' = FALSE
  /\ inbox' = Append(inbox, [seq |-> seq, op |-> "immediate"])
  /\ UNCHANGED <<hpc, verdict, ordinal, accepted, delivered, broken, deviations,
                 teardown, pipe, frames, reader, adapterVars, faults>>
RequestTimesOut == TimedOut /\ Conclude("deadline_exceeded")

\* pump_events, between two requests.
PumpStarts ==
  /\ hpc = "idle" /\ seq > 1
  /\ hpc' = "pump" /\ late' = FALSE
  /\ UNCHANGED <<verdict, ordinal, accepted, delivered, broken, deviations,
                 teardown, channelVars, adapterVars, faults>>

PumpEnds ==
  /\ hpc = "pump"
  /\ hpc' = "idle" /\ late' = FALSE
  /\ UNCHANGED <<verdict, deviations, teardown>>

PumpAccepts ==
  /\ Accept
  /\ delivered' = IF Received.type = "event" THEN Append(delivered, Received)
                  ELSE delivered
  /\ PumpEnds

PumpRefuses  == Refuse /\ PumpEnds
PumpTimesOut == TimedOut /\ PumpEnds

-----------------------------------------------------------------------------
(* close: poll, shutdown request, bounded wait, kill.                       *)

ClosePolls ==
  /\ hpc = "idle" /\ seq > 0
  /\ hpc' = IF Alive THEN "closing" ELSE "reap"
  /\ late' = FALSE
  /\ UNCHANGED <<verdict, ordinal, accepted, delivered, broken, deviations,
                 teardown, channelVars, adapterVars, faults>>

SendShutdown ==
  /\ hpc = "closing"
  /\ Send("shutdown", "shutdown", "reap")
  /\ deviations' = IF Alive THEN deviations
                   ELSE deviations \union {"adapter-shutdown-unacknowledged"}

Reap ==
  /\ hpc = "reap" /\ apc = "exited"
  /\ hpc' = "closed" /\ late' = FALSE
  /\ teardown' = [teardown EXCEPT !.exit = exitCode]
  /\ UNCHANGED <<verdict, ordinal, accepted, delivered, broken, deviations,
                 channelVars, adapterVars, faults>>

KillsOnlyUnacknowledged ==                   \* mutant: trusts the acknowledgement
  /\ hpc = "reap" /\ late /\ apc # "exited" /\ ~teardown.requested
  /\ hpc' = "closed" /\ late' = FALSE
  /\ apc' = "exited" /\ exitCode' = "killed" /\ deferred' = {}
  /\ teardown' = [teardown EXCEPT !.exit = "killed", !.killed = TRUE]
  /\ deviations' = deviations \union {"adapter-killed"}
  /\ UNCHANGED <<verdict, ordinal, accepted, delivered, broken, channelVars,
                 version, emitted, executed, faults>>
Kill ==
  /\ hpc = "reap" /\ late /\ apc # "exited"
  /\ hpc' = "closed" /\ late' = FALSE
  /\ apc' = "exited" /\ exitCode' = "killed" /\ deferred' = {}
  /\ teardown' = [teardown EXCEPT !.exit = "killed", !.killed = TRUE]
  /\ deviations' = deviations \union {"adapter-killed"}
  /\ UNCHANGED <<verdict, ordinal, accepted, delivered, broken, channelVars,
                 version, emitted, executed, faults>>

\* The process that gave up on the transport ends; its descriptors close.
HostExits ==
  /\ hpc \in {"blocked", "failed"}
  /\ hpc' = "gone"
  /\ reader' = "stopped"
  /\ UNCHANGED <<late, verdict, ordinal, accepted, delivered, broken,
                 deviations, teardown, inbox, pipe, frames, adapterVars,
                 faults>>

Finished ==
  /\ hpc \in {"closed", "gone"}
  /\ apc \in {"unborn", "hung", "exited"}
  /\ UNCHANGED vars

AdapterStep ==
  \/ AdapterReady
  \/ HandleImmediate \/ HandleDeferred \/ HandleShutdown
  \/ \E s \in deferred : ResolveDeferred(s)
  \/ InboxClosed \/ AdapterQuits

Environment ==
  \/ EngineEvent \/ Chatter
  \/ AdapterFailsToStart \/ AdapterCrashes \/ AdapterHangs

ReaderStep == ReadFrame \/ ReadGarbage \/ ReadEndOfFile

\* Steps of a host that waits for something, as opposed to what its caller
\* chooses to ask of it.
HostStep ==
  \/ DeadlinePasses
  \/ StartAccepts \/ StartRefuses \/ StartTimesOut
  \/ RequestTakesEvent \/ RequestTakesReply
  \/ RequestRefuses \/ RequestTimesOut
  \/ PumpAccepts \/ PumpRefuses \/ PumpTimesOut
  \/ SendShutdown \/ Reap \/ Kill

Caller ==
  \/ Spawn \/ SpawnFails \/ SendRequest \/ PumpStarts \/ ClosePolls
  \/ HostExits

Next == AdapterStep \/ Environment \/ ReaderStep \/ HostStep \/ Caller
        \/ Finished

Spec == Init /\ [][Next]_vars

\* The clock advances, so a wait that is not answered does reach its deadline,
\* and the host thread runs.  Nothing is assumed of the adapter or the engine.
FairSpec == Spec /\ WF_vars(HostStep)

-----------------------------------------------------------------------------
(* Properties.                                                              *)

HostTypeOK ==
  /\ hpc \in HostState /\ late \in BOOLEAN /\ broken \in BOOLEAN
  /\ verdict \in Seq(Outcome) /\ ordinal \in Nat
  /\ accepted \in Seq(Line) /\ delivered \in Seq(Line)
  /\ deviations \in SUBSET Deviation
  /\ teardown \in [requested : BOOLEAN, killed : BOOLEAN, exit : ExitCode]

ChannelTypeOK ==
  /\ inbox \in Seq(Request) /\ pipe \in Seq(Line) /\ frames \in Seq(Line)
  /\ reader \in {"unborn", "running", "stopped"}

AdapterTypeOK ==
  /\ apc \in AdapterState /\ exitCode \in ExitCode /\ version \in Nat
  /\ deferred \in SUBSET Nat
  /\ emitted \in Seq(Line) /\ executed \in Seq(Nat)

\* Every variable has its type.
TypeOK == HostTypeOK /\ ChannelTypeOK /\ AdapterTypeOK /\ faults \in Nat

\* What the host accepted is a prefix of what the adapter numbered, whatever
\* was lost on the way, whatever noise came in between and however late a
\* reply was: no engine event before an accepted frame is missing from the
\* evidence.  (_next_frame, ordinal check.)
AcceptedIsPrefix ==
  accepted = SubSeq(emitted, 1, ordinal)

\* A request that returned, or that raised the adapter's own error, did so on
\* the adapter's answer to that very request, never on a late answer to an
\* earlier one that had timed out.  (request, seq check.)
AnswerIsGenuine ==
  \A s \in 1..Len(verdict) :
    verdict[s] \in {"ok", "rejected"} =>
      \E i \in 1..Len(emitted) :
        /\ emitted[i].type = "reply" /\ emitted[i].seq = s
        /\ emitted[i].ok = (verdict[s] = "ok")

\* Once _next_frame has refused anything, no frame is ever accepted again, so
\* no request made after a gap, a stray line or the end of the adapter can
\* succeed: a gap is never patched over.
FaultIsTerminal == [][broken => accepted' = accepted]_vars

\* close never claims an orderly end it did not see: an acknowledged shutdown
\* was performed by the adapter, as the last thing it did, and a clean exit
\* with no deviation recorded is the exit that followed it.
CleanTeardownIsReal ==
  hpc = "closed" =>
    /\ teardown.requested => executed # <<>> /\ executed[Len(executed)] = seq
    /\ teardown.exit = "success" /\ deviations = {} => teardown.requested

\* Every wait of the host ends, whatever the adapter does: start, a request,
\* a pump and close all return or raise.  (Deadlines of _next_frame, bounded
\* wait and kill of close.)
HostNeverStuck ==
  hpc \in Waiting \union {"closing"} ~> hpc \notin Waiting \union {"closing"}

\* The abstract channel: each request ends exactly once, is answered only if
\* performed, and is performed at most once.
ChannelStatus(v) ==
  IF v \in {"ok", "rejected"} THEN "answered"
  ELSE IF v = "pending" THEN "pending" ELSE "failed"

Channel == INSTANCE RequestChannel
  WITH status <- [s \in 1..Len(verdict) |-> ChannelStatus(verdict[s])],
       effects <- executed

\* Seen through what its caller can tell, the transport is a RequestChannel,
\* and every request does end.
ImplementsChannel == Channel!FairSpec

\* pump_events says: "A reply can never appear here: the host keeps at most
\* one request in flight and has already consumed its reply."
ReplyNeverInPump ==
  [][hpc = "pump" /\ accepted' # accepted => Received.type = "event"]_vars

\* The class says the transport exists so that no engine event is silently
\* dropped: every event frame the host accepts reaches a callback.
NoEventDropped ==
  delivered = SelectSeq(accepted, LAMBDA f : f.type = "event")
=============================================================================
