------------------------ MODULE NativeTransportProofs ------------------------
(***************************************************************************)
(* Proofs about NativeTransport, for every value of its constants.         *)
(***************************************************************************)
EXTENDS NativeTransport, SequenceTheorems, TLAPS

-----------------------------------------------------------------------------
(* Type correctness.  Each group of variables is typed on its own, so that  *)
(* a step says only what it changes.                                        *)

LEMMA FrameTypes ==
  /\ Ready \in Line /\ Event \in Line /\ Garbage \in Line /\ AdapterExit \in Line
  /\ \A s \in Nat, b \in BOOLEAN : Reply(s, b) \in Line
BY DEF Ready, Event, Garbage, AdapterExit, Reply, Line, LineType

LEMMA HostUnchanged ==
  HostTypeOK /\ UNCHANGED hostVars => HostTypeOK'
BY DEF HostTypeOK, hostVars

LEMMA ChannelUnchanged ==
  ChannelTypeOK /\ UNCHANGED channelVars => ChannelTypeOK'
BY DEF ChannelTypeOK, channelVars

LEMMA AdapterUnchanged ==
  AdapterTypeOK /\ UNCHANGED adapterVars => AdapterTypeOK'
BY DEF AdapterTypeOK, adapterVars

LEMMA FaultType ==
  faults \in Nat /\ Fault => faults' \in Nat
BY DEF Fault

\* The record write_frame puts on the wire.
LEMMA Numbered ==
  ASSUME NEW f \in Line, NEW n \in Nat
  PROVE  /\ [f EXCEPT !.ordinal = n] \in Line
         /\ [f EXCEPT !.ordinal = n]
              = [type |-> f.type, ordinal |-> n, seq |-> f.seq, ok |-> f.ok]
BY DEF Line

\* Writing a frame keeps the wire and the log well typed.
LEMMA WriteFrameType ==
  ASSUME TypeOK, NEW f \in Line, WriteFrame(f)
  PROVE  /\ emitted' \in Seq(Line) /\ pipe' \in Seq(Line) /\ faults' \in Nat
<1> DEFINE frame == [f EXCEPT !.ordinal = Len(emitted) + 1]
<1>1. emitted \in Seq(Line) /\ pipe \in Seq(Line) /\ faults \in Nat
  BY DEF TypeOK, ChannelTypeOK, AdapterTypeOK
<1>2. frame \in Line
  <2>1. Len(emitted) + 1 \in Nat
    BY <1>1, LenProperties
  <2> QED BY <2>1, Numbered
<1>3. emitted' = Append(emitted, frame)
  BY DEF WriteFrame
<1>4. \/ pipe' = Append(pipe, frame) /\ faults' = faults
      \/ pipe' = pipe /\ Fault
  BY DEF WriteFrame
<1> HIDE DEF frame
<1>5. emitted' \in Seq(Line)
  BY <1>1, <1>2, <1>3, AppendProperties
<1>6. pipe' \in Seq(Line)
  BY <1>1, <1>2, <1>4, AppendProperties
<1> QED BY <1>1, <1>4, <1>5, <1>6, FaultType

LEMMA InboxHead ==
  ASSUME ChannelTypeOK, inbox # <<>>
  PROVE  Head(inbox).seq \in Nat /\ Tail(inbox) \in Seq(Request)
<1>1. inbox \in Seq(Request)
  BY DEF ChannelTypeOK
<1>2. Head(inbox) \in Request /\ Tail(inbox) \in Seq(Request)
  BY <1>1, HeadTailProperties
<1> QED BY <1>2 DEF Request

LEMMA AdapterKeepsType ==
  ASSUME TypeOK, AdapterStep
  PROVE  TypeOK'
<1> USE FrameTypes, HostUnchanged DEF TypeOK
<1>1. CASE AdapterReady
  <2>1. emitted' \in Seq(Line) /\ pipe' \in Seq(Line) /\ faults' \in Nat
    BY <1>1, WriteFrameType DEF AdapterReady
  <2> QED BY <1>1, <2>1
      DEF AdapterReady, ChannelTypeOK, AdapterTypeOK, AdapterState
<1>2. CASE HandleImmediate
  <2>1. Head(inbox).seq \in Nat /\ Tail(inbox) \in Seq(Request)
    BY <1>2, InboxHead DEF HandleImmediate
  <2>2. emitted' \in Seq(Line) /\ pipe' \in Seq(Line) /\ faults' \in Nat
    BY <1>2, <2>1, WriteFrameType DEF HandleImmediate
  <2> QED BY <1>2, <2>1, <2>2 DEF HandleImmediate, ChannelTypeOK, AdapterTypeOK
<1>3. CASE HandleDeferred
  <2>1. Head(inbox).seq \in Nat /\ Tail(inbox) \in Seq(Request)
    BY <1>3, InboxHead DEF HandleDeferred
  <2>2. ChannelTypeOK' /\ HostTypeOK' /\ faults' \in Nat
    BY <1>3, <2>1 DEF HandleDeferred, ChannelTypeOK
  <2>3. executed' \in Seq(Nat)
    BY <1>3, <2>1, AppendProperties DEF HandleDeferred, AdapterTypeOK
  <2>4. deferred' \in SUBSET Nat
    BY <1>3, <2>1 DEF HandleDeferred, AdapterTypeOK
  <2> QED BY <1>3, <2>2, <2>3, <2>4 DEF HandleDeferred, AdapterTypeOK
<1>4. CASE HandleShutdown
  <2>1. Head(inbox).seq \in Nat /\ Tail(inbox) \in Seq(Request)
    BY <1>4, InboxHead DEF HandleShutdown
  <2>2. emitted' \in Seq(Line) /\ pipe' \in Seq(Line) /\ faults' \in Nat
    BY <1>4, <2>1, WriteFrameType DEF HandleShutdown
  <2> QED BY <1>4, <2>1, <2>2
      DEF HandleShutdown, ChannelTypeOK, AdapterTypeOK, AdapterState
<1>5. CASE \E s \in deferred : ResolveDeferred(s)
  <2>1. PICK s \in deferred : ResolveDeferred(s)
    BY <1>5
  <2>2. s \in Nat
    BY DEF AdapterTypeOK
  <2>3. emitted' \in Seq(Line) /\ pipe' \in Seq(Line) /\ faults' \in Nat
    BY <2>1, <2>2, WriteFrameType DEF ResolveDeferred
  <2> QED BY <2>1, <2>3 DEF ResolveDeferred, ChannelTypeOK, AdapterTypeOK
<1>6. CASE InboxClosed
  BY <1>6, ChannelUnchanged DEF InboxClosed, AdapterTypeOK, AdapterState
<1>7. CASE AdapterQuits
  BY <1>7, ChannelUnchanged DEF AdapterQuits, AdapterTypeOK, AdapterState, ExitCode
<1> QED BY <1>1, <1>2, <1>3, <1>4, <1>5, <1>6, <1>7 DEF AdapterStep

LEMMA EnvironmentKeepsType ==
  ASSUME TypeOK, Environment
  PROVE  TypeOK'
<1> USE FrameTypes, HostUnchanged DEF TypeOK
<1>1. CASE EngineEvent
  <2>1. emitted' \in Seq(Line) /\ pipe' \in Seq(Line) /\ faults' \in Nat
    BY <1>1, WriteFrameType DEF EngineEvent
  <2> QED BY <1>1, <2>1 DEF EngineEvent, ChannelTypeOK, AdapterTypeOK
<1>2. CASE Chatter
  <2>1. pipe' \in Seq(Line)
    BY <1>2, AppendProperties DEF Chatter, ChannelTypeOK
  <2> QED BY <1>2, <2>1, AdapterUnchanged, FaultType DEF Chatter, ChannelTypeOK
<1>3. CASE AdapterFailsToStart
  BY <1>3, ChannelUnchanged, FaultType
  DEF AdapterFailsToStart, AdapterTypeOK, AdapterState, ExitCode
<1>4. CASE AdapterCrashes
  BY <1>4, ChannelUnchanged, FaultType
  DEF AdapterCrashes, AdapterTypeOK, AdapterState, ExitCode
<1>5. CASE AdapterHangs
  BY <1>5, ChannelUnchanged, FaultType DEF AdapterHangs, AdapterTypeOK, AdapterState
<1> QED BY <1>1, <1>2, <1>3, <1>4, <1>5 DEF Environment

LEMMA ReaderKeepsType ==
  ASSUME TypeOK, ReaderStep
  PROVE  TypeOK'
<1> USE FrameTypes, HostUnchanged, AdapterUnchanged DEF TypeOK
<1>1. ASSUME pipe # <<>>
      PROVE  Head(pipe) \in Line /\ Tail(pipe) \in Seq(Line)
  BY <1>1, HeadTailProperties DEF ChannelTypeOK
<1>2. ASSUME NEW l \in Line
      PROVE  Append(frames, l) \in Seq(Line)
  BY AppendProperties DEF ChannelTypeOK
<1>3. CASE ReadFrame
  BY <1>1, <1>2, <1>3 DEF ReadFrame, ChannelTypeOK
<1>4. CASE ReadGarbage
  BY <1>1, <1>2, <1>4 DEF ReadGarbage, ChannelTypeOK
<1>5. CASE ReadEndOfFile
  BY <1>2, <1>5 DEF ReadEndOfFile, ChannelTypeOK
<1> QED BY <1>3, <1>4, <1>5 DEF ReaderStep

\* The three ways _next_frame ends, each typed up to what the caller of
\* _next_frame does with the outcome.
LEMMA AcceptType ==
  ASSUME TypeOK, Accept
  PROVE  /\ ChannelTypeOK' /\ AdapterTypeOK' /\ faults' \in Nat
         /\ ordinal' \in Nat /\ accepted' \in Seq(Line) /\ broken' \in BOOLEAN
         /\ Received \in Line
<1> USE DEF TypeOK
<1>1. Received \in Line /\ Tail(frames) \in Seq(Line)
  BY HeadTailProperties DEF Accept, ChannelTypeOK, Received
<1>2. Received.ordinal \in Nat
  BY <1>1 DEF Line
<1>3. accepted' \in Seq(Line)
  BY <1>1, AppendProperties DEF Accept, HostTypeOK
<1>4. ChannelTypeOK'
  BY <1>1 DEF Accept, ChannelTypeOK
<1> QED
  BY <1>1, <1>2, <1>3, <1>4, AdapterUnchanged DEF Accept, HostTypeOK

LEMMA RefuseType ==
  ASSUME TypeOK, Refuse
  PROVE  /\ ChannelTypeOK' /\ AdapterTypeOK' /\ faults' \in Nat
         /\ ordinal' \in Nat /\ accepted' \in Seq(Line) /\ broken' \in BOOLEAN
         /\ delivered' \in Seq(Line)
<1> USE DEF TypeOK
<1>1. Tail(frames) \in Seq(Line)
  BY HeadTailProperties DEF Refuse, ChannelTypeOK
<1>2. ChannelTypeOK'
  BY <1>1 DEF Refuse, ChannelTypeOK
<1> QED BY <1>2, AdapterUnchanged DEF Refuse, HostTypeOK

LEMMA TimedOutType ==
  ASSUME TypeOK, TimedOut
  PROVE  /\ ChannelTypeOK' /\ AdapterTypeOK' /\ faults' \in Nat
         /\ ordinal' \in Nat /\ accepted' \in Seq(Line) /\ broken' \in BOOLEAN
         /\ delivered' \in Seq(Line)
BY ChannelUnchanged, AdapterUnchanged DEF TimedOut, TypeOK, HostTypeOK

LEMMA ConcludeType ==
  ASSUME TypeOK, NEW v \in Outcome, Conclude(v)
  PROVE  /\ hpc' \in HostState /\ late' \in BOOLEAN
         /\ verdict' \in Seq(Outcome) /\ deviations' \in SUBSET Deviation
         /\ teardown' \in [requested : BOOLEAN, killed : BOOLEAN, exit : ExitCode]
<1> USE DEF TypeOK, HostTypeOK
<1>1. verdict' \in Seq(Outcome)
  <2>1. verdict' = [verdict EXCEPT ![seq] = v]
    BY DEF Conclude
  <2>2. verdict \in [1..Len(verdict) -> Outcome] /\ Len(verdict) \in Nat
    BY LenProperties
  <2>3. verdict' \in [1..Len(verdict) -> Outcome]
    BY <2>1, <2>2
  <2> QED BY <2>2, <2>3, SeqDef
<1>2. hpc' \in HostState /\ late' \in BOOLEAN
  BY DEF Conclude, HostState
<1>3. deviations' \in SUBSET Deviation
  BY DEF Conclude, Deviation
<1>4. teardown' \in [requested : BOOLEAN, killed : BOOLEAN, exit : ExitCode]
  BY DEF Conclude
<1> QED BY <1>1, <1>2, <1>3, <1>4

LEMMA VerdictTypes ==
  \A f : Refusal(f) \in Outcome /\ FinalVerdict(f) \in Outcome
         /\ "deadline_exceeded" \in Outcome
BY DEF Refusal, FinalVerdict, Outcome

LEMMA SendType ==
  ASSUME TypeOK, NEW op \in Op, NEW waiting \in HostState,
         NEW onFailure \in HostState, Send(op, waiting, onFailure),
         deviations' \in SUBSET Deviation
  PROVE  TypeOK'
<1> USE DEF TypeOK
<1>1. seq \in Nat
  BY LenProperties DEF seq, HostTypeOK
<1> DEFINE line == [seq |-> seq + 1, op |-> op]
<1>2. line \in Request
  BY <1>1 DEF Request
<1>3. inbox' \in Seq(Request)
  <2>1. inbox' = inbox \/ inbox' = Append(inbox, line)
    BY DEF Send
  <2>2. inbox \in Seq(Request)
    BY DEF ChannelTypeOK
  <2> HIDE DEF line
  <2>3. Append(inbox, line) \in Seq(Request)
    BY <1>2, <2>2, AppendProperties
  <2> QED BY <2>1, <2>2, <2>3
<1>4. verdict' \in Seq(Outcome)
  <2>1. \E v \in Outcome : verdict' = Append(verdict, v)
    BY DEF Send, Outcome
  <2> QED BY <2>1, AppendProperties DEF HostTypeOK
<1>5. hpc' \in HostState /\ late' \in BOOLEAN
  BY DEF Send
<1>6. HostTypeOK'
  BY <1>4, <1>5 DEF Send, HostTypeOK
<1>7. ChannelTypeOK'
  BY <1>3 DEF Send, ChannelTypeOK
<1> QED BY <1>6, <1>7, AdapterUnchanged DEF Send

LEMMA HostStepKeepsType ==
  ASSUME TypeOK, HostStep
  PROVE  TypeOK'
<1> USE AcceptType, RefuseType, TimedOutType DEF TypeOK
<1>1. CASE DeadlinePasses
  BY <1>1, ChannelUnchanged, AdapterUnchanged DEF DeadlinePasses, HostTypeOK
<1>2. CASE StartAccepts
  BY <1>2 DEF StartAccepts, StartEnds, HostTypeOK, HostState
<1>3. CASE StartRefuses
  BY <1>3 DEF StartRefuses, StartEnds, HostTypeOK, HostState
<1>4. CASE StartTimesOut
  BY <1>4 DEF StartTimesOut, StartEnds, HostTypeOK, HostState
<1>5. CASE RequestTakesEvent
  <2>1. Accept /\ UNCHANGED <<hpc, late, verdict, deviations, teardown>>
    BY <1>5 DEF RequestTakesEvent
  <2>2. delivered' \in Seq(Line)
    BY <1>5, <2>1, AppendProperties DEF RequestTakesEvent, HostTypeOK
  <2> QED BY <2>1, <2>2 DEF HostTypeOK
<1>6. CASE RequestTakesReply
  <2>1. Accept /\ Conclude(FinalVerdict(Received)) /\ delivered' = delivered
    BY <1>6 DEF RequestTakesReply
  <2> QED BY <2>1, ConcludeType, VerdictTypes DEF HostTypeOK
<1>7. CASE RequestRefuses
  <2>1. Refuse /\ Conclude(Refusal(Received))
    BY <1>7 DEF RequestRefuses
  <2> QED BY <2>1, ConcludeType, VerdictTypes DEF HostTypeOK
<1>8. CASE RequestTimesOut
  <2>1. TimedOut /\ Conclude("deadline_exceeded")
    BY <1>8 DEF RequestTimesOut
  <2> QED BY <2>1, ConcludeType, VerdictTypes DEF HostTypeOK
<1>9. CASE PumpAccepts
  <2>1. Accept /\ PumpEnds
    BY <1>9 DEF PumpAccepts
  <2>2. delivered' \in Seq(Line)
    BY <1>9, <2>1, AppendProperties DEF PumpAccepts, HostTypeOK
  <2> QED BY <2>1, <2>2 DEF PumpEnds, HostTypeOK, HostState
<1>10. CASE PumpRefuses
  BY <1>10 DEF PumpRefuses, PumpEnds, HostTypeOK, HostState
<1>11. CASE PumpTimesOut
  BY <1>11 DEF PumpTimesOut, PumpEnds, HostTypeOK, HostState
<1>12. CASE SendShutdown
  <2>1. Send("shutdown", "shutdown", "reap")
    BY <1>12 DEF SendShutdown
  <2>2. deviations' \in SUBSET Deviation
    BY <1>12 DEF SendShutdown, HostTypeOK, Deviation
  <2> QED BY <2>1, <2>2, SendType DEF Op, HostState
<1>13. CASE Reap
  BY <1>13, ChannelUnchanged, AdapterUnchanged
  DEF Reap, HostTypeOK, HostState, AdapterTypeOK
<1>14. CASE Kill
  <2>1. HostTypeOK'
    BY <1>14 DEF Kill, HostTypeOK, HostState, ExitCode, Deviation
  <2>2. AdapterTypeOK'
    BY <1>14 DEF Kill, AdapterTypeOK, AdapterState, ExitCode
  <2> QED BY <1>14, <2>1, <2>2, ChannelUnchanged DEF Kill
<1> QED BY <1>1, <1>2, <1>3, <1>4, <1>5, <1>6, <1>7, <1>8, <1>9, <1>10, <1>11,
           <1>12, <1>13, <1>14 DEF HostStep

LEMMA CallerKeepsType ==
  ASSUME TypeOK, Caller
  PROVE  TypeOK'
<1> USE DEF TypeOK
<1>1. CASE Spawn
  BY <1>1
  DEF Spawn, HostTypeOK, ChannelTypeOK, AdapterTypeOK, HostState, AdapterState
<1>2. CASE SpawnFails
  BY <1>2, ChannelUnchanged, AdapterUnchanged, FaultType
  DEF SpawnFails, HostTypeOK, HostState
<1>3. CASE SendRequest
  <2>1. PICK op \in {"immediate", "deferred"} :
          Send(op, "request", IF seq = 0 THEN "failed" ELSE "idle")
    BY <1>3 DEF SendRequest
  <2>2. op \in Op /\ "request" \in HostState
        /\ (IF seq = 0 THEN "failed" ELSE "idle") \in HostState
    BY DEF Op, HostState
  <2>3. deviations' \in SUBSET Deviation
    BY <1>3 DEF SendRequest, HostTypeOK
  <2> QED BY <2>1, <2>2, <2>3, SendType
<1>4. CASE PumpStarts
  BY <1>4, ChannelUnchanged, AdapterUnchanged DEF PumpStarts, HostTypeOK, HostState
<1>5. CASE ClosePolls
  BY <1>5, ChannelUnchanged, AdapterUnchanged DEF ClosePolls, HostTypeOK, HostState
<1>6. CASE HostExits
  BY <1>6, AdapterUnchanged DEF HostExits, HostTypeOK, HostState, ChannelTypeOK
<1> QED BY <1>1, <1>2, <1>3, <1>4, <1>5, <1>6 DEF Caller

\* Every variable has its type, in every behaviour, for every bound.
THEOREM TypeCorrect == Spec => []TypeOK
<1>1. Init => TypeOK
  <2> SUFFICES ASSUME Init PROVE TypeOK
    OBVIOUS
  <2> USE EmptySeq DEF Init
  <2>1. HostTypeOK
    BY DEF HostTypeOK, HostState, ExitCode
  <2>2. ChannelTypeOK
    BY DEF ChannelTypeOK
  <2>3. AdapterTypeOK
    BY DEF AdapterTypeOK, AdapterState, ExitCode, TRANSPORT_VERSION
  <2> QED BY <2>1, <2>2, <2>3 DEF TypeOK
<1>2. TypeOK /\ [Next]_vars => TypeOK'
  <2> SUFFICES ASSUME TypeOK, [Next]_vars PROVE TypeOK'
    OBVIOUS
  <2>1. CASE UNCHANGED vars
    BY <2>1, HostUnchanged, ChannelUnchanged, AdapterUnchanged DEF vars, TypeOK
  <2>2. CASE Finished
    BY <2>1, <2>2 DEF Finished
  <2> QED BY <2>1, <2>2, AdapterKeepsType, EnvironmentKeepsType, ReaderKeepsType,
             HostStepKeepsType, CallerKeepsType DEF Next
<1> QED BY <1>1, <1>2, PTL DEF Spec
=============================================================================
