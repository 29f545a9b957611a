------------------------ MODULE NativeTransportSafety ------------------------
(***************************************************************************)
(* The safety properties of NativeTransport for every value of its         *)
(* constants, and that it is a RequestChannel.                             *)
(*                                                                         *)
(* The invariant looks at the lines in flight, those in the pipe and in the*)
(* reader's queue: each is a frame the adapter numbered, or the mark that  *)
(* ends its place; they are in order; and once a frame has been refused,   *)
(* none of them, and none the adapter may still number, is the next one.   *)
(*                                                                         *)
(* The second half follows the requests (CallsInv): they are performed in  *)
(* the order of issue, only what was performed is replied to, the shutdown *)
(* is the last of them, and an adapter that ends in order has had it.      *)
(***************************************************************************)
EXTENDS NativeTransportProofs

\* Every line of s is the frame that log has under its ordinal, or the mark.
Faithful(s, mark, log) ==
  \A i \in 1..Len(s) :
    \/ s[i] = mark
    \/ s[i].ordinal \in 1..Len(log) /\ s[i] = log[s[i].ordinal]

InFlight ==
  Faithful(frames, AdapterExit, emitted) /\ Faithful(pipe, Garbage, emitted)

\* The numbered lines of s are in order, and above n.
Rising(s) ==
  \A i, j \in 1..Len(s) :
    i < j /\ s[i].ordinal # 0 /\ s[j].ordinal # 0 => s[i].ordinal < s[j].ordinal
Above(s, n) == \A i \in 1..Len(s) : s[i].ordinal # 0 => s[i].ordinal > n

InOrder ==
  /\ Rising(frames) /\ Rising(pipe)
  /\ Above(frames, ordinal) /\ Above(pipe, ordinal)
  /\ \A i \in 1..Len(frames) : Above(pipe, frames[i].ordinal)

\* The reader queues the exit mark as the last thing it does.
ExitIsLast ==
  \A i \in 1..Len(frames) :
    frames[i] = AdapterExit => i = Len(frames) /\ reader = "stopped"

\* Why nothing is accepted after a refusal: a version that never changes, a
\* reader that has stopped, or a gap that is below everything to come.
BrokenForGood ==
  broken =>
    \/ version # TRANSPORT_VERSION
    \/ frames = <<>> /\ reader = "stopped"
    \/ Len(emitted) > ordinal /\ Above(frames, ordinal + 1)
       /\ Above(pipe, ordinal + 1)

Untouched == hpc = "init" => ~broken /\ frames = <<>> /\ reader = "unborn"

Prefix == ordinal \in 0..Len(emitted) /\ AcceptedIsPrefix

WireInv ==
  InFlight /\ InOrder /\ ExitIsLast /\ BrokenForGood /\ Untouched /\ Prefix

wireVars == <<emitted, pipe, frames, ordinal, accepted, broken, version>>

-----------------------------------------------------------------------------
(* Sequences of lines.                                                      *)

LEMMA AppendLine ==
  ASSUME NEW s \in Seq(Line), NEW l \in Line
  PROVE  /\ Append(s, l) \in Seq(Line) /\ Len(s) \in Nat
         /\ Len(Append(s, l)) = Len(s) + 1
         /\ \A i \in 1..Len(s) : Append(s, l)[i] = s[i]
         /\ Append(s, l)[Len(s) + 1] = l
BY AppendProperties, LenProperties

LEMMA TailLine ==
  ASSUME NEW s \in Seq(Line), s # <<>>
  PROVE  /\ Tail(s) \in Seq(Line) /\ Len(s) \in Nat /\ 1 \in 1..Len(s)
         /\ Head(s) = s[1] /\ s[1] \in Line
         /\ Len(Tail(s)) = Len(s) - 1
         /\ \A i \in 1..Len(Tail(s)) : i + 1 \in 1..Len(s) /\ Tail(s)[i] = s[i + 1]
<1>1. Len(s) \in Nat /\ Len(s) # 0
  BY EmptySeq, LenProperties
<1> QED BY <1>1, HeadTailProperties, ElementOfSeq

LEMMA LineOrdinal ==
  ASSUME NEW s \in Seq(Line), NEW i \in 1..Len(s)
  PROVE  s[i] \in Line /\ s[i].ordinal \in Nat
<1>1. s[i] \in Line
  BY ElementOfSeq
<1> QED BY <1>1 DEF Line

LEMMA Marks ==
  /\ AdapterExit.ordinal = 0 /\ Garbage.ordinal = 0
  /\ AdapterExit.type = "exit" /\ Garbage.type = "garbage"
BY DEF AdapterExit, Garbage

\* What is true of the lines of a sequence stays true of a tail of it.
LEMMA TailKeeps ==
  ASSUME NEW s \in Seq(Line), s # <<>>, NEW mark, NEW log
  PROVE  /\ Faithful(s, mark, log) => Faithful(Tail(s), mark, log)
         /\ Rising(s) => Rising(Tail(s))
         /\ \A n : Above(s, n) => Above(Tail(s), n)
<1>1. \A i \in 1..Len(Tail(s)) : i + 1 \in 1..Len(s) /\ Tail(s)[i] = s[i + 1]
  BY TailLine
<1>2. Faithful(s, mark, log) => Faithful(Tail(s), mark, log)
  BY <1>1 DEF Faithful
<1>3. Rising(s) => Rising(Tail(s))
  BY <1>1, TailLine DEF Rising
<1>4. \A n : Above(s, n) => Above(Tail(s), n)
  BY <1>1 DEF Above
<1> QED BY <1>2, <1>3, <1>4

\* The lines behind the head of a rising sequence are above it.
LEMMA HeadIsLowest ==
  ASSUME NEW s \in Seq(Line), s # <<>>, Rising(s), s[1].ordinal # 0
  PROVE  Above(Tail(s), s[1].ordinal)
<1>1. \A i \in 1..Len(Tail(s)) : i + 1 \in 1..Len(s) /\ Tail(s)[i] = s[i + 1]
  BY TailLine
<1>2. 1 \in 1..Len(s)
  BY TailLine
<1>3. \A i \in 1..Len(Tail(s)) :
        s[i + 1].ordinal # 0 => s[1].ordinal < s[i + 1].ordinal
  BY <1>1, <1>2 DEF Rising
<1>4. \A i \in 1..Len(Tail(s)) : s[i + 1].ordinal \in Nat /\ s[1].ordinal \in Nat
  BY <1>1, <1>2, LineOrdinal
<1> QED BY <1>1, <1>3, <1>4 DEF Above

\* A mark, or a line above all there are, may be added at the end.
LEMMA AppendKeeps ==
  ASSUME NEW s \in Seq(Line), NEW l \in Line, NEW mark, NEW log
  PROVE  /\ Faithful(s, mark, log)
              /\ (l = mark \/ (l.ordinal \in 1..Len(log) /\ l = log[l.ordinal]))
              => Faithful(Append(s, l), mark, log)
         /\ Rising(s) /\ (\A i \in 1..Len(s) :
              s[i].ordinal # 0 /\ l.ordinal # 0 => s[i].ordinal < l.ordinal)
              => Rising(Append(s, l))
         /\ \A n : Above(s, n) /\ (l.ordinal # 0 => l.ordinal > n)
              => Above(Append(s, l), n)
<1> DEFINE t == Append(s, l)
<1>1. Len(s) \in Nat /\ Len(t) = Len(s) + 1 /\ t[Len(s) + 1] = l
      /\ \A i \in 1..Len(s) : t[i] = s[i]
  BY AppendLine
<1>2. \A i \in 1..Len(t) : i \in 1..Len(s) \/ i = Len(s) + 1
  BY <1>1
<1> HIDE DEF t
<1>3. Faithful(s, mark, log)
        /\ (l = mark \/ (l.ordinal \in 1..Len(log) /\ l = log[l.ordinal]))
        => Faithful(t, mark, log)
  BY <1>1, <1>2 DEF Faithful
<1>4. Rising(s) /\ (\A i \in 1..Len(s) :
        s[i].ordinal # 0 /\ l.ordinal # 0 => s[i].ordinal < l.ordinal)
        => Rising(t)
  BY <1>1, <1>2 DEF Rising
<1>5. \A n : Above(s, n) /\ (l.ordinal # 0 => l.ordinal > n) => Above(t, n)
  BY <1>1, <1>2 DEF Above
<1> QED BY <1>3, <1>4, <1>5 DEF t

LEMMA AppendMark ==
  ASSUME NEW s \in Seq(Line), NEW mark \in Line, NEW log, Faithful(s, mark, log)
  PROVE  Faithful(Append(s, mark), mark, log)
<1> DEFINE t == Append(s, mark)
<1>1. Len(s) \in Nat /\ Len(t) = Len(s) + 1 /\ t[Len(s) + 1] = mark
      /\ \A i \in 1..Len(s) : t[i] = s[i]
  BY AppendLine
<1>2. \A i \in 1..Len(t) : i \in 1..Len(s) \/ i = Len(s) + 1
  BY <1>1
<1> HIDE DEF t
<1>3. Faithful(t, mark, log)
  BY <1>1, <1>2 DEF Faithful
<1> QED BY <1>3 DEF t

\* The log may grow.
LEMMA LogGrows ==
  ASSUME NEW s \in Seq(Line), NEW mark, NEW log \in Seq(Line), NEW l \in Line,
         Faithful(s, mark, log)
  PROVE  Faithful(s, mark, Append(log, l))
<1> DEFINE t == Append(log, l)
<1>1. Len(log) \in Nat /\ Len(t) = Len(log) + 1
      /\ \A i \in 1..Len(log) : t[i] = log[i]
  BY AppendLine
<1> HIDE DEF t
<1>2. Faithful(s, mark, t)
  BY <1>1 DEF Faithful
<1> QED BY <1>2 DEF t

-----------------------------------------------------------------------------
(* The steps, by what they do to the wire.                                  *)

LEMMA WireTypes ==
  ASSUME TypeOK
  PROVE  /\ emitted \in Seq(Line) /\ pipe \in Seq(Line) /\ frames \in Seq(Line)
         /\ accepted \in Seq(Line) /\ ordinal \in Nat /\ version \in Nat
         /\ Len(emitted) \in Nat /\ verdict \in Seq(Outcome)
BY LenProperties DEF TypeOK, HostTypeOK, ChannelTypeOK, AdapterTypeOK

\* Steps that do not touch the wire.
LEMMA NeutralKeepsWire ==
  ASSUME WireInv, UNCHANGED wireVars,
         reader' \in {reader, "stopped"} \/ hpc = "init",
         hpc' = "init" => hpc = "init" /\ reader' = reader
  PROVE  WireInv'
<1> USE DEF WireInv, wireVars
<1>1. InFlight' /\ InOrder' /\ Prefix' /\ Untouched'
  BY DEF InFlight, InOrder, Prefix, Untouched, AcceptedIsPrefix
<1>2. ExitIsLast'
  <2>1. CASE reader' \in {reader, "stopped"}
    BY <2>1 DEF ExitIsLast
  <2>2. CASE hpc = "init"
    <3>1. frames = <<>> /\ Len(<<>>) = 0
      BY <2>2, EmptySeq DEF Untouched
    <3>2. \A i \in 1..Len(frames) : FALSE
      BY <3>1
    <3> QED BY <3>2 DEF ExitIsLast
  <2> QED BY <2>1, <2>2
<1>3. BrokenForGood'
  BY DEF BrokenForGood, Untouched
<1> QED BY <1>1, <1>2, <1>3

\* The line write_frame adds to the log, and perhaps to the pipe.
LEMMA WrittenFrame ==
  ASSUME TypeOK, NEW f \in Line, WriteFrame(f)
  PROVE  \E frame \in Line :
           /\ frame.ordinal = Len(emitted) + 1 /\ frame.type = f.type
           /\ frame.seq = f.seq /\ frame.ok = f.ok
           /\ emitted' = Append(emitted, frame)
           /\ pipe' = pipe \/ pipe' = Append(pipe, frame)
<1> DEFINE frame == [f EXCEPT !.ordinal = Len(emitted) + 1]
<1>1. Len(emitted) + 1 \in Nat
  BY WireTypes
<1>2. frame \in Line /\ frame = [type |-> f.type, ordinal |-> Len(emitted) + 1,
                                seq |-> f.seq, ok |-> f.ok]
  BY <1>1, Numbered
<1>3. emitted' = Append(emitted, frame)
      /\ (pipe' = pipe \/ pipe' = Append(pipe, frame))
  BY DEF WriteFrame
<1>4. frame.ordinal = Len(emitted) + 1 /\ frame.type = f.type
      /\ frame.seq = f.seq /\ frame.ok = f.ok
  BY <1>2
<1> HIDE DEF frame
<1> QED BY <1>2, <1>3, <1>4

\* No line in flight has an ordinal that has not been given out.
LEMMA InFlightBounded ==
  ASSUME NEW s \in Seq(Line), NEW mark, mark.ordinal = 0, NEW log \in Seq(Line),
         Faithful(s, mark, log)
  PROVE  \A i \in 1..Len(s) : s[i].ordinal \in 0..Len(log)
<1>1. Len(log) \in Nat
  BY LenProperties
<1>2. TAKE i \in 1..Len(s)
<1>3. s[i] = mark \/ s[i].ordinal \in 1..Len(log)
  BY DEF Faithful
<1> QED BY <1>1, <1>3

LEMMA PrefixGrows ==
  ASSUME NEW log \in Seq(Line), NEW l \in Line, NEW n \in 0..Len(log)
  PROVE  SubSeq(Append(log, l), 1, n) = SubSeq(log, 1, n)
<1> DEFINE t == Append(log, l)
<1>1. Len(log) \in Nat /\ t \in Seq(Line) /\ Len(t) = Len(log) + 1
      /\ \A i \in 1..Len(log) : t[i] = log[i]
  BY AppendLine
<1> HIDE DEF t
<1>2. n \in Nat /\ \A i \in 1..n : i \in 1..Len(log) /\ i \in 1..Len(t)
  BY <1>1
<1>3. \A i \in 1..n : log[i] \in Line /\ t[i] \in Line
  BY <1>1, <1>2, ElementOfSeq
<1> DEFINE a == SubSeq(t, 1, n)
           b == SubSeq(log, 1, n)
<1>4. a \in Seq(Line) /\ Len(a) = (IF 1 <= n THEN n - 1 + 1 ELSE 0)
      /\ \A i \in 1..(n - 1 + 1) : a[i] = t[1 + i - 1]
  BY <1>2, <1>3, SubSeqProperties
<1>5. b \in Seq(Line) /\ Len(b) = (IF 1 <= n THEN n - 1 + 1 ELSE 0)
      /\ \A i \in 1..(n - 1 + 1) : b[i] = log[1 + i - 1]
  BY <1>2, <1>3, SubSeqProperties
<1> HIDE DEF a, b
<1>6. Len(a) = n /\ Len(b) = n /\ \A i \in 1..n : a[i] = t[i] /\ b[i] = log[i]
  BY <1>2, <1>4, <1>5
<1>7. a = b
  BY <1>1, <1>2, <1>4, <1>5, <1>6, SeqEqual
<1> QED BY <1>7 DEF a, b, t

LEMMA WriteKeepsWire ==
  ASSUME TypeOK, WireInv, NEW f \in Line, WriteFrame(f),
         UNCHANGED <<frames, ordinal, accepted, broken, version, reader, hpc>>
  PROVE  WireInv'
<1> USE DEF WireInv
<1>1. PICK frame \in Line :
        /\ frame.ordinal = Len(emitted) + 1
        /\ emitted' = Append(emitted, frame)
        /\ pipe' = pipe \/ pipe' = Append(pipe, frame)
  BY WrittenFrame
<1>2. /\ emitted \in Seq(Line) /\ pipe \in Seq(Line) /\ frames \in Seq(Line)
      /\ ordinal \in Nat /\ Len(emitted) \in Nat
  BY WireTypes
<1>3. Len(emitted') = Len(emitted) + 1 /\ emitted'[Len(emitted) + 1] = frame
  BY <1>1, <1>2, AppendLine
<1>4. frame.ordinal \in 1..Len(emitted') /\ frame = emitted'[frame.ordinal]
  BY <1>1, <1>2, <1>3
<1>5. /\ \A i \in 1..Len(pipe) : pipe[i].ordinal \in 0..Len(emitted)
      /\ \A i \in 1..Len(frames) : frames[i].ordinal \in 0..Len(emitted)
  BY <1>2, InFlightBounded, Marks DEF InFlight
<1>6. ordinal \in 0..Len(emitted)
  BY DEF Prefix
<1>7. InFlight'
  <2>1. Faithful(frames, AdapterExit, emitted') /\ Faithful(pipe, Garbage, emitted')
    BY <1>1, <1>2, LogGrows DEF InFlight
  <2>2. Faithful(Append(pipe, frame), Garbage, emitted')
    BY <1>2, <1>4, <2>1, AppendKeeps
  <2> QED BY <1>1, <2>1, <2>2 DEF InFlight
<1>8. \A n \in 0..Len(emitted) : Above(pipe, n) => Above(pipe', n)
  <2>1. TAKE n \in 0..Len(emitted)
  <2>2. frame.ordinal > n
    BY <1>1, <1>2
  <2>3. Above(pipe, n) => Above(Append(pipe, frame), n)
    BY <1>2, <2>2, AppendKeeps
  <2> QED BY <1>1, <2>3
<1>9. InOrder'
  <2>1. \A i \in 1..Len(pipe) : pipe[i].ordinal < frame.ordinal
    BY <1>1, <1>2, <1>5
  <2>2. Rising(Append(pipe, frame))
    BY <1>2, <2>1, AppendKeeps DEF InOrder
  <2>3. Rising(pipe')
    BY <1>1, <2>2 DEF InOrder
  <2>4. Above(pipe', ordinal)
    BY <1>6, <1>8 DEF InOrder
  <2>5. \A i \in 1..Len(frames) : Above(pipe', frames[i].ordinal)
    BY <1>5, <1>8 DEF InOrder
  <2> QED BY <2>3, <2>4, <2>5 DEF InOrder
<1>10. BrokenForGood'
  <2>1. CASE broken /\ Len(emitted) > ordinal /\ Above(pipe, ordinal + 1)
    <3>1. ordinal + 1 \in 0..Len(emitted) /\ Len(emitted') > ordinal
      BY <1>2, <1>3, <2>1
    <3>2. Above(pipe', ordinal + 1)
      BY <1>8, <2>1, <3>1
    <3> QED BY <2>1, <3>1, <3>2 DEF BrokenForGood
  <2> QED BY <2>1 DEF BrokenForGood
<1>11. ExitIsLast' /\ Untouched'
  BY DEF ExitIsLast, Untouched
<1>12. Prefix'
  <2>1. SubSeq(emitted', 1, ordinal) = SubSeq(emitted, 1, ordinal)
    BY <1>1, <1>2, <1>6, PrefixGrows
  <2>2. ordinal \in 0..Len(emitted')
    BY <1>2, <1>3, <1>6
  <2> QED BY <2>1, <2>2 DEF Prefix, AcceptedIsPrefix
<1> QED BY <1>7, <1>9, <1>10, <1>11, <1>12

\* A stray line on stdout.
LEMMA ChatterKeepsWire ==
  ASSUME TypeOK, WireInv, Chatter
  PROVE  WireInv'
<1> USE DEF WireInv
<1>1. /\ pipe' = Append(pipe, Garbage) /\ reader' = reader /\ hpc' = hpc
      /\ UNCHANGED <<emitted, frames, ordinal, accepted, broken, version>>
  BY DEF Chatter, hostVars, adapterVars
<1>2. pipe \in Seq(Line) /\ Garbage \in Line /\ Garbage.ordinal = 0
  BY WireTypes, FrameTypes, Marks
<1>3. Faithful(pipe', Garbage, emitted)
  <2>1. Faithful(pipe, Garbage, emitted)
    BY DEF InFlight
  <2>2. Faithful(Append(pipe, Garbage), Garbage, emitted)
    BY <1>2, <2>1, AppendMark
  <2> QED BY <1>1, <2>2
<1>4. Rising(pipe')
  BY <1>1, <1>2, AppendKeeps DEF InOrder
<1>5. \A n : Above(pipe, n) => Above(pipe', n)
  BY <1>1, <1>2, AppendKeeps
<1>6. InFlight' /\ InOrder'
  BY <1>1, <1>3, <1>4, <1>5 DEF InFlight, InOrder
<1>7. BrokenForGood'
  BY <1>1, <1>5 DEF BrokenForGood
<1>8. ExitIsLast' /\ Untouched' /\ Prefix'
  BY <1>1 DEF ExitIsLast, Untouched, Prefix, AcceptedIsPrefix
<1> QED BY <1>6, <1>7, <1>8

\* The reader moves a frame from the pipe to the queue.
LEMMA ReadFrameKeepsWire ==
  ASSUME TypeOK, WireInv, ReadFrame
  PROVE  WireInv'
<1> USE DEF WireInv
<1> DEFINE l == pipe[1]
<1>1. /\ pipe # <<>> /\ reader = "running" /\ Head(pipe) # Garbage
      /\ frames' = Append(frames, Head(pipe)) /\ pipe' = Tail(pipe)
      /\ UNCHANGED <<emitted, ordinal, accepted, broken, version, reader, hpc>>
  BY DEF ReadFrame, hostVars, adapterVars
<1>2. /\ emitted \in Seq(Line) /\ pipe \in Seq(Line) /\ frames \in Seq(Line)
      /\ ordinal \in Nat /\ Len(emitted) \in Nat
  BY WireTypes
<1>3. l \in Line /\ Head(pipe) = l /\ 1 \in 1..Len(pipe)
  BY <1>1, <1>2, TailLine
<1>4. l.ordinal \in 1..Len(emitted) /\ l = emitted[l.ordinal]
  BY <1>1, <1>3 DEF InFlight, Faithful
<1>5. \A n : Above(pipe, n) => l.ordinal > n
  BY <1>2, <1>3, <1>4 DEF Above
<1> HIDE DEF l
<1>6. InFlight'
  BY <1>1, <1>2, <1>3, <1>4, AppendKeeps, TailKeeps DEF InFlight
<1>7. Len(frames) \in Nat /\ Len(frames') = Len(frames) + 1
      /\ frames'[Len(frames) + 1] = l
      /\ \A i \in 1..Len(frames) : frames'[i] = frames[i]
  BY <1>1, <1>2, <1>3, AppendLine
<1>8. \A i \in 1..Len(frames') : i \in 1..Len(frames) \/ i = Len(frames) + 1
  BY <1>7
<1>9. \A n : Above(pipe, n) => Above(pipe', n)
  BY <1>1, <1>2, TailKeeps
<1>10. \A n : Above(pipe, n) /\ Above(frames, n) => Above(frames', n)
  BY <1>1, <1>2, <1>3, <1>5, AppendKeeps
<1>11. InOrder'
  <2>1. \A i \in 1..Len(frames) : frames[i].ordinal \in Nat
    BY <1>2, LineOrdinal
  <2>2. \A i \in 1..Len(frames) : frames[i].ordinal < l.ordinal
    BY <1>4, <1>5, <2>1 DEF InOrder
  <2>3. Rising(frames')
    BY <1>1, <1>2, <1>3, <2>2, AppendKeeps DEF InOrder
  <2>4. Rising(pipe')
    BY <1>1, <1>2, TailKeeps DEF InOrder
  <2>5. Above(pipe', l.ordinal)
    BY <1>1, <1>2, <1>4, HeadIsLowest DEF InOrder, l
  <2>6. \A i \in 1..Len(frames') : Above(pipe', frames'[i].ordinal)
    BY <1>7, <1>8, <1>9, <2>5 DEF InOrder
  <2> QED BY <1>1, <1>9, <1>10, <2>3, <2>4, <2>6 DEF InOrder
<1>12. ExitIsLast'
  <2>1. l # AdapterExit
    BY <1>2, <1>4, Marks
  <2>2. \A i \in 1..Len(frames) : frames[i] # AdapterExit
    BY <1>1 DEF ExitIsLast
  <2>3. \A i \in 1..Len(frames') : frames'[i] # AdapterExit
    BY <1>7, <1>8, <2>1, <2>2
  <2> QED BY <2>3 DEF ExitIsLast
<1>13. BrokenForGood'
  BY <1>1, <1>9, <1>10 DEF BrokenForGood
<1>14. Untouched' /\ Prefix'
  BY <1>1 DEF Untouched, Prefix, AcceptedIsPrefix
<1> QED BY <1>6, <1>11, <1>12, <1>13, <1>14

\* The reader queues the exit mark and stops.
LEMMA ReaderStopsKeepsWire ==
  ASSUME TypeOK, WireInv, ReadGarbage \/ ReadEndOfFile
  PROVE  WireInv'
<1> USE DEF WireInv
<1>1. /\ reader = "running" /\ reader' = "stopped" /\ hpc' = hpc
      /\ frames' = Append(frames, AdapterExit)
      /\ pipe' = pipe \/ (pipe # <<>> /\ pipe' = Tail(pipe))
      /\ UNCHANGED <<emitted, ordinal, accepted, broken, version>>
  BY DEF ReadGarbage, ReadEndOfFile, hostVars, adapterVars
<1>2. /\ pipe \in Seq(Line) /\ frames \in Seq(Line)
      /\ AdapterExit \in Line /\ AdapterExit.ordinal = 0
  BY WireTypes, FrameTypes, Marks
<1>3. Len(frames) \in Nat /\ Len(frames') = Len(frames) + 1
      /\ frames'[Len(frames) + 1] = AdapterExit
      /\ \A i \in 1..Len(frames) : frames'[i] = frames[i]
  BY <1>1, <1>2, AppendLine
<1>4. \A i \in 1..Len(frames') : i \in 1..Len(frames) \/ i = Len(frames) + 1
  BY <1>3
<1>5. /\ \A n : Above(pipe, n) => Above(pipe', n)
      /\ \A n : Above(frames, n) => Above(frames', n)
  BY <1>1, <1>2, TailKeeps, AppendKeeps
<1>6. InFlight'
  <2>1. Faithful(frames, AdapterExit, emitted) /\ Faithful(pipe, Garbage, emitted)
    BY DEF InFlight
  <2>2. Faithful(Append(frames, AdapterExit), AdapterExit, emitted)
    BY <1>2, <2>1, AppendMark
  <2>3. pipe # <<>> => Faithful(Tail(pipe), Garbage, emitted)
    BY <1>2, <2>1, TailKeeps
  <2> QED BY <1>1, <2>1, <2>2, <2>3 DEF InFlight
<1>7. InOrder'
  <2>1. Rising(frames')
    BY <1>1, <1>2, AppendKeeps DEF InOrder
  <2>2. Rising(pipe')
    BY <1>1, <1>2, TailKeeps DEF InOrder
  <2>3. \A i \in 1..Len(pipe) : pipe[i].ordinal \in Nat
    BY <1>2, LineOrdinal
  <2>4. Above(pipe, 0)
    BY <2>3 DEF Above
  <2>5. \A i \in 1..Len(frames') : Above(pipe', frames'[i].ordinal)
    BY <1>2, <1>3, <1>4, <1>5, <2>4 DEF InOrder
  <2> QED BY <1>1, <1>5, <2>1, <2>2, <2>5 DEF InOrder
<1>8. ExitIsLast'
  <2>1. \A i \in 1..Len(frames) : frames[i] # AdapterExit
    BY <1>1 DEF ExitIsLast
  <2>2. \A i \in 1..Len(frames') : frames'[i] = AdapterExit => i = Len(frames')
    BY <1>3, <1>4, <2>1
  <2> QED BY <1>1, <2>2 DEF ExitIsLast
<1>9. BrokenForGood' /\ Untouched'
  BY <1>1, <1>5 DEF BrokenForGood, Untouched
<1>10. Prefix'
  BY <1>1 DEF Prefix, AcceptedIsPrefix
<1> QED BY <1>6, <1>7, <1>8, <1>9, <1>10

\* What the head of the queue can be.
LEMMA HeadOfQueue ==
  ASSUME TypeOK, WireInv, frames # <<>>
  PROVE  /\ Received = frames[1] /\ Received \in Line /\ 1 \in 1..Len(frames)
         /\ \/ Received = AdapterExit
            \/ /\ Received.ordinal \in 1..Len(emitted) /\ Received.ordinal > ordinal
               /\ Received = emitted[Received.ordinal]
         /\ \A n : Above(frames, n) /\ Received.ordinal # 0 => Received.ordinal > n
<1> USE DEF WireInv
<1>1. Received = frames[1] /\ Received \in Line /\ 1 \in 1..Len(frames)
  BY WireTypes, TailLine DEF Received
<1>2. \/ Received = AdapterExit
      \/ Received.ordinal \in 1..Len(emitted) /\ Received = emitted[Received.ordinal]
  BY <1>1 DEF InFlight, Faithful
<1>3. \A n : Above(frames, n) /\ Received.ordinal # 0 => Received.ordinal > n
  BY <1>1 DEF Above
<1>4. Received.ordinal \in 1..Len(emitted) => Received.ordinal # 0
  BY WireTypes
<1> QED BY <1>1, <1>2, <1>3, <1>4 DEF InOrder

\* The rest of the queue, once its head is gone.
LEMMA RestOfQueue ==
  ASSUME TypeOK, WireInv, frames # <<>>, frames' = Tail(frames),
         UNCHANGED <<emitted, pipe, reader>>
  PROVE  /\ InFlight' /\ ExitIsLast' /\ Rising(frames') /\ Rising(pipe')
         /\ \A i \in 1..Len(frames') : Above(pipe', frames'[i].ordinal)
         /\ Received.ordinal # 0 => Above(frames', Received.ordinal)
         /\ Above(pipe', Received.ordinal)
<1> USE DEF WireInv
<1>1. frames \in Seq(Line)
  BY WireTypes
<1>2. /\ Len(frames) \in Nat /\ Len(frames') = Len(frames) - 1
      /\ \A i \in 1..Len(frames') : i + 1 \in 1..Len(frames)
                                   /\ frames'[i] = frames[i + 1]
  BY <1>1, TailLine
<1>3. InFlight' /\ Rising(frames') /\ Rising(pipe')
  BY <1>1, TailKeeps DEF InFlight, InOrder
<1>4. ExitIsLast'
  <2>1. \A i \in 1..Len(frames') :
          frames'[i] = AdapterExit => i + 1 = Len(frames) /\ reader = "stopped"
    BY <1>2 DEF ExitIsLast
  <2>2. \A i \in 1..Len(frames') :
          frames'[i] = AdapterExit => i = Len(frames') /\ reader = "stopped"
    <3>1. TAKE i \in 1..Len(frames')
    <3>2. HAVE frames'[i] = AdapterExit
    <3>3. i + 1 = Len(frames) /\ reader = "stopped"
      BY <2>1, <3>2
    <3>4. i \in Nat /\ Len(frames) \in Nat /\ Len(frames') = Len(frames) - 1
      BY <1>2
    <3>5. i = Len(frames')
      BY <3>3, <3>4
    <3> QED BY <3>3, <3>5
  <2> QED BY <2>2 DEF ExitIsLast
<1>5. \A i \in 1..Len(frames') : Above(pipe', frames'[i].ordinal)
  BY <1>2 DEF InOrder
<1>6. Received.ordinal # 0 => Above(frames', Received.ordinal)
  BY <1>1, HeadOfQueue, HeadIsLowest DEF InOrder
<1>7. Above(pipe', Received.ordinal)
  BY HeadOfQueue DEF InOrder
<1> QED BY <1>3, <1>4, <1>5, <1>6, <1>7

LEMMA PrefixExtends ==
  ASSUME NEW log \in Seq(Line), NEW n \in Nat, n + 1 \in 1..Len(log)
  PROVE  Append(SubSeq(log, 1, n), log[n + 1]) = SubSeq(log, 1, n + 1)
<1> DEFINE a == SubSeq(log, 1, n)
           b == SubSeq(log, 1, n + 1)
           c == Append(a, log[n + 1])
<1>1. Len(log) \in Nat
  BY LenProperties
<1>2. \A i \in 1..(n + 1) : i \in 1..Len(log)
  BY <1>1
<1>3. \A i \in 1..(n + 1) : log[i] \in Line
  BY <1>2, ElementOfSeq
<1>4. a \in Seq(Line) /\ Len(a) = (IF 1 <= n THEN n - 1 + 1 ELSE 0)
      /\ \A i \in 1..(n - 1 + 1) : a[i] = log[1 + i - 1]
  BY <1>3, SubSeqProperties
<1>5. b \in Seq(Line) /\ Len(b) = (IF 1 <= n + 1 THEN n + 1 - 1 + 1 ELSE 0)
      /\ \A i \in 1..(n + 1 - 1 + 1) : b[i] = log[1 + i - 1]
  BY <1>3, SubSeqProperties
<1> HIDE DEF a, b
<1>6. Len(a) = n /\ Len(b) = n + 1 /\ \A i \in 1..n : a[i] = log[i]
  BY <1>4, <1>5
<1>7. \A i \in 1..(n + 1) : b[i] = log[i]
  BY <1>5
<1>8. log[n + 1] \in Line
  BY <1>3
<1>9. c \in Seq(Line) /\ Len(c) = n + 1 /\ c[n + 1] = log[n + 1]
      /\ \A i \in 1..n : c[i] = a[i]
  BY <1>4, <1>6, <1>8, AppendLine
<1> HIDE DEF c
<1>10. \A i \in 1..(n + 1) : c[i] = b[i]
  BY <1>6, <1>7, <1>9
<1>11. c = b
  BY <1>5, <1>6, <1>9, <1>10, SeqEqual
<1> QED BY <1>11 DEF a, b, c

\* Nothing is accepted once something has been refused.
LEMMA AcceptOnlyUnbroken ==
  ASSUME TypeOK, WireInv, Accept
  PROVE  /\ ~broken /\ hpc # "init"
         /\ Received.ordinal = ordinal + 1 /\ Received.ordinal \in 1..Len(emitted)
         /\ Received = emitted[ordinal + 1]
<1> USE DEF WireInv
<1>1. frames # <<>> /\ Received # AdapterExit /\ version = TRANSPORT_VERSION
      /\ Received.ordinal = ordinal + 1
  BY DEF Accept, Acceptable, Contiguous
<1>2. hpc # "init"
  BY <1>1 DEF Untouched
<1>3. Received.ordinal \in 1..Len(emitted) /\ Received = emitted[ordinal + 1]
  BY <1>1, HeadOfQueue
<1>4. ordinal \in Nat
  BY WireTypes
<1>5. ~Above(frames, ordinal + 1)
  BY <1>1, <1>4, HeadOfQueue
<1> QED BY <1>1, <1>2, <1>3, <1>5 DEF BrokenForGood

LEMMA AcceptKeepsWire ==
  ASSUME TypeOK, WireInv, Accept, hpc' # "init"
  PROVE  WireInv'
<1> USE DEF WireInv
<1>1. /\ frames # <<>> /\ frames' = Tail(frames) /\ ordinal' = Received.ordinal
      /\ accepted' = Append(accepted, Received)
      /\ UNCHANGED <<broken, emitted, pipe, reader, version>>
  BY DEF Accept, adapterVars
<1>2. /\ ~broken /\ ordinal' = ordinal + 1 /\ ordinal + 1 \in 1..Len(emitted)
      /\ Received = emitted[ordinal + 1] /\ Received.ordinal = ordinal + 1
  BY <1>1, AcceptOnlyUnbroken
<1>3. emitted \in Seq(Line) /\ ordinal \in Nat /\ Len(emitted) \in Nat
  BY WireTypes
<1>4. InFlight' /\ ExitIsLast'
  BY <1>1, RestOfQueue
<1>5. InOrder'
  <2>1. Received.ordinal # 0
    BY <1>2, <1>3
  <2> QED BY <1>1, <2>1, RestOfQueue DEF InOrder
<1>6. BrokenForGood' /\ Untouched'
  BY <1>1, <1>2 DEF BrokenForGood, Untouched
<1>7. Prefix'
  <2>1. accepted' = SubSeq(emitted, 1, ordinal + 1)
    BY <1>1, <1>2, <1>3, PrefixExtends DEF Prefix, AcceptedIsPrefix
  <2>2. ordinal + 1 \in 0..Len(emitted)
    BY <1>2, <1>3
  <2> QED BY <1>1, <1>2, <2>1, <2>2 DEF Prefix, AcceptedIsPrefix
<1> QED BY <1>4, <1>5, <1>6, <1>7

LEMMA RefuseKeepsWire ==
  ASSUME TypeOK, WireInv, Refuse, hpc' # "init"
  PROVE  WireInv'
<1> USE DEF WireInv
<1>1. /\ frames # <<>> /\ ~Acceptable(Received)
      /\ frames' = Tail(frames) /\ broken' = TRUE
      /\ UNCHANGED <<ordinal, accepted, emitted, pipe, reader, version>>
  BY DEF Refuse, adapterVars
<1>2. /\ frames \in Seq(Line) /\ emitted \in Seq(Line)
      /\ ordinal \in Nat /\ Len(emitted) \in Nat
  BY WireTypes
<1>3. InFlight' /\ ExitIsLast'
  BY <1>1, RestOfQueue
<1>4. InOrder'
  BY <1>1, <1>2, RestOfQueue, TailKeeps DEF InOrder
<1>5. BrokenForGood'
  <2>1. CASE Received = AdapterExit
    <3>1. Len(frames) = 1 /\ reader = "stopped"
      BY <1>1, <2>1, HeadOfQueue DEF ExitIsLast
    <3>2. Len(Tail(frames)) = 0 /\ Tail(frames) \in Seq(Line)
      BY <1>1, <1>2, <3>1, TailLine
    <3>3. Tail(frames) = <<>>
      BY <3>2, EmptySeq
    <3> QED BY <1>1, <3>1, <3>3 DEF BrokenForGood
  <2>2. CASE version # TRANSPORT_VERSION
    BY <1>1, <2>2 DEF BrokenForGood
  <2>3. CASE Received # AdapterExit /\ Received.ordinal # ordinal + 1
    <3>1. Received.ordinal \in 1..Len(emitted) /\ Received.ordinal > ordinal
      BY <1>1, <2>3, HeadOfQueue
    <3>2. Received.ordinal > ordinal + 1 /\ Len(emitted) > ordinal
          /\ Received.ordinal # 0
      BY <1>2, <2>3, <3>1
    <3>3. Above(frames', Received.ordinal) /\ Above(pipe', Received.ordinal)
      BY <1>1, <3>2, RestOfQueue
    <3>4. \A k \in Nat : k > Received.ordinal => k > ordinal + 1
      BY <1>2, <3>1, <3>2
    <3>5. frames' \in Seq(Line) /\ pipe' \in Seq(Line)
      BY <1>1, <1>2, TailLine, WireTypes
    <3>6. /\ \A i \in 1..Len(frames') : frames'[i].ordinal \in Nat
          /\ \A i \in 1..Len(pipe') : pipe'[i].ordinal \in Nat
      BY <3>5, LineOrdinal
    <3>7. Above(frames', ordinal + 1) /\ Above(pipe', ordinal + 1)
      BY <3>3, <3>4, <3>6 DEF Above
    <3> QED BY <1>1, <3>2, <3>7 DEF BrokenForGood
  <2> QED BY <1>1, <2>1, <2>2, <2>3 DEF Acceptable, Contiguous
<1>6. Untouched' /\ Prefix'
  BY <1>1 DEF Untouched, Prefix, AcceptedIsPrefix
<1> QED BY <1>3, <1>4, <1>5, <1>6

-----------------------------------------------------------------------------
(* Every step of the system is one of those.                                *)

LEMMA AdapterKeepsWire ==
  ASSUME TypeOK, WireInv, AdapterStep \/ Environment
  PROVE  WireInv'
<1> USE DEF hostVars, channelVars, adapterVars, wireVars
<1>1. CASE AdapterReady
  BY <1>1, WriteKeepsWire, FrameTypes DEF AdapterReady
<1>2. CASE HandleImmediate
  <2>1. PICK ok \in BOOLEAN : WriteFrame(Reply(Head(inbox).seq, ok))
    BY <1>2 DEF HandleImmediate
  <2>2. Reply(Head(inbox).seq, ok) \in Line
    BY <1>2, InboxHead, FrameTypes DEF HandleImmediate, TypeOK
  <2> QED BY <1>2, <2>1, <2>2, WriteKeepsWire DEF HandleImmediate
<1>3. CASE HandleDeferred
  BY <1>3, NeutralKeepsWire DEF HandleDeferred
<1>4. CASE HandleShutdown
  <2>1. Reply(Head(inbox).seq, TRUE) \in Line
    BY <1>4, InboxHead, FrameTypes DEF HandleShutdown, TypeOK
  <2> QED BY <1>4, <2>1, WriteKeepsWire DEF HandleShutdown
<1>5. CASE \E s \in deferred : ResolveDeferred(s)
  <2>1. PICK s \in deferred : ResolveDeferred(s)
    BY <1>5
  <2>2. PICK ok \in BOOLEAN : WriteFrame(Reply(s, ok))
    BY <2>1 DEF ResolveDeferred
  <2>3. Reply(s, ok) \in Line
    BY FrameTypes DEF TypeOK, AdapterTypeOK
  <2> QED BY <2>1, <2>2, <2>3, WriteKeepsWire DEF ResolveDeferred
<1>6. CASE InboxClosed \/ AdapterQuits
  BY <1>6, NeutralKeepsWire DEF InboxClosed, AdapterQuits
<1>7. CASE EngineEvent
  BY <1>7, WriteKeepsWire, FrameTypes DEF EngineEvent
<1>8. CASE AdapterFailsToStart \/ AdapterCrashes \/ AdapterHangs
  BY <1>8, NeutralKeepsWire DEF AdapterFailsToStart, AdapterCrashes, AdapterHangs
<1> QED BY <1>1, <1>2, <1>3, <1>4, <1>5, <1>6, <1>7, <1>8, ChatterKeepsWire
        DEF AdapterStep, Environment

LEMMA HostKeepsWire ==
  ASSUME TypeOK, WireInv, HostStep \/ Caller
  PROVE  WireInv'
<1> USE DEF hostVars, channelVars, adapterVars, wireVars
<1>1. CASE DeadlinePasses
  BY <1>1, NeutralKeepsWire DEF DeadlinePasses
<1>2. CASE StartAccepts \/ StartRefuses \/ StartTimesOut
  BY <1>2, AcceptKeepsWire, RefuseKeepsWire, NeutralKeepsWire
  DEF StartAccepts, StartRefuses, StartTimesOut, StartEnds, TimedOut
<1>3. CASE RequestTakesEvent
  BY <1>3, AcceptKeepsWire DEF RequestTakesEvent
<1>4. CASE RequestTakesReply \/ RequestRefuses
  BY <1>4, AcceptKeepsWire, RefuseKeepsWire
  DEF RequestTakesReply, RequestRefuses, Conclude
<1>5. CASE RequestTimesOut
  BY <1>5, NeutralKeepsWire DEF RequestTimesOut, Conclude, TimedOut
<1>6. CASE PumpAccepts \/ PumpRefuses \/ PumpTimesOut
  BY <1>6, AcceptKeepsWire, RefuseKeepsWire, NeutralKeepsWire
  DEF PumpAccepts, PumpRefuses, PumpTimesOut, PumpEnds, TimedOut
<1>7. CASE SendShutdown
  BY <1>7, NeutralKeepsWire DEF SendShutdown, Send
<1>8. CASE Reap \/ Kill
  BY <1>8, NeutralKeepsWire DEF Reap, Kill
<1>9. CASE Spawn \/ SpawnFails
  BY <1>9, NeutralKeepsWire DEF Spawn, SpawnFails
<1>10. CASE SendRequest
  <2>1. PICK op \in {"immediate", "deferred"} :
          Send(op, "request", IF seq = 0 THEN "failed" ELSE "idle")
    BY <1>10 DEF SendRequest
  <2>2. UNCHANGED wireVars /\ reader' = reader /\ hpc' # "init"
    BY <2>1 DEF Send
  <2> QED BY <2>2, NeutralKeepsWire
<1>11. CASE PumpStarts \/ ClosePolls \/ HostExits
  BY <1>11, NeutralKeepsWire DEF PumpStarts, ClosePolls, HostExits
<1> QED BY <1>1, <1>2, <1>3, <1>4, <1>5, <1>6, <1>7, <1>8, <1>9, <1>10, <1>11
        DEF HostStep, Caller

\* The invariant of the wire, in every behaviour.
LEMMA WireCorrect == Spec => []WireInv
<1>1. Init => WireInv
  <2> SUFFICES ASSUME Init PROVE WireInv
    OBVIOUS
  <2>1. /\ emitted = <<>> /\ pipe = <<>> /\ frames = <<>> /\ accepted = <<>>
        /\ ordinal = 0 /\ broken = FALSE /\ reader = "unborn"
    BY DEF Init
  <2>2. <<>> \in Seq(Line) /\ Len(<<>>) = 0
    BY EmptySeq
  <2>3. \A i \in 1..Len(<<>>) : FALSE
    BY <2>2
  <2>4. InFlight
    BY <2>1, <2>3 DEF InFlight, Faithful
  <2>5. InOrder
    BY <2>1, <2>3 DEF InOrder, Rising, Above
  <2>6. ExitIsLast /\ BrokenForGood /\ Untouched
    BY <2>1, <2>3 DEF ExitIsLast, BrokenForGood, Untouched
  <2>7. Prefix
    <3>1. SubSeq(<<>>, 1, 0) = <<>>
      BY SubSeqEmpty
    <3> QED BY <2>1, <2>2, <3>1 DEF Prefix, AcceptedIsPrefix
  <2> QED BY <2>4, <2>5, <2>6, <2>7 DEF WireInv
<1>2. TypeOK /\ WireInv /\ [Next]_vars => WireInv'
  <2> SUFFICES ASSUME TypeOK, WireInv, [Next]_vars PROVE WireInv'
    OBVIOUS
  <2>1. CASE UNCHANGED vars \/ Finished
    BY <2>1, NeutralKeepsWire
    DEF Finished, vars, hostVars, channelVars, adapterVars, wireVars
  <2>2. CASE ReaderStep
    BY <2>2, ReadFrameKeepsWire, ReaderStopsKeepsWire DEF ReaderStep
  <2> QED BY <2>1, <2>2, AdapterKeepsWire, HostKeepsWire DEF Next
<1> QED BY <1>1, <1>2, TypeCorrect, PTL DEF Spec

\* The host's record of frames is a gapless prefix of what the adapter
\* numbered (the ordinal check of _next_frame).
THEOREM AcceptedPrefix == Spec => []AcceptedIsPrefix
<1>1. WireInv => AcceptedIsPrefix
  BY DEF WireInv, Prefix
<1> QED BY <1>1, WireCorrect, PTL

\* After a refusal, nothing is accepted any more (the ordinal is advanced
\* only by an accepted frame, and the reader stops at the exit mark).
THEOREM FaultTerminal == Spec => FaultIsTerminal
<1>1. TypeOK /\ WireInv /\ [Next]_vars
        => [broken => accepted' = accepted]_vars
  <2> SUFFICES ASSUME TypeOK, WireInv, broken, Next
               PROVE  accepted' = accepted
    BY DEF vars, hostVars
  <2>1. ~Accept
    BY AcceptOnlyUnbroken
  <2> USE <2>1 DEF hostVars, channelVars, adapterVars
  <2>2. CASE AdapterStep \/ Environment
    BY <2>2
    DEF AdapterStep, AdapterReady, HandleImmediate, HandleDeferred,
        HandleShutdown, ResolveDeferred, InboxClosed, AdapterQuits,
        Environment, EngineEvent, Chatter, AdapterFailsToStart,
        AdapterCrashes, AdapterHangs
  <2>3. CASE ReaderStep \/ Finished
    BY <2>3 DEF ReaderStep, ReadFrame, ReadGarbage, ReadEndOfFile, Finished, vars
  <2>4. CASE HostStep
    BY <2>4
    DEF HostStep, DeadlinePasses, StartAccepts, StartRefuses, StartTimesOut,
        RequestTakesEvent, RequestTakesReply, RequestRefuses, RequestTimesOut,
        PumpAccepts, PumpRefuses, PumpTimesOut, SendShutdown, Send, Reap, Kill,
        Refuse, TimedOut
  <2>5. CASE Caller
    BY <2>5
    DEF Caller, Spawn, SpawnFails, SendRequest, Send, PumpStarts, ClosePolls,
        HostExits
  <2> QED BY <2>2, <2>3, <2>4, <2>5 DEF Next
<1> QED BY <1>1, TypeCorrect, WireCorrect, PTL DEF Spec, FaultIsTerminal

-----------------------------------------------------------------------------
(* Genuine answers.                                                         *)

\* The adapter has numbered a reply to request s with this outcome.
Replied(s, v) ==
  \E i \in 1..Len(emitted) :
    /\ emitted[i].type = "reply" /\ emitted[i].seq = s
    /\ emitted[i].ok = (v = "ok")

\* A reply that has been numbered stays in the log.
LEMMA RepliedStays ==
  ASSUME TypeOK, NEW s, NEW v, Replied(s, v),
         emitted' = emitted \/ \E l \in Line : emitted' = Append(emitted, l)
  PROVE  Replied(s, v)'
<1>1. CASE emitted' = emitted
  BY <1>1 DEF Replied
<1>2. CASE \E l \in Line : emitted' = Append(emitted, l)
  <2>1. Len(emitted) \in Nat /\ Len(emitted') = Len(emitted) + 1
        /\ \A i \in 1..Len(emitted) : emitted'[i] = emitted[i]
    BY <1>2, WireTypes, AppendLine
  <2>2. \A i \in 1..Len(emitted) : i \in 1..Len(emitted')
    BY <2>1
  <2> QED BY <2>1, <2>2 DEF Replied
<1> QED BY <1>1, <1>2

LEMMA WriteGrowsLog ==
  ASSUME TypeOK, NEW f \in Line, WriteFrame(f)
  PROVE  \E l \in Line : emitted' = Append(emitted, l)
BY WrittenFrame

\* A step that concludes nothing.
LEMMA AnswersKept ==
  ASSUME TypeOK, AnswerIsGenuine, verdict' = verdict,
         emitted' = emitted \/ \E l \in Line : emitted' = Append(emitted, l)
  PROVE  AnswerIsGenuine'
<1>1. \A s \in 1..Len(verdict) :
        verdict[s] \in {"ok", "rejected"} => Replied(s, verdict[s])
  BY DEF AnswerIsGenuine, Replied
<1>2. \A s, v : Replied(s, v) => Replied(s, v)'
  BY RepliedStays
<1>3. \A s \in 1..Len(verdict) :
        verdict[s] \in {"ok", "rejected"} => Replied(s, verdict[s])'
  BY <1>1, <1>2
<1> QED BY <1>3 DEF AnswerIsGenuine, Replied

\* A request that is sent is not answered yet.
LEMMA SendKeepsAnswers ==
  ASSUME TypeOK, AnswerIsGenuine, NEW op, NEW waiting, NEW onFailure,
         Send(op, waiting, onFailure)
  PROVE  AnswerIsGenuine'
<1>1. PICK v \in {"pending", "backend_failed"} : verdict' = Append(verdict, v)
  BY DEF Send
<1>2. emitted' = emitted
  BY DEF Send, adapterVars
<1>3. verdict \in Seq(Outcome) /\ v \in Outcome
  BY <1>1, WireTypes DEF Outcome
<1>4. /\ Len(verdict) \in Nat /\ Len(verdict') = Len(verdict) + 1
      /\ \A s \in 1..Len(verdict) : verdict'[s] = verdict[s]
      /\ verdict'[Len(verdict) + 1] = v
  BY <1>1, <1>3, AppendProperties, LenProperties
<1>5. \A s \in 1..Len(verdict') : s \in 1..Len(verdict) \/ s = Len(verdict) + 1
  BY <1>4
<1>6. v \notin {"ok", "rejected"}
  BY <1>1
<1>7. \A s \in 1..Len(verdict') :
        verdict'[s] \in {"ok", "rejected"} =>
          s \in 1..Len(verdict) /\ verdict'[s] = verdict[s]
  BY <1>4, <1>5, <1>6
<1> QED BY <1>2, <1>7 DEF AnswerIsGenuine

\* A request that ends is answered only by a reply the adapter numbered.
LEMMA ConcludeKeepsAnswers ==
  ASSUME TypeOK, AnswerIsGenuine, NEW v \in Outcome, Conclude(v),
         emitted' = emitted, v \in {"ok", "rejected"} => Replied(seq, v)
  PROVE  AnswerIsGenuine'
<1>1. verdict' = [verdict EXCEPT ![seq] = v]
  BY DEF Conclude
<1>2. verdict \in Seq(Outcome)
  BY WireTypes
<1>3. verdict' \in Seq(Outcome)
  BY ConcludeType
<1>4. DOMAIN verdict = 1..Len(verdict) /\ DOMAIN verdict' = 1..Len(verdict')
      /\ verdict \in [1..Len(verdict) -> Outcome]
  BY <1>2, <1>3, LenProperties
<1>5. \A s \in 1..Len(verdict') :
        s \in 1..Len(verdict)
        /\ verdict'[s] = IF s = seq THEN v ELSE verdict[s]
  BY <1>1, <1>4
<1>6. \A s \in 1..Len(verdict') :
        verdict'[s] \in {"ok", "rejected"} => Replied(s, verdict'[s])
  BY <1>5 DEF AnswerIsGenuine, Replied
<1> QED BY <1>6 DEF AnswerIsGenuine, Replied

\* A frame that is taken for an answer answers this request: its sequence
\* number is checked, and it is the frame the adapter numbered.
LEMMA AcceptedReplyIsGenuine ==
  ASSUME TypeOK, WireInv, Accept, FinalVerdict(Received) \in {"ok", "rejected"}
  PROVE  Replied(seq, FinalVerdict(Received))
<1>1. /\ Received.ordinal \in 1..Len(emitted) /\ Received.ordinal = ordinal + 1
      /\ Received = emitted[ordinal + 1]
  BY AcceptOnlyUnbroken
<1>2. Received \in Line
  BY HeadOfQueue DEF Accept
<1>3. Received.type = "reply" /\ Received.seq = seq /\ Received.ok \in BOOLEAN
      /\ Received.ok = (FinalVerdict(Received) = "ok")
  BY <1>2 DEF FinalVerdict, Line
<1> QED BY <1>1, <1>3 DEF Replied

LEMMA StepKeepsAnswers ==
  ASSUME TypeOK, WireInv, AnswerIsGenuine, Next
  PROVE  AnswerIsGenuine'
<1> USE DEF hostVars, channelVars, adapterVars
<1>1. CASE AdapterReady \/ EngineEvent
  BY <1>1, WriteGrowsLog, FrameTypes, AnswersKept DEF AdapterReady, EngineEvent
<1>2. CASE HandleImmediate \/ HandleShutdown
  <2>1. PICK ok \in BOOLEAN : WriteFrame(Reply(Head(inbox).seq, ok))
    BY <1>2 DEF HandleImmediate, HandleShutdown
  <2>2. Reply(Head(inbox).seq, ok) \in Line
    BY <1>2, InboxHead, FrameTypes DEF HandleImmediate, HandleShutdown, TypeOK
  <2>3. \E l \in Line : emitted' = Append(emitted, l)
    BY <2>1, <2>2, WriteGrowsLog
  <2> QED BY <1>2, <2>3, AnswersKept DEF HandleImmediate, HandleShutdown
<1>3. CASE \E s \in deferred : ResolveDeferred(s)
  <2>1. PICK s \in deferred : ResolveDeferred(s)
    BY <1>3
  <2>2. PICK ok \in BOOLEAN : WriteFrame(Reply(s, ok))
    BY <2>1 DEF ResolveDeferred
  <2>3. Reply(s, ok) \in Line
    BY FrameTypes DEF TypeOK, AdapterTypeOK
  <2>4. \E l \in Line : emitted' = Append(emitted, l)
    BY <2>2, <2>3, WriteGrowsLog
  <2> QED BY <2>1, <2>4, AnswersKept DEF ResolveDeferred
<1>4. CASE HandleDeferred \/ InboxClosed \/ AdapterQuits
  BY <1>4, AnswersKept DEF HandleDeferred, InboxClosed, AdapterQuits
<1>5. CASE Chatter \/ AdapterFailsToStart \/ AdapterCrashes \/ AdapterHangs
  BY <1>5, AnswersKept
  DEF Chatter, AdapterFailsToStart, AdapterCrashes, AdapterHangs
<1>6. CASE ReaderStep \/ Finished
  BY <1>6, AnswersKept
  DEF ReaderStep, ReadFrame, ReadGarbage, ReadEndOfFile, Finished, vars
<1>7. CASE DeadlinePasses \/ StartAccepts \/ StartRefuses \/ StartTimesOut
  BY <1>7, AnswersKept
  DEF DeadlinePasses, StartAccepts, StartRefuses, StartTimesOut, StartEnds,
      Accept, Refuse, TimedOut
<1>8. CASE RequestTakesEvent \/ PumpAccepts \/ PumpRefuses \/ PumpTimesOut
  BY <1>8, AnswersKept
  DEF RequestTakesEvent, PumpAccepts, PumpRefuses, PumpTimesOut, PumpEnds,
      Accept, Refuse, TimedOut
<1>9. CASE RequestTakesReply
  <2>1. Accept /\ Conclude(FinalVerdict(Received)) /\ emitted' = emitted
    BY <1>9 DEF RequestTakesReply, Accept
  <2>2. FinalVerdict(Received) \in {"ok", "rejected"}
          => Replied(seq, FinalVerdict(Received))
    BY <2>1, AcceptedReplyIsGenuine
  <2> QED BY <2>1, <2>2, VerdictTypes, ConcludeKeepsAnswers
<1>10. CASE RequestRefuses
  <2>1. Conclude(Refusal(Received)) /\ emitted' = emitted
    BY <1>10 DEF RequestRefuses, Refuse
  <2>2. Refusal(Received) \notin {"ok", "rejected"}
    BY DEF Refusal
  <2> QED BY <2>1, <2>2, VerdictTypes, ConcludeKeepsAnswers
<1>11. CASE RequestTimesOut
  <2>1. Conclude("deadline_exceeded") /\ emitted' = emitted
    BY <1>11 DEF RequestTimesOut, TimedOut
  <2> QED BY <2>1, VerdictTypes, ConcludeKeepsAnswers
<1>12. CASE SendShutdown \/ SendRequest
  BY <1>12, SendKeepsAnswers DEF SendShutdown, SendRequest
<1>13. CASE Reap \/ Kill
  BY <1>13, AnswersKept DEF Reap, Kill
<1>14. CASE Spawn \/ SpawnFails \/ PumpStarts \/ ClosePolls \/ HostExits
  BY <1>14, AnswersKept DEF Spawn, SpawnFails, PumpStarts, ClosePolls, HostExits
<1> QED BY <1>1, <1>2, <1>3, <1>4, <1>5, <1>6, <1>7, <1>8, <1>9, <1>10, <1>11,
           <1>12, <1>13, <1>14
        DEF Next, AdapterStep, Environment, HostStep, Caller

\* A request that returns, or raises the adapter's own error, was answered by
\* a reply of the adapter to that request (the seq check of request).
THEOREM AnswersGenuine == Spec => []AnswerIsGenuine
<1>1. Init => AnswerIsGenuine
  BY EmptySeq DEF Init, AnswerIsGenuine
<1>2. TypeOK /\ WireInv /\ AnswerIsGenuine /\ [Next]_vars => AnswerIsGenuine'
  <2> SUFFICES ASSUME TypeOK, WireInv, AnswerIsGenuine, [Next]_vars
               PROVE  AnswerIsGenuine'
    OBVIOUS
  <2>1. CASE UNCHANGED vars
    BY <2>1, AnswersKept DEF vars, hostVars, adapterVars
  <2> QED BY <2>1, StepKeepsAnswers
<1> QED BY <1>1, <1>2, TypeCorrect, WireCorrect, PTL DEF Spec
-----------------------------------------------------------------------------
(* Requests in turn, and the shutdown as the last of them.                  *)

Performed == {executed[i] : i \in 1..Len(executed)}
Closing == {"shutdown", "reap", "closed"}
Over == {"quitting", "hung", "exited"}

\* What was performed and what waits to be, in the order of issue.
InTurn ==
  /\ \A i, j \in 1..Len(executed) : i < j => executed[i] < executed[j]
  /\ \A i, j \in 1..Len(inbox) : i < j => inbox[i].seq < inbox[j].seq
  /\ \A i \in 1..Len(executed), j \in 1..Len(inbox) : executed[i] < inbox[j].seq
  /\ \A i \in 1..Len(executed) : executed[i] \in 1..seq
  /\ \A j \in 1..Len(inbox) : inbox[j].seq \in 1..seq

ShutdownIsLast ==
  \A j \in 1..Len(inbox) :
    /\ inbox[j].op = "shutdown" => inbox[j].seq = seq /\ hpc \in Closing
    /\ hpc = "shutdown" /\ inbox[j].seq = seq => inbox[j].op = "shutdown"

OrderInv == InTurn /\ ShutdownIsLast

\* Only what was performed is replied to.
RepliesInv ==
  /\ deferred \subseteq Performed
  /\ \A i \in 1..Len(emitted) :
       emitted[i].type = "reply" => emitted[i].seq \in Performed

\* One request is under way while the host waits for its reply, and no other.
VerdictInv ==
  /\ hpc \in {"request", "shutdown"} => seq > 0 /\ verdict[seq] = "pending"
  /\ \A s \in 1..seq :
       verdict[s] = "pending" => s = seq /\ hpc \in {"request", "shutdown"}

\* An adapter ends in order only on a shutdown, or when its host has gone; and
\* close knows of every other end.
EndInv ==
  /\ apc = "quitting" \/ exitCode = "success" => hpc \in Closing \union {"gone"}
  /\ hpc = "shutdown" /\ seq \in Performed => apc \in Over
  /\ teardown.requested =>
       hpc \in {"reap", "closed"} /\ apc \in Over /\ seq \in Performed
  /\ hpc = "reap" /\ deviations = {} =>
       teardown.requested \/ (~Alive /\ exitCode # "success")
  /\ hpc = "closed" /\ teardown.exit = "success" /\ deviations = {} =>
       teardown.requested

CallsInv == OrderInv /\ RepliesInv /\ VerdictInv /\ EndInv

LEMMA CallTypes ==
  ASSUME TypeOK
  PROVE  /\ executed \in Seq(Nat) /\ inbox \in Seq(Request) /\ verdict \in Seq(Outcome)
         /\ Len(executed) \in Nat /\ Len(inbox) \in Nat /\ seq \in Nat
         /\ seq = Len(verdict) /\ deferred \in SUBSET Nat
BY LenProperties DEF TypeOK, HostTypeOK, ChannelTypeOK, AdapterTypeOK, seq

\* Steps that neither send nor perform.
LEMMA OrderKept ==
  ASSUME TypeOK, OrderInv, UNCHANGED <<executed, inbox>>, seq' = seq,
         hpc \in Closing => hpc' \in Closing,
         hpc' = "shutdown" => hpc = "shutdown"
  PROVE  OrderInv'
BY DEF OrderInv, InTurn, ShutdownIsLast

\* The adapter takes the request at the head of its inbox.
LEMMA PerformKeepsOrder ==
  ASSUME TypeOK, OrderInv, inbox # <<>>,
         executed' = Append(executed, Head(inbox).seq), inbox' = Tail(inbox),
         UNCHANGED <<verdict, hpc>>
  PROVE  /\ OrderInv'
         /\ \A i \in 1..Len(executed) : executed[i] < Head(inbox).seq
         /\ Head(inbox).seq \in 1..seq
         /\ Performed' = Performed \union {Head(inbox).seq}
         /\ hpc = "shutdown" /\ Head(inbox).seq = seq => Head(inbox).op = "shutdown"
         /\ Head(inbox).op = "shutdown" => hpc \in Closing
<1> DEFINE h == Head(inbox).seq
<1> USE DEF OrderInv
<1>1. Len(inbox) # 0
  BY CallTypes, EmptySeq
<1>2. /\ Head(inbox) = inbox[1] /\ 1 \in 1..Len(inbox) /\ h \in Nat
      /\ Len(inbox') = Len(inbox) - 1
      /\ \A i \in 1..Len(inbox') : i + 1 \in 1..Len(inbox) /\ inbox'[i] = inbox[i + 1]
  BY <1>1, CallTypes, HeadTailProperties, InboxHead DEF TypeOK
<1>3. /\ Len(executed') = Len(executed) + 1 /\ executed'[Len(executed) + 1] = h
      /\ \A i \in 1..Len(executed) : executed'[i] = executed[i]
  BY <1>2, CallTypes, AppendProperties
<1>4. \A i \in 1..Len(executed') : i \in 1..Len(executed) \/ i = Len(executed) + 1
  BY <1>3, CallTypes
<1>5. seq' = seq
  BY DEF seq
<1>6. /\ \A i \in 1..Len(executed) : executed[i] < h
      /\ h \in 1..seq
      /\ \A j \in 1..Len(inbox') : h < inbox'[j].seq
  <2>1. \A j \in 1..Len(inbox') : 1 < j + 1
    BY <1>2, CallTypes
  <2> QED BY <1>2, <2>1 DEF InTurn
<1>7. Performed' = Performed \union {h}
  <2>1. \A i \in 1..Len(executed) : i \in 1..Len(executed')
    BY <1>3, CallTypes
  <2>2. Len(executed) + 1 \in 1..Len(executed')
    BY <1>3, CallTypes
  <2> QED BY <1>3, <1>4, <2>1, <2>2 DEF Performed
<1> HIDE DEF h
<1>8. InTurn'
  <2>1. \A i, j \in 1..Len(executed') : i < j => executed'[i] < executed'[j]
    <3> SUFFICES ASSUME NEW i \in 1..Len(executed'), NEW j \in 1..Len(executed'), i < j
                 PROVE  executed'[i] < executed'[j]
      OBVIOUS
    <3>1. i \in 1..Len(executed)
      BY <1>4, <1>3, CallTypes
    <3> QED BY <1>3, <1>4, <1>6, <3>1 DEF InTurn
  <2>2. \A i, j \in 1..Len(inbox') : i < j => inbox'[i].seq < inbox'[j].seq
    <3> SUFFICES ASSUME NEW i \in 1..Len(inbox'), NEW j \in 1..Len(inbox'), i < j
                 PROVE  inbox'[i].seq < inbox'[j].seq
      OBVIOUS
    <3>1. i + 1 < j + 1
      BY <1>2, CallTypes
    <3> QED BY <1>2, <3>1 DEF InTurn
  <2>3. \A i \in 1..Len(executed'), j \in 1..Len(inbox') : executed'[i] < inbox'[j].seq
    BY <1>2, <1>3, <1>4, <1>6 DEF InTurn
  <2>4. \A i \in 1..Len(executed') : executed'[i] \in 1..seq'
    BY <1>3, <1>4, <1>5, <1>6 DEF InTurn
  <2>5. \A j \in 1..Len(inbox') : inbox'[j].seq \in 1..seq'
    BY <1>2, <1>5 DEF InTurn
  <2> QED BY <2>1, <2>2, <2>3, <2>4, <2>5 DEF InTurn
<1>9. ShutdownIsLast'
  BY <1>2, <1>5 DEF ShutdownIsLast
<1>10. /\ hpc = "shutdown" /\ h = seq => Head(inbox).op = "shutdown"
       /\ Head(inbox).op = "shutdown" => hpc \in Closing
  BY <1>2 DEF ShutdownIsLast, h
<1> QED BY <1>6, <1>7, <1>8, <1>9, <1>10 DEF h

\* What Send does to the numbers.
LEMMA SentRequest ==
  ASSUME TypeOK, NEW op \in Op, NEW waiting, NEW onFailure, Send(op, waiting, onFailure)
  PROVE  /\ seq' = seq + 1 /\ seq' \in 1..seq'
         /\ \A s \in 1..seq : verdict'[s] = verdict[s]
         /\ \/ /\ Alive /\ hpc' = waiting /\ verdict'[seq'] = "pending"
               /\ Len(inbox') = Len(inbox) + 1
               /\ inbox'[Len(inbox) + 1] = [seq |-> seq + 1, op |-> op]
               /\ \A j \in 1..Len(inbox) : inbox'[j] = inbox[j]
            \/ /\ ~Alive /\ hpc' = onFailure /\ verdict'[seq'] = "backend_failed"
               /\ inbox' = inbox
<1> DEFINE line == [seq |-> seq + 1, op |-> op]
<1>1. line \in Request
  BY CallTypes DEF Request
<1>2. PICK v \in {"pending", "backend_failed"} :
        /\ verdict' = Append(verdict, v) /\ late' = FALSE
        /\ \/ Alive /\ v = "pending" /\ hpc' = waiting /\ inbox' = Append(inbox, line)
           \/ ~Alive /\ v = "backend_failed" /\ hpc' = onFailure /\ inbox' = inbox
  BY DEF Send
<1>3. /\ Len(verdict') = Len(verdict) + 1 /\ verdict'[Len(verdict) + 1] = v
      /\ \A s \in 1..Len(verdict) : verdict'[s] = verdict[s]
  <2>1. v \in Outcome
    BY DEF Outcome
  <2> QED BY <1>2, <2>1, CallTypes, AppendProperties
<1>4. /\ Len(Append(inbox, line)) = Len(inbox) + 1
      /\ Append(inbox, line)[Len(inbox) + 1] = line
      /\ \A j \in 1..Len(inbox) : Append(inbox, line)[j] = inbox[j]
  BY <1>1, CallTypes, AppendProperties
<1>5. seq' = seq + 1 /\ seq' \in 1..seq' /\ seq' = Len(verdict) + 1
  BY <1>3, CallTypes DEF seq
<1> HIDE DEF line
<1> QED BY <1>2, <1>3, <1>4, <1>5, CallTypes DEF line

LEMMA SendKeepsOrder ==
  ASSUME TypeOK, OrderInv, NEW op \in Op, NEW waiting, NEW onFailure,
         Send(op, waiting, onFailure), hpc \notin Closing,
         onFailure # "shutdown",
         IF op = "shutdown" THEN waiting = "shutdown" ELSE waiting \notin Closing
  PROVE  OrderInv'
<1> USE DEF OrderInv
<1>1. executed' = executed
  BY DEF Send, adapterVars
<1>2. /\ seq' = seq + 1 /\ seq \in Nat /\ Len(inbox) \in Nat
      /\ \A s \in 1..seq : s \in 1..seq' /\ s # seq' /\ s < seq'
  <2>1. seq' = seq + 1
    BY SentRequest
  <2>2. seq \in Nat /\ Len(inbox) \in Nat
    BY CallTypes
  <2> QED BY <2>1, <2>2
<1>3. \A j \in 1..Len(inbox) : inbox[j].op # "shutdown" /\ inbox[j].seq \in 1..seq
  BY DEF ShutdownIsLast, InTurn
<1>4. CASE inbox' = inbox /\ hpc' = onFailure
  <2>1. InTurn'
    BY <1>1, <1>2, <1>4 DEF InTurn
  <2>2. ShutdownIsLast'
    BY <1>3, <1>4 DEF ShutdownIsLast
  <2> QED BY <2>1, <2>2
<1>5. CASE /\ hpc' = waiting /\ Len(inbox') = Len(inbox) + 1
           /\ inbox'[Len(inbox) + 1] = [seq |-> seq + 1, op |-> op]
           /\ \A j \in 1..Len(inbox) : inbox'[j] = inbox[j]
  <2>1. \A j \in 1..Len(inbox') :
          \/ j \in 1..Len(inbox) /\ inbox'[j] = inbox[j]
          \/ j = Len(inbox) + 1 /\ inbox'[j].seq = seq' /\ inbox'[j].op = op
    BY <1>2, <1>5
  <2>2. seq' \in 1..seq'
    BY <1>2
  <2>3. InTurn'
    <3>1. \A i, j \in 1..Len(inbox') : i < j => inbox'[i].seq < inbox'[j].seq
      <4> SUFFICES ASSUME NEW i \in 1..Len(inbox'), NEW j \in 1..Len(inbox'), i < j
                   PROVE  inbox'[i].seq < inbox'[j].seq
        OBVIOUS
      <4>1. i \in 1..Len(inbox) /\ inbox'[i] = inbox[i]
        BY <1>2, <1>5, <2>1
      <4> QED BY <1>2, <1>3, <2>1, <4>1 DEF InTurn
    <3>2. \A i \in 1..Len(executed'), j \in 1..Len(inbox') :
            executed'[i] < inbox'[j].seq
      BY <1>1, <1>2, <2>1 DEF InTurn
    <3>3. \A i \in 1..Len(executed') : executed'[i] \in 1..seq'
      BY <1>1, <1>2 DEF InTurn
    <3>4. \A j \in 1..Len(inbox') : inbox'[j].seq \in 1..seq'
      BY <1>2, <1>3, <2>1, <2>2
    <3>5. \A i, j \in 1..Len(executed') : i < j => executed'[i] < executed'[j]
      BY <1>1 DEF InTurn
    <3> QED BY <3>1, <3>2, <3>3, <3>4, <3>5 DEF InTurn
  <2>4. ShutdownIsLast'
    BY <1>2, <1>3, <1>5, <2>1 DEF ShutdownIsLast, Closing
  <2> QED BY <2>3, <2>4
<1> QED BY <1>4, <1>5, SentRequest

\* A request that ends.
LEMMA Concluded ==
  ASSUME TypeOK, VerdictInv, NEW v \in Outcome, Conclude(v)
  PROVE  /\ seq' = seq /\ seq \in 1..seq /\ verdict[seq] = "pending"
         /\ \A s \in 1..seq : verdict'[s] = IF s = seq THEN v ELSE verdict[s]
         /\ \/ hpc = "request" /\ hpc' \in {"idle", "failed"}
            \/ hpc = "shutdown" /\ hpc' = "reap"
<1>1. verdict' = [verdict EXCEPT ![seq] = v] /\ hpc \in {"request", "shutdown"}
      /\ hpc' = IF hpc = "shutdown" THEN "reap"
                ELSE IF seq = 1 /\ v # "ok" THEN "failed" ELSE "idle"
  BY DEF Conclude
<1>2. verdict' \in Seq(Outcome)
  BY ConcludeType
<1>3. DOMAIN verdict = 1..Len(verdict) /\ DOMAIN verdict' = 1..Len(verdict')
      /\ verdict \in [1..Len(verdict) -> Outcome]
      /\ Len(verdict) \in Nat /\ Len(verdict') \in Nat
  BY <1>2, CallTypes, LenProperties
<1>4. DOMAIN verdict' = DOMAIN verdict
  BY <1>1
<1>5. Len(verdict') = Len(verdict)
  <2>1. \A m, n \in Nat : 1..m = 1..n => m = n
    <3> SUFFICES ASSUME NEW m \in Nat, NEW n \in Nat, 1..m = 1..n, m # n
                 PROVE  FALSE
      OBVIOUS
    <3>1. \E k \in Nat : (k \in 1..m) # (k \in 1..n)
      <4>1. CASE m < n
        BY <4>1
      <4>2. CASE n < m
        BY <4>2
      <4> QED BY <4>1, <4>2
    <3> QED BY <3>1
  <2> QED BY <1>3, <1>4, <2>1
<1>6. seq' = seq /\ seq \in 1..seq
  <2>1. seq' = seq
    BY <1>5 DEF seq
  <2>2. seq \in Nat /\ seq > 0
    BY <1>1, CallTypes DEF VerdictInv
  <2> QED BY <2>1, <2>2
<1>7. \A s \in 1..seq : verdict'[s] = IF s = seq THEN v ELSE verdict[s]
  BY <1>1, <1>3, CallTypes
<1> QED BY <1>1, <1>6, <1>7 DEF VerdictInv
\* The adapter writes a reply to something it has performed, or another frame.
LEMMA WriteKeepsReplies ==
  ASSUME TypeOK, RepliesInv, NEW f \in Line, WriteFrame(f),
         f.type = "reply" => f.seq \in Performed',
         Performed \subseteq Performed', deferred' \subseteq Performed'
  PROVE  RepliesInv'
<1>1. PICK frame \in Line :
        /\ frame.type = f.type /\ frame.seq = f.seq
        /\ emitted' = Append(emitted, frame)
  BY WrittenFrame
<1>2. /\ Len(emitted) \in Nat /\ Len(emitted') = Len(emitted) + 1
      /\ emitted'[Len(emitted) + 1] = frame
      /\ \A i \in 1..Len(emitted) : emitted'[i] = emitted[i]
  BY <1>1, WireTypes, AppendLine
<1>3. \A i \in 1..Len(emitted') : i \in 1..Len(emitted) \/ i = Len(emitted) + 1
  BY <1>2
<1> QED BY <1>1, <1>2, <1>3 DEF RepliesInv

LEMMA RepliesKept ==
  ASSUME RepliesInv, emitted' = emitted, Performed \subseteq Performed',
         deferred' \subseteq Performed'
  PROVE  RepliesInv'
BY DEF RepliesInv

\* Steps after which the host waits as before.
LEMMA VerdictKept ==
  ASSUME VerdictInv, verdict' = verdict,
         \/ hpc' = hpc
         \/ hpc \notin {"request", "shutdown"} /\ hpc' \notin {"request", "shutdown"}
  PROVE  VerdictInv'
BY DEF VerdictInv, seq

\* Steps that leave the requests alone.
LEMMA QuietKeepsCalls ==
  ASSUME TypeOK, CallsInv, UNCHANGED <<executed, inbox, verdict, emitted>>,
         deferred' \subseteq deferred,
         \/ hpc' = hpc
         \/ hpc \notin {"request", "shutdown"} /\ hpc' \notin {"request", "shutdown"},
         hpc \in Closing => hpc' \in Closing
  PROVE  /\ OrderInv' /\ RepliesInv' /\ VerdictInv'
         /\ seq' = seq /\ Performed' = Performed
<1>1. seq' = seq /\ Performed' = Performed
  BY DEF seq, Performed
<1>2. OrderInv'
  BY <1>1, OrderKept DEF CallsInv
<1>3. RepliesInv'
  BY <1>1, RepliesKept DEF CallsInv, RepliesInv
<1>4. VerdictInv'
  BY VerdictKept DEF CallsInv
<1> QED BY <1>1, <1>2, <1>3, <1>4

\* The last of what was performed is the highest.
LEMMA LastPerformed ==
  ASSUME TypeOK, InTurn, seq \in Performed
  PROVE  executed # <<>> /\ executed[Len(executed)] = seq
<1>1. PICK i \in 1..Len(executed) : executed[i] = seq
  BY DEF Performed
<1>2. Len(executed) \in 1..Len(executed) /\ executed # <<>>
  BY <1>1, CallTypes, EmptySeq
<1>3. executed[Len(executed)] \in 1..seq
  BY <1>2 DEF InTurn
<1>4. ~ (i < Len(executed))
  BY <1>1, <1>2, <1>3, CallTypes DEF InTurn
<1> QED BY <1>1, <1>2, <1>4, CallTypes

-----------------------------------------------------------------------------
(* The steps.                                                               *)

LEMMA HandlersKeepCalls ==
  ASSUME TypeOK, CallsInv, HandleImmediate \/ HandleDeferred \/ HandleShutdown
  PROVE  CallsInv'
<1> DEFINE h == Head(inbox).seq
<1> USE DEF CallsInv
<1>1. /\ inbox # <<>> /\ executed' = Append(executed, h) /\ inbox' = Tail(inbox)
      /\ apc = "running"
      /\ UNCHANGED <<verdict, hpc, teardown, deviations, exitCode>>
  BY DEF HandleImmediate, HandleDeferred, HandleShutdown, hostVars
<1>2. /\ OrderInv' /\ Performed' = Performed \union {h}
      /\ hpc = "shutdown" /\ h = seq => Head(inbox).op = "shutdown"
      /\ Head(inbox).op = "shutdown" => hpc \in Closing
  BY <1>1, PerformKeepsOrder
<1>3. VerdictInv' /\ seq' = seq
  BY <1>1, VerdictKept DEF seq
<1>4. h \in Nat
  BY <1>1, InboxHead DEF TypeOK
<1>5. RepliesInv'
  <2>1. deferred \subseteq Performed /\ Performed \subseteq Performed'
    BY <1>2 DEF RepliesInv
  <2>2. CASE HandleDeferred
    <3>1. emitted' = emitted /\ deferred' = deferred \union {h}
      BY <2>2 DEF HandleDeferred
    <3> QED BY <1>2, <2>1, <3>1, RepliesKept
  <2>3. CASE HandleImmediate \/ HandleShutdown
    <3>1. PICK ok \in BOOLEAN : WriteFrame(Reply(h, ok))
      BY <2>3 DEF HandleImmediate, HandleShutdown
    <3>2. deferred' \subseteq deferred
      BY <2>3 DEF HandleImmediate, HandleShutdown
    <3>3. Reply(h, ok) \in Line /\ Reply(h, ok).seq = h
      BY <1>4, FrameTypes DEF Reply
    <3> QED BY <1>2, <2>1, <3>1, <3>2, <3>3, WriteKeepsReplies
  <2> QED BY <2>2, <2>3
<1> HIDE DEF h
<1>6. EndInv'
  <2>1. CASE HandleShutdown
    <3>1. Head(inbox).op = "shutdown" /\ apc' = "quitting"
      BY <2>1 DEF HandleShutdown
    <3>2. hpc \in Closing
      BY <1>2, <3>1
    <3>3. Alive => TRUE
      OBVIOUS
    <3> QED BY <1>1, <1>2, <1>3, <3>1, <3>2 DEF EndInv, Over, Alive
  <2>2. CASE HandleImmediate \/ HandleDeferred
    <3>1. Head(inbox).op # "shutdown" /\ apc' = apc
      BY <2>2 DEF HandleImmediate, HandleDeferred
    <3>2. hpc = "shutdown" => h # seq
      BY <1>2, <3>1
    <3> QED BY <1>1, <1>2, <1>3, <3>1, <3>2 DEF EndInv, Alive
  <2> QED BY <2>1, <2>2
<1> QED BY <1>2, <1>3, <1>5, <1>6

LEMMA AdapterKeepsCalls ==
  ASSUME TypeOK, CallsInv, AdapterStep \/ Environment
  PROVE  CallsInv'
<1> USE DEF hostVars, channelVars, adapterVars
<1>1. CASE AdapterReady \/ EngineEvent
  <2>1. PICK f \in {Ready, Event} : WriteFrame(f)
    BY <1>1 DEF AdapterReady, EngineEvent
  <2>2. /\ UNCHANGED <<executed, inbox, verdict, hpc, deferred, exitCode, teardown,
                       deviations>>
        /\ apc' = apc \/ (apc = "starting" /\ apc' = "running")
    BY <1>1 DEF AdapterReady, EngineEvent
  <2>3. seq' = seq /\ Performed' = Performed
    BY <2>2 DEF seq, Performed
  <2>4. f \in Line /\ f.type # "reply"
    <3>1. Ready.type # "reply" /\ Event.type # "reply"
      BY DEF Ready, Event
    <3> QED BY <3>1, FrameTypes
  <2>5. RepliesInv'
    BY <2>1, <2>2, <2>3, <2>4, WriteKeepsReplies DEF CallsInv, RepliesInv
  <2>6. OrderInv' /\ VerdictInv'
    BY <2>2, <2>3, OrderKept, VerdictKept DEF CallsInv
  <2>7. EndInv'
    BY <2>2, <2>3 DEF CallsInv, EndInv, Alive, Over
  <2> QED BY <2>5, <2>6, <2>7 DEF CallsInv
<1>2. CASE HandleImmediate \/ HandleDeferred \/ HandleShutdown
  BY <1>2, HandlersKeepCalls
<1>3. CASE \E s \in deferred : ResolveDeferred(s)
  <2>1. PICK s \in deferred : ResolveDeferred(s)
    BY <1>3
  <2>2. PICK ok \in BOOLEAN : WriteFrame(Reply(s, ok))
    BY <2>1 DEF ResolveDeferred
  <2>3. /\ UNCHANGED <<executed, inbox, verdict, hpc, apc, exitCode, teardown,
                       deviations>>
        /\ deferred' \subseteq deferred
    BY <2>1 DEF ResolveDeferred
  <2>4. seq' = seq /\ Performed' = Performed
    BY <2>3 DEF seq, Performed
  <2>5. Reply(s, ok) \in Line /\ Reply(s, ok).seq = s /\ s \in Performed
    BY CallTypes, FrameTypes DEF Reply, CallsInv, RepliesInv
  <2>6. RepliesInv'
    BY <2>2, <2>3, <2>4, <2>5, WriteKeepsReplies DEF CallsInv, RepliesInv
  <2>7. OrderInv' /\ VerdictInv'
    BY <2>3, <2>4, OrderKept, VerdictKept DEF CallsInv
  <2>8. EndInv'
    BY <2>3, <2>4 DEF CallsInv, EndInv, Alive
  <2> QED BY <2>6, <2>7, <2>8 DEF CallsInv
<1>4. CASE \/ InboxClosed \/ AdapterQuits \/ Chatter \/ AdapterFailsToStart
           \/ AdapterCrashes \/ AdapterHangs
  <2>1. /\ UNCHANGED <<executed, inbox, verdict, emitted, hpc, teardown, deviations>>
        /\ deferred' \subseteq deferred
    BY <1>4 DEF InboxClosed, AdapterQuits, Chatter, AdapterFailsToStart,
                AdapterCrashes, AdapterHangs
  <2>2. /\ OrderInv' /\ RepliesInv' /\ VerdictInv'
        /\ seq' = seq /\ Performed' = Performed
    BY <2>1, QuietKeepsCalls
  <2>3. \/ apc' = apc /\ exitCode' = exitCode
        \/ apc = "running" /\ hpc = "gone" /\ apc' = "quitting" /\ exitCode' = exitCode
        \/ apc = "quitting" /\ apc' = "exited" /\ exitCode' = "success"
        \/ Alive /\ apc' = "exited" /\ exitCode' = "error"
        \/ Alive /\ apc' = "hung" /\ exitCode' = exitCode
    BY <1>4 DEF InboxClosed, AdapterQuits, Chatter, AdapterFailsToStart,
                AdapterCrashes, AdapterHangs, Alive
  <2>4. EndInv'
    BY <2>1, <2>2, <2>3 DEF CallsInv, EndInv, Alive, Over, Closing
  <2> QED BY <2>2, <2>4 DEF CallsInv
<1> QED BY <1>1, <1>2, <1>3, <1>4 DEF AdapterStep, Environment

\* A reply that is accepted as the answer is to a request that was performed.
LEMMA AnswerPerformed ==
  ASSUME TypeOK, WireInv, RepliesInv, Accept,
         FinalVerdict(Received) \in {"ok", "rejected"}
  PROVE  seq \in Performed
BY AcceptedReplyIsGenuine DEF Replied, RepliesInv

\* How a request ends: with the reply to it, which is positive only if it was
\* performed, or with a failure of its own.
LEMMA ConcludesWith ==
  ASSUME TypeOK, WireInv, CallsInv,
         RequestTakesReply \/ RequestRefuses \/ RequestTimesOut
  PROVE  \E v \in Outcome :
           /\ Conclude(v) /\ v # "pending"
           /\ v \in {"ok", "rejected"} => seq \in Performed
<1>1. CASE RequestTakesReply
  <2>1. Accept /\ Conclude(FinalVerdict(Received))
    BY <1>1 DEF RequestTakesReply
  <2>2. FinalVerdict(Received) \in {"ok", "rejected"} => seq \in Performed
    BY <2>1, AnswerPerformed DEF CallsInv
  <2>3. FinalVerdict(Received) \in Outcome /\ FinalVerdict(Received) # "pending"
    BY VerdictTypes DEF FinalVerdict
  <2> QED BY <2>1, <2>2, <2>3
<1>2. CASE RequestRefuses
  <2>1. Conclude(Refusal(Received))
    BY <1>2 DEF RequestRefuses
  <2>2. /\ Refusal(Received) \in Outcome
        /\ Refusal(Received) \notin {"pending", "ok", "rejected"}
    BY VerdictTypes DEF Refusal
  <2> QED BY <2>1, <2>2
<1>3. CASE RequestTimesOut
  BY <1>3, VerdictTypes DEF RequestTimesOut
<1> QED BY <1>1, <1>2, <1>3

LEMMA ConcludeKeepsCalls ==
  ASSUME TypeOK, CallsInv, NEW v \in Outcome, Conclude(v),
         UNCHANGED <<executed, inbox, emitted, deferred, apc, exitCode>>,
         v = "ok" => seq \in Performed, v # "pending"
  PROVE  CallsInv'
<1> USE DEF CallsInv
<1>1. /\ seq' = seq /\ seq \in 1..seq /\ verdict[seq] = "pending"
      /\ \A s \in 1..seq : verdict'[s] = IF s = seq THEN v ELSE verdict[s]
      /\ \/ hpc = "request" /\ hpc' \in {"idle", "failed"}
         \/ hpc = "shutdown" /\ hpc' = "reap"
  BY Concluded
<1>2. Performed' = Performed
  BY DEF Performed
<1>3. OrderInv'
  BY <1>1, OrderKept DEF Closing
<1>4. RepliesInv'
  BY <1>2, RepliesKept DEF RepliesInv
<1>5. VerdictInv'
  BY <1>1 DEF VerdictInv
<1>6. EndInv'
  <2>1. CASE hpc = "shutdown"
    <3>1. /\ teardown' = [teardown EXCEPT !.requested = (v = "ok")]
          /\ deviations' = IF v = "ok" THEN deviations
                           ELSE deviations \union {"adapter-shutdown-unacknowledged"}
      BY <2>1 DEF Conclude
    <3>2. teardown'.requested = (v = "ok")
      BY <3>1 DEF TypeOK, HostTypeOK
    <3>3. v # "ok" => deviations' # {}
      BY <3>1
    <3>4. hpc' = "reap"
      BY <1>1, <2>1
    <3>5. v = "ok" => apc \in Over
      BY <2>1 DEF EndInv
    <3>6. apc' = "quitting" \/ exitCode' = "success" => hpc' \in Closing
      BY <3>4 DEF Closing
    <3> QED BY <1>1, <1>2, <3>2, <3>3, <3>4, <3>5, <3>6 DEF EndInv
  <2>2. CASE hpc = "request"
    <3>1. hpc' \in {"idle", "failed"} /\ UNCHANGED <<teardown, deviations>>
      BY <1>1, <2>2 DEF Conclude
    <3> QED BY <2>2, <3>1 DEF EndInv, Closing
  <2> QED BY <1>1, <2>1, <2>2
<1> QED BY <1>3, <1>4, <1>5, <1>6

LEMMA SendKeepsCalls ==
  ASSUME TypeOK, CallsInv, SendRequest \/ SendShutdown
  PROVE  CallsInv'
<1> USE DEF CallsInv
<1> DEFINE Sends(op, waiting, onFailure) ==
      /\ Send(op, waiting, onFailure)
      /\ hpc \notin Closing \union {"request", "gone"}
      /\ \/ /\ op # "shutdown" /\ waiting = "request"
            /\ onFailure \in {"idle", "failed"} /\ deviations' = deviations
         \/ /\ op = "shutdown" /\ waiting = "shutdown" /\ onFailure = "reap"
            /\ ~Alive => deviations' # {}
<1>1. PICK op \in Op, waiting \in HostState, onFailure \in HostState :
        Sends(op, waiting, onFailure)
  <2>1. CASE SendRequest
    <3>1. PICK op \in {"immediate", "deferred"} :
            Send(op, "request", IF seq = 0 THEN "failed" ELSE "idle")
      BY <2>1 DEF SendRequest
    <3>2. Sends(op, "request", IF seq = 0 THEN "failed" ELSE "idle")
      BY <2>1, <3>1 DEF SendRequest, Closing
    <3>3. op \in Op /\ "request" \in HostState
          /\ (IF seq = 0 THEN "failed" ELSE "idle") \in HostState
      BY DEF Op, HostState
    <3> HIDE DEF Sends
    <3> QED BY <3>2, <3>3
  <2>2. CASE SendShutdown
    <3>1. Sends("shutdown", "shutdown", "reap")
      BY <2>2 DEF SendShutdown, Closing
    <3>2. "shutdown" \in Op /\ "shutdown" \in HostState /\ "reap" \in HostState
      BY DEF Op, HostState
    <3> HIDE DEF Sends
    <3> QED BY <3>1, <3>2
  <2> QED BY <2>1, <2>2
<1>2. /\ UNCHANGED <<executed, emitted, deferred, apc, exitCode, teardown>>
      /\ Performed' = Performed
  BY <1>1 DEF Send, adapterVars, Performed
<1>3. OrderInv'
  BY <1>1, SendKeepsOrder DEF Closing
<1>4. RepliesInv'
  BY <1>2, RepliesKept DEF RepliesInv
<1>5. /\ seq' = seq + 1 /\ seq' \in 1..seq' /\ seq \in Nat
      /\ \A s \in 1..seq : verdict'[s] = verdict[s]
      /\ \/ Alive /\ hpc' = waiting /\ verdict'[seq'] = "pending"
         \/ ~Alive /\ hpc' = onFailure /\ verdict'[seq'] = "backend_failed"
  <2>1. Send(op, waiting, onFailure)
    BY <1>1
  <2> QED BY <2>1, SentRequest, CallTypes
<1>6. \A s \in 1..seq' : s \in 1..seq \/ s = seq'
  BY <1>5
<1>7. \A s \in 1..seq : verdict[s] # "pending"
  BY <1>1 DEF VerdictInv, Closing
<1>8. VerdictInv'
  BY <1>1, <1>5, <1>6, <1>7 DEF VerdictInv
<1>9. seq' \notin Performed
  BY <1>5 DEF OrderInv, InTurn, Performed
<1>10. EndInv'
  <2>1. /\ apc' # "quitting" /\ exitCode' # "success" /\ ~teardown'.requested
        /\ seq' \notin Performed'
    BY <1>1, <1>2, <1>9 DEF EndInv, Closing
  <2>2. hpc' # "closed" /\ (hpc' = "reap" => ~Alive /\ deviations' # {})
    BY <1>1, <1>5
  <2> QED BY <2>1, <2>2 DEF EndInv
<1> QED BY <1>3, <1>4, <1>8, <1>10
LEMMA HostKeepsCalls ==
  ASSUME TypeOK, WireInv, CallsInv, HostStep \/ Caller
  PROVE  CallsInv'
<1> USE DEF hostVars, channelVars, adapterVars
<1>1. CASE DeadlinePasses \/ RequestTakesEvent
  <2>1. UNCHANGED <<hpc, executed, inbox, verdict, emitted, deferred, apc, exitCode,
                    teardown, deviations>>
    BY <1>1 DEF DeadlinePasses, RequestTakesEvent, Accept
  <2>2. /\ OrderInv' /\ RepliesInv' /\ VerdictInv'
        /\ seq' = seq /\ Performed' = Performed
    BY <2>1, QuietKeepsCalls
  <2> QED BY <2>1, <2>2 DEF CallsInv, EndInv, Alive
<1>2. CASE \/ StartAccepts \/ StartRefuses \/ StartTimesOut
           \/ PumpAccepts \/ PumpRefuses \/ PumpTimesOut
           \/ PumpStarts \/ SpawnFails \/ HostExits
  <2>1. /\ UNCHANGED <<executed, inbox, verdict, emitted, deferred, apc, exitCode,
                       teardown, deviations>>
        /\ hpc \in {"init", "starting", "idle", "pump", "blocked", "failed"}
        /\ hpc' \in {"idle", "pump", "blocked", "failed", "gone"}
    BY <1>2
    DEF StartAccepts, StartRefuses, StartTimesOut, StartEnds, PumpAccepts,
        PumpRefuses, PumpTimesOut, PumpEnds, PumpStarts, SpawnFails, HostExits,
        Accept, Refuse, TimedOut
  <2>2. /\ OrderInv' /\ RepliesInv' /\ VerdictInv'
        /\ seq' = seq /\ Performed' = Performed
    BY <2>1, QuietKeepsCalls DEF Closing
  <2>3. EndInv'
    BY <2>1, <2>2 DEF CallsInv, EndInv, Closing
  <2> QED BY <2>2, <2>3 DEF CallsInv
<1>3. CASE Spawn
  <2>1. /\ UNCHANGED <<executed, inbox, verdict, emitted, deferred, exitCode,
                       teardown, deviations>>
        /\ hpc = "init" /\ hpc' = "starting" /\ apc' = "starting"
    BY <1>3 DEF Spawn
  <2>2. /\ OrderInv' /\ RepliesInv' /\ VerdictInv'
        /\ seq' = seq /\ Performed' = Performed
    BY <2>1, QuietKeepsCalls DEF Closing
  <2>3. EndInv'
    BY <2>1, <2>2 DEF CallsInv, EndInv, Closing
  <2> QED BY <2>2, <2>3 DEF CallsInv
<1>4. CASE ClosePolls
  <2>1. /\ UNCHANGED <<executed, inbox, verdict, emitted, deferred, apc, exitCode,
                       teardown, deviations>>
        /\ hpc = "idle" /\ hpc' = IF Alive THEN "closing" ELSE "reap"
    BY <1>4 DEF ClosePolls
  <2>2. /\ OrderInv' /\ RepliesInv' /\ VerdictInv'
        /\ seq' = seq /\ Performed' = Performed
    BY <2>1, QuietKeepsCalls DEF Closing
  <2>3. exitCode # "success" /\ apc # "quitting" /\ ~teardown.requested
    BY <2>1 DEF CallsInv, EndInv, Closing
  <2>4. Alive' = Alive
    BY <2>1 DEF Alive
  <2>5. EndInv'
    BY <2>1, <2>3, <2>4 DEF EndInv
  <2> QED BY <2>2, <2>5 DEF CallsInv
<1>5. CASE Reap \/ Kill
  <2>1. /\ UNCHANGED <<executed, inbox, verdict, emitted>>
        /\ deferred' \subseteq deferred /\ hpc = "reap" /\ hpc' = "closed"
    BY <1>5 DEF Reap, Kill
  <2>2. /\ OrderInv' /\ RepliesInv' /\ VerdictInv'
        /\ seq' = seq /\ Performed' = Performed
    BY <2>1, QuietKeepsCalls DEF Closing
  <2>3. CASE Reap
    <3>1. /\ UNCHANGED <<apc, exitCode, deviations>> /\ apc = "exited"
          /\ teardown'.requested = teardown.requested
          /\ teardown'.exit = exitCode
      BY <2>3 DEF Reap, TypeOK, HostTypeOK
    <3> QED BY <2>1, <2>2, <3>1 DEF CallsInv, EndInv, Closing
  <2>4. CASE Kill
    <3>1. /\ apc' = "exited" /\ exitCode' = "killed"
          /\ teardown'.requested = teardown.requested
          /\ teardown'.exit = "killed"
      BY <2>4 DEF Kill, TypeOK, HostTypeOK
    <3> QED BY <2>1, <2>2, <3>1 DEF CallsInv, EndInv, Closing, Over
  <2> QED BY <1>5, <2>2, <2>3, <2>4 DEF CallsInv
<1>6. CASE SendRequest \/ SendShutdown
  BY <1>6, SendKeepsCalls
<1>7. CASE RequestTakesReply \/ RequestRefuses \/ RequestTimesOut
  <2>1. PICK v \in Outcome :
          Conclude(v) /\ v # "pending" /\ (v = "ok" => seq \in Performed)
    BY <1>7, ConcludesWith
  <2>2. UNCHANGED <<executed, inbox, emitted, deferred, apc, exitCode>>
    BY <1>7 DEF RequestTakesReply, RequestRefuses, RequestTimesOut, Accept, Refuse,
                TimedOut
  <2> QED BY <2>1, <2>2, ConcludeKeepsCalls
<1> QED BY <1>1, <1>2, <1>3, <1>4, <1>5, <1>6, <1>7 DEF HostStep, Caller

LEMMA CallsCorrect == Spec => []CallsInv
<1>1. Init => CallsInv
  <2> SUFFICES ASSUME Init PROVE CallsInv
    OBVIOUS
  <2>1. /\ hpc = "init" /\ verdict = <<>> /\ executed = <<>> /\ inbox = <<>>
        /\ emitted = <<>> /\ deferred = {} /\ apc = "unborn" /\ exitCode = "none"
        /\ teardown.requested = FALSE
    BY DEF Init
  <2>2. Len(<<>>) = 0 /\ (\A i \in 1..0 : FALSE)
    BY EmptySeq
  <2>3. OrderInv /\ RepliesInv
    BY <2>1, <2>2 DEF OrderInv, InTurn, ShutdownIsLast, RepliesInv
  <2>4. VerdictInv
    BY <2>1, <2>2 DEF VerdictInv, seq
  <2>5. EndInv
    BY <2>1 DEF EndInv
  <2> QED BY <2>3, <2>4, <2>5 DEF CallsInv
<1>2. TypeOK /\ WireInv /\ CallsInv /\ [Next]_vars => CallsInv'
  <2> SUFFICES ASSUME TypeOK, WireInv, CallsInv, [Next]_vars PROVE CallsInv'
    OBVIOUS
  <2>1. CASE UNCHANGED vars \/ Finished \/ ReaderStep
    <3>1. UNCHANGED <<hpc, executed, inbox, verdict, emitted, deferred, apc, exitCode,
                      teardown, deviations>>
      BY <2>1 DEF vars, hostVars, channelVars, adapterVars, Finished, ReaderStep,
                  ReadFrame, ReadGarbage, ReadEndOfFile
    <3>2. /\ OrderInv' /\ RepliesInv' /\ VerdictInv'
          /\ seq' = seq /\ Performed' = Performed
      BY <3>1, QuietKeepsCalls
    <3> QED BY <3>1, <3>2 DEF CallsInv, EndInv, Alive
  <2> QED BY <2>1, AdapterKeepsCalls, HostKeepsCalls DEF Next
<1> QED BY <1>1, <1>2, TypeCorrect, WireCorrect, PTL DEF Spec

\* close claims an acknowledged shutdown only if the adapter performed it as
\* the last of its requests, and records every end that was none.
THEOREM TeardownReal == Spec => []CleanTeardownIsReal
<1>1. TypeOK /\ CallsInv => CleanTeardownIsReal
  <2> SUFFICES ASSUME TypeOK, CallsInv, hpc = "closed"
               PROVE  /\ teardown.requested =>
                           executed # <<>> /\ executed[Len(executed)] = seq
                      /\ teardown.exit = "success" /\ deviations = {} =>
                           teardown.requested
    BY DEF CleanTeardownIsReal
  <2>1. teardown.requested => seq \in Performed
    BY DEF CallsInv, EndInv
  <2>2. teardown.exit = "success" /\ deviations = {} => teardown.requested
    BY DEF CallsInv, EndInv
  <2> QED BY <2>1, <2>2, LastPerformed DEF CallsInv, OrderInv
<1> QED BY <1>1, TypeCorrect, CallsCorrect, PTL

-----------------------------------------------------------------------------
(* The transport is a RequestChannel.                                       *)

\* The status of each request, as its caller knows it.
Statuses(v) == [s \in 1..Len(v) |-> ChannelStatus(v[s])]
StatusOf == Statuses(verdict)

LEMMA StatusTypes ==
  ASSUME NEW v \in Seq(Outcome)
  PROVE  /\ Statuses(v) \in Seq({"answered", "pending", "failed"})
         /\ Len(Statuses(v)) = Len(v)
         /\ \A s \in 1..Len(v) : Statuses(v)[s] = ChannelStatus(v[s])
<1>1. \A x : ChannelStatus(x) \in {"answered", "pending", "failed"}
  BY DEF ChannelStatus
<1>2. Len(v) \in Nat
  BY LenProperties
<1>3. Statuses(v) \in [1..Len(v) -> {"answered", "pending", "failed"}]
  BY <1>1 DEF Statuses
<1>4. Statuses(v) \in Seq({"answered", "pending", "failed"})
  BY <1>2, <1>3, SeqDef
<1> QED BY <1>2, <1>3, <1>4, LenProperties DEF Statuses
LEMMA StatusIssued ==
  ASSUME TypeOK, TypeOK', seq' = seq + 1, NEW st \in {"pending", "failed"},
         \A s \in 1..seq : verdict'[s] = verdict[s],
         ChannelStatus(verdict'[seq + 1]) = st
  PROVE  StatusOf' = Append(StatusOf, st)
<1> DEFINE S == {"answered", "pending", "failed"}
           t == Append(StatusOf, st)
<1>1. /\ StatusOf \in Seq(S) /\ Len(StatusOf) = seq /\ seq \in Nat
      /\ \A s \in 1..seq : StatusOf[s] = ChannelStatus(verdict[s])
  <2>1. verdict \in Seq(Outcome) /\ seq = Len(verdict) /\ seq \in Nat
    BY CallTypes
  <2> QED BY <2>1, StatusTypes DEF StatusOf
<1>2. verdict' \in Seq(Outcome) /\ Len(verdict') = seq + 1
  BY DEF TypeOK, HostTypeOK, seq
<1>3. /\ StatusOf' \in Seq(S) /\ Len(StatusOf') = seq + 1
      /\ \A s \in 1..(seq + 1) : StatusOf'[s] = ChannelStatus(verdict'[s])
  BY <1>2, StatusTypes DEF StatusOf
<1>4. /\ t \in Seq(S) /\ Len(t) = seq + 1 /\ t[seq + 1] = st
      /\ \A s \in 1..seq : t[s] = StatusOf[s]
  BY <1>1, AppendProperties
<1> HIDE DEF t, S
<1>5. \A s \in 1..(seq + 1) : StatusOf'[s] = t[s]
  <2>1. TAKE s \in 1..(seq + 1)
  <2>2. CASE s \in 1..seq
    BY <1>1, <1>3, <1>4, <2>2
  <2>3. CASE s = seq + 1
    BY <1>3, <1>4, <2>3
  <2> QED BY <1>1, <2>2, <2>3
<1>6. StatusOf' = t
  BY <1>1, <1>3, <1>4, <1>5, SeqEqual
<1> QED BY <1>6 DEF t

LEMMA StatusConcluded ==
  ASSUME TypeOK, TypeOK', seq' = seq, seq \in 1..seq, NEW v,
         \A s \in 1..seq : verdict'[s] = IF s = seq THEN v ELSE verdict[s]
  PROVE  StatusOf' = [StatusOf EXCEPT ![seq] = ChannelStatus(v)]
<1>1. StatusOf' = [s \in 1..seq |-> ChannelStatus(verdict'[s])]
  BY DEF StatusOf, Statuses, seq
<1>2. StatusOf = [s \in 1..seq |-> ChannelStatus(verdict[s])]
  BY DEF StatusOf, Statuses, seq
<1> QED BY <1>1, <1>2

\* The channel's steps, in terms of the transport's variables.
LEMMA ChannelSteps ==
  /\ Channel!Init <=> StatusOf = <<>> /\ executed = <<>>
  /\ StatusOf' = StatusOf /\ executed' = executed => UNCHANGED Channel!vars
  /\ \A st \in {"pending", "failed"} :
       /\ \A s \in 1..Len(StatusOf) : StatusOf[s] # "pending"
       /\ StatusOf' = Append(StatusOf, st) /\ executed' = executed
       => Channel!Next
  /\ \A s \in 1..Len(StatusOf) :
       /\ \A i \in 1..Len(executed) : executed[i] < s
       /\ executed' = Append(executed, s) /\ StatusOf' = StatusOf
       => Channel!Next
  /\ \A s \in 1..Len(StatusOf) :
       /\ StatusOf[s] = "pending" /\ s \in Performed
       /\ StatusOf' = [StatusOf EXCEPT ![s] = "answered"] /\ executed' = executed
       => Channel!Next
  /\ \A s \in 1..Len(StatusOf) :
       /\ StatusOf[s] = "pending"
       /\ StatusOf' = [StatusOf EXCEPT ![s] = "failed"] /\ executed' = executed
       => Channel!Next
<1>1. Channel!Init <=> StatusOf = <<>> /\ executed = <<>>
  BY DEF Channel!Init, StatusOf, Statuses
<1>2. StatusOf' = StatusOf /\ executed' = executed => UNCHANGED Channel!vars
  BY DEF Channel!vars, StatusOf, Statuses
<1>3. ASSUME NEW st \in {"pending", "failed"},
             \A s \in 1..Len(StatusOf) : StatusOf[s] # "pending",
             StatusOf' = Append(StatusOf, st), executed' = executed
      PROVE  Channel!Next
  <2>1. Channel!Issue
    BY <1>3 DEF Channel!Issue, Channel!Idle, StatusOf, Statuses
  <2> QED BY <2>1 DEF Channel!Next
<1>4. ASSUME NEW s \in 1..Len(StatusOf), \A i \in 1..Len(executed) : executed[i] < s,
             executed' = Append(executed, s), StatusOf' = StatusOf
      PROVE  Channel!Next
  <2>1. Channel!Perform(s)
    BY <1>4 DEF Channel!Perform, StatusOf, Statuses
  <2> QED BY <2>1 DEF Channel!Next, StatusOf, Statuses
<1>5. ASSUME NEW s \in 1..Len(StatusOf), StatusOf[s] = "pending", s \in Performed,
             StatusOf' = [StatusOf EXCEPT ![s] = "answered"], executed' = executed
      PROVE  Channel!Next
  <2>1. Channel!Answer(s)
    BY <1>5 DEF Channel!Answer, StatusOf, Statuses, Performed
  <2> QED BY <2>1 DEF Channel!Next, StatusOf, Statuses
<1>6. ASSUME NEW s \in 1..Len(StatusOf), StatusOf[s] = "pending",
             StatusOf' = [StatusOf EXCEPT ![s] = "failed"], executed' = executed
      PROVE  Channel!Next
  <2>1. Channel!Fail(s)
    BY <1>6 DEF Channel!Fail, StatusOf, Statuses
  <2> QED BY <2>1 DEF Channel!Next, StatusOf, Statuses
<1> QED BY <1>1, <1>2, <1>3, <1>4, <1>5, <1>6

LEMMA StepIsChannelStep ==
  ASSUME TypeOK, TypeOK', WireInv, CallsInv, Next
  PROVE  Channel!Next \/ UNCHANGED Channel!vars
<1> USE DEF hostVars, channelVars, adapterVars
<1>1. seq \in Nat /\ Len(StatusOf) = seq
      /\ \A s \in 1..seq : StatusOf[s] = ChannelStatus(verdict[s])
  <2>1. verdict \in Seq(Outcome) /\ seq = Len(verdict) /\ seq \in Nat
    BY CallTypes
  <2> QED BY <2>1, StatusTypes DEF StatusOf
<1>2. CASE HandleImmediate \/ HandleDeferred \/ HandleShutdown
  <2>1. /\ inbox # <<>> /\ executed' = Append(executed, Head(inbox).seq)
        /\ inbox' = Tail(inbox) /\ UNCHANGED <<verdict, hpc>>
    BY <1>2 DEF HandleImmediate, HandleDeferred, HandleShutdown
  <2>2. /\ \A i \in 1..Len(executed) : executed[i] < Head(inbox).seq
        /\ Head(inbox).seq \in 1..seq
    BY <2>1, PerformKeepsOrder DEF CallsInv
  <2>3. StatusOf' = StatusOf
    BY <2>1 DEF StatusOf
  <2>4. PICK s \in 1..Len(StatusOf) : s = Head(inbox).seq
    BY <1>1, <2>2
  <2> QED BY <2>1, <2>2, <2>3, <2>4, ChannelSteps
<1>3. CASE SendRequest \/ SendShutdown
  <2>1. PICK op \in Op, waiting \in HostState, onFailure \in HostState :
          Send(op, waiting, onFailure) /\ hpc \notin {"request", "shutdown"}
    <3>1. CASE SendRequest
      <4>1. PICK op \in {"immediate", "deferred"} :
              Send(op, "request", IF seq = 0 THEN "failed" ELSE "idle")
        BY <3>1 DEF SendRequest
      <4>2. op \in Op /\ "request" \in HostState
            /\ (IF seq = 0 THEN "failed" ELSE "idle") \in HostState
        BY DEF Op, HostState
      <4> QED BY <3>1, <4>1, <4>2 DEF SendRequest
    <3>2. CASE SendShutdown
      <4>1. "shutdown" \in Op /\ "shutdown" \in HostState /\ "reap" \in HostState
        BY DEF Op, HostState
      <4> QED BY <3>2, <4>1 DEF SendShutdown
    <3> QED BY <1>3, <3>1, <3>2
  <2>2. /\ seq' = seq + 1 /\ \A s \in 1..seq : verdict'[s] = verdict[s]
        /\ verdict'[seq + 1] \in {"pending", "backend_failed"}
    <3>1. seq' = seq + 1 /\ (\A s \in 1..seq : verdict'[s] = verdict[s])
          /\ verdict'[seq'] \in {"pending", "backend_failed"}
      BY <2>1, SentRequest
    <3> QED BY <3>1
  <2>3. \A s \in 1..Len(StatusOf) : StatusOf[s] # "pending"
    <3>1. \A s \in 1..seq : verdict[s] # "pending"
      BY <2>1 DEF CallsInv, VerdictInv
    <3> QED BY <1>1, <3>1 DEF ChannelStatus
  <2>4. PICK st \in {"pending", "failed"} : ChannelStatus(verdict'[seq + 1]) = st
    BY <2>2 DEF ChannelStatus
  <2>5. StatusOf' = Append(StatusOf, st)
    BY <2>2, <2>4, StatusIssued
  <2>6. executed' = executed
    BY <2>1 DEF Send
  <2> QED BY <2>3, <2>5, <2>6, ChannelSteps
<1>4. CASE RequestTakesReply \/ RequestRefuses \/ RequestTimesOut
  <2>1. PICK v \in Outcome :
          /\ Conclude(v) /\ v # "pending"
          /\ v \in {"ok", "rejected"} => seq \in Performed
    BY <1>4, ConcludesWith
  <2>2. /\ seq' = seq /\ seq \in 1..seq /\ verdict[seq] = "pending"
        /\ \A s \in 1..seq : verdict'[s] = IF s = seq THEN v ELSE verdict[s]
    BY <2>1, Concluded DEF CallsInv
  <2>3. StatusOf' = [StatusOf EXCEPT ![seq] = ChannelStatus(v)]
    BY <2>2, StatusConcluded
  <2>4. executed' = executed
    BY <1>4 DEF RequestTakesReply, RequestRefuses, RequestTimesOut, Accept, Refuse,
                TimedOut
  <2>5. seq \in 1..Len(StatusOf) /\ StatusOf[seq] = "pending"
    BY <1>1, <2>2 DEF ChannelStatus
  <2>6. \/ ChannelStatus(v) = "answered" /\ seq \in Performed
        \/ ChannelStatus(v) = "failed"
    BY <2>1 DEF ChannelStatus
  <2> QED BY <2>3, <2>4, <2>5, <2>6, ChannelSteps
<1>5. ASSUME verdict' = verdict, executed' = executed
      PROVE  UNCHANGED Channel!vars
  <2>1. StatusOf' = StatusOf
    BY <1>5 DEF StatusOf
  <2> QED BY <1>5, <2>1, ChannelSteps
<1>6. CASE \/ AdapterReady \/ InboxClosed \/ AdapterQuits \/ Environment \/ ReaderStep
           \/ Finished \/ \E s \in deferred : ResolveDeferred(s)
  BY <1>5, <1>6
  DEF AdapterReady, InboxClosed, AdapterQuits, Environment, EngineEvent, Chatter,
      AdapterFailsToStart, AdapterCrashes, AdapterHangs, ReaderStep, ReadFrame,
      ReadGarbage, ReadEndOfFile, Finished, vars, ResolveDeferred
<1>7. CASE \/ DeadlinePasses \/ StartAccepts \/ StartRefuses \/ StartTimesOut
           \/ RequestTakesEvent \/ PumpAccepts \/ PumpRefuses \/ PumpTimesOut
           \/ Reap \/ Kill
  BY <1>5, <1>7
  DEF DeadlinePasses, StartAccepts, StartRefuses, StartTimesOut, StartEnds,
      RequestTakesEvent, PumpAccepts, PumpRefuses, PumpTimesOut, PumpEnds, Reap, Kill,
      Accept, Refuse, TimedOut
<1>8. CASE Spawn \/ SpawnFails \/ PumpStarts \/ ClosePolls \/ HostExits
  BY <1>5, <1>8 DEF Spawn, SpawnFails, PumpStarts, ClosePolls, HostExits
<1> QED BY <1>2, <1>3, <1>4, <1>6, <1>7, <1>8
        DEF Next, AdapterStep, HostStep, Caller

\* Whatever the adapter, the engine and the deadlines do, the caller sees a
\* channel that ends each request once, answers only what was performed, and
\* performs in order and at most once (request, close).
THEOREM ChannelImplemented == Spec => Channel!Spec
<1>1. Init => Channel!Init
  <2> SUFFICES ASSUME Init PROVE Channel!Init
    OBVIOUS
  <2>1. verdict = <<>> /\ executed = <<>> /\ Len(<<>>) = 0
    BY EmptySeq DEF Init
  <2>2. DOMAIN StatusOf = {} /\ StatusOf \in [{} -> {"pending"}]
    BY <2>1 DEF StatusOf, Statuses
  <2>3. StatusOf = <<>>
    BY <2>2
  <2> QED BY <2>1, <2>3, ChannelSteps
<1>2. TypeOK /\ TypeOK' /\ WireInv /\ CallsInv /\ [Next]_vars
        => [Channel!Next]_(Channel!vars)
  <2> SUFFICES ASSUME TypeOK, TypeOK', WireInv, CallsInv, [Next]_vars
               PROVE  Channel!Next \/ UNCHANGED Channel!vars
    OBVIOUS
  <2>1. CASE UNCHANGED vars
    <3>1. StatusOf' = StatusOf /\ executed' = executed
      BY <2>1 DEF vars, hostVars, adapterVars, StatusOf
    <3> QED BY <3>1, ChannelSteps
  <2> QED BY <2>1, StepIsChannelStep
<1> QED BY <1>1, <1>2, TypeCorrect, WireCorrect, CallsCorrect, PTL
        DEF Spec, Channel!Spec
=============================================================================
