---------------------------- MODULE CorpusProofs ----------------------------
(***************************************************************************)
(* Proofs about Corpus, for any scenarios and numbers of repetitions, any   *)
(* number of gates over one directory and every point at which a process    *)
(* dies.                                                                    *)
(***************************************************************************)
EXTENDS Corpus, FiniteSetTheorems, SequenceTheorems, TLAPS

-----------------------------------------------------------------------------
(* The inductive invariant.                                                 *)

Stages == {"idle", "native", "make", "driver", "close", "flush", "result",
           "finalize", "differential", "compare"}
Running == {"make", "driver", "close", "flush", "result", "finalize"}
InRepetition == Running \ {"make"}
Judged == {"result", "finalize"}

Record ==
  UNION {[scenario : {i}, status : {"passed", "failed"},
          assertions : [Scenarios[i].texts -> BOOLEAN],
          error : {"none", "blocked", "failed"}] : i \in DOMAIN Scenarios}

\* What a finished lane says of itself.
Sound(s) ==
  /\ s.records \in Seq(Record)
  /\ s.ledger = Cardinality(CallsOfPassed(s.records))
  /\ s.deterministic = Deterministic(s.records)
  /\ s.status = IF Statuses(s.records) = {"passed"} /\ s.deterministic
                THEN "passed" ELSE "failed"

GateInv ==
  /\ gate \in 0..MaxGates /\ lane \in Lanes \union {"none"} /\ stage \in Stages
  /\ repetitions \in Requested \union {1}
  /\ stage \in Running <=> lane # "none"
  /\ report \in {Absent, "blocked", "equivalent", "different"}

RecordsInv ==
  /\ records \in Seq(Record) /\ Len(records) <= Total
  /\ stage \in InRepetition => Len(records) < Total
  /\ stage \notin Running => records = <<>> /\ ledger = 0
  /\ IsFiniteSet(CallsOfPassed(records))
  /\ ledger = Cardinality(CallsOfPassed(records)) +
                IF stage = "finalize" /\ Passed THEN repetition.earned ELSE 0

\* The steps of the driver that were taken were the first ones.
Done == {n \in 1..repetition.done : Scenario.driver[n] = "call"}

Checks == {<<>>} \union UNION {[Scenarios[i].texts -> BOOLEAN] : i \in DOMAIN Scenarios}
RepetitionType ==
  [done : Nat, logs : Seq(Nat), traces : Nat \union {Absent}, earned : Nat,
   error : {"none", "blocked", "failed"}, checks : Checks]

RepetitionInv ==
  /\ repetition \in RepetitionType
  /\ stage \notin InRepetition => repetition = Fresh
  /\ stage = "driver" => repetition.logs # <<>> /\ repetition.error = "none"
  /\ stage \in InRepetition =>
       /\ repetition.done \in 0..Len(Scenario.driver)
       /\ repetition.earned = Cardinality(Done)
  /\ stage \in InRepetition \ {"driver"} /\ repetition.error = "none" =>
       repetition.done = Len(Scenario.driver)
  /\ repetition.logs = <<>> => repetition.earned = 0
  /\ stage \in Judged => repetition.traces = FirstLog

ResultsInv ==
  /\ summary \in {Absent, Partial} \/ Sound(summary)
  /\ baseline = Absent \/ Sound(baseline)
  /\ stage = "compare" => Sound(baseline)

Inv == GateInv /\ RecordsInv /\ RepetitionInv /\ ResultsInv

-----------------------------------------------------------------------------
(* Records and repetitions.                                                 *)

LEMMA RepetitionFields ==
  ASSUME NEW r \in RepetitionType
  PROVE  /\ r.done \in Nat /\ r.logs \in Seq(Nat) /\ r.traces \in Nat \union {Absent}
         /\ r.earned \in Nat /\ r.error \in {"none", "blocked", "failed"}
         /\ r.checks \in Checks
BY DEF RepetitionType

LEMMA FreshFields ==
  /\ Fresh \in RepetitionType /\ Fresh.done = 0 /\ Fresh.logs = <<>>
  /\ Fresh.earned = 0 /\ Fresh.error = "none" /\ Fresh.traces = Absent
BY DEF Fresh, RepetitionType, Checks

\* What changes one field of a repetition, or two.
Logged(r, logs) == [r EXCEPT !.logs = logs]
Earns(r, logs) == [r EXCEPT !.done = @ + 1, !.earned = @ + 1, !.logs = logs]
Flushes(r) == [r EXCEPT !.done = @ + 1, !.traces = r.logs[1]]
Succeeds(r) == [r EXCEPT !.done = @ + 1, !.logs = Append(@, 1)]
Raised(r, logs) == [r EXCEPT !.logs = logs, !.error = "failed"]
Checked(r, checks) == [r EXCEPT !.checks = checks]
Traced(r, traces) == [r EXCEPT !.traces = traces]

LEMMA LoggedIs ==
  ASSUME NEW r \in RepetitionType, NEW logs \in Seq(Nat)
  PROVE  /\ Logged(r, logs) \in RepetitionType /\ Logged(r, logs).logs = logs
         /\ Logged(r, logs).done = r.done /\ Logged(r, logs).earned = r.earned
         /\ Logged(r, logs).error = r.error /\ Logged(r, logs).traces = r.traces
         /\ Logged(r, logs).checks = r.checks
BY DEF Logged, RepetitionType

LEMMA Made ==
  LET r == [Fresh EXCEPT !.logs = <<0>>]
  IN  /\ r \in RepetitionType /\ r.done = 0 /\ r.logs = <<0>> /\ r.earned = 0
      /\ r.error = "none"
<1> DEFINE r == [Fresh EXCEPT !.logs = <<0>>]
<1>1. PICK q \in RepetitionType, l \in Seq(Nat) : q = Fresh /\ l = <<0>>
  <2>1. <<0>> \in Seq(Nat)
    OBVIOUS
  <2>2. Fresh \in RepetitionType
    BY FreshFields
  <2> QED BY <2>1, <2>2, Zenon
<1>2. r = Logged(q, l)
  BY <1>1 DEF Logged
<1>3. /\ Logged(q, l) \in RepetitionType /\ Logged(q, l).logs = l
      /\ Logged(q, l).done = q.done /\ Logged(q, l).earned = q.earned
      /\ Logged(q, l).error = q.error
  BY LoggedIs
<1> HIDE DEF r
<1>4. /\ r \in RepetitionType /\ r.done = 0 /\ r.logs = <<0>> /\ r.earned = 0
      /\ r.error = "none"
  BY <1>1, <1>2, <1>3, FreshFields
<1> QED BY <1>4 DEF r

LEMMA Refused ==
  LET r == [Fresh EXCEPT !.error = "blocked"]
  IN  /\ r \in RepetitionType /\ r.done = 0 /\ r.logs = <<>> /\ r.earned = 0
      /\ r.error = "blocked"
<1>1. \A q \in RepetitionType :
        LET r == [q EXCEPT !.error = "blocked"]
        IN  /\ r \in RepetitionType /\ r.done = q.done /\ r.logs = q.logs
            /\ r.earned = q.earned /\ r.error = "blocked"
  BY DEF RepetitionType
<1>2. PICK q \in RepetitionType : q = Fresh
  BY FreshFields
<1> QED BY <1>1, <1>2, FreshFields

LEMMA RaisedIs ==
  ASSUME NEW r \in RepetitionType, NEW logs \in Seq(Nat)
  PROVE  /\ Raised(r, logs) \in RepetitionType /\ Raised(r, logs).logs = logs
         /\ Raised(r, logs).done = r.done /\ Raised(r, logs).earned = r.earned
         /\ Raised(r, logs).error = "failed"
BY DEF Raised, RepetitionType

LEMMA CheckedIs ==
  ASSUME NEW r \in RepetitionType, NEW checks \in Checks
  PROVE  /\ Checked(r, checks) \in RepetitionType
         /\ Checked(r, checks).logs = r.logs
         /\ Checked(r, checks).done = r.done /\ Checked(r, checks).earned = r.earned
         /\ Checked(r, checks).error = r.error
BY DEF Checked, RepetitionType

LEMMA TracedIs ==
  ASSUME NEW r \in RepetitionType, NEW traces \in Nat \union {Absent}
  PROVE  /\ Traced(r, traces) \in RepetitionType
         /\ Traced(r, traces).traces = traces /\ Traced(r, traces).logs = r.logs
         /\ Traced(r, traces).done = r.done /\ Traced(r, traces).earned = r.earned
         /\ Traced(r, traces).error = r.error /\ Traced(r, traces).checks = r.checks
BY DEF Traced, RepetitionType

LEMMA EarnsIs ==
  ASSUME NEW r \in RepetitionType, NEW logs \in Seq(Nat)
  PROVE  /\ Earns(r, logs) \in RepetitionType
         /\ Earns(r, logs).done = r.done + 1 /\ Earns(r, logs).earned = r.earned + 1
         /\ Earns(r, logs).logs = logs /\ Earns(r, logs).error = r.error
<1>1. r.done + 1 \in Nat /\ r.earned + 1 \in Nat
  BY RepetitionFields
<1> DEFINE q1 == [r EXCEPT !.done = @ + 1]
           q2 == [q1 EXCEPT !.earned = r.earned + 1]
           q3 == [q2 EXCEPT !.logs = logs]
<1>2. q1 \in RepetitionType
  BY <1>1 DEF RepetitionType
<1>3. q2 \in RepetitionType
  <2> HIDE DEF q1
  <2> QED BY <1>1, <1>2 DEF RepetitionType
<1>4. q3 \in RepetitionType
  <2> HIDE DEF q2
  <2> QED BY <1>3 DEF RepetitionType
<1>5. Earns(r, logs) = q3
  BY DEF Earns
<1>6. /\ Earns(r, logs).done = r.done + 1 /\ Earns(r, logs).earned = r.earned + 1
      /\ Earns(r, logs).logs = logs /\ Earns(r, logs).error = r.error
  BY DEF Earns, RepetitionType
<1> HIDE DEF q3
<1> QED BY <1>4, <1>5, <1>6

LEMMA FlushesIs ==
  ASSUME NEW r \in RepetitionType, r.logs # <<>>
  PROVE  /\ Flushes(r) \in RepetitionType
         /\ Flushes(r).done = r.done + 1 /\ Flushes(r).earned = r.earned
         /\ Flushes(r).logs = r.logs /\ Flushes(r).error = r.error
<1>1. r.done + 1 \in Nat /\ r.logs[1] \in Nat \union {Absent}
  <2>1. r.logs \in Seq(Nat) /\ r.done \in Nat
    BY RepetitionFields
  <2> QED BY <2>1
<1>2. /\ Flushes(r).done = r.done + 1 /\ Flushes(r).earned = r.earned
      /\ Flushes(r).logs = r.logs /\ Flushes(r).error = r.error
  BY DEF Flushes, RepetitionType
<1> DEFINE q1 == [r EXCEPT !.done = @ + 1]
           q2 == [q1 EXCEPT !.traces = r.logs[1]]
<1>3. q1 \in RepetitionType
  BY <1>1 DEF RepetitionType
<1>4. q2 \in RepetitionType
  <2> HIDE DEF q1
  <2> QED BY <1>1, <1>3 DEF RepetitionType
<1>5. Flushes(r) = q2
  BY DEF Flushes
<1> HIDE DEF q2
<1> QED BY <1>1, <1>2, <1>4, <1>5

LEMMA SucceedsIs ==
  ASSUME NEW r \in RepetitionType, r.logs # <<>>
  PROVE  /\ Succeeds(r) \in RepetitionType
         /\ Succeeds(r).done = r.done + 1 /\ Succeeds(r).earned = r.earned
         /\ Succeeds(r).logs # <<>> /\ Succeeds(r).logs[1] = r.logs[1]
         /\ Succeeds(r).error = r.error
<1>1. /\ r.done + 1 \in Nat /\ r.logs \in Seq(Nat)
      /\ Append(r.logs, 1) \in Seq(Nat) /\ Append(r.logs, 1) # <<>>
      /\ Append(r.logs, 1)[1] = r.logs[1]
  <2>1. r.logs \in Seq(Nat) /\ r.done \in Nat
    BY RepetitionFields
  <2> QED BY <2>1
<1>2. /\ Succeeds(r).done = r.done + 1 /\ Succeeds(r).earned = r.earned
      /\ Succeeds(r).logs = Append(r.logs, 1) /\ Succeeds(r).error = r.error
  BY DEF Succeeds, RepetitionType
<1> DEFINE q1 == [r EXCEPT !.done = @ + 1]
           q2 == [q1 EXCEPT !.logs = Append(r.logs, 1)]
<1>3. q1 \in RepetitionType
  BY <1>1 DEF RepetitionType
<1>4. q2 \in RepetitionType
  <2> HIDE DEF q1
  <2> QED BY <1>1, <1>3 DEF RepetitionType
<1>5. Succeeds(r) = q2
  BY DEF Succeeds
<1> HIDE DEF q2
<1> QED BY <1>1, <1>2, <1>4, <1>5

-----------------------------------------------------------------------------
(* The ledger.                                                              *)

LEMMA CallsFinite ==
  ASSUME NEW i \in DOMAIN Scenarios
  PROVE  IsFiniteSet(Calls(i))
<1>1. Scenarios[i].driver \in Seq({"call", "flush", "resume"})
  BY CorpusAssumption
<1>2. Calls(i) \subseteq 1..Len(Scenarios[i].driver) /\ Len(Scenarios[i].driver) \in Nat
  BY <1>1 DEF Calls
<1>3. IsFiniteSet(1..Len(Scenarios[i].driver))
  BY <1>2, FS_Interval
<1> QED BY <1>2, <1>3, FS_Subset

LEMMA RecordFields ==
  ASSUME NEW r \in Record
  PROVE  /\ r.scenario \in DOMAIN Scenarios /\ r.status \in {"passed", "failed"}
         /\ r.assertions \in [Scenarios[r.scenario].texts -> BOOLEAN]
         /\ r.error \in {"none", "blocked", "failed"}
BY DEF Record

\* The calls of passed records are finite, and grow by those of a record that
\* passed.
LEMMA LedgerGrows ==
  ASSUME NEW rs \in Seq(Record), NEW r \in Record, IsFiniteSet(CallsOfPassed(rs))
  PROVE  /\ IsFiniteSet(CallsOfPassed(Append(rs, r)))
         /\ Cardinality(CallsOfPassed(Append(rs, r))) =
              Cardinality(CallsOfPassed(rs)) +
                IF r.status = "passed" THEN Cardinality(Calls(r.scenario)) ELSE 0
<1> DEFINE n == Len(rs) + 1
           t == Append(rs, r)
           new == {n} \X Calls(r.scenario)
<1>1. /\ Len(rs) \in Nat /\ DOMAIN rs = 1..Len(rs) /\ DOMAIN t = 1..n
      /\ \A i \in 1..Len(rs) : t[i] = rs[i]
      /\ t[n] = r
  OBVIOUS
<1>2. /\ IsFiniteSet(Calls(r.scenario)) /\ Cardinality(Calls(r.scenario)) \in Nat
      /\ IsFiniteSet(new) /\ Cardinality(new) = Cardinality(Calls(r.scenario))
  <2>1. IsFiniteSet(Calls(r.scenario))
    BY RecordFields, CallsFinite
  <2>2. IsFiniteSet({n}) /\ Cardinality({n}) = 1
    BY FS_Singleton
  <2>3. Cardinality(Calls(r.scenario)) \in Nat
    BY <2>1, FS_CardinalityType
  <2>4. /\ IsFiniteSet(new)
        /\ Cardinality(new) = Cardinality({n}) * Cardinality(Calls(r.scenario))
    BY <2>1, <2>2, FS_Product
  <2>5. 1 * Cardinality(Calls(r.scenario)) = Cardinality(Calls(r.scenario))
    BY <2>3
  <2> QED BY <2>1, <2>2, <2>3, <2>4, <2>5
<1> HIDE DEF t
<1>3. CASE r.status = "passed"
  <2>1. CallsOfPassed(t) = CallsOfPassed(rs) \union new
    <3>1. ASSUME NEW x \in CallsOfPassed(t) PROVE x \in CallsOfPassed(rs) \union new
      <4>1. PICK k \in 1..n : t[k].status = "passed" /\ x \in {k} \X Calls(t[k].scenario)
        BY <1>1, <3>1 DEF CallsOfPassed
      <4>2. CASE k = n
        BY <1>1, <4>1, <4>2
      <4>3. CASE k # n
        <5>1. k \in 1..Len(rs) /\ t[k] = rs[k]
          BY <1>1, <4>1, <4>3
        <5> QED BY <1>1, <4>1, <5>1 DEF CallsOfPassed
      <4> QED BY <4>2, <4>3
    <3>2. CallsOfPassed(rs) \subseteq CallsOfPassed(t)
      BY <1>1 DEF CallsOfPassed
    <3>3. new \subseteq CallsOfPassed(t)
      <4>1. n \in DOMAIN t /\ t[n].status = "passed" /\ new = {n} \X Calls(t[n].scenario)
        BY <1>1, <1>3
      <4> HIDE DEF new, n
      <4> QED BY <4>1 DEF CallsOfPassed
    <3> QED BY <3>1, <3>2, <3>3
  <2>2. CallsOfPassed(rs) \cap new = {}
    <3> SUFFICES ASSUME NEW x \in CallsOfPassed(rs), x \in new PROVE FALSE
      OBVIOUS
    <3>1. PICK k \in DOMAIN rs : x \in {k} \X Calls(rs[k].scenario)
      BY DEF CallsOfPassed
    <3>2. x[1] = k /\ x[1] = n
      BY <3>1
    <3> QED BY <1>1, <3>1, <3>2
  <2>3. /\ IsFiniteSet(CallsOfPassed(rs) \union new)
        /\ Cardinality(CallsOfPassed(rs) \union new) =
             Cardinality(CallsOfPassed(rs)) + Cardinality(new)
             - Cardinality(CallsOfPassed(rs) \cap new)
    BY <1>2, FS_Union
  <2>4. Cardinality(CallsOfPassed(rs)) \in Nat /\ Cardinality({}) = 0
    BY FS_CardinalityType, FS_EmptySet
  <2> HIDE DEF new
  <2>5. Cardinality(CallsOfPassed(rs) \union new) =
          Cardinality(CallsOfPassed(rs)) + Cardinality(Calls(r.scenario))
    <3>1. Cardinality(CallsOfPassed(rs) \cap new) = 0
      BY <2>2, <2>4
    <3>2. PICK a \in Nat, b \in Nat :
            a = Cardinality(CallsOfPassed(rs)) /\ b = Cardinality(Calls(r.scenario))
      BY <1>2, <2>4
    <3>3. Cardinality(CallsOfPassed(rs) \union new) = a + b - 0
      BY <1>2, <2>3, <3>1, <3>2
    <3> QED BY <3>2, <3>3
  <2> QED BY <1>3, <2>1, <2>3, <2>5 DEF t
<1>4. CASE r.status # "passed"
  <2>1. CallsOfPassed(t) = CallsOfPassed(rs)
    <3>1. {j \in DOMAIN t : t[j].status = "passed"} =
            {j \in DOMAIN rs : rs[j].status = "passed"}
      BY <1>1, <1>4
    <3>2. \A j \in DOMAIN rs : t[j] = rs[j]
      BY <1>1
    <3> QED BY <3>1, <3>2 DEF CallsOfPassed
  <2>2. Cardinality(CallsOfPassed(rs)) \in Nat
    BY FS_CardinalityType
  <2> QED BY <1>4, <2>1, <2>2 DEF t
<1> QED BY <1>3, <1>4

-----------------------------------------------------------------------------
(* A repetition has its scenario.                                           *)

LEMMA Index ==
  ASSUME NEW n \in Nat, NEW r \in Nat \ {0}, NEW N \in Nat, n < N * r
  PROVE  (n \div r) + 1 \in 1..N
<1> DEFINE q == n \div r
<1>1. q \in Nat /\ r * q <= n
  OBVIOUS
<1> HIDE DEF q
<1>2. ASSUME q >= N PROVE FALSE
  <2>1. PICK d \in Nat : q = N + d
    <3>1. q - N \in Nat /\ q = N + (q - N)
      BY <1>1, <1>2
    <3> QED BY <3>1
  <2>2. r * q = N * r + r * d
    BY <2>1
  <2>3. r * d >= 0 /\ N * r \in Int /\ r * d \in Int
    OBVIOUS
  <2> QED BY <1>1, <2>2, <2>3
<1>3. q + 1 \in 1..N
  BY <1>1, <1>2
<1> QED BY <1>3 DEF q

LEMMA Numbers ==
  ASSUME GateInv
  PROVE  repetitions \in Nat \ {0} /\ Total \in Nat
<1>1. repetitions \in Nat \ {0}
  BY CorpusAssumption DEF GateInv
<1>2. Len(Scenarios) \in Nat
  BY CorpusAssumption
<1> QED BY <1>1, <1>2 DEF Total

LEMMA ScenarioIs ==
  ASSUME GateInv, records \in Seq(Record), Len(records) < Total
  PROVE  LET i == (Len(records) \div repetitions) + 1
         IN  /\ i \in DOMAIN Scenarios /\ Scenario = Scenarios[i]
             /\ Scenario.driver \in Seq({"call", "flush", "resume"})
<1>1. /\ repetitions \in Nat \ {0} /\ Len(Scenarios) \in Nat /\ Len(records) \in Nat
      /\ Len(records) < Len(Scenarios) * repetitions
  BY Numbers, CorpusAssumption DEF Total
<1>2. (Len(records) \div repetitions) + 1 \in 1..Len(Scenarios)
  BY <1>1, Index
<1> QED BY <1>2, CorpusAssumption DEF Scenario

LEMMA DriverIs ==
  ASSUME Inv, stage \in InRepetition
  PROVE  /\ Scenario.driver \in Seq({"call", "flush", "resume"})
         /\ Len(Scenario.driver) \in Nat /\ DOMAIN Scenario.driver = 1..Len(Scenario.driver)
<1>1. Scenario.driver \in Seq({"call", "flush", "resume"})
  BY ScenarioIs DEF Inv, RecordsInv
<1> QED BY <1>1

\* The steps taken grow by one, which may be a call.
LEMMA DoneGrows ==
  ASSUME NEW driver \in Seq({"call", "flush", "resume"}), NEW d \in Nat
  PROVE  LET before == {n \in 1..d : driver[n] = "call"}
             after == {n \in 1..d + 1 : driver[n] = "call"}
         IN  Cardinality(after) =
               Cardinality(before) + IF driver[d + 1] = "call" THEN 1 ELSE 0
<1> DEFINE before == {n \in 1..d : driver[n] = "call"}
           after == {n \in 1..d + 1 : driver[n] = "call"}
<1>1. IsFiniteSet(before) /\ Cardinality(before) \in Nat
  <2>1. IsFiniteSet(1..d) /\ before \subseteq 1..d
    BY FS_Interval
  <2> QED BY <2>1, FS_Subset, FS_CardinalityType
<1>2. d + 1 \notin before
  OBVIOUS
<1>3. CASE driver[d + 1] = "call"
  <2>1. after = before \union {d + 1}
    <3>1. 1..d + 1 = (1..d) \union {d + 1}
      OBVIOUS
    <3> QED BY <1>3, <3>1
  <2> HIDE DEF before, after
  <2>2. Cardinality(before \union {d + 1}) = Cardinality(before) + 1
    BY <1>1, <1>2, FS_AddElement
  <2> QED BY <1>3, <2>1, <2>2 DEF before, after
<1>4. CASE driver[d + 1] # "call"
  <2>1. after = before
    <3>1. 1..d + 1 = (1..d) \union {d + 1}
      OBVIOUS
    <3> QED BY <1>4, <3>1
  <2> HIDE DEF before, after
  <2>2. Cardinality(after) = Cardinality(before) + 0
    BY <1>1, <2>1
  <2> QED BY <1>4, <2>2 DEF before, after
<1> QED BY <1>3, <1>4

\* The calls of a driver that has returned.
LEMMA AllDoneIs ==
  ASSUME Inv, stage \in InRepetition, repetition.done = Len(Scenario.driver)
  PROVE  Done = Calls((Len(records) \div repetitions) + 1)
BY DriverIs, ScenarioIs DEF Done, Calls, Inv, RecordsInv

-----------------------------------------------------------------------------
(* The invariant holds initially.                                           *)

LEMMA NothingEarned ==
  /\ CallsOfPassed(<<>>) = {} /\ Cardinality({}) = 0 /\ IsFiniteSet({})
BY FS_EmptySet DEF CallsOfPassed

LEMMA InitInv == Init => Inv
<1> SUFFICES ASSUME Init PROVE Inv
  OBVIOUS
<1>1. GateInv
  BY CorpusAssumption DEF Init, GateInv, Lanes, Stages, Running
<1>2. Total \in Nat
  BY <1>1, Numbers
<1>3. RecordsInv
  <2>1. /\ records = <<>> /\ ledger = 0 /\ stage \notin Running
        /\ stage \notin InRepetition /\ stage # "finalize"
    BY DEF Init, Running, InRepetition
  <2>2. records \in Seq(Record) /\ Len(records) = 0
    BY <2>1
  <2>3. /\ IsFiniteSet(CallsOfPassed(records)) /\ Cardinality(CallsOfPassed(records)) = 0
    BY <2>1, NothingEarned
  <2> QED BY <1>2, <2>1, <2>2, <2>3 DEF RecordsInv
<1>4. RepetitionInv
  BY FreshFields DEF Init, RepetitionInv, Running, InRepetition, Judged
<1>5. ResultsInv
  BY DEF Init, ResultsInv
<1> QED BY <1>1, <1>3, <1>4, <1>5 DEF Inv

-----------------------------------------------------------------------------
(* One repetition.                                                          *)

\* Steps of a repetition before its result.
LEMMA RepetitionFrame ==
  ASSUME Inv, NEW from \in Running, NEW to \in InRepetition \ {"finalize"},
         Goes(from, to), from # "finalize", UNCHANGED <<records, ledger>>,
         from = "make" => Len(records) < Total
  PROVE  /\ GateInv' /\ RecordsInv' /\ ResultsInv'
         /\ Scenario' = Scenario /\ stage = from /\ stage' = to
         /\ UNCHANGED <<lane, records, repetitions>>
<1>1. /\ stage = from /\ stage' = to
      /\ UNCHANGED <<gate, lane, repetitions, summary, baseline, report, records, ledger>>
  BY DEF Goes, resultVars
<1>2. GateInv'
  BY <1>1 DEF Inv, GateInv, Running, InRepetition, Stages
<1>3. Scenario' = Scenario /\ Total' = Total
  BY <1>1 DEF Scenario, Total
<1>4. Len(records) < Total
  BY <1>1 DEF Inv, RecordsInv, InRepetition
<1>5. RecordsInv'
  BY <1>1, <1>3, <1>4 DEF Inv, RecordsInv, InRepetition, Running
<1>6. ResultsInv'
  <2>1. stage' # "compare"
    BY <1>1 DEF InRepetition, Running
  <2> QED BY <1>1, <2>1 DEF Inv, ResultsInv, Sound, Deterministic
<1> QED BY <1>1, <1>2, <1>3, <1>5, <1>6

LEMMA MakeBackendInv ==
  ASSUME Inv, MakeBackend
  PROVE  Inv'
<1>1. /\ Goes("make", "driver") /\ Len(records) < Total /\ UNCHANGED <<records, ledger>>
      /\ repetition' = [Fresh EXCEPT !.logs = <<0>>]
  BY DEF MakeBackend
<1>2. /\ GateInv' /\ RecordsInv' /\ ResultsInv' /\ Scenario' = Scenario
      /\ stage' = "driver"
  BY <1>1, RepetitionFrame DEF Running, InRepetition
<1>3. /\ repetition' \in RepetitionType /\ repetition'.done = 0
      /\ repetition'.logs = <<0>> /\ repetition'.earned = 0
      /\ repetition'.error = "none"
  BY <1>1, Made
<1>4. Len(Scenario.driver) \in Nat
  <2>1. Scenario.driver \in Seq({"call", "flush", "resume"})
    BY <1>1, ScenarioIs DEF Inv, RecordsInv
  <2> QED BY <2>1
<1>5. Done' = {}
  BY <1>3 DEF Done
<1>6. RepetitionInv'
  BY <1>2, <1>3, <1>4, <1>5, NothingEarned DEF RepetitionInv, Running, InRepetition, Judged
<1> QED BY <1>2, <1>6 DEF Inv

LEMMA BackendRefusedInv ==
  ASSUME Inv, BackendRefused
  PROVE  Inv'
<1>1. /\ Goes("make", "close") /\ Len(records) < Total /\ UNCHANGED <<records, ledger>>
      /\ repetition' = [Fresh EXCEPT !.error = "blocked"]
  BY DEF BackendRefused
<1>2. /\ GateInv' /\ RecordsInv' /\ ResultsInv' /\ Scenario' = Scenario
      /\ stage' = "close"
  BY <1>1, RepetitionFrame DEF Running, InRepetition
<1>3. /\ repetition' \in RepetitionType /\ repetition'.done = 0
      /\ repetition'.logs = <<>> /\ repetition'.earned = 0
      /\ repetition'.error = "blocked"
  BY <1>1, Refused
<1>4. Len(Scenario.driver) \in Nat
  <2>1. Scenario.driver \in Seq({"call", "flush", "resume"})
    BY <1>1, ScenarioIs DEF Inv, RecordsInv
  <2> QED BY <2>1
<1>5. Done' = {}
  BY <1>3 DEF Done
<1>6. RepetitionInv'
  BY <1>2, <1>3, <1>4, <1>5, NothingEarned DEF RepetitionInv, Running, InRepetition, Judged
<1> QED BY <1>2, <1>6 DEF Inv

\* What a step of the driver starts from.
LEMMA DriverStep ==
  ASSUME Inv, stage = "driver"
  PROVE  /\ repetition \in RepetitionType /\ repetition.logs # <<>>
         /\ repetition.logs \in Seq(Nat) /\ repetition.logs[1] \in Nat
         /\ repetition.error = "none" /\ repetition.done \in Nat
         /\ repetition.earned \in Nat
         /\ repetition.done \in 0..Len(Scenario.driver) /\ Len(Scenario.driver) \in Nat
         /\ repetition.earned = Cardinality(Done)
<1>1. /\ repetition \in RepetitionType /\ repetition.logs # <<>>
      /\ repetition.error = "none"
      /\ repetition.done \in 0..Len(Scenario.driver)
      /\ repetition.earned = Cardinality(Done)
  BY DEF Inv, RepetitionInv, InRepetition, Running, Judged
<1>2. repetition.logs \in Seq(Nat) /\ repetition.done \in Nat /\ repetition.earned \in Nat
  BY <1>1, RepetitionFields
<1>3. repetition.logs[1] \in Nat
  BY <1>1, <1>2
<1> QED BY <1>1, <1>2, <1>3, DriverIs DEF InRepetition, Running

\* A step of the driver that succeeds.
LEMMA StepTaken ==
  ASSUME Inv, NEW kind, AtStep(kind), repetition' \in RepetitionType,
         repetition'.done = repetition.done + 1,
         repetition'.earned = repetition.earned + IF kind = "call" THEN 1 ELSE 0,
         repetition'.logs # <<>>, repetition'.error = repetition.error
  PROVE  Inv'
<1>1. /\ Goes("driver", "driver") /\ UNCHANGED <<records, ledger>>
      /\ repetition.done < Len(Scenario.driver)
      /\ Scenario.driver[repetition.done + 1] = kind
  BY DEF AtStep
<1>2. /\ GateInv' /\ RecordsInv' /\ ResultsInv' /\ Scenario' = Scenario
      /\ stage = "driver" /\ stage' = "driver"
  BY <1>1, RepetitionFrame DEF Running, InRepetition
<1>3. /\ repetition.error = "none"
      /\ repetition.done \in Nat /\ repetition.earned \in Nat
      /\ Len(Scenario.driver) \in Nat
      /\ repetition.earned = Cardinality(Done)
  BY <1>2, DriverStep
<1>4. Cardinality(Done') = repetition'.earned
  <2>1. PICK driver \in Seq({"call", "flush", "resume"}), d \in Nat :
          driver = Scenario.driver /\ d = repetition.done
    BY <1>2, <1>3, DriverIs DEF InRepetition, Running
  <2>2. /\ Done = {n \in 1..d : driver[n] = "call"}
        /\ Done' = {n \in 1..d + 1 : driver[n] = "call"}
    BY <1>2, <2>1 DEF Done
  <2>3. Cardinality({n \in 1..d + 1 : driver[n] = "call"}) =
          Cardinality({n \in 1..d : driver[n] = "call"})
            + IF driver[d + 1] = "call" THEN 1 ELSE 0
    BY DoneGrows
  <2> QED BY <1>1, <1>3, <2>1, <2>2, <2>3
<1>5. repetition'.done \in 0..Len(Scenario.driver)
  BY <1>1, <1>3
<1>6. RepetitionInv'
  BY <1>2, <1>3, <1>4, <1>5 DEF RepetitionInv, Running, InRepetition, Judged
<1> QED BY <1>2, <1>6 DEF Inv

LEMMA CallReturnsInv ==
  ASSUME Inv, CallReturns
  PROVE  Inv'
<1>1. AtStep("call") /\ stage = "driver"
  BY DEF CallReturns, AtStep, Goes
<1>2. PICK logs \in {repetition.logs, Grown} : repetition' = Earns(repetition, logs)
  BY DEF CallReturns, Earns
<1>3. /\ repetition \in RepetitionType /\ repetition.logs # <<>>
      /\ repetition.logs \in Seq(Nat) /\ repetition.logs[1] \in Nat
  BY <1>1, DriverStep
<1>4. logs \in Seq(Nat) /\ logs # <<>>
  <2>1. Grown \in Seq(Nat) /\ Grown # <<>>
    BY <1>3 DEF Grown
  <2> QED BY <1>2, <1>3, <2>1
<1>5. /\ repetition' \in RepetitionType
      /\ repetition'.done = repetition.done + 1
      /\ repetition'.earned = repetition.earned + 1
      /\ repetition'.logs # <<>> /\ repetition'.error = repetition.error
  BY <1>2, <1>3, <1>4, EarnsIs
<1> QED BY <1>1, <1>5, StepTaken

LEMMA DriverFlushesInv ==
  ASSUME Inv, DriverFlushes
  PROVE  Inv'
<1>1. AtStep("flush") /\ stage = "driver" /\ repetition' = Flushes(repetition)
  BY DEF DriverFlushes, AtStep, Goes, Flushes
<1>2. /\ repetition \in RepetitionType /\ repetition.logs # <<>>
      /\ repetition.earned \in Nat
  BY <1>1, DriverStep
<1>3. /\ repetition' \in RepetitionType
      /\ repetition'.done = repetition.done + 1
      /\ repetition'.earned = repetition.earned + 0
      /\ repetition'.logs # <<>> /\ repetition'.error = repetition.error
  BY <1>1, <1>2, FlushesIs
<1> QED BY <1>1, <1>3, StepTaken

LEMMA ResumesInv ==
  ASSUME Inv, Resumes
  PROVE  Inv'
<1>1. AtStep("resume") /\ stage = "driver" /\ repetition' = Succeeds(repetition)
  BY DEF Resumes, AtStep, Goes, Succeeds
<1>2. /\ repetition \in RepetitionType /\ repetition.logs # <<>>
      /\ repetition.earned \in Nat
  BY <1>1, DriverStep
<1>3. /\ repetition' \in RepetitionType
      /\ repetition'.done = repetition.done + 1
      /\ repetition'.earned = repetition.earned + 0
      /\ repetition'.logs # <<>> /\ repetition'.error = repetition.error
  BY <1>1, <1>2, SucceedsIs
<1> QED BY <1>1, <1>3, StepTaken

\* The end of the driver, and a step after it: the calls stay as they are, and
\* a repetition that did not fail has taken every step.
LEMMA StepAfter ==
  ASSUME Inv, NEW from \in {"driver", "close", "flush"},
         NEW to \in {"close", "flush", "result"},
         Goes(from, to), UNCHANGED <<records, ledger>>,
         repetition' \in RepetitionType,
         repetition'.done = repetition.done, repetition'.earned = repetition.earned,
         repetition'.error = "none" => repetition.done = Len(Scenario.driver),
         repetition'.logs = <<>> <=> repetition.logs = <<>>,
         to = "result" => repetition'.traces = FirstLog'
  PROVE  Inv'
<1>1. /\ GateInv' /\ RecordsInv' /\ ResultsInv' /\ Scenario' = Scenario
      /\ stage = from /\ stage' = to /\ lane' = lane
  BY RepetitionFrame DEF Running, InRepetition
<1>2. Done' = Done
  BY <1>1 DEF Done
<1>3. /\ repetition.done \in 0..Len(Scenario.driver)
      /\ repetition.earned = Cardinality(Done)
      /\ repetition.logs = <<>> => repetition.earned = 0
  BY <1>1 DEF Inv, RepetitionInv, InRepetition, Running
<1>4. /\ repetition'.done \in 0..Len(Scenario'.driver)
      /\ repetition'.earned = Cardinality(Done')
      /\ repetition'.error = "none" => repetition'.done = Len(Scenario'.driver)
      /\ repetition'.logs = <<>> => repetition'.earned = 0
  BY <1>1, <1>2, <1>3
<1>5. stage' \in InRepetition /\ stage' # "driver"
  BY <1>1 DEF InRepetition, Running
<1>6. stage' \in Judged => repetition'.traces = FirstLog'
  BY <1>1 DEF Judged
<1>7. RepetitionInv'
  BY <1>4, <1>5, <1>6 DEF RepetitionInv
<1> QED BY <1>1, <1>7 DEF Inv

LEMMA DriverRaisesInv ==
  ASSUME Inv, DriverRaises
  PROVE  Inv'
<1>1. Goes("driver", "close") /\ stage = "driver" /\ UNCHANGED <<records, ledger>>
  BY DEF DriverRaises, Goes
<1>2. /\ repetition \in RepetitionType /\ repetition.logs # <<>>
      /\ repetition.logs \in Seq(Nat) /\ repetition.logs[1] \in Nat
  BY <1>1, DriverStep
<1> DEFINE one == Append(repetition.logs, 0)
<1>3. PICK logs \in {repetition.logs, Grown, one} : repetition' = Raised(repetition, logs)
  BY Zenon DEF DriverRaises, Raised
<1>4. logs \in Seq(Nat) /\ logs # <<>>
  <2>1. Grown \in Seq(Nat) /\ Grown # <<>>
    BY <1>2 DEF Grown
  <2>2. one \in Seq(Nat) /\ one # <<>>
    BY <1>2
  <2> HIDE DEF one
  <2> QED BY <1>2, <1>3, <2>1, <2>2
<1> HIDE DEF one
<1>5. /\ repetition' \in RepetitionType /\ repetition'.logs = logs
      /\ repetition'.done = repetition.done /\ repetition'.earned = repetition.earned
      /\ repetition'.error = "failed"
  BY <1>2, <1>3, <1>4, RaisedIs
<1> QED BY <1>1, <1>2, <1>4, <1>5, StepAfter

LEMMA DriverReturnsInv ==
  ASSUME Inv, DriverReturns
  PROVE  Inv'
<1>1. /\ Goes("driver", "close") /\ stage = "driver" /\ UNCHANGED <<records, ledger>>
      /\ repetition.done = Len(Scenario.driver)
  BY DEF DriverReturns, Goes
<1>2. repetition \in RepetitionType /\ repetition.logs # <<>>
  BY <1>1, DriverStep
<1>3. PICK checks \in [Scenario.texts -> BOOLEAN] : repetition' = Checked(repetition, checks)
  BY DEF DriverReturns, Checked
<1>4. checks \in Checks
  <2>1. PICK i \in DOMAIN Scenarios : Scenario = Scenarios[i]
    BY <1>1, ScenarioIs DEF Inv, RecordsInv, InRepetition, Running
  <2> QED BY <1>3, <2>1 DEF Checks
<1>5. /\ repetition' \in RepetitionType /\ repetition'.logs = repetition.logs
      /\ repetition'.done = repetition.done /\ repetition'.earned = repetition.earned
  BY <1>2, <1>3, <1>4, CheckedIs
<1> QED BY <1>1, <1>2, <1>5, StepAfter

\* What closing and writing the evidence start from.
LEMMA AfterDriver ==
  ASSUME Inv, stage \in {"close", "flush"}
  PROVE  /\ repetition \in RepetitionType /\ repetition.logs \in Seq(Nat)
         /\ repetition.done \in Nat /\ repetition.earned \in Nat
         /\ repetition.error = "none" => repetition.done = Len(Scenario.driver)
<1>1. /\ repetition \in RepetitionType
      /\ repetition.error = "none" => repetition.done = Len(Scenario.driver)
  BY DEF Inv, RepetitionInv, InRepetition, Running
<1>2. repetition.logs \in Seq(Nat) /\ repetition.done \in Nat /\ repetition.earned \in Nat
  BY <1>1, RepetitionFields
<1> QED BY <1>1, <1>2

LEMMA CloseAllInv ==
  ASSUME Inv, CloseAll
  PROVE  Inv'
<1> DEFINE logs ==
      [i \in DOMAIN repetition.logs |->
         IF lane = "native" THEN repetition.logs[i] + 1 ELSE repetition.logs[i]]
<1>1. /\ Goes("close", "flush") /\ stage = "close" /\ UNCHANGED <<records, ledger>>
      /\ repetition' = Logged(repetition, logs)
  BY DEF CloseAll, Goes, Logged
<1>2. /\ repetition \in RepetitionType /\ repetition.logs \in Seq(Nat)
      /\ repetition.error = "none" => repetition.done = Len(Scenario.driver)
  BY <1>1, AfterDriver
<1>3. logs \in Seq(Nat) /\ (logs = <<>> <=> repetition.logs = <<>>)
  <2>1. PICK n \in Nat : n = Len(repetition.logs) /\ DOMAIN repetition.logs = 1..n
    BY <1>2
  <2>2. \A i \in 1..n : repetition.logs[i] \in Nat
    BY <1>2, <2>1
  <2>3. logs \in [1..n -> Nat]
    BY <2>1, <2>2
  <2>4. logs \in Seq(Nat) /\ Len(logs) = n
    BY <2>1, <2>3
  <2>5. logs = <<>> <=> repetition.logs = <<>>
    BY <1>2, <2>1, <2>4
  <2> QED BY <2>4, <2>5
<1> HIDE DEF logs
<1>4. /\ repetition' \in RepetitionType /\ repetition'.logs = logs
      /\ repetition'.done = repetition.done /\ repetition'.earned = repetition.earned
      /\ repetition'.error = repetition.error
  BY <1>1, <1>2, <1>3, LoggedIs
<1> QED BY <1>1, <1>2, <1>3, <1>4, StepAfter

LEMMA FlushTracesInv ==
  ASSUME Inv, FlushTraces
  PROVE  Inv'
<1>1. /\ Goes("flush", "result") /\ stage = "flush" /\ UNCHANGED <<records, ledger>>
      /\ repetition' = Traced(repetition, FirstLog)
  BY DEF FlushTraces, Goes, Traced
<1>2. /\ repetition \in RepetitionType /\ repetition.logs \in Seq(Nat)
      /\ repetition.error = "none" => repetition.done = Len(Scenario.driver)
  BY <1>1, AfterDriver
<1>3. FirstLog \in Nat \union {Absent}
  BY <1>2 DEF FirstLog
<1>4. /\ repetition' \in RepetitionType /\ repetition'.logs = repetition.logs
      /\ repetition'.done = repetition.done /\ repetition'.earned = repetition.earned
      /\ repetition'.error = repetition.error /\ repetition'.traces = FirstLog
  BY <1>1, <1>2, <1>3, TracedIs
<1>5. repetition'.traces = FirstLog'
  BY <1>4 DEF FirstLog
<1> QED BY <1>1, <1>2, <1>4, <1>5, StepAfter

LEMMA MergeLedgerInv ==
  ASSUME Inv, MergeLedger
  PROVE  Inv'
<1>1. /\ stage = "result" /\ stage' = "finalize"
      /\ UNCHANGED <<gate, lane, repetitions, summary, baseline, report, records, repetition>>
      /\ ledger' = IF Passed THEN ledger + repetition.earned ELSE ledger
  BY DEF MergeLedger, Goes, resultVars
<1>2. GateInv'
  BY <1>1 DEF Inv, GateInv, Running, Stages
<1>3. /\ Scenario' = Scenario /\ Total' = Total
      /\ CallsOfPassed(records)' = CallsOfPassed(records)
  BY <1>1 DEF Scenario, Total, CallsOfPassed, Calls
<1>4. (Passed <=> Passed') /\ Done' = Done /\ FirstLog' = FirstLog
  BY <1>1, <1>3 DEF Passed, Done, FirstLog
<1>5. RecordsInv'
  <2>1. /\ records \in Seq(Record) /\ Len(records) <= Total /\ Len(records) < Total
        /\ IsFiniteSet(CallsOfPassed(records))
        /\ ledger = Cardinality(CallsOfPassed(records)) + 0
    BY <1>1 DEF Inv, RecordsInv, InRepetition, Running
  <2>2. /\ Cardinality(CallsOfPassed(records)) \in Nat /\ repetition.earned \in Nat
    BY <2>1, FS_CardinalityType, RepetitionFields DEF Inv, RepetitionInv
  <2>3. ledger' = Cardinality(CallsOfPassed(records)) +
                    IF Passed THEN repetition.earned ELSE 0
    BY <1>1, <2>1, <2>2
  <2>4. stage' \in InRepetition /\ stage' \in Running
    BY <1>1 DEF InRepetition, Running
  <2> QED BY <1>1, <1>3, <1>4, <2>1, <2>3, <2>4 DEF RecordsInv
<1>6. RepetitionInv'
  BY <1>1, <1>3, <1>4 DEF Inv, RepetitionInv, InRepetition, Running, Judged
<1>7. ResultsInv'
  BY <1>1 DEF Inv, ResultsInv, Sound, Deterministic
<1> QED BY <1>2, <1>5, <1>6, <1>7 DEF Inv

\* The record of a repetition: a passed one has taken every step, so it has
\* earned all the calls of its scenario.
LEMMA RecordIs ==
  ASSUME Inv, stage = "finalize"
  PROVE  LET i == (Len(records) \div repetitions) + 1
             r == [scenario |-> i, status |-> Status, assertions |-> Assertions,
                   error |-> repetition.error]
         IN  /\ r \in Record /\ r.scenario = i
             /\ r.status = "passed" <=> Passed
             /\ Passed => repetition.earned = Cardinality(Calls(i))
<1> DEFINE i == (Len(records) \div repetitions) + 1
           r == [scenario |-> i, status |-> Status, assertions |-> Assertions,
                 error |-> repetition.error]
<1>1. i \in DOMAIN Scenarios /\ Scenario = Scenarios[i]
  BY ScenarioIs DEF Inv, RecordsInv, InRepetition, Running
<1>2. /\ Status \in {"passed", "failed"} /\ (Status = "passed" <=> Passed)
  BY DEF Status
<1>3. Assertions \in [Scenarios[i].texts -> BOOLEAN]
  <2>1. \A c : (\A text \in DOMAIN c : c[text] \in BOOLEAN) =>
          [text \in Scenario.texts |-> text \in DOMAIN c /\ c[text]]
             \in [Scenario.texts -> BOOLEAN]
    OBVIOUS
  <2>2. repetition.checks \in Checks
    BY RepetitionFields DEF Inv, RepetitionInv
  <2>3. \A text \in DOMAIN repetition.checks : repetition.checks[text] \in BOOLEAN
    BY <2>2 DEF Checks
  <2> QED BY <1>1, <2>1, <2>3 DEF Assertions
<1>4. repetition.error \in {"none", "blocked", "failed"}
  BY RepetitionFields DEF Inv, RepetitionInv
<1>5. r \in Record /\ r.scenario = i /\ (r.status = "passed" <=> Passed)
  <2> HIDE DEF i
  <2> QED BY <1>1, <1>2, <1>3, <1>4 DEF Record
<1>6. Passed => repetition.earned = Cardinality(Calls(i))
  <2> SUFFICES ASSUME Passed PROVE repetition.earned = Cardinality(Calls(i))
    OBVIOUS
  <2>1. stage \in InRepetition /\ stage # "driver" /\ repetition.error = "none"
    BY DEF Passed, InRepetition, Running
  <2>2. repetition.done = Len(Scenario.driver) /\ repetition.earned = Cardinality(Done)
    BY <2>1 DEF Inv, RepetitionInv
  <2>3. Done = Calls(i)
    BY <2>1, <2>2, AllDoneIs
  <2> QED BY <2>2, <2>3
<1> HIDE DEF i, r
<1>7. /\ r \in Record /\ r.scenario = i /\ (r.status = "passed" <=> Passed)
      /\ Passed => repetition.earned = Cardinality(Calls(i))
  BY <1>5, <1>6
<1> QED BY <1>7 DEF i, r

LEMMA FinalizeInv ==
  ASSUME Inv, Finalize
  PROVE  Inv'
<1> DEFINE i == (Len(records) \div repetitions) + 1
           r == [scenario |-> i, status |-> Status, assertions |-> Assertions,
                 error |-> repetition.error]
<1>1. /\ stage = "finalize" /\ stage' = "make"
      /\ UNCHANGED <<gate, lane, repetitions, summary, baseline, report, ledger>>
      /\ records' = Append(records, r) /\ repetition' = Fresh
  BY DEF Finalize, Goes, resultVars
<1>2. /\ r \in Record /\ r.scenario = i
      /\ r.status = "passed" <=> Passed
      /\ Passed => repetition.earned = Cardinality(Calls(i))
  BY <1>1, RecordIs
<1> HIDE DEF r, i
<1>3. GateInv'
  BY <1>1 DEF Inv, GateInv, Running, Stages
<1>4. /\ records \in Seq(Record) /\ Len(records) < Total
      /\ IsFiniteSet(CallsOfPassed(records))
      /\ ledger = Cardinality(CallsOfPassed(records)) +
                    IF Passed THEN repetition.earned ELSE 0
  BY <1>1 DEF Inv, RecordsInv, InRepetition, Running
<1>5. /\ IsFiniteSet(CallsOfPassed(Append(records, r)))
      /\ Cardinality(CallsOfPassed(Append(records, r))) =
           Cardinality(CallsOfPassed(records)) +
             IF r.status = "passed" THEN Cardinality(Calls(r.scenario)) ELSE 0
  BY <1>2, <1>4, LedgerGrows
<1>6. ledger' = Cardinality(CallsOfPassed(records'))
  BY <1>1, <1>2, <1>4, <1>5
<1>7. Total' = Total /\ Total \in Nat
  BY <1>1, Numbers DEF Total, Inv
<1>8. RecordsInv'
  <2>1. records' \in Seq(Record) /\ Len(records') = Len(records) + 1
    BY <1>1, <1>2, <1>4
  <2>2. Len(records') <= Total'
    BY <1>4, <1>7, <2>1
  <2>3. stage' \notin InRepetition /\ stage' \in Running /\ stage' # "finalize"
    BY <1>1 DEF InRepetition, Running
  <2>4. IsFiniteSet(CallsOfPassed(records')) /\ Cardinality(CallsOfPassed(records')) \in Nat
    BY <1>1, <1>5, FS_CardinalityType
  <2> QED BY <1>6, <2>1, <2>2, <2>3, <2>4 DEF RecordsInv
<1>9. RepetitionInv'
  BY <1>1, FreshFields DEF RepetitionInv, InRepetition, Running, Judged
<1>10. ResultsInv'
  BY <1>1 DEF Inv, ResultsInv, Sound, Deterministic
<1> QED BY <1>3, <1>8, <1>9, <1>10 DEF Inv

-----------------------------------------------------------------------------
(* The summary of a lane.                                                   *)

\* Outside a repetition there is nothing of it; outside a corpus, no record.
Blank == records = <<>> /\ ledger = 0 /\ repetition = Fresh

LEMMA BlankInv ==
  ASSUME Inv, GateInv', Blank', stage' \notin InRepetition
  PROVE  RecordsInv' /\ RepetitionInv'
<1>1. Total' \in Nat /\ stage' # "finalize"
  <2>1. repetitions' \in Nat \ {0} /\ Len(Scenarios) \in Nat
    BY CorpusAssumption DEF GateInv
  <2> QED BY <2>1 DEF Total, InRepetition, Running
<1>2. /\ records' \in Seq(Record) /\ Len(records') = 0
      /\ CallsOfPassed(records') = {}
  BY NothingEarned DEF Blank
<1>3. RecordsInv'
  <2>1. /\ IsFiniteSet(CallsOfPassed(records')) /\ ledger' = 0
        /\ Cardinality(CallsOfPassed(records')) = 0
    BY <1>2, NothingEarned DEF Blank
  <2>2. /\ Len(records') <= Total' /\ records' = <<>>
    BY <1>1, <1>2 DEF Blank
  <2>3. CallsOfPassed(records)' = CallsOfPassed(records')
    BY DEF CallsOfPassed, Calls
  <2> QED BY <1>1, <1>2, <2>1, <2>2, <2>3 DEF RecordsInv
<1>4. RepetitionInv'
  BY FreshFields DEF RepetitionInv, Blank, InRepetition, Running, Judged
<1> QED BY <1>3, <1>4

LEMMA BlankIs ==
  ASSUME Inv, stage \notin Running
  PROVE  Blank
BY DEF Inv, RecordsInv, RepetitionInv, Blank, InRepetition

LEMMA EndsBlank ==
  ASSUME Ends
  PROVE  Blank' /\ lane' = "none" /\ repetitions' = 1
BY DEF Ends, Blank

\* A corpus of which every record is written has a sound summary.
LEMMA SummarySound ==
  ASSUME Inv, AllDone
  PROVE  Sound(Summary)
<1>1. stage = "make" /\ stage # "finalize"
  BY DEF AllDone
<1>2. /\ records \in Seq(Record) /\ IsFiniteSet(CallsOfPassed(records))
      /\ ledger = Cardinality(CallsOfPassed(records)) + 0
  BY <1>1 DEF Inv, RecordsInv
<1>3. ledger = Cardinality(CallsOfPassed(records))
  <2>1. Cardinality(CallsOfPassed(records)) \in Nat
    BY <1>2, FS_CardinalityType
  <2> QED BY <1>2, <2>1
<1>4. /\ Summary.records = records /\ Summary.ledger = ledger
      /\ Summary.deterministic = Deterministic(records)
      /\ Summary.status = IF Statuses(records) = {"passed"} /\ Deterministic(records)
                          THEN "passed" ELSE "failed"
  BY DEF Summary
<1> QED BY <1>2, <1>3, <1>4 DEF Sound

LEMMA WritesSummaryInv ==
  ASSUME Inv, WritesSummary
  PROVE  Inv'
<1>1. /\ summary' = Partial
      /\ UNCHANGED <<gate, lane, stage, repetitions, records, ledger, repetition,
                     baseline, report>>
  BY DEF WritesSummary, corpusVars
<1>2. GateInv'
  BY <1>1 DEF Inv, GateInv
<1>3. RecordsInv' /\ RepetitionInv'
  BY <1>1 DEF Inv, RecordsInv, RepetitionInv, Total, CallsOfPassed, Calls, Passed,
              Scenario, Done, FirstLog
<1>4. ResultsInv'
  BY <1>1 DEF Inv, ResultsInv, Sound, Deterministic
<1> QED BY <1>2, <1>3, <1>4 DEF Inv

\* The end of a corpus, whatever it leaves.
LEMMA EndsInv ==
  ASSUME Inv, Ends, gate' = gate, report' = report,
         NEW to \in {"idle", "differential", "compare"}, stage' = to, ResultsInv'
  PROVE  Inv'
<1>1. Blank' /\ lane' = "none" /\ repetitions' = 1
  BY EndsBlank
<1>2. GateInv'
  BY <1>1 DEF Inv, GateInv, Stages, Running, Lanes
<1>3. RecordsInv' /\ RepetitionInv'
  BY <1>1, <1>2, BlankInv DEF InRepetition, Running
<1> QED BY <1>2, <1>3 DEF Inv

LEMMA NativeReturnsInv ==
  ASSUME Inv, NativeReturns
  PROVE  Inv'
<1>1. /\ summary' = Summary /\ stage' = "differential" /\ Ends /\ gate' = gate
      /\ UNCHANGED <<baseline, report>> /\ Sound(Summary)
  BY SummarySound DEF NativeReturns
<1>2. ResultsInv'
  BY <1>1 DEF Inv, ResultsInv, Sound, Deterministic
<1> QED BY <1>1, <1>2, EndsInv

LEMMA MockReturnsInv ==
  ASSUME Inv, MockReturns
  PROVE  Inv'
<1>1. /\ baseline' = Summary /\ stage' = "compare" /\ Ends /\ gate' = gate
      /\ UNCHANGED <<summary, report>> /\ Sound(Summary)
  BY SummarySound DEF MockReturns
<1>2. ResultsInv'
  BY <1>1 DEF Inv, ResultsInv, Sound, Deterministic
<1> QED BY <1>1, <1>2, EndsInv

LEMMA NativeDiesInv ==
  ASSUME Inv, NativeDies
  PROVE  Inv'
<1>1. /\ stage' = "differential" /\ Ends /\ gate' = gate
      /\ UNCHANGED <<summary, baseline, report>>
  BY DEF NativeDies, resultVars
<1>2. ResultsInv'
  BY <1>1 DEF Inv, ResultsInv, Sound, Deterministic
<1> QED BY <1>1, <1>2, EndsInv

LEMMA DiesInv ==
  ASSUME Inv, Dies
  PROVE  Inv'
<1>1. /\ stage' = "idle" /\ Ends /\ baseline' = Absent /\ gate' = gate
      /\ UNCHANGED <<summary, report>>
  BY DEF Dies
<1>2. ResultsInv'
  BY <1>1 DEF Inv, ResultsInv, Sound, Deterministic
<1> QED BY <1>1, <1>2, EndsInv

-----------------------------------------------------------------------------
(* The gate.                                                                *)

\* What happens between the corpora finds and leaves nothing of a repetition.
LEMMA BetweenInv ==
  ASSUME Inv, stage \notin Running, stage' \notin InRepetition, GateInv', ResultsInv',
         UNCHANGED corpusVars
  PROVE  Inv'
<1>1. Blank'
  BY BlankIs DEF Blank, corpusVars
<1> QED BY <1>1, BlankInv DEF Inv

LEMMA StartGateInv ==
  ASSUME Inv, StartGate
  PROVE  Inv'
<1>1. /\ stage = "idle" /\ stage' = "native" /\ gate < MaxGates /\ gate' = gate + 1
      /\ UNCHANGED <<lane, repetitions, summary, baseline, report>>
      /\ UNCHANGED corpusVars
  BY DEF StartGate, resultVars
<1>2. GateInv'
  <2>1. gate + 1 \in 0..MaxGates
    BY <1>1, CorpusAssumption DEF Inv, GateInv
  <2> QED BY <1>1, <2>1 DEF Inv, GateInv, Stages, Running
<1>3. ResultsInv'
  BY <1>1 DEF Inv, ResultsInv, Sound, Deterministic
<1> QED BY <1>1, <1>2, <1>3, BetweenInv DEF InRepetition, Running

LEMMA StartsInv ==
  ASSUME Inv, NEW l \in Lanes, NEW at \in {"native", "differential"}, Starts(l, at)
  PROVE  Inv'
<1>1. /\ stage = at /\ stage' = "make" /\ lane' = l /\ repetitions' \in Requested
      /\ UNCHANGED <<gate, summary, baseline, report>> /\ UNCHANGED corpusVars
  BY DEF Starts, resultVars
<1>2. GateInv'
  BY <1>1 DEF Inv, GateInv, Stages, Running, Lanes
<1>3. ResultsInv'
  BY <1>1 DEF Inv, ResultsInv, Sound, Deterministic
<1> QED BY <1>1, <1>2, <1>3, BetweenInv DEF InRepetition, Running

LEMMA NativeBlockedInv ==
  ASSUME Inv, NativeBlocked
  PROVE  Inv'
<1>1. /\ stage = "native" /\ stage' = "differential"
      /\ UNCHANGED <<gate, lane, repetitions, summary, baseline, report>>
      /\ UNCHANGED corpusVars
  BY DEF NativeBlocked, Goes, resultVars
<1>2. GateInv'
  BY <1>1 DEF Inv, GateInv, Stages, Running
<1>3. ResultsInv'
  BY <1>1 DEF Inv, ResultsInv, Sound, Deterministic
<1> QED BY <1>1, <1>2, <1>3, BetweenInv DEF InRepetition, Running

LEMMA DifferentialBlockedInv ==
  ASSUME Inv, DifferentialBlocked
  PROVE  Inv'
<1>1. /\ stage = "differential" /\ stage' = "idle" /\ report' = "blocked"
      /\ UNCHANGED <<gate, lane, repetitions, summary, baseline>>
      /\ UNCHANGED corpusVars
  BY DEF DifferentialBlocked
<1>2. GateInv'
  BY <1>1 DEF Inv, GateInv, Stages, Running
<1>3. ResultsInv'
  BY <1>1 DEF Inv, ResultsInv, Sound, Deterministic
<1> QED BY <1>1, <1>2, <1>3, BetweenInv DEF InRepetition, Running

LEMMA CompareInv ==
  ASSUME Inv, Compare
  PROVE  Inv'
<1>1. /\ stage = "compare" /\ stage' = "idle" /\ baseline' = Absent
      /\ report' \in {report, "equivalent", "different"}
      /\ UNCHANGED <<gate, lane, repetitions, summary>> /\ UNCHANGED corpusVars
  BY DEF Compare
<1>2. GateInv'
  BY <1>1 DEF Inv, GateInv, Stages, Running
<1>3. ResultsInv'
  BY <1>1 DEF Inv, ResultsInv, Sound, Deterministic
<1> QED BY <1>1, <1>2, <1>3, BetweenInv DEF InRepetition, Running

-----------------------------------------------------------------------------
(* The invariant is inductive.                                              *)

LEMMA StutterInv ==
  ASSUME Inv, UNCHANGED vars
  PROVE  Inv'
<1>1. UNCHANGED <<gate, lane, stage, repetitions, records, ledger, repetition,
                  summary, baseline, report>>
  BY DEF vars
<1>2. GateInv'
  BY <1>1 DEF Inv, GateInv
<1>3. RecordsInv' /\ RepetitionInv'
  BY <1>1 DEF Inv, RecordsInv, RepetitionInv, Total, CallsOfPassed, Calls, Passed,
              Scenario, Done, FirstLog
<1>4. ResultsInv'
  BY <1>1 DEF Inv, ResultsInv, Sound, Deterministic
<1> QED BY <1>2, <1>3, <1>4 DEF Inv

LEMMA NextInv == Inv /\ [Next]_vars => Inv'
<1> SUFFICES ASSUME Inv, [Next]_vars PROVE Inv'
  OBVIOUS
<1>1. CASE StartGate
  BY <1>1, StartGateInv
<1>2. CASE NativeCorpus
  BY <1>2, StartsInv DEF NativeCorpus, Lanes
<1>3. CASE NativeBlocked
  BY <1>3, NativeBlockedInv
<1>4. CASE NativeDies
  BY <1>4, NativeDiesInv
<1>5. CASE Repetition
  <2>1. CASE MakeBackend
    BY <2>1, MakeBackendInv
  <2>2. CASE BackendRefused
    BY <2>2, BackendRefusedInv
  <2>3. CASE CallReturns
    BY <2>3, CallReturnsInv
  <2>4. CASE DriverFlushes
    BY <2>4, DriverFlushesInv
  <2>5. CASE Resumes
    BY <2>5, ResumesInv
  <2>6. CASE DriverRaises
    BY <2>6, DriverRaisesInv
  <2>7. CASE DriverReturns
    BY <2>7, DriverReturnsInv
  <2>8. CASE CloseAll
    BY <2>8, CloseAllInv
  <2>9. CASE FlushTraces
    BY <2>9, FlushTracesInv
  <2>10. CASE MergeLedger
    BY <2>10, MergeLedgerInv
  <2>11. CASE Finalize
    BY <2>11, FinalizeInv
  <2> QED BY <1>5, <2>1, <2>2, <2>3, <2>4, <2>5, <2>6, <2>7, <2>8, <2>9, <2>10, <2>11
          DEF Repetition
<1>6. CASE WritesSummary
  BY <1>6, WritesSummaryInv
<1>7. CASE NativeReturns
  BY <1>7, NativeReturnsInv
<1>8. CASE MockReturns
  BY <1>8, MockReturnsInv
<1>9. CASE MockCorpus
  BY <1>9, StartsInv DEF MockCorpus, Lanes
<1>10. CASE DifferentialBlocked
  BY <1>10, DifferentialBlockedInv
<1>11. CASE Compare
  BY <1>11, CompareInv
<1>12. CASE Dies
  BY <1>12, DiesInv
<1>13. CASE UNCHANGED vars
  BY <1>13, StutterInv
<1> QED BY <1>1, <1>2, <1>3, <1>4, <1>5, <1>6, <1>7, <1>8, <1>9, <1>10, <1>11,
           <1>12, <1>13 DEF Next

\* In every reachable state: what is under way is accounted for, and whatever
\* a lane has left behind is sound (corpus.py:338-464).
THEOREM InvHolds == Spec => []Inv
<1>1. Init => Inv
  BY InitInv
<1>2. Inv /\ [Next]_vars => Inv'
  BY NextInv
<1> QED BY <1>1, <1>2, PTL DEF Spec

-----------------------------------------------------------------------------
(* The properties.                                                          *)

\* Every variable has its type, and every record the assertions of its scenario
\* (corpus.py:338-464).
THEOREM TypeCorrect == Spec => []TypeOK
<1>1. Inv => TypeOK
  <2> SUFFICES ASSUME Inv PROVE TypeOK
    OBVIOUS
  <2>1. /\ gate \in 0..MaxGates /\ lane \in Lanes \union {"none"} /\ stage \in Stages
        /\ repetitions \in Requested \union {1}
        /\ report \in {Absent, "blocked", "equivalent", "different"}
    BY DEF Inv, GateInv
  <2>2. /\ records \in Seq(Record) /\ Len(records) <= Total
        /\ IsFiniteSet(CallsOfPassed(records))
        /\ ledger = Cardinality(CallsOfPassed(records)) +
                      IF stage = "finalize" /\ Passed THEN repetition.earned ELSE 0
    BY DEF Inv, RecordsInv
  <2>3. /\ repetition.logs \in Seq(Nat) /\ repetition.earned \in Nat
        /\ repetition.error \in {"none", "blocked", "failed"}
        /\ repetition.traces \in Nat \union {Absent}
    BY RepetitionFields DEF Inv, RepetitionInv
  <2>4. ledger \in Nat
    <3>1. Cardinality(CallsOfPassed(records)) \in Nat
      BY <2>2, FS_CardinalityType
    <3> QED BY <2>2, <2>3, <3>1
  <2>5. \A i \in DOMAIN records :
          /\ records[i].status \in {"passed", "failed"}
          /\ DOMAIN records[i].assertions = Scenarios[records[i].scenario].texts
    <3> TAKE i \in DOMAIN records
    <3>1. records[i] \in Record
      BY <2>2
    <3>2. /\ records[i].status \in {"passed", "failed"}
          /\ records[i].assertions \in [Scenarios[records[i].scenario].texts -> BOOLEAN]
      BY <3>1, RecordFields
    <3> QED BY <3>2
  <2> QED BY <2>1, <2>2, <2>3, <2>4, <2>5 DEF TypeOK, Stages
<1> QED BY <1>1, InvHolds, PTL

\* The evidence of a judged repetition has the whole log of its first backend,
\* whenever the driver flushed it and whatever it died of; without that backend
\* there is no evidence of it and no call to count (corpus.py:371-409).
THEOREM TracesAreWhole == Spec => []TracesWhole
<1>1. Inv => TracesWhole
  BY DEF Inv, RepetitionInv, TracesWhole, Judged
<1> QED BY <1>1, InvHolds, PTL DEF TracesWhole

\* The ledger of a summary is the calls of its passed repetitions
\* (corpus.py:397-409, 446-464).
THEOREM LedgerEarned == Spec => []LedgerIsEarned
<1>1. Inv => LedgerIsEarned
  <2> SUFFICES ASSUME Inv, NEW s \in {summary, baseline} \ {Absent, Partial}
               PROVE  s.ledger = Cardinality(CallsOfPassed(s.records))
    BY DEF LedgerIsEarned
  <2>1. Sound(s)
    BY DEF Inv, ResultsInv
  <2> QED BY <2>1 DEF Sound
<1> QED BY <1>1, InvHolds, PTL

\* A set with one element has no other.
LEMMA OneOnly ==
  ASSUME NEW S, IsFiniteSet(S), Cardinality(S) = 1, NEW x \in S, NEW y \in S
  PROVE  x = y
<1>1. PICK z : S = {z}
  BY FS_Singleton
<1> QED BY <1>1

\* What a function makes of a finite set is finite.
LEMMA ImageFinite ==
  ASSUME NEW S, IsFiniteSet(S), NEW f, DOMAIN f = S, f = [x \in S |-> f[x]]
  PROVE  IsFiniteSet({f[x] : x \in S})
<1> DEFINE T == {f[x] : x \in S}
<1>1. f \in Surjection(S, T)
  BY DEF Surjection
<1> QED BY <1>1, FS_Surjection

\* Some records, and what is said of them, are finitely many.
LEMMA OfFinite ==
  ASSUME NEW rs \in Seq(Record), NEW i
  PROVE  IsFiniteSet(Of(rs, i))
<1> DEFINE all == {rs[k] : k \in 1..Len(rs)}
<1>1. Len(rs) \in Nat /\ DOMAIN rs = 1..Len(rs)
  OBVIOUS
<1>2. IsFiniteSet(1..Len(rs))
  BY <1>1, FS_Interval
<1>3. IsFiniteSet(all)
  <2> DEFINE f == [k \in 1..Len(rs) |-> rs[k]]
  <2>1. IsFiniteSet({f[k] : k \in 1..Len(rs)})
    <3>1. DOMAIN f = 1..Len(rs) /\ f = [k \in 1..Len(rs) |-> f[k]]
      OBVIOUS
    <3> HIDE DEF f
    <3> QED BY <1>2, <3>1, ImageFinite
  <2>2. {f[k] : k \in 1..Len(rs)} = all
    OBVIOUS
  <2> QED BY <2>1, <2>2
<1>4. Of(rs, i) \subseteq all
  BY <1>1 DEF Of
<1> QED BY <1>3, <1>4, FS_Subset

LEMMA SignaturesFinite ==
  ASSUME NEW rs \in Seq(Record), NEW i
  PROVE  IsFiniteSet(Signatures(rs, i))
<1>1. IsFiniteSet(Of(rs, i))
  BY OfFinite
<1> DEFINE S == Of(rs, i)
           f == [r \in S |-> <<r.status, r.assertions, r.error>>]
<1> HIDE DEF S
<1>2. DOMAIN f = S /\ f = [r \in S |-> f[r]]
  OBVIOUS
<1>3. {f[r] : r \in S} = {<<r.status, r.assertions, r.error>> : r \in S}
  OBVIOUS
<1> HIDE DEF f
<1>4. IsFiniteSet({f[r] : r \in S})
  <2>1. IsFiniteSet(S)
    BY <1>1 DEF S
  <2> QED BY <1>2, <2>1, ImageFinite
<1> QED BY <1>3, <1>4 DEF S, Signatures

LEMMA OutcomesFinite ==
  ASSUME NEW s, s.records \in Seq(Record), NEW i, NEW text
  PROVE  IsFiniteSet(Outcomes(s, i, text))
<1>1. IsFiniteSet(Of(s.records, i))
  BY OfFinite
<1> DEFINE S == Of(s.records, i)
           f == [r \in S |-> r.assertions[text]]
<1> HIDE DEF S
<1>2. DOMAIN f = S /\ f = [r \in S |-> f[r]]
  OBVIOUS
<1>3. {f[r] : r \in S} = {r.assertions[text] : r \in S}
  OBVIOUS
<1> HIDE DEF f
<1>4. IsFiniteSet({f[r] : r \in S})
  <2>1. IsFiniteSet(S)
    BY <1>1 DEF S
  <2> QED BY <1>2, <2>1, ImageFinite
<1> QED BY <1>3, <1>4 DEF S, Outcomes

\* In a deterministic lane the repetitions of a scenario are one.
LEMMA OneSignature ==
  ASSUME NEW rs \in Seq(Record), Deterministic(rs),
         NEW i \in DOMAIN rs, NEW k \in DOMAIN rs, rs[i].scenario = rs[k].scenario
  PROVE  /\ rs[i].status = rs[k].status /\ rs[i].assertions = rs[k].assertions
         /\ rs[i].error = rs[k].error
<1> DEFINE n == rs[i].scenario
           sig(r) == <<r.status, r.assertions, r.error>>
<1>1. n \in DOMAIN Scenarios
  <2>1. rs[i] \in Record
    OBVIOUS
  <2> QED BY <2>1, RecordFields
<1>2. Cardinality(Signatures(rs, n)) = 1 /\ IsFiniteSet(Signatures(rs, n))
  BY <1>1, SignaturesFinite DEF Deterministic
<1>3. sig(rs[i]) \in Signatures(rs, n) /\ sig(rs[k]) \in Signatures(rs, n)
  BY DEF Signatures, Of
<1>4. sig(rs[i]) = sig(rs[k])
  <2> HIDE DEF sig, n
  <2> QED BY <1>2, <1>3, OneOnly
<1> QED BY <1>4


\* Lanes that are equivalent are sound, and of the same scenarios.
LEMMA Alike ==
  ASSUME NEW b, NEW c, Sound(b), Sound(c), Equivalent(b, c),
         NEW i \in DOMAIN b.records, NEW k \in DOMAIN c.records,
         b.records[i].scenario = c.records[k].scenario
  PROVE  /\ b.records[i].status = c.records[k].status
         /\ b.records[i].assertions = c.records[k].assertions
<1> DEFINE r == b.records[i]
           q == c.records[k]
           n == r.scenario
<1>1. /\ b.records \in Seq(Record) /\ c.records \in Seq(Record)
      /\ Deterministic(b.records) /\ Deterministic(c.records)
  BY DEF Sound, Equivalent
<1>2. /\ r \in Record /\ q \in Record
      /\ n \in DOMAIN Scenarios /\ q.scenario = n
      /\ r.assertions \in [Scenarios[n].texts -> BOOLEAN]
      /\ q.assertions \in [Scenarios[n].texts -> BOOLEAN]
  <2>1. r \in Record /\ q \in Record
    BY <1>1
  <2> QED BY <2>1, RecordFields
<1>3. r \in Of(b.records, n) /\ q \in Of(c.records, n)
  BY <1>2 DEF Of
<1>4. r.status = q.status
  <2>1. r.status \in {x.status : x \in Of(c.records, n)}
    BY <1>2, <1>3 DEF Equivalent, SameStatuses
  <2>2. PICK x \in Of(c.records, n) : x.status = r.status
    BY <2>1
  <2>3. PICK j \in DOMAIN c.records : x = c.records[j] /\ x.scenario = n
    BY <2>2 DEF Of
  <2> QED BY <1>1, <1>2, <2>2, <2>3, OneSignature
<1>5. ASSUME NEW text \in Scenarios[n].texts
      PROVE  r.assertions[text] = q.assertions[text]
  <2>1. /\ Outcomes(b, n, text) = Outcomes(c, n, text)
        /\ Cardinality(Outcomes(b, n, text)) = 1
    BY <1>2 DEF Equivalent, Agree
  <2>2. /\ r.assertions[text] \in Outcomes(b, n, text)
        /\ q.assertions[text] \in Outcomes(b, n, text)
    BY <1>3, <2>1 DEF Outcomes
  <2>3. IsFiniteSet(Outcomes(b, n, text))
    BY <1>1, OutcomesFinite
  <2> HIDE DEF r, q, n
  <2> QED BY <2>1, <2>2, <2>3, OneOnly
<1> HIDE DEF r, q, n
<1>6. r.assertions = q.assertions
  BY <1>2, <1>5
<1> QED BY <1>4, <1>6 DEF r, q

\* A status of one lane is a status of the other.
LEMMA StatusOnBoth ==
  ASSUME NEW b, NEW c, b.records \in Seq(Record),
         \A n \in DOMAIN Scenarios : SameStatuses(b, c, n),
         NEW i \in DOMAIN b.records
  PROVE  \E k \in DOMAIN c.records : c.records[k].status = b.records[i].status
<1> DEFINE r == b.records[i]
           n == r.scenario
<1>1. n \in DOMAIN Scenarios /\ r \in Of(b.records, n)
  <2>1. r \in Record
    OBVIOUS
  <2> QED BY <2>1, RecordFields DEF Of
<1>2. r.status \in {x.status : x \in Of(c.records, n)}
  BY <1>1 DEF SameStatuses
<1> QED BY <1>2 DEF Of

LEMMA SameVerdict ==
  ASSUME NEW b, NEW c, b.records \in Seq(Record), c.records \in Seq(Record),
         Equivalent(b, c)
  PROVE  Statuses(b.records) = Statuses(c.records)
<1>1. \A n \in DOMAIN Scenarios : SameStatuses(b, c, n)
  BY DEF Equivalent
<1>2. \A n \in DOMAIN Scenarios : SameStatuses(c, b, n)
  BY <1>1 DEF SameStatuses
<1>3. \A i \in DOMAIN b.records : \E k \in DOMAIN c.records :
        c.records[k].status = b.records[i].status
  <2> TAKE i \in DOMAIN b.records
  <2> QED BY <1>1, StatusOnBoth
<1>4. \A k \in DOMAIN c.records : \E i \in DOMAIN b.records :
        b.records[i].status = c.records[k].status
  <2> TAKE k \in DOMAIN c.records
  <2> QED BY <1>2, StatusOnBoth
<1>5. ASSUME NEW x \in Statuses(b.records) PROVE x \in Statuses(c.records)
  BY <1>3 DEF Statuses
<1>6. ASSUME NEW x \in Statuses(c.records) PROVE x \in Statuses(b.records)
  BY <1>4 DEF Statuses
<1> QED BY <1>5, <1>6

\* Lanes that are found equivalent have one verdict, each ended a scenario in
\* one way, and both with the same outcomes (corpus_compare.py, and
\* scripts/corpus_differential.py).
THEOREM EquivalentAlike == Spec => EquivalentMeansAlike
<1> DEFINE Step ==
      Compare /\ report' = "equivalent" /\ summary \notin {Absent, Partial} =>
        /\ summary.status = baseline.status
        /\ \A s \in {summary, baseline} : \A i, k \in DOMAIN s.records :
             s.records[i].scenario = s.records[k].scenario =>
               s.records[i].error = s.records[k].error
        /\ \A i \in DOMAIN summary.records, k \in DOMAIN baseline.records :
             LET r == summary.records[i]
                 q == baseline.records[k]
             IN r.scenario = q.scenario =>
                  r.status = q.status /\ r.assertions = q.assertions
<1>1. ASSUME Inv, Compare, report' = "equivalent", summary \notin {Absent, Partial}
      PROVE  /\ summary.status = baseline.status
             /\ \A s \in {summary, baseline} : \A i, k \in DOMAIN s.records :
                  s.records[i].scenario = s.records[k].scenario =>
                    s.records[i].error = s.records[k].error
             /\ \A i \in DOMAIN summary.records, k \in DOMAIN baseline.records :
                  LET r == summary.records[i]
                      q == baseline.records[k]
                  IN r.scenario = q.scenario =>
                       r.status = q.status /\ r.assertions = q.assertions
  <2>1. PICK b, c : b = baseline /\ c = summary
    OBVIOUS
  <2>2. Sound(b) /\ Sound(c) /\ Equivalent(b, c)
    <3>1. Sound(baseline) /\ Sound(summary)
      BY <1>1 DEF Inv, ResultsInv, Compare
    <3>2. Equivalent(baseline, summary)
      BY <1>1 DEF Compare
    <3> QED BY <2>1, <3>1, <3>2
  <2>3. \A i \in DOMAIN b.records, k \in DOMAIN c.records :
          b.records[i].scenario = c.records[k].scenario =>
            /\ b.records[i].status = c.records[k].status
            /\ b.records[i].assertions = c.records[k].assertions
    BY <2>2, Alike
  <2>4. /\ b.records \in Seq(Record) /\ c.records \in Seq(Record)
        /\ b.deterministic /\ c.deterministic
        /\ Deterministic(b.records) /\ Deterministic(c.records)
    BY <2>2 DEF Sound, Equivalent
  <2>5. \A s \in {c, b} : \A i, k \in DOMAIN s.records :
          s.records[i].scenario = s.records[k].scenario =>
            s.records[i].error = s.records[k].error
    BY <2>4, OneSignature
  <2>6. Statuses(b.records) = Statuses(c.records)
    BY <2>2, <2>4, SameVerdict
  <2>7. c.status = b.status
    BY <2>2, <2>4, <2>6 DEF Sound
  <2> QED BY <2>1, <2>3, <2>5, <2>7
<1>2. Inv /\ [Next]_vars => [Step]_vars
  BY <1>1
<1>3. Spec => [][Step]_vars
  BY <1>2, InvHolds, PTL DEF Spec
<1> QED BY <1>3 DEF EquivalentMeansAlike

=============================================================================
