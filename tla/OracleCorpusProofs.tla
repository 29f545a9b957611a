-------------------------- MODULE OracleCorpusProofs --------------------------
(***************************************************************************)
(* Proofs about OracleCorpus, for every value of its constants.            *)
(***************************************************************************)
EXTENDS OracleCorpus, SequenceTheorems, TLAPS

-----------------------------------------------------------------------------
(* The inductive invariant.                                                 *)

\* What VerdictsHold says of one scenario of an equivalent report.
Stands(i) ==
  /\ i \in selected /\ native[i].invocation = invocation
  /\ native[i].code = oracle[i].code /\ native[i].steps = oracle[i].steps
  /\ native[i].code = Scenarios[i].expected

\* Until it ends, an invocation has not touched what its classes stand on.
EntriesHold ==
  stage # "idle" =>
    \A i \in DOMAIN entries :
      /\ entries[i] = "equivalent" => Stands(i)
      /\ entries[i] = "inapplicable" => ~Scenarios[i].applicable

\* The scenario under way has run natively in this invocation.
UnderWay ==
  stage \in {"oracle", "compare"} =>
    /\ Current \in Indices /\ Scenarios[Current].applicable
    /\ Current \in selected /\ native[Current].invocation = invocation

\* While an invocation is under way, the report is of an earlier one.
ReportIsOlder ==
  report # Absent =>
    /\ report.invocation \in 0..invocation
    /\ stage # "idle" => report.invocation < invocation

IInv == TypeOK /\ EntriesHold /\ UnderWay /\ ReportIsOlder /\ VerdictsHold

-----------------------------------------------------------------------------
LEMMA ScenarioCount ==
  Len(Scenarios) \in Nat /\ Indices = 1..Len(Scenarios)
BY OracleAssumption, LenProperties DEF Indices

\* Appending a class leaves the classes before it alone.
LEMMA Appended ==
  ASSUME NEW es \in Seq(Classes), NEW c \in Classes
  PROVE  /\ Append(es, c) \in Seq(Classes)
         /\ Len(es) \in Nat /\ DOMAIN es = 1..Len(es)
         /\ Len(Append(es, c)) = Len(es) + 1
         /\ DOMAIN Append(es, c) = 1..(Len(es) + 1)
         /\ \A i \in DOMAIN es : Append(es, c)[i] = es[i]
         /\ Append(es, c)[Len(es) + 1] = c
BY AppendProperties, LenProperties

\* A scenario may be classified as what its files say.
LEMMA ClassifyPreserves ==
  ASSUME IInv, NEW c \in Classes, stage # "idle", Current \in Indices,
         Classify(c), UNCHANGED results,
         c = "equivalent" => Stands(Current),
         c = "inapplicable" => ~Scenarios[Current].applicable
  PROVE  IInv'
<1> USE DEF IInv, TypeOK
<1>1. /\ entries' = Append(entries, c) /\ stage' = "scenario"
      /\ UNCHANGED <<invocation, selected, report, native, oracle>>
  BY DEF Classify, results
<1>2. TypeOK'
  BY <1>1, Appended, ScenarioCount DEF Current
<1>3. EntriesHold'
  <2> SUFFICES ASSUME NEW i \in DOMAIN entries'
               PROVE  /\ entries'[i] = "equivalent" => Stands(i)'
                      /\ entries'[i] = "inapplicable" => ~Scenarios[i].applicable
    BY DEF EntriesHold
  <2>1. Stands(i)' = Stands(i)
    BY <1>1 DEF Stands
  <2>2. CASE i \in DOMAIN entries
    BY <1>1, <2>1, <2>2, Appended DEF EntriesHold
  <2>3. CASE i = Current
    BY <1>1, <2>1, <2>3, Appended DEF Current
  <2> QED BY <1>1, <2>2, <2>3, Appended DEF Current
<1>4. UnderWay'
  BY <1>1 DEF UnderWay
<1>5. ReportIsOlder'
  BY <1>1 DEF ReportIsOlder
<1>6. VerdictsHold'
  BY <1>1 DEF VerdictsHold
<1> QED BY <1>2, <1>3, <1>4, <1>5, <1>6

\* Of equivalent scenarios and inapplicable ones only, the report says so; and
\* it says neither equivalent nor blocked of one that differs.
LEMMA OverallHides ==
  /\ Overall \in {"equivalent", "different", "blocked"}
  /\ Overall = "equivalent" =>
       \A i \in DOMAIN entries : entries[i] \notin {"different", "invalid", "blocked"}
  /\ Overall = "blocked" =>
       \A i \in DOMAIN entries : entries[i] \notin {"different", "invalid"}
BY DEF Overall, Listed

-----------------------------------------------------------------------------
LEMMA InitHolds ==
  Init => IInv
<1> SUFFICES ASSUME Init PROVE IInv
  OBVIOUS
<1> USE DEF Init
<1>1. TypeOK
  BY OracleAssumption, ScenarioCount DEF TypeOK
<1>2. EntriesHold /\ UnderWay /\ ReportIsOlder /\ VerdictsHold
  BY DEF EntriesHold, UnderWay, ReportIsOlder, VerdictsHold
<1> QED BY <1>1, <1>2 DEF IInv

LEMMA StartPreserves ==
  IInv /\ Start => IInv'
<1> SUFFICES ASSUME IInv, Start PROVE IInv'
  OBVIOUS
<1>1. /\ stage = "idle" /\ invocation < MaxInvocations
      /\ invocation' = invocation + 1 /\ stage' = "scenario"
      /\ selected' \in SUBSET Indices /\ entries' = <<>>
      /\ UNCHANGED <<native, oracle, report>>
  BY DEF Start, results
<1>2. TypeOK'
  BY <1>1, OracleAssumption, ScenarioCount DEF IInv, TypeOK
<1>3. EntriesHold' /\ UnderWay'
  BY <1>1 DEF EntriesHold, UnderWay
<1>4. ReportIsOlder'
  BY <1>1, OracleAssumption DEF IInv, TypeOK, ReportIsOlder
<1>5. VerdictsHold'
  BY <1>1 DEF VerdictsHold
<1> QED BY <1>2, <1>3, <1>4, <1>5 DEF IInv

LEMMA NoAdapterPreserves ==
  IInv /\ NoAdapter => IInv'
<1> SUFFICES ASSUME IInv, NoAdapter PROVE IInv'
  OBVIOUS
<1>1. /\ stage = "idle" /\ stage' = "idle" /\ invocation < MaxInvocations
      /\ invocation' = invocation + 1
      /\ report' = [status |-> "blocked", entries |-> <<>>, invocation |-> invocation']
      /\ UNCHANGED <<selected, entries, native, oracle>>
  BY DEF NoAdapter, results
<1>2. TypeOK'
  BY <1>1, OracleAssumption, ScenarioCount DEF IInv, TypeOK
<1>3. EntriesHold' /\ UnderWay'
  BY <1>1 DEF EntriesHold, UnderWay
<1>4. ReportIsOlder'
  BY <1>1, OracleAssumption DEF IInv, TypeOK, ReportIsOlder
<1>5. VerdictsHold'
  BY <1>1 DEF VerdictsHold
<1> QED BY <1>2, <1>3, <1>4, <1>5 DEF IInv

\* Only the scenario under way gets new files, and it has no class yet.
LEMMA NativeRunsPreserves ==
  IInv /\ NativeRuns => IInv'
<1> SUFFICES ASSUME IInv, NativeRuns PROVE IInv'
  OBVIOUS
<1> USE DEF IInv, TypeOK
<1>1. PICK r \in Writes : native' = [native EXCEPT ![Current] = r]
  BY DEF NativeRuns
<1>2. /\ stage = "scenario" /\ stage' = "oracle"
      /\ Current \in Indices /\ Scenarios[Current].applicable /\ Current \in selected
      /\ UNCHANGED <<invocation, selected, entries, oracle, report>>
  BY DEF NativeRuns, At
<1>3. r \in Result /\ r.invocation = invocation
  BY DEF Writes
<1>4. TypeOK'
  BY <1>1, <1>2, <1>3
<1>5. EntriesHold'
  <2> SUFFICES ASSUME NEW i \in DOMAIN entries
               PROVE  Stands(i)' = Stands(i)
    BY <1>2 DEF EntriesHold
  <2>1. i # Current
    BY LenProperties DEF Current
  <2> QED BY <1>1, <1>2, <2>1, LenProperties, ScenarioCount DEF Stands
<1>6. UnderWay'
  BY <1>1, <1>2, <1>3 DEF UnderWay, Current
<1>7. ReportIsOlder' /\ VerdictsHold'
  BY <1>2 DEF ReportIsOlder, VerdictsHold
<1> QED BY <1>4, <1>5, <1>6, <1>7

LEMMA OracleRunsPreserves ==
  IInv /\ OracleRuns => IInv'
<1> SUFFICES ASSUME IInv, OracleRuns PROVE IInv'
  OBVIOUS
<1> USE DEF IInv, TypeOK
<1>1. PICK r \in Writes \union {Partial, oracle[Current]} :
        oracle' = [oracle EXCEPT ![Current] = r]
  BY DEF OracleRuns
<1>2. /\ stage = "oracle" /\ stage' = "compare" /\ Current \in Indices
      /\ UNCHANGED <<invocation, selected, entries, native, report>>
  BY DEF OracleRuns, At
<1>3. r \in Result \union {Absent, Partial}
  BY <1>2 DEF Writes
<1>4. TypeOK'
  BY <1>1, <1>2, <1>3
<1>5. EntriesHold'
  <2> SUFFICES ASSUME NEW i \in DOMAIN entries
               PROVE  Stands(i)' = Stands(i)
    BY <1>2 DEF EntriesHold
  <2>1. i # Current
    BY LenProperties DEF Current
  <2> QED BY <1>1, <1>2, <2>1, LenProperties, ScenarioCount DEF Stands
<1>6. UnderWay'
  BY <1>2 DEF UnderWay, Current
<1>7. ReportIsOlder' /\ VerdictsHold'
  BY <1>2 DEF ReportIsOlder, VerdictsHold
<1> QED BY <1>4, <1>5, <1>6, <1>7

LEMMA ConcludePreserves ==
  IInv /\ Conclude => IInv'
<1> SUFFICES ASSUME IInv, Conclude PROVE IInv'
  OBVIOUS
<1> USE DEF IInv
<1>1. /\ stage = "scenario" /\ stage' = "idle" /\ Current \notin Indices
      /\ report' = [status |-> Overall, entries |-> entries, invocation |-> invocation]
      /\ UNCHANGED <<invocation, selected, entries, native, oracle>>
  BY DEF Conclude, results
<1>2. /\ Len(entries) = Len(Scenarios) /\ DOMAIN entries = Indices
      /\ \A i \in Indices : entries[i] \in Classes
  BY <1>1, ScenarioCount, LenProperties DEF TypeOK, Current
<1>3. TypeOK'
  BY <1>1, <1>2, OverallHides DEF TypeOK
<1>4. EntriesHold' /\ UnderWay'
  BY <1>1 DEF EntriesHold, UnderWay
<1>5. ReportIsOlder'
  BY <1>1 DEF ReportIsOlder, TypeOK
<1>6. ASSUME Overall = "equivalent", NEW i \in Indices, Scenarios[i].applicable
      PROVE  Stands(i)
  BY <1>1, <1>2, <1>6, OverallHides DEF EntriesHold, Classes
<1>7. VerdictsHold'
  BY <1>1, <1>6, OverallHides DEF VerdictsHold, Stands
<1> QED BY <1>3, <1>4, <1>5, <1>7

LEMMA DiesPreserves ==
  IInv /\ Dies => IInv'
<1> SUFFICES ASSUME IInv, Dies PROVE IInv'
  OBVIOUS
<1>1. /\ stage # "idle" /\ stage' = "idle"
      /\ UNCHANGED <<invocation, selected, entries, native, oracle, report>>
  BY DEF Dies, results
<1>2. TypeOK'
  BY <1>1 DEF IInv, TypeOK
<1>3. EntriesHold' /\ UnderWay'
  BY <1>1 DEF EntriesHold, UnderWay
<1>4. ReportIsOlder' /\ VerdictsHold'
  BY <1>1 DEF IInv, TypeOK, ReportIsOlder, VerdictsHold
<1> QED BY <1>2, <1>3, <1>4 DEF IInv

LEMMA StepHolds ==
  IInv /\ [Next]_vars => IInv'
<1> SUFFICES ASSUME IInv, [Next]_vars PROVE IInv'
  OBVIOUS
<1>1. CASE Start
  BY <1>1, StartPreserves
<1>2. CASE NoAdapter
  BY <1>2, NoAdapterPreserves
<1>3. CASE Inapplicable
  BY <1>3, ClassifyPreserves DEF Inapplicable, At, Classes
<1>4. CASE NotSelected
  BY <1>4, ClassifyPreserves DEF NotSelected, At, Classes
<1>5. CASE NativeRuns
  BY <1>5, NativeRunsPreserves
<1>6. CASE NoOracle
  BY <1>6, ClassifyPreserves DEF NoOracle, At, Classes
<1>7. CASE OracleRuns
  BY <1>7, OracleRunsPreserves
<1>8. CASE NoResult
  BY <1>8, ClassifyPreserves DEF NoResult, At, Classes
<1>9. CASE Compare
  <2>1. stage = "compare" /\ Current \in Indices /\ UNCHANGED results
    BY <1>9 DEF Compare, At
  <2>2. Class \in {"equivalent", "different"}
    BY DEF Class
  <2>3. Class = "equivalent" => Stands(Current)
    BY <2>1 DEF Class, Agrees, Stands, IInv, UnderWay
  <2>4. CASE Classify(Class)
    BY <2>1, <2>2, <2>3, <2>4, ClassifyPreserves DEF Classes
  <2>5. CASE Classify("invalid")
    BY <2>1, <2>5, ClassifyPreserves DEF Classes
  <2> QED BY <1>9, <2>4, <2>5 DEF Compare
<1>10. CASE Conclude
  BY <1>10, ConcludePreserves
<1>11. CASE Dies
  BY <1>11, DiesPreserves
<1>12. CASE UNCHANGED vars
  BY <1>12 DEF vars, results, IInv, TypeOK, EntriesHold, Stands, UnderWay, Current,
               ReportIsOlder, VerdictsHold
<1> QED BY <1>1, <1>2, <1>3, <1>4, <1>5, <1>6, <1>7, <1>8, <1>9, <1>10, <1>11, <1>12
        DEF Next

LEMMA Invariant == Spec => []IInv
BY InitHolds, StepHolds, PTL DEF Spec

\* Every variable of the oracle's differential keeps its type, however often it
\* is invoked and wherever it dies.
THEOREM TypeCorrect == Spec => []TypeOK
<1>1. IInv => TypeOK
  BY DEF IInv
<1> QED BY <1>1, Invariant, PTL

\* An equivalent report stands on the files beside it and no report hides a
\* scenario that differs, for every list of declarations.
THEOREM VerdictsStand == Spec => []VerdictsHold
<1>1. IInv => VerdictsHold
  BY DEF IInv
<1> QED BY <1>1, Invariant, PTL
=============================================================================
