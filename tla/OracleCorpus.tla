---------------------------- MODULE OracleCorpus ----------------------------
(***************************************************************************)
(* The corpus posed to WebKitGTK and to the Playwright oracle              *)
(* (scripts/oracle_corpus_differential.py): scenario by scenario, the      *)
(* declared workflow is run by the runner and by the oracle's process, the *)
(* two results are compared, and the scenario is classified.  The release  *)
(* gate invokes it into the same directory every time, so a result of an   *)
(* earlier invocation may lie where the oracle is to write.                *)
(*                                                                         *)
(* scripts/oracle_differential.py is the same for one scenario, without    *)
(* the look at the terminal code.  Of a result its terminal code and its   *)
(* step statuses count, which compare_runs compares; `invocation' in it is *)
(* a ghost.  The runner is taken to write its result or to raise.          *)
(***************************************************************************)
EXTENDS Naturals, Sequences

CONSTANTS
  Scenarios,      \* the sequence of declarations: [applicable, expected]
  Codes,          \* the terminal codes that a lane may end with
  Steps,          \* what the steps may have been: the rest of the projection
  Absent,         \* a file that does not exist
  Partial,        \* a file whose writer died
  MaxInvocations  \* bound: invocations

ASSUME OracleAssumption ==
  /\ MaxInvocations \in Nat
  /\ Scenarios \in Seq([applicable : BOOLEAN, expected : Codes])

Indices == DOMAIN Scenarios
Result == [code : Codes, steps : Steps, invocation : 1..MaxInvocations]

VARIABLES
  invocation,  \* number of invocations
  stage,       \* idle, or what the scenario under way has come to
  selected,    \* the scenarios of --scenario, all without it
  entries,     \* the classes of the scenarios so far
  native,      \* result.json of each scenario's native run
  oracle,      \* result.json of each scenario's oracle run
  report       \* oracle-corpus-differential.json

vars == <<invocation, stage, selected, entries, native, oracle, report>>
results == <<native, oracle>>

Init ==
  /\ invocation = 0 /\ stage = "idle" /\ selected = Indices /\ entries = <<>>
  /\ native = [i \in Indices |-> Absent] /\ oracle = [i \in Indices |-> Absent]
  /\ report = Absent

-----------------------------------------------------------------------------
Start ==
  /\ stage = "idle" /\ invocation < MaxInvocations
  /\ invocation' = invocation + 1 /\ stage' = "scenario"
  /\ selected' \in SUBSET Indices
  /\ entries' = <<>>
  /\ UNCHANGED <<results, report>>

\* No adapter is built: the report lists nothing.
NoAdapter ==
  /\ stage = "idle" /\ invocation < MaxInvocations
  /\ invocation' = invocation + 1
  /\ report' = [status |-> "blocked", entries |-> <<>>, invocation |-> invocation']
  /\ UNCHANGED <<stage, selected, entries, results>>

Current == Len(entries) + 1
At(s) == stage = s /\ Current \in Indices
Classify(class) ==
  /\ entries' = Append(entries, class) /\ stage' = "scenario"
  /\ UNCHANGED <<invocation, selected, report>>

Inapplicable ==
  /\ At("scenario") /\ ~Scenarios[Current].applicable
  /\ Classify("inapplicable")
  /\ UNCHANGED results

SkipsUnselected ==                      \* mutant: what is not selected is left out
  /\ At("scenario") /\ Scenarios[Current].applicable
  /\ Current \notin selected
  /\ stage' = "scenario" /\ entries' = Append(entries, "skipped")
  /\ UNCHANGED <<invocation, selected, report, results>>

NotSelected ==
  /\ At("scenario") /\ Scenarios[Current].applicable
  /\ Current \notin selected
  /\ Classify("blocked")
  /\ UNCHANGED results

Writes == {r \in Result : r.invocation = invocation}

NativeRuns ==
  /\ At("scenario") /\ Scenarios[Current].applicable /\ Current \in selected
  /\ \E r \in Writes : native' = [native EXCEPT ![Current] = r]
  /\ stage' = "oracle"
  /\ UNCHANGED <<invocation, selected, entries, oracle, report>>

\* oracle_command finds neither a local oracle nor a container engine.
NoOracle ==
  /\ At("oracle")
  /\ Classify("blocked")
  /\ UNCHANGED results

\* The oracle's process ends: its result is written, cut off, or not begun.
\* (Its exit code is reported and decides nothing.)
OracleRuns ==
  /\ At("oracle") /\ stage' = "compare"
  /\ \E r \in Writes \union {Partial, oracle[Current]} :
       oracle' = [oracle EXCEPT ![Current] = r]
  /\ UNCHANGED <<invocation, selected, entries, native, report>>

NoResult ==
  /\ At("compare") /\ oracle[Current] = Absent
  /\ Classify("blocked")
  /\ UNCHANGED results

Agrees ==
  /\ native[Current].code = oracle[Current].code
  /\ native[Current].steps = oracle[Current].steps

AgreesOnly ==                          \* mutant: the declared code is not looked at
  IF Agrees THEN "equivalent" ELSE "different"

\* terminal_as_declared: a scenario that was to end in an error does.
Class ==
  IF /\ Agrees
     /\ \A r \in {native[Current], oracle[Current]} :
          r.code = Scenarios[Current].expected
  THEN "equivalent" ELSE "different"

\* compare_runs refuses a tree that somebody writes meanwhile.
Compare ==
  /\ At("compare") /\ oracle[Current] \notin {Absent, Partial}
  /\ Classify(Class) \/ Classify("invalid")
  /\ UNCHANGED results

Listed(class) == \E i \in DOMAIN entries : entries[i] = class

Overall ==
  IF Listed("different") \/ Listed("invalid") THEN "different"
  ELSE IF Listed("blocked") THEN "blocked"
  ELSE "equivalent"

Conclude ==
  /\ stage = "scenario" /\ Current \notin Indices
  /\ stage' = "idle"
  /\ report' = [status |-> Overall, entries |-> entries, invocation |-> invocation]
  /\ UNCHANGED <<invocation, selected, entries, results>>

\* An exception that main does not catch: the runner's, the oracle's timeout
\* of 900 s, a result that is not JSON.  Or the process is killed.
Dies ==
  /\ stage # "idle" /\ stage' = "idle"
  /\ UNCHANGED <<invocation, selected, entries, results, report>>

Next ==
  \/ Start \/ NoAdapter
  \/ Inapplicable \/ NotSelected \/ NativeRuns \/ NoOracle \/ OracleRuns
  \/ NoResult \/ Compare \/ Conclude \/ Dies

Spec == Init /\ [][Next]_vars

-----------------------------------------------------------------------------
(* Properties.                                                              *)

Classes == {"equivalent", "different", "blocked", "inapplicable", "invalid"}

\* The type invariant; the classes are those of the script's counts.
TypeOK ==
  /\ invocation \in 0..MaxInvocations
  /\ stage \in {"idle", "scenario", "oracle", "compare"}
  /\ selected \subseteq Indices
  /\ entries \in Seq(Classes) /\ Len(entries) <= Len(Scenarios)
  /\ native \in [Indices -> Result \union {Absent}]
  /\ oracle \in [Indices -> Result \union {Absent, Partial}]
  /\ report # Absent =>
       /\ report.status \in {"equivalent", "different", "blocked"}
       /\ Len(report.entries) \in {0, Len(Scenarios)}

\* Until the next invocation starts, what a report says stands on the files
\* beside it: of an equivalent one, every applicable scenario was selected, run
\* natively by this invocation, and the two results agree and end as declared;
\* and neither equivalent nor blocked hides a scenario that differs, "a finding
\* to investigate, never waived".
VerdictsHold ==
  report # Absent /\ stage = "idle" /\ report.invocation = invocation =>
    /\ report.status = "equivalent" =>
         \A i \in Indices : Scenarios[i].applicable =>
           /\ i \in selected /\ native[i].invocation = invocation
           /\ native[i].code = oracle[i].code /\ native[i].steps = oracle[i].steps
           /\ native[i].code = Scenarios[i].expected
    /\ report.status \in {"equivalent", "blocked"} =>
         \A i \in DOMAIN report.entries :
           report.entries[i] \notin {"different", "invalid"}

\* scripts/oracle_corpus_differential.py: "equivalent   both lanes executed the
\* declared workflow and agree under the declared tolerances".
BothLanesExecuted ==
  report # Absent /\ stage = "idle" /\ report.invocation = invocation =>
    \A i \in DOMAIN report.entries : report.entries[i] = "equivalent" =>
      /\ native[i].invocation = invocation
      /\ oracle[i].invocation = invocation
=============================================================================
