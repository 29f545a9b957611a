------------------------------- MODULE Corpus -------------------------------
(***************************************************************************)
(* The frozen corpus on two lanes, and the verdict on both (corpus.py,     *)
(* corpus_profiles.py, corpus_compare.py, scripts/native_corpus.py and     *)
(* scripts/corpus_differential.py), as a gate runs them, again and again   *)
(* over one evidence directory: first the native corpus, whose process may *)
(* find no adapter, or die; then the differential, which runs the mock     *)
(* corpus and compares it with the native summary it finds.  (It does the  *)
(* same for each native variant; the model has one.)                       *)
(*                                                                         *)
(* A repetition of a scenario has a first backend, the only one whose      *)
(* calls are counted and whose traces are written, and may make a second   *)
(* one, the successor that resumes a checkpoint of the first.  A backend is*)
(* its log, and a log the number of times it grew since its backend was    *)
(* made.  Not every call adds to it: to observe, to export, to wait for    *)
(* what already holds, or to checkpoint without giving up the lease, does  *)
(* not.                                                                    *)
(***************************************************************************)
EXTENDS Naturals, Sequences, FiniteSets

CONSTANTS
  Scenarios,  \* the sequence of scenarios: [driver, texts], a driver being a
              \* sequence of "call", "flush" and "resume", the texts a set
  Requested,  \* the numbers of repetitions that are asked for
  Absent,     \* a file that does not exist
  Partial,    \* a file that is being written, or whose writer died
  MaxGates    \* bound: runs of the release gate

Lanes == {"native", "mock"}

ASSUME CorpusAssumption ==
  /\ Requested \subseteq Nat \ {0} /\ MaxGates \in Nat
  /\ Len(Scenarios) \in Nat /\ DOMAIN Scenarios = 1..Len(Scenarios)
  /\ \A i \in DOMAIN Scenarios :
       Scenarios[i].driver \in Seq({"call", "flush", "resume"})

VARIABLES
  gate,         \* number of runs of the release gate
  lane,         \* the lane whose corpus runs, or none
  stage,        \* where the gate, or its corpus, is
  repetitions,  \* of each scenario in this corpus
  records,      \* the records so far
  ledger,       \* calls of passed repetitions (RuntimeLedger)
  repetition,   \* the repetition under way
  summary,      \* the native corpus-summary.json
  baseline,     \* what the mock corpus returned; its file nobody reads
  report        \* the status in corpus-differential.json

vars == <<gate, lane, stage, repetitions, records, ledger, repetition, summary,
          baseline, report>>
corpusVars == <<records, ledger, repetition>>
resultVars == <<summary, baseline, report>>

\* What a repetition starts with: no step done, no backend, no result.
Fresh ==
  [done |-> 0, logs |-> <<>>, traces |-> Absent, earned |-> 0,
   error |-> "none", checks |-> <<>>]

Init ==
  /\ gate = 0 /\ lane = "none" /\ stage = "idle" /\ repetitions = 1
  /\ records = <<>> /\ ledger = 0 /\ repetition = Fresh
  /\ summary = Absent /\ baseline = Absent /\ report = Absent

Total == Len(Scenarios) * repetitions
Scenario == Scenarios[(Len(records) \div repetitions) + 1]

-----------------------------------------------------------------------------
(* One repetition.                                                          *)

Goes(from, to) ==
  /\ stage = from /\ stage' = to
  /\ UNCHANGED <<gate, lane, repetitions, resultVars>>

MakeBackend ==
  /\ Goes("make", "driver") /\ Len(records) < Total
  /\ repetition' = [Fresh EXCEPT !.logs = <<0>>]
  /\ UNCHANGED <<records, ledger>>

\* Only a native backend has something to connect to.  The profile does not
\* know a backend that did not connect, and will not close it.
BackendRefused ==
  /\ Goes("make", "close") /\ Len(records) < Total
  /\ lane = "native"
  /\ repetition' = [Fresh EXCEPT !.error = "blocked"]
  /\ UNCHANGED <<records, ledger>>

AtStep(kind) ==
  /\ Goes("driver", "driver")
  /\ repetition.done < Len(Scenario.driver)
  /\ Scenario.driver[repetition.done + 1] = kind
  /\ UNCHANGED <<records, ledger>>

\* A call was logged.
Grown == [repetition.logs EXCEPT ![1] = @ + 1]

\* _RecordingBackend counts a call that returned, logged or not.
CallReturns ==
  /\ AtStep("call")
  /\ \E logs \in {repetition.logs, Grown} :
       repetition' = [repetition EXCEPT !.done = @ + 1, !.earned = @ + 1,
                                        !.logs = logs]

DriverFlushes ==
  /\ AtStep("flush")
  /\ repetition' = [repetition EXCEPT !.done = @ + 1, !.traces = repetition.logs[1]]

\* The successor writes into the same store and is not counted.
Resumes ==
  /\ AtStep("resume")
  /\ repetition' = [repetition EXCEPT !.done = @ + 1, !.logs = Append(@, 1)]

\* Anything a driver does may raise, before or after it had an effect on a log;
\* a successor may not even connect.
DriverRaises ==
  /\ Goes("driver", "close")
  /\ repetition.done < Len(Scenario.driver)
  /\ \E logs \in {repetition.logs,
                  CASE Scenario.driver[repetition.done + 1] = "call" -> Grown
                    [] Scenario.driver[repetition.done + 1] = "resume" ->
                         Append(repetition.logs, 0)
                    [] OTHER -> repetition.logs} :
       repetition' = [repetition EXCEPT !.logs = logs, !.error = "failed"]
  /\ UNCHANGED <<records, ledger>>

DriverReturns ==
  /\ Goes("driver", "close")
  /\ repetition.done = Len(Scenario.driver)
  /\ \E checks \in [Scenario.texts -> BOOLEAN] :
       repetition' = [repetition EXCEPT !.checks = checks]
  /\ UNCHANGED <<records, ledger>>

\* A native backend logs the end of its adapter; the mock has no close.
CloseAll ==
  /\ Goes("close", "flush")
  /\ repetition' =
       [repetition EXCEPT !.logs =
          [i \in DOMAIN @ |-> IF lane = "native" THEN @[i] + 1 ELSE @[i]]]
  /\ UNCHANGED <<records, ledger>>

\* The log of `backend', which is none if it could not be made.
FirstLog == IF repetition.logs = <<>> THEN Absent ELSE repetition.logs[1]

FlushesOnce ==                         \* mutant: not again what the driver has flushed
  /\ Goes("flush", "result")
  /\ repetition' =
       [repetition EXCEPT !.traces =
          IF @ = Absent THEN FirstLog ELSE @]
  /\ UNCHANGED <<records, ledger>>

\* The first backend's traces, whatever the driver has flushed.
FlushTraces ==
  /\ Goes("flush", "result")
  /\ repetition' =
       [repetition EXCEPT !.traces = FirstLog]
  /\ UNCHANGED <<records, ledger>>

\* missing and unexpected are empty, all checks hold.
Passed ==
  /\ repetition.error = "none"
  /\ DOMAIN repetition.checks = Scenario.texts
  /\ \A text \in Scenario.texts : repetition.checks[text]

StatusIsError ==                       \* mutant: the error is the status
  IF Passed THEN "passed" ELSE repetition.error

Status == IF Passed THEN "passed" ELSE "failed"

Assertions ==
  [text \in Scenario.texts |->
     text \in DOMAIN repetition.checks /\ repetition.checks[text]]

MergesAlways ==                        \* mutant: a failed repetition's calls count too
  /\ Goes("result", "finalize")
  /\ ledger' = ledger + repetition.earned
  /\ UNCHANGED <<records, repetition>>

MergeLedger ==
  /\ Goes("result", "finalize")
  /\ ledger' = IF Passed THEN ledger + repetition.earned ELSE ledger
  /\ UNCHANGED <<records, repetition>>

\* result.json and the manifest, and the record of both.
Finalize ==
  /\ Goes("finalize", "make")
  /\ records' =
       Append(records,
              [scenario |-> (Len(records) \div repetitions) + 1,
               status |-> Status, assertions |-> Assertions,
               error |-> repetition.error])
  /\ repetition' = Fresh
  /\ UNCHANGED ledger

-----------------------------------------------------------------------------
(* The summary of a lane.                                                   *)

Of(rs, scenario) == {rs[i] : i \in {j \in DOMAIN rs : rs[j].scenario = scenario}}

Signatures(rs, scenario) ==
  {<<r.status, r.assertions, r.error>> : r \in Of(rs, scenario)}

Deterministic(rs) ==
  \A i \in DOMAIN Scenarios : Cardinality(Signatures(rs, i)) = 1

Statuses(rs) == {rs[i].status : i \in DOMAIN rs}

Summary ==
  [records |-> records, ledger |-> ledger,
   deterministic |-> Deterministic(records),
   status |-> IF Statuses(records) = {"passed"} /\ Deterministic(records)
              THEN "passed" ELSE "failed"]

AllDone == stage = "make" /\ Len(records) = Total

WritesSummary ==
  /\ AllDone /\ lane = "native" /\ summary # Partial
  /\ summary' = Partial
  /\ UNCHANGED <<gate, lane, stage, repetitions, corpusVars, baseline, report>>

Ends ==
  /\ lane' = "none" /\ records' = <<>> /\ ledger' = 0 /\ repetitions' = 1
  /\ repetition' = Fresh

\* The native corpus ends its process, the mock one goes on to be compared.
NativeReturns ==
  /\ AllDone /\ lane = "native" /\ summary = Partial
  /\ summary' = Summary /\ stage' = "differential" /\ Ends
  /\ UNCHANGED <<gate, baseline, report>>

MockReturns ==
  /\ AllDone /\ lane = "mock"
  /\ baseline' = Summary /\ stage' = "compare" /\ Ends
  /\ UNCHANGED <<gate, summary, report>>

-----------------------------------------------------------------------------
(* The gate.                                                                *)

StartGate ==
  /\ stage = "idle" /\ gate < MaxGates
  /\ gate' = gate + 1 /\ stage' = "native"
  /\ UNCHANGED <<lane, repetitions, corpusVars, resultVars>>

Starts(l, at) ==
  /\ stage = at /\ stage' = "make" /\ lane' = l
  /\ repetitions' \in Requested
  /\ UNCHANGED <<gate, corpusVars, resultVars>>

NativeCorpus == Starts("native", "native")

\* No adapter is built: nothing runs and nothing is written.
NativeBlocked == Goes("native", "differential") /\ UNCHANGED corpusVars

MockCorpus == Starts("mock", "differential")

\* Without --native, and without a summary where one is looked for.
DifferentialBlocked ==
  /\ stage = "differential" /\ summary = Absent
  /\ stage' = "idle" /\ report' = "blocked"
  /\ UNCHANGED <<gate, lane, repetitions, corpusVars, summary, baseline>>

Outcomes(s, scenario, text) ==
  {r.assertions[text] : r \in Of(s.records, scenario)}

\* One outcome on both lanes, in every repetition.
Agree(b, c, scenario, text) ==
  /\ Outcomes(b, scenario, text) = Outcomes(c, scenario, text)
  /\ Cardinality(Outcomes(b, scenario, text)) = 1

SameStatuses(b, c, scenario) ==
  {r.status : r \in Of(b.records, scenario)} =
  {r.status : r \in Of(c.records, scenario)}

IgnoresDeterminism(b, c) ==  \* mutant: no look at deterministic
  \A i \in DOMAIN Scenarios :
    /\ \A text \in Scenarios[i].texts : Agree(b, c, i, text)
    /\ SameStatuses(b, c, i)

Equivalent(b, c) ==
  /\ b.deterministic /\ c.deterministic
  /\ \A i \in DOMAIN Scenarios :
       /\ \A text \in Scenarios[i].texts : Agree(b, c, i, text)
       /\ SameStatuses(b, c, i)

\* The summary is read only now; one that is missing, or cut off, ends the
\* differential without a report.
Compare ==
  /\ stage = "compare" /\ stage' = "idle" /\ baseline' = Absent
  /\ report' = IF summary \in {Absent, Partial} THEN report
               ELSE IF Equivalent(baseline, summary) THEN "equivalent"
               ELSE "different"
  /\ UNCHANGED <<gate, lane, repetitions, corpusVars, summary>>

\* The native corpus is a process of its own: the gate notes that it failed
\* and goes on.
NativeDies ==
  /\ lane = "native" /\ stage' = "differential" /\ Ends
  /\ UNCHANGED <<gate, resultVars>>

\* The differential dies, or the gate, whose timeout nobody catches.
Dies ==
  /\ stage # "idle" /\ stage' = "idle" /\ Ends /\ baseline' = Absent
  /\ UNCHANGED <<gate, summary, report>>

Repetition ==
  \/ MakeBackend \/ BackendRefused
  \/ CallReturns \/ DriverFlushes \/ Resumes \/ DriverRaises \/ DriverReturns
  \/ CloseAll \/ FlushTraces \/ MergeLedger \/ Finalize

Next ==
  \/ StartGate \/ NativeCorpus \/ NativeBlocked \/ NativeDies
  \/ Repetition \/ WritesSummary \/ NativeReturns \/ MockReturns
  \/ MockCorpus \/ DifferentialBlocked \/ Compare \/ Dies

Spec == Init /\ [][Next]_vars

-----------------------------------------------------------------------------
(* Properties.                                                              *)

\* The type invariant (corpus.py:338-464).
TypeOK ==
  /\ gate \in 0..MaxGates /\ lane \in Lanes \union {"none"}
  /\ stage \in {"idle", "native", "make", "driver", "close", "flush", "result",
                "finalize", "differential", "compare"}
  /\ repetitions \in Requested \union {1} /\ ledger \in Nat
  /\ repetition.logs \in Seq(Nat) /\ repetition.earned \in Nat
  /\ repetition.error \in {"none", "blocked", "failed"}
  /\ repetition.traces \in Nat \union {Absent}
  /\ Len(records) <= Total
  /\ \A i \in DOMAIN records :
       /\ records[i].status \in {"passed", "failed"}
       /\ DOMAIN records[i].assertions = Scenarios[records[i].scenario].texts
  /\ report \in {Absent, "blocked", "equivalent", "different"}

\* docs/VALIDATION.md: "Each mock repetition has its own result, raw trace,
\* normalized trace, and manifest."  Once a repetition is judged, its traces are
\* the whole log of its first backend, natively with the end of the adapter;
\* although the driver may have flushed it in the middle and gone on, and
\* whatever the driver died of.  Without such a backend there are no traces, and
\* no call that could count as verified.  (The successor's log is in nobody's
\* evidence, and its calls count for nothing.)
TracesWhole ==
  stage \in {"result", "finalize"} =>
    /\ repetition.traces = FirstLog
    /\ repetition.logs = <<>> => repetition.earned = 0

\* The calls of a driver, and those of the passed ones of some records.
Calls(scenario) ==
  {n \in DOMAIN Scenarios[scenario].driver : Scenarios[scenario].driver[n] = "call"}
CallsOfPassed(rs) ==
  UNION {{k} \X Calls(rs[k].scenario) : k \in {j \in DOMAIN rs : rs[j].status = "passed"}}

\* ADR-S6-01: "A failed scenario contributes nothing to the ledger even if it
\* executed operations".  A passed repetition has made all its calls, and the
\* summary's ledger is the calls of the passed repetitions, all of them.
LedgerIsEarned ==
  \A s \in {summary, baseline} \ {Absent, Partial} :
    s.ledger = Cardinality(CallsOfPassed(s.records))

\* docs/DIFFERENTIAL_RUNNER.md: "Non-determinism on either lane is a difference
\* even when outcomes agree."  Lanes that are found equivalent, of however many
\* repetitions and from whichever gate, have one verdict on the corpus, and
\* ended each scenario in one way each: with the same verdict and outcome of
\* every assertion on both, with the same error in all repetitions of one.
EquivalentMeansAlike ==
  [][Compare /\ report' = "equivalent" /\ summary \notin {Absent, Partial} =>
       /\ summary.status = baseline.status
       /\ \A s \in {summary, baseline} : \A i, k \in DOMAIN s.records :
            s.records[i].scenario = s.records[k].scenario =>
              s.records[i].error = s.records[k].error
       /\ \A i \in DOMAIN summary.records, k \in DOMAIN baseline.records :
            LET r == summary.records[i]
                q == baseline.records[k]
            IN r.scenario = q.scenario =>
                 r.status = q.status /\ r.assertions = q.assertions]_vars
=============================================================================
