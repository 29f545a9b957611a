------------------------------- MODULE Runner -------------------------------
(***************************************************************************)
(* The runner and its artifact store (runner.py, evidence.py): one run spec*)
(* is admitted, its workflow executed step by step, the backend torn down, *)
(* its traces flushed, gates evaluated, and a result and a manifest        *)
(* written.  The process may die at any moment, and a run may be repeated  *)
(* under the same run_id, into the tree that the earlier one left.         *)
(*                                                                         *)
(* A file is written in two steps: write_bytes truncates it, then fills it.*)
(* What a phase of the run has to write is `pending'; the next phase starts*)
(* when nothing is.  Raw and normalized traces are one file here, and all  *)
(* artifacts of steps share one name, as two uploads of one name do.       *)
(*                                                                         *)
(* An error is known by its status (errors.py): capability_blocked is the  *)
(* only blocked one, capability_unsupported the only unsupported one.      *)
(***************************************************************************)
EXTENDS Naturals, Sequences, FiniteSets

CONSTANTS
  Specs,    \* the run specs executed: [id, backend, workflow, gates, oversized],
            \* the last being the files that exceed its max_artifact_bytes
  Absent,   \* a file that does not exist
  Partial,  \* a file that is being written, or whose writer died
  Raised,   \* bound: the statuses of the errors that admission and steps raise
  MaxRuns   \* bound: runs under one run_id

Errors == {"blocked", "unsupported", "invalid", "failed"}
Files == {"spec", "capabilities", "artifact", "traces", "runtime", "result",
          "manifest"}

\* needs: the step whose output a step refers to, 0 if it refers to none.
RunSpec ==
  [id : STRING, backend : {"mock", "native", "unknown"},
   workflow : Seq([method : STRING, needs : Nat]),
   gates : SUBSET [kind : STRING, required : BOOLEAN], oversized : SUBSET Files]

StepStatus == Errors \union {"passed", "skipped"}
GateResult ==
  [kind : STRING, required : BOOLEAN, status : {"passed", "blocked", "failed"}]
Result ==
  [status : Errors \union {"passed"}, steps : Seq(StepStatus),
   gates : SUBSET GateResult]
\* What the store's files hold: an id, a step's number, a log, methods, a result.
Contents ==
  STRING \union Nat \union Seq(Nat) \union (SUBSET STRING) \union Result
Artifact == [file : Files \ {"manifest"}, content : Contents]
Manifest == [run : Nat, complete : BOOLEAN, artifacts : SUBSET Artifact]

ASSUME RunnerAssumption ==
  /\ Specs \subseteq RunSpec /\ Raised \subseteq Errors /\ MaxRuns \in Nat
  /\ Absent \notin Manifest /\ Partial \notin Manifest

VARIABLES
  rpc,         \* the phase of the run
  run,         \* number of runs started; stands for the manifest's created_at
  spec,        \* the spec of the run
  capability,  \* the capability report: none, or whether the probe was ready
  backend,     \* none, open or closed
  terminal,    \* the status of terminal_error
  steps,       \* the statuses of the steps recorded so far
  events,      \* the backend's log, as the steps that added to it once connected
  artifacts,   \* ArtifactStore.artifacts
  pending,     \* writes still to be done before the next phase
  tree,        \* the files of the run's directory
  dispatched   \* ghost: the steps that had an effect, in their order

vars == <<rpc, run, spec, capability, backend, terminal, steps, events,
          artifacts, pending, tree, dispatched>>
admissionVars == <<run, spec, capability>>
storeVars == <<artifacts, tree>>

WriteOf(file, content) == [file |-> file, content |-> content]

Init ==
  /\ rpc = "idle" /\ run = 0 /\ spec \in Specs
  /\ capability = "none" /\ backend = "none" /\ terminal = "none"
  /\ steps = <<>> /\ events = <<>> /\ artifacts = {} /\ dispatched = <<>>
  /\ pending = <<>> /\ tree = [f \in Files |-> Absent]

\* A process starts with nothing but the tree, and leaves nothing else.
ForgetsAll ==
  /\ capability' = "none" /\ backend' = "none" /\ terminal' = "none"
  /\ steps' = <<>> /\ events' = <<>> /\ artifacts' = {} /\ dispatched' = <<>>

-----------------------------------------------------------------------------
(* The artifact store.                                                      *)

Opens ==
  /\ pending # <<>> /\ tree[Head(pending).file] # Partial
  /\ tree' = [tree EXCEPT ![Head(pending).file] = Partial]
  /\ UNCHANGED <<admissionVars, rpc, backend, terminal, steps, events,
                 artifacts, pending, dispatched>>

KeepsOldRecord(records, write) ==      \* mutant: the record is not replaced
  records \union {write}

\* A file written again replaces its record.
Recorded(records, write) ==
  {r \in records : r.file # write.file} \union {write}

\* finalize writes the manifest past the store's list.
Fills ==
  /\ pending # <<>> /\ tree[Head(pending).file] = Partial
  /\ tree' = [tree EXCEPT ![Head(pending).file] = Head(pending).content]
  /\ artifacts' = IF Head(pending).file = "manifest" THEN artifacts
                  ELSE Recorded(artifacts, Head(pending))
  /\ pending' = Tail(pending)
  /\ UNCHANGED <<admissionVars, rpc, backend, terminal, steps, events,
                 dispatched>>

-----------------------------------------------------------------------------
(* The run.                                                                 *)

Phase(here, next) == pending = <<>> /\ rpc = here /\ rpc' = next

StartRun ==
  /\ rpc \in {"idle", "done"} /\ run < MaxRuns
  /\ rpc' = "admission" /\ run' = run + 1
  /\ \E s \in Specs :
       spec' = s /\ pending' = <<WriteOf("spec", s.id)>>
  /\ ForgetsAll
  /\ UNCHANGED tree

\* validate_run_spec refuses the spec: nothing is probed.
Refused ==
  /\ Phase("admission", "workflow") /\ spec.backend = "unknown"
  /\ terminal' = "invalid"
  /\ UNCHANGED <<admissionVars, backend, steps, events, pending, storeVars,
                 dispatched>>

\* The host is probed; the report is written before it is held against the
\* spec and before a native adapter is started.  A native backend needs a
\* ready probe and may fail to connect in any way; the mock cannot fail.
Probed ==
  /\ Phase("admission", "workflow") /\ spec.backend # "unknown"
  /\ pending' = <<WriteOf("capabilities", spec.id)>>
  /\ \E probe \in {"ready", "unready"}, error \in Raised \union {"none"} :
       /\ capability' = probe /\ terminal' = error
       /\ spec.backend = "mock" => error \in {"none", "blocked", "unsupported"}
       /\ spec.backend = "native" /\ probe = "unready" => error # "none"
       /\ backend' = IF error = "none" THEN "open" ELSE "none"
  /\ UNCHANGED <<run, spec, steps, events, storeVars, dispatched>>

InWorkflow ==
  /\ pending = <<>> /\ rpc = "workflow" /\ Len(steps) < Len(spec.workflow)
  /\ UNCHANGED <<admissionVars, rpc, backend, storeVars>>

Declaration == spec.workflow[Len(steps) + 1]

\* outputs: the steps whose results a later step can refer to.
Outputs == {i \in 1..Len(steps) : steps[i] = "passed"}
Resolvable == Declaration.needs \in Outputs \union {0}

\* What a dispatch does to the backend.  It need not add to the log: to observe,
\* to export, to wait for what already holds adds nothing.  A comparison bypasses
\* the backend.
Effect ==
  /\ dispatched' = Append(dispatched, Len(steps) + 1)
  /\ \/ UNCHANGED events
     \/ Declaration.method # "compare" /\ events' = Append(events, Len(steps) + 1)
  /\ pending' = IF Declaration.method = "capture"
                THEN <<WriteOf("artifact", Len(steps) + 1)>> ELSE <<>>

StepSkipped ==
  /\ InWorkflow /\ terminal # "none"
  /\ steps' = Append(steps, "skipped")
  /\ UNCHANGED <<terminal, events, pending, dispatched>>

GoesOnAfterError ==                    \* mutant: no look at terminal_error
  /\ InWorkflow /\ Resolvable
  /\ steps' = Append(steps, "passed") /\ Effect
  /\ UNCHANGED terminal

StepPasses ==
  /\ InWorkflow /\ terminal = "none" /\ Resolvable
  /\ steps' = Append(steps, "passed") /\ Effect
  /\ UNCHANGED terminal

\* The parameters do not resolve or the operation is refused: no effect.  Or
\* it raises after its effect, or the expectation does not hold of its result.
StepRaises ==
  /\ InWorkflow /\ terminal = "none"
  /\ \E error \in Raised :
       steps' = Append(steps, error) /\ terminal' = error
  /\ \/ UNCHANGED <<events, pending, dispatched>>
     \/ Resolvable /\ Effect

\* In the normalized log, the record of the adapter's end.
AdapterEnd == 0

\* Only the native backend has a close.  It logs the end of its adapter, however
\* the shutdown went; that it went wrong is a deviation of the run, no error.
Closing ==
  /\ Phase("workflow", "verification") /\ Len(steps) = Len(spec.workflow)
  /\ backend' = IF backend = "open" THEN "closed" ELSE backend
  /\ events' = IF backend = "open" /\ spec.backend = "native"
               THEN Append(events, AdapterEnd) ELSE events
  /\ UNCHANGED <<admissionVars, terminal, steps, storeVars, dispatched>>

FlushesFirst ==                        \* mutant: traces flushed before the close
  Closing /\ pending' = IF backend = "none" THEN <<>> ELSE <<WriteOf("traces", events)>>

\* close, then flush_traces.
Teardown ==
  Closing /\ pending' = IF backend = "none" THEN <<>> ELSE <<WriteOf("traces", events')>>

\* with_runtime_verification: what the ledger holds, the methods of the steps
\* that passed.
Exercised == {spec.workflow[i].method : i \in Outputs}

Verification ==
  /\ Phase("verification", "gates")
  /\ pending' = IF capability = "none" THEN <<>>
                ELSE <<WriteOf("runtime", Exercised)>>
  /\ UNCHANGED <<admissionVars, backend, terminal, steps, events, storeVars,
                 dispatched>>

GatePasses(kind) ==
  CASE kind = "native" -> spec.backend = "mock" \/ capability = "ready"
    [] kind = "capability" -> terminal \notin {"blocked", "unsupported"}
    [] kind = "evidence" -> artifacts # {}
    [] OTHER -> terminal = "none"

GateIsTerminal(kind) ==                \* mutant: the run's status is taken over
  IF GatePasses(kind) THEN "passed" ELSE terminal

GateStatus(kind) ==
  IF GatePasses(kind) THEN "passed"
  ELSE IF terminal = "blocked" THEN "blocked" ELSE "failed"

Gates ==
  {[kind |-> g.kind, required |-> g.required, status |-> GateStatus(g.kind)] :
     g \in spec.gates}

GatesSuffice ==                        \* mutant: no bound on artifacts
  \A g \in Gates : g.required => g.status = "passed"

EvidenceSuffices ==
  /\ \A g \in Gates : g.required => g.status = "passed"
  /\ \A r \in artifacts : r.file \notin spec.oversized

FinalError ==
  IF terminal = "none" /\ ~EvidenceSuffices THEN "invalid" ELSE terminal

StatusOf(error) == IF error = "none" THEN "passed" ELSE error

\* The bound on artifacts is looked at before the result is one of them, so the
\* result may be large.
Conclude ==
  /\ Phase("gates", "finalize")
  /\ terminal' = FinalError
  /\ pending' = <<WriteOf("result",
                   [status |-> StatusOf(FinalError), steps |-> steps,
                    gates |-> Gates])>>
  /\ UNCHANGED <<admissionVars, backend, steps, events, storeVars, dispatched>>

\* mutant: complete is what the steps say, not the final status
CompleteBySteps ==
  /\ Phase("finalize", "return")
  /\ pending' = <<WriteOf("manifest",
                   [run |-> run, complete |-> Outputs = DOMAIN steps,
                    artifacts |-> artifacts])>>
  /\ UNCHANGED <<admissionVars, backend, terminal, steps, events, storeVars,
                 dispatched>>

Finalize ==
  /\ Phase("finalize", "return")
  /\ pending' = <<WriteOf("manifest",
                   [run |-> run, complete |-> StatusOf(terminal) = "passed",
                    artifacts |-> artifacts])>>
  /\ UNCHANGED <<admissionVars, backend, terminal, steps, events, storeVars,
                 dispatched>>

Return ==
  /\ Phase("return", "done")
  /\ UNCHANGED <<admissionVars, backend, terminal, steps, events, pending,
                 storeVars, dispatched>>

\* The process ends where it is: killed, or by an exception run does not catch.
Dies ==
  /\ rpc \notin {"idle", "done"}
  /\ rpc' = "idle" /\ pending' = <<>> /\ ForgetsAll
  /\ UNCHANGED <<run, spec, tree>>

Next ==
  \/ Opens \/ Fills
  \/ StartRun \/ Refused \/ Probed
  \/ StepSkipped \/ StepPasses \/ StepRaises
  \/ Teardown \/ Verification \/ Conclude \/ Finalize \/ Return
  \/ Dies

Spec == Init /\ [][Next]_vars

-----------------------------------------------------------------------------
(* Properties.                                                              *)

\* The type invariant (runner.py:73-264).
TypeOK ==
  /\ rpc \in {"idle", "admission", "workflow", "verification", "gates",
              "finalize", "return", "done"}
  /\ run \in 0..MaxRuns /\ spec \in Specs
  /\ capability \in {"none", "ready", "unready"}
  /\ backend \in {"none", "open", "closed"}
  /\ terminal \in Errors \union {"none"}
  /\ steps \in Seq(StepStatus)
  /\ events \in Seq(Nat) /\ dispatched \in Seq(Nat)
  /\ DOMAIN tree = Files
  /\ \A r \in artifacts : r.file \in Files \ {"manifest"}
  /\ \A i \in DOMAIN pending : pending[i].file \in Files
  /\ tree["result"] \notin {Absent, Partial} =>
       \A g \in tree["result"].gates : g.status \in {"passed", "blocked", "failed"}

\* The manifest's digests are those of the files.
Verifies ==
  /\ tree["manifest"] \notin {Absent, Partial}
  /\ \A r \in tree["manifest"].artifacts : tree[r.file] = r.content

\* When a run has returned, every file its manifest lists holds what the
\* manifest says, the result is among them, and so are the traces of every
\* backend there was (evidence.py:21-43, 97-113, runner.py:262-264).
ManifestVerifies ==
  rpc = "done" =>
    /\ Verifies
    /\ \E r \in tree["manifest"].artifacts : r.file = "result"
    /\ backend # "none" =>
         \E r \in tree["manifest"].artifacts : r.file = "traces"

\* Whatever runs died over this tree, and at whatever point: a manifest that
\* agrees with the files says complete exactly if the result it lies beside
\* says passed (runner.py:262-263).
CompleteIsPassed ==
  Verifies /\ tree["result"] \notin {Absent, Partial} =>
    (tree["manifest"].complete <=> tree["result"].status = "passed")

\* Nothing is retried and nothing happens after an error: the steps that had
\* an effect are the first ones, each once, and all but the last of them, in
\* whose course the run may have failed, passed (runner.py:126-165).
NothingAfterError ==
  /\ \A i \in DOMAIN dispatched : dispatched[i] = i
  /\ Len(dispatched) <= Len(steps)
  /\ \A i \in 1..Len(steps) :
       /\ i < Len(dispatched) => steps[i] = "passed"
       /\ i > Len(dispatched) => steps[i] # "passed"
  /\ \A i, j \in 1..Len(steps) : i < j /\ steps[i] # "passed" => steps[j] = "skipped"

\* A passed result stands on every step, on every required gate, and on
\* artifacts within the bound - the result itself excepted, which is written
\* after the bound was looked at (runner.py:211-227).
PassedIsEarned ==
  rpc = "done" /\ tree["result"].status = "passed" =>
    /\ Len(tree["result"].steps) = Len(spec.workflow)
    /\ \A i \in DOMAIN tree["result"].steps : tree["result"].steps[i] = "passed"
    /\ \A g \in tree["result"].gates : g.required => g.status = "passed"
    /\ \A r \in artifacts : r.file \in spec.oversized => r.file = "result"

\* "Teardown before the trace flush so the adapter's own closing record is part
\* of the evidence" (runner.py:168): the traces of a run that returned are the
\* whole log of its backend, whatever its steps added to it and wherever they
\* failed, and a native one ends with the end of the adapter (runner.py:167-177).
TracesComplete ==
  rpc = "done" /\ backend # "none" =>
    /\ tree["traces"] = events
    /\ spec.backend = "native" =>
         events # <<>> /\ events[Len(events)] = AdapterEnd

=============================================================================
