---------------------------- MODULE RunnerProofs ----------------------------
(***************************************************************************)
(* Proofs about Runner and Comparison, for every set of run specs, every   *)
(* number of runs under one id and every point at which one dies.          *)
(***************************************************************************)
EXTENDS Comparison, SequenceTheorems, TLAPS

-----------------------------------------------------------------------------
(* Types.                                                                   *)

Phases == {"idle", "admission", "workflow", "verification", "gates", "finalize",
           "return", "done"}

ManifestWrite == [file : {"manifest"}, content : Manifest]
Write ==
  {w \in Artifact \union ManifestWrite : w.file = "result" => w.content \in Result}

RunTypes ==
  /\ rpc \in Phases /\ run \in 0..MaxRuns /\ spec \in Specs
  /\ rpc # "idle" => run > 0
  /\ capability \in {"none", "ready", "unready"}
  /\ backend \in {"none", "open", "closed"}
  /\ terminal \in Errors \union {"none"}
  /\ steps \in Seq(StepStatus) /\ dispatched \in Seq(Nat) /\ events \in Seq(Nat)

StoreTypes ==
  /\ artifacts \in SUBSET Artifact
  /\ pending = <<>> \/ \E w \in Write : pending = <<w>>
  /\ DOMAIN tree = Files
  /\ tree["result"] \in Result \union {Absent, Partial}
  /\ tree["manifest"] \in Manifest \union {Absent, Partial}

-----------------------------------------------------------------------------
(* The inductive invariant.                                                 *)

\* Steps take effect in order, and while there is no error all of them did.
StepsInv ==
  /\ NothingAfterError
  /\ Len(steps) <= Len(spec.workflow)
  /\ rpc = "admission" => steps = <<>>
  /\ terminal = "none" =>
       Len(dispatched) = Len(steps) /\ \A i \in 1..Len(steps) : steps[i] = "passed"
  /\ rpc \in {"verification", "gates", "finalize", "return", "done"} =>
       Len(steps) = Len(spec.workflow)

\* The backend is closed on leaving the workflow, natively with the adapter's end
\* as its last record.
EventsInv ==
  /\ rpc \in {"admission", "workflow"} => backend # "closed"
  /\ rpc \in {"verification", "gates", "finalize", "return", "done"} => backend # "open"
  /\ backend = "closed" /\ spec.backend = "native" =>
       events # <<>> /\ events[Len(events)] = AdapterEnd

\* What a phase may have to write.
FilesOf(phase) ==
  CASE phase = "admission" -> {"spec"}
    [] phase = "workflow" -> {"capabilities", "artifact"}
    [] phase = "verification" -> {"traces"}
    [] phase = "gates" -> {"runtime"}
    [] phase = "finalize" -> {"result"}
    [] phase = "return" -> {"manifest"}
    [] OTHER -> {}

PendingInv == \A w \in Write : pending = <<w>> => w.file \in FilesOf(rpc)

\* The store's list agrees with the files, but for the one being written.
StoreInv ==
  \A r \in artifacts :
    tree[r.file] = r.content \/ \E w \in Write : pending = <<w>> /\ w.file = r.file

\* What a phase has to write is written then, and stays in the list.
Kept(phase, file, content) ==
  IF rpc = phase /\ pending # <<>> THEN pending = <<WriteOf(file, content)>>
  ELSE WriteOf(file, content) \in artifacts

TracesInv ==
  rpc \in {"verification", "gates", "finalize", "return", "done"} /\ backend # "none" =>
    Kept("verification", "traces", events)

Earned(r) ==
  r.status = "passed" =>
    /\ Len(r.steps) = Len(spec.workflow)
    /\ \A i \in DOMAIN r.steps : r.steps[i] = "passed"
    /\ \A g \in r.gates : g.required => g.status = "passed"
    /\ \A a \in artifacts : a.file \in spec.oversized => a.file = "result"

ResultInv ==
  rpc \in {"finalize", "return", "done"} =>
    \E r \in Result :
      r.status = StatusOf(terminal) /\ Earned(r) /\ Kept("finalize", "result", r)

\* Every manifest, also one that an earlier run left, lists the result that its
\* complete is about.
Sound(m) ==
  \E r \in m.artifacts :
    r.file = "result" /\ (m.complete <=> r.content.status = "passed")

ManifestInv ==
  /\ tree["manifest"] \in Manifest => Sound(tree["manifest"])
  /\ \A m \in Manifest : pending = <<WriteOf("manifest", m)>> => Sound(m)
  /\ rpc \in {"return", "done"} =>
       \E m \in Manifest :
         /\ m.artifacts = artifacts
         /\ \/ rpc = "return" /\ pending = <<WriteOf("manifest", m)>>
            \/ pending = <<>> /\ tree["manifest"] = m

Inv ==
  RunTypes /\ StoreTypes /\ StepsInv /\ EventsInv /\ PendingInv /\ StoreInv
  /\ TracesInv /\ ResultInv /\ ManifestInv

-----------------------------------------------------------------------------
(* Lemmas about the operators.                                              *)

LEMMA ListOfOne ==
  ASSUME NEW w
  PROVE  /\ <<w>> # <<>> /\ Head(<<w>>) = w /\ Tail(<<w>>) = <<>>
         /\ \A v : <<v>> = <<w>> => v = w
OBVIOUS

LEMMA WriteTypes ==
  /\ \A f \in Files \ {"manifest"}, c \in Contents :
       /\ WriteOf(f, c) \in Artifact
       /\ (f = "result" => c \in Result) => WriteOf(f, c) \in Write
       /\ WriteOf(f, c).file = f /\ WriteOf(f, c).content = c
  /\ \A m \in Manifest :
       /\ WriteOf("manifest", m) \in Write
       /\ WriteOf("manifest", m).file = "manifest" /\ WriteOf("manifest", m).content = m
BY DEF WriteOf, Artifact, ManifestWrite, Write

LEMMA ResultsAreContents ==
  Result \subseteq Contents
BY DEF Contents

LEMMA PartsOfWrite ==
  ASSUME NEW w \in Write
  PROVE  /\ w.file \in Files /\ w = WriteOf(w.file, w.content)
         /\ w.file = "result" => w.content \in Result
         /\ w.file = "manifest" => w.content \in Manifest
         /\ w.file # "manifest" => w \in Artifact
BY DEF WriteOf, Artifact, ManifestWrite, Write, Files

LEMMA RecordedTypes ==
  ASSUME NEW records \in SUBSET Artifact, NEW w \in Artifact
  PROVE  /\ Recorded(records, w) \in SUBSET Artifact /\ w \in Recorded(records, w)
         /\ \A r \in Recorded(records, w) : r = w \/ (r \in records /\ r.file # w.file)
         /\ \A r \in records : r.file # w.file => r \in Recorded(records, w)
BY DEF Recorded

\* The list grows by one.
LEMMA StepRecorded ==
  ASSUME RunTypes, NEW status \in StepStatus, steps' = Append(steps, status)
  PROVE  LET n == Len(steps) + 1
         IN  /\ steps' \in Seq(StepStatus) /\ Len(steps') = n /\ n \in Nat
             /\ (\A i \in 1..Len(steps) : steps'[i] = steps[i]) /\ steps'[n] = status
BY AppendProperties, LenProperties DEF RunTypes

LEMMA GatesAreResults ==
  ASSUME RunTypes
  PROVE  Gates \in SUBSET GateResult
<1>1. spec \in RunSpec
  BY RunnerAssumption DEF RunTypes
<1>2. \A g \in spec.gates : g.kind \in STRING /\ g.required \in BOOLEAN
  BY <1>1 DEF RunSpec
<1>3. \A kind : GateStatus(kind) \in {"passed", "blocked", "failed"}
  BY DEF GateStatus
<1> QED BY <1>2, <1>3 DEF Gates, GateResult

-----------------------------------------------------------------------------
(* The store.                                                               *)

LEMMA InitHolds ==
  Init => Inv
<1> SUFFICES ASSUME Init PROVE Inv
  OBVIOUS
<1>1. RunTypes /\ StoreTypes
  BY RunnerAssumption DEF Init, RunTypes, StoreTypes, Phases, Files
<1>2. StepsInv
  BY <1>1, RunnerAssumption, LenProperties
  DEF Init, StepsInv, NothingAfterError, RunTypes, RunSpec
<1>4. EventsInv
  BY DEF Init, EventsInv
<1>5. PendingInv /\ StoreInv /\ TracesInv /\ ResultInv
  BY ListOfOne DEF Init, PendingInv, StoreInv, TracesInv, ResultInv
<1>6. ManifestInv
  BY RunnerAssumption, ListOfOne DEF Init, ManifestInv, Files
<1> QED BY <1>1, <1>2, <1>4, <1>5, <1>6 DEF Inv

LEMMA OpensPreserves ==
  ASSUME Inv, Opens
  PROVE  Inv'
<1>1. PICK w \in Write : pending = <<w>>
  BY DEF Opens, Inv, StoreTypes
<1>2. /\ tree' = [tree EXCEPT ![w.file] = Partial]
      /\ UNCHANGED <<run, spec, capability, rpc, backend, terminal, steps, events,
                     artifacts, pending, dispatched>>
  BY <1>1, ListOfOne DEF Opens, admissionVars
<1>3. w.file \in Files /\ DOMAIN tree = Files
  BY PartsOfWrite DEF Inv, StoreTypes
<1>4. /\ DOMAIN tree' = Files /\ tree'[w.file] = Partial
      /\ \A f \in Files \ {w.file} : tree'[f] = tree[f]
  BY <1>2, <1>3
<1>5. RunTypes' /\ StoreTypes'
  BY <1>2, <1>4 DEF Inv, RunTypes, StoreTypes, Files
<1>6. StepsInv' /\ EventsInv' /\ PendingInv' /\ TracesInv'
  BY <1>2 DEF Inv, StepsInv, NothingAfterError, EventsInv, PendingInv,
              TracesInv, Kept
<1>7. StoreInv'
  BY <1>1, <1>2, <1>4 DEF Inv, StoreInv, StoreTypes, Artifact
<1>8. ResultInv'
  BY <1>2 DEF Inv, ResultInv, Kept, Earned
<1>9. ManifestInv'
  <2>1. Partial \notin Manifest /\ "manifest" \in Files
    BY RunnerAssumption DEF Files
  <2>2. tree'["manifest"] \in Manifest => tree'["manifest"] = tree["manifest"]
    BY <1>4, <2>1
  <2>3. pending # <<>>
    BY <1>1, ListOfOne
  <2> QED BY <1>2, <2>2, <2>3 DEF Inv, ManifestInv, Sound
<1> QED BY <1>5, <1>6, <1>7, <1>8, <1>9 DEF Inv

LEMMA FillsPreserves ==
  ASSUME Inv, Fills
  PROVE  Inv'
<1>1. PICK w \in Write : pending = <<w>>
  BY DEF Fills, Inv, StoreTypes
<1>2. /\ tree' = [tree EXCEPT ![w.file] = w.content] /\ pending' = <<>>
      /\ artifacts' = IF w.file = "manifest" THEN artifacts ELSE Recorded(artifacts, w)
      /\ UNCHANGED <<run, spec, capability, rpc, backend, terminal, steps, events,
                     dispatched>>
  BY <1>1, ListOfOne DEF Fills, admissionVars
<1>3. /\ w.file \in Files /\ DOMAIN tree = Files /\ w = WriteOf(w.file, w.content)
      /\ w.file = "result" => w.content \in Result
      /\ w.file = "manifest" => w.content \in Manifest
      /\ w.file # "manifest" => w \in Artifact
      /\ w.file \in FilesOf(rpc)
  BY <1>1, PartsOfWrite DEF Inv, StoreTypes, PendingInv
<1>4. /\ DOMAIN tree' = Files /\ tree'[w.file] = w.content
      /\ \A f \in Files \ {w.file} : tree'[f] = tree[f]
  BY <1>2, <1>3
<1>5. /\ artifacts' \in SUBSET Artifact
      /\ \A r \in artifacts' :
           (r \in artifacts /\ r.file # w.file) \/ (w.file # "manifest" /\ r = w)
      /\ \A r \in artifacts : r.file # w.file => r \in artifacts'
      /\ w.file # "manifest" => w \in artifacts'
      /\ w.file = "manifest" => artifacts' = artifacts
  <2>1. \A r \in artifacts : r.file # "manifest"
    BY DEF Inv, StoreTypes, Artifact
  <2> QED BY <1>2, <1>3, <2>1, RecordedTypes DEF Inv, StoreTypes
<1>6. \A v : pending' # <<v>>
  BY <1>2, ListOfOne
<1>7. RunTypes' /\ StoreTypes'
  BY <1>2, <1>3, <1>4, <1>5 DEF Inv, RunTypes, StoreTypes, Files
<1>8. StepsInv' /\ EventsInv' /\ PendingInv'
  BY <1>2, <1>6 DEF Inv, StepsInv, NothingAfterError, EventsInv, PendingInv
<1>9. StoreInv'
  <2> SUFFICES ASSUME NEW r \in artifacts' PROVE tree'[r.file] = r.content
    BY DEF StoreInv
  <2>1. CASE r = w
    BY <1>4, <2>1
  <2>2. CASE r \in artifacts /\ r.file # w.file
    <3>1. tree[r.file] = r.content
      BY <1>1, <2>2, ListOfOne DEF Inv, StoreInv
    <3> QED BY <1>4, <2>2, <3>1 DEF Inv, StoreTypes, Artifact
  <2> QED BY <1>5, <2>1, <2>2
<1>10. ASSUME rpc \in {"verification", "gates", "finalize", "return", "done"},
              NEW c, Kept("verification", "traces", c)
       PROVE  Kept("verification", "traces", c)'
  <2>1. WriteOf("traces", c).file = "traces"
    BY DEF WriteOf
  <2>2. CASE rpc = "verification"
    <3>1. w = WriteOf("traces", c)
      BY <1>1, <1>10, <2>2, ListOfOne DEF Kept
    <3> QED BY <1>2, <1>5, <2>1, <3>1 DEF Kept
  <2>3. CASE rpc # "verification"
    <3>1. w.file # "traces" /\ WriteOf("traces", c) \in artifacts
      BY <1>3, <1>10, <2>3 DEF FilesOf, Kept
    <3> QED BY <1>2, <1>5, <2>1, <3>1 DEF Kept
  <2> QED BY <2>2, <2>3
<1>11. ASSUME rpc \in {"finalize", "return", "done"}, NEW c, Kept("finalize", "result", c)
       PROVE  Kept("finalize", "result", c)'
  <2>1. WriteOf("result", c).file = "result"
    BY DEF WriteOf
  <2>2. CASE rpc = "finalize"
    <3>1. w = WriteOf("result", c)
      BY <1>1, <1>11, <2>2, ListOfOne DEF Kept
    <3> QED BY <1>2, <1>5, <2>1, <3>1 DEF Kept
  <2>3. CASE rpc # "finalize"
    <3>1. w.file # "result" /\ WriteOf("result", c) \in artifacts
      BY <1>3, <1>11, <2>3 DEF FilesOf, Kept
    <3> QED BY <1>2, <1>5, <2>1, <3>1 DEF Kept
  <2> QED BY <2>2, <2>3
<1>12. TracesInv'
  BY <1>2, <1>10 DEF Inv, TracesInv
<1>13. ResultInv'
  <2> SUFFICES ASSUME rpc \in {"finalize", "return", "done"} PROVE ResultInv'
    BY <1>2 DEF ResultInv
  <2>1. PICK r \in Result :
          r.status = StatusOf(terminal) /\ Earned(r) /\ Kept("finalize", "result", r)
    BY DEF Inv, ResultInv
  <2>2. \A a \in artifacts' : a \in artifacts \/ a.file = "result"
    BY <1>3, <1>5 DEF FilesOf
  <2>3. Earned(r)'
    BY <1>2, <2>1, <2>2 DEF Earned
  <2>4. StatusOf(terminal)' = StatusOf(terminal)
    BY <1>2
  <2> QED BY <1>11, <2>1, <2>3, <2>4 DEF ResultInv
<1>14. ManifestInv'
  <2>1. CASE w.file = "manifest"
    <3>1. rpc = "return" /\ w.content \in Manifest /\ w = WriteOf("manifest", w.content)
      BY <1>3, <2>1 DEF FilesOf, Inv, RunTypes, Phases
    <3>2. Sound(w.content)
      BY <1>1, <3>1 DEF Inv, ManifestInv
    <3>3. w.content.artifacts = artifacts
      <4>1. PICK m \in Manifest : m.artifacts = artifacts /\ pending = <<WriteOf("manifest", m)>>
        BY <1>1, <3>1, ListOfOne DEF Inv, ManifestInv
      <4> QED BY <1>1, <4>1, ListOfOne, WriteTypes
    <3> QED BY <1>2, <1>4, <1>5, <1>6, <2>1, <3>1, <3>2, <3>3 DEF ManifestInv, Sound
  <2>2. CASE w.file # "manifest"
    <3>1. rpc \notin {"return", "done"}
      BY <1>3, <2>2 DEF FilesOf
    <3>2. tree'["manifest"] = tree["manifest"]
      BY <1>4, <2>2 DEF Files
    <3> QED BY <1>2, <1>6, <3>1, <3>2 DEF Inv, ManifestInv, Sound
  <2> QED BY <2>1, <2>2
<1> QED BY <1>7, <1>8, <1>9, <1>12, <1>13, <1>14 DEF Inv

-----------------------------------------------------------------------------
(* A run starts, and may die.                                               *)

\* Whatever the tree holds, there is nothing yet for a new process to keep.
LEMMA ForgettingPreserves ==
  ASSUME Inv, ForgetsAll, UNCHANGED tree, run' \in 0..MaxRuns, spec' \in Specs,
         rpc' = "idle" \/ (rpc' = "admission" /\ run' > 0),
         \/ pending' = <<>>
         \/ \E w \in Write : rpc' = "admission" /\ w.file = "spec" /\ pending' = <<w>>
  PROVE  Inv'
<1>1. /\ capability' = "none" /\ backend' = "none" /\ terminal' = "none"
      /\ steps' = <<>> /\ events' = <<>> /\ artifacts' = {} /\ dispatched' = <<>>
  BY DEF ForgetsAll
<1>2. \A w \in Write : pending' = <<w>> => rpc' = "admission" /\ w.file = "spec"
  BY ListOfOne
<1>3. RunTypes'
  BY <1>1 DEF RunTypes, Phases
<1>4. StoreTypes'
  BY <1>1 DEF Inv, StoreTypes
<1>5. StepsInv'
  <2>1. spec' \in RunSpec
    BY RunnerAssumption
  <2>2. Len(spec'.workflow) \in Nat
    BY <2>1, LenProperties DEF RunSpec
  <2> QED BY <1>1, <2>2 DEF StepsInv, NothingAfterError
<1>7. EventsInv'
  BY <1>1 DEF EventsInv
<1>8. PendingInv' /\ StoreInv' /\ TracesInv' /\ ResultInv'
  BY <1>1, <1>2 DEF PendingInv, FilesOf, StoreInv, TracesInv, ResultInv
<1>9. ManifestInv'
  <2>1. \A m \in Manifest : pending' # <<WriteOf("manifest", m)>>
    BY <1>2, WriteTypes
  <2> QED BY <2>1 DEF Inv, ManifestInv, Sound
<1> QED BY <1>3, <1>4, <1>5, <1>7, <1>8, <1>9 DEF Inv

LEMMA StartRunPreserves ==
  ASSUME Inv, StartRun
  PROVE  Inv'
<1>1. /\ run < MaxRuns /\ run' = run + 1 /\ rpc' = "admission" /\ ForgetsAll
      /\ UNCHANGED tree
  BY DEF StartRun
<1>2. PICK s \in Specs : spec' = s /\ pending' = <<WriteOf("spec", s.id)>>
  BY DEF StartRun
<1>3. s.id \in Contents
  BY RunnerAssumption DEF RunSpec, Contents
<1>4. WriteOf("spec", s.id) \in Write /\ WriteOf("spec", s.id).file = "spec"
  BY <1>3, WriteTypes DEF Files
<1>5. run' \in 0..MaxRuns /\ run' > 0
  BY <1>1, RunnerAssumption DEF Inv, RunTypes
<1> QED BY <1>1, <1>2, <1>4, <1>5, ForgettingPreserves

LEMMA DiesPreserves ==
  ASSUME Inv, Dies
  PROVE  Inv'
BY ForgettingPreserves DEF Dies, Inv, RunTypes

-----------------------------------------------------------------------------
(* The phases.                                                              *)

\* What a step of the runner that starts no run and writes no file keeps.
LEMMA FilesStay ==
  ASSUME Inv, pending = <<>>, UNCHANGED <<artifacts, tree>>,
         rpc' \notin {"return", "done"},
         \/ pending' = <<>>
         \/ \E w \in Write \ ManifestWrite :
              pending' = <<w>> /\ w.file \in FilesOf(rpc')
  PROVE  StoreTypes' /\ StoreInv' /\ PendingInv' /\ ManifestInv'
<1>1. \A w : pending' = <<w>> => w \in Write \ ManifestWrite /\ w.file \in FilesOf(rpc')
  BY ListOfOne
<1>2. StoreTypes'
  BY DEF Inv, StoreTypes
<1>3. StoreInv' /\ PendingInv'
  BY <1>1, ListOfOne DEF Inv, StoreInv, PendingInv
<1>4. ManifestInv'
  <2>1. \A m \in Manifest : pending' # <<WriteOf("manifest", m)>>
    BY <1>1 DEF WriteOf, ManifestWrite
  <2> QED BY <2>1 DEF Inv, ManifestInv, Sound
<1> QED BY <1>2, <1>3, <1>4

LEMMA AdmissionPreserves ==
  ASSUME Inv, Refused \/ Probed
  PROVE  Inv'
<1>1. /\ pending = <<>> /\ rpc = "admission" /\ rpc' = "workflow"
      /\ UNCHANGED <<run, spec, steps, events, artifacts, tree, dispatched>>
  BY DEF Refused, Probed, Phase, admissionVars, storeVars
<1>2. spec \in RunSpec /\ Len(spec.workflow) \in Nat
  BY RunnerAssumption, LenProperties DEF Inv, RunTypes, RunSpec
<1>3. /\ capability' \in {"none", "ready", "unready"}
      /\ backend' \in {"none", "open", "closed"}
      /\ terminal' \in Errors \union {"none"}
  BY RunnerAssumption DEF Refused, Probed, admissionVars, Inv, RunTypes, Errors
<1>4. \/ pending' = <<>>
      \/ \E w \in Write \ ManifestWrite : pending' = <<w>> /\ w.file \in FilesOf("workflow")
  <2>1. CASE Refused
    BY <1>1, <2>1 DEF Refused
  <2>2. CASE Probed
    <3>1. spec.id \in Contents
      BY <1>2 DEF RunSpec, Contents
    <3>2. WriteOf("capabilities", spec.id) \in Write \ ManifestWrite
      BY <3>1, WriteTypes DEF Files, ManifestWrite
    <3> QED BY <2>2, <3>1, <3>2, WriteTypes DEF Probed, Files, FilesOf
  <2> QED BY <2>1, <2>2
<1>5. RunTypes'
  BY <1>1, <1>3 DEF Inv, RunTypes, Phases
<1>6. StoreTypes' /\ StoreInv' /\ PendingInv' /\ ManifestInv'
  BY <1>1, <1>4, FilesStay
<1>7. StepsInv'
  BY <1>1 DEF Inv, StepsInv, NothingAfterError
<1>8. EventsInv'
  <2>1. backend # "closed"
    BY <1>1 DEF Inv, EventsInv
  <2>2. backend' # "closed"
    BY <2>1 DEF Refused, Probed
  <2> QED BY <1>1, <2>2 DEF EventsInv
<1>9. TracesInv' /\ ResultInv'
  BY <1>1 DEF TracesInv, ResultInv
<1> QED BY <1>5, <1>6, <1>7, <1>8, <1>9 DEF Inv

\* A step of the workflow: of what is appended, one record.
LEMMA WorkflowPreserves ==
  ASSUME Inv, InWorkflow, NEW status \in StepStatus, steps' = Append(steps, status),
         terminal' \in Errors \union {"none"},
         terminal = "none" => status # "skipped",
         terminal # "none" => status = "skipped" /\ terminal' # "none",
         terminal' = "none" <=> terminal = "none" /\ status = "passed",
         \/ status # "passed" /\ UNCHANGED <<events, pending, dispatched>>
         \/ terminal = "none" /\ Effect
  PROVE  Inv'
<1> PICK n : n = Len(steps) + 1
  OBVIOUS
<1>1. /\ pending = <<>> /\ rpc = "workflow" /\ Len(steps) < Len(spec.workflow)
      /\ UNCHANGED <<run, spec, capability, rpc, backend, artifacts, tree>>
  BY DEF InWorkflow, admissionVars, storeVars
<1>2. /\ steps' \in Seq(StepStatus) /\ Len(steps') = n /\ n \in Nat /\ Len(steps) \in Nat
      /\ (\A i \in 1..Len(steps) : steps'[i] = steps[i]) /\ steps'[n] = status
      /\ n = Len(steps) + 1
  BY StepRecorded, LenProperties DEF Inv, RunTypes
<1>3. Len(spec.workflow) \in Nat /\ spec \in RunSpec
  BY RunnerAssumption, LenProperties DEF Inv, RunTypes, RunSpec
<1>4. /\ dispatched \in Seq(Nat) /\ Len(dispatched) \in Nat
      /\ DOMAIN dispatched = 1..Len(dispatched)
  BY LenProperties DEF Inv, RunTypes
<1>5. events \in Seq(Nat) /\ backend # "closed"
  BY <1>1 DEF Inv, RunTypes, EventsInv
<1>6. CASE status # "passed" /\ UNCHANGED <<events, pending, dispatched>>
  <2>1. RunTypes'
    BY <1>1, <1>2, <1>6 DEF Inv, RunTypes
  <2>2. StoreTypes' /\ StoreInv' /\ PendingInv' /\ ManifestInv'
    BY <1>1, <1>6, FilesStay
  <2>3. StepsInv'
    <3>1. NothingAfterError'
      BY <1>1, <1>2, <1>4, <1>6 DEF Inv, StepsInv, NothingAfterError
    <3> QED BY <1>1, <1>2, <1>3, <1>6, <3>1 DEF Inv, StepsInv
  <2>4. EventsInv' /\ TracesInv' /\ ResultInv'
    BY <1>1, <1>5 DEF EventsInv, TracesInv, ResultInv
  <2> QED BY <2>1, <2>2, <2>3, <2>4 DEF Inv
<1>7. CASE terminal = "none" /\ Effect
  <2>1. /\ dispatched' = Append(dispatched, n)
        /\ events' = events \/ events' = Append(events, n)
        /\ pending' = <<>> \/ pending' = <<WriteOf("artifact", n)>>
    BY <1>7 DEF Effect, Declaration
  <2>2. /\ Len(dispatched) = Len(steps)
        /\ \A i \in 1..Len(steps) : steps[i] = "passed"
    BY <1>7 DEF Inv, StepsInv
  <2>3. /\ dispatched' \in Seq(Nat) /\ Len(dispatched') = n /\ DOMAIN dispatched' = 1..n
        /\ (\A i \in 1..Len(dispatched) : dispatched'[i] = dispatched[i])
        /\ dispatched'[n] = n
    <3>1. /\ Append(dispatched, n) \in Seq(Nat)
          /\ Len(Append(dispatched, n)) = Len(dispatched) + 1
          /\ \A i \in 1..Len(dispatched) : Append(dispatched, n)[i] = dispatched[i]
          /\ Append(dispatched, n)[Len(dispatched) + 1] = n
      BY <1>2, <1>4, AppendProperties
    <3> QED BY <1>2, <2>1, <2>2, <3>1, LenProperties
  <2>4. events' \in Seq(Nat)
    <3>1. Append(events, n) \in Seq(Nat)
      BY <1>2, <1>5, AppendProperties
    <3> QED BY <1>5, <2>1, <3>1
  <2>5. RunTypes'
    BY <1>1, <1>2, <2>3, <2>4 DEF Inv, RunTypes
  <2>6. n \in Contents
    BY <1>2 DEF Contents
  <2>7. WriteOf("artifact", n) \in Write \ ManifestWrite
          /\ WriteOf("artifact", n).file = "artifact"
    BY <2>6, WriteTypes DEF Files, ManifestWrite
  <2>8. StoreTypes' /\ StoreInv' /\ PendingInv' /\ ManifestInv'
    BY <1>1, <2>1, <2>7, FilesStay DEF FilesOf
  <2>9. StepsInv'
    <3>1. NothingAfterError'
      <4>1. \A i \in 1..n : dispatched'[i] = i
        BY <1>2, <2>2, <2>3, <1>4 DEF Inv, StepsInv, NothingAfterError
      <4> QED BY <1>1, <1>2, <1>4, <2>2, <2>3, <4>1 DEF NothingAfterError
    <3> QED BY <1>1, <1>2, <1>3, <1>7, <2>2, <2>3, <3>1 DEF Inv, StepsInv
  <2>10. EventsInv' /\ TracesInv' /\ ResultInv'
    BY <1>1, <1>5 DEF EventsInv, TracesInv, ResultInv
  <2> QED BY <2>5, <2>8, <2>9, <2>10 DEF Inv
<1> QED BY <1>6, <1>7

LEMMA StepsPreserve ==
  ASSUME Inv, StepSkipped \/ StepPasses \/ StepRaises
  PROVE  Inv'
<1>1. terminal \in Errors \union {"none"} /\ Raised \subseteq Errors
  BY RunnerAssumption DEF Inv, RunTypes
<1>2. CASE StepSkipped
  BY <1>1, <1>2, WorkflowPreserves DEF StepSkipped, StepStatus
<1>3. CASE StepPasses
  BY <1>1, <1>3, WorkflowPreserves DEF StepPasses, StepStatus
<1>4. CASE StepRaises
  <2>1. PICK error \in Raised : steps' = Append(steps, error) /\ terminal' = error
    BY <1>4 DEF StepRaises
  <2>2. error \in StepStatus /\ error \notin {"passed", "skipped", "none"}
    BY <1>1 DEF StepStatus, Errors
  <2>3. /\ InWorkflow /\ terminal = "none"
        /\ UNCHANGED <<events, pending, dispatched>> \/ Effect
    BY <1>4 DEF StepRaises
  <2> QED BY <1>1, <2>1, <2>2, <2>3, WorkflowPreserves
<1> QED BY <1>2, <1>3, <1>4

LEMMA TeardownPreserves ==
  ASSUME Inv, Teardown
  PROVE  Inv'
<1>1. /\ pending = <<>> /\ rpc = "workflow" /\ rpc' = "verification"
      /\ Len(steps) = Len(spec.workflow)
      /\ backend' = IF backend = "open" THEN "closed" ELSE backend
      /\ UNCHANGED <<run, spec, capability, terminal, steps, artifacts, tree, dispatched>>
  BY DEF Teardown, Closing, Phase, admissionVars, storeVars
<1>2. /\ events' = IF backend = "open" /\ spec.backend = "native"
                  THEN Append(events, AdapterEnd) ELSE events
      /\ IF backend = "none" THEN pending' = <<>>
         ELSE pending' = <<WriteOf("traces", events')>>
  BY <1>1 DEF Teardown, Closing
<1>3. /\ events \in Seq(Nat) /\ AdapterEnd \in Nat
      /\ backend \in {"none", "open"}
  BY <1>1 DEF Inv, RunTypes, EventsInv, AdapterEnd
<1>4. /\ events' \in Seq(Nat)
      /\ backend = "open" /\ spec.backend = "native" =>
           events' # <<>> /\ events'[Len(events')] = AdapterEnd
  <2>1. /\ Append(events, AdapterEnd) \in Seq(Nat)
        /\ Append(events, AdapterEnd) # <<>>
        /\ Len(Append(events, AdapterEnd)) = Len(events) + 1
        /\ Append(events, AdapterEnd)[Len(events) + 1] = AdapterEnd
    BY <1>3, AppendProperties
  <2> QED BY <1>2, <1>3, <2>1
<1>5. WriteOf("traces", events') \in Write \ ManifestWrite
        /\ WriteOf("traces", events').file = "traces"
  <2>1. events' \in Contents
    BY <1>4 DEF Contents
  <2> QED BY <2>1, WriteTypes DEF Files, ManifestWrite
<1>6. RunTypes'
  BY <1>1, <1>4 DEF Inv, RunTypes, Phases
<1>7. StoreTypes' /\ StoreInv' /\ PendingInv' /\ ManifestInv'
  BY <1>1, <1>2, <1>5, FilesStay DEF FilesOf
<1>8. StepsInv'
  BY <1>1 DEF Inv, StepsInv, NothingAfterError
<1>9. EventsInv'
  BY <1>1, <1>3, <1>4 DEF EventsInv
<1>10. TracesInv'
  <2>1. backend' # "none" => pending' = <<WriteOf("traces", events')>> /\ pending' # <<>>
    BY <1>1, <1>2, ListOfOne
  <2> QED BY <1>1, <2>1 DEF TracesInv, Kept
<1>11. ResultInv'
  BY <1>1 DEF ResultInv
<1> QED BY <1>6, <1>7, <1>8, <1>9, <1>10, <1>11 DEF Inv

LEMMA VerificationPreserves ==
  ASSUME Inv, Verification
  PROVE  Inv'
<1>1. /\ pending = <<>> /\ rpc = "verification" /\ rpc' = "gates"
      /\ pending' = <<>> \/ pending' = <<WriteOf("runtime", Exercised)>>
      /\ UNCHANGED <<run, spec, capability, backend, terminal, steps, events,
                     artifacts, tree, dispatched>>
  BY DEF Verification, Phase, admissionVars, storeVars
<1>2. Exercised \in Contents
  <2>1. spec.workflow \in Seq([method : STRING, needs : Nat])
    BY RunnerAssumption DEF Inv, RunTypes, RunSpec
  <2>2. Len(steps) = Len(spec.workflow)
    BY <1>1 DEF Inv, StepsInv
  <2>3. \A i \in 1..Len(spec.workflow) :
          spec.workflow[i] \in [method : STRING, needs : Nat]
    BY <2>1, ElementOfSeq
  <2>4. Exercised \in SUBSET STRING
    BY <2>2, <2>3 DEF Exercised, Outputs
  <2> QED BY <2>4 DEF Contents
<1>3. WriteOf("runtime", Exercised) \in Write \ ManifestWrite
        /\ WriteOf("runtime", Exercised).file = "runtime"
  BY <1>2, WriteTypes DEF Files, ManifestWrite
<1>4. RunTypes'
  BY <1>1 DEF Inv, RunTypes, Phases
<1>5. StoreTypes' /\ StoreInv' /\ PendingInv' /\ ManifestInv'
  BY <1>1, <1>3, FilesStay DEF FilesOf
<1>6. StepsInv' /\ EventsInv'
  BY <1>1 DEF Inv, StepsInv, NothingAfterError, EventsInv
<1>7. TracesInv' /\ ResultInv'
  BY <1>1 DEF Inv, TracesInv, Kept, ResultInv
<1> QED BY <1>4, <1>5, <1>6, <1>7 DEF Inv

LEMMA ConcludePreserves ==
  ASSUME Inv, Conclude
  PROVE  Inv'
<1> PICK r : r = [status |-> StatusOf(FinalError), steps |-> steps, gates |-> Gates]
  OBVIOUS
<1>1. /\ pending = <<>> /\ rpc = "gates" /\ rpc' = "finalize"
      /\ terminal' = FinalError /\ pending' = <<WriteOf("result", r)>>
      /\ UNCHANGED <<run, spec, capability, backend, steps, events, artifacts, tree,
                     dispatched>>
  BY DEF Conclude, Phase, admissionVars, storeVars
<1>2. /\ FinalError \in Errors \union {"none"}
      /\ FinalError = "none" => terminal = "none" /\ EvidenceSuffices
  BY DEF FinalError, Inv, RunTypes, Errors
<1>3. r \in Result
  <2>1. StatusOf(FinalError) \in Errors \union {"passed"}
    BY <1>2 DEF StatusOf
  <2>2. steps \in Seq(StepStatus) /\ Gates \in SUBSET GateResult
    BY GatesAreResults DEF Inv, RunTypes
  <2> QED BY <2>1, <2>2 DEF Result
<1>4. WriteOf("result", r) \in Write \ ManifestWrite /\ WriteOf("result", r).file = "result"
  BY <1>3, ResultsAreContents, WriteTypes DEF Files, ManifestWrite
<1>5. RunTypes'
  BY <1>1, <1>2 DEF Inv, RunTypes, Phases
<1>6. StoreTypes' /\ StoreInv' /\ PendingInv' /\ ManifestInv'
  BY <1>1, <1>4, FilesStay DEF FilesOf
<1>7. StepsInv' /\ EventsInv'
  BY <1>1, <1>2 DEF Inv, StepsInv, NothingAfterError, EventsInv
<1>8. TracesInv'
  BY <1>1 DEF Inv, TracesInv, Kept
<1>9. ResultInv'
  <2>1. r.status = StatusOf(terminal)'
    BY <1>1 DEF StatusOf
  <2>2. Earned(r)'
    <3> SUFFICES ASSUME r.status = "passed" PROVE Earned(r)'
      BY DEF Earned
    <3>1. FinalError = "none"
      BY <1>2 DEF StatusOf, Errors
    <3>2. Len(r.steps) = Len(spec.workflow) /\ DOMAIN r.steps = 1..Len(steps)
      BY <1>1, LenProperties DEF Inv, StepsInv, RunTypes
    <3>3. \A i \in 1..Len(steps) : steps[i] = "passed"
      BY <1>2, <3>1 DEF Inv, StepsInv
    <3>4. /\ \A g \in Gates : g.required => g.status = "passed"
          /\ \A a \in artifacts : a.file \notin spec.oversized
      BY <1>2, <3>1 DEF EvidenceSuffices
    <3> QED BY <1>1, <3>2, <3>3, <3>4 DEF Earned
  <2>3. Kept("finalize", "result", r)'
    BY <1>1, ListOfOne DEF Kept
  <2> QED BY <1>3, <2>1, <2>2, <2>3 DEF ResultInv
<1> QED BY <1>5, <1>6, <1>7, <1>8, <1>9 DEF Inv

LEMMA FinalizePreserves ==
  ASSUME Inv, Finalize
  PROVE  Inv'
<1> PICK m : m = [run |-> run, complete |-> StatusOf(terminal) = "passed",
                  artifacts |-> artifacts]
  OBVIOUS
<1> PICK w : w = WriteOf("manifest", m)
  OBVIOUS
<1>1. /\ pending = <<>> /\ rpc = "finalize" /\ rpc' = "return" /\ pending' = <<w>>
      /\ UNCHANGED <<run, spec, capability, backend, terminal, steps, events,
                     artifacts, tree, dispatched>>
  BY DEF Finalize, Phase, admissionVars, storeVars
<1>2. m \in Manifest
  BY RunnerAssumption DEF Inv, RunTypes, StoreTypes, Manifest
<1>3. /\ w \in Write /\ w.file = "manifest" /\ w.content = m
      /\ \A x : pending' = <<x>> => x = w
  BY <1>1, <1>2, WriteTypes, ListOfOne
<1>4. PICK r \in Result : /\ r.status = StatusOf(terminal) /\ Earned(r)
                          /\ WriteOf("result", r) \in artifacts
  BY <1>1 DEF Inv, ResultInv, Kept
<1>5. Sound(m)
  <2>1. WriteOf("result", r).file = "result" /\ WriteOf("result", r).content = r
    BY DEF WriteOf
  <2> QED BY <1>4, <2>1 DEF Sound
<1>6. RunTypes' /\ StoreTypes'
  BY <1>1, <1>3 DEF Inv, RunTypes, StoreTypes, Phases
<1>7. StepsInv' /\ EventsInv'
  BY <1>1 DEF Inv, StepsInv, NothingAfterError, EventsInv
<1>8. PendingInv' /\ StoreInv'
  BY <1>1, <1>3, ListOfOne DEF Inv, PendingInv, FilesOf, StoreInv
<1>9. TracesInv'
  BY <1>1 DEF Inv, TracesInv, Kept
<1>10. ResultInv'
  BY <1>1, <1>4 DEF ResultInv, Kept, Earned
<1>11. ManifestInv'
  <2>1. \A x \in Manifest : pending' = <<WriteOf("manifest", x)>> => x = m
    BY <1>3, WriteTypes
  <2> QED BY <1>1, <1>2, <1>5, <2>1 DEF Inv, ManifestInv, Sound
<1> QED BY <1>6, <1>7, <1>8, <1>9, <1>10, <1>11 DEF Inv

LEMMA ReturnPreserves ==
  ASSUME Inv, Return
  PROVE  Inv'
<1>1. /\ pending = <<>> /\ pending' = <<>> /\ rpc = "return" /\ rpc' = "done"
      /\ UNCHANGED <<run, spec, capability, backend, terminal, steps, events,
                     artifacts, tree, dispatched>>
  BY DEF Return, Phase, admissionVars, storeVars
<1>2. \A x : pending # <<x>>
  BY <1>1, ListOfOne
<1> QED
  BY <1>1, <1>2
  DEF Inv, RunTypes, Phases, StoreTypes, StepsInv, NothingAfterError, EventsInv,
      PendingInv, StoreInv, TracesInv, Kept, ResultInv, Earned, ManifestInv, Sound

-----------------------------------------------------------------------------
(* The theorems about one tree and its runs.                                *)

LEMMA NextPreserves ==
  ASSUME Inv, [Next]_vars
  PROVE  Inv'
<1>1. CASE Opens
  BY <1>1, OpensPreserves
<1>2. CASE Fills
  BY <1>2, FillsPreserves
<1>3. CASE StartRun
  BY <1>3, StartRunPreserves
<1>4. CASE Refused \/ Probed
  BY <1>4, AdmissionPreserves
<1>5. CASE StepSkipped \/ StepPasses \/ StepRaises
  BY <1>5, StepsPreserve
<1>6. CASE Teardown
  BY <1>6, TeardownPreserves
<1>7. CASE Verification
  BY <1>7, VerificationPreserves
<1>8. CASE Conclude
  BY <1>8, ConcludePreserves
<1>9. CASE Finalize
  BY <1>9, FinalizePreserves
<1>10. CASE Return
  BY <1>10, ReturnPreserves
<1>11. CASE Dies
  BY <1>11, DiesPreserves
<1>12. CASE UNCHANGED vars
  BY <1>12
  DEF vars, Inv, RunTypes, StoreTypes, StepsInv, NothingAfterError, EventsInv,
      PendingInv, StoreInv, TracesInv, Kept, ResultInv, Earned, ManifestInv, Sound
<1> QED BY <1>1, <1>2, <1>3, <1>4, <1>5, <1>6, <1>7, <1>8, <1>9, <1>10, <1>11,
           <1>12 DEF Next

LEMMA InvInductive ==
  Spec => []Inv
BY InitHolds, NextPreserves, PTL DEF Spec

\* A run that is over has closed every file: nothing is pending.
LEMMA OverMeansWritten ==
  Inv /\ rpc = "done" => pending = <<>>
BY DEF Inv, ManifestInv

\* What every file holds at the end of a run.
LEMMA OverMeansListed ==
  ASSUME Inv, rpc = "done"
  PROVE  /\ \A r \in artifacts : tree[r.file] = r.content
         /\ backend # "none" => WriteOf("traces", events) \in artifacts
         /\ \E r \in Result : /\ r.status = StatusOf(terminal) /\ Earned(r)
                              /\ WriteOf("result", r) \in artifacts
<1>1. pending = <<>>
  BY OverMeansWritten
<1> QED BY <1>1, ListOfOne DEF Inv, StoreInv, TracesInv, ResultInv, Kept

\* Runner and store keep their types (runner.py:73-264).
THEOREM TypeCorrect ==
  Spec => []TypeOK
<1>1. Inv => TypeOK
  <2> SUFFICES ASSUME Inv PROVE TypeOK
    OBVIOUS
  <2>1. \A i \in DOMAIN pending : pending[i].file \in Files
    <3>1. ASSUME NEW w \in Write, pending = <<w>>
          PROVE  \A i \in DOMAIN pending : pending[i].file \in Files
      BY <3>1, PartsOfWrite
    <3> QED BY <3>1 DEF Inv, StoreTypes
  <2>2. \A r \in artifacts : r.file \in Files \ {"manifest"}
    BY DEF Inv, StoreTypes, Artifact
  <2>3. tree["result"] \notin {Absent, Partial} =>
          \A g \in tree["result"].gates : g.status \in {"passed", "blocked", "failed"}
    BY DEF Inv, StoreTypes, Result, GateResult
  <2> QED BY <2>1, <2>2, <2>3 DEF Inv, RunTypes, StoreTypes, Phases, TypeOK
<1> QED BY <1>1, InvInductive, PTL

\* When a run has returned, every file its manifest lists holds what the
\* manifest says, whatever died over the tree before (evidence.py:21-43,
\* 97-113, runner.py:262-264).
THEOREM ManifestTrue ==
  Spec => []ManifestVerifies
<1>1. Inv => ManifestVerifies
  <2> SUFFICES ASSUME Inv, rpc = "done"
               PROVE  /\ Verifies
                      /\ \E r \in tree["manifest"].artifacts : r.file = "result"
                      /\ backend # "none" =>
                           \E r \in tree["manifest"].artifacts : r.file = "traces"
    BY DEF ManifestVerifies
  <2>1. tree["manifest"] \in Manifest /\ tree["manifest"].artifacts = artifacts
    BY DEF Inv, ManifestInv
  <2>2. tree["manifest"] \notin {Absent, Partial}
    BY <2>1, RunnerAssumption
  <2>3. \A f, c : WriteOf(f, c).file = f
    BY DEF WriteOf
  <2> QED BY <2>1, <2>2, <2>3, OverMeansListed DEF Verifies
<1> QED BY <1>1, InvInductive, PTL

\* A manifest that agrees with the files says complete exactly if the result
\* beside it says passed, at every moment and whatever run left it
\* (runner.py:262-263).
THEOREM CompleteTrue ==
  Spec => []CompleteIsPassed
<1>1. Inv => CompleteIsPassed
  <2> SUFFICES ASSUME Inv, Verifies
               PROVE  tree["manifest"].complete <=> tree["result"].status = "passed"
    BY DEF CompleteIsPassed
  <2>1. tree["manifest"] \in Manifest
    BY DEF Verifies, Inv, StoreTypes
  <2>2. Sound(tree["manifest"])
    BY <2>1 DEF Inv, ManifestInv
  <2> QED BY <2>2 DEF Sound, Verifies
<1> QED BY <1>1, InvInductive, PTL

\* Nothing is retried and nothing happens after an error (runner.py:126-165).
THEOREM ErrorsEndIt ==
  Spec => []NothingAfterError
<1>1. Inv => NothingAfterError
  BY DEF Inv, StepsInv
<1> QED BY <1>1, InvInductive, PTL

\* A passed result stands on every step, every required gate, and the bound on
\* artifacts (runner.py:211-227).
THEOREM PassedEarned ==
  Spec => []PassedIsEarned
<1>1. Inv => PassedIsEarned
  <2> SUFFICES ASSUME Inv, rpc = "done", tree["result"].status = "passed"
               PROVE  /\ Len(tree["result"].steps) = Len(spec.workflow)
                      /\ \A i \in DOMAIN tree["result"].steps :
                           tree["result"].steps[i] = "passed"
                      /\ \A g \in tree["result"].gates :
                           g.required => g.status = "passed"
                      /\ \A a \in artifacts :
                           a.file \in spec.oversized => a.file = "result"
    BY DEF PassedIsEarned
  <2>1. PICK r \in Result : Earned(r) /\ WriteOf("result", r) \in artifacts
    BY OverMeansListed
  <2>2. tree["result"] = r
    BY <2>1, OverMeansListed DEF WriteOf
  <2> QED BY <2>1, <2>2 DEF Earned
<1> QED BY <1>1, InvInductive, PTL

\* The traces of a run that returned are the whole log of its backend, a native
\* one's up to the record of the adapter's end, wherever the run failed and
\* whatever died over the tree before (runner.py:167-177).
THEOREM TracesKept ==
  Spec => []TracesComplete
<1>1. Inv => TracesComplete
  <2> SUFFICES ASSUME Inv, rpc = "done", backend # "none"
               PROVE  /\ tree["traces"] = events
                      /\ spec.backend = "native" =>
                           events # <<>> /\ events[Len(events)] = AdapterEnd
    BY DEF TracesComplete
  <2>1. tree["traces"] = events
    BY OverMeansListed DEF WriteOf
  <2>2. backend = "closed"
    BY DEF Inv, RunTypes, EventsInv
  <2> QED BY <2>1, <2>2 DEF Inv, EventsInv
<1> QED BY <1>1, InvInductive, PTL

-----------------------------------------------------------------------------
(* The comparison.                                                          *)

\* The run that the comparison may overlap with can write its result no more.
ResultStands ==
  /\ run = prior + 1
  /\ rpc \in {"idle", "return", "done"} \/ (rpc = "finalize" /\ pending = <<>>)

Seen == IF "result" \in DOMAIN digest THEN digest["result"] ELSE Absent
AgreesBefore == "result" \in DOMAIN before /\ before["result"] = data

\* What was read is what was digested before, or what no run will change.
LoadInv ==
  cpc \in {"before", "read", "after", "compared"} =>
    /\ prior \in Nat /\ prior <= run
    /\ run = prior => rpc \in {"idle", "done"}
    /\ run <= prior + 1 =>
         /\ cpc = "before" /\ "result" \notin listed =>
              Seen = tree["result"] \/ tree["result"] = Partial \/ ResultStands
         /\ cpc \in {"read", "after", "compared"} => data \notin {Absent, Partial}
         /\ cpc = "read" =>
              AgreesBefore \/ (ResultStands /\ tree["result"] = data)
         /\ cpc = "after" =>
              \/ AgreesBefore
              \/ /\ ResultStands /\ tree["result"] = data
                 /\ "result" \in listed \/ ("result" \in DOMAIN digest /\ Seen = data)
         /\ cpc = "compared" =>
              /\ before = digest
              /\ AgreesBefore \/ ("result" \in DOMAIN digest /\ Seen = data)

\* How a step of the runner may change the result.
LEMMA ResultSteps ==
  ASSUME Inv, [Next]_vars, UNCHANGED prior, prior \in Nat, prior <= run,
         run = prior => rpc \in {"idle", "done"}, run' <= prior + 1
  PROVE  /\ prior <= run' /\ run <= prior + 1
         /\ run' = prior => rpc' \in {"idle", "done"}
         /\ \/ tree'["result"] = tree["result"] \/ tree'["result"] = Partial
            \/ ResultStands'
         /\ ResultStands => ResultStands' /\ tree'["result"] = tree["result"]
<1>1. run \in Nat /\ DOMAIN tree = Files /\ rpc \in Phases /\ "result" \in Files
  BY RunnerAssumption DEF Inv, RunTypes, StoreTypes, Files
<1>2. CASE Opens
  <2>1. PICK w \in Write : pending = <<w>>
    BY <1>2 DEF Opens, Inv, StoreTypes
  <2>2. /\ tree' = [tree EXCEPT ![w.file] = Partial] /\ UNCHANGED <<run, rpc, pending>>
    BY <1>2, <2>1, ListOfOne DEF Opens, admissionVars
  <2>3. w.file \in FilesOf(rpc) /\ w.file \in Files
    BY <2>1, PartsOfWrite DEF Inv, PendingInv
  <2>4. ResultStands => w.file # "result"
    BY <2>1, <2>3, ListOfOne DEF ResultStands, FilesOf
  <2>5. tree'["result"] = IF w.file = "result" THEN Partial ELSE tree["result"]
    BY <1>1, <2>2, <2>3
  <2> QED BY <2>2, <2>4, <2>5 DEF ResultStands
<1>3. CASE Fills
  <2>1. PICK w \in Write : pending = <<w>>
    BY <1>3 DEF Fills, Inv, StoreTypes
  <2>2. /\ tree' = [tree EXCEPT ![w.file] = w.content] /\ UNCHANGED <<run, rpc>>
        /\ pending' = <<>>
    BY <1>3, <2>1, ListOfOne DEF Fills, admissionVars
  <2>3. w.file \in FilesOf(rpc) /\ w.file \in Files
    BY <2>1, PartsOfWrite DEF Inv, PendingInv
  <2>4. ResultStands => w.file # "result"
    BY <2>1, <2>3, ListOfOne DEF ResultStands, FilesOf
  <2>5. tree'["result"] = IF w.file = "result" THEN w.content ELSE tree["result"]
    BY <1>1, <2>2, <2>3
  <2>6. w.file = "result" => rpc = "finalize"
    BY <1>1, <2>3 DEF FilesOf, Phases
  <2>7. w.file = "result" => ResultStands'
    BY <1>1, <2>2, <2>6 DEF ResultStands
  <2> QED BY <2>2, <2>4, <2>5, <2>7 DEF ResultStands
<1>4. CASE StartRun
  <2>1. run' = run + 1 /\ rpc' = "admission" /\ UNCHANGED tree
    BY <1>4 DEF StartRun
  <2> QED BY <1>1, <2>1 DEF ResultStands
<1>5. CASE Dies
  <2>1. rpc' = "idle" /\ UNCHANGED <<run, tree>>
    BY <1>5 DEF Dies
  <2> QED BY <1>1, <2>1 DEF ResultStands
<1>6. CASE Refused \/ Probed \/ StepSkipped \/ StepPasses \/ StepRaises \/ Teardown
           \/ Verification \/ Conclude
  <2>1. /\ UNCHANGED <<run, tree>>
        /\ rpc \in {"admission", "workflow", "verification", "gates"}
    BY <1>6 DEF Refused, Probed, StepSkipped, StepPasses, StepRaises, InWorkflow,
                Teardown, Closing, Verification, Conclude, Phase, admissionVars, storeVars
  <2> QED BY <1>1, <2>1 DEF ResultStands
<1>7. CASE Finalize \/ Return
  <2>1. /\ UNCHANGED <<run, tree>> /\ rpc \in {"finalize", "return"}
        /\ rpc' \in {"return", "done"}
    BY <1>7 DEF Finalize, Return, Phase, admissionVars, storeVars
  <2> QED BY <1>1, <2>1 DEF ResultStands
<1>8. CASE UNCHANGED vars
  BY <1>1, <1>8 DEF vars, ResultStands
<1> QED BY <1>2, <1>3, <1>4, <1>5, <1>6, <1>7, <1>8 DEF Next

LEMMA RunKeepsLoad ==
  ASSUME Inv, LoadInv, [Next]_vars, UNCHANGED loadVars
  PROVE  LoadInv'
<1> SUFFICES ASSUME cpc \in {"before", "read", "after", "compared"} PROVE LoadInv'
  BY DEF LoadInv, loadVars
<1>1. /\ prior \in Nat /\ prior <= run
      /\ run = prior => rpc \in {"idle", "done"}
      /\ UNCHANGED <<cpc, listed, digest, before, data, prior>>
  BY DEF LoadInv, loadVars
<1>2. CASE run' <= prior + 1
  <2>1. /\ prior <= run' /\ run <= prior + 1
        /\ run' = prior => rpc' \in {"idle", "done"}
        /\ \/ tree'["result"] = tree["result"] \/ tree'["result"] = Partial
           \/ ResultStands'
        /\ ResultStands => ResultStands' /\ tree'["result"] = tree["result"]
    BY <1>1, <1>2, ResultSteps
  <2> QED BY <1>1, <2>1 DEF LoadInv, Seen, AgreesBefore
<1>3. CASE ~(run' <= prior + 1)
  <2>1. run' \in Nat
    BY NextPreserves, RunnerAssumption DEF Inv, RunTypes
  <2> QED BY <1>1, <1>3, <2>1 DEF LoadInv
<1> QED BY <1>2, <1>3

LEMMA LoadPreserves ==
  ASSUME Inv, LoadInv, Load
  PROVE  LoadInv'
<1>1. /\ run \in Nat
      /\ rpc # "idle" => run > 0
  BY RunnerAssumption DEF Inv, RunTypes
<1>2. CASE LoadReturns
  BY <1>2 DEF LoadReturns, LoadInv
<1>3. CASE LoadStarts
  <2>1. /\ cpc' = "before" /\ listed' = Listed /\ digest' = Nothing
        /\ prior' = IF rpc \in {"idle", "done"} THEN run ELSE run - 1
        /\ UNCHANGED <<rpc, run, tree, pending>>
    BY <1>3 DEF LoadStarts, Begin, vars
  <2>2. "result" \notin listed' => tree["result"] = Absent
    BY <2>1, ComparisonAssumption DEF Listed
  <2>3. Seen' = Absent
    BY <2>1 DEF Seen, Nothing
  <2>4. run > 0 => run - 1 \in Nat /\ run - 1 <= run /\ run - 1 # run
    BY <1>1
  <2> QED BY <1>1, <2>1, <2>2, <2>3, <2>4 DEF LoadInv
<1>4. CASE DigestsFile
  <2>1. /\ UNCHANGED <<rpc, run, tree, pending, cpc, before, data, prior>>
        /\ cpc \in {"before", "after"}
    BY <1>4 DEF DigestsFile, vars
  <2>2. PICK f \in listed :
          /\ digest' = [x \in DOMAIN digest \union {f} |->
                          IF x = f THEN tree[f] ELSE digest[x]]
          /\ listed' = listed \ {f}
    BY <1>4 DEF DigestsFile
  <2>3. f = "result" => "result" \in DOMAIN digest' /\ Seen' = tree["result"]
    BY <2>2 DEF Seen
  <2>4. f # "result" => /\ "result" \in DOMAIN digest' <=> "result" \in DOMAIN digest
                        /\ "result" \in listed' <=> "result" \in listed
                        /\ Seen' = Seen
    BY <2>2 DEF Seen
  <2> QED BY <2>1, <2>3, <2>4 DEF LoadInv, ResultStands, AgreesBefore
<1>5. CASE Reads
  <2>1. /\ cpc = "before" /\ listed = {} /\ before' = digest /\ data' = tree["result"]
        /\ cpc' = IF tree["result"] \in {Absent, Partial} THEN "raised" ELSE "read"
        /\ UNCHANGED <<rpc, run, tree, pending, prior>>
    BY <1>5 DEF Reads, vars
  <2>2. Seen = tree["result"] /\ tree["result"] # Absent => AgreesBefore'
    BY <2>1 DEF Seen, AgreesBefore
  <2> QED BY <2>1, <2>2 DEF LoadInv, ResultStands
<1>6. CASE DigestsAgain
  <2>1. /\ cpc = "read" /\ cpc' = "after" /\ listed' = Listed
        /\ UNCHANGED <<rpc, run, tree, pending, before, data, prior>>
    BY <1>6 DEF DigestsAgain, Begin, vars
  <2>2. tree["result"] # Absent => "result" \in listed'
    BY <2>1, ComparisonAssumption DEF Listed
  <2> QED BY <2>1, <2>2 DEF LoadInv, ResultStands, AgreesBefore
<1>7. CASE LoadEnds
  <2>1. /\ cpc = "after" /\ listed = {}
        /\ cpc' = IF before = digest THEN "compared" ELSE "mutated"
        /\ UNCHANGED <<rpc, run, tree, pending, listed, digest, before, data, prior>>
    BY <1>7 DEF LoadEnds, Unchanged, vars
  <2> QED BY <2>1 DEF LoadInv, Seen, AgreesBefore
<1> QED BY <1>2, <1>3, <1>4, <1>5, <1>6, <1>7 DEF Load

\* However a repetition of the run rewrites the tree meanwhile, what is compared
\* is the result whose digest is reported, and never a file that is being
\* written (compare.py:11-28, 101-104).
THEOREM ComparisonHonest ==
  SpecAll => []ComparesWhatItDigests
<1>1. InitAll => Inv /\ LoadInv
  BY InitHolds DEF InitAll, LoadInv
<1>2. Inv /\ LoadInv /\ [NextAll]_allVars => (Inv /\ LoadInv)'
  <2> SUFFICES ASSUME Inv, LoadInv, [NextAll]_allVars PROVE Inv' /\ LoadInv'
    OBVIOUS
  <2>1. CASE Load
    <3>1. UNCHANGED vars
      BY <2>1 DEF Load, LoadReturns, LoadStarts, DigestsFile, Reads, DigestsAgain, LoadEnds
    <3> QED BY <2>1, <3>1, NextPreserves, LoadPreserves
  <2>2. CASE [Next]_vars /\ UNCHANGED loadVars
    BY <2>2, NextPreserves, RunKeepsLoad
  <2> QED BY <2>1, <2>2 DEF NextAll, allVars
<1>3. Inv /\ LoadInv => ComparesWhatItDigests
  BY DEF LoadInv, AgreesBefore, Seen, ComparesWhatItDigests
<1> QED BY <1>1, <1>2, <1>3, PTL DEF SpecAll
=============================================================================
