# browser-workbench: models and proofs

TLA+ modules beside the sources of browser-workbench. Paths below are relative
to the repository root.

## The system

A *run spec* is executed by the **runner** (`src/workbench/runner.py`): it
creates one **backend**, dispatches the steps of the workflow to it one after
the other, tears it down, evaluates gates and writes a result and a manifest
through the **evidence store**. A backend offers the protocol's operations
(`session.create`, `page.navigate`, `page.observe`, `page.act`, `page.await`,
`session.checkpoint`, `session.export`). There are two:

* the **mock backend** (`mock_backend.py`), deterministic, with a virtual clock;
* the **WebKitGTK backend** (`webkitgtk_backend.py`), which drives a separate
  **native adapter** process (`native/webkitgtk-worker`) over a line-delimited
  JSON channel, the **adapter transport** (`native_transport.py`).

| component | state | operations | hard behaviour | what makes it correct |
| --- | --- | --- | --- | --- |
| adapter transport | `_seq`, `_ordinal`, the frame queue, `_deviations`, the process | `start`, `request`, `pump_events`, `close`, reader thread | lost, late and stray lines, deadlines, crashes, hangs, teardown | no event missing from the evidence unnoticed; an answer is an answer to that request; every call ends; a clean exit is claimed only if seen |
| native adapter | pages, pending dialogs, permissions, downloads, `ordinal` | one handler per `op`, engine callbacks, teardown | callbacks between a request and its deferred reply | one contiguous numbering; one reply per request; tokens consumed once |
| WebKitGTK backend | page projection, pending decisions, lease, event log | protocol operations, `_ingest` | events of one navigation ingested during another call | the projection follows the engine; targets of an older document are refused |
| mock backend | pages, lease, checkpoints, scheduled callbacks, prompts | the same protocol operations | callbacks that outlive a stop, a crash, a resume; overlapping navigations; handover | single writer; callbacks in time and in order; stale targets refused |
| event log | `_seq`, `_raw_ordinal`, `monotonic_ms`, events, raw | `emit`, `capture_raw`, `advance`, `since` | cursors read before later events | append-only, causal |
| runner | steps, terminal error, gates, deviations | `run` | a step fails after having had an effect; teardown fails | each step recorded once, nothing retried, evidence always closed |
| evidence store, comparison | artifacts, manifest | `write_*`, `read_json_ref`, `finalize`, `compare_runs` | a tree changes while it is compared | nothing unverified is compared |
| capabilities | report, ledger | `capability_report`, `require_capabilities`, `RuntimeLedger` | claimed versus exercised | only what was exercised is reported verified |
| corpus | scenario records, ledger, summary of each lane | `run_corpus`, `compare_corpora`, `native_corpus.py`, `corpus_differential.py` | a driver raises anywhere; a summary of an earlier invocation | evidence of each repetition is whole; only passed repetitions count as verified; equivalent lanes had one verdict |
| Playwright oracle | result files of two lanes, one report | `oracle_corpus_differential.py`, `oracle_differential.py`, `runner.mjs` | the oracle's process leaves no result, or an earlier one | a verdict stands on two results of this invocation; nothing hides a difference |
| release gate | exit codes of its checks | `release_gate.py` | repeated over one evidence directory | (order and directories only) |
| bridge | server | `do_POST` | one thread per request, no lock | (see hazards) |
| chrome UI, native drivers, CLI, servo stub | - | - | I/O | not modelled |

Interactions: runner -> backend by method call; backend -> transport by
`request`/`pump_events`, with `_ingest` as the event callback; transport <->
adapter by two pipes and a reader thread; adapter <-> engine by GTK callbacks.

`PROJECT.json` lists the hazards of the code at their lines, with the properties
that watch them.

## Modules

| module | models |
| --- | --- |
| `RequestChannel` | what the transport promises its caller: one request at a time, each ends once, answered only if performed, performed at most once and in order - possibly after it has failed |
| `NativeTransport` | host transport, reader thread, adapter and engine, down to frames and ordinals |
| `NativeTransportProofs` | TLAPS proof of `NativeTransport`'s type invariant |
| `NativeTransportSafety` | TLAPS proofs of its safety properties and of the refinement of `RequestChannel`, but for its liveness |
| `MockBackend` | the mock backend: lease, checkpoint and resume, page objects, virtual clock, awaits |
| `WebKitGtkWorker` | the native adapter's pages: handlers of the pages' operations, engine callbacks, scripts, pending dialogs |
| `WebKitGtkSession` | the WebKitGTK backend over it (EXTENDS `WebKitGtkWorker`): projection of events, tabs, lease, awaits, decisions, clicks, restoration |
| `BrowserDecision` | what a browser-owned request promises: asked once, decided at most once, and recorded as it was decided |
| `WebKitGtkRequests` | permission requests, file choosers and downloads, from the engine's callback to the host's registry, intent and artifact |
| `Runner` | a run from its spec to its manifest, over an artifact store whose writes can be cut off, repeated into the same tree |
| `Comparison` | the loading of a tree for comparison while the runner writes it (EXTENDS `Runner`) |
| `Corpus` | the corpus on the native and the mock lane, and their comparison, gate after gate |
| `OracleCorpus` | the scenarios on WebKitGTK and on the oracle, classified, invocation after invocation |
| `OracleCorpusProofs` | TLAPS proofs of `OracleCorpus`' two invariants |
| `MockBackendProofs` | TLAPS proofs of `MockBackend`'s safety properties |
| `WebKitGtkRequestsProofs` | TLAPS proofs of `WebKitGtkRequests`: the refinement of `BrowserDecision`, quarantined downloads, uploads |
| `RunnerProofs` | TLAPS proofs of `Runner`'s and `Comparison`'s invariants |
| `CorpusProofs` | TLAPS proofs of `Corpus`' properties |
| `WebKitGtkSessionProofs` | TLAPS proofs of `WebKitGtkSession`: types, decisions, crashes, pages, clicks and the host's projection |
| `MCCorpus`, `MCOracleCorpus` | the scenarios of their runs |
| `MCComparison` | the run specs of the run `runner` |
| `MCWebKitGtkSession` | the checkpoint that the runs of `WebKitGtkSession` restore |

`NativeTransport` refines `RequestChannel` (property `ImplementsChannel`), and
`WebKitGtkRequests` refines `BrowserDecision` (`ImplementsDecision`). The
WebKitGTK modules build on what the transport's properties provide - a channel
that loses, repeats and reorders nothing (`AcceptedIsPrefix`) and answers a
request with its own reply only (`AnswerIsGenuine`) - instead of composing with
its frames, which neither side's pages depend on.

### NativeTransport

`hpc` is where the host thread is: `init` and `starting` (`start`), `idle`
(between calls), `request`, `pump`, `closing`/`shutdown`/`reap` (the three
phases of `close`), `closed`, and `blocked`/`failed`/`gone` for a host that gave
up on the transport (the handshake's failure is the backend's `connect`
raising: the runner then never calls `close`). A wait is one state plus `late`:
`queue.get` returns a queued frame even when its timeout is zero, so a wait ends
by its deadline only if it is late *and* the queue is empty. `_next_frame` is
`Accept`, `Refuse` and `TimedOut`, conjoined with what each of its callers does
with the outcome. `_seq` is the length of `verdict`.

The adapter's handlers are reduced to what they write and when: an immediate
reply (ok or error), a deferred one (`evaluate`, `snapshot`), the shutdown reply
followed by the teardown. Each goes through `WriteFrame`, which takes the next
ordinal, blocks on a full pipe, and may lose the line (`let _ = writeln!`). The
engine's callbacks are `EngineEvent`. Faults - a start failure, a crash, a hang,
a lost line, a line that is not JSON - share the budget `MaxFaults`; a wrong
transport version is an initial choice.

Not modelled here: what requests and events say; stderr; a request line so long
that writing it blocks on a full stdin pipe (requests are short, and at most the
timed-out ones are unread).

### MockBackend

A Python closure captures the page *object*, and resuming a checkpoint replaces
it, so `objects` holds every page object there has been, `page` the index of the
current one, and each scheduled callback names its object. The clock is relative:
a callback carries the time it still has to go, and `EventLog.advance` subtracts.
`document` is not in the code: it numbers the documents shown, to say what a
generation should stand for. `trail` keeps the navigation and termination events
of the log, `grants` its `session.created` events. A navigation is known by the
position of its started event.

Each call is one action, except `page.await`: the callbacks it runs are steps
(`AwaitRuns`), so that the clock and the deadline can be looked at in between; no
other call is served meanwhile. Calls that raise without effect are not actions.
Not modelled: titles, values, DOM, history, uploads, downloads, byte budgets of
observations and exports, receipts (data that no property reads), the
`checkpoint_parent` link, conditions on title and generation.

### WebKitGtkWorker and WebKitGtkSession

`inbox` holds the request the adapter has not yet served, `wire` the lines on
their way to the host, replies and events in one order. `views` are the
adapter's pages, with the engine's state of each: the load in progress, the
document shown, whether the web process lives. `evaluations` are the scripts
that have not answered and `dialogs` the adapter's table of pending decisions.
In place of `seq`, a request and its reply are `fresh` as long as the host waits
for that reply.

The host's `pages`, `active` and `prompts` are its projection, `call` the
protocol operation it is in: `request` while `_request` waits for the reply,
then `load`, `prompt`, `death` or `drain` for the operations that go on waiting
for events (`page_await`, `await_pending`, `_act_crash`, `quiesce`). Each call is
one action for what it does up to its request, one for what it does with the
reply, and `TakeEvent` in between, which folds one event into the record of its
page (`_ingest`, `_apply`): whatever the code read before the request may be
stale after it. A request that times out raises, and leaves its reply on the
wire, where the next call takes it for a protocol error. `document` and `restored`
in a host record, `readPage` and `readDocument` in a target, `byHost` in a view,
`decided` and `strays` are not in the code: they remember what happened, to
state the properties.

Assumed of the engine (external): scripts of one page run one after the other
and none while a dialog of the page is open; a navigation replaces the load in
progress, whose failure the engine may or may not report; `load_uri` starts a
new process when the old one died; the reply of an evaluation may come after
events that happened later than the script ran.

Not modelled here: titles, DOM contents, resources, console, history, snapshots,
session export, receipts, what `WebKitGtkRequests` models,
waits on conditions other than idle and a pending prompt; the adapter's own
`active_page`, because every request the host sends names its page.

### WebKitGtkRequests

`requests` is the adapter's four token tables and the engine's side of what they
hold: `held` while the token is in its table, `answers` the decisions the engine
was given (a ghost: the code keeps none), `stage` and `name` of a download.
`records` is the host's three registries, which only `_register_pending` fills.
`files` is the quarantine directory, which is also the artifact store's
`downloads/`: `download.accept` reads a file and writes it back where it was, and
`artifacts` is the record of that write. The wire is that of `WebKitGtkWorker`.

`_act_upload` is five steps, because each of them may take events or fail: the
click (`ActUpload`), the wait for a chooser that was not there before
(`ChooserArrives`), the decision, and the reading of the file's name
(`FileSelected`, `NameRead`). `_act_download` waits (`TakeEvent` in stage
`transfer`), reads (`ReadsDownload`) and stores (`StoresDownload`): a second
download of the same name can begin between the last two. `Deadline` ends a wait
at any time, `RequestTimesOut` a request.

Assumed of the engine (external): scripts of one page run in order; a click on a
file input opens at most one chooser, perhaps much later; a page may open
choosers and ask for permissions by itself; a failed download's file is removed
and its `failed` is followed by `finished`. `cause` and `since` are ghosts.

### Corpus

A repetition is `make`, `driver`, `close`, `flush`, `result`, `finalize`, in the
order of `run_corpus`. A driver is abstract: a sequence of calls, flushes and
handovers, any of which may raise, with or without an effect on a log; what it
asserts is any choice of outcomes. A backend is its event log, a log the number
of times it grew since the backend was made, and `traces` the log that was
written last. A call that returns is counted whether it was logged or not: an
observation, an export, a wait for what already holds and a checkpoint that keeps
the lease add nothing to the log, so evidence and ledger are not tied by a count. `earned` is the ledger of the
repetition, `ledger` that of the corpus.

A gate runs the native corpus, a process of its own, and then the differential,
which runs the mock corpus and compares the two. The native summary is a file,
so it outlives a gate, and may be half written; the mock's is a return value.
One native variant stands for both, which the gate treats alike.

Not modelled here: the corpus identifiers (both lanes load the same file),
`declared_semantics` and `structural`, which are reported and decide nothing,
`runtime-verification.json`, which nobody reads, and the fixture server.

### OracleCorpus

For each scenario in order: inapplicable, not selected, or run by `Runner` and
then by the oracle's process, whose `result.json` is written, cut off or left as
it was; then compared. A result is its terminal code and the rest of the
semantic projection as one value (`steps`). `invocation` in a result is a ghost.
`scripts/oracle_differential.py` is the same with one scenario and without the
declared terminal code. A result cut off is not JSON and ends the script
(`Dies`), as do the oracle's timeout and an exception of `Runner.run`.

### Runner and Comparison

`rpc` is the phase of `Runner.run`. What a phase writes is `pending`, a sequence
of files with their contents; `Opens` truncates the next file and `Fills` fills
and records it, and the next phase waits until nothing is pending. `tree` is the
directory, `artifacts` the store's list. `Dies` ends the process at any point, by
a signal or by an exception that `run` does not catch, and `StartRun` may begin
another run of the same `run_id` over what it left. Digests are contents: two
files have the same digest exactly if they have the same content. `terminal` is the status
of `terminal_error`; `dispatched` remembers which steps had an effect.

The backend is abstract: a step may add to its event log, or add nothing, as an
observation does, and may write one artifact (always the same file, the worst
case for the store); before or after that it may raise any error. `events` is the
log, as the sequence of the steps that added to it since the backend was
connected, with `AdapterEnd` for the record that a native backend's close leaves. `Comparison` adds a second process that loads the
tree as `_load` does; its other side, loaded the same way, is taken as given.

Not modelled here: the identity file, stderr traces, the trimming of a large
result, `read_json_ref`, declared digests, the semantic projection of a
comparison, and what capabilities a report lists.

## Runs

| run | shows | bounds |
| --- | --- | --- |
| `native_transport` | the transport's safety, refinement of `RequestChannel`, and that no wait hangs | handshake, two requests and shutdown (`MaxSeq` 4), one event, one fault, pipe of two lines |
| `mock_backend` | the mock backend's properties | two clients, two sessions, one checkpoint, two moves (navigation, stop or crash), one token |
| `webkit_session` | one page of the WebKitGTK backend through loads, dialogs, clicks, crashes and a missed deadline | one page, two loads, one dialog, one timeout, one line in flight |
| `webkit_tabs` | several pages: host and adapter keep the same ones, events reach their own page | two pages, one load, one dialog, a checkpoint restored and released, two lines in flight |
| `runner` | closed, honest evidence of repeated and interrupted runs, and a comparison that reads it meanwhile | two runs, four specs, two steps, errors failed and blocked, one comparison that digests `result.json` |
| `browser_requests` | decisions are applied once and recorded as applied, uploads answer new choosers, quarantined downloads are whole | two requests of any kinds, three uploads, two names, one missed deadline, two lines in flight |
| `corpus` | whole traces, an earned ledger, and lanes that are equivalent only if alike | a handover and an observation, one or two repetitions, two gates |
| `oracle_corpus` | a verdict stands on its files and hides nothing | three declarations, two terminal codes, two projections, two invocations |
| `stale_oracle` | violation: the result of an earlier invocation is compared as this one's | one projection |
| `await_idle` | violation: a wait for idle ends before the navigation has started | one page, two loads |
| `stray_click` | violation: a target of one page is read from, and a click on it lands in, the active one | two pages, one load |
| `restored_page` | violation: a restoration that failed is reported as open and idle | one page, the restoring load |

Why the bounds suffice. Transport: a late reply needs a request that times out
and a following one (two requests after the handshake), and can also hit the
shutdown; one event can fall into each of these waits; one fault of each kind at
each point is covered by `MaxFaults` 1, and a second fault only shortens a
session that is already broken; a pipe of two lines fills up as soon as the
reader is gone. Mock backend: the interesting cases are pairs (two overlapping
navigations, a navigation and a stop or crash, a navigation around a resume), and
two moves with one checkpoint and two sessions contain them all; the deadline of
7 ms lies between a navigation's commit (5) and finish (10). The clients'
identities matter only as equal or different, so two are enough. WebKitGTK: a
stale projection needs a document and its successor (two loads); a decision that
could be applied twice needs one token and a request that timed out; confusing
pages needs two of them. The two passing runs split these, because two pages with
two loads and a timeout are beyond five minutes. A pipe of one line makes every
handler and callback wait for the host to take the line before it, yet orders
replies and events in every way; the second line in `webkit_tabs` lets an event
of one page be in flight together with an event or the reply of another. What the
host does after it released the lease (`Handover`) is the same for one page as
for two, so only `webkit_tabs` explores it.

Runner: the second run is the one that meets another's tree, and a third adds
only another such tree; one spec has two steps that write one file, so that a
step follows a step and a record is replaced, another a step that refers to the
one before it. Errors of admission and steps are
failed or blocked; invalid arises from the specs and gates, and unsupported is
treated as failed except by the capability gate, which treats it as blocked. The
digests look at the result alone: other files only let a digest notice more
changes. Two repetitions of a run during one comparison could undo each other's
change of `result.json` between the digests; `ComparesWhatItDigests` says that
it excepts them. The run ends after its runs and comparisons, so it does not
check deadlock.

Browser requests: two tokens are a chooser known before an upload and the one it
opens, two downloads of one name, or a permission beside either; one missed deadline
makes one late reply, and a decision sent twice needs no more than that. Two
uploads are one given up and the one after it; a third makes a chain of them: the
chooser that the first one's click opens too late takes the second one's file, and
then the second one's chooser takes the third one's.

Corpus: one scenario flushes in the middle and hands over, the other does
neither; two repetitions can differ, one can not, and the lanes may have
different numbers of them; the second gate finds the summary of the first.
Oracle: the second invocation finds the first one's results; a third finds
nothing new. These runs end after their gates and invocations, so they do not
check deadlock.

The WebKitGTK session runs do not check deadlock: the number of timeouts is bounded, and
a click whose script waits for a dialog that is never decided ends by a timeout
alone.

## Fairness

`NativeTransport!FairSpec` assumes only that the host thread keeps running and
that the clock advances (`WF` of `HostStep`, which includes `DeadlinePasses`).
Nothing is assumed of the adapter, the engine or the reader thread: they may stop
at any point. `MaxEvents` does exclude one behaviour: an engine that emits events
faster than the host takes them for ever keeps the queue from being empty, and
then `_next_frame` never reports the deadline (`native_transport.py:161-165`).

`MockBackend!FairSpec` assumes that the loop of `page_await` runs on (`WF` of
`AwaitStep`): it is sequential Python. Nothing is assumed of the callers.

`WebKitGtkSession!Spec` has no fairness, and its properties are safety
properties: that its waits end is the transport's `HostNeverStuck`; `WebKitGtkRequests` the
same. `Runner`, `Comparison`, `Corpus` and `OracleCorpus` have no fairness
either: their processes may die anywhere.

## Proofs

`NativeTransportProofs`:

* `TypeCorrect`: `Spec => []TypeOK` for all bounds. The invariant is inductive as
  it stands; the proof types the host's, the channel's and the adapter's
  variables separately, and treats the three outcomes of `_next_frame` once each
  (`AcceptType`, `RefuseType`, `TimedOutType`).

`NativeTransportSafety`:

* `AcceptedPrefix`: `Spec => []AcceptedIsPrefix`. The property speaks of frames
  the host has taken and says nothing of those still in the pipe or in the
  reader's queue, from which the next one comes, so it is not inductive. `WireInv`
  adds that every line in flight is the frame the adapter numbered or a mark
  (`InFlight`), that ordinals rise along queue, pipe and adapter (`InOrder`),
  that the exit mark is the last line (`ExitIsLast`), and why nothing is accepted
  once a frame was refused (`BrokenForGood`). Most actions of the model do not
  touch a line; the proof has one lemma for each thing a step can do to the wire
  (write a frame or a stray line, read one, stop reading, accept, refuse) and
  assigns every action to one of them.
* `FaultTerminal`: `Spec => FaultIsTerminal`, from `BrokenForGood` and
  `AcceptOnlyUnbroken`.
* `AnswersGenuine`: `Spec => []AnswerIsGenuine`: a verdict once given stays, the
  log of emitted frames only grows, and an accepted reply is in it.
* `TeardownReal`: `Spec => []CleanTeardownIsReal`. What is performed and what waits
  in the inbox is in the order of issue (`InTurn`), a shutdown is the last of it
  (`ShutdownIsLast`), only what was performed is replied to (`RepliesInv`), so an
  acknowledged shutdown is the last thing performed; and an adapter that ends in
  order has had a shutdown or lost its host, of which `close` records every other
  case as a deviation (`EndInv`).
* `ChannelImplemented`: `Spec => Channel!Spec`, the safety half of
  `ImplementsChannel`, from the same invariant and `VerdictInv`: while the host
  waits one request is pending, and otherwise none is. Every step of the transport
  is an issue, a performance, an answer, a failure or none of them to its caller.

`OracleCorpusProofs`:

* `VerdictsStand`: `Spec => []VerdictsHold`. A report is judged by its files, of
  which it says nothing while they are being made: `IInv` adds that the classes
  given so far in an invocation stand on files that it does not touch again
  (`EntriesHold`), that the scenario under way was selected and has run natively
  in this invocation (`UnderWay`), and that a report met meanwhile is an earlier
  one's (`ReportIsOlder`).
* `TypeCorrect`: `Spec => []TypeOK`, from the same invariant.

`MockBackendProofs`:

* Its `Inv` has three parts. `LeaseInv` and `CallInv` say what a grant and a
  target may be of. `PageInv` relates the queue of callbacks to the trail of
  navigation events: the queue is in order, no callback is overdue or queued
  twice, a finish is behind its commit unless that has happened, and every
  callback belongs to a navigation that has started on its own object, after the
  object's last stop, and has not reported yet (`Belongs`). `Trail`, `Queue` and
  `Driven` take the queue, the objects and the trail as parameters, because one
  call runs several callbacks and appends several events, and the invariant has to
  be carried through the values in between.
* From it follow `TypeCorrect`, `NothingOverdue`, `NavigationsInOrder`,
  `StopsFinal`, `LoadsDriven` and `GenerationsName` as invariants, and
  `HandoverReleased` as an action property.

`WebKitGtkRequestsProofs`, three arguments over one set of types:

* `DecisionImplemented`: `Spec => ImplementsDecision`. The host sends a decision
  and records it when a positive reply comes. That the reply is about this
  decision, and not about an earlier one that missed its deadline, is `CallInv`:
  of all requests, evaluations and replies between the two sides at most one is
  `fresh`, and it is the call's; a fresh positive reply means that the engine's
  one answer to the token is the call's decision. `Settled` says that a token is
  held until it is answered, once; `Announced` that each request is announced
  once; `RecordsInv` that what is recorded was applied. `TypeCorrect` is a corollary.
* `QuarantineHeld`: `Spec => []QuarantineHoldsIt`. What is announced of a download
  is in order on the wire and its end comes last, so once the host has it as
  completed nothing of it is on the way; a file whose name is shared with no other
  download keeps its content; and what a call is about to store was read whole
  (`DownloadInv`).
* `UploadsAnswered`: `Spec => []UploadAnswersItsClick`. The click of an upload is
  in one place at a time - the inbox, the evaluations, the engine's clicks, or the
  chooser it opened - and its decision goes to one chooser that the host had not
  heard of when the upload began (`UploadInv`). A chooser opened too late takes the
  file of a later upload, whose own chooser takes that of one later still: that
  every upload down such a chain was made in turn (`SelectedInTurn`) is proved by
  a least counterexample. An earlier form of the property, that an upload so
  displaced selects nothing, is false from three uploads on; the attempt to prove
  it showed that, and the run has three uploads since.

`RunnerProofs`:

* `Inv` follows what a phase writes: it is `pending` in its phase and in the
  store's list from then on (`Kept`), the list agrees with the files but for the
  one being written (`StoreInv`), and every manifest, also one an earlier run left
  in the tree, is about the result it lists (`Sound`). `StepsInv`
  ties the steps recorded to the steps dispatched, `TracesInv` the traces to the
  log, and `EventsInv` says that the backend is closed on leaving the workflow,
  with the adapter's end as the last record of a native one.
  Theorems: `TypeCorrect`, `ManifestTrue`, `CompleteTrue`, `ErrorsEndIt`,
  `PassedEarned`, `TracesKept`.
* `ComparisonHonest`: `CSpec => []ComparesWhatItDigests`. `ResultStands`: between
  the two digests of a comparison that saw at most one run begin, the result was
  written at most once, so equal digests mean that what was read in between is what
  was digested.

`CorpusProofs`:

* `Inv`: the ledger is the calls of the records that passed, and of the record
  being merged (`RecordsInv`); the steps a driver has taken are a prefix of it, the
  calls among them are what the repetition has earned, and once it is judged its
  traces are its first log (`RepetitionInv`); every summary, also an earlier
  gate's, is `Sound`. Theorems: `TypeCorrect`,
  `TracesAreWhole`, `LedgerEarned`, `EquivalentAlike`.

`WebKitGtkSessionProofs`, five invariants, each inductive given those before it:

* `ChannelInv`: a request that the host waits for is in one place at a time - the
  inbox, an evaluation, or, as its reply, the wire - it is the one the call in
  progress has sent, and unless a request was given up nothing else is under way.
  Pages are numbered in turn, and requests for new ones have numbers left.
  `TypeCorrect` (`TypeOK`) is its first conjunct; it is not inductive by itself,
  because the page a reply names, the token of a decision and the page a new one
  becomes have their types only by these facts.
* `DialogsInv`: of each token, a dialog held is announced once or known as
  pending; a decision asked for is of a pending prompt; its positive reply means
  that the dialog was consumed, once. Hence `DecisionsApplied` (`DecidedOnce`) and
  `PromptsKnown` (`PromptsFollow`).
* `PagesInv`: the host knows the pages the adapter has but for the one that a
  reply under way opens or closes (`Agreed`), what such a reply says is true when
  the host takes it (`Told`), and while `_act_crash` waits for the death its page
  has ended and no request can revive it (`Waits`). What a worker step does to
  pages is one relation (`Moves`) with one lemma that it keeps this invariant, and
  one for each handler and callback that it is such a move. Hence `CrashReal`
  (`CrashIsReal`) and `PagesSame` (`PagesAgree`).
* `ClickInv`: unless a request was given up, the page whose targets the client
  holds shows the document they were read from and bears its mark, or a reading of
  that page is under way; while a reading is under way, no script is blocked and
  the document it has marked is the one whose number its result carries. No step
  but `TARGET_SCRIPT`'s marks a document (`Fades`). Hence `ClicksHit`
  (`ClickHitsItsDocument`).
* `FollowInv`: what the host knows of a page, continued by what is still on the
  wire, is what there is. A page's documents are those the host has counted and
  the commits under way (`Counted`). A load in progress is the host's record, if
  no mark (started, finished, failed, terminated) of the page is under way, or the
  last such mark, which is then a start; a start that is the last mark, and an
  observation behind it, are of a load that is still there; a page the host holds
  for loading without one has its navigation in the inbox (`Loads`). A process
  that ended is known to have or its end is under way, but for an entry restored
  from a checkpoint (`Mourned`). A refused
  navigation means that the page is gone (`Refusals`), and a page the host will
  learn of from a reply under way has shown nothing yet (`Births`, `Unborn`). What
  a worker's step does to a page is one of six things (`Fares`), what the host
  takes off the wire is a shift of it (`Slides`); one lemma each says what they
  keep. Hence `ProjectionTrue` (`ProjectionFollows`): with nothing on the wire and
  no call in progress only the host's record is left.

Assumptions, each checked by TLC where the module is run: `BoundsAssumption` (the
bounds are naturals, the pipe holds at least one line), `OracleAssumption` (the
declarations are a sequence), `RequestsAssumption` (the bounds of
`WebKitGtkRequests` are naturals, `None` is no name), `ConstantsAssumption` (of
`MockBackend`: `PromptUrl` is one of the URLs, `None` is no client),
`WorkerAssumption` and `SessionAssumption` (of `WebKitGtkSession`: there is a page
and room on the wire, `None` is no token and no client, the checkpoints to
restore are records), `RunnerAssumption` (the specs are well typed, `Absent` and `Partial` are no
contents), `ComparisonAssumption` (the result is among the files digested) and
`CorpusAssumption` (the scenarios are a sequence). None bounds the number of
runs, sessions, navigations, pages, uploads or gates.

Every invariant and every action property of the passing runs is stated by a
theorem. Only model-checked is liveness (`HostNeverStuck`, `AwaitEnds`, the
liveness half of `ImplementsChannel`), which is out of the prover's reach.
So is induction over data with the library's theorems, which take an
operator as a parameter; that every non-empty set of naturals has a least element
(`Least`) is proved from the well-foundedness of strict inclusion instead, and
carries the arguments by least counterexample.

## Disagreements between code and documents

Four runs end in a violation on purpose (`await_idle`, `stray_click`,
`restored_page`, `stale_oracle`); `findings` in `PROJECT.json` quotes the
sentence each of them refutes.

Four more properties are stated in the modules, in the words of the document they
come from, and TLC refutes each of them under the constants of the passing run of
the module; they have no run of their own.

* `NativeTransport!ReplyNeverInPump`: `native_transport.py:254-255` says of
  `pump_events` that "A reply can never appear here". A request that raises
  `deadline_exceeded` has not consumed its reply, and the next pump meets it and
  raises `integrity_mismatch`.
* `NativeTransport!NoEventDropped`: `native_transport.py:27-30` wants no engine
  event silently dropped. The shutdown request of `close` (114) has no
  `on_event`, so an event that arrives before its reply is neither traced nor
  recorded as a deviation.
* `MockBackend!OlderTargetRefused`: `docs/ARCHITECTURE.md:21` calls the
  generation monotonically increasing. A resume sets it to the checkpoint's plus
  one (`mock_backend.py:147-149`), which the session may have reached before, and
  a target of that older document passes `_check_target`.
* `MockBackend!SuccessorHasHigherEpoch`: the same line promises a successor a
  higher epoch. `session_create` raises it only when it resumes a checkpoint or
  makes the first page (155-161).

Others the models show or bring to light, without a property:

* `_register_pending` turns a failed download into a completed one when the
  engine reports its end after the failure; `download.accept` then fails to read
  a file the engine has removed, instead of refusing what is not completed.
* Two downloads of one suggested name share one file, and the mock's two uploads
  of one name too (`mock_backend.py:550`): the artifact reference in the earlier
  receipt names no file any more, against `README.md:82` ("raw evidence remains
  addressable").
* The corpus flushes the traces of a repetition's first backend only
  (`corpus.py:378-379`): what the successor of a handover observed is in no
  evidence, nor is the stderr of either adapter.
* Two lanes that fail alike are `equivalent`, and `corpus_differential.py` exits
  with 0; its own `not_proof` reads "Equivalence with the mock denominator shows
  the frozen assertions hold on the native engine".
* `release_gate.py:59` speaks of "the native corpora just produced above"; when
  this gate's native corpus is blocked or dies, the summary of an earlier gate is
  compared. On a host where there never was one, the explicit `--native` of the
  gate makes the differential raise instead of reporting `blocked`.
* `native_corpus.py:3-6` calls a partial run a failure, yet `--repetitions 1` is
  accepted and passes.
* `oracle_corpus_differential.py:14` says that the report always lists twelve
  scenarios; when no adapter is built it lists none (79-82).
* The release gate's own status is that of its first five checks: a `different`
  oracle or corpus differential fails its check and not the gate.

## Not modelled

* The chrome UI's reducer, the native drivers, the command line, the fixture
  server and the Servo stub: straight-line I/O or placeholders without state that
  a step could leave wrong.
* `validate_source.py`, `verify_package.py`, `package_release.py`,
  `disclosure_scan.py`: functions of a file tree.
* The loopback bridge: it serves requests on a thread each without a lock, so
  `session_create`'s check of the writer and its assignment could interleave, but
  nothing in the repository serves a backend through it.
* Redaction, projections of observations and exports, byte budgets: data.
* Liveness of the WebKitGTK backend beyond its transport: every wait of it has a
  deadline, and the transport's `HostNeverStuck` is what those rest on.

## Plan

1. `Runner`: the runtime verification that a failed run reports
   (`docs/CAPABILITY_TRUTH.md:9`), and the receipts of steps against the files
   they name.
2. `Comparison`: declared digests and both sides; `read_json_ref` on a resume.
3. The scenarios' own drivers (`corpus.py`), composed with the backends.
