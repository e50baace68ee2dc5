# Verification of MASI-NIDS vNext

TLA+ models of the MASI-NIDS control and detection paths, checked with TLC and,
where the argument should hold for every size of the system, proved with TLAPS.
Paths are relative to the repository; `PROJECT.json` maps each definition to the
lines it stands for.

    tlc -workers 2 -config MCDetection.cfg Detection     # any run below
    tlapm EffectSystemProofs.tla                         # the proofs

## 1. The system

A P4 switch counts traffic and enforces firewall rules. A Rust **Edge Agent**
owns the switch: one actor per target freezes and reads the counters, builds
event-time windows, has them classified by a **Central Inference** pool and
delivers the results to the Go **Control Core**, which commits them as Events in
**PostgreSQL**. In the other direction Control Core turns approved changes into
durable intents that the actor executes on the switch. Plugins, an analysis
service, a web console and the offline ML pipeline surround this; a testkit
qualifies the switch and runs the deployables against each other, and what it
writes as evidence decides whether a release is accepted.

| Part | State it keeps | Operations | Talks to |
|---|---|---|---|
| Edge WAL (`edge-rs/src/wal.rs`) | segments, checkpoint file, cached retention time | open, append, checkpoint, compact, replay | five logs of every actor |
| Edge actor, effects (`actor.rs`, `firewall.rs`, `p4runtime.rs`) | effect journal, tokens, pending result, recovered operation | preflight, execute, recover, acknowledge | switch, Go dispatcher |
| Edge actor, telemetry (`actor.rs`, `window.rs`) | source WAL, open freeze operation, hints, windows | poll, flip, freeze, snapshot, clear, finalize, close | switch, input WAL |
| Edge actor, detection (`actor.rs`, `inference.rs`) | input WAL, result WAL, route journal, router | admit, rebind, infer, deliver, checkpoint; prepare/commit/resume route | pool, `CommitResults`, Go rollout |
| Edge supervisor (`supervisor.rs`) | assignment ledger, actors, endpoint owners | assign, renew, revoke, shut down | actors, Go assignment |
| Effect governance (`internal/governance`, `db/cas.go`, `cmd/control-core/maintenance.go`) | `effect_intents`, `effect_attempts`, `effect_acknowledgements` | create, claim, dispatch, reconcile, acknowledge, fence | Edge actor |
| Firewall (`internal/firewall`) | activations, bindings, overlays | activate, project | governance |
| Models (`internal/model`) | pools, shard bindings, operations, groups, incarnations | rollout, reconcile, group advance, rotate | deployment adapter, Edge routes |
| Events (`internal/event`, `internal/grpc`) | `event_identities`, `events`, incidents | ingest, fence, query | Edge results, models |
| Targets, fleet (`internal/target`) | registry, assignments, fleet waves | register, hand off, advance wave | supervisor, governance |
| Plugins (`internal/plugin`, `internal/pluginstat`, `plugin-host-rs`) | catalogue, bindings, statistic runs, host admission | bind, run, lease, publish | host, PostgreSQL |
| Central inference (`infer-cpp/src`) | loaded model, in-flight batches | load, admit, infer, drain | Edge router |
| Analysis service (`analysis-py`) | task rows, queue, workers, binding | submit, work, reload, drain; one graph run with provider, MCP tools and A2A peers | Manager's files, Control Core's MCP server, peers |
| Offline ML (`ml-py`) | staging directories, output path | run, clean up, publish, verify | file system, other invocations |
| Switch qualification (`testkit/p4_switch`) | phase files, switch, sender and captures, Mininet containers | benchmark, soak, traffic, stages, aggregate | BMv2 over P4Runtime, Docker |
| Pairwise and module runners (`testkit/system`, `analysis-py/scripts`) | processes, containers, evidence, live manifest | start, wait, claim, hold, stop, clean up | every deployable, an operator, signals |
| Web console | caches | – | API |

What is hard, and where:

* **Durable steps and crashes.** A telemetry snapshot is five records, an effect
  two, a detection batch passes three logs whose checkpoints are three separate
  writes. A process may die between any two of them.
* **Lost, late and repeated calls.** An RPC that its caller has given up may
  still be executed. Effects answer with the journal and an explicit *unknown*;
  route changes answer with epochs and a compare-and-set; results with an
  idempotency key.
* **Concurrent owners.** Dispatcher, reconciler, acknowledgement retry and the
  shutdown fence work on one ledger; two rollouts may run on one shard.
* **A data plane that does not stop.** The switch counts while it is read, and
  has packets in its pipeline while the selector is flipped.
* **Waiting.** Drains, claims, unknown outcomes and recoveries must end.
* **Cancellation.** In the analysis graph a failed `asyncio.gather`, a result
  budget and a hard deadline each leave calls running that nobody awaits; a
  second cancellation can reach the clean-up that the first one started.
* **Clean-up and evidence.** The pipelines and runners are killed, interrupted
  and signalled between any two steps, process ids and run ids are used again,
  and what they report afterwards must still be true.

`PROJECT.json` lists these, each at the line where it bites, under `hazards`.

## 2. Modules

| Module | Models | Actions correspond to |
|---|---|---|
| `DurableLog` | what an owner may rely on: append at the end, checkpoint moves forward, a crash loses nothing | abstract specification |
| `Wal` | `DurableWal`: files, torn chunks, rotation, checkpoint rename, compaction, recovery | `append` is three steps around the disk (`BeginAppend`, `Write`, `FinishAppend`), `compact` one step per removed segment (`CompactSegment`, `CompactDone`), `open` one step (`OpenEmpty`, `OpenRecover`, `OpenRefused`) |
| `EdgeEffect` | one actor's effect path with the switch's two rule banks, selector and overlay table | `preflight`, `execute` (journal record, one step per switch write, result record), `reconcile_recovered_effect`, `acknowledge_effect`, lease, session, crash, `spawn` |
| `EffectSystem` | `EdgeEffect` below the PostgreSQL ledger and the tasks of Control Core | a transaction is one step, an RPC is a request and a reply that may be lost; `ClaimIntent`, `MarkUnknown`, `Finalize`, `Converge`, `FenceExpiredClaims`, ... keep the code's names |
| `Telemetry` | the dual-bank snapshot protocol, digest hints, windows, source WAL | one action per stage of `finish_source_recovery`; `Spawn` is `recover_source_state` |
| `Detection` | final windows through input WAL, inference, result WAL and delivery; route commands and the route journal | `admit_window_advance`, `process_pending_inputs`, `process_pending_results` (delivery and three checkpoints), `prepare_route`, `commit_route`, `resume_route`, `finish_route_recovery` |
| `ModelRollout` | `Detection` with the rollout service and the ingest fence | `Rollout` and `ReconcileOperation` cut at every external call; `Exact` is the fence of `ingestOne` |
| `AnalysisService` | the tasks of the analysis service | a step lasts from one await to the next: `SubmitNew`, `SubmitAgain`, `Take`, `GraphEnds`, `Reload`, `RequestStop`, `SiteStopped`, `Joined`, `GraceEnds`, crash, start with `RecoverIncomplete` |
| `AnalysisGraph` | one run of the graph that `GraphEnds` stands for | one action per node and per outcome of an outbound call; tools and peers run concurrently, `TimePasses` is the result budget, `Deadline` the hard one |
| `OfflineML` | several `run`s on one output path, and `verify` | `_cleanup_stale_staging` one directory at a time, every stage of `run_pipeline`, `Publish` (the rename), `Interrupt` (SIGTERM), `Kill`; split, winner and explanation are operators over the metrics of a world |
| `TrafficHarness` | one `TrafficHarness.run`: sender process, shared progress, two captures | one action per step of each thread or process, and the switch between the captures |
| `SwitchWorkload` | `run-performance.py` and `run-soak.py` over the P4Runtime client | one action per client call, with failure before, within and after its effect; the stream thread; `TrafficHarness.run` is a begin, an end and a verdict |
| `Qualification` | `run-module-e2e.sh`: `SwitchWorkload` inside the stages of the shell | one action per stage and per step of the Mininet stage and its clean-up, the finalizers, the aggregate, the exit |
| `Pairwise`, `RunnerScripts` | the four Python runners of `testkit/system` with their exporters, and the four of `analysis-py/scripts` (black box, performance, soak, OCI smoke) | a runner is a list of steps for its options, and a list of clean-up steps; processes, observer thread, operator and signals run beside it |
| `WalProofs`, `TelemetryProofs`, `OfflineMLProofs`, `TrafficHarnessProofs`, `QualificationProofs` | proofs about the module of that name (section 4); `QualificationProofs` has the workloads of `SwitchWorkload` too | |
| `EffectSystemProofs`, `RolloutProofs`, `AnalysisProofs` | proofs about `EdgeEffect` and `EffectSystem`, about `Detection` and `ModelRollout`, about `AnalysisService` and `AnalysisGraph` | |

`Wal` is the log under the four other Edge modules; they use it as `DurableLog`
promises it: an append is atomic and survives. `EffectSystem` extends
`EdgeEffect`, and `ModelRollout` extends `Detection`, so the composition uses the
component's own actions; so does `Qualification` with `SwitchWorkload`.
`AnalysisService` and `AnalysisGraph`, and `SwitchWorkload` and `TrafficHarness`,
are two levels of one thing: the upper one lets the lower one end in any way it
can. `MC...` modules give constants their values. `Telemetry` and `Detection` meet at one interface: a
window is final, and its acknowledgement moves the source checkpoint.

Operators whose names extend another definition's name and that are marked
*Mutant* are plausible wrong versions of the definition that follows them. They
are not used by any specification; they exist to show that the properties notice.

### Abstractions that matter

* `Wal`: payloads and checksums are abstracted to whether a chunk is complete;
  a clock that is set back is included. A torn record whose header is whole
  leaves its time with its segment (`firstAt`), as `scan_segment` does.
* `EdgeEffect`: a rule set is one value per bank, or `Mixed` while it is being
  rewritten. A write that is answered with an error has landed, in part, or not.
  The readback of a recovery sees the keys of its own plan, the default and the
  selector (`ReadsExact`, `ReadsOther`): a mixed bank may read as the plan.
* `EffectSystem`: an actor that refuses looks to its client like a lost request,
  so lapses of lease and session are left to the runs of `EdgeEffect`.
  `Bounded` states that a maintenance task (1 s context) ends before its claim
  lease (30 s) does.
* `Telemetry`: the cells of a bank are one count, and with them a clear that lands
  on some cells only (`CONTINUE_ON_ERROR`) is left out, time is a window index, WAL
  capacity is left out. `SlowPipeline` allows a packet to be between selector and
  counter while the bank is frozen and read; such a packet is a *stray*.
* `Detection`: a snapshot belongs to the next window, there is no lateness, and
  a route is (operation, pool generation, epoch). The idle timer may close the
  newest window at any time, and a crash opens it again. A snapshot is partial
  when the start of its bank is not known, which is so after a start that finds
  nothing of the source behind its checkpoint; such a window gives no record.
  The failure of a route-journal append and of single RPC attempts is left out.
* `ModelRollout`: one shard, one incarnation, one reconciliation of an operation
  at a time; a pool generation fixes its model revision, and the binding
  generation and the route epoch, which every swap raises together, are one
  number.
* `AnalysisService`: the files that a reload or a start finds are any binding or
  none that loads; a graph ends with one of `GraphCodes` trace codes. A row that
  has aged out may be deleted at any later submission.
* `AnalysisGraph`: what a provider says is a set of statement kinds, a number of
  tools and a list of peers; sizes, digests and texts are the verdict of the
  check that reads them. A tool result may carry `isError`, what is asked for over
  the budget is cut without a word, and advice that is not safe is dropped without
  being counted, all as in the code. A DELETE of the session may be refused, time
  out or be cancelled.
* `OfflineML`: the repository is one of a few worlds, each with the captures'
  fractions and the metrics of three recipes on two seeds, in thousandths. A
  staging directory is none, bare, marked, sealed (read-only bundle) or unmarked.
  What an output is made of are the files that `verify` reads, the records of their
  digests, and one part for all it does not read (`Parts`); whether a changed file
  still agrees with a changed record is open (`Agree`).
* `TrafficHarness`: frames have numbers and no bytes; pacing and latencies are
  left out. `SwitchWorkload`: rule counts, times and limits are constants, rates
  and latencies are one verdict of the environment. That `TrafficHarness.run` ends
  is taken from `TrafficHarness`, whose exception (a sender that dies with the lock)
  is not repeated; and a stream that the switch ends without an error before the
  client has closed its half, which BMv2 does not do, is left out.
* `Qualification`: a document is its result. `reused` starts from the phase files
  of an earlier run. `Pairwise`: what is inside a deployable is an outcome (ends
  well, ends badly, hangs); a claim is the set of boundaries it names. The tasks
  that a load phase sends are the set of states they end with; rates, latencies
  and resources are a verdict. `Unbounded` lists, per runner, the steps whose command
  has no timeout: these may hang (`Hangs`) until a signal comes.

## 3. What the runs show

A run checks one invariant per subject, most of them the conjunction of the
module's type invariant and of several named parts; the parts are in brackets.
State counts are distinct states.

| Run | Bounds | Shows |
|---|---|---|
| `wal` | 4 sequence numbers, records of 2 and 5 units in segments of 7, 3 clock readings (107 thousand states) | `LogConsistent` (`ReplaySurvivesRestart`, `RetentionCacheFresh`, `SegmentsContiguous`); `ImplementsDurableLog`: `Wal` refines `DurableLog`. Four records over at least two segments suffice for rotation, compaction and a torn tail to meet |
| `edge_effect` | two baselines, an upsert and a delete of one slot, 2 tokens, 3 actor epochs, one failing append (97 thousand states) | `JournalSound` (`SingleUntilFault`, `PendingIsLast`, `JournalBounded`), `AppliedStaysTrue`, `WriteAhead`, `OnlySettledDropped`, and `RecoverySettles` under fairness |
| `effect_system` | two baselines with different rules, two tasks, 2 actor epochs; `MCBound` keeps two tasks while there is one baseline and one task, with fewer attempts, once there are two (860 thousand states) | `AtMostOnce`, `ForgottenAfterCommit`, `OutcomeIsFinal` need two tasks to race; `ActiveBankWhole` and `LedgerIsTrue` (`HoldMeansUntouched`, `BindingIsTrue`) two baselines to choose a stale bank; `ClaimsEnd` holds under the weak fairness below |
| `telemetry` | 1 packet, 2 freeze operations, 2 lives, 1 hint, 3 windows, slow pipeline | `Conserved`, `TelemetryInv` (`StagesReplay`, `AcksFit`), `HintsOutlive`. Conservation is per packet, so one packet and two flips (both banks) suffice |
| `detection` | 4 windows, batches of 2, input limit 2, 2 route epochs, 2 crashes (2.1 million states) | `OneEvent`, `RouteSound` (`BoundOnRoute`), `NothingLost`, with route commands from an arbitrary environment |
| `rollout` | 2 symmetric operations besides the first binding, 2 generations, 3 epochs, 2 windows, 1 Edge crash, 1 fault; `MCBound` allows the second window with the crash or with the fault, not both (1.4 million states) | `RolloutInv` (`ActiveIsCanonical`), `BindingMovesDrained`. Two operations suffice to interleave; 3 epochs allow rollout and rollback. |
| `analysis` | three tasks in five requests (changed input, next generation, another requester with the same key), 2 workers, a queue of 1, 2 rows, 2 generations, 2 stops | `TaskInv` (`OneOwner`), `TaskSteps` (`OutcomeIsFinal`, `LateArtifactFenced`, `GenerationAdvances`), `TasksEnd`. Each limit is smaller than the number of tasks, so each is met |
| `analysis_graph` | 4 budgets and 5 answers that reach each guard, 2 tools, 2 peers (930 thousand states) | `GraphInv` (`ParallelismHolds`, `WithinBudget`, `SessionReleased`), `ArtifactIsEarned` (`SucceededIsEarned`, `ExplanationsQualified`), `EverythingEnds` (`RunEnds`, `CallsEnd`). Two calls are what it takes for one to fail while another runs |
| `offline_ml` | 3 symmetric invocations, 2 process ids, 8 worlds, 9 ways to change an output (470 thousand states) | `StagingInv` (`LiveStagingKept`, `StaleReclaimed`), `OutputIsEarned` (`PublishedIsWhole`, `FailedIsSilent`), `OutputStays` (`PublishedIsFinal`, `VerifiedIsIntact`). Three invocations with two ids give one that died, one that has its id and one that cleans up |
| `harness` | one phase of 2 frames, one sample, 2 faults, a sender that may be killed | `ReportIsTrue` (`CleanIsTrue`, `SenderReaped`, `CapturesEnded`), `RunEnds`. Two frames let one be lost while another is copied |
| `qualification` | rule counts 0 and 2 at one rule to an RPC, two faults, two lifecycle cycles and two setup attempts (1.2 million states) | `QualInv` (`HintsAnswered`, `MininetClean`), `AcceptedWhole`, `ExitZeroIsFresh`, `RunEnds`. Two rules over two RPCs make a bank half written; two faults let a second one hide the first. Deadlock is checked |
| `pairwise` | every coherent set of options, the three shorter runners and the four of the analysis module, two signals or other faults, one round of the hold loop (870 thousand states) | `EarnedPass` (`PassIsEarned`, `EventSeen`), `CleanedUp` (`NothingLeft`, `ManifestTrue`), `TakenDownLast`, `RunEnds`. Two faults let a signal hit the finally clause that another one started, or a command that hangs |

`CHECK_DEADLOCK FALSE` is set in all runs but `wal` and `qualification`: their
systems may stop, since operations, crashes and epochs are bounded, an idle actor
waits for commands, and a pipeline or a runner ends.

Every property has a mutant in `PROJECT.json`: a plausible bug of the code under
which TLC finds that very property violated.

### Statements that TLC refutes

These definitions state what a document, a comment or an assertion of the
repository says, or what a checked property says without the exceptions it names.
They are in the modules and in no run; each is violated by the code as modelled,
with the constants named here and otherwise those of the run of the module.

| Definition | Constants | What happens |
|---|---|---|
| `Wal!AlwaysReopens` | those of `wal` | Two appends, rotated into two segments; a checkpoint; `compact` removes the first segment; crash. `open` insists that the first segment starts at sequence 1 (`wal.rs:138`) and refuses the directory, although its comment (`wal.rs:116`) speaks of an incomplete final tail only |
| `Wal!RetentionCacheExact` | those of `wal` | The first append of a rotated segment is torn behind its header; `scan_segment` has taken the time from that header (`wal.rs:624`) and `append` fills it only when it is 0 (`wal.rs:290`): the record that is appended in its place is judged by the time of the lost attempt. `RetentionCacheFresh` says that this is the only case |
| `EdgeEffect!AppliedIsExact` | those of `edge_effect` | Two baselines were compiled for one bank; the first has selected it when the second one's token is used, which is cut by a crash before the old entries are deleted. Recovery reads back the keys of its plan only (`actor.rs:1671`), finds them and journals Applied over a bank with more entries |
| `Telemetry!SourceSettles` | `FairSpec`, 1 packet, 1 flip, 2 lives, no hints, no slow pipeline | A packet arrives between the poll and the flip; crash behind `BankFrozen`. The snapshot is compared with the packet count of `BankFreezeStarted` (`actor.rs:2432`), which is older than the flip: it never matches, the bank is retained for retry for ever (`actor.rs:2101`) |
| `Detection!OneEventEver` | those of `detection` | A window that the idle timer closed is open again after a crash, because the idle close is not durable; its acknowledgement has removed its identity (`actor.rs:2846`), so that it is closed and delivered a second time, under another route |
| `ModelRollout!RolloutSettles` | `FairSysSpec`, one operation besides the first, 4 deadlines, no crash and no fault | One admitted window makes `CommitRoute` answer `ROUTE_DRAINING`; `Rollout` marks the binding unavailable (`rollout.go:284`), and the ingest fence (`ingest.go:142`) refuses the results whose delivery would have drained it |
| `AnalysisService!DrainSettles` | those of `analysis` | A worker takes a task while the site stops; the grace period ends before its graph does: the task is left `WORKING` after the drain, and settled only by the next start |
| `AnalysisService!TasksEnd` | `MaxTrace = 8` | The smallest limit that the configuration allows (`models.py:442`). Admission, start and the seven codes of a full graph are nine trace events; the last does not fit, nor does the one that would report the error, so that no state is set and the task stays `WORKING` until the next start. The run has `MaxTrace = 9` |
| `AnalysisGraph!NothingOutlives` | those of `analysis_graph` | Calls that a failed `gather` left running are under way when the run has ended; they end by themselves (`CallsEnd`) |
| `AnalysisGraph!SessionDeletedAlways` | those of `analysis_graph` | `initialize` fails after the server has made a session, whose name the client never learns; likewise a DELETE that is refused, times out (`mcp.py:220` ignores both) or is itself cancelled |
| `AnalysisGraph!SucceededIsWhole` | those of `analysis_graph` | A recommendation that is not safe is skipped without being counted (`graph.py:443`), and so is a tool result with `isError`: the outcome is still `succeeded` |
| `OfflineML!VerifiedIsUntouched` | those of `offline_ml` | A document of the bundle that no digest covers is changed, or the archive together with its digest in the result document: `verify` passes, although its docstring (`pipeline.py:382`) says "without trusting its result document" |
| `OfflineML!CleanupSucceeds` | `Root = FALSE`, as in `offline_ml` | An invocation killed after its bundle was made read-only (`artifacts.py:416`) leaves a staging directory that the next invocation finds stale and cannot remove: it fails in its clean-up, and so does every later one, although `ml-py/README.md:51` promises recovery after SIGKILL |
| `OfflineML!PublishedVerifies` | those of `offline_ml` | `run` publishes when one recipe is eligible, `verify` asks that every candidate passes: an untouched output can fail verification |
| `Pairwise!FixtureLived` | those of `pairwise` | The neighbours die after the 0.2 s look at their start (`run-performance.py:131`, `run-soak.py:293`), which nobody repeats. Tasks go on being completed, with a limited artifact, and only their state is counted: the evidence says PASS with a `claim_scope` that names the provider fixture (`run-soak.py:479`) |
| `Pairwise!TakenDownStrictly` | those of `pairwise` | The clean-up of `run-edge-bmv2-pairwise.py` terminates cargo (`:370`) and not the test that cargo started, then removes the switch (`:396`) under it. The connected runner without a switch does the same to its database, because `subprocess.run` kills cargo only; with a switch it ends the whole group |
| `Pairwise!RunAlwaysEnds` | those of `pairwise` | A command without a timeout hangs, e.g. `docker compose down` in the finally clause of `run-go-plugin-host-pairwise.py:348` |

Other states that the models reach and that no document excludes:

* an append to a log that fails in a process which lives on leaves what it wrote
  in the file: a whole record that a restart finds and the index does not know,
  or a torn chunk that later records are written behind (`Wal`, `IOFaults = 1`:
  `LogConsistent` is refuted in four states);
* an append that fails after the switch was written leaves two operations in the
  effect journal, which `recover_effect_journal` refuses (`EdgeEffect`,
  `JournalFaults = 1`, and `Recoverable` as the invariant);
* an intent whose deadline passes unclaimed is not selected again and its
  activation stays prepared; an unknown intent can no longer be read back after
  its deadline or under a new actor epoch (`EffectSystem`);
* snapshots of two actor epochs in one window, and a digest acknowledgement whose
  hint a checkpoint has dropped, are refused by `recover_source_state`
  (`Telemetry`): `TelemetryInv` says that every other acknowledgement has its hint,
  not that the restart succeeds;
* a window whose snapshot is partial becomes no Event, and the source checkpoint of
  a later one passes it (`Detection`, the set `partial` in `NothingLost`);
* rebinding reorders windows, and the source checkpoint of the older one is then
  refused; two bound copies of one window can be pending after a crash
  (`Detection`);
* a lost reply of `ResumeRoute` leaves the binding `resume_pending`, because the
  repeated handshake has a new deadline (`ModelRollout`);
* a sender that is killed while it publishes keeps the lock of the shared array,
  and `run` waits for it (`TrafficHarness`, the variable `orphan`);
* a service that is started by `start_analysis` and misses its 20 s
  (`run-soak.py:170`), and a container that `docker run` created and could not
  start (`run-oci-smoke.py:226`), survive their runner, which has no handle of
  them (`Pairwise`, the exceptions `Unheld` of `NothingLeft`);
* a tool of the supply chain that exits with 2 under a run id used before leaves
  the earlier run's phase file to the aggregate (`Qualification`,
  the exception in `ExitZeroIsFresh`).

### Fairness

Liveness is checked only where the code schedules the steps, and nearly always
with weak fairness:

* `EdgeEffect`: `maintain` runs every 20 ms (weak fairness of its steps and of
  the command under way); a switch that is asked again and again answers in the
  end (strong fairness of the reconnection and of the readback).
* `EffectSystem`: a task ends at the latest with its context, a lease runs out by
  the clock of the database, and the maintenance loop fences every two seconds.
  Neither progress of a task nor an answer of the actor is assumed.
* `AnalysisService`: the event loop runs every worker, a graph has a hard
  deadline, a stop goes on, and a stopped container is started again.
* `AnalysisGraph`: every outbound request has a timeout and the loop runs what is
  ready. Neither the result budget nor the deadline is assumed to help.
* `TrafficHarness`: the main thread runs and its timeouts expire; a sender that
  holds the lock goes on. `Qualification`: the shell and the workload go on; the
  switch need not send anything. `Pairwise`: the runner goes on unless a
  command that has no timeout hangs, and so does each exporter until the runner has
  ended.

For `RolloutSettles` an operator is assumed to request `ReconcileOperation` again
and again, which is more than the code does by itself. No fairness is assumed of
crashes, deadlines, new requests, signals or lost messages.

## 4. What is proved

`WalProofs` proves for any record and segment sizes, limits, clocks and numbers of
records, with a crash anywhere in an append, a rotation, a checkpoint, a
compaction or a recovery:

| Theorem | Statement |
|---|---|
| `LogStaysConsistent` | `Spec => []LogConsistent`, under `NoLiveFault` |
| `LogIsDurable` | `Spec => ImplementsDurableLog`: `Wal` refines `DurableLog`, under `NoLiveFault` |

The assumption on the constants is `WalAssumption`. `NoLiveFault` (`IOFaults = 0`)
says that a write which fails ends the process; a failure that the process
survives breaks the log, see section 3. The invariant `WalInv` says of the files
that every one but the last of a closed log is whole and that they are contiguous
(`FilesOK`), that the checkpoint lies within them (`RangeOK`), and of memory that
the index is the scan of the files, the first time of all segments but one is that
of their first record (`FirstsOK`), and the cached time is that of the first pending
record or of the segment that begins with it (`CacheOK`). The refinement follows from what each step does to the
records of the disk (`LogStep`). Those are a concatenation over segments: what it
returns for a list with one more element, or one less in front, is proved by the
least counterexample (`LeastNat`), since the induction rules of the library cannot
be instantiated.

The first part of `EffectSystemProofs` proves for any set of operations, any number
of tokens, actor epochs and failing appends:

| Theorem | Statement |
|---|---|
| `EffectTypes` | `Spec => []TypeOK` |
| `PendingIsAlwaysLast` | the result kept in memory is the newest record of the journal |
| `WritesAreAhead` | the switch changes only under the newest `WriteStarted` |
| `SettledBeforeDropped` | the journal gives up an operation only with a final outcome |
| `AppliedIsTrue` | `Spec => []AppliedStaysTrue`: between an Applied result and its acknowledgement the switch holds that plan, except a baseline over the selected bank that recovery judged by its keys |
| `JournalHasOneOwner` | until an append fails, the journal belongs to one operation and has at most three records |
| `JournalIsSound` | `Spec => []JournalSound`, the invariant of the run, from the three above |

The constants' assumption is `EffectAssumption` (kinds, slots and bodies of the
operations are functions, bounds are naturals).

The invariant. None of these is inductive alone. `JournalInv` says who owns the
uncheckpointed journal: a command under way excludes a pending result and a
recovered operation (`ExecAlone`); results come after every `WriteStarted`
(`ResultsLast`); a live actor that keeps nothing in memory has no result in its
journal (`NoStray`); the recovered operation is the last record
(`RecoveredIsLast`). `NoStray` is what a restart has to re-establish: `Spawn`
rebuilds memory from the log, and `ReplayLemma` states what it finds there.
`AppliedInv` adds what the partial steps of a plan have done to the banks
(`StepTrue`) and that a bank which was inactive when its `WriteStarted` was journaled
is selected only once it is staged (`StageInv`): this is why a readback of the plan's
keys suffices there. `SingleInv` says that an actor which may begin an operation has an
empty journal; it holds while no append has failed (`FaultsStay`). Every lemma
`...Keeps` is one action of `Next`; `AppliedStep` and `SingleStep` reuse
`JournalInv`. The action properties follow from `OnlyApplyWrites` and
`OnlyAckCheckpoints`.

Its second part proves for any operations and baselines, any number of tasks,
tokens, actor epochs, attempts and messages, where a request or a reply may be
lost and a task may end at any point:

| Theorem | Statement |
|---|---|
| `SystemTypes` | `SysSpec => []SysTypeOK` |
| `ActorRefined` | `SysSpec => Spec`: the composition implements the actor's own specification, so that the theorems above hold of the actor inside it |
| `AtMostOnceHolds` | `SysSpec => []AtMostOnce` |
| `HoldIsTrue` | an intent that the ledger holds has never touched the switch |
| `ActiveBankIsWhole` | `SysSpec => []ActiveBankWhole` |
| `LedgerIsTrueHolds`, `OutcomeIsFinalHolds`, `ForgottenAfterCommitHolds` | the property of the same name, under `Bounded` |

The assumptions are `SystemAssumption` (bounds; no failing append and no lapse of
the lease, which are the subject of `EdgeEffect`) and `SystemNoneAssumption`.
`Bounded` is a hypothesis of the last three only: a maintenance task (1 s context)
ends before its claim lease (30 s). The first five do not need it; a dispatcher
that outlives its lease can do no more than leave a result behind that nobody
commits. The invariant `Core` follows one execute request from its claim: a claim
has one owner, who sends once, and a request on the way has not been executed
(`SendInv`); a result, wherever it is kept, is of an operation that is over
(`ResultInv`); a hold is of an operation that has not touched the switch and will
not (`TouchInv`); one baseline at a time is open from its claim to its outcome
(`OpenInv`), so that the bank which it fixed at preflight is inactive until it
flips the selector itself (`BankInv`). `AppliedInv` and `JournalInv` come from
the first part. `BoundInv` adds what only holds while a claim is its owner's:
acknowledgement row, task and ledger agree (`AckInv`), and the switch runs what
the binding says unless an open baseline has touched it (`TruthInv`).

`TelemetryProofs` proves for any number of packets, flips, incarnations, hints and
windows, with and without a slow pipeline:

| Theorem | Statement |
|---|---|
| `SourceIsFollowed` | `Spec => []Core`, the invariant below |
| `SourceReplays` | `Spec => []TelemetryInv` |
| `PacketsAreConserved` | `Spec => []Conserved` |
| `HintsOutliveHolds` | `Spec => HintsOutlive` |

The assumptions are `BoundsAssumption`, `SlowAssumption` and `NoneAssumption`
(`None` is neither a recovery nor a snapshot). `StagesReplay` speaks of prefixes of
the log and is not inductive. `Shape` says what the log looks like: an operation is
named by the sequence of its first record, a later stage follows that record and no
finalization of it, an operation begins after the one before is finalized, each
stage is preceded by the one it needs, and the durable snapshots of an operation
agree. `GrowKeepsShape` and `CutKeepsShape` state that the next stage and a
checkpoint at a finalization preserve it, and `BehindFinal` why such a cut takes
whole operations. `RecInv` ties `source_recovery` to the operation that is open in
the log (`ResumedFollows` is what a restart re-establishes), and `SeqInv` says that
whatever a checkpoint may be asked for is a finalization. `Conserved` needs one more
fact (`GhostInv`): what arrives in a bank between its clear and the finalization is
not reported yet, and fits below the packets seen once that bank counts again.
`HintsOutlive` needs that the pending hints are in the order of the log and that an
acknowledgement lies behind its hint (`HintsInv`), since a checkpoint that drops the
one must drop the other. What `recover_source_state` collects (`PendingIs`) is a
recursive function over the log; both the existence of that function and what it
returns are proved with `LeastNat`: a non-empty set of naturals has a least
element, from the library's `WFMin`.

The first part of `RolloutProofs` proves for any operations, generations and deadlines, any batch
size and watermark and any number of windows, epochs and crashes:

| Theorem | Statement |
|---|---|
| `DetectionTypes` | `Spec => []TypeOK` |
| `RouteStaysBound` | `Spec => []BoundOnRoute`: pending route-bound records are on the route the journal restores |
| `RouteIsSound` | `Spec => []RouteSound`, the invariant of the run |
| `NothingIsLost` | `Spec => []NothingLost` |
| `EventIsOnce` | `Spec => []OneEvent` |

The assumptions are those of `Detection`: `GenAssumption`, `BatchAssumption` (a
batch has a record), `BoundAssumption`, and `NoneAssumption` (`None` is neither a
journal record nor a route).

The invariant of the route is `RouteInv`. `BoundOnRoute` alone does not say why a
record that is bound now is on the route of the journal: an active router belongs
to a running actor that has finished its recovery and has a journal
(`ActiveRouter`), which is what a crash, a replay and `Spawn` could have broken.
The type of the checkpoints needs that a pending batch is not empty, ends at or
behind the input checkpoint and is still there between two durable steps
(`BatchBound`, `TickHolds`). Both `CHOOSE`s of the model, the prefix a tick sends
and the window the source is checkpointed at, exist by `LeastNat`.

For the windows, `HeadInv` says that the pending batch is the head of the input WAL
or already acknowledged and checkpointed there, that an acknowledged batch is
delivered, and that rebinding drops a head only behind its copy; `LossInv` then
keeps every window behind the cursor and behind the source checkpoint. `OnceInv`
explains why a window cannot be admitted again: a window that is still open has
been placed nowhere, unless the idle timer closed it and either no crash or the
source checkpoint followed (`OpenIsFresh`), a replay knows what is pending
(`ReplayKnows`), a delivered window is pending or behind the source checkpoint
(`DeliveredBehind`), and pending copies of a delivered window are on the route of
its Event (`CopiesBound`, `SameRoute`), so that ingest takes them for the same.

Its second part is about `ModelRollout`, for any operations, generations, epochs,
crashes and faults of the network:

| Theorem | Statement |
|---|---|
| `EdgeRefined` | `SysSpec => Spec`: the composition implements the specification of `Detection`, whose environment issues route commands at will |
| `RolloutIsSound` | `SysSpec => []RolloutInv` |
| `BindingMovesOverDrained` | `SysSpec => BindingMovesDrained` |
| `EdgeUnderRollout` | `SysSpec => [](RouteSound /\ NothingLost)`, from `EdgeRefined` |

The assumptions on the constants are those of `Detection`, `BootAssumption` (the first
binding exists) and `FaultAssumption`. All four are under `DeadlinesLast`: whatever finite set of deadlines has been used,
there is a next one. In the code a deadline is the present time plus a timeout, and
`TimesLast` shows that the naturals are such deadlines; the run has a finite set,
which its bounds do not use up. The invariant `SysInv` adds four parts to
`RouteInv`: a route command on the way, however late or repeated, is for a route
that is not ahead of the binding's next one (`RequestInv`); an operation has read no
binding that is newer than the real one, and sends one commit for it
(`OperationInv`); the journal of the Edge is on the canonical route, or on the next
one, drained and not active (`EdgeInv`); and only the operation whose route the
Edge has installed can pass the compare-and-set of the binding (`SwapInv`).

The first part of `AnalysisProofs` proves for any requests, workers, limits,
generations and crashes:

| Theorem | Statement |
|---|---|
| `Ownership` | `Spec => []OwnerInv`: every owner holds the stored request of an unfinished task that nobody else holds |
| `EveryTaskOwned` | `Spec => []TaskInv`, under `TraceRoom` |
| `TaskStepsHold` | `Spec => TaskSteps` (`OutcomeIsFinal`, `LateArtifactFenced`, `GenerationAdvances`) |

The assumptions are `LimitAssumption` and `NoneAssumption`. `TraceRoom` says that
the trace limit has room for admission, start and the codes of any graph; with less
a task stays `WORKING` without an owner until the next start (section 3). `OneOwner`
needs to know of which rows queue and workers hold the requests (`QueueInv`,
`WorkerInv`), that a process which is down holds none (`DownInv`), and that no
unfinished row is forgotten (`NoneForgotten`); `RecoverIncomplete` re-establishes
the last by ending what the process before left.

Its second part is about one run of the graph, for any budgets and any answers that
passed the provider's schema (`GraphAssumption`), with failures, abandoned calls,
the result budget and the deadline falling anywhere:

| Theorem | Statement |
|---|---|
| `GraphWithinBudget` | `RunSpec => []GraphInv` |
| `ArtifactIsTrue` | `RunSpec => []ArtifactIsEarned` |

`RunInv` says where the session and the calls can be: an open session is one whose
DELETE is still to come or under way, and only a cancelled run cuts it (`McpInv`), a
gather that ended well has no call that
failed, was dropped or is under way (`ToolInv`, `PeerInv`), and behind
`bounded_evidence` either an error is recorded or both gathers ended well
(`FlowInv`), which is what an artifact that says *succeeded* rests on. The
parallelism is a cardinality, so that each step which starts a call shows that it
adds one element to a finite set.

`OfflineMLProofs` proves for any set of invocations and process ids, where ids are
used again, and any worlds:

| Theorem | Statement |
|---|---|
| `StagingReclaimed` | an invocation that builds has reclaimed what the ended ones before it left marked, and one that reports failure leaves nothing at the output path |
| `StagingIsSafe` | `Spec => []StagingInv`, under `ProcFS` |
| `OutputStaysHolds` | `Spec => OutputStays` |
| `OutputIsEarnedHolds` | `Spec => []OutputIsEarned` |

The assumptions are `PlatformAssumption`, `RunAssumption`, `WorldAssumption` (a
world has a metric for every candidate) and `ChangesAssumption` (a change is a set of
parts). `ProcFS` says that `/proc` is mounted;
without it a marker whose process id is in use again cannot be told from a live
one. `RunInv` says what is still in the todo of a clean-up (`ReclaimInv`) and that
the invocation which published has no staging left to undo (`OutInv`); `OwnInv`
that a marker names a live process exactly while its invocation lives; `EarnedInv`
what an invocation has been through by the time it has come so far.

`TrafficHarnessProofs` proves `ReportHolds`, `Spec => []ReportIsTrue`, for any number
of phases, frames and samples and any bound on the faults, from `HarnessAssumption`.
`HarnessInv` says that a frame which was not sent yet is nowhere, and one inside the
switch has at most one copy behind it (`NetInv`); that a sender which ended without
an error is behind its last frame (`SenderInv`); at which places of the main thread
the sender is gone and the captures were started or stopped (`MainInv`); and that a
state without an error is that of the whole schedule (`StateInv`). The report
compares counts by phase, so that the step from equal counts to equal sets of frames
is a lemma about cardinalities (`FullCount`).

`QualificationProofs` proves for any rule counts, batch size, number of repeats,
cycles and attempts, any times, limits of the queue and of the drain, and any number
of faults:

| Theorem | Statement |
|---|---|
| `HintsAreAnswered` | `Spec => []QualInv` |
| `AcceptedIsWhole` | `Spec => []AcceptedWhole` |
| `ZeroIsFresh` | `Spec => []ExitZeroIsFresh` |

The assumptions are `WorkloadAssumption` and `QualificationAssumption`. The invariant
`QInv` has three parts. `WorkInv` is about a workload that runs and has met no error:
`ListInv` says which step may follow which in the rest of its list (a flip is followed
by its readback, a write by the readback of the same rules, measured traffic by its
end), `RulesInv` that a bank lacks a wanted rule only between a write and its
readback, `SelectInv` that the selector is wrong only between a flip and its
readback, and `EndInv` that traffic which met a wrong bank is about to be noticed.
The lists are built from the rule counts, so that `Shape` describes a list by its
first and last step and its operations, and `Glue` says what two lists make when one
follows the other; each list of the model is put together with it. `HintInv` says that a
digest which was taken and not answered is an error, or becomes one at the end of the
drain. `ShellInv` is about the shell: `FreshInv` orders the stages (`Rank`) and says that
without a kept status no phase has an old file behind its stage (`Until`), `MinInv` that
a Mininet phase with PASS left nothing. `Where` says in which stages a workload can run
and that the soak begins with a new switch.

Every invariant above was model-checked on the bounds of the module's run before it
was proved.

Only model-checked:

* all liveness properties (`RecoverySettles`, `ClaimsEnd`, `TasksEnd`,
  `EverythingEnds`, the three `RunEnds`), since fairness and `ENABLED` are out of
  the prover's reach;
* `EarnedPass`, `CleanedUp` and `TakenDownLast` of `Pairwise`. Its runners are lists
  of steps which the module computes from the options of a run (`SelectSeq`,
  positions found with `CHOOSE`); an invariant would speak of about ninety actions over
  each of these lists, and the provers cannot evaluate them. The parameters that TLC
  bounds are the number of faults and of rounds only: the run covers every set of
  options and every runner.

## 5. Plan

Done: `Wal`, `EdgeEffect`, `EffectSystem`, `Telemetry`, `Detection`,
`ModelRollout`, `AnalysisService`, `AnalysisGraph`, `OfflineML`, `TrafficHarness`,
`SwitchWorkload`, `Qualification`, `Pairwise`, and the proofs of every safety
property that a run checks, except those of `Pairwise`. Next, in this order:

1. `Assignment`: handoff and revocation (`target/assignment.go`), the supervisor's
   ledger and endpoint owners, actor epochs. One target has at most one writer;
   an old lease never wins. Composes with `EdgeEffect` (its epochs).
2. `RolloutGroup`: ordered children of a group, incarnation rotation and
   `EnableWriter`, over an abstract rollout that `ModelRollout` implements.
3. `Fleet`: waves and gates over per-target intents, overlay expiry; abstract
   intents that `EffectSystem` implements.
4. `PluginRuns`: statistics runs, leases, late results and the current
   projection, with the host's admission.
5. `Admission`: the gateway's bounded in-flight work and drain; rule observation
   (counter reset, wrap and gap) and API idempotency as operators checked
   against reference definitions.
6. Abstract specifications: a detection pipeline ("each final window becomes one
   Event or is reported as refused") that `Detection` implements; an effect
   register ("an intent is executed at most once and its outcome is final") that
   `EffectSystem` implements.
7. Proofs: `Pairwise` with the lists of its runners as constants and what the
   invariant needs of them as an assumption that TLC evaluates.

## 6. What is not modelled

Parts without an own module, with the reason, are in `PROJECT.json` under
`components`. In short:

* planned: the supervisor and target assignment, rule observation, model groups,
  fleet waves, firewall overlays, proposals and decisions, plugins, the gateway's
  admission, API idempotency;
* data or I/O without a protocol of their own: the P4 parser, message formats,
  digests, TLS, configuration, HTTP and SSE, the web console, and the roles,
  partitions and retention functions of the migrations;
* stateless: the validators of contracts, traceability and evidence
  (`edge-rs/scripts`, `control-go/scripts`, the validators of `testkit`), which
  compare files and write a verdict, and the PTF suites, which assert on single
  packets;
* shell runners that repeat what `Pairwise` has: `run-web-control-pairwise.sh`
  and `run-full-startup-rehearsal.sh`. The Central's smoke script and the Edge
  test are in `Pairwise` as far as a runner can tell.
