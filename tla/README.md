# Verification of Matmul-Inspector's experiment system

Matmul-Inspector is a compiler and performance laboratory: Triton, CUDA and Pallas matmul
kernels, tridiagonal solvers, an exact tensor-game search and learned schedules. Most of it is
sequential arithmetic, parsing and report generation. The part that can go wrong in ways a test
hardly reaches is the machinery that runs experiments for hours on one GPU and keeps the books:
budgeted search sessions that survive crashes, batches that persist their results one by one,
worker processes that must be contained, a held-out evaluation that is stopped and resumed, an
agent that spends a paid planner and a GPU against budgets and leaves a bundle of evidence, and
the search and replay buffer every learned policy is trained on. This directory models that
machinery in TLA+, checks it with TLC and proves its central properties with TLAPS.

Paths are relative to the repository; `MI` stands for `src/matmul_inspector`.

## 1. Inventory

| Component | State it keeps | Operations | Hard behaviour | What makes it correct |
|---|---|---|---|---|
| Search session, `MI/experiment_session.py` | `session.json` (proposals, rejections, fingerprints, budget), `proposal_state.json` and a batch directory per proposal, a flock | `create_session`, `submit_proposal`, `recover_session`, read-only `show`, `export_context` | several processes; a killed controller whose forked worker inherits the flock; death between any two file replacements; recovery repeated on the same evidence | the budget balances; nothing that may have run escapes it; nothing is charged without proof; settled proposals are exact and final; a running worker keeps the session locked |
| Candidate batch, `MI/experiment_batch.py` | `batch_results.json`, `summary.json`, `summary.csv`, the schedule and entries in memory | `run_batch`: validate, shuffle, run, persist after each run | death between the three files; Ctrl-C anywhere, before or after a result was merged; runners that raise | the file misses at most one run; a final file misses none; "success" is complete; a rank once given is kept; failures do not end the batch |
| Isolated worker, `MI/experiment.py` | worker process, `multiprocessing.Queue` (buffer, feeder thread, pipe) | `run_experiment`, `_worker` | join before read; timeouts racing answers; SIGTERM that does not kill; a worker that dies while its feeder writes | the caller is told the truth, after the worker is gone, and gets every result |
| Paired worker, `MI/experiment_pair.py` | the same | `run_worker`: drain before join | polling races exit; deadlines | the same |
| Held-out evaluation, `MI/tensor_game_heldout_runner.py`, `MI/tensor_game_heldout_execution.py` | `resume_manifest.json`, `trials/<id>.json`, `progress.json` | `run_heldout_evaluation`, `TrialStore` | stops and resumes; Ctrl-C just after a write; two protocols on one directory | nothing recorded is rerun or rewritten; a stop loses one episode; progress never overstates |
| Pair bundle (rest of `experiment_pair.py`) | the bundle directory | summaries, clock-aware decision, verification, replay | mostly pure | decisions follow the evidence rules |
| Schedule agent, `scripts/run_schedule_agent_prototype.py`, `MI/tensor_game_schedule_agent.py` | a bundle of files and its hash manifest; `planner.calls`, `planner.total_tokens` | `run`, `Bundle.write`, `OpenAIPlanner.propose`, `execute_gpu_batch`, the preflight `verified_batch2_feedback` | death between file and manifest; a bundle at its size limit; answers that come late, too long or unaccounted; workers that fail, hang or outlive the controller | a bundle accepted as evidence is one; class A is earned; each batch is asked for once; a planner limit ends the run; a living run ends with its decision |
| Schedule search, model, reselection, calibration | ranked candidates, evidence votes | greedy selection, exploration | ties | pure; partly floating point |
| Schedule lowering, IR, runtimes | buffers and launch groups | lower, plan, allocate | buffer lifetimes | no buffer is reused while live |
| Tensor game and MCTS, `MI/tensor_game.py`, `MI/tensor_game_search.py` | residual, history; table of nodes and edge statistics | `step`, `SampledMCTS.run` | transpositions, the node limit in mid-descent, the wall time | residuals are exact along every walk; visits are conserved; the table keeps its limit |
| Experience, `MI/tensor_game_experience.py`; datasets, learning | replay buffer; splits | `play_episode`, `ReplayBuffer.add`, `replay_episode`; split, train | eviction; won, truncated and interrupted episodes side by side | what is kept replays; returns are earned |
| C++ and CUDA core | device workspaces | solve, multiply, reduce | index structure, workspace reuse | floating-point results |
| Comparison, PTX and SASS parsing, NKI, reporting, scripts | none of their own | parse, diff, render | none | output format |

How they interact: a session's `submit_proposal` calls `run_batch` in its own process, holding
the session lock; `run_batch` calls `run_experiment`, which forks the worker that owns the GPU
and that also inherits the open file description of the lock. `recover_session` runs in a later
process and reads nothing but `session.json`, `proposal_state.json` and the newest
`batch_results.json`. The held-out runner stands alone: one process, one directory. The schedule
agent is one process too; its GPU worker is a subprocess that shares the bundle's directory, its
planner a service behind HTTPS, and the reader of its bundle a later preflight. `play_episode`
builds one `SampledMCTS` per decision, in its own process, and its caller adds the episode to the
buffer.

The hazards, each at its line, are in `PROJECT.json`.

## 2. Modules

| Module | Models | Lines of the code |
|---|---|---|
| `ExperimentSession` | sessions: every command as a process, every file replacement a step | `experiment_session.py` 76-91, 193-224, 282-527, `experiment_batch.py` as it shows in its files |
| `BatchLog` | abstract: what `batch_results.json` promises its later readers | `experiment_batch.py` 271-384 |
| `ExperimentBatch` | `run_batch` in detail, its three files and the order of its schedule | `experiment_batch.py` 118-384 |
| `IsolatedRun` | abstract: what a run in a worker promises its caller | `experiment.py` 593-694 |
| `WorkerProcess` | the worker, the queue's feeder and pipe, signals | `experiment.py` 565-575, the Python library and the kernel |
| `ExperimentRunner` | `run_experiment`: join, then read | `experiment.py` 593-672 |
| `PairRunner` | `run_worker`: read, then join | `experiment_pair.py` 414-465 |
| `HeldoutRunner` | invocations of `run_heldout_evaluation`, one after another | `tensor_game_heldout_runner.py`, `tensor_game_heldout_execution.py` 260-378 |
| `ScheduleAgent` | the two-batch agent, its planner, its worker and every file of its bundle | `run_schedule_agent_prototype.py` 58-425, `tensor_game_schedule_agent.py` 62-309 |
| `SampledSearch` | `SampledMCTS.run` over exact residuals | `tensor_game_search.py` 381-645, `tensor_game.py` 93-118 |
| `Experience` | `play_episode` and `ReplayBuffer`, with one `SampledSearch` per decision | `tensor_game_experience.py` 99-285, `tensor_game.py` 131-156 |
| `MC*` | instances for TLC | |
| `*Proofs` | theorems and their proofs | |

`ExperimentRunner` and `PairRunner` extend `WorkerProcess` and are both shown to implement
`IsolatedRun`. `ExperimentBatch` and, at the coarser grain that recovery sees,
`ExperimentSession` are both shown to implement `BatchLog`: this is the bridge between the two
models of a batch. `ExperimentSession` relies on it where `recover_session` treats a final
record as proof.

### ExperimentSession

`session`, `dirs`, `rec` and `batch` are the files; `lock`, `pc`, `cur`, `mem`, `run` and
`worker` are lost with a process; `launched` and `durable` are history: what really ran, and what
left a conclusive `result.json`. A proposal is a record of its state, cost and repetitions, the
units it consumed and reserved, and its recovery resolution. Candidates are abstracted to
fingerprints, references to pairs of a proposal and a kind. A command takes the lock without
blocking and copies `session.json`; acceptance is `BeginSubmission`, `MakeDirectory`,
`SaveAccepted`, `SaveRunning`; the batch is `OpenBatch` or `RefuseBatch`, then `Launch`,
`ChildRecorded` or `ChildRaised`, `PersistEntry` until `FinishBatch` or `BatchRaises`; settlement
is `Settle` or `SettleAfterError`, `Record`, `SaveFinal`. `Kill` loses the process and keeps its
worker, which keeps the lock until `WorkerExit`. A worker that ignores SIGTERM when its command
is interrupted (`survivor`) outlives LOCK_UN: its process lingers to join it, and other commands
may work meanwhile. `Tear` is the death of a worker inside its payload, after which the command
waits in `recv` until a Ctrl-C or its own death. `Escape` is an exception outside the batch
call. An invocation ends with an entry that is confirmed (run id and result path) or uncertain.

### ExperimentBatch

One step per file replacement of `_persist`, one per call of the executor and per outcome
(result with or without interruption, exception), `Die` for the death of the process at any
step. `Tear` leaves the executor waiting in `recv` for the rest of a torn payload. The schedule is
any sequence whose every block of one repetition is a permutation of the
valid candidates, which is what `random.Random(seed).shuffle` per repetition gives. `asked` is
history: a Ctrl-C was delivered. `except BaseException` around validation is part of `Plan`.

### WorkerProcess, ExperimentRunner, PairRunner

A payload has a size in units of the pipe; `Capacity` units fit. `put` only buffers: the feeder
moves units while there is room, and the process cannot exit before it is done. `ample`, chosen
at the start and never changed, says that the timeout is longer than every computation that
ends: without it the timeout may strike at any moment, with it only when the worker is stuck.
Faults: the computation hangs, the process dies while it computes or while it writes, it outlives
SIGTERM, Ctrl-C strikes. `messages.get(timeout)` bounds only the wait for the first bytes, so
that reading the rest (`Recv`) waits without a timeout.

### HeldoutRunner

`manifest`, `store` and `progress` are the files. An invocation binds the directory to its
protocol, rebuilds `progress.json`, reads the set `completed` once and walks over the schedule.
Ctrl-C is possible after `store.write` has written and before it returns; the record of the
interruption then conflicts with the one on disk, and the ValueError replaces the
KeyboardInterrupt (`RejectDuplicate`). `Escape` is any other end: a kill, an OSError, a Ctrl-C
outside the `try`. One invocation follows another; two at a time are not modelled.

### ScheduleAgent

`files` and `manifest` are the bundle, a file being named by its batch and kind and holding what
the properties tell apart. `todo` is the list of writes the controller makes before its next
step, `error` the exception it raises after them. `Bundle.write` is four steps: the size check
with the temporary file, the replacement, the truncation of `hash_manifest.json` and its new
contents, which list whatever is in the directory, a worker's unfinished output included. A file
costs one unit of the size limit, except that `args.note` is the size of `failure.json` and of
`decision.json`: their reason has up to 2,000 characters, which JSON may escape to more than 16,000
bytes. A refused write (`RefuseWrite`) raises into the handler (`Handle`) from anywhere inside the
`try`, `control_comparisons.json` and `resource_usage.json` included; only that of `failure.json` is
swallowed, and that of `decision.json` leaves `run`. A request to the planner has a bounded size, an answer reports
its tokens; it may be lost, unaccountable, unusable, or an invalid proposal. `FallBack` and
`Exhaust` are the two ways `get_proposal` takes an exception. The worker writes in place, may fail
before and after, and goes on when the controller dies (`Crash`). `sent` and `given` are history:
the requests that left, and what the provider answered. The manifest lists hashes; here it lists
contents, so that `manifest = files` is what `verify_artifact_hashes` and the comparison of the
names establish. A CPU run replays Batch 1 from an earlier bundle.

### SampledSearch and Experience

A tensor is a function from cells to integers, an action its outer product. A node is keyed by
residual and remaining moves, so that several orders of the same actions share it; `edges` holds the
statistics of the actions of expanded nodes, with the cached child. A simulation is
`StartSimulation`, then `Follow`, `Link` or `HitLimit` until `Expand` or `StopAtLeaf`, then
`Backup`. PUCT scores, priors and values only choose an action: the choice is free, which
includes every policy. `Experience` plays an episode with one search per decision, whose variables it
resets; it takes any action of the root's support, ends as the game, the wall time or an empty
support ends it, and adds the episode with its returns to the buffer or is refused as a duplicate.

## 3. Runs

| Run | Instance | Shows |
|---|---|---|
| `session_safety` | 2 controllers, 2 proposal ids, 3 submissions (two new candidates; one repeated twice with a reference; one duplicate), budget 3, all faults | 10 safety and action properties and `ImplementsBatchLog`: 467 677 states up to the symmetry of the controllers |
| `session_commands_end` | 2 controllers, 1 submission, all faults, fairness | `CommandsEnd`: the lock is released on every path, but for a torn payload and an orphan |
| `session_refusal` | an id that cannot be hashed | finding: one rejected proposal refuses all later ones |
| `runner_faults` | payloads of 1, 3, 4, 6 units in a pipe of 4, all faults, fairness | `ImplementsIsolatedRun`, `ResultsDelivered`, `ControllerReturns` |
| `runner_large_payload` | the same payloads, no faults | finding: a finished worker is reported as a timeout |
| `pair_faults` | the same payloads, all faults, fairness | the same promises, and `FinishedIsNoTimeout` for payloads of every size |
| `pair_lost_result` | no faults | finding: a delivered result is reported as none |
| `batch_events` | 2 candidates, 3 repetitions, all events, fairness | 5 properties over 336 421 states |
| `batch_interruption` | Ctrl-C only | finding: Ctrl-C in validation does not stop scheduling |
| `heldout_resumes` | 3 trials, progress every 2, 2 protocols, 3 invocations, fairness | 6 properties over 166 239 states |
| `agent_faults` | live, fallback and saved planners, with and without GPU, bundles of ten sizes, short and long closing notes, all answers and faults, fairness | 5 properties over 427 976 states |
| `experience` | tensors of one cell, 2 actions, 3 targets, 3 episodes of 2 moves, 5 simulations, 4 nodes, a buffer of 2, fairness | 6 properties over 323 613 states |

**Bounds, and why they are enough.** Two controllers are the least that race, and the most that
matter: the lock admits one, and every invariant of a third would be one of the second. Two ids
let a proposal refer to the result of another and duplicate its candidates; a budget of three
admits the two-unit proposals once, so that every refusal for the budget, every partial charge and
every release is reached. Payload sizes lie below, at and above the capacity of the pipe, and
below it by more than one, so that a feeder is interrupted with units both written and
unwritten. Three repetitions of two candidates have a first, a middle and a last block. Three
trials with an interval of two have an update inside the schedule and a remainder; three
invocations allow a resume of a resume. The ten sizes of a bundle are full at the set-up, in
Batch 1, at its feedback, in Batch 2, at the comparisons, at the resource usage, at the decision, and
never; closing notes of one unit fit a reserve of two, those of two units do not; two requests fit the
tokens with one to spare, so that reported totals of 1, 3, 4 and 8 leave room for the second request,
leave none, exceed one request and exceed all. Tensors of one cell with the actions +1 and -1
already have transpositions (+1 then -1, -1 then +1), targets won in no move, one and two, and
residuals no move left can win; four nodes are fewer than a search of two moves can make, and five
simulations enough to fill them and go on; three episodes overflow a buffer of two. The bounds
on the counters are those constants: the modules put no other bound on a behaviour, except
`MaxInvocations` in `HeldoutRunner` and `Plays` in `Experience`.

**Deadlock** is checked in the session and batch runs. It is not checked where the system
really stops: the workers of `runner_faults` and `pair_faults` can leave the controller waiting
for ever (half a payload, see section 5), and after the last of `MaxInvocations` invocations
nobody resumes `heldout_resumes`. A run of the agent ends, and so do the episodes of `experience`.

**Fairness.** `ExperimentSession`: weak fairness of the steps a command takes itself, unless its
worker is torn. File writes return, and so does the runner, with the exception that
`ControllerReturns` makes: after a payload torn by its worker's death (`experiment.py` 654) nothing
but a Ctrl-C or a kill ends the wait, and neither can be counted on. Operators, faults and the end
of stray workers are not fair; nobody limits how long an orphan runs, and one with a payload
larger than the pipe never ends. `ExperimentBatch`: weak fairness of `Step` unless `pc = "torn"`, for
the same reasons.
`WorkerProcess`: the scheduler runs the worker, its feeder and deaths by SIGKILL; a computation
ends or hangs; SIGTERM is fair only where no worker is stubborn. `PairRunner`: strong fairness of
`DeadlineExpires`, since the loop compares a monotonic clock with a fixed deadline and cannot
poll for ever. `HeldoutRunner`: weak fairness of `Step`; an episode has a limit of moves and of
wall time. Invocations are not fair. `ScheduleAgent`: weak fairness of `Controller`: an alarm of
fifteen seconds ends every wait for the planner, and the timeout of `subprocess.run`, which kills,
every wait for the worker; the worker and deaths are not fair. `Experience`: weak fairness of `Next`:
one sequential program, whose loops have limits of moves and simulations.

**Mutants.** Every property of every passing run has a mutant in `PROJECT.json`: an operator next
to the one it replaces that differs as a plausible bug would (a lock ignored, a reservation not
counted, a join left out, progress trusted instead of the records, a manifest that lists only what
was just written, a path not reset between simulations), under which TLC finds the property violated in the same instance.

## 4. Proofs

All theorems hold for every value of the constants that satisfies the named assumptions
(`ConstantsOK`, `BatchConstants`, `WorkerAssumption`, `HeldoutConstants` with
`NoRecordAssumption`, `AgentConstants`, `SearchConstants` with `ExperienceConstants`), which TLC evaluates in the runs.

- **SumTheorems.** Budgets, visits, episodes and tensors are summed with the community modules'
  `SumFunctionOnSet` and `FoldFunction`, which fold along a function on the subsets of a set that
  a CHOOSE picks. That such a function exists for a finite set (`AddsExists`) and that the order does
  not matter (`SumTakesOut`) are inductions over cardinality; as no induction rule over a predicate
  can be used, they go through a set of numbers and the well-foundedness of `<` (`NatSetInduction`).
  `SumChanges`, `SumGrows` and `SumOfZeros` are what the books of the components need.
- **ExperimentSessionProofs.** `IInv` is inductive: types; `LockInv` (who is at work holds the
  lock, and so does an orphan's dead controller; a running worker is awaited or an orphan, and a survivor's
  process is at work or lingers); `BatchInv` (a batch file lists all launches
  if final and all but the last otherwise); `LedgerInv` (each entry on disk is justified by the
  history variables in the way its state demands); `HolderInv` (the same for the copy in the
  memory of the process at work, at every control point, and what that copy may differ by).
  The properties alone are not inductive, since the copy in memory is what the next save writes.
  From it follow `TypeCorrect`, `GpuIsLockedAlways`, `LaunchesAreCovered`, `ChargesAreBacked`,
  `FinalBatchesAreProof`, `SettledAreExact`, the action property `SettledStayFinal`, and the
  refinement `SessionImplementsBatchLog`.
  `SaveInv`: whoever holds the lock has in memory at least what
  `session.json` has (`Ahead`), so that its next save takes nothing back; a settled entry reaches
  `proposal_state.json` first. `RecordsPrecede` and the action property `SavesLoseNothing`.
  `BudgetInv`: not only the file but the copy in the memory of every process at work balances
  and is not overdrawn (`Sound`), as its next save becomes the file: an acceptance charges no more
  than there is, and a settlement or a recovery never more than was reserved. `BudgetIsBalanced` holds
  for any set of ids, as the sum is over the proposals there are, which stay finitely many.
  `CommandStepsAreBounded`: what the holder of the lock does lowers a number, three for each invocation
  it has left and a few around the batch (waiting for a torn payload is no step); that those left are not negative is part of `HolderInv`.
- **ExperimentBatchProofs.** `BInv` relates the three files to the entries in memory at every
  control point, and the launches to the entries. `BatchTypeCorrect`, `BatchEndsWithInterruption`,
  `BatchFilesAgree`, `BatchImplementsBatchLog`. `RankInv` adds that what is ranked has run in full
  and that "success" ends the schedule. Its heart is `OncePerRepetition`: a schedule of blocks, each
  a permutation, has every candidate exactly `Repetitions` times, shown by a bijection between the
  blocks and the positions of the candidate; hence a candidate that ran in full never runs again.
  `BatchSuccessIsComplete` and the action property `BatchRanksLast`. `EndInv`: the loop is only left
  at the end of the schedule, and only a delivered Ctrl-C makes an interruption of an entry.
  `BatchReturnsAfterAllRuns`: without one, run_batch returns from an accepted batch only when every
  planned run was launched. `BatchStepsAreBounded`: each step lowers a number (`StepsLeft`).
- **ExperimentRunnerProofs.** `RInv`: units written, piped and read add up to the payload, and
  each control point knows whether the worker lives. `RunnerTypeCorrect`,
  `RunnerImplementsIsolatedRun`, and, with `DeliveryInv`, `RunnerDelivers`. `WaitInv`: who waits for
  an end has signalled, and who reads has not. `RunnerWaitsOnlyForTorn`: the two processes wait for
  each other only where the worker died inside its payload, the exception `ControllerReturns` makes.
- **PairRunnerProofs.** `PInv` likewise; `SignalInv`: under an ample timeout only a hung worker
  is ever signalled. `PairTypeCorrect`, `PairImplementsIsolatedRun`, `PairFinishedIsNoTimeout`,
  `PairWaitsOnlyForTorn`.
- **HeldoutRunnerProofs.** `HInv`: all trials before the current one are recorded, those behind
  it only if the invocation found them; the protocol in memory is the manifest's. `LagInv` counts
  the records progress.json misses by `executed % ProgressEvery`, for which `NextRemainder` proves
  how a remainder grows. `StopsLoseOneEpisode` is inductive given `HInv`: `OneMoreEpisode` shows
  that an episode adds one to the sum over all trials, and each episode that ends adds a record or a
  stop (`HeldoutStopsLoseOneEpisode`). `HeldoutTypeCorrect`, `HeldoutRecordsAreFinal`,
  `HeldoutRecordsFollowManifest`, `HeldoutReturnsComplete`, `HeldoutProgressLags`.
  `HeldoutStepsAreBounded`: on whatever path, each step of an invocation lowers a number that
  starts at ten per trial and twenty.
- **ScheduleAgentProofs.** `AgentInv` relates what is in the bundle to what is still on the list
  of writes: `WritesAgree` (a pending file says what the state says), `WriteUnderWay` (between
  replacement and manifest the head of the list is in the bundle), `ProposalsKept`,
  `RequestsCounted`, `LastKept` (class A
  comes after the last two files; a refused one makes it D), `WorkerAwaited` (a worker runs only while it is awaited, or its controller is
  dead), `AIsEarned` and `LimitCloses`. The properties are not inductive alone, because a decision
  is taken in memory, many writes before it is in the bundle. From it follow `AgentTypeCorrect`,
  `OnlyLiveIsLive`, `RequestsAreInOrder` and the action property `NothingAfterLimit`. `EvidenceInv`
  adds four parts for `EvidenceIsSound`: measurements come from a GPU run (`MeasuredOnGpu`); the
  files of Batch 1 that the preflight wants are those of a measured batch and nothing rewrites them
  (`Batch1Kept`); with the feedback there, the others are there or promised (`Batch1Promised`);
  and outside of a write the manifest lists the bundle, up to a worker's output
  (`ManifestMatches`). `RoomInv` counts the files of the bundle: all that are not of the end of the
  run leave the reserve free. `AgentEndsDecided`: the run returns only with its decision in bundle and
  manifest, wherever a write was refused, and is raised out of only over a worker's left-over output or
  closing notes that do not fit the reserve together (`Long`). `AgentConstants` asks that no limit is
  below the reserve, as with `reserve = 16_000` and `max_artifact_bytes = 2_000_000`.
  `AgentStepsAreBounded`: each step of the controller lowers a number below 630, and no step of the
  worker raises it.
- **ExperienceProofs.** `ExperienceInv` is the types of search and game with the exactness of the
  table, preserved by every step of a search and restored by every new one: `ExperienceTypeCorrect`
  and `SearchTableIsExact`, as everything below for tensors of any index set, any actions and limits.
  `WayInv`: the nodes of a walk are a chain of cached children from the root to where it stands, each
  with a move less (`Chain`), and the actions on it add up to the residual there (`Standing`); what
  other walks cached is of use only because `TableIsExact`. With `SolutionInv`,
  `SearchWalkIsExact`. `VisitsInv` says of every state what `VisitsAreConserved` says between
  simulations: a node's visits are those of the edges into it, and an edge that leads nowhere has
  none. Its heart is `WayOfNodes`: a walk came to each of its nodes but the root by exactly one of
  its edges, since remaining moves tell them apart, so that `_backup` adds one on each side.
  `SearchVisitsAreConserved`.
  `BufferInv`: the decisions of every game, buffered or under way, carry its id, so that eviction can
  take no decision of another episode (`BufferRowsAreOwned`). `GameInv`: each decision of a game
  stands where the actions before it lead, and the actions from it on lead to what is left (`Walked`);
  a game goes on only while it is neither won nor out of moves, so that its outcome is what
  residual and length say (`Ended`); what is buffered has its returns (`Earned`).
  `BufferedEpisodesReplay` and `BufferedReturnsAreEarned`. `EpisodeStepsAreBounded`: a step of a walk
  has a move less to go (`TableIsExact`, `WayInv`), a simulation at most three steps more than moves,
  a search its simulations, and an episode a search for each move. The sums of tensors are
  cell by cell those of `SumTheorems` (`CellSum`, `SumAppends`).

**Only model-checked.** Of the properties of the passing runs, every safety property, action property
and refinement is proved; liveness is not (`CommandsEnd`, `ControllerReturns`, `FailuresDoNotStopIt`,
`InvocationEnds`, `EndsWithDecision`, `EpisodeEnds`): fairness and ENABLED are out of the prover's
reach. Its other half is proved, for all constants: nobody goes on for ever
(`CommandStepsAreBounded`, `BatchStepsAreBounded`, `HeldoutStepsAreBounded`, `AgentStepsAreBounded`,
`EpisodeStepsAreBounded`), nobody waits but for a torn payload (`RunnerWaitsOnlyForTorn`,
`PairWaitsOnlyForTorn`), and whoever returns has done what the property says
(`BatchReturnsAfterAllRuns`, `AgentEndsDecided`). What TLC adds is that under the stated fairness
a next step is there and is taken. That the findings of section 5 are reachable is shown by TLC alone.

## 5. Findings

Four runs show the code at odds with what the repository says of it; `PROJECT.json` quotes the
lines.

1. `session_refusal`: a rejected proposal whose `proposal_id` is a JSON list or object is recorded
   with it; from then on `used_ids.update` raises TypeError and every proposal is rejected.
2. `runner_large_payload`: `run_experiment` joins before it reads, which `experiment_pair.py` warns
   of: a payload larger than the pipe turns success into a timeout.
3. `pair_lost_result`: an answer that arrives between an empty poll and the liveness test is lost.
4. `batch_interruption`: Ctrl-C during validation is taken for an invalid candidate.

Observed while modelling, with no run of their own:

- The KeyboardInterrupt handler of `run_experiment` (664-668) sends SIGTERM and joins for five
  seconds, but has no SIGKILL; `IsolatedRun` therefore promises the worker's death for every
  verdict but "interruption", while `docs/experiment_runner.md` 249-250 says the runner has
  "cleaned up its worker".
- A worker that dies while its feeder writes leaves half a message; the controller, which holds a
  write end of the pipe itself, then waits for the rest without a timeout (`Torn`). A batch stops there
  and a session stays locked, although `docs/experiment_runner.md` says that no kind of failure stops
  later candidates.
- Two workers can be on the GPU at once: the survivor of an interrupted command and the worker of the
  next one (`GpuIsLocked` allows exactly this case).
- A crash between `mkdir` and the first save of an accepted proposal leaves a directory that
  makes every later submission of this id fail with FileExistsError (`DirectoryExists`).
- Nothing keeps two held-out invocations from resuming one directory at the same time.
- `docs/experiment_runner.md` says "Inspection incorporates any conclusive child results", but
  `recover_session` reads only `batch_results.json`: a `result.json` written before its entry was
  persisted is overlooked. The unit stays reserved, so nothing is lost, only unaccounted.
- The schedule agent's "terminal state": the write of `decision.json` is outside the `try` of
  `run`, and the output a failed or killed worker leaves in the bundle counts against its size. Where
  that takes the reserve, `run` raises and no terminal state is recorded; likewise where a reason is
  so long, once escaped, that the reserve does not hold it twice (`Crowded` in `EndsWithDecision`
  allows exactly these cases).
- A controller that dies inside any `Bundle.write` leaves a manifest that is torn or does not list
  the newest file: the preflight then refuses a Batch 1 that is complete. It errs on the safe side.
- A planner request that times out may have been served and billed; its tokens are never known and do
  not count against `max_planner_total_tokens`. Its call does count.

## 6. Not modelled

- Session creation (the initial state), `show` and context exports (read only); medians, order of
  the ranking, CSV columns, messages.
- The GPU backends: one computation that ends, fails, hangs or dies. Floating point everywhere.
- Durability below the file system: a replacement is atomic and survives the process. Loss of
  power is not modelled; only the held-out store calls fsync.
- Contents of a planner's proposal and its validation field by field, the selection it guides, the
  measurements of a batch: data, chosen freely. PUCT scores, priors, values and visit
  probabilities likewise: they choose an action.
- The neural MCTS (the same search under another policy), shards and splits of a dataset, training.
- The rest of the pair bundle, schedule ranking and calibration: floating-point arithmetic over
  finished artifacts, without state between calls. Lowering: a pure function of one schedule;
  its runtimes launch kernels.
- Parsers, reports, studies and scripts, by far the most of the repository's lines: no state, or
  frozen one-off programs. They are why the modelled lines are a small share of all lines, and the
  components of section 1 without a module in section 2 are left out for this reason.
- The CUDA and C++ cores: rounding, and the memory model of the GPU.

## 7. Plan

Order of work, most important behaviour first; all of these are done.

1. `BatchLog`, `ExperimentSession`: budget, crash and recovery. Proved.
2. `ExperimentBatch`: the three files, completeness, ranking. Proved.
3. `IsolatedRun`, `WorkerProcess`, `ExperimentRunner`, `PairRunner`. Proved.
4. `HeldoutRunner`: resumes. Proved.
5. `ScheduleAgent`: bundle, planner budgets, worker. Proved.
6. `SampledSearch`, `Experience`: table, walks, episodes, buffer. Proved.

"Proved" is of safety; liveness is model-checked throughout, with the proved bounds of section 4.

What could come next, were it wanted: the lifetimes of HBM buffers and the order of dependent launch
groups in the lowering; splits that no target crosses; the index structure of parallel cyclic
reduction; a second invocation of the held-out runner on the same directory, once the
documents say what it should do.

## 8. Running

In this directory: `tlc -config session_safety.cfg MCExperimentSession` and likewise for the other
rows of section 3 (`PROJECT.json` names module and configuration of each run);
`tlapm ExperimentSessionProofs.tla` and likewise for the other proof modules.
