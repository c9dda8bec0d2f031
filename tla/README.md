# OpenResearch: a verification project in TLA+

OpenResearch reproduces research papers with language-model agents. A run is a
subprocess that works in one project directory, on leased GPUs or in the cloud,
and leaves a report. This project models the parts of the repository that
decide whether runs are started once, stopped when asked, given cards and pods
of their own, brought to an end, and reported truthfully. It does not model
what the agents do.

Paths below are relative to the repository.

## 1. The system

### Components, state and interaction

| Component | State it keeps | Operations | Talks to |
|---|---|---|---|
| Local GPU allocator (`backend/services/runtime/local_gpu_allocator.py`) | lease file `.gpu_leases.json`, under a flock | `acquire`, `release`, `reclaim_stale`, `capacity` | `nvidia-smi`, the process table |
| GPU reservation (`gpu_reservation.py`, `gpu_holder.py`) | registry file under its own lock, one holder process per card | reserve, release, list, expiry | lease file (read only), `nvidia-smi` |
| Local LLM server (`scripts/serve_local_llm.py`) | a lease with a fixed id, a vLLM process | probe, lease, start, wait, clean up | allocator, the port |
| Batch launcher (`scripts/batch_reproduce.py`) | thread pool, `live_procs`, `_shutting_down` | `main`, `_run_one`, signal handler | allocator, child processes |
| Live run service (`backend/services/events/live_runs.py`) | `demo_status.json` per project, one subprocess each | start, resume, stop, get, stream; stderr watchdog | run script, archive, sweeper |
| Liveness sweeper (`run_liveness.py`) | none of its own | `sweep_orphaned_runs` in a thread | `demo_status.json`, `final_report.json` |
| RLM run loop (`backend/agents/rlm/run.py`) | `demo_status.json`, `final_report.json` | `_finalize`, SIGTERM finalizer, wall-clock watchdog, cost thread | policy, report, attempt isolation |
| Forced iteration policy (`forced_iteration.py`) | counters of turns, repairs and refusals | the FINAL_VAR interceptor, recording of primitives | run loop |
| Final report (`report.py`, `finalize_regrade.py`, `two_axis_report.py`, ...) | the report, rows of `experiment_runs.jsonl`, grades | drafts, regrade, six corrections, write | leaf scorer |
| `run_experiment` (`primitives.py`) with RunPod backend, sandbox aggregate and pod sweeper | threads, pods | attempt, retry, watchdog, escalate; sweep | the provider's API |
| Cell runner on local cards (`gpu_cell_runner.py`, `cell_scheduler.py`) | card pool, queue, manifests | `run_matrix`, resume, classification | training subprocesses |
| Cell runner on Kubernetes (`k8s_job_cell_runner.py`, its entrypoint) | Jobs, blob results, a budget | submit, watch, escalate, resume | the Job controller |
| Rubric-driven controller (`backend/agents/rdr/`) | `code/`, `commands.json`, `iterations/` | batches of agents, gate, experiment, scoring, repair, resume | coding agents, primitives |
| Hybrid controller (`backend/agents/hybrid/controller.py`) | a copy of the Phase 1 report | Phase 1 (rubric-driven), Phase 2 (RLM repair), choice | both of the above, attempt isolation |
| Event store (`backend/eventstore/sqlite_store.py`) | `event_store_events` | `append`, `load`, `purge_project_aggregates` | SQLite |
| Event subscription (`subscription.py`) | checkpoint row, redelivery table, cursor | iterate, `ack`, `nack`, reposition, `close` | event store |

`PROJECT.json` lists every other component with the reason it is not modelled.

### What is hard here

* *Nobody locks the status record.* HTTP handlers, the sweeper, the stderr
  watchdog, the run script and four writers inside `run.py` each read the whole
  record and later replace it, inside one process through one temporary name.
* *A pid is the only handle on a run*, and the record is without one at several
  moments. Nothing waits for the children of the server; signal 0 succeeds on a
  zombie.
* *A lease is held by the launcher, not by the child it is for*; a reservation is
  held by a process nobody waits for; the model server's lease has a fixed id.
* *Abandoned threads.* A timeout in this code gives up on a thread; the thread
  goes on, with its pod, its files or its result.
* *A report is corrected six times in a row*, from evidence that the root can
  write and that earlier attempts may have left.
* *Resumption.* Manifests, checkpoints, Jobs and blobs of a former process are
  taken over by their names.
* *At-least-once delivery* rests on a checkpoint and a redelivery table that are
  changed by different statements, with crashes in between.

What makes each component correct is the list of properties in section 4.

## 2. Modules and plan

| Module | Models | Checked in | Proved in |
|---|---|---|---|
| `GpuAllocator` | the allocator and an arbitrary host | `MCLaunch`, `MCGpuHost` | `GpuAllocatorProofs` |
| `BatchLaunch` | launchers, workers, handlers and children, over `GpuAllocator` | `MCLaunch` | `BatchLaunchProofs` |
| `RunLifecycle` | one project of the run service with everything that writes its record | `MCLaunch`, `MCRunModes` | `RunModesProofs` |
| `RubricRun` | rubric-driven and hybrid runs | `MCRunModes` | `RunModesProofs` |
| `GpuReservation`, `LlmServer` | the other users of the cards, extending `GpuAllocator` | `MCGpuHost` | `GpuHostProofs` |
| `RunFinalize` | the threads that end a run's process | `MCRunProcess` | `RunProcessProofs` |
| `CellMatrix` | a grid of cells on local cards | `MCRunProcess` | `RunProcessProofs` |
| `ForcedIteration` | when the root may stop | `MCRootLoop` | `RootLoopProofs` |
| `FinalReport` | what the report may say | `MCRootLoop` | `RootLoopProofs` |
| `PodRun` | `run_experiment` on a pod, with the sweeper | `MCCloud` | `CloudProofs` |
| `CellJobs` | a grid of cells as Kubernetes Jobs | `MCCloud` | `CloudProofs` |
| `StreamStore` | what an event store promises (abstract) | a property of `EventStore` | `EventsProofs` (refinement) |
| `EventStore` | the SQLite store and its retrying writers | `MCEvents` | `EventsProofs` |
| `EventSubscription` | one durable consumer | `MCEvents` | `EventsProofs` |

An MC module instantiates several models at once. Where two of them do not
interact, a variable `part` says which of them a behaviour is about and the
other keeps its initial state, so one run of TLC checks both, one after the
other, and neither enlarges the other. Models that interact are composed in the
specification itself: `BatchLaunch`, `GpuReservation` and `LlmServer` over the
lease file of `GpuAllocator`; the store under its writers.

Next: models of the environment cache, the resilience engine, orchestration and the
intake of papers, with theorems of their own; and what of the run service's
guarantees survives its background threads.

## 3. How the models correspond to the code

**GpuAllocator.** Each operation runs under an exclusive flock and ends in one
`os.replace`, so it is one step. `Grant` is `acquire` when it writes a lease: it
reaps, keeps an existing lease, subtracts what is leased from what is free, takes
the first `count` by index and saves the reaped file. An `acquire` that returns an
existing lease or `None` saves nothing and is a stutter. `Smi` gives the three
outcomes of the two `nvidia-smi` calls; a failed process query makes every card
look process-free. The host is unconstrained.

**BatchLaunch.** `at` is the main thread, `pc` the worker of each paper, `sig` and
`todo` the signal handler, `live` the `live_procs` dictionary. `Acquire`, `Popen` and
`Register` are separate steps because the handler can run between them; `Finally` is
one step because the handler cannot tell its halves apart. Every change of leases
or processes is an operation of `GpuAllocator`, instantiated with runs as lease ids.
What happens between acquire and `Popen` may succeed or raise; the acquire deadline
may expire at any check; auto mode may ask for any number of cards, since the count
is taken before the lock. No card is reserved. A signal before the pool exists is
left out: at that point the launcher holds nothing.

**RunLifecycle.** The record is a status and a pid. A writer is a read step and a
write step of the copy it read; `_start_python_run` writes from the handler's memory
and reads nothing. `child[p].ph` follows the run script of mode `rlm-pure`. A process
that dies is a zombie until some other `Popen` of the server reaps it or, when the
server has died, init does. Each write is atomic here; the shared temporary name is
the business of `RunFinalize`. Pids are not reused. `Patient` clients act on a run
only while it is settled, that is stamped and not yet finishing.

**GpuReservation.** `reserve` holds the registry's lock through its spawns but never
the allocator's, so leases come and go between its steps: it looks at the cards
(`ReserveBegin`), spawns and confirms one holder after the other, and saves or rolls
back. A holder opens its card after it has been started, ends at its deadline, when
it is told to, or when the driver refuses, and outlives a reserving process that
dies. With a time to live of 0 a reservation never expires; `HoldsEnd` is about
positive ones.

**LlmServer.** A script probes, leases, starts vLLM in a session of its own, waits for
the port, and then waits for vLLM or detaches and gives the lease back, after which
only the processes on the cards protect them. `Overlap` allows two scripts at once.

**RunFinalize.** A file is published by opening a temporary name, filling and
renaming it, as three steps of the thread; a descriptor follows its file through a
rename (POSIX). The report and the record are what was last written to them, whole
or empty. The SIGTERM handler suspends the main thread; `os._exit` ends all. The cost
thread is joined for 5 s; `SlowJoin` lets it outlast that.

**CellMatrix.** Worker threads are counted at the head of their loop; a cell knows
where the thread that has it is. The deadline, out-of-memory exits, retries, a kill
of the process and a later grid with or without resume are actions; a fingerprint
is a version. VRAM sampling and the fabrication guard are outcomes of a cell.

**ForcedIteration.** One action per method of the policy and one for each outcome of
FINAL_VAR, with its tests in the code's order. An abandoned primitive reports
later (`Late...`). The two switches of the policy (fix-first, hard floor) are fixed
initially.

**FinalReport.** A run collects rows, grades and ledger counts, then drafts a report
on one of three paths and passes it through the corrections of
`write_final_report_rlm`, each of which is an operator, composed by `Corrected` in the
code's order. Scores are percentages. How a score is computed is not modelled: the
regrade may return any grade.

**PodRun.** An attempt is a thread with its own program counter; its caller waits
with a timeout and may abandon it. Requests to the provider may be granted with the
answer lost, deletes may fail. The aggregate of a (project, run) is a state that only
accepts one request. The sweeper may take any pod for old: ages are not numbers. The
opt-in fallback to local docker is left out.

**CellJobs.** A thread per cell, a Job per (cell, SKU step, call). The budget is
reserved before submission and escalation. The Job controller (pods, back-off,
deadline, TTL) is external and modelled by how the runner reads it. Initially there
may be Jobs, blobs and manifests of a former orchestrator.

**RubricRun.** Of `code/` the model keeps one file per cluster, whose content is a
number that grows with each write, and `commands.json` as the set of clusters whose
commands it lists. Snapshot (`AgentReturns`), `Merge` and `Checkpoint` are steps of their
own because the agents' threads, and crashes, come between. The semaphore is first
come, first served. An agent that exceeds 900 s is given up by the controller; its
thread has 5400 s and may go on (`orphan`). A resumed run takes every checkpoint for
done, of a failure too, and knows neither files nor commands of those clusters; a
start that is no resume leaves the old checkpoints on disk. `mended` and `again` are
history variables. `Phase2Starts` is the archive at the top of `run_pipeline_rlm`. The
instance gives each kind of run one of the two optional steps (candidates, gate).

**EventSubscription.** The consumer follows the pattern the interface recommends.
`Claim` is `_claim_due_redeliveries`, committed before the events are handled. A
careful operator (`Waits`) reopens a consumer after the retry delay and repositions
it only when nothing is held back; any other may do so at any time. `acked` is a
history variable: what has been handled since the last repositioning.

**EventStore.** `append` is one `BEGIN IMMEDIATE` transaction and hence one step with
four outcomes. A writer reads a version, appends, may lose the answer and send the
same batch again. `StreamStore` is the abstract specification: a batch goes to the
end of one stream or nowhere.

## 4. Runs

Passing:

| Run | Shows | Instance | States |
|---|---|---|---|
| `gpu_host` | no double lease, no live lease taken, a holder has an owner and ends, a reserved card can be leased, vLLM has its cards to itself | 2 cards, 2 holders, 1 launcher, 2 scripts | 179,084 |
| `batch_calm` | no shared cards, no stranded lease, a signal tears everything down | 2 launchers, 3 papers, 2 cards, fixed and auto requests | 826,544 |
| `launch` | refinement of `GpuAllocator`, launchers end; no live run recorded as interrupted, a lost run is reported | 2 launchers, 1 card, signals and kills anywhere; 1 run, sweeper and watchdog, 1 restart | 118,067 |
| `run_modes` | one process, visible while working, stopped means stopped; agents' work is what is graded, no repair twice, no score without metrics, the better phase ships | 3 pids, 4 requests, 1 restart; 2 clusters, 1 repair pass, 1 regeneration, 1 crash, 1 abandoned agent | 2,001,207 |
| `run_process` | a report whoever ends the process, its status stands, the process ends; cards accounted, skips and stops earned, the grid returns | 4 writers; 2 cells of different size, 2 cards, 2 versions, 2 grids | 480,888 |
| `root_loop` | refusals bounded, a degenerate loop is idle; success is backed by this process, by its score, and the best grade ships | 3 turns, thresholds of 1 to 3; 3 scores, 2 targets | 1.2 million |
| `cloud` | every pod accounted for; spending covered, a cell's verdict earned | 2 attempts, 3 pods, 1 retry; 2 cells, 1 SKU step, 1 preemption | 1.3 million |
| `events` | one order, true answers, refinement; in order, nothing lost, all handled | 2 writers, 2 aggregates, 3 ids; 5 events in batches of 2, 2 purges | 139,521 |

Runs that refute what a comment or a docstring says (quoted in `PROJECT.json`):

| Run | The code does |
|---|---|
| `retry_sandbox` | a transient failure is retried on a sandbox aggregate that accepts no second request |
| `resumed_grid` | a resumed grid whose cells are all reused is reported as a failed experiment |
| `hybrid_repair` | Phase 2 of a hybrid run archives the code it is told to repair |
| `shared_code` | with two agents at a time, the snapshot of one undoes what the other wrote (`run_modes` has one agent at a time) |

**More that the models show.** Each of these needs one constant of a configuration
changed:

| Constant | Property that fails | Because |
|---|---|---|
| `Signals = "any"`, `BatchCalm.cfg` | `SignalTearsDown`, `CardsNotShared` | a signal between acquire and registration frees the lease of a worker that then launches |
| `Patient = FALSE`, `RunPatient.cfg` | `StoppedMeansStopped` | stop of a run without a recorded pid kills nothing and records it as stopped |
| `Background = TRUE`, `RunPatient.cfg` | `WorkingRunVisible`, `StoppedMeansStopped`, `SingleRunner` | the stderr watchdog writes back a record that it read before the run had put its pid there |
| `Waits = FALSE`, `Events.cfg` | `InOrder`, `NothingLost` | a redelivered event is lost by a crash when the consumer is reopened before the delay is over |
| `SlowJoin = TRUE`, `RunProcess.cfg` | `TerminalStatusStands` | a cost thread that outlasts its join overwrites the terminal record |
| `Repeats = TRUE`, `GpuHost.cfg` | `NoUnownedHolder` | a card named twice gets two holders and one registry entry |
| `Overlap = TRUE`, `GpuHost.cfg` | `VllmExclusive` | the second script runs on the first one's lease and releases it |
| `HardKill = TRUE`, `GpuHost.cfg` | `VllmExclusive` | a script that is killed leaves a vLLM that still loads, on cards whose lease is reaped |

Further observations for a maintainer, made while modelling and without a run:

* *Run service.* The run script overwrites failed by completed (`live_runs.py:2084`
  against `run.py:3763`). Resume starts a second process when the record has lost
  the first pid, and refuses a dead run that is still a zombie (`live_runs.py:607`).
  The sweeper and GET may overwrite a record that has become terminal since they
  read it (`run_liveness.py:341`). A server that dies between the first record and
  `Popen` leaves a queued record for good (`live_runs.py:846`). Two papers of one name
  in a batch share a directory (`batch_reproduce.py:289`).
* *Cards.* `release` reaps nothing, though its class says so
  (`local_gpu_allocator.py:306`); a killed launcher leaves a child on cards whose
  lease is then reaped.
* *End of a run.* A SIGTERM after the handler has been restored leaves no report
  (`run.py:1825`).
* *Report.* The timeout cap is lifted to reproduced by the merge (`report.py:1470`);
  a regrade does not reach the salvage path (`run.py:1645`).
* *Experiments.* A failing delete replaces a successful result; an outer timeout
  does not cancel its coroutine; the sweeper deletes live pods older than two hours;
  timed-out Jobs are not deleted; a Blob resume ignores `force_cells`; without
  `OPENRESEARCH_STABLE_RUN_ID` no resume finds a manifest.
* *Rubric-driven runs.* A resume forgets the commands of finished clusters, so
  `commands.json` may shrink to `python train.py`; a failed repair drops its cluster's
  earlier commands; a raising re-experiment leaves the metrics of the earlier pass
  to grade the new code; the last score is shipped, not the best; a scorer that
  fails yields no leaves, which the hybrid controller reads as all leaves met; a
  start over an old directory leaves checkpoints that a later resume believes; a
  Phase 2 that raises does not restore the Phase 1 report.

**Bounds.** Every bound is a constant: requests, restarts, crashes, events, rows,
purges, grids, calls, pods, attempts, writes. The conflicts are between two parties
over one or two objects, so two of each and one spare suffice for each to happen;
`run_modes` has three pids so that a resume can follow a resume, and its hybrid runs
do not crash, since nothing of them is ever resumed. Batches of two out of five
events make every fetch end inside the log. Since requests, runs, attempts and
positions run out, a finished instance is not a deadlock and the configurations say
so. Symmetry is used for pids, clients, writers, ids and cells, and never where it
meets a liveness property: in `MCEvents` the only fair behaviours are those of the
subscription, in which the permuted values do not occur.

**Fairness.** Threads and handlers of a live process are scheduled (weak fairness).
In `BatchLaunch` the acquire deadline passes, which each worker tests every round
(strong, because a worker alternates between testing and trying), and a child ends,
since it has a wall-clock budget. In `RunLifecycle` the same holds of the run script;
requests, restarts and crashes are never assumed. In `GpuReservation` time passes and
a holder that is due exits. In `RunFinalize` the main thread, the deadline, the
watchdog and the writers of a hard stop move; the completion itself is not assumed
to return. In `CellMatrix` the threads and training processes together move. In
`EventSubscription` a stopped consumer is reopened and the clock advances (weak); a
consumer that is restarted again and again is not killed, nor its handler made to
fail, every single time before the same step (strong). Without the last assumption
no at-least-once consumer ever progresses.

## 5. Proofs

All for every value of the constants, under the named assumptions of the modules
and no others, except where a bullet names a hypothesis. Every state invariant and
every action property that a passing run checks is a theorem, and so are both
refinements. Each invariant was first checked by TLC in the run of its model, as the
conjunction of the same named parts that the proof uses.

The pattern is the same throughout: the property is not inductive, because it says
nothing of what a thread in flight is about to do. The strengthening says that, in
named parts; one lemma per action (or per part) shows that the step keeps it; the
theorem combines them.

* **GpuAllocatorProofs.** `TypeCorrect`, `DoubleAllocationFree` and
  `LiveLeaseNeverTaken`. `LeasesDisjoint` is inductive with the type invariant:
  reaping only removes, and a grant takes cards outside every remaining lease. That
  a slice by index is a subset of the candidates is all the proof needs of it.
* **BatchLaunchProofs.** `BatchImplementsAllocator` maps every step of the
  composition to a step of `GpuAllocator` or a stutter; that a granted request has a
  size the allocator allows takes a lemma on the cardinality of a slice.
  `LeaseAlwaysReleased` (`NoStrandedLease`) is unconditional: `HeldWhileWorking` says
  that a worker that has not acquired, or is through, holds nothing, and the lemma
  `LeaseStep` that leases appear by the acquire of their own worker only.
  `NoSharedCards` and `TeardownIsComplete` (`SignalTearsDown`) assume that launchers
  are not killed and are signalled only while none of their workers is launching.
  Their inductive invariant, `Guarded`, says that a child that is alive is watched
  (its worker has not passed the wait), that such a worker still has its lease with
  exactly the child's cards and in the name of its launcher, that this launcher is
  alive, and how far its handler can have got; `ListComplete` adds that the leases
  left when the handler has listed them are on its list. `CardsNotShared` then follows
  from the disjointness of leases, which is carried over from `GpuAllocatorProofs`
  through the refinement. `Signals = "any"` shows that the hypothesis is needed.
* **GpuHostProofs.** `VllmHasItsCards` (`VllmExclusive`) for scripts that do not overlap
  and are not killed outright; both hypotheses are needed (section 4). `ServerInv`
  follows the fixed lease id: whose lease it is (`LeaseOfScript`), that a script that
  found the port silent is alone (`NoOtherVllm`), and that a vLLM without its script
  has the port and memory on its cards (`DetachedIsBound`, `LoadedIsHot`), which is what
  keeps others off once the lease is gone. `EveryHolderIsOwned` and
  `HeldCardsAreUsable` for requests that do not name a card twice: `HoldInv` says what a
  reserve has in its hands (`InHand`), since the registry's copy in memory and the
  file differ until it is saved.
* **EventsProofs.** The store: `StoreKeepsOneOrder`, `StoreAnswersTruly` and
  `StoreRefinesStreams`, unconditional. `StoreInv` adds to `OneOrder` that no event is in
  the table twice (`RowsOnce`), that versions are gap-free and grow with positions
  (`Gapless`, `Aligned`), that nobody was given a position beyond the key sequence
  (`GivenOut`), so that none is reused after a purge, and that two stored batches were
  given different ones (`StoredApart`). The consumer: `DeliveredInOrder` and
  `NoEventLost`, if it is reopened after the retry delay and repositioned only with
  nothing held back. `DeliveryInv` adds that whatever precedes the cursor, a fetched
  event or a held-back event has been handled (or is itself fetched or in hand), and
  that at most one event is held back, none of them while others are in flight. The
  lemma `FirstIsPrefix` says that `ORDER BY ... LIMIT` returns a set closed downwards.
* **RootLoopProofs.** `RefusalsAreBounded` and `DegenerateRunsAreIdle`: refusals are
  counted in several places that other calls reset, and `PolicyInv` relates them: a
  streak of equal refusals never stands beside a pair of experiments, is no longer
  than the idle count, and is below the threshold until the policy lets go
  (`StreakMeansIdle`). `ReportedSuccessIsBacked`, `ReportedScoreBacksVerdict` and
  `ReportedPeak`: `ReportInv` says what a draft may claim before the corrections
  (`DraftModest`), that there are no metrics without rows, and that nothing is shipped
  before it is written; the rest is a case analysis over the composition of the six
  corrections, for any scores and targets.
* **RunProcessProofs.** The grid: `CardsAreAccounted`, `SkipsAreEarned` and
  `StopsAreEarned` from `CellInv`. `CardsPartitioned` is what makes the card pool sound;
  it needs `OnePlace` (a cell is once in the queue, or with one worker, or done), for a
  retry goes back to the queue while its former worker still runs. `OkIsEarned` says of
  every record that lets a cell be skipped that its version did end ok, and
  `LadderDone` that a cell given up for memory was at its last step. The end of the
  process: `OneFinisherReports` (`EndsWithReport`), unconditional, and
  `FinalStatusStands` (`TerminalStatusStands`) if the cost thread ends within its join
  (`~SlowJoin`, needed). `FinalizeInv` says what each finisher has yet to write, and in
  which order (`InPlan`), where the main thread is (`MainPath`), that "completed" comes
  from a main thread whose report is out (`CompletedEarned`; the cost thread may only
  copy it), and that a file with a single writer is, at each of its three steps, what
  that writer made it (`Clean`); `EndsWithReport` is about one finisher because with two
  the shared temporary name lets one publish the other's torn file.
* **CloudProofs.** `SpendIsCovered` and `CellVerdictsAreEarned` from `JobInv`: the
  Jobs' price and the attempts that have been reserved but not submitted (`Due`) are
  together no more than the reservations, so a check of the budget stays good while
  other threads submit; a cell has one thread; and a Job that a thread watches is
  gone or of this call (`OwnJob`). `NoPodForgotten` from `PodInv`: a thread that is
  through holds no pod, and the configured pod is in nobody's hands.
* **RunModesProofs.** `InterruptedIsDead` (`NoFalseObituary`) is unconditional: clients,
  sweeper, watchdogs, crashes and restarts. `ObituariesTrue` says the same of every
  copy of the record that some thread may yet write, and that the sweeper has found
  its process gone before it writes. `OneRunPerDirectory`, `RunAtWorkIsNamed` and
  `StoppedIsStopped` assume `Orderly`: a patient client with one request at a time and
  without the background threads, for any number of requests, crashes and restarts.
  `RunInv` says that the record, the script's copy and the handler's copy name the one
  process that may be alive (`RecordOfRun`), that a handler about to stop or replace a
  run found it at work (`Reached`), and that one past its tests is alone (`Alone`).
  `Patient = FALSE` and `Background = TRUE` show that patience, and the absence of the
  background threads, are needed (section 4). Rubric-driven and
  hybrid runs: `EachRepairOnce` and `BetterPhaseShips` for any number of agents at once,
  from `RubricInv` (a repair done has its checkpoint, and what is left of a pass has
  not been repaired in it); `WorkReachesTheGrader` (`WorkKept`) for one agent at a time,
  from `OnDisk` (what an agent has in hand is not older than what is on disk of the
  clusters done). The run `shared_code` shows that two at a time do not keep it.

Only model-checked: the liveness properties (`HoldsEnd`, `BatchEnds`,
`LostRunReported`, `EventuallyHandled`, `ProcessEnds`, `GridEnds`), for the prover has
neither fairness nor ENABLED; and the four runs that refute a comment, whose traces
are the evidence.

## 6. Not modelled

Model calls, prompts, code generation and static checks of generated code; scoring,
pricing and evaluation (arithmetic over model answers); the other primitives, which
are one model call each; the SSE stream, chat, leaderboard and frontend; the drivers
of docker, Brev and local sandboxes; retention and most of the file layout. The
resilience engine, the environment cache, ingestion with the idempotency table,
orchestration and approval have state worth modelling and are next. These and the
text-in, text-out parts are most of the repository's lines, which is why the map
covers a small share of them. Windows paths of the code (no flock, taskkill) are
left out.
