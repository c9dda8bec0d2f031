----------------------------- MODULE CellMatrix -----------------------------
(***************************************************************************)
(* The grid of training cells that run_experiment runs on the host's own   *)
(* cards: run_matrix of gpu_cell_runner, the manifests of cell_scheduler   *)
(* that let a later grid skip a finished cell, and the classification of   *)
(* the grid in _execute_cell_matrix.                                       *)
(*                                                                         *)
(* Worker threads are alike, so the model counts the ones at the head of   *)
(* their loop and keeps for each cell where the thread that has it is.     *)
(* A fingerprint is the version of what it hashes.  The directory of a     *)
(* grid is that of its run id, which OPENRESEARCH_STABLE_RUN_ID pins: the  *)
(* manifests written there outlive the process, threads do not.            *)
(***************************************************************************)
EXTENDS Naturals, Sequences, FiniteSets, SequencesExt

CONSTANTS
    Cell,          \* the cells of cells.json
    Card,          \* the cards the run may use
    Need,          \* Need[c]: the cards cell c asks for
    MaxParallel,   \* max_parallel
    MaxOom,        \* max_oom_retries
    Version,       \* fingerprints the cells can have
    MaxGrids       \* bound: grids of one project directory

ASSUME CellAssumption ==
    /\ IsFiniteSet(Cell) /\ IsFiniteSet(Card) /\ Card # {}
    /\ Need \in [Cell -> Nat] /\ {MaxParallel, MaxOom, MaxGrids} \subseteq Nat

VARIABLES
    grid,       \* of run_experiment: idle, running, over, down
    grids,      \* grids started so far
    version,    \* the fingerprint of the cells in this grid
    reuse,      \* the cells this grid skips
    queue,      \* work_queue
    idle,       \* workers at the head of their loop
    job,        \* per cell, how far the worker that took it is
    free,       \* free_gpus
    overdue,    \* the overall deadline has passed
    manifest,   \* per cell, cell_manifest.json: was it ok, and its fingerprint
    result,     \* per cell, results[cell_id].status
    verdict,    \* what _execute_cell_matrix returned
    finished    \* history: cells that ended ok, with their fingerprint

cvars == <<grid, grids, version, reuse, queue, idle, job, free, overdue,
           manifest, result, verdict, finished>>

Item == Cell \X (0 .. MaxOom)
CellExit == {"zero", "stub", "oom", "dead", "fail"}
CellStatus == {"ok", "failed", "skipped", "timeout", "oom_failed", "training_diverged", "error"}
Verdicts == {"none", "success", "degenerate_training", "oom_shrink_exhausted",
             "exec_timeout", "cell_execution_error"}
NoStatus == "none"
NoManifest == [ok |-> FALSE, fp |-> 0]
Resting == [at |-> "rest", retry |-> 0, cards |-> {}, exit |-> "zero"]

CellTypeOK ==
    /\ grid \in {"idle", "running", "over", "down"} /\ grids \in 0 .. MaxGrids
    /\ version \in Version \cup {0} /\ reuse \subseteq Cell
    /\ queue \in Seq(Item) /\ idle \in Nat /\ overdue \in BOOLEAN
    /\ job \in [Cell -> [at: {"rest", "waiting", "running", "released"},
                         retry: 0 .. MaxOom, cards: SUBSET Card, exit: CellExit]]
    /\ free \subseteq Card
    /\ manifest \in [Cell -> [ok: BOOLEAN, fp: Version \cup {0}]]
    /\ result \in [Cell -> CellStatus \cup {NoStatus}]
    /\ verdict \in Verdicts /\ finished \subseteq Cell \X Version

(***************************************************************************)
(* Pure parts.                                                             *)
(***************************************************************************)
Fewer(a, b) == IF a < b THEN a ELSE b

GpuCountUnclamped(c) == IF Need[c] = 0 THEN 1 ELSE Need[c]

\* _cell_gpu_count: clamped to [1, total_gpus].
GpuCount(c) == IF Need[c] = 0 THEN 1 ELSE Fewer(Need[c], Cardinality(Card))

WorkerCount == IF MaxParallel = 0 THEN 1 ELSE Fewer(MaxParallel, Cardinality(Card))

ShouldSkipAnyStatus(c, v, force) ==
    c \notin force /\ manifest[c].fp = v

ShouldSkip(c, v, force) ==
    c \notin force /\ manifest[c].ok /\ manifest[c].fp = v

\* The result of an attempt that is not retried.
StatusOomFirst(exit, timeUp) ==
    CASE exit = "zero" -> "ok"
      [] exit = "stub" -> "failed"
      [] exit = "dead" -> "training_diverged"
      [] exit = "oom"  -> "oom_failed"
      [] OTHER -> IF timeUp THEN "timeout" ELSE "error"

StatusOf(exit, timeUp) ==
    CASE exit = "zero" -> "ok"
      [] exit = "stub" -> "failed"
      [] exit = "dead" -> "training_diverged"
      [] OTHER -> IF timeUp THEN "timeout" ELSE IF exit = "oom" THEN "oom_failed" ELSE "error"

\* _execute_cell_matrix: what the statuses of the kept cells amount to.
Classify(st) ==
    LET Of(S) == {c \in Cell : st[c] \in S}
        err == Cell \ Of({"ok", "oom_failed"})
    IN  IF Of({"ok"}) # {} THEN "success"
        ELSE IF Of({"oom_failed"}) = {} /\ Of({"training_diverged"}) = err THEN "degenerate_training"
        ELSE IF err = {} THEN "oom_shrink_exhausted"
        ELSE IF Of({"oom_failed"}) = {} /\ Of({"timeout"}) = err THEN "exec_timeout"
        ELSE "cell_execution_error"

(***************************************************************************)
(* A grid starts, for the code as it then is.  resume is whether           *)
(* OPENRESEARCH_RESUME_CELLS is set and force the cells the operator wants *)
(* run anyway.  A worker asks should_skip_cell when it takes a cell; what  *)
(* that reads changes only when the cell itself is recorded, so the        *)
(* answers are those at the start.                                         *)
(***************************************************************************)
StartGrid(v, resume, force) ==
    /\ grid # "running" /\ grids < MaxGrids
    /\ grid' = "running" /\ grids' = grids + 1
    /\ version' = v /\ reuse' = {c \in Cell : resume /\ ShouldSkip(c, v, force)}
    /\ queue' = [i \in 1 .. Cardinality(Cell) |-> <<SetToSeq(Cell)[i], 0>>]
    /\ idle' = WorkerCount
    /\ job' = [c \in Cell |-> Resting]
    /\ free' = Card /\ overdue' = FALSE
    /\ result' = [c \in Cell |-> NoStatus] /\ verdict' = "none"
    /\ UNCHANGED <<manifest, finished>>

(***************************************************************************)
(* _worker.                                                                *)
(***************************************************************************)
config == <<grid, grids, version, reuse>>

Takes == /\ grid = "running" /\ idle > 0 /\ queue # <<>>
         /\ queue' = Tail(queue)

\* write_cell_manifest is fail-soft: an OSError leaves the older manifest.
Records(c, st) ==
    /\ result' = [result EXCEPT ![c] = st]
    /\ \/ manifest' = [manifest EXCEPT ![c] = [ok |-> st = "ok", fp |-> version]]
       \/ UNCHANGED manifest

SkipCell ==
    /\ Takes
    /\ LET c == Head(queue)[1] IN
        /\ Head(queue)[2] = 0 /\ c \in reuse
        /\ result' = [result EXCEPT ![c] = "skipped"]
    /\ UNCHANGED <<config, idle, job, free, overdue, manifest, verdict, finished>>

DropLate ==
    /\ Takes
    /\ LET c == Head(queue)[1] IN
        /\ ~(Head(queue)[2] = 0 /\ c \in reuse)
        /\ overdue
        /\ Records(c, "timeout")
    /\ UNCHANGED <<config, idle, job, free, overdue, verdict, finished>>

TakeCell ==
    /\ Takes
    /\ LET c == Head(queue)[1] IN
        /\ ~(Head(queue)[2] = 0 /\ c \in reuse)
        /\ ~overdue
        /\ job' = [job EXCEPT ![c] = [Resting EXCEPT !.at = "waiting", !.retry = Head(queue)[2]]]
    /\ idle' = idle - 1
    /\ UNCHANGED <<config, free, overdue, manifest, result, verdict, finished>>

\* _acquire_gpus: all of them at once, none while it waits.
Acquire(c) ==
    /\ grid = "running" /\ job[c].at = "waiting"
    /\ Cardinality(free) >= GpuCount(c)
    /\ \E S \in SUBSET free :
        /\ Cardinality(S) = GpuCount(c)
        /\ free' = free \ S
        /\ job' = [job EXCEPT ![c].at = "running", ![c].cards = S]
    /\ UNCHANGED <<config, queue, idle, overdue, manifest, result, verdict, finished>>

CellExitsLeaks(c, exit) ==
    /\ grid = "running" /\ job[c].at = "running"
    /\ job' = [job EXCEPT ![c].at = "released", ![c].cards = {}, ![c].exit = exit]
    /\ free' = IF exit = "fail" THEN free ELSE free \cup job[c].cards
    /\ finished' = IF exit = "zero" THEN finished \cup {<<c, version>>} ELSE finished
    /\ UNCHANGED <<config, queue, idle, overdue, manifest, result, verdict>>

\* _run_cell_subprocess returns, by itself, killed by its timeout or by the
\* dead-training guard, or without a launch; its cards are released.
CellExits(c, exit) ==
    /\ grid = "running" /\ job[c].at = "running"
    /\ job' = [job EXCEPT ![c].at = "released", ![c].cards = {}, ![c].exit = exit]
    /\ free' = free \cup job[c].cards
    /\ finished' = IF exit = "zero" THEN finished \cup {<<c, version>>} ELSE finished
    /\ UNCHANGED <<config, queue, idle, overdue, manifest, result, verdict>>

Retries(c) == job[c].exit = "oom" /\ job[c].retry < MaxOom /\ ~overdue

\* The retry is queued and a worker spawned for it; this one goes on too.
RetryCell(c) ==
    /\ grid = "running" /\ job[c].at = "released" /\ Retries(c)
    /\ queue' = Append(queue, <<c, job[c].retry + 1>>)
    /\ idle' = idle + 2
    /\ job' = [job EXCEPT ![c].at = "rest"]
    /\ UNCHANGED <<config, free, overdue, manifest, result, verdict, finished>>

RecordCell(c) ==
    /\ grid = "running" /\ job[c].at = "released" /\ ~Retries(c)
    /\ Records(c, StatusOf(job[c].exit, overdue))
    /\ idle' = idle + 1
    /\ job' = [job EXCEPT ![c].at = "rest"]
    /\ UNCHANGED <<config, queue, free, overdue, verdict, finished>>

WorkerEnds ==
    /\ grid = "running" /\ idle > 0 /\ queue = <<>>
    /\ idle' = idle - 1
    /\ UNCHANGED <<config, queue, job, free, overdue, manifest, result, verdict, finished>>

GridDeadline ==
    /\ grid = "running" /\ ~overdue
    /\ overdue' = TRUE
    /\ UNCHANGED <<config, queue, idle, job, free, manifest, result, verdict, finished>>

\* Every thread has ended: the missing results are filled in and classified.
GridReturns ==
    /\ grid = "running" /\ idle = 0 /\ \A c \in Cell : job[c].at = "rest"
    /\ grid' = "over"
    /\ result' = [c \in Cell |-> IF result[c] = NoStatus THEN "error" ELSE result[c]]
    /\ verdict' = Classify(result')
    /\ overdue' = FALSE /\ reuse' = {}
    /\ UNCHANGED <<grids, version, queue, idle, job, free, manifest, finished>>

\* The run's process is killed; a watchdog or a preemption does it mid-grid.
RunDies ==
    /\ grid = "running"
    /\ grid' = "down"
    /\ queue' = <<>> /\ idle' = 0 /\ job' = [c \in Cell |-> Resting] /\ free' = Card
    /\ overdue' = FALSE /\ reuse' = {} /\ result' = [c \in Cell |-> NoStatus]
    /\ UNCHANGED <<grids, version, manifest, verdict, finished>>

CellInit ==
    /\ grid = "idle" /\ grids = 0 /\ version = 0 /\ reuse = {}
    /\ queue = <<>> /\ idle = 0 /\ job = [c \in Cell |-> Resting]
    /\ free = Card /\ overdue = FALSE
    /\ manifest = [c \in Cell |-> NoManifest] /\ result = [c \in Cell |-> NoStatus]
    /\ verdict = "none" /\ finished = {}

GridWork ==
    \/ SkipCell \/ DropLate \/ TakeCell \/ WorkerEnds \/ GridReturns
    \/ \E c \in Cell : \/ Acquire(c) \/ RetryCell(c) \/ RecordCell(c)
                       \/ \E x \in CellExit : CellExits(c, x)

CellNext ==
    \/ GridWork \/ GridDeadline \/ RunDies
    \/ \E v \in Version, resume \in BOOLEAN, force \in {{}} \cup {{c} : c \in Cell} :
        StartGrid(v, resume, force)

\* Threads run, and a cell's process ends because run_experiment always gives
\* it a timeout.
CellSpec == CellInit /\ [][CellNext]_cvars /\ WF_cvars(GridWork)

(***************************************************************************)
(* Properties.                                                             *)
(***************************************************************************)
\* A card is in the pool or held by one cell, and by the worker that runs it
\* only: none is shared by two cells, none is lost when an attempt fails, and
\* a worker holds none while it waits for more.
CardsAccounted ==
    /\ CellTypeOK
    /\ grid = "running" =>
          /\ free \cup UNION {job[c].cards : c \in Cell} = Card
          /\ \A c \in Cell : /\ job[c].cards \cap free = {}
                             /\ \A d \in Cell \ {c} : job[c].cards \cap job[d].cards = {}

\* A cell a grid skips did end ok under the fingerprint the grid has for it,
\* in this grid's directory, whatever was killed, retried, timed out or not
\* written in between.
SkipEarned ==
    \A c \in Cell : result[c] = "skipped" => <<c, version>> \in finished

\* oom_shrink_exhausted stops the whole run, so it is only given when every
\* cell ran out of memory at the end of its shrink ladder: not for a cell the
\* deadline cut off on the way down.
StopIsEarned ==
    verdict = "oom_shrink_exhausted" =>
        \A c \in Cell : job[c].exit = "oom" /\ job[c].retry = MaxOom

\* A grid with several card counts, retries that come back to an empty queue
\* and workers that leave it always returns, unless its process dies.
GridEnds == grid = "running" ~> grid \in {"over", "down"}

\* What cell_matrix.aggregate_cell_metrics says of a skipped cell: it counts
\* as a freshly run ok one.  So a grid all of whose cells are ok or skipped
\* is a success.
ResumedGridSucceeds ==
    grid = "over" /\ (\A c \in Cell : result[c] \in {"ok", "skipped"}) => verdict = "success"
=============================================================================
