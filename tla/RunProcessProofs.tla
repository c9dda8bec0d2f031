-------------------------- MODULE RunProcessProofs --------------------------
(***************************************************************************)
(* Theorems on what happens inside a run's process: the grid of cells on   *)
(* local cards (CellMatrix) and the end of the process (RunFinalize).      *)
(*                                                                         *)
(* The grid, for any cells, cards, card counts, retries and grids: no card *)
(* is shared or lost, a skipped cell did end ok, and a run is stopped for  *)
(* memory only when every cell is at the end of its ladder.                *)
(*                                                                         *)
(* The end: FinalizeInv says what each finisher has left to write (InPlan) *)
(* and that a file with one writer is what that writer made it (Clean).    *)
(***************************************************************************)
EXTENDS CellMatrix, RunFinalize, FiniteSetTheorems, SequenceTheorems, TLAPS

(* A worker holds cards only while its cell's process runs.                *)
CardsWhileRunning == \A c \in Cell : job[c].at # "running" => job[c].cards = {}

(* A card is in the pool or held by one cell.                              *)
CardsPartitioned ==
    /\ free \cup UNION {job[c].cards : c \in Cell} = Card
    /\ \A c \in Cell : /\ job[c].cards \cap free = {}
                       /\ \A d \in Cell \ {c} : job[c].cards \cap job[d].cards = {}

(* A cell is in one place: once in the queue, with one worker, or done.    *)
(* Without this a retry could meet the attempt it came from.               *)
OnePlace ==
    grid = "running" =>
        /\ \A i, j \in 1 .. Len(queue) : queue[i][1] = queue[j][1] => i = j
        /\ \A i \in 1 .. Len(queue) : /\ job[queue[i][1]].at = "rest"
                                      /\ result[queue[i][1]] = NoStatus
        /\ \A c \in Cell : job[c].at # "rest" => result[c] = NoStatus

RunningGrid == grid = "running" => version \in Version /\ verdict = "none"

(* What says that a cell was ok is true of the version it says it of.      *)
OkIsEarned ==
    /\ \A c \in Cell : manifest[c].ok => <<c, manifest[c].fp>> \in finished
    /\ \A c \in reuse : <<c, version>> \in finished
    /\ \A c \in Cell : job[c].at = "released" /\ job[c].exit = "zero" => <<c, version>> \in finished

(* A cell that failed for memory stays as its last attempt left it.        *)
LadderDone ==
    \A c \in Cell : result[c] = "oom_failed" => job[c].exit = "oom" /\ job[c].retry = MaxOom

CellInv ==
    /\ CellTypeOK /\ CardsWhileRunning /\ CardsPartitioned /\ OnePlace /\ RunningGrid
    /\ OkIsEarned /\ LadderDone /\ SkipEarned /\ StopIsEarned

-----------------------------------------------------------------------------
(* The queue of a new grid names each cell once.                           *)
LEMMA FirstQueue ==
    LET q == [i \in 1 .. Cardinality(Cell) |-> <<SetToSeq(Cell)[i], 0>>]
    IN  /\ q \in Seq(Item)
        /\ \A i, j \in 1 .. Len(q) : q[i][1] = q[j][1] => i = j
<1> DEFINE n == Cardinality(Cell)
           f == SetToSeq(Cell)
           q == [i \in 1 .. n |-> <<f[i], 0>>]
<1>1. n \in Nat /\ ExistsBijection(1 .. n, Cell)
  BY CellAssumption, FS_CardinalityType
<1>2. \E g \in [1 .. n -> Cell] : IsInjective(g)
  BY <1>1 DEF ExistsBijection, Bijection, Injection
<1>3. f \in [1 .. n -> Cell] /\ IsInjective(f)
  BY <1>2 DEF SetToSeq
<1> HIDE DEF f, n
<1>4. \A i \in 1 .. n : f[i] \in Cell /\ 0 \in 0 .. MaxOom
  BY <1>3, CellAssumption
<1>5. q \in [1 .. n -> Item]
  BY <1>4 DEF Item
<1>6. q \in Seq(Item) /\ Len(q) = n
  BY <1>1, <1>5
<1>7. \A i, j \in 1 .. n : q[i][1] = q[j][1] => i = j
  BY <1>3 DEF IsInjective
<1> HIDE DEF q
<1> QED
  BY <1>6, <1>7 DEF q, f, n

(* A worker takes the first item; the others move up.                      *)
LEMMA TakenQueue ==
    ASSUME CellTypeOK, OnePlace, Takes
    PROVE  /\ Head(queue) \in Item /\ queue' \in Seq(Item)
           /\ job[Head(queue)[1]].at = "rest" /\ result[Head(queue)[1]] = NoStatus
           /\ \A i \in 1 .. Len(queue') : /\ queue'[i][1] # Head(queue)[1]
                                          /\ job[queue'[i][1]].at = "rest"
                                          /\ result[queue'[i][1]] = NoStatus
           /\ \A i, j \in 1 .. Len(queue') : queue'[i][1] = queue'[j][1] => i = j
<1>1. queue \in Seq(Item) /\ queue # <<>> /\ queue' = Tail(queue) /\ grid = "running"
  BY DEF CellTypeOK, Takes
<1>2. /\ Head(queue) = queue[1] /\ Len(queue) \in Nat \ {0}
      /\ queue' \in Seq(Item) /\ Len(queue') = Len(queue) - 1
      /\ \A i \in 1 .. Len(queue') : queue'[i] = queue[i + 1]
  BY <1>1, HeadTailProperties
<1>3. 1 \in 1 .. Len(queue) /\ \A i \in 1 .. Len(queue') : i \in Nat /\ i + 1 \in 1 .. Len(queue) /\ i + 1 # 1
  BY <1>2
<1>4. Head(queue) \in Item
  BY <1>1, <1>2, <1>3
<1>5. \A i, j \in 1 .. Len(queue') : queue'[i][1] = queue'[j][1] => i + 1 = j + 1
  BY <1>1, <1>2, <1>3 DEF OnePlace
<1>6. \A i, j \in 1 .. Len(queue') : queue'[i][1] = queue'[j][1] => i = j
  BY <1>3, <1>5
<1> QED
  BY <1>1, <1>2, <1>3, <1>4, <1>6 DEF OnePlace

(* The cards stay with the pool and the running cells where no job's cards *)
(* change.                                                                 *)
LEMMA CardsStay ==
    ASSUME CellTypeOK, CardsWhileRunning, CardsPartitioned, free' = free,
           NEW c \in Cell, NEW v, job' = [job EXCEPT ![c] = v],
           v.cards = {}, job[c].at # "running"
    PROVE  CardsWhileRunning' /\ CardsPartitioned'
<1>1. \A d \in Cell : job'[d].cards = job[d].cards /\ (d # c => job'[d] = job[d])
  BY DEF CellTypeOK, CardsWhileRunning
<1>2. CardsWhileRunning'
  BY <1>1 DEF CardsWhileRunning
<1>3. UNION {job'[d].cards : d \in Cell} = UNION {job[d].cards : d \in Cell}
  BY <1>1
<1> QED
  BY <1>1, <1>2, <1>3 DEF CardsPartitioned

Job == [at: {"rest", "waiting", "running", "released"}, retry: 0 .. MaxOom,
        cards: SUBSET Card, exit: CellExit]

(* A worker at rest, of which there is one for each cell.                  *)
LEMMA RestingFacts ==
    /\ Resting \in Job /\ Resting.at = "rest" /\ Resting.cards = {} /\ Resting.exit = "zero"
    /\ MaxOom \in Nat /\ WorkerCount \in Nat
<1>1. Cardinality(Card) \in Nat /\ MaxOom \in Nat /\ MaxParallel \in Nat
  BY CellAssumption, FS_CardinalityType
<1>2. WorkerCount \in Nat
  BY <1>1 DEF WorkerCount, Fewer
<1> QED
  BY <1>1, <1>2 DEF Resting, Job, CellExit

(* A new grid, or the death of the process, puts every worker to rest.     *)
LEMMA RestKeepsCards ==
    ASSUME job' = [c \in Cell |-> Resting], free' = Card
    PROVE  CardsWhileRunning' /\ CardsPartitioned' /\ job' \in [Cell -> Job]
<1>1. \A c \in Cell : job'[c].cards = {}
  BY RestingFacts
<1>2. UNION {job'[c].cards : c \in Cell} = {}
  BY <1>1
<1> QED
  BY <1>1, <1>2, RestingFacts DEF CardsWhileRunning, CardsPartitioned

(* The skips of a grid are decided from manifests of earlier ones.         *)
LEMMA StartKeepsInv ==
    ASSUME CellInv, NEW v \in Version, NEW resume \in BOOLEAN, NEW force \in SUBSET Cell,
           StartGrid(v, resume, force)
    PROVE  CellInv'
<1>1. CardsWhileRunning' /\ CardsPartitioned' /\ job' \in [Cell -> Job]
  BY RestKeepsCards DEF StartGrid
<1>2. queue' \in Seq(Item) /\ \A i, j \in 1 .. Len(queue') : queue'[i][1] = queue'[j][1] => i = j
  <2> DEFINE q == [i \in 1 .. Cardinality(Cell) |-> <<SetToSeq(Cell)[i], 0>>]
  <2>1. queue' = q
    BY DEF StartGrid
  <2>2. q \in Seq(Item) /\ \A i, j \in 1 .. Len(q) : q[i][1] = q[j][1] => i = j
    BY FirstQueue
  <2> HIDE DEF q
  <2> QED
    BY <2>1, <2>2
<1>3. \A i \in 1 .. Len(queue') : queue'[i][1] \in Cell
  BY <1>2 DEF Item
<1>4. \A c \in Cell : job'[c].at = "rest" /\ result'[c] = NoStatus
  BY RestingFacts DEF StartGrid
<1>5. OnePlace'
  BY <1>2, <1>3, <1>4 DEF OnePlace
<1>6. CellTypeOK'
  <2>1. grids' \in 0 .. MaxGrids /\ idle' \in Nat
    BY RestingFacts, CellAssumption DEF StartGrid, CellInv, CellTypeOK
  <2>2. result' \in [Cell -> CellStatus \cup {NoStatus}] /\ verdict' \in Verdicts /\ overdue' \in BOOLEAN
    BY DEF StartGrid, Verdicts
  <2>3. reuse' \subseteq Cell /\ free' \subseteq Card /\ version' \in Version \cup {0}
    BY DEF StartGrid
  <2> QED
    BY <1>1, <1>2, <2>1, <2>2, <2>3 DEF StartGrid, CellInv, CellTypeOK, Job
<1>7. RunningGrid' /\ LadderDone' /\ SkipEarned' /\ StopIsEarned'
  BY <1>4 DEF StartGrid, RunningGrid, LadderDone, SkipEarned, StopIsEarned, NoStatus
<1>8. OkIsEarned'
  <2>1. \A c \in reuse' : <<c, v>> \in finished
    BY DEF StartGrid, ShouldSkip, CellInv, OkIsEarned
  <2> QED
    BY <1>4, <2>1 DEF StartGrid, CellInv, OkIsEarned
<1> QED
  BY <1>1, <1>5, <1>6, <1>7, <1>8 DEF CellInv

(* write_cell_manifest, whether the write fails or not.                    *)
LEMMA RecordsFacts ==
    ASSUME CellInv, grid = "running", NEW c \in Cell, NEW st \in CellStatus, Records(c, st),
           st = "ok" => <<c, version>> \in finished, finished' = finished
    PROVE  /\ manifest' \in [Cell -> [ok: BOOLEAN, fp: Version \cup {0}]]
           /\ result' \in [Cell -> CellStatus \cup {NoStatus}]
           /\ \A d \in Cell : manifest'[d].ok => <<d, manifest'[d].fp>> \in finished'
           /\ result'[c] = st /\ \A d \in Cell \ {c} : result'[d] = result[d]
<1>1. /\ manifest \in [Cell -> [ok: BOOLEAN, fp: Version \cup {0}]]
      /\ result \in [Cell -> CellStatus \cup {NoStatus}] /\ version \in Version
  BY DEF CellInv, CellTypeOK, RunningGrid
<1>2. \A d \in Cell : manifest[d].ok => <<d, manifest[d].fp>> \in finished
  BY DEF CellInv, OkIsEarned
<1> DEFINE m == [ok |-> st = "ok", fp |-> version]
<1>3. m \in [ok: BOOLEAN, fp: Version \cup {0}] /\ (m.ok <=> st = "ok") /\ m.fp = version
  BY <1>1
<1>4. result' = [result EXCEPT ![c] = st] /\ manifest' \in {manifest, [manifest EXCEPT ![c] = m]}
  BY DEF Records
<1> HIDE DEF m
<1> QED
  BY <1>1, <1>2, <1>3, <1>4

(* A worker finds a cell to skip, or the deadline behind it.               *)
LEMMA DroppedKeepsInv ==
    ASSUME CellInv, SkipCell \/ DropLate
    PROVE  CellInv'
<1> DEFINE c == Head(queue)[1]
<1>1. Takes /\ grid = "running"
  BY DEF SkipCell, DropLate, Takes
<1>2. /\ Head(queue) \in Item /\ queue' \in Seq(Item)
      /\ job[c].at = "rest" /\ result[c] = NoStatus
      /\ \A i \in 1 .. Len(queue') : /\ queue'[i][1] # c
                                     /\ job[queue'[i][1]].at = "rest"
                                     /\ result[queue'[i][1]] = NoStatus
      /\ \A i, j \in 1 .. Len(queue') : queue'[i][1] = queue'[j][1] => i = j
  BY <1>1, TakenQueue DEF CellInv
<1>3. c \in Cell /\ \A i \in 1 .. Len(queue') : queue'[i][1] \in Cell
  BY <1>2 DEF Item
<1>4. /\ UNCHANGED <<config, idle, job, free, overdue, verdict, finished>>
      /\ result'[c] \in {"skipped", "timeout"} /\ \A d \in Cell \ {c} : result'[d] = result[d]
      /\ result'[c] = "skipped" => c \in reuse
      /\ manifest' \in [Cell -> [ok: BOOLEAN, fp: Version \cup {0}]]
      /\ \A d \in Cell : manifest'[d].ok => <<d, manifest'[d].fp>> \in finished
      /\ result' \in [Cell -> CellStatus \cup {NoStatus}]
  <2>1. CASE SkipCell
    BY <2>1, <1>3 DEF SkipCell, CellInv, CellTypeOK, OkIsEarned, CellStatus
  <2>2. CASE DropLate
    <3>1. Records(c, "timeout") /\ UNCHANGED <<config, idle, job, free, overdue, verdict, finished>>
      BY <2>2 DEF DropLate
    <3> QED
      BY <1>1, <1>3, <3>1, RecordsFacts DEF CellStatus
  <2> QED
    BY <2>1, <2>2
<1> HIDE DEF c
<1>5. CellTypeOK'
  BY <1>2, <1>4 DEF config, CellInv, CellTypeOK
<1>6. CardsWhileRunning' /\ CardsPartitioned'
  BY <1>4 DEF CellInv, CardsWhileRunning, CardsPartitioned
<1>7. OnePlace'
  BY <1>1, <1>2, <1>3, <1>4 DEF config, CellInv, OnePlace
<1>8. OkIsEarned' /\ RunningGrid' /\ LadderDone' /\ StopIsEarned'
  BY <1>3, <1>4 DEF config, CellInv, OkIsEarned, RunningGrid, LadderDone, StopIsEarned
<1>9. SkipEarned'
  BY <1>3, <1>4 DEF config, CellInv, OkIsEarned, SkipEarned
<1> QED
  BY <1>5, <1>6, <1>7, <1>8, <1>9 DEF CellInv

(* A worker takes a cell.                                                  *)
LEMMA TakeKeepsInv ==
    ASSUME CellInv, TakeCell
    PROVE  CellInv'
<1> DEFINE c == Head(queue)[1]
           v == [Resting EXCEPT !.at = "waiting", !.retry = Head(queue)[2]]
<1>1. Takes /\ grid = "running" /\ job' = [job EXCEPT ![c] = v] /\ idle' = idle - 1 /\ idle > 0
      /\ UNCHANGED <<config, free, overdue, manifest, result, verdict, finished>>
  BY DEF TakeCell, Takes
<1>2. /\ Head(queue) \in Item /\ queue' \in Seq(Item)
      /\ job[c].at = "rest" /\ result[c] = NoStatus
      /\ \A i \in 1 .. Len(queue') : /\ queue'[i][1] # c
                                     /\ job[queue'[i][1]].at = "rest"
                                     /\ result[queue'[i][1]] = NoStatus
      /\ \A i, j \in 1 .. Len(queue') : queue'[i][1] = queue'[j][1] => i = j
  BY <1>1, TakenQueue DEF CellInv
<1>3. /\ c \in Cell /\ Head(queue)[2] \in 0 .. MaxOom
      /\ \A i \in 1 .. Len(queue') : queue'[i][1] \in Cell
  BY <1>2 DEF Item
<1>4. v \in Job /\ v.at = "waiting" /\ v.cards = {}
  BY <1>3, RestingFacts DEF Job, Resting
<1> HIDE DEF c, v
<1>5. job \in [Cell -> Job] /\ job'[c] = v /\ \A d \in Cell \ {c} : job'[d] = job[d]
  BY <1>1, <1>3 DEF CellInv, CellTypeOK, Job
<1>6. CellTypeOK'
  <2>1. idle' \in Nat /\ job' \in [Cell -> Job]
    BY <1>1, <1>3, <1>4, <1>5 DEF CellInv, CellTypeOK
  <2> QED
    BY <1>1, <1>2, <2>1 DEF config, CellInv, CellTypeOK, Job
<1>7. CardsWhileRunning' /\ CardsPartitioned'
  BY <1>1, <1>2, <1>3, <1>4, CardsStay DEF CellInv
<1>8. OnePlace'
  BY <1>1, <1>2, <1>3, <1>4, <1>5 DEF config, CellInv, OnePlace
<1>9. OkIsEarned' /\ RunningGrid' /\ LadderDone' /\ SkipEarned'
  BY <1>1, <1>2, <1>3, <1>4, <1>5
     DEF config, CellInv, OkIsEarned, RunningGrid, LadderDone, SkipEarned, NoStatus
<1>10. StopIsEarned'
  BY <1>1 DEF CellInv, RunningGrid, StopIsEarned
<1> QED
  BY <1>6, <1>7, <1>8, <1>9, <1>10 DEF CellInv

(* A worker gets its cards, or its cell's process ends and they go back.   *)
LEMMA CardsMove ==
    ASSUME CellInv, NEW c \in Cell, NEW S \in SUBSET Card, NEW v \in Job,
           job' = [job EXCEPT ![c] = v], grid = "running", job[c].at \in {"waiting", "running"},
           \/ v.at = "running" /\ v.cards = S /\ S \subseteq free /\ job[c].cards = {} /\ free' = free \ S
           \/ v.at = "released" /\ v.cards = {} /\ job[c].cards = S /\ free' = free \cup S,
           UNCHANGED <<config, queue, idle, overdue, manifest, result, verdict>>,
           finished \subseteq finished', finished' \subseteq Cell \X Version,
           v.at = "released" /\ v.exit = "zero" => <<c, version>> \in finished'
    PROVE  CellInv'
<1>1. job \in [Cell -> Job] /\ job'[c] = v /\ \A d \in Cell \ {c} : job'[d] = job[d]
  BY DEF CellInv, CellTypeOK, Job
<1>2. CellTypeOK'
  <2>1. job' \in [Cell -> Job] /\ free' \subseteq Card
    BY <1>1 DEF CellInv, CellTypeOK
  <2> QED
    BY <2>1 DEF config, CellInv, CellTypeOK, Job
<1>3. CardsWhileRunning'
  BY <1>1 DEF CellInv, CardsWhileRunning
<1>4. CardsPartitioned'
  <2>1. /\ free \cup UNION {job[d].cards : d \in Cell} = Card
        /\ \A d \in Cell : /\ job[d].cards \cap free = {}
                           /\ \A e \in Cell \ {d} : job[d].cards \cap job[e].cards = {}
    BY DEF CellInv, CardsPartitioned
  <2>2. \A x \in Card : x \in free' \/ \E d \in Cell : x \in job'[d].cards
    <3> SUFFICES ASSUME NEW x \in Card, x \notin free' PROVE \E d \in Cell : x \in job'[d].cards
      OBVIOUS
    <3>1. CASE x \in free
      BY <1>1, <3>1
    <3>2. ASSUME NEW d \in Cell, x \in job[d].cards PROVE \E e \in Cell : x \in job'[e].cards
      BY <1>1, <3>2
    <3>3. x \in free \/ \E d \in Cell : x \in job[d].cards
      BY <2>1
    <3> QED
      BY <3>1, <3>2, <3>3
  <2>3. \A d \in Cell : job'[d].cards \subseteq Card
    BY <1>1 DEF Job
  <2>4. free' \cup UNION {job'[d].cards : d \in Cell} = Card
    BY <1>2, <2>2, <2>3 DEF CellTypeOK
  <2>5. ASSUME NEW d \in Cell
        PROVE  /\ job'[d].cards \cap free' = {}
               /\ \A e \in Cell \ {d} : job'[d].cards \cap job'[e].cards = {}
    <3>1. CASE v.cards = S /\ S \subseteq free /\ job[c].cards = {} /\ free' = free \ S
      BY <1>1, <2>1, <3>1
    <3>2. CASE v.cards = {} /\ job[c].cards = S /\ free' = free \cup S
      BY <1>1, <2>1, <3>2
    <3> QED
      BY <3>1, <3>2
  <2> QED
    BY <2>4, <2>5 DEF CardsPartitioned
<1>5. result[c] = NoStatus
  BY DEF CellInv, OnePlace
<1>6. OnePlace'
  <2>1. \A i \in 1 .. Len(queue) : queue[i][1] \in Cell /\ queue[i][1] # c
    BY DEF CellInv, CellTypeOK, OnePlace, Item
  <2> QED
    BY <1>1, <1>5, <2>1 DEF config, CellInv, OnePlace
<1>7. RunningGrid' /\ LadderDone' /\ SkipEarned' /\ StopIsEarned'
  BY <1>1, <1>5 DEF config, CellInv, RunningGrid, LadderDone, SkipEarned, StopIsEarned, NoStatus
<1>8. OkIsEarned'
  BY <1>1 DEF config, CellInv, OkIsEarned
<1> QED
  BY <1>2, <1>3, <1>4, <1>6, <1>7, <1>8 DEF CellInv

(* An attempt ended for memory and the cell goes back to the queue.        *)
LEMMA RetryKeepsInv ==
    ASSUME CellInv, NEW c \in Cell, RetryCell(c)
    PROVE  CellInv'
<1> DEFINE item == <<c, job[c].retry + 1>>
           v == [job[c] EXCEPT !.at = "rest"]
<1>1. /\ grid = "running" /\ job[c].at = "released" /\ job[c].retry < MaxOom
      /\ queue' = Append(queue, item) /\ idle' = idle + 2 /\ job' = [job EXCEPT ![c] = v]
      /\ UNCHANGED <<config, free, overdue, manifest, result, verdict, finished>>
  BY DEF RetryCell, Retries
<1>2. job \in [Cell -> Job] /\ job[c] \in Job /\ queue \in Seq(Item) /\ job[c].cards = {}
  BY <1>1 DEF CellInv, CellTypeOK, Job, CardsWhileRunning
<1>3. v \in Job /\ v.at = "rest" /\ v.cards = {} /\ v.exit = job[c].exit /\ v.retry = job[c].retry
  BY <1>2 DEF Job
<1>4. item \in Item /\ item[1] = c
  BY <1>1, <1>2, RestingFacts DEF Job, Item
<1> HIDE DEF v, item
<1>5. job'[c] = v /\ \A d \in Cell \ {c} : job'[d] = job[d]
  BY <1>1, <1>2
<1>6. /\ queue' \in Seq(Item) /\ Len(queue) \in Nat /\ Len(queue') = Len(queue) + 1
      /\ \A i \in 1 .. Len(queue) : queue'[i] = queue[i]
      /\ queue'[Len(queue) + 1] = item
  BY <1>1, <1>2, <1>4, AppendProperties
<1>7. CellTypeOK'
  <2>1. idle' \in Nat /\ job' \in [Cell -> Job]
    BY <1>1, <1>2, <1>3 DEF CellInv, CellTypeOK
  <2> QED
    BY <1>1, <1>6, <2>1 DEF config, CellInv, CellTypeOK, Job
<1>8. CardsWhileRunning' /\ CardsPartitioned'
  BY <1>1, <1>3, CardsStay DEF CellInv
<1>9. result[c] = NoStatus
  BY <1>1 DEF CellInv, OnePlace
<1>10. OnePlace'
  <2>1. \A i \in 1 .. Len(queue) : /\ queue[i][1] \in Cell /\ queue[i][1] # c
                                  /\ job[queue[i][1]].at = "rest" /\ result[queue[i][1]] = NoStatus
    BY <1>1, <1>2 DEF CellInv, OnePlace, Item
  <2>2. \A i \in 1 .. Len(queue') : i \in 1 .. Len(queue) \/ i = Len(queue) + 1
    BY <1>6
  <2>3. \A i, j \in 1 .. Len(queue') : queue'[i][1] = queue'[j][1] => i = j
    BY <1>1, <1>4, <1>6, <2>1, <2>2 DEF CellInv, OnePlace
  <2>4. \A i \in 1 .. Len(queue') : job'[queue'[i][1]].at = "rest" /\ result'[queue'[i][1]] = NoStatus
    BY <1>1, <1>3, <1>4, <1>5, <1>6, <1>9, <2>1, <2>2
  <2> QED
    BY <1>1, <1>3, <1>5, <2>3, <2>4 DEF CellInv, OnePlace
<1>11. RunningGrid' /\ LadderDone' /\ SkipEarned' /\ StopIsEarned' /\ OkIsEarned'
  BY <1>1, <1>3, <1>5 DEF config, CellInv, RunningGrid, LadderDone, SkipEarned, StopIsEarned, OkIsEarned
<1> QED
  BY <1>7, <1>8, <1>10, <1>11 DEF CellInv

(* The result of a cell is recorded: the last attempt of its ladder ran    *)
(* out of memory where the result says so.                                 *)
LEMMA RecordKeepsInv ==
    ASSUME CellInv, NEW c \in Cell, RecordCell(c)
    PROVE  CellInv'
<1> DEFINE v == [job[c] EXCEPT !.at = "rest"]
           st == StatusOf(job[c].exit, overdue)
<1>1. /\ grid = "running" /\ job[c].at = "released" /\ Records(c, st) /\ ~Retries(c)
      /\ idle' = idle + 1 /\ job' = [job EXCEPT ![c] = v]
      /\ UNCHANGED <<config, queue, free, overdue, verdict, finished>>
  BY DEF RecordCell
<1>2. job \in [Cell -> Job] /\ job[c] \in Job /\ job[c].cards = {} /\ overdue \in BOOLEAN
  BY <1>1 DEF CellInv, CellTypeOK, Job, CardsWhileRunning
<1>3. v \in Job /\ v.at = "rest" /\ v.cards = {} /\ v.exit = job[c].exit /\ v.retry = job[c].retry
  BY <1>2 DEF Job
<1>4. /\ st \in CellStatus /\ st # "skipped" /\ (st = "ok" => job[c].exit = "zero")
      /\ st = "oom_failed" => job[c].exit = "oom" /\ ~overdue
  BY <1>2 DEF Job, CellExit, StatusOf, CellStatus
<1>5. st = "oom_failed" => v.exit = "oom" /\ v.retry = MaxOom
  BY <1>1, <1>2, <1>3, <1>4, RestingFacts DEF Retries, Job
<1>6. st = "ok" => <<c, version>> \in finished
  BY <1>1, <1>4 DEF CellInv, OkIsEarned
<1> HIDE DEF v, st
<1>7. /\ manifest' \in [Cell -> [ok: BOOLEAN, fp: Version \cup {0}]]
      /\ result' \in [Cell -> CellStatus \cup {NoStatus}]
      /\ \A d \in Cell : manifest'[d].ok => <<d, manifest'[d].fp>> \in finished'
      /\ result'[c] = st /\ \A d \in Cell \ {c} : result'[d] = result[d]
  BY <1>1, <1>4, <1>6, RecordsFacts
<1>8. job'[c] = v /\ \A d \in Cell \ {c} : job'[d] = job[d]
  BY <1>1, <1>2
<1>9. CellTypeOK'
  <2>1. idle' \in Nat /\ job' \in [Cell -> Job]
    BY <1>1, <1>2, <1>3 DEF CellInv, CellTypeOK
  <2> QED
    BY <1>1, <1>7, <2>1 DEF config, CellInv, CellTypeOK, Job
<1>10. CardsWhileRunning' /\ CardsPartitioned'
  BY <1>1, <1>3, CardsStay DEF CellInv
<1>11. OnePlace'
  <2>1. \A i \in 1 .. Len(queue) : queue[i][1] \in Cell /\ queue[i][1] # c
    BY <1>1 DEF CellInv, CellTypeOK, OnePlace, Item
  <2> QED
    BY <1>1, <1>3, <1>7, <1>8, <2>1 DEF config, CellInv, OnePlace
<1>12. RunningGrid' /\ LadderDone'
  BY <1>1, <1>5, <1>7, <1>8 DEF config, CellInv, RunningGrid, LadderDone
<1>13. SkipEarned' /\ OkIsEarned'
  BY <1>1, <1>3, <1>4, <1>7, <1>8 DEF config, CellInv, SkipEarned, OkIsEarned
<1>14. StopIsEarned'
  BY <1>1 DEF CellInv, RunningGrid, StopIsEarned
<1> QED
  BY <1>9, <1>10, <1>11, <1>12, <1>13, <1>14 DEF CellInv

(* The statuses are classified: the verdict that stops a run needs every   *)
(* cell at the end of its ladder.                                          *)
LEMMA ReturnKeepsInv ==
    ASSUME CellInv, GridReturns
    PROVE  CellInv'
<1>1. /\ grid = "running" /\ grid' = "over" /\ verdict' = Classify(result') /\ reuse' = {}
      /\ overdue' = FALSE /\ UNCHANGED <<grids, version, queue, idle, job, free, manifest, finished>>
      /\ result' = [c \in Cell |-> IF result[c] = NoStatus THEN "error" ELSE result[c]]
  BY DEF GridReturns
<1>2. /\ result' \in [Cell -> CellStatus \cup {NoStatus}]
      /\ \A c \in Cell : result'[c] \in {"oom_failed", "skipped"} => result'[c] = result[c]
  BY <1>1 DEF CellInv, CellTypeOK, CellStatus, NoStatus
<1>3. verdict' \in Verdicts
  BY <1>1 DEF Classify, Verdicts
<1>4. verdict' = "oom_shrink_exhausted" => \A c \in Cell : result'[c] = "oom_failed"
  BY <1>1 DEF Classify
<1>5. CellTypeOK'
  BY <1>1, <1>2, <1>3 DEF CellInv, CellTypeOK
<1>6. CardsWhileRunning' /\ CardsPartitioned'
  BY <1>1 DEF CellInv, CardsWhileRunning, CardsPartitioned
<1>7. OnePlace' /\ RunningGrid' /\ OkIsEarned'
  BY <1>1 DEF CellInv, OnePlace, RunningGrid, OkIsEarned
<1>8. LadderDone' /\ SkipEarned'
  BY <1>1, <1>2 DEF CellInv, LadderDone, SkipEarned
<1>9. StopIsEarned'
  BY <1>4, <1>8 DEF LadderDone, StopIsEarned
<1> QED
  BY <1>5, <1>6, <1>7, <1>8, <1>9 DEF CellInv

(* The process dies: what is on disk stays.                                *)
LEMMA DeathKeepsInv ==
    ASSUME CellInv, RunDies
    PROVE  CellInv'
<1>1. CardsWhileRunning' /\ CardsPartitioned' /\ job' \in [Cell -> Job]
  BY RestKeepsCards DEF RunDies
<1>2. /\ grid = "running" /\ grid' = "down" /\ queue' = <<>> /\ idle' = 0 /\ overdue' = FALSE
      /\ reuse' = {} /\ free' = Card /\ UNCHANGED <<grids, version, manifest, verdict, finished>>
      /\ \A c \in Cell : job'[c].at = "rest" /\ result'[c] = NoStatus
      /\ result' \in [Cell -> CellStatus \cup {NoStatus}]
  BY RestingFacts DEF RunDies
<1>3. queue' \in Seq(Item)
  BY <1>2
<1>4. CellTypeOK'
  BY <1>1, <1>2, <1>3 DEF CellInv, CellTypeOK, Job
<1>5. OnePlace' /\ RunningGrid' /\ LadderDone' /\ SkipEarned'
  BY <1>2 DEF OnePlace, RunningGrid, LadderDone, SkipEarned, NoStatus
<1>6. OkIsEarned' /\ StopIsEarned'
  BY <1>2 DEF CellInv, RunningGrid, OkIsEarned, StopIsEarned
<1> QED
  BY <1>1, <1>4, <1>5, <1>6 DEF CellInv

(* Every step keeps the invariant.                                         *)
LEMMA CellInvInductive == CellInv /\ [CellNext]_cvars => CellInv'
<1> SUFFICES ASSUME CellInv, [CellNext]_cvars PROVE CellInv'
  OBVIOUS
<1>0. job \in [Cell -> Job] /\ version \in Version \cup {0} /\ finished \subseteq Cell \X Version
  BY DEF CellInv, CellTypeOK, Job
<1>1. ASSUME NEW v \in Version, NEW resume \in BOOLEAN, NEW force \in {{}} \cup {{c} : c \in Cell},
             StartGrid(v, resume, force)
      PROVE  CellInv'
  <2>1. force \in SUBSET Cell
    OBVIOUS
  <2> QED
    BY <1>1, <2>1, StartKeepsInv
<1>2. ASSUME NEW c \in Cell, Acquire(c) PROVE CellInv'
  <2>1. PICK S \in SUBSET free : /\ free' = free \ S
                                 /\ job' = [job EXCEPT ![c].at = "running", ![c].cards = S]
    BY <1>2 DEF Acquire
  <2> DEFINE v == [job[c] EXCEPT !.at = "running", !.cards = S]
  <2>2. S \in SUBSET Card /\ job[c].cards = {} /\ job[c] \in Job
    BY <1>0, <1>2 DEF Acquire, CellInv, CellTypeOK, CardsWhileRunning
  <2>3. v \in Job /\ v.at = "running" /\ v.cards = S
    BY <2>2 DEF Job
  <2>4. job' = [job EXCEPT ![c] = v]
    BY <1>0, <2>1
  <2> HIDE DEF v
  <2>5. /\ grid = "running" /\ job[c].at = "waiting"
        /\ UNCHANGED <<config, queue, idle, overdue, manifest, result, verdict, finished>>
    BY <1>2 DEF Acquire
  <2> QED
    BY <1>0, <2>1, <2>2, <2>3, <2>4, <2>5, CardsMove
<1>3. ASSUME NEW c \in Cell, NEW x \in CellExit, CellExits(c, x) PROVE CellInv'
  <2> DEFINE v == [job[c] EXCEPT !.at = "released", !.cards = {}, !.exit = x]
             S == job[c].cards
  <2>1. S \in SUBSET Card /\ job[c] \in Job
    BY <1>0 DEF Job
  <2>2. v \in Job /\ v.at = "released" /\ v.cards = {} /\ v.exit = x
    BY <2>1 DEF Job
  <2>3. job' = [job EXCEPT ![c] = v]
    BY <1>0, <1>3 DEF CellExits
  <2>4. /\ grid = "running" /\ job[c].at = "running" /\ free' = free \cup S
        /\ UNCHANGED <<config, queue, idle, overdue, manifest, result, verdict>>
        /\ finished' = IF x = "zero" THEN finished \cup {<<c, version>>} ELSE finished
    BY <1>3 DEF CellExits
  <2>5. /\ finished \subseteq finished' /\ finished' \subseteq Cell \X Version
        /\ x = "zero" => <<c, version>> \in finished'
    BY <1>0, <2>4 DEF CellInv, RunningGrid
  <2> HIDE DEF v
  <2>6. job[c].cards = S
    OBVIOUS
  <2> HIDE DEF S
  <2> QED
    BY <2>1, <2>2, <2>3, <2>4, <2>5, <2>6, CardsMove
<1>4. CASE WorkerEnds \/ GridDeadline
  <2>1. CellTypeOK'
    <3>1. idle' \in Nat
      BY <1>4 DEF WorkerEnds, GridDeadline, CellInv, CellTypeOK
    <3>2. overdue' \in BOOLEAN
      BY <1>4 DEF WorkerEnds, GridDeadline, CellInv, CellTypeOK
    <3> QED
      BY <1>4, <3>1, <3>2 DEF WorkerEnds, GridDeadline, config, CellInv, CellTypeOK
  <2>2. UNCHANGED <<config, queue, job, free, manifest, result, verdict, finished>>
    BY <1>4 DEF WorkerEnds, GridDeadline
  <2> QED
    BY <2>1, <2>2 DEF config, CellInv, CardsWhileRunning, CardsPartitioned, OnePlace, RunningGrid,
       OkIsEarned, LadderDone, SkipEarned, StopIsEarned
<1>5. CASE UNCHANGED cvars
  BY <1>5 DEF cvars, CellInv, CellTypeOK, CardsWhileRunning, CardsPartitioned, OnePlace, RunningGrid,
     OkIsEarned, LadderDone, SkipEarned, StopIsEarned
<1> QED
  BY <1>1, <1>2, <1>3, <1>4, <1>5, DroppedKeepsInv, TakeKeepsInv, RetryKeepsInv, RecordKeepsInv,
     ReturnKeepsInv, DeathKeepsInv DEF CellNext, GridWork

(* So it holds in every state a run's directory can reach.                 *)
LEMMA CellInvHolds == CellSpec => []CellInv
<1>1. CellInit => CellInv
  <2> SUFFICES ASSUME CellInit PROVE CellInv
    OBVIOUS
  <2>1. \A c \in Cell : /\ job[c] = Resting /\ job[c].at = "rest" /\ job[c].cards = {}
                       /\ result[c] = NoStatus /\ ~manifest[c].ok
    BY RestingFacts DEF CellInit, NoManifest
  <2>2. UNION {job[c].cards : c \in Cell} = {}
    BY <2>1
  <2>3. CellTypeOK
    <3>1. job \in [Cell -> Job] /\ queue \in Seq(Item)
      BY RestingFacts DEF CellInit
    <3>2. /\ manifest \in [Cell -> [ok: BOOLEAN, fp: Version \cup {0}]]
          /\ result \in [Cell -> CellStatus \cup {NoStatus}] /\ verdict \in Verdicts
      BY DEF CellInit, NoManifest, Verdicts
    <3>3. grids \in 0 .. MaxGrids /\ finished \subseteq Cell \X Version
      BY CellAssumption DEF CellInit
    <3>4. overdue \in BOOLEAN
      BY Zenon DEF CellInit
    <3> QED
      BY <3>1, <3>2, <3>3, <3>4 DEF CellInit, CellTypeOK, Job
  <2>4. CardsWhileRunning /\ CardsPartitioned
    BY <2>1, <2>2 DEF CellInit, CardsWhileRunning, CardsPartitioned
  <2> QED
    BY <2>1, <2>3, <2>4 DEF CellInit, CellInv, OnePlace, RunningGrid, OkIsEarned, LadderDone, SkipEarned,
       StopIsEarned, NoStatus
<1> QED
  BY <1>1, CellInvInductive, PTL DEF CellSpec

(* However workers, retries, deadlines and deaths interleave, each card is *)
(* in the pool or with one running cell.                                   *)
THEOREM CardsAreAccounted == CellSpec => []CardsAccounted
<1>1. CellInv => CardsAccounted
  BY DEF CellInv, CardsAccounted, CardsPartitioned
<1> QED
  BY <1>1, CellInvHolds, PTL

(* should_skip_cell never passes over a cell that did not end ok under the *)
(* fingerprint the grid has for it.                                        *)
THEOREM SkipsAreEarned == CellSpec => []SkipEarned
<1>1. CellInv => SkipEarned
  BY DEF CellInv
<1> QED
  BY <1>1, CellInvHolds, PTL

(* oom_shrink_exhausted is never said of a grid with a rung left.          *)
THEOREM StopsAreEarned == CellSpec => []StopIsEarned
<1>1. CellInv => StopIsEarned
  BY DEF CellInv
<1> QED
  BY <1>1, CellInvHolds, PTL

-----------------------------------------------------------------------------
(* The end of the process: the actors that can finish a run.               *)
Finishers == {"main", "watchdog", "sigterm"}

(* What each of them writes, and in which order.                           *)
Wanted(a, f) ==
    IF a # "main" THEN IF f = "report" THEN "hardstop" ELSE "failed"
    ELSE IF f = "report" THEN IF worker \in {"ok", "error"} THEN "final" ELSE "abort"
    ELSE IF worker = "ok" THEN "completed" ELSE "failed"
Entry(a, f) == <<f, Wanted(a, f)>>
Plan(a) == IF a = "main" /\ worker \notin {"ok", "error"}
           THEN <<Entry(a, "status"), Entry(a, "report")>>
           ELSE <<Entry(a, "report"), Entry(a, "status")>>
Rest(a) == IF a = "main" /\ worker \notin {"ok", "error"}
           THEN <<Entry(a, "report")>> ELSE <<Entry(a, "status")>>

(* Actor a has yet to publish file f.                                      *)
Left(a, f) == \/ todo[a] = Plan(a)
              \/ todo[a] = Rest(a) /\ f = Rest(a)[1][1]

InPlan ==
    /\ todo \in [Actor -> Seq(File \X Content)]
    /\ \A a \in Finishers : IF a \in began THEN todo[a] \in {Plan(a), Rest(a), <<>>} ELSE todo[a] = <<>>
    /\ todo["cost"] = <<>> \/ \E v \in Content : todo["cost"] = <<<<"status", v>>>>
    /\ \A a \in Actor : todo[a] = <<>> => phase[a] = "open"

(* Where the main thread is, and what it has stopped on its way.           *)
MainPath ==
    /\ main # "await" => worker # "busy"
    /\ "main" \in began <=> main = "finish"
    /\ main \in {"join", "finish"} => costStop
    /\ main = "finish" /\ ~SlowJoin => todo["cost"] = <<>>
    /\ end = "returned" => "main" \in began /\ todo["main"] = <<>>
    /\ end = "hardstop" => \E a \in began \ {"main"} : todo[a] = <<>>

(* A completed status, on disk or on its way there, comes from a main      *)
(* thread that has published its report.                                   *)
CompletedEarned ==
    \/ pub["status"] = "completed" \/ tmp["status"] = "completed"
    \/ todo["cost"] = <<<<"status", "completed">>>>
    => worker = "ok" /\ "main" \in began /\ ~Left("main", "report")

(* The only writer of f finds what it wrote.                               *)
Clean(a, f) ==
    /\ todo[a] # <<>> /\ Onto(a) = f /\ phase[a] = "fill" => tmp[f] = "torn" /\ fd[a] = "tmp"
    /\ todo[a] # <<>> /\ Onto(a) = f /\ phase[a] = "replace" => tmp[f] = Wanted(a, f)
    /\ ~Left(a, f) => pub[f] = Wanted(a, f)

SoleWriter ==
    \A a \in Finishers :
        began = {a} => Clean(a, "report") /\ (a = "main" /\ ~SlowJoin => Clean(a, "status"))

FinalizeTyped ==
    /\ worker \in {"busy", "ok", "error", "fatal"}
    /\ main \in {"await", "cancel", "restore", "stopcost", "join", "finish"}
    /\ late \in BOOLEAN /\ cancelled \in BOOLEAN /\ handler \in BOOLEAN /\ costStop \in BOOLEAN
    /\ pub \in [File -> Content] /\ tmp \in [File -> Content]
    /\ phase \in [Actor -> {"open", "fill", "replace"}]
    /\ fd \in [Actor -> {"none", "tmp", "pub", "gone"}]
    /\ \A a \in Actor : phase[a] = "fill" => fd[a] # "none"
    /\ began \subseteq Finishers
    /\ end \in {"up", "returned", "raised", "hardstop", "sigterm", "killed"}

FinalizeInv == FinalizeTyped /\ InPlan /\ MainPath /\ CompletedEarned /\ SoleWriter

-----------------------------------------------------------------------------
(* The two entries of a plan, one for each file.                           *)
LEMMA PlanFacts ==
    ASSUME NEW a \in Finishers
    PROVE  /\ Plan(a) \in Seq(File \X Content) /\ Rest(a) \in Seq(File \X Content)
           /\ Plan(a) # <<>> /\ Rest(a) # <<>> /\ Plan(a) # Rest(a)
           /\ Tail(Plan(a)) = Rest(a) /\ Tail(Rest(a)) = <<>> /\ Head(Rest(a)) = Rest(a)[1]
           /\ Head(Plan(a))[1] \in File /\ Head(Rest(a))[1] \in File
           /\ Head(Plan(a))[1] # Head(Rest(a))[1]
           /\ Head(Plan(a))[2] = Wanted(a, Head(Plan(a))[1])
           /\ Head(Rest(a))[2] = Wanted(a, Head(Rest(a))[1])
           /\ \A f \in File : Wanted(a, f) \in Content \ {"absent"}
<1>1. \A f \in File : Wanted(a, f) \in Content \ {"absent"} /\ Entry(a, f) \in File \X Content
  BY DEF Wanted, File, Content, Entry
<1>2. /\ Entry(a, "status") \in File \X Content /\ Entry(a, "report") \in File \X Content
      /\ Entry(a, "status")[1] = "status" /\ Entry(a, "report")[1] = "report"
      /\ Entry(a, "status")[2] = Wanted(a, "status") /\ Entry(a, "report")[2] = Wanted(a, "report")
  BY <1>1 DEF File, Entry
<1> DEFINE s == Entry(a, "status")
           r == Entry(a, "report")
<1> HIDE DEF s, r
<1>3. \A x, y : /\ Tail(<<x, y>>) = <<y>> /\ Tail(<<x>>) = <<>> /\ Head(<<x, y>>) = x /\ Head(<<x>>) = x
                /\ <<x>>[1] = x /\ <<x, y>> # <<>> /\ <<x>> # <<>>
  OBVIOUS
<1>4. \A x, y, z : Len(<<x, y>>) = 2 /\ Len(<<z>>) = 1
  OBVIOUS
<1>5. \A x, y \in File \X Content : <<x, y>> \in Seq(File \X Content) /\ <<x>> \in Seq(File \X Content)
  OBVIOUS
<1>6. CASE a = "main" /\ worker \notin {"ok", "error"}
  <2>1. Plan(a) = <<s, r>> /\ Rest(a) = <<r>>
    BY <1>6 DEF Plan, Rest, s, r
  <2>2. Plan(a) # Rest(a)
    BY <1>4, <2>1
  <2> QED
    BY <1>1, <1>2, <1>3, <1>5, <2>1, <2>2 DEF s, r, File
<1>7. CASE ~(a = "main" /\ worker \notin {"ok", "error"})
  <2>1. Plan(a) = <<r, s>> /\ Rest(a) = <<s>>
    BY <1>7 DEF Plan, Rest, s, r
  <2>2. Plan(a) # Rest(a)
    BY <1>4, <2>1
  <2> QED
    BY <1>1, <1>2, <1>3, <1>5, <2>1, <2>2 DEF s, r, File
<1> QED
  BY <1>6, <1>7

(* What an actor that writes is about to write, and what is left then.     *)
LEMMA HeadFacts ==
    ASSUME InPlan, NEW a \in Finishers, todo[a] # <<>>
    PROVE  /\ a \in began /\ Onto(a) \in File /\ Head(todo[a])[2] = Wanted(a, Onto(a))
           /\ Left(a, Onto(a))
           /\ Tail(todo[a]) \in {Rest(a), <<>>}
           /\ \A f \in File : f # Onto(a) =>
                 (Left(a, f) <=> Tail(todo[a]) = Rest(a))
<1>1. a \in began /\ todo[a] \in {Plan(a), Rest(a)}
  BY DEF InPlan
<1>2. CASE todo[a] = Plan(a)
  <2>1. Onto(a) = Head(Plan(a))[1] /\ Tail(todo[a]) = Rest(a)
    BY <1>2, PlanFacts DEF Onto
  <2> QED
    BY <1>1, <1>2, <2>1, PlanFacts DEF Left
<1>3. CASE todo[a] = Rest(a)
  <2>1. Onto(a) = Head(Rest(a))[1] /\ Tail(todo[a]) = <<>>
    BY <1>3, PlanFacts DEF Onto
  <2> QED
    BY <1>1, <1>3, <2>1, PlanFacts DEF Left
<1> QED
  BY <1>1, <1>2, <1>3

(* The cost thread writes the status, from what it has read.               *)
LEMMA CostFacts ==
    ASSUME InPlan, todo["cost"] # <<>>
    PROVE  \E v \in Content : /\ todo["cost"] = <<<<"status", v>>>> /\ Onto("cost") = "status"
                              /\ Head(todo["cost"])[2] = v /\ Tail(todo["cost"]) = <<>>
<1>1. PICK v \in Content : todo["cost"] = <<<<"status", v>>>>
  BY DEF InPlan
<1>2. Head(<<<<"status", v>>>>) = <<"status", v>> /\ Tail(<<<<"status", v>>>>) = <<>>
  OBVIOUS
<1> QED
  BY <1>1, <1>2 DEF Onto

(* Whatever is written is content of a file.                               *)
LEMMA OntoTyped ==
    ASSUME InPlan, NEW a \in Actor, todo[a] # <<>>
    PROVE  Onto(a) \in File /\ Head(todo[a])[2] \in Content
<1>1. CASE a = "cost"
  BY <1>1, CostFacts DEF File
<1>2. CASE a # "cost"
  <2>1. a \in Finishers
    BY <1>2 DEF Actor, Finishers
  <2> QED
    BY <2>1, HeadFacts, PlanFacts
<1> QED
  BY <1>1, <1>2

(* The plans of an actor change only when the completion ends, and then    *)
(* only those of the main thread.                                          *)
LEMMA PlanStays ==
    ASSUME NEW a \in Finishers, worker' = worker \/ a # "main"
    PROVE  /\ Plan(a)' = Plan(a) /\ Rest(a)' = Rest(a)
           /\ \A f \in File : Wanted(a, f)' = Wanted(a, f)
BY DEF Plan, Rest, Entry, Wanted

(* A write moves its own actor one step and ends nothing but the process.  *)
LEMMA WriteFacts ==
    ASSUME FinalizeTyped, InPlan, NEW a \in Actor, Write(a)
    PROVE  /\ todo[a] # <<>> /\ end = "up" /\ (a = "main" => "sigterm" \notin began)
           /\ UNCHANGED <<worker, main, late, cancelled, handler, costStop, began>>
           /\ end' \in {"up", "raised"}
           /\ \A f \in File : f # Onto(a) => pub'[f] = pub[f] /\ tmp'[f] = tmp[f]
           /\ \A b \in Actor : b # a => todo'[b] = todo[b] /\ phase'[b] = phase[b]
           /\ \A b \in Actor : b # a /\ (todo[b] = <<>> \/ Onto(b) # Onto(a)) => fd'[b] = fd[b]
           /\ \/ todo' = todo
              \/ phase[a] = "replace" /\ todo'[a] = Tail(todo[a]) /\ phase'[a] = "open"
<1>1. Onto(a) \in File /\ todo[a] # <<>>
  BY OntoTyped DEF Write, Open, Fill, Replace, Active
<1>2. todo \in [Actor -> Seq(File \X Content)] /\ pub \in [File -> Content] /\ tmp \in [File -> Content]
      /\ phase \in [Actor -> {"open", "fill", "replace"}]
      /\ fd \in [Actor -> {"none", "tmp", "pub", "gone"}] /\ (phase[a] = "fill" => fd[a] # "none")
  BY DEF InPlan, FinalizeTyped
<1>3. CASE Open(a)
  BY <1>1, <1>2, <1>3 DEF Open, Active
<1>4. CASE Fill(a)
  <2>1. pub' \in {pub} \cup {[pub EXCEPT ![Onto(a)] = c] : c \in {Head(todo[a])[2], "torn"}}
        /\ tmp' \in {tmp} \cup {[tmp EXCEPT ![Onto(a)] = c] : c \in {Head(todo[a])[2], "torn"}}
    <3>1. phase[a] = "fill" /\ fd[a] \in {"tmp", "pub", "gone"}
      BY <1>2, <1>4 DEF Fill
    <3>2. CASE fd[a] = "tmp"
      BY <1>4, <3>2 DEF Fill, Filled
    <3>3. CASE fd[a] = "pub"
      BY <1>4, <3>3 DEF Fill, Filled
    <3>4. CASE fd[a] = "gone"
      BY <1>4, <3>4 DEF Fill
    <3> QED
      BY <3>1, <3>2, <3>3, <3>4
  <2>2. \A f \in File : f # Onto(a) => pub'[f] = pub[f] /\ tmp'[f] = tmp[f]
    BY <1>2, <2>1
  <2> QED
    BY <1>1, <1>2, <1>4, <2>2 DEF Fill, Active
<1>5. CASE Replace(a)
  <2>1. \A f \in File : f # Onto(a) => pub'[f] = pub[f] /\ tmp'[f] = tmp[f]
    BY <1>1, <1>2, <1>5 DEF Replace
  <2>2. \A b \in Actor : todo[b] = <<>> \/ Onto(b) # Onto(a) => fd'[b] = fd[b]
    BY <1>1, <1>2, <1>5 DEF Replace, Moved
  <2>3. end' \in {end, "raised"} /\ end = "up"
    BY <1>5 DEF Replace, Active
  <2> QED
    BY <1>1, <1>2, <1>5, <2>1, <2>2, <2>3 DEF Replace, Active
<1> QED
  BY <1>3, <1>4, <1>5 DEF Write

(* A run starts with nothing written and nobody finishing it.              *)
LEMMA FinalizeStarts ==
    FinalizeInit => FinalizeInv
<1> SUFFICES ASSUME FinalizeInit PROVE FinalizeInv
  OBVIOUS
<1>1. FinalizeTyped
  <2>1. pub \in [File -> Content]
    BY DEF FinalizeInit, File, Content
  <2>2. tmp \in [File -> Content]
    BY DEF FinalizeInit, File, Content
  <2> QED
    BY <2>1, <2>2 DEF FinalizeInit, FinalizeTyped, Actor, Finishers
<1>2. InPlan
  <2>1. todo \in [Actor -> Seq(File \X Content)]
    BY DEF FinalizeInit
  <2> QED
    BY <2>1 DEF FinalizeInit, InPlan, Actor, Finishers
<1>3. MainPath
  BY DEF FinalizeInit, MainPath
<1>4. CompletedEarned
  <2>1. todo["cost"] = <<>> /\ \A x : <<>> # <<x>>
    BY DEF FinalizeInit, Actor
  <2>2. pub["status"] = "running" /\ tmp["status"] = "absent"
    BY DEF FinalizeInit, File
  <2> QED
    BY <2>1, <2>2 DEF CompletedEarned
<1>5. SoleWriter
  BY DEF FinalizeInit, SoleWriter
<1> QED
  BY <1>1, <1>2, <1>3, <1>4, <1>5 DEF FinalizeInv

(* What is written stays within the files, the contents and the phases.    *)
LEMMA WriteTyped ==
    ASSUME FinalizeTyped, InPlan, NEW a \in Actor, Write(a)
    PROVE  FinalizeTyped'
<1> DEFINE f == Onto(a)
           v == Head(todo[a])[2]
<1>1. f \in File /\ v \in Content /\ todo[a] # <<>>
  BY OntoTyped DEF Write, Open, Fill, Replace, Active
<1>2. /\ UNCHANGED <<worker, main, late, cancelled, handler, costStop, began>>
      /\ end' \in {"up", "raised"}
  BY WriteFacts
<1>3. /\ pub \in [File -> Content] /\ tmp \in [File -> Content]
      /\ phase \in [Actor -> {"open", "fill", "replace"}]
      /\ fd \in [Actor -> {"none", "tmp", "pub", "gone"}]
      /\ \A b \in Actor : phase[b] = "fill" => fd[b] # "none"
  BY DEF FinalizeTyped
<1>4. {"absent", "torn"} \subseteq Content
  BY DEF Content
<1> HIDE DEF f, v
<1>5. CASE Open(a)
  <2>1. tmp' = [tmp EXCEPT ![f] = "torn"] /\ pub' = pub
        /\ fd' = [fd EXCEPT ![a] = "tmp"] /\ phase' = [phase EXCEPT ![a] = "fill"]
    BY <1>5 DEF Open, f
  <2>2. /\ pub' \in [File -> Content] /\ tmp' \in [File -> Content]
        /\ phase' \in [Actor -> {"open", "fill", "replace"}]
        /\ fd' \in [Actor -> {"none", "tmp", "pub", "gone"}]
        /\ \A b \in Actor : phase'[b] = "fill" => fd'[b] # "none"
    BY <1>1, <1>3, <1>4, <2>1
  <2> QED
    BY <1>2, <2>2 DEF FinalizeTyped
<1>6. CASE Fill(a)
  <2>1. phase[a] = "fill" /\ fd[a] \in {"tmp", "pub", "gone"}
        /\ fd' = [fd EXCEPT ![a] = "none"] /\ phase' = [phase EXCEPT ![a] = "replace"]
    BY <1>3, <1>6 DEF Fill
  <2>2. \/ pub' = pub /\ tmp' = tmp
        \/ pub' = pub /\ \E c \in {v, "torn"} : tmp' = [tmp EXCEPT ![f] = c]
        \/ tmp' = tmp /\ \E c \in {v, "torn"} : pub' = [pub EXCEPT ![f] = c]
    <3>1. CASE fd[a] = "tmp"
      BY <1>6, <3>1 DEF Fill, Filled, f, v
    <3>2. CASE fd[a] = "pub"
      BY <1>6, <3>2 DEF Fill, Filled, f, v
    <3>3. CASE fd[a] = "gone"
      BY <1>6, <3>3 DEF Fill
    <3> QED
      BY <2>1, <3>1, <3>2, <3>3
  <2>3. /\ pub' \in [File -> Content] /\ tmp' \in [File -> Content]
    BY <1>1, <1>3, <1>4, <2>2
  <2>4. /\ phase' \in [Actor -> {"open", "fill", "replace"}]
        /\ fd' \in [Actor -> {"none", "tmp", "pub", "gone"}]
        /\ \A b \in Actor : phase'[b] = "fill" => fd'[b] # "none"
    BY <1>3, <2>1
  <2> QED
    BY <1>2, <2>3, <2>4 DEF FinalizeTyped
<1>7. CASE Replace(a)
  <2>1. /\ pub' \in {pub, [pub EXCEPT ![f] = tmp[f]]} /\ tmp' = [tmp EXCEPT ![f] = "absent"]
        /\ fd' \in {fd, Moved(f)} /\ phase' = [phase EXCEPT ![a] = "open"]
    BY <1>7 DEF Replace, f
  <2>2. /\ pub' \in [File -> Content] /\ tmp' \in [File -> Content]
        /\ phase' \in [Actor -> {"open", "fill", "replace"}]
    BY <1>1, <1>3, <1>4, <2>1
  <2>3. /\ Moved(f) \in [Actor -> {"none", "tmp", "pub", "gone"}]
        /\ \A b \in Actor : phase[b] = "fill" => Moved(f)[b] # "none"
    BY <1>3 DEF Moved
  <2>4. \A b \in Actor : phase'[b] = "fill" => phase[b] = "fill"
    BY <1>3, <2>1
  <2>5. CASE fd' = fd
    BY <1>2, <1>3, <2>2, <2>4, <2>5 DEF FinalizeTyped
  <2>6. CASE fd' = Moved(f)
    BY <1>2, <2>2, <2>3, <2>4, <2>6 DEF FinalizeTyped
  <2> QED
    BY <2>1, <2>5, <2>6
<1> QED
  BY <1>5, <1>6, <1>7 DEF Write

(* A write takes its actor along its plan.                                 *)
LEMMA WriteInPlan ==
    ASSUME FinalizeTyped, InPlan, NEW a \in Actor, Write(a)
    PROVE  InPlan'
<1> DEFINE S == Seq(File \X Content)
<1>1. /\ todo \in [Actor -> S] /\ todo[a] # <<>> /\ worker' = worker /\ began' = began
      /\ \A b \in Finishers : /\ Plan(b)' = Plan(b) /\ Rest(b)' = Rest(b)
      /\ \A b \in Actor : todo[b] = <<>> => phase[b] = "open"
      /\ Finishers \subseteq Actor /\ "cost" \in Actor \ Finishers
      /\ todo' = todo \/ todo' = [todo EXCEPT ![a] = Tail(@)]
      /\ \A b \in Actor : b # a => phase'[b] = phase[b]
  BY WriteFacts, PlanStays DEF InPlan, Actor, Finishers, Write, Open, Fill, Replace
<1>2. Tail(todo[a]) \in S
  BY <1>1
<1>3. CASE todo' = todo
  <2>1. \A b \in Actor : todo'[b] = <<>> => b # a /\ phase'[b] = "open"
    BY <1>1, <1>3
  <2>2. \A b \in Finishers : IF b \in began' THEN todo'[b] \in {Plan(b)', Rest(b)', <<>>} ELSE todo'[b] = <<>>
    BY <1>1, <1>3 DEF InPlan
  <2>3. todo'["cost"] = <<>> \/ \E v \in Content : todo'["cost"] = <<<<"status", v>>>>
    BY <1>3 DEF InPlan
  <2>4. todo' \in [Actor -> S]
    BY <1>1, <1>3
  <2> QED
    BY <2>1, <2>2, <2>3, <2>4 DEF InPlan
<1>4. CASE todo' # todo
  <2>1. todo' = [todo EXCEPT ![a] = Tail(@)] /\ phase'[a] = "open"
    BY <1>1, <1>4, WriteFacts
  <2>2. todo' \in [Actor -> S] /\ todo'[a] = Tail(todo[a]) /\ \A b \in Actor : b # a => todo'[b] = todo[b]
    BY <1>1, <1>2, <2>1
  <2>3. \A b \in Actor : todo'[b] = <<>> => phase'[b] = "open"
    BY <1>1, <2>1, <2>2
  <2>4. \A b \in Finishers : IF b \in began' THEN todo'[b] \in {Plan(b)', Rest(b)', <<>>} ELSE todo'[b] = <<>>
    <3> SUFFICES ASSUME NEW b \in Finishers
                 PROVE  IF b \in began' THEN todo'[b] \in {Plan(b)', Rest(b)', <<>>} ELSE todo'[b] = <<>>
      OBVIOUS
    <3>1. CASE b = a
      BY <1>1, <2>2, <3>1, HeadFacts
    <3>2. CASE b # a
      BY <1>1, <2>2, <3>2 DEF InPlan
    <3> QED
      BY <3>1, <3>2
  <2>5. todo'["cost"] = <<>> \/ \E v \in Content : todo'["cost"] = <<<<"status", v>>>>
    <3>1. CASE a = "cost"
      BY <1>1, <2>2, <3>1, CostFacts
    <3>2. CASE a # "cost"
      BY <1>1, <2>2, <3>2 DEF InPlan
    <3> QED
      BY <3>1, <3>2
  <2> QED
    BY <2>2, <2>3, <2>4, <2>5 DEF InPlan
<1> QED
  BY <1>3, <1>4

(* A write does not move the main thread, nor does it let the cost thread  *)
(* begin again.                                                            *)
LEMMA WriteMainPath ==
    ASSUME FinalizeTyped, InPlan, MainPath, NEW a \in Actor, Write(a)
    PROVE  MainPath'
<1>1. /\ worker' = worker /\ main' = main /\ costStop' = costStop /\ began' = began
      /\ end' # "returned" /\ end' # "hardstop" /\ todo[a] # <<>> /\ "cost" \in Actor
      /\ \A b \in Actor : b # a => todo'[b] = todo[b]
  BY WriteFacts DEF Actor
<1>2. todo["cost"] = <<>> => todo'["cost"] = <<>>
  BY <1>1
<1> QED
  BY <1>1, <1>2 DEF MainPath

(* Nobody but a main thread past its report writes "completed", unless it  *)
(* is there already.                                                       *)
LEMMA WriteCompletedEarned ==
    ASSUME FinalizeTyped, InPlan, MainPath, CompletedEarned, NEW a \in Actor, Write(a)
    PROVE  CompletedEarned'
<1> DEFINE Earned == worker = "ok" /\ "main" \in began /\ ~Left("main", "report")
           f == Onto(a)
           v == Head(todo[a])[2]
<1>1. /\ worker' = worker /\ began' = began /\ todo[a] # <<>> /\ f \in File
      /\ pub \in [File -> Content] /\ tmp \in [File -> Content] /\ "status" \in File
      /\ todo \in [Actor -> Seq(File \X Content)]
  BY WriteFacts, OntoTyped DEF FinalizeTyped, InPlan, File
<1>2. f = "status" /\ v = "completed" => Earned
  <2> SUFFICES ASSUME f = "status", v = "completed" PROVE Earned
    OBVIOUS
  <2>1. CASE a = "cost"
    BY <1>1, <2>1, CostFacts DEF CompletedEarned
  <2>2. CASE a # "cost"
    <3>1. a \in Finishers
      BY <2>2 DEF Actor, Finishers
    <3>2. v = Wanted(a, "status") /\ a \in began /\ todo[a] \in {Plan(a), Rest(a)}
      BY <1>1, <3>1, HeadFacts DEF InPlan
    <3>3. a = "main" /\ worker = "ok"
      BY <3>2 DEF Wanted
    <3>4. Plan(a) = <<Entry(a, "report"), Entry(a, "status")>> /\ Rest(a) = <<Entry(a, "status")>>
      BY <3>3 DEF Plan, Rest
    <3>5. Head(Plan(a))[1] = "report" /\ Rest(a)[1][1] = "status"
      BY <3>4 DEF Entry
    <3>6. todo[a] # Plan(a)
      BY <3>5 DEF Onto
    <3> QED
      BY <3>2, <3>3, <3>5, <3>6 DEF Left
  <2> QED
    BY <2>1, <2>2
<1>3. todo'["cost"] = <<<<"status", "completed">>>> => Earned
  <2>1. todo'["cost"] \in {todo["cost"], <<>>}
    <3>1. "cost" \in Actor /\ \A b \in Actor : b # a => todo'[b] = todo[b]
      BY WriteFacts DEF Actor
    <3>2. todo' = todo \/ todo'[a] = Tail(todo[a])
      BY WriteFacts
    <3>3. CASE a = "cost"
      BY <1>1, <3>2, <3>3, CostFacts
    <3> QED
      BY <3>1, <3>3
  <2>2. <<>> # <<<<"status", "completed">>>>
    OBVIOUS
  <2> QED
    BY <2>1, <2>2 DEF CompletedEarned
<1>4. pub'["status"] = "completed" \/ tmp'["status"] = "completed" => Earned
  <2> SUFFICES ASSUME pub'["status"] = "completed" \/ tmp'["status"] = "completed" PROVE Earned
    OBVIOUS
  <2> HIDE DEF Earned
  <2>1. CASE pub["status"] = "completed" \/ tmp["status"] = "completed"
    BY <2>1 DEF CompletedEarned, Earned
  <2>2. CASE ~(pub["status"] = "completed" \/ tmp["status"] = "completed")
    <3>1. f = "status"
      BY <1>1, <2>2, WriteFacts
    <3>2. CASE Open(a)
      <4>1. tmp' = [tmp EXCEPT !["status"] = "torn"] /\ pub' = pub
        BY <3>1, <3>2 DEF Open
      <4> QED
        BY <1>1, <2>2, <4>1
    <3>3. CASE Fill(a)
      <4>1. phase[a] = "fill" /\ fd[a] \in {"tmp", "pub", "gone"}
        <5>1. phase[a] = "fill" /\ a \in Actor
          BY <3>3 DEF Fill
        <5> QED
          BY <5>1 DEF FinalizeTyped
      <4>2. \/ pub' = pub /\ tmp' = tmp
            \/ pub' = pub /\ \E c \in {v, "torn"} : tmp' = [tmp EXCEPT ![f] = c]
            \/ tmp' = tmp /\ \E c \in {v, "torn"} : pub' = [pub EXCEPT ![f] = c]
        <5>1. CASE fd[a] = "tmp"
          BY <3>3, <5>1 DEF Fill, Filled
        <5>2. CASE fd[a] = "pub"
          BY <3>3, <5>2 DEF Fill, Filled
        <5>3. CASE fd[a] = "gone"
          BY <3>3, <5>3 DEF Fill
        <5> QED
          BY <4>1, <5>1, <5>2, <5>3
      <4> HIDE DEF f, v
      <4>3. v = "completed"
        BY <1>1, <2>2, <3>1, <4>2
      <4> QED
        BY <1>2, <3>1, <4>3
    <3>4. CASE Replace(a)
      <4>1. pub' \in {pub, [pub EXCEPT !["status"] = tmp["status"]]}
            /\ tmp' = [tmp EXCEPT !["status"] = "absent"]
        BY <3>1, <3>4 DEF Replace
      <4> QED
        BY <1>1, <2>2, <4>1
    <3> QED
      BY <3>2, <3>3, <3>4 DEF Write
  <2> QED
    BY <2>1, <2>2
<1>5. ~Left("main", "report") => ~Left("main", "report")'
  <2>1. "main" \in Finishers /\ "main" \in Actor
    BY DEF Finishers, Actor
  <2>2. Plan("main")' = Plan("main") /\ Rest("main")' = Rest("main")
    BY <1>1, <2>1, PlanStays
  <2>3. \/ todo'["main"] = todo["main"]
        \/ a = "main" /\ todo'["main"] = Tail(todo["main"])
    <3>1. CASE a = "main"
      BY <3>1, WriteFacts
    <3>2. CASE a # "main"
      BY <2>1, <3>2, WriteFacts
    <3> QED
      BY <3>1, <3>2
  <2>4. CASE todo'["main"] = todo["main"]
    BY <2>2, <2>4 DEF Left
  <2>5. CASE a = "main" /\ todo'["main"] = Tail(todo["main"])
    <3>1. todo["main"] \in {Plan("main"), Rest("main")}
      BY <1>1, <2>1, <2>5 DEF InPlan
    <3> QED
      BY <2>1, <2>2, <2>5, <3>1, PlanFacts DEF Left
  <2> QED
    BY <2>3, <2>4, <2>5
<1> QED
  BY <1>1, <1>3, <1>4, <1>5 DEF CompletedEarned

(* Its own writes leave a file clean ...                                   *)
LEMMA OwnWriteClean ==
    ASSUME FinalizeTyped, InPlan, NEW a \in Finishers, Write(a), NEW f \in File, Clean(a, f)
    PROVE  Clean(a, f)'
<1> DEFINE g == Onto(a)
           v == Head(todo[a])[2]
<1>1. a \in Actor
  BY DEF Actor, Finishers
<1>2. /\ worker' = worker /\ began' = began /\ todo[a] # <<>> /\ g \in File
      /\ \A h \in File : h # g => pub'[h] = pub[h] /\ tmp'[h] = tmp[h]
  BY <1>1, WriteFacts, HeadFacts
<1>3. /\ pub \in [File -> Content] /\ tmp \in [File -> Content]
      /\ todo \in [Actor -> Seq(File \X Content)]
      /\ phase \in [Actor -> {"open", "fill", "replace"}]
      /\ fd \in [Actor -> {"none", "tmp", "pub", "gone"}]
  BY DEF FinalizeTyped, InPlan
<1>4. v = Wanted(a, g) /\ v # "absent" /\ Wanted(a, f)' = Wanted(a, f)
      /\ Plan(a)' = Plan(a) /\ Rest(a)' = Rest(a)
  BY <1>2, HeadFacts, PlanFacts, PlanStays
<1>5. CASE Open(a)
  <2>1. /\ todo' = todo /\ pub' = pub /\ tmp' = [tmp EXCEPT ![g] = "torn"]
        /\ fd' = [fd EXCEPT ![a] = "tmp"] /\ phase' = [phase EXCEPT ![a] = "fill"]
    BY <1>5 DEF Open
  <2>2. Onto(a)' = g /\ Left(a, f)' = Left(a, f)
    BY <1>4, <2>1 DEF Onto, Left
  <2>3. phase'[a] = "fill" /\ fd'[a] = "tmp" /\ tmp'[g] = "torn"
    BY <1>1, <1>2, <1>3, <2>1
  <2> HIDE DEF g, v
  <2> QED
    BY <1>4, <2>1, <2>2, <2>3 DEF Clean
<1>6. CASE Fill(a)
  <2>1. /\ todo' = todo /\ phase[a] = "fill"
        /\ fd' = [fd EXCEPT ![a] = "none"] /\ phase' = [phase EXCEPT ![a] = "replace"]
    BY <1>6 DEF Fill
  <2>2. Onto(a)' = g /\ Left(a, f)' = Left(a, f) /\ phase'[a] = "replace"
    BY <1>1, <1>3, <1>4, <2>1 DEF Onto, Left
  <2>3. CASE f = g
    <3>1. fd[a] = "tmp" /\ tmp[g] = "torn"
      BY <1>2, <2>1, <2>3 DEF Clean
    <3>2. pub' = pub /\ tmp' = [tmp EXCEPT ![g] = v]
      BY <1>6, <3>1 DEF Fill, Filled
    <3>3. tmp'[g] = v
      BY <1>2, <1>3, <3>2
    <3> HIDE DEF g, v
    <3> QED
      BY <1>4, <2>2, <2>3, <3>2, <3>3 DEF Clean
  <2>4. CASE f # g
    <3>1. pub'[f] = pub[f]
      BY <1>2, <2>4
    <3> HIDE DEF g, v
    <3> QED
      BY <1>4, <2>2, <2>4, <3>1 DEF Clean
  <2> QED
    BY <2>3, <2>4
<1>7. CASE Replace(a)
  <2>1. /\ phase[a] = "replace" /\ todo' = [todo EXCEPT ![a] = Tail(@)]
        /\ phase' = [phase EXCEPT ![a] = "open"]
        /\ pub' = IF tmp[g] # "absent" THEN [pub EXCEPT ![g] = tmp[g]] ELSE pub
    BY <1>7 DEF Replace
  <2>2. phase'[a] = "open" /\ todo'[a] = Tail(todo[a])
    BY <1>1, <1>3, <2>1
  <2>3. CASE f = g
    <3>1. tmp[g] = Wanted(a, g)
      BY <1>2, <2>1, <2>3 DEF Clean
    <3>2. pub'[g] = Wanted(a, g)
      BY <1>2, <1>3, <1>4, <2>1, <3>1
    <3> HIDE DEF g, v
    <3> QED
      BY <1>4, <2>2, <2>3, <3>2 DEF Clean
  <2>4. CASE f # g
    <3>1. pub'[f] = pub[f]
      BY <1>2, <2>4
    <3>2. Left(a, f) => Left(a, f)'
      <4> SUFFICES ASSUME Left(a, f) PROVE Left(a, f)'
        OBVIOUS
      <4>1. Tail(todo[a]) = Rest(a)
        BY <1>2, <2>4, HeadFacts
      <4>2. todo[a] = Plan(a) /\ g = Head(Plan(a))[1]
        <5>1. todo[a] \in {Plan(a), Rest(a)}
          BY <1>2 DEF InPlan
        <5>2. Tail(Rest(a)) # Rest(a)
          BY PlanFacts
        <5> QED
          BY <4>1, <5>1, <5>2 DEF Onto
      <4>3. f = Rest(a)[1][1]
        <5> HIDE DEF g, v
        <5> QED
          BY <1>2, <2>4, <4>2, PlanFacts DEF File
      <4> QED
        BY <1>4, <2>2, <4>1, <4>3 DEF Left
    <3> HIDE DEF g, v
    <3> QED
      BY <1>4, <2>2, <3>1, <3>2 DEF Clean
  <2> QED
    BY <2>3, <2>4
<1> QED
  BY <1>5, <1>6, <1>7 DEF Write

(* ... and so do those of an actor that writes the other one.              *)
LEMMA OtherWriteClean ==
    ASSUME FinalizeTyped, InPlan, NEW a \in Finishers, NEW b \in Actor, b # a, Write(b),
           NEW f \in File, Onto(b) # f, Clean(a, f)
    PROVE  Clean(a, f)'
<1>1. a \in Actor
  BY DEF Actor, Finishers
<1>2. /\ worker' = worker /\ todo'[a] = todo[a] /\ phase'[a] = phase[a]
      /\ pub'[f] = pub[f] /\ tmp'[f] = tmp[f]
      /\ todo[a] = <<>> \/ Onto(a) # Onto(b) => fd'[a] = fd[a]
  BY <1>1, WriteFacts
<1>3. Wanted(a, f)' = Wanted(a, f) /\ Plan(a)' = Plan(a) /\ Rest(a)' = Rest(a)
  BY <1>2, PlanStays
<1>4. Onto(a)' = Onto(a) /\ Left(a, f)' = Left(a, f)
  BY <1>2, <1>3 DEF Onto, Left
<1> QED
  BY <1>2, <1>3, <1>4 DEF Clean

(* So the sole writer of a file finds what it wrote.                       *)
LEMMA WriteSoleWriter ==
    ASSUME FinalizeTyped, InPlan, MainPath, SoleWriter, NEW b \in Actor, Write(b)
    PROVE  SoleWriter'
<1> SUFFICES ASSUME NEW a \in Finishers, began' = {a}
             PROVE  /\ Clean(a, "report")'
                    /\ (a = "main" /\ ~SlowJoin => Clean(a, "status"))'
  BY DEF SoleWriter
<1>1. began = {a} /\ todo[b] # <<>> /\ main' = main
  BY WriteFacts
<1>2. "report" \in File /\ "status" \in File
  BY DEF File
<1>3. Clean(a, "report") /\ (a = "main" /\ ~SlowJoin => Clean(a, "status"))
  BY <1>1 DEF SoleWriter
<1>4. CASE b = a
  BY <1>2, <1>3, <1>4, OwnWriteClean
<1>5. CASE b # a
  <2>1. b = "cost"
    BY <1>1, <1>5, HeadFacts DEF Actor, Finishers
  <2>2. Onto(b) = "status"
    BY <1>1, <2>1, CostFacts
  <2>3. ~(a = "main" /\ ~SlowJoin)
    BY <1>1, <2>1 DEF MainPath
  <2> QED
    BY <1>2, <1>3, <1>5, <2>2, <2>3, OtherWriteClean
<1> QED
  BY <1>4, <1>5

(* The three ways to begin: nothing is written yet, everything is planned. *)
LEMMA BeginStep ==
    ASSUME FinalizeTyped, InPlan, MainPath, CompletedEarned, SoleWriter,
           NEW a \in Finishers, a \notin began, a = "main" => worker # "busy",
           began' = began \cup {a}, todo' = [todo EXCEPT ![a] = Plan(a)],
           UNCHANGED <<worker, pub, tmp, phase, fd>>
    PROVE  InPlan' /\ CompletedEarned' /\ SoleWriter'
<1>1. a \in Actor /\ "cost" \in Actor /\ "cost" # a /\ Finishers \subseteq Actor /\ "main" \in Finishers
  BY DEF Actor, Finishers
<1>2. todo \in [Actor -> Seq(File \X Content)] /\ Plan(a) \in Seq(File \X Content) /\ Plan(a) # <<>>
      /\ todo[a] = <<>> /\ phase[a] = "open"
  BY <1>1, PlanFacts DEF InPlan
<1>3. todo' \in [Actor -> Seq(File \X Content)] /\ todo'[a] = Plan(a)
      /\ \A b \in Actor : b # a => todo'[b] = todo[b]
  BY <1>1, <1>2
<1>4. \A b \in Finishers : Plan(b)' = Plan(b) /\ Rest(b)' = Rest(b)
                           /\ \A f \in File : Wanted(b, f)' = Wanted(b, f)
  BY PlanStays
<1>5. InPlan'
  <2>1. \A b \in Finishers : IF b \in began' THEN todo'[b] \in {Plan(b)', Rest(b)', <<>>} ELSE todo'[b] = <<>>
    <3> SUFFICES ASSUME NEW b \in Finishers
                 PROVE  IF b \in began' THEN todo'[b] \in {Plan(b)', Rest(b)', <<>>} ELSE todo'[b] = <<>>
      OBVIOUS
    <3>1. CASE b = a
      BY <1>3, <1>4, <3>1
    <3>2. CASE b # a
      BY <1>1, <1>3, <1>4, <3>2 DEF InPlan
    <3> QED
      BY <3>1, <3>2
  <2>2. todo'["cost"] = <<>> \/ \E v \in Content : todo'["cost"] = <<<<"status", v>>>>
    BY <1>1, <1>3 DEF InPlan
  <2>3. \A b \in Actor : todo'[b] = <<>> => phase'[b] = "open"
    BY <1>1, <1>2, <1>3 DEF InPlan
  <2> QED
    BY <1>3, <2>1, <2>2, <2>3 DEF InPlan
<1>6. CompletedEarned'
  <2> SUFFICES ASSUME \/ pub["status"] = "completed" \/ tmp["status"] = "completed"
                      \/ todo["cost"] = <<<<"status", "completed">>>>
               PROVE  worker = "ok" /\ "main" \in began' /\ ~Left("main", "report")'
    BY <1>1, <1>3 DEF CompletedEarned
  <2>1. worker = "ok" /\ "main" \in began /\ ~Left("main", "report")
    BY DEF CompletedEarned
  <2>2. todo'["main"] = todo["main"]
    BY <1>1, <1>3, <2>1
  <2> QED
    BY <1>1, <1>4, <2>1, <2>2 DEF Left
<1>7. SoleWriter'
  <2> SUFFICES ASSUME NEW b \in Finishers, began' = {b}
               PROVE  Clean(b, "report")' /\ Clean(b, "status")'
    BY DEF SoleWriter
  <2>1. b = a
    OBVIOUS
  <2>2. phase'[a] = "open"
    BY <1>2
  <2>3. \A f : Left(a, f)'
    BY <1>3, <1>4 DEF Left
  <2> QED
    BY <2>1, <2>2, <2>3 DEF Clean
<1> QED
  BY <1>5, <1>6, <1>7

(* What leaves the files and the writers alone leaves them in order.       *)
LEMMA QuietStep ==
    ASSUME InPlan, CompletedEarned, SoleWriter, UNCHANGED <<worker, pub, tmp, todo, phase, fd, began>>
    PROVE  InPlan' /\ CompletedEarned' /\ SoleWriter'
<1>1. InPlan'
  BY DEF InPlan, Plan, Rest, Entry, Wanted
<1>2. CompletedEarned'
  BY DEF CompletedEarned, Left, Plan, Rest, Entry, Wanted
<1>3. SoleWriter'
  BY DEF SoleWriter, Clean, Onto, Left, Plan, Rest, Entry, Wanted
<1> QED
  BY <1>1, <1>2, <1>3

(* The completion ends while the main thread waits for it.                 *)
LEMMA CompletesStep ==
    ASSUME FinalizeInv, NEW o \in {"ok", "error", "fatal"}, Completes(o)
    PROVE  FinalizeInv'
<1> USE DEF FinalizeInv
<1>1. /\ worker = "busy" /\ worker' = o
      /\ UNCHANGED <<main, late, cancelled, handler, costStop, pub, tmp, todo, phase, fd, began, end>>
  BY DEF Completes
<1>2. "main" \notin began
  BY <1>1 DEF MainPath
<1>3. FinalizeTyped'
  BY <1>1 DEF FinalizeTyped
<1>4. \A b \in Finishers : b \in began => /\ Plan(b)' = Plan(b) /\ Rest(b)' = Rest(b)
                                           /\ \A f \in File : Wanted(b, f)' = Wanted(b, f)
  BY <1>2, PlanStays
<1>5. InPlan'
  BY <1>1, <1>4 DEF InPlan
<1>6. MainPath'
  BY <1>1 DEF MainPath
<1>7. CompletedEarned'
  BY <1>1 DEF CompletedEarned
<1>8. SoleWriter'
  <2> SUFFICES ASSUME NEW a \in Finishers, began = {a}
               PROVE  Clean(a, "report")' /\ (a = "main" /\ ~SlowJoin => Clean(a, "status")')
    BY <1>1 DEF SoleWriter
  <2>1. a # "main" /\ Clean(a, "report") /\ "report" \in File
    BY <1>2 DEF SoleWriter, File
  <2>2. Clean(a, "report")'
    BY <1>1, <1>4, <2>1 DEF Clean, Left, Onto
  <2> QED
    BY <2>1, <2>2
<1> QED
  BY <1>3, <1>5, <1>6, <1>7, <1>8

(* The main thread takes up its plan.                                      *)
LEMMA JoinStep ==
    ASSUME FinalizeInv, Join
    PROVE  FinalizeInv'
<1> USE DEF FinalizeInv
<1>1. /\ main = "join" /\ main' = "finish" /\ end = "up"
      /\ began' = began \cup {"main"} /\ (SlowJoin \/ todo["cost"] = <<>>)
      /\ UNCHANGED <<worker, late, cancelled, handler, costStop, pub, tmp, phase, fd, end>>
      /\ todo' = [todo EXCEPT !["main"] = MainWrites]
  BY DEF Join, MainAt
<1>2. "main" \notin began /\ worker \in {"ok", "error", "fatal"} /\ costStop
  BY <1>1 DEF MainPath, FinalizeTyped
<1>3. MainWrites = Plan("main")
  BY <1>2 DEF MainWrites, Plan, Entry, Wanted
<1>4. "main" \in Finishers /\ worker # "busy"
  BY <1>2 DEF Finishers
<1>5. InPlan' /\ CompletedEarned' /\ SoleWriter'
  BY <1>1, <1>2, <1>3, <1>4, BeginStep
<1>6. FinalizeTyped'
  BY <1>1, <1>4 DEF FinalizeTyped
<1>7. MainPath'
  <2>1. todo'["cost"] = todo["cost"]
    BY <1>1
  <2> QED
    BY <1>1, <1>2, <2>1 DEF MainPath
<1> QED
  BY <1>5, <1>6, <1>7

(* So do the watchdog and the signal handler.                              *)
LEMMA HardStopStep ==
    ASSUME FinalizeInv, NEW a \in {"watchdog", "sigterm"}, a \notin began, end = "up", HardStop(a),
           UNCHANGED <<worker, main, late, cancelled, handler, costStop, pub, tmp, phase, fd, end>>
    PROVE  FinalizeInv'
<1> USE DEF FinalizeInv
<1>1. a \in Finishers /\ a # "main"
  BY DEF Finishers
<1>2. /\ began' = began \cup {a}
      /\ todo' = [todo EXCEPT ![a] = <<<<"report", "hardstop">>, <<"status", "failed">>>>]
  BY DEF HardStop
<1>3. Plan(a) = <<<<"report", "hardstop">>, <<"status", "failed">>>>
  BY <1>1 DEF Plan, Entry, Wanted
<1>4. InPlan' /\ CompletedEarned' /\ SoleWriter'
  BY <1>1, <1>2, <1>3, BeginStep
<1>5. FinalizeTyped'
  BY <1>1, <1>2 DEF FinalizeTyped
<1>6. MainPath'
  <2>1. todo'["cost"] = todo["cost"]
    BY <1>1, <1>2
  <2>2. "main" \in began' <=> "main" \in began
    BY <1>1, <1>2
  <2> QED
    BY <1>1, <2>1, <2>2 DEF MainPath
<1> QED
  BY <1>4, <1>5, <1>6

(* The cost thread plans to write what it has read.                        *)
LEMMA CostReadsStep ==
    ASSUME FinalizeInv, CostReads
    PROVE  FinalizeInv'
<1> USE DEF FinalizeInv
<1> DEFINE v == IF pub["status"] = "torn" THEN "blank" ELSE pub["status"]
<1>1. /\ end = "up" /\ ~costStop /\ todo["cost"] = <<>> /\ todo' = [todo EXCEPT !["cost"] = <<<<"status", v>>>>]
      /\ UNCHANGED <<worker, main, late, cancelled, handler, costStop, pub, tmp, phase, fd, began, end>>
  BY DEF CostReads
<1>2. v = "completed" => pub["status"] = "completed"
  BY DEF FinalizeTyped, File, Content
<1>3. v \in Content
  BY DEF FinalizeTyped, File, Content
<1>4. <<<<"status", v>>>> \in Seq(File \X Content) /\ <<<<"status", v>>>> # <<>>
      /\ <<<<"status", v>>>>[1][2] = v /\ <<<<"status", "completed">>>>[1][2] = "completed"
  BY <1>3 DEF File
<1> HIDE DEF v
<1>5. "cost" \in Actor \ Finishers /\ Finishers \subseteq Actor /\ "main" \in Finishers
  BY DEF Actor, Finishers
<1>6. todo \in [Actor -> Seq(File \X Content)]
  BY DEF InPlan
<1>7. /\ todo' \in [Actor -> Seq(File \X Content)] /\ todo'["cost"] = <<<<"status", v>>>>
      /\ \A b \in Actor : b # "cost" => todo'[b] = todo[b]
  BY <1>1, <1>4, <1>5, <1>6
<1>8. \A b \in Finishers : /\ Plan(b)' = Plan(b) /\ Rest(b)' = Rest(b)
                           /\ \A f \in File : Wanted(b, f)' = Wanted(b, f)
  BY <1>1, PlanStays
<1>9. FinalizeTyped'
  BY <1>1 DEF FinalizeTyped
<1>10. InPlan'
  <2>1. \A b \in Finishers : IF b \in began' THEN todo'[b] \in {Plan(b)', Rest(b)', <<>>} ELSE todo'[b] = <<>>
    BY <1>1, <1>5, <1>7, <1>8 DEF InPlan
  <2>2. \A b \in Actor : todo'[b] = <<>> => phase'[b] = "open"
    BY <1>1, <1>4, <1>7 DEF InPlan
  <2> QED
    BY <1>3, <1>7, <2>1, <2>2 DEF InPlan
<1>11. MainPath'
  BY <1>1, <1>5, <1>7 DEF MainPath, Finishers
<1>12. Left("main", "report")' = Left("main", "report")
  BY <1>5, <1>7, <1>8 DEF Left
<1>13. CompletedEarned'
  BY <1>1, <1>2, <1>3, <1>4, <1>7, <1>12 DEF CompletedEarned
<1>14. SoleWriter'
  <2>1. ASSUME NEW a \in Finishers, NEW f \in File PROVE Clean(a, f)' = Clean(a, f)
    <3>1. todo'[a] = todo[a]
      BY <1>5, <1>7
    <3>2. Left(a, f)' = Left(a, f) /\ Onto(a)' = Onto(a)
      BY <1>8, <3>1 DEF Left, Onto
    <3> QED
      BY <1>1, <1>8, <3>1, <3>2 DEF Clean
  <2> QED
    BY <1>1, <2>1 DEF SoleWriter, File
<1> QED
  BY <1>9, <1>10, <1>11, <1>13, <1>14

(* One step per action; what does not write is quiet.                      *)
LEMMA FinalizeStep ==
    FinalizeInv /\ [FinalizeNext]_fvars => FinalizeInv'
<1> SUFFICES ASSUME FinalizeInv, [FinalizeNext]_fvars PROVE FinalizeInv'
  OBVIOUS
<1>1. FinalizeTyped /\ InPlan /\ MainPath /\ CompletedEarned /\ SoleWriter
  BY DEF FinalizeInv
<1>2. ASSUME NEW a \in Actor, Write(a) PROVE FinalizeInv'
  BY <1>1, <1>2, WriteTyped, WriteInPlan, WriteMainPath, WriteCompletedEarned, WriteSoleWriter
     DEF FinalizeInv
<1>3. ASSUME UNCHANGED <<worker, pub, tmp, todo, phase, fd, began>>, FinalizeTyped', MainPath'
      PROVE  FinalizeInv'
  BY <1>1, <1>3, QuietStep DEF FinalizeInv
<1>4. CASE MainWakes
  <2>1. FinalizeTyped' /\ MainPath'
    BY <1>1, <1>4 DEF MainWakes, MainAt, FinalizeTyped, MainPath
  <2> QED
    BY <1>3, <1>4, <2>1 DEF MainWakes
<1>5. CASE CancelWatchdog
  <2>1. FinalizeTyped' /\ MainPath'
    BY <1>1, <1>5 DEF CancelWatchdog, MainAt, FinalizeTyped, MainPath
  <2> QED
    BY <1>3, <1>5, <2>1 DEF CancelWatchdog
<1>6. CASE RestoreHandler
  <2>1. FinalizeTyped' /\ MainPath'
    BY <1>1, <1>6 DEF RestoreHandler, MainAt, FinalizeTyped, MainPath
  <2> QED
    BY <1>3, <1>6, <2>1 DEF RestoreHandler
<1>7. CASE StopCost
  <2>1. FinalizeTyped' /\ MainPath'
    BY <1>1, <1>7 DEF StopCost, MainAt, FinalizeTyped, MainPath
  <2> QED
    BY <1>3, <1>7, <2>1 DEF StopCost
<1>8. CASE Join
  BY <1>8, JoinStep
<1>9. CASE Return
  <2>1. FinalizeTyped' /\ MainPath'
    BY <1>1, <1>9 DEF Return, MainAt, FinalizeTyped, MainPath
  <2> QED
    BY <1>3, <1>9, <2>1 DEF Return
<1>10. ASSUME NEW o \in {"ok", "error", "fatal"}, Completes(o) PROVE FinalizeInv'
  BY <1>10, CompletesStep
<1>11. CASE Deadline
  <2>1. FinalizeTyped' /\ MainPath'
    BY <1>1, <1>11 DEF Deadline, FinalizeTyped, MainPath
  <2> QED
    BY <1>3, <1>11, <2>1 DEF Deadline
<1>12. CASE WatchdogFires
  BY <1>12, HardStopStep DEF WatchdogFires
<1>13. CASE Sigterm
  <2>1. CASE handler
    BY <1>13, <2>1, HardStopStep DEF Sigterm
  <2>2. CASE ~handler
    <3>1. UNCHANGED <<worker, main, late, cancelled, handler, costStop, pub, tmp, todo, phase, fd, began>>
          /\ end' = "sigterm"
      BY <1>13, <2>2 DEF Sigterm
    <3>2. FinalizeTyped' /\ MainPath'
      BY <1>1, <3>1 DEF FinalizeTyped, MainPath
    <3> QED
      BY <1>3, <3>1, <3>2
  <2> QED
    BY <2>1, <2>2
<1>14. CASE Kill
  <2>1. FinalizeTyped' /\ MainPath'
    BY <1>1, <1>14 DEF Kill, FinalizeTyped, MainPath
  <2> QED
    BY <1>3, <1>14, <2>1 DEF Kill
<1>15. ASSUME NEW a \in {"watchdog", "sigterm"}, HardExit(a) PROVE FinalizeInv'
  <2>1. FinalizeTyped' /\ MainPath'
    BY <1>1, <1>15 DEF HardExit, FinalizeTyped, MainPath
  <2> QED
    BY <1>3, <1>15, <2>1 DEF HardExit
<1>16. CASE CostReads
  BY <1>16, CostReadsStep
<1>17. CASE UNCHANGED fvars
  <2>1. FinalizeTyped' /\ MainPath'
    BY <1>1, <1>17 DEF fvars, FinalizeTyped, MainPath
  <2> QED
    BY <1>3, <1>17, <2>1 DEF fvars
<1>18. {"main", "cost", "watchdog", "sigterm"} \subseteq Actor
  BY DEF Actor
<1> QED
  BY <1>2, <1>4, <1>5, <1>6, <1>7, <1>8, <1>9, <1>10, <1>11, <1>12, <1>13, <1>14, <1>15, <1>16,
     <1>17, <1>18 DEF FinalizeNext, MainStep

(* The invariant holds in every run of the process.                        *)
LEMMA FinalizeInductive ==
    FinalizeSpec => []FinalizeInv
<1>1. FinalizeInit => FinalizeInv
  BY FinalizeStarts
<1>2. FinalizeInv /\ [FinalizeNext]_fvars => FinalizeInv'
  BY FinalizeStep
<1> QED
  BY <1>1, <1>2, PTL DEF FinalizeSpec

(* EndsWithReport: a process that one actor finished leaves a whole report *)
(* (_finalize, _hard_stop_with_report), and "completed" is never on disk   *)
(* without the report of a completion that succeeded.                      *)
THEOREM OneFinisherReports ==
    FinalizeSpec => []EndsWithReport
<1>1. FinalizeInv => EndsWithReport
  <2> SUFFICES ASSUME FinalizeInv, Cardinality(began) = 1
               PROVE  /\ end \in {"returned", "hardstop"} => pub["report"] \in {"final", "abort", "hardstop"}
                      /\ pub["status"] = "completed" => pub["report"] = "final" /\ worker = "ok"
    BY DEF EndsWithReport
  <2> USE DEF FinalizeInv
  <2>1. IsFiniteSet(began)
    <3>1. IsFiniteSet(Finishers)
      <4>1. Finishers = (({} \cup {"main"}) \cup {"watchdog"}) \cup {"sigterm"}
        BY DEF Finishers
      <4> QED
        BY <4>1, FS_EmptySet, FS_AddElement
    <3> QED
      BY <3>1, FS_Subset DEF FinalizeTyped
  <2>2. PICK a \in Finishers : began = {a}
    <3>1. \E x : began = {x}
      BY <2>1, FS_Singleton
    <3> QED
      BY <3>1 DEF FinalizeTyped
  <2>3. Clean(a, "report")
    BY <2>2 DEF SoleWriter
  <2>4. end \in {"returned", "hardstop"} => ~Left(a, "report")
    <3>1. end \in {"returned", "hardstop"} => todo[a] = <<>>
      BY <2>2 DEF MainPath
    <3> QED
      BY <3>1, PlanFacts DEF Left
  <2>5. pub["status"] = "completed" => worker = "ok" /\ a = "main" /\ ~Left(a, "report")
    BY <2>2 DEF CompletedEarned
  <2> QED
    BY <2>3, <2>4, <2>5 DEF Clean, Wanted
<1> QED
  BY <1>1, FinalizeInductive, PTL

(* TerminalStatusStands: a run that _finalize ended alone keeps the status *)
(* it wrote, provided that the join of the cost thread in the finally      *)
(* block does end within its five seconds.                                 *)
THEOREM FinalStatusStands ==
    ASSUME ~SlowJoin
    PROVE  FinalizeSpec => []TerminalStatusStands
<1>1. FinalizeInv => FinalizeTypeOK
  <2> SUFFICES ASSUME FinalizeInv PROVE FinalizeTypeOK
    OBVIOUS
  <2> USE DEF FinalizeInv
  <2>1. ASSUME NEW a \in Actor
        PROVE  Len(todo[a]) <= 2 /\ \A i \in DOMAIN todo[a] : todo[a][i] \in File \X Content
    <3>1. todo[a] \in Seq(File \X Content)
      BY DEF InPlan
    <3>2. \A x, y : Len(<<x, y>>) = 2 /\ Len(<<x>>) = 1 /\ Len(<<>>) = 0
      OBVIOUS
    <3>3. Len(todo[a]) \in {0, 1, 2}
      <4>1. CASE a = "cost"
        BY <3>2, <4>1 DEF InPlan
      <4>2. CASE a \in Finishers
        <5>1. Len(Plan(a)) = 2 /\ Len(Rest(a)) = 1
          BY <3>2 DEF Plan, Rest
        <5>2. todo[a] \in {Plan(a), Rest(a), <<>>}
          BY <4>2 DEF InPlan
        <5> QED
          BY <3>2, <5>1, <5>2
      <4> QED
        BY <4>1, <4>2 DEF Actor, Finishers
    <3>4. \A i \in DOMAIN todo[a] : todo[a][i] \in File \X Content
      BY <3>1
    <3>5. Len(todo[a]) <= 2
      <4>1. \A n \in {0, 1, 2} : n <= 2
        OBVIOUS
      <4> QED
        BY <3>3, <4>1
    <3> QED
      BY <3>4, <3>5
  <2>2. {late, cancelled, handler, costStop} \subseteq BOOLEAN
    BY DEF FinalizeTyped
  <2>3. began \subseteq Actor \ {"cost"}
    BY DEF FinalizeTyped, Finishers, Actor
  <2> QED
    BY <2>1, <2>2, <2>3 DEF FinalizeTypeOK, FinalizeTyped
<1>2. FinalizeInv => TerminalStatusStands
  <2> SUFFICES ASSUME FinalizeInv, end = "returned", began = {"main"}
               PROVE  pub["status"] = IF worker = "ok" THEN "completed" ELSE "failed"
    BY <1>1 DEF TerminalStatusStands
  <2> USE DEF FinalizeInv
  <2>1. todo["main"] = <<>> /\ "main" \in Finishers
    BY DEF MainPath, Finishers
  <2>2. ~Left("main", "status")
    BY <2>1, PlanFacts DEF Left
  <2>3. Clean("main", "status")
    BY <2>1 DEF SoleWriter
  <2> QED
    BY <2>2, <2>3 DEF Clean, Wanted
<1> QED
  BY <1>2, FinalizeInductive, PTL
=============================================================================
