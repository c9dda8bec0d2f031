-------------------------- MODULE RunModesProofs --------------------------
(***************************************************************************)
(* Theorems on the run service (RunLifecycle) and on rubric-driven and     *)
(* hybrid runs (RubricRun).                                                *)
(*                                                                         *)
(* The service.  Whatever its clients, its sweeper and its watchdogs do,   *)
(* no live run is recorded as interrupted: ObituariesTrue follows the      *)
(* record into every copy that a thread may write back.  Who owns the      *)
(* record is only settled for clients that are patient and come one at a   *)
(* time, without the background threads (Orderly): RunInv says what the    *)
(* record, the script's copy and the handler's copy have to do with the    *)
(* one process that may be alive.                                          *)
(*                                                                         *)
(* Rubric-driven runs.  RubricInv holds for any number of agents at once;  *)
(* that their work reaches the grader (OnDisk) is proved for one at a time *)
(* only, which is all that holds.                                          *)
(***************************************************************************)
EXTENDS RunLifecycle, RubricRun, FiniteSetTheorems, WellFoundedInduction, TLAPS

(* The records of the type invariant, by name.                             *)
ChildRecord == [ph : Phase, got : BOOLEAN, snap : File, ok : BOOLEAN]
RequestPc == {"idle", "load", "check", "obit", "regate", "reread", "gate", "archive", "queue",
              "spawn", "record", "stopRead", "kill", "grace", "stopWrite"}
Request ==
    [pc : RequestPc,
     op : {"get", "start", "resume", "stop"}, then : {"idle", "regate", "gate"},
     snap : File, mine : Pid \cup {NoPid}]

(* A thread that is about to write has read a record to change.            *)
HasRead ==
    /\ \A p \in Pid : child[p].got => child[p].ph \in Rmw
    /\ \A c \in Client : /\ req[c].pc \in {"kill", "grace", "stopWrite"} => req[c].snap # NoFile
                         /\ req[c].pc = "record" => req[c].mine \in Pid
    /\ sweep.pc # "idle" => sweep.snap # NoFile
    /\ \A p \in Pid : proc[p] = "unborn" => child[p].ph = "start" /\ ~child[p].got

LifeInv == LifeTypeOK /\ HasRead

(* A record that says interrupted names a process that is gone ...         *)
Buried(r, table) == r # NoFile /\ r.status = "interrupted" => r.pid \in Pid /\ table[r.pid] = "gone"

(* ... and so does every copy that some thread may write back.  The        *)
(* sweeper has found the process gone before it writes.                    *)
ObituariesTrue ==
    /\ Buried(file, proc)
    /\ \A p \in Pid : Buried(child[p].snap, proc) /\ Buried(watch[p].snap, proc)
    /\ \A c \in Client : Buried(req[c].snap, proc)
    /\ sweep.pc # "idle" => sweep.snap.status = "running" /\ sweep.snap.pid \in Pid
    /\ sweep.pc = "write" => proc[sweep.snap.pid] = "gone"

-----------------------------------------------------------------------------
(* Who owns the record.                                                    *)
OneAlive == \A p, q \in Alive : p = q

(* The record r may be that of the live process p: it names no other, and  *)
(* does not say stopped.                                                   *)
Named(r, p) == r # NoFile /\ r.pid \in {NoPid, p} /\ r.status # "stopped"

(* The record carries the pid p, and what p is about to write still does.  *)
Owns(p) == file.pid = p /\ (child[p].got => child[p].snap.pid = p)

RecordOfRun ==
    \A p \in Alive :
        /\ Named(file, p)
        /\ child[p].got => Named(child[p].snap, p)
        /\ child[p].ph \in {"work", "final", "done", "bench", "term"} => Owns(p)
        /\ child[p].ph = "work" => file.status \in Active

(* The handler r that is to end or to replace a run found it at work ...   *)
Acts(r) == \/ r.then = "regate" /\ r.pc \in {"load", "check", "obit"}
           \/ r.pc \in {"regate", "stopRead", "kill", "grace", "stopWrite"}

Reached(r) ==
    /\ Acts(r) => \A p \in Alive : Owns(p) /\ child[p].ph \notin {"start", "isolate", "stamp"}
    /\ r.pc = "check" => \A p \in Alive : Named(r.snap, p)
    /\ Acts(r) /\ r.pc \in {"check", "obit", "regate", "kill", "grace"}
          => \A p \in Alive : r.snap # NoFile /\ r.snap.pid = p

(* ... and one that is past its tests has nothing alive beside it.         *)
Queued == [status |-> "queued", pid |-> NoPid]

Alone(r) ==
    /\ r.pc \in {"obit", "gate", "archive", "queue", "spawn", "reread", "stopWrite"} => Alive = {}
    /\ r.then = "gate" /\ r.pc \in {"load", "check"} => Alive = {}
    /\ r.pc = "spawn" => file = Queued
    /\ r.pc = "record" => Alive \subseteq {r.mine}

(* No sweeper and no watchdog is at work.                                  *)
Calm == sweep.pc = "idle" /\ \A p \in Pid : watch[p].pc = "off"

RunInv ==
    /\ LifeInv /\ Calm /\ OneAlive /\ RecordOfRun
    /\ \A c \in Client : Reached(req[c]) /\ Alone(req[c])

(* The hypotheses of the theorems on who owns the record: patient clients  *)
(* that make one request at a time, and none of the background threads.    *)
Orderly == Patient /\ ~Background /\ \A c, d \in Client : c = d

-----------------------------------------------------------------------------
(* The parts of the invariant.                                             *)
LEMMA LifeTypes ==
    LifeInv <=> /\ file \in File /\ report \in BOOLEAN
                /\ proc \in [Pid -> {"unborn", "alive", "zombie", "gone"}]
                /\ child \in [Pid -> ChildRecord] /\ adopted \subseteq Pid
                /\ req \in [Client -> Request]
                /\ sweep \in [pc : {"idle", "check", "write"}, snap : File]
                /\ watch \in [Pid -> [pc : {"off", "poll", "write"}, snap : File]]
                /\ requests \in 0..MaxRequests /\ restarts \in 0..MaxRestarts
                /\ HasRead
  BY DEF LifeInv, LifeTypeOK, ChildRecord, Request, RequestPc

(* A request that is not there, and a sweeper that does nothing.           *)
LEMMA IdleFacts ==
    /\ Idle \in Request /\ Idle.pc = "idle" /\ Idle.snap = NoFile /\ Idle.then = "idle"
    /\ SweepIdle \in [pc : {"idle", "check", "write"}, snap : File]
    /\ SweepIdle.pc = "idle"
  BY DEF Idle, Request, RequestPc, File, SweepIdle

(* Nothing has been read in the beginning.                                 *)
LEMMA LifeInvInit == LifeInit => LifeInv
<1> SUFFICES ASSUME LifeInit PROVE LifeInv
  OBVIOUS
<1>1. [ph |-> "start", got |-> FALSE, snap |-> NoFile, ok |-> TRUE] \in ChildRecord
  BY DEF ChildRecord, Phase, Rmw, File
<1>2. requests \in 0..MaxRequests /\ restarts \in 0..MaxRestarts
  BY BoundAssumption DEF LifeInit
<1>3. HasRead
  BY IdleFacts DEF LifeInit, HasRead
<1>4. child \in [Pid -> ChildRecord]
  BY <1>1 DEF LifeInit
<1>5. watch \in [Pid -> [pc : {"off", "poll", "write"}, snap : File]]
  BY DEF LifeInit, File
<1>6. req \in [Client -> Request] /\ sweep \in [pc : {"idle", "check", "write"}, snap : File]
  BY IdleFacts DEF LifeInit
<1> QED
  BY <1>2, <1>3, <1>4, <1>5, <1>6, LifeTypes DEF LifeInit, File

(* A step of a handler that touches no process.                            *)
LEMMA RequestStep ==
    ASSUME LifeInv, NEW c \in Client, NEW v \in Request, req' = [req EXCEPT ![c] = v],
           v.pc \in {"kill", "grace", "stopWrite"} => v.snap # NoFile,
           v.pc = "record" => v.mine \in Pid,
           file' \in File, report' \in BOOLEAN, requests' \in 0..MaxRequests,
           UNCHANGED <<proc, child, adopted, sweep, restarts>>,
           watch' \in [Pid -> [pc : {"off", "poll", "write"}, snap : File]]
    PROVE  LifeInv'
<1>1. req' \in [Client -> Request] /\ req'[c] = v /\ \A d \in Client \ {c} : req'[d] = req[d]
  BY LifeTypes
<1>2. HasRead'
  BY <1>1, LifeTypes DEF HasRead
<1> QED
  BY <1>1, <1>2, LifeTypes DEF LifeInv, LifeTypeOK, ChildRecord, Request, RequestPc

(* A step of a run's process, or of a handler that signals it.             *)
LEMMA ChildUpdate ==
    ASSUME LifeInv, NEW p \in Pid, NEW v \in ChildRecord, child' = [child EXCEPT ![p] = v],
           proc[p] = "alive", v.got => v.ph \in Rmw,
           proc' = proc \/ Die(p), file' \in File, report' \in BOOLEAN,
           UNCHANGED <<adopted, sweep, watch, requests, restarts>>,
           req' \in [Client -> Request],
           \A c \in Client :
              /\ req'[c].pc \in {"kill", "grace", "stopWrite"} => req'[c].snap # NoFile
              /\ req'[c].pc = "record" => req'[c].mine \in Pid
    PROVE  LifeInv'
<1>1. child' \in [Pid -> ChildRecord] /\ child'[p] = v /\ \A q \in Pid \ {p} : child'[q] = child[q]
  BY LifeTypes
<1>2. /\ proc' \in [Pid -> {"unborn", "alive", "zombie", "gone"}]
      /\ proc'[p] # "unborn" /\ \A q \in Pid \ {p} : proc'[q] = proc[q]
  BY LifeTypes DEF Die
<1>3. HasRead'
  BY <1>1, <1>2, LifeTypes DEF HasRead
<1> QED
  BY <1>1, <1>2, <1>3, LifeTypes DEF LifeInv, LifeTypeOK, ChildRecord, Request, RequestPc

(* What a script that goes to another phase is like.                       *)
LEMMA GotoFacts ==
    ASSUME LifeInv, NEW p \in Pid, NEW x \in Phase, Goto(p, x)
    PROVE  \E v \in ChildRecord : /\ child' = [child EXCEPT ![p] = v]
                                  /\ v.ph = x /\ v.got = FALSE /\ v.snap = NoFile
<1> DEFINE v == [child[p] EXCEPT !.ph = x, !.got = FALSE, !.snap = NoFile]
<1>1. child[p] \in ChildRecord
  BY LifeTypes
<1>2. v \in ChildRecord /\ v.ph = x /\ v.got = FALSE /\ v.snap = NoFile
  BY <1>1 DEF ChildRecord, File
<1>3. child' = [child EXCEPT ![p] = v]
  BY DEF Goto
<1> QED
  BY <1>2, <1>3

(* A request that moves on.                                                *)
LEMMA RequestAt ==
    ASSUME LifeInv, NEW c \in Client, NEW x \in RequestPc
    PROVE  /\ [req[c] EXCEPT !.pc = x] \in Request
           /\ [req[c] EXCEPT !.pc = x].pc = x
           /\ [req[c] EXCEPT !.pc = x].snap = req[c].snap
<1>1. req[c] \in Request
  BY LifeTypes
<1> QED
  BY <1>1 DEF Request

(* What the handlers hold, as HasRead states it.                           *)
LEMMA Untouched ==
    ASSUME LifeInv
    PROVE  \A c \in Client :
              /\ req[c].pc \in {"kill", "grace", "stopWrite"} => req[c].snap # NoFile
              /\ req[c].pc = "record" => req[c].mine \in Pid
  BY DEF LifeInv, HasRead

(* What a script writes is a record.                                       *)
LEMMA WrittenFacts ==
    ASSUME LifeInv, NEW p \in Pid, child[p].got
    PROVE  /\ child[p].ph \in Rmw /\ After(child[p].ph) \in Phase
           /\ Written(p) \in Record /\ Copy(child[p].snap) \in Record
<1>1. child[p] \in ChildRecord /\ child[p].ph \in Rmw
  BY LifeTypes DEF HasRead
<1>2. After(child[p].ph) \in Phase
  BY <1>1 DEF After, Rmw, Phase
<1>3. child[p].snap \in File
  BY <1>1 DEF ChildRecord
<1>4. Copy(child[p].snap) \in Record
  BY <1>3 DEF Copy, File, Record, Status
<1> DEFINE was == Copy(child[p].snap)
<1>5. was.status \in Status /\ was.pid \in Pid \cup {NoPid}
  BY <1>4 DEF Record
<1> HIDE DEF was
<1>6. Written(p).status \in Status /\ Written(p).pid \in Pid \cup {NoPid}
  BY <1>1, <1>5 DEF Written, was, Rmw, Status, Active, Terminal
<1>7. Written(p) \in Record
  BY <1>6 DEF Written, Record
<1> QED
  BY <1>1, <1>2, <1>4, <1>7

(* The records that the code writes.                                       *)
LEMMA RecordFacts ==
    /\ [status |-> "queued", pid |-> NoPid] \in Record
    /\ \A p \in Pid : [status |-> "queued", pid |-> p] \in Record
    /\ Record \subseteq File /\ NoFile \in File
    /\ \A r \in Record, x \in Status : [r EXCEPT !.status = x] \in Record
    /\ {"failed", "stopped", "interrupted"} \subseteq Status
    /\ \A r \in File : r # NoFile => r \in Record
  BY DEF Record, File, Status, Active, Terminal

(* The handlers.                                                           *)
LEMMA HandleTyped ==
    ASSUME LifeInv, NEW c \in Client, Handle(c)
    PROVE  LifeInv'
<1>0. /\ req \in [Client -> Request] /\ req[c] \in Request /\ req[c].snap \in File
      /\ req[c].then \in {"idle", "regate", "gate"}
      /\ file \in File /\ report \in BOOLEAN /\ requests \in 0..MaxRequests
      /\ watch \in [Pid -> [pc : {"off", "poll", "write"}, snap : File]]
      /\ child \in [Pid -> ChildRecord] /\ proc \in [Pid -> {"unborn", "alive", "zombie", "gone"}]
  BY LifeTypes DEF Request
<1>1. ASSUME NEW x, Step(c, x), x \in {"idle", "load", "check", "obit", "regate", "reread", "gate",
                                       "archive", "queue", "spawn"},
             Stay, file' \in File, report' \in BOOLEAN
      PROVE  LifeInv'
  <2> DEFINE v == [req[c] EXCEPT !.pc = x]
  <2>0. x \in RequestPc
    BY <1>1 DEF RequestPc
  <2>1. v \in Request /\ v.pc = x
    BY <2>0, RequestAt
  <2>2. req' = [req EXCEPT ![c] = v]
    BY <1>1 DEF Step
  <2> QED
    BY <1>0, <1>1, <2>1, <2>2, RequestStep DEF Stay
<1>2. ASSUME Done(c), Stay, file' \in File, report' \in BOOLEAN PROVE LifeInv'
  BY <1>0, <1>2, IdleFacts, RequestStep DEF Done, Stay
<1>3. ASSUME Continue(c, req[c].then), Stay, file' \in File, report' \in BOOLEAN PROVE LifeInv'
  BY <1>0, <1>1, <1>2, <1>3 DEF Continue
<1>4. CASE LoadRead(c)
  <2> DEFINE v == [req[c] EXCEPT !.pc = "check", !.snap = file]
  <2>1. v \in Request /\ v.pc = "check"
    BY <1>0 DEF Request, RequestPc
  <2>2. req' = [req EXCEPT ![c] = v]
    BY <1>4 DEF LoadRead
  <2> QED
    BY <1>0, <1>4, <2>1, <2>2, RequestStep DEF LoadRead, Stay
<1>5. CASE LoadCheck(c)
  <2>1. CASE Lost(req[c].snap)
    <3> DEFINE was == req[c].snap
               v == [req[c] EXCEPT !.pc = "obit", !.snap = [was EXCEPT !.status = "failed"]]
    <3>1. [was EXCEPT !.status = "failed"] \in File
      BY <1>0, <2>1, RecordFacts DEF Lost
    <3>2. v \in Request /\ v.pc = "obit"
      BY <1>0, <3>1 DEF Request, RequestPc
    <3>3. req' = [req EXCEPT ![c] = v]
      BY <1>5, <2>1 DEF LoadCheck
    <3> QED
      BY <1>0, <1>5, <3>2, <3>3, RequestStep DEF LoadCheck, Stay
  <2> QED
    BY <1>0, <1>3, <1>5, <2>1 DEF LoadCheck
<1>6. CASE LoadWrite(c)
  BY <1>0, <1>3, <1>6 DEF LoadWrite
<1>7. CASE ResumeGate(c) \/ StartGate(c) \/ StartFails(c)
  BY <1>0, <1>1, <1>2, <1>7 DEF ResumeGate, StartGate, StartFails
<1>8. CASE ResumeReread(c)
  <2>1. CASE file = NoFile
    BY <1>0, <1>2, <1>8, <2>1 DEF ResumeReread
  <2>2. CASE file # NoFile
    <3> DEFINE v == [req[c] EXCEPT !.pc = "load", !.then = "gate"]
    <3>1. v \in Request /\ v.pc = "load"
      BY <1>0 DEF Request, RequestPc
    <3>2. req' = [req EXCEPT ![c] = v]
      BY <1>8, <2>2 DEF ResumeReread
    <3> QED
      BY <1>0, <1>8, <3>1, <3>2, RequestStep DEF ResumeReread, Stay
  <2> QED
    BY <2>1, <2>2
<1>9. CASE Archive(c) \/ WriteQueued(c)
  <2>1. file' \in File /\ report' \in BOOLEAN
    BY <1>0, <1>9, RecordFacts DEF Archive, WriteQueued
  <2> QED
    BY <1>1, <1>9, <2>1 DEF Archive, WriteQueued
<1>10. CASE RecordPid(c)
  <2> DEFINE v == [req[c] EXCEPT !.pc = "load", !.then = "idle", !.mine = NoPid]
             p == req[c].mine
  <2>1. v \in Request /\ v.pc = "load"
    BY <1>0 DEF Request, RequestPc
  <2>2. req' = [req EXCEPT ![c] = v]
    BY <1>10 DEF RecordPid
  <2>3. p \in Pid
    BY <1>10, Untouched DEF RecordPid
  <2>4. watch' \in [Pid -> [pc : {"off", "poll", "write"}, snap : File]]
    BY <1>0, <1>10, <2>3 DEF RecordPid
  <2>5. file' \in File
    BY <1>10, <2>3, RecordFacts DEF RecordPid
  <2> HIDE DEF v
  <2> QED
    <3>1. UNCHANGED <<report, proc, child, adopted, sweep, requests, restarts>>
      BY <1>10 DEF RecordPid
    <3> QED
      BY <1>0, <2>1, <2>2, <2>4, <2>5, <3>1, RequestStep
<1>11. ASSUME NEW p \in Pid, Spawn(c, p) PROVE LifeInv'
  <2> DEFINE v == [req[c] EXCEPT !.pc = "record", !.mine = p]
  <2>1. v \in Request /\ v.pc = "record" /\ v.mine = p
    BY <1>0 DEF Request, RequestPc
  <2>2. /\ req' = [req EXCEPT ![c] = v]
        /\ UNCHANGED <<file, report, child, adopted, sweep, watch, requests, restarts>>
    BY <1>11 DEF Spawn
  <2>3. req' \in [Client -> Request] /\ req'[c] = v /\ \A d \in Client \ {c} : req'[d] = req[d]
    BY <1>0, <2>1, <2>2
  <2>4. /\ proc' \in [Pid -> {"unborn", "alive", "zombie", "gone"}]
        /\ \A q \in Pid : proc'[q] = "unborn" => proc[q] = "unborn"
    BY <1>0, <1>11 DEF Spawn, Reap
  <2>5. HasRead'
    BY <2>1, <2>2, <2>3, <2>4 DEF LifeInv, HasRead
  <2> QED
    BY <2>2, <2>3, <2>4, <2>5, LifeTypes DEF LifeInv, LifeTypeOK, ChildRecord, Request, RequestPc
<1>12. CASE StopRead(c)
  <2>1. CASE file = NoFile
    BY <1>0, <1>2, <1>12, <2>1 DEF StopRead
  <2>2. CASE file # NoFile
    <3> DEFINE x == IF file.pid = NoPid THEN "stopWrite" ELSE "kill"
               v == [req[c] EXCEPT !.snap = file, !.pc = x]
    <3>1. v \in Request /\ v.pc = x /\ v.snap = file
      BY <1>0 DEF Request, RequestPc
    <3>2. req' = [req EXCEPT ![c] = v]
      BY <1>12, <2>2 DEF StopRead
    <3> HIDE DEF v
    <3> QED
      BY <1>0, <1>12, <2>2, <3>1, <3>2, RequestStep DEF StopRead, Stay
  <2> QED
    BY <2>1, <2>2
<1>13. CASE Terminate(c) \/ Grace(c)
  <2> DEFINE p == req[c].snap.pid
             x == IF req[c].pc = "kill" THEN "grace" ELSE "stopWrite"
             v == [req[c] EXCEPT !.pc = x]
  <2>0. x \in RequestPc /\ req[c].snap # NoFile
    BY <1>13, Untouched DEF Terminate, Grace, RequestPc
  <2>1. v \in Request /\ v.pc = x /\ v.snap = req[c].snap /\ v.snap # NoFile
    BY <2>0, RequestAt
  <2>2. req' = [req EXCEPT ![c] = v]
    BY <1>13 DEF Terminate, Grace, Step
  <2>3. UNCHANGED <<file, report, adopted, sweep, watch, requests, restarts>>
    BY <1>13 DEF Terminate, Grace
  <2>4. /\ req' \in [Client -> Request]
        /\ \A d \in Client : /\ req'[d].pc \in {"kill", "grace", "stopWrite"} => req'[d].snap # NoFile
                             /\ req'[d].pc = "record" => req'[d].mine \in Pid
    BY <1>0, <2>1, <2>2, Untouched
  <2> HIDE DEF v
  <2>5. CASE UNCHANGED <<child, proc>>
    BY <1>0, <2>1, <2>2, <2>3, <2>5, RequestStep
  <2>6. CASE p \in Alive /\ (proc' = proc \/ Die(p)) /\ \E y \in {"term", "exit"} : Goto(p, y)
    <3>1. p \in Pid /\ proc[p] = "alive"
      BY <2>6 DEF Alive
    <3>2. PICK u \in ChildRecord : child' = [child EXCEPT ![p] = u] /\ u.got = FALSE
      BY <2>6, <3>1, GotoFacts DEF Phase, Rmw
    <3> QED
      BY <1>0, <2>3, <2>4, <2>6, <3>1, <3>2, ChildUpdate
  <2> QED
    BY <1>13, <2>5, <2>6 DEF Terminate, Grace
<1>14. CASE StopWrite(c)
  <2> DEFINE v == [req[c] EXCEPT !.pc = "load", !.then = "idle"]
  <2>1. v \in Request /\ v.pc = "load"
    BY <1>0 DEF Request, RequestPc
  <2>2. req' = [req EXCEPT ![c] = v]
    BY <1>14 DEF StopWrite
  <2>3. file' \in File
    BY <1>0, <1>14, Untouched, RecordFacts DEF StopWrite
  <2> QED
    BY <1>0, <1>14, <2>1, <2>2, <2>3, RequestStep DEF StopWrite, Stay
<1> QED
  BY <1>4, <1>5, <1>6, <1>7, <1>8, <1>9, <1>10, <1>11, <1>12, <1>13, <1>14 DEF Handle

(* The run script.                                                         *)
LEMMA ChildTyped ==
    ASSUME LifeInv, NEW p \in Pid, ChildStep(p)
    PROVE  LifeInv'
<1>0. /\ req \in [Client -> Request] /\ file \in File /\ report \in BOOLEAN
      /\ child[p] \in ChildRecord /\ child[p].ph \in Phase
  BY LifeTypes DEF ChildRecord
<1>1. p \in Alive /\ proc[p] = "alive" /\ UNCHANGED <<adopted, req, sweep, watch, requests, restarts>>
  BY DEF ChildStep, ChildRead, ChildWrite, Isolate, Raise, Exit, Finish, Alive, server
<1>2. ASSUME NEW x \in Phase, Goto(p, x), proc' = proc \/ Die(p), file' \in File, report' \in BOOLEAN
      PROVE  LifeInv'
  <2>1. PICK v \in ChildRecord : child' = [child EXCEPT ![p] = v] /\ v.got = FALSE
    BY <1>2, GotoFacts
  <2> QED
    BY <1>0, <1>1, <1>2, <2>1, Untouched, ChildUpdate
<1>3. CASE ChildRead(p)
  <2> DEFINE v == [child[p] EXCEPT !.got = TRUE, !.snap = file]
  <2>1. v \in ChildRecord /\ v.ph = child[p].ph
    BY <1>0 DEF ChildRecord
  <2>2. child' = [child EXCEPT ![p] = v] /\ child[p].ph \in Rmw /\ UNCHANGED <<file, proc>>
    BY <1>3 DEF ChildRead
  <2>3. report' \in BOOLEAN
    BY <1>3, Zenon DEF ChildRead
  <2> HIDE DEF v
  <2> QED
    BY <1>0, <1>1, <2>1, <2>2, <2>3, Untouched, ChildUpdate
<1>4. CASE ChildWrite(p)
  <2>1. /\ child[p].got /\ file' = Written(p) /\ Goto(p, After(child[p].ph)) /\ UNCHANGED <<report, proc>>
    BY <1>4 DEF ChildWrite
  <2> QED
    BY <1>0, <1>2, <2>1, WrittenFacts, RecordFacts
<1>5. CASE Isolate(p)
  <2>1. file' \in File /\ report' \in BOOLEAN
    BY <1>0, <1>5, RecordFacts DEF Isolate
  <2> QED
    BY <1>2, <1>5, <2>1 DEF Isolate, Phase, Rmw
<1>6. CASE Raise(p) \/ Exit(p)
  BY <1>0, <1>2, <1>6 DEF Raise, Exit, Phase, Rmw
<1>7. ASSUME NEW ok \in BOOLEAN, Finish(p, ok) PROVE LifeInv'
  <2> DEFINE v == [child[p] EXCEPT !.ph = "final", !.ok = ok]
  <2>1. v \in ChildRecord /\ v.ph \in Rmw
    BY <1>0 DEF ChildRecord, Phase, Rmw
  <2>2. child' = [child EXCEPT ![p] = v] /\ report' = TRUE /\ UNCHANGED <<file, proc>>
    BY <1>7 DEF Finish
  <2> HIDE DEF v
  <2> QED
    BY <1>0, <1>1, <2>1, <2>2, Untouched, ChildUpdate
<1> QED
  BY <1>3, <1>4, <1>5, <1>6, <1>7 DEF ChildStep

(* Every step keeps the record, the threads' copies and the process table  *)
(* well formed.                                                            *)
LEMMA LifeInvStep ==
    ASSUME LifeInv, [LifeNext]_lifeVars
    PROVE  LifeInv'
<1>0. /\ req \in [Client -> Request] /\ file \in File /\ report \in BOOLEAN
      /\ child \in [Pid -> ChildRecord] /\ proc \in [Pid -> {"unborn", "alive", "zombie", "gone"}]
      /\ watch \in [Pid -> [pc : {"off", "poll", "write"}, snap : File]]
      /\ sweep \in [pc : {"idle", "check", "write"}, snap : File]
      /\ requests \in 0..MaxRequests /\ restarts \in 0..MaxRestarts
      /\ adopted \subseteq Pid /\ HasRead
  BY LifeTypes
<1> USE DEF LifeInv, LifeTypeOK, ChildRecord, Request, RequestPc
<1>1. ASSUME NEW c \in Client, NEW op \in Ops, Submit(c, op) PROVE LifeInv'
  <2> DEFINE x == IF op = "stop" THEN "stopRead" ELSE "load"
             t == CASE op = "start" -> "gate" [] op = "resume" -> "regate" [] OTHER -> "idle"
             v == [Idle EXCEPT !.pc = x, !.op = op, !.then = t]
  <2>1. op \in {"get", "start", "resume", "stop"} /\ t \in {"idle", "regate", "gate"}
    BY OpsAssumption
  <2> HIDE DEF t
  <2>2. v \in Request /\ v.pc = x
    BY <2>1 DEF Idle, File
  <2>3. req' = [req EXCEPT ![c] = v]
    BY <1>1 DEF Submit, t
  <2>4. requests' \in 0..MaxRequests
    BY <1>0, <1>1, BoundAssumption DEF Submit
  <2>5. UNCHANGED <<file, report, proc, child, adopted, sweep, watch, restarts>>
    BY <1>1 DEF Submit
  <2> HIDE DEF v
  <2> QED
    BY <1>0, <2>2, <2>3, <2>4, <2>5, RequestStep
<1>2. ASSUME NEW p \in Pid, Watch(p) PROVE LifeInv'
  <2>1. UNCHANGED <<report, proc, child, adopted, req, sweep, requests, restarts>>
    BY <1>2 DEF Watch, WatchRead, WatchWrite, WatchEnds
  <2>2. file' \in File
    BY <1>0, <1>2 DEF Watch, WatchRead, WatchWrite, WatchEnds, Copy, File, Record, Status
  <2>3. watch' \in [Pid -> [pc : {"off", "poll", "write"}, snap : File]]
    BY <1>0, <1>2, RecordFacts DEF Watch, WatchRead, WatchWrite, WatchEnds
  <2> QED
    BY <1>0, <2>1, <2>2, <2>3 DEF HasRead
<1>3. CASE Sweep
  <2>1. UNCHANGED <<proc, child, adopted, req, watch, requests, restarts>>
    BY <1>3 DEF Sweep, SweepRead, SweepCheck, SweepWrite
  <2>2. file' \in File /\ report' \in BOOLEAN
    BY <1>0, <1>3, RecordFacts DEF Sweep, SweepRead, SweepCheck, SweepWrite, HasRead
  <2>3. /\ sweep' \in [pc : {"idle", "check", "write"}, snap : File]
        /\ sweep'.pc # "idle" => sweep'.snap # NoFile
    BY <1>0, <1>3, IdleFacts DEF Sweep, SweepRead, SweepCheck, SweepWrite, HasRead
  <2> QED
    BY <1>0, <2>1, <2>2, <2>3 DEF HasRead
<1>4. CASE OtherSpawn
  <2>1. /\ proc' \in [Pid -> {"unborn", "alive", "zombie", "gone"}]
        /\ \A q \in Pid : proc'[q] = "unborn" => proc[q] = "unborn"
    BY <1>0, <1>4 DEF OtherSpawn, Reap
  <2> QED
    BY <1>0, <1>4, <2>1 DEF OtherSpawn, server, HasRead
<1>5. CASE Restart
  <2>1. /\ proc' \in [Pid -> {"unborn", "alive", "zombie", "gone"}]
        /\ \A q \in Pid : proc'[q] = "unborn" => proc[q] = "unborn"
    BY <1>0, <1>5 DEF Restart
  <2>2. /\ req' \in [Client -> Request] /\ adopted' \subseteq Pid
        /\ \A c \in Client : req'[c].pc = "idle"
    BY <1>5, IdleFacts DEF Restart, Alive
  <2>3. /\ watch' \in [Pid -> [pc : {"off", "poll", "write"}, snap : File]]
        /\ sweep' \in [pc : {"idle", "check", "write"}, snap : File] /\ sweep'.pc = "idle"
    BY <1>5, IdleFacts, RecordFacts DEF Restart
  <2>4. restarts' \in 0..MaxRestarts
    BY <1>0, <1>5, BoundAssumption DEF Restart
  <2> QED
    BY <1>0, <1>5, <2>1, <2>2, <2>3, <2>4 DEF Restart, HasRead
<1>6. CASE UNCHANGED lifeVars
  BY <1>6 DEF lifeVars, HasRead
<1> QED
  BY <1>1, <1>2, <1>3, <1>4, <1>5, <1>6, HandleTyped, ChildTyped DEF LifeNext

(* The service never leaves its types.                                     *)
LEMMA LifeInvHolds == LifeSpec => []LifeInv
  BY LifeInvInit, LifeInvStep, PTL DEF LifeSpec

-----------------------------------------------------------------------------
(* Process ids are not reused: a process that is gone stays gone.          *)
LEMMA GoneStays ==
    ASSUME LifeInv, [LifeNext]_lifeVars
    PROVE  /\ \A p \in Pid : proc[p] = "gone" => proc'[p] = "gone"
           /\ \A r : Buried(r, proc) => Buried(r, proc')
<1>1. ASSUME NEW p \in Pid, proc[p] = "gone" PROVE proc'[p] = "gone"
  <2>0. proc \in [Pid -> {"unborn", "alive", "zombie", "gone"}]
    BY LifeTypes
  <2>1. ASSUME NEW q \in Pid, proc[q] = "alive", Die(q) PROVE proc'[p] = "gone"
    BY <1>1, <2>0, <2>1 DEF Die
  <2>2. ASSUME NEW c \in Client, Handle(c) PROVE proc'[p] = "gone"
    <3>1. CASE Terminate(c) \/ Grace(c)
      BY <1>1, <2>1, <3>1 DEF Terminate, Grace, Alive
    <3>2. CASE \E q \in Pid : Spawn(c, q)
      BY <1>1, <2>0, <3>2 DEF Spawn, Reap
    <3>3. CASE LoadRead(c) \/ LoadCheck(c) \/ LoadWrite(c) \/ ResumeGate(c) \/ ResumeReread(c)
               \/ StartGate(c) \/ Archive(c) \/ WriteQueued(c) \/ StartFails(c) \/ RecordPid(c)
               \/ StopRead(c) \/ StopWrite(c)
      BY <1>1, <3>3 DEF LoadRead, LoadCheck, LoadWrite, ResumeGate, ResumeReread, StartGate,
         Archive, WriteQueued, StartFails, RecordPid, StopRead, StopWrite, Stay
    <3> QED
      BY <2>2, <3>1, <3>2, <3>3 DEF Handle
  <2>3. ASSUME NEW q \in Pid, ChildStep(q) \/ Watch(q) PROVE proc'[p] = "gone"
    BY <1>1, <2>1, <2>3 DEF ChildStep, ChildRead, ChildWrite, Isolate, Raise, Exit, Finish, Alive,
       Watch, WatchRead, WatchWrite, WatchEnds
  <2>4. CASE OtherSpawn \/ Restart
    BY <1>1, <2>0, <2>4 DEF OtherSpawn, Restart, Reap
  <2>5. CASE Sweep \/ \E c \in Client, op \in Ops : Submit(c, op)
    BY <1>1, <2>5 DEF Sweep, SweepRead, SweepCheck, SweepWrite, Submit
  <2> QED
    BY <1>1, <2>2, <2>3, <2>4, <2>5 DEF LifeNext, lifeVars
<1> QED
  BY <1>1 DEF Buried

(* Records that name no obituary.                                          *)
LEMMA NoObituary ==
    ASSUME NEW table
    PROVE  /\ Buried(NoFile, table)
           /\ \A r \in Record : r.status # "interrupted" => Buried(r, table)
           /\ \A r \in Record, x \in Status \ {"interrupted"} : Buried([r EXCEPT !.status = x], table)
           /\ \A r \in File : Buried(r, table) => Buried(Copy(r), table)
           /\ \A q : Buried([status |-> "queued", pid |-> q], table)
  BY DEF Buried, Copy, File, Record, Status

(* The copies of the other threads stay as they are while one changes.     *)
LEMMA ObituaryStep ==
    ASSUME LifeInv, ObituariesTrue, [LifeNext]_lifeVars
    PROVE  ObituariesTrue'
<1>0. /\ req \in [Client -> Request] /\ file \in File
      /\ child \in [Pid -> ChildRecord] /\ proc \in [Pid -> {"unborn", "alive", "zombie", "gone"}]
      /\ watch \in [Pid -> [pc : {"off", "poll", "write"}, snap : File]]
      /\ sweep \in [pc : {"idle", "check", "write"}, snap : File]
  BY LifeTypes
<1>1. ASSUME Buried(file', proc'),
             \A p \in Pid : Buried(child'[p].snap, proc') /\ Buried(watch'[p].snap, proc'),
             \A c \in Client : Buried(req'[c].snap, proc'),
             sweep' = sweep
      PROVE  ObituariesTrue'
  BY <1>1, GoneStays DEF ObituariesTrue
<1>2. /\ Buried(file, proc') /\ Buried(NoFile, proc')
      /\ \A p \in Pid : Buried(child[p].snap, proc') /\ Buried(watch[p].snap, proc')
      /\ \A c \in Client : Buried(req[c].snap, proc')
      /\ \A r \in File : Buried(r, proc') => Buried(Copy(r), proc')
  BY GoneStays, NoObituary DEF ObituariesTrue
<1>3. ASSUME NEW c \in Client, Handle(c) PROVE ObituariesTrue'
  <2>0. req[c] \in Request /\ req[c].snap \in File
    BY <1>0 DEF Request
  <2>1. ASSUME NEW v, req' = [req EXCEPT ![c] = v], Buried(v.snap, proc'), Buried(file', proc'),
               \A p \in Pid : Buried(child'[p].snap, proc') /\ Buried(watch'[p].snap, proc'),
               sweep' = sweep
        PROVE  ObituariesTrue'
    <3>1. \A d \in Client : Buried(req'[d].snap, proc')
      BY <1>0, <1>2, <2>1
    <3> QED
      BY <1>1, <2>1, <3>1
  <2>2. ASSUME NEW x, req' = [req EXCEPT ![c].pc = x] \/ req' = [req EXCEPT ![c].pc = x, ![c].then = "gate"]
                      \/ req' = [req EXCEPT ![c].pc = x, ![c].then = "idle"] \/ Done(c),
               Buried(file', proc'), \A p \in Pid : Buried(child'[p].snap, proc') /\ Buried(watch'[p].snap, proc'),
               sweep' = sweep
        PROVE  ObituariesTrue'
    <3>1. CASE Done(c)
      BY <1>2, <2>1, <2>2, <3>1, IdleFacts DEF Done
    <3>2. CASE req' = [req EXCEPT ![c].pc = x]
      <4> DEFINE v == [req[c] EXCEPT !.pc = x]
      <4>1. v.snap = req[c].snap /\ req' = [req EXCEPT ![c] = v]
        BY <2>0, <3>2 DEF Request
      <4> HIDE DEF v
      <4> QED
        BY <1>2, <2>1, <2>2, <4>1
    <3>3. CASE \E t : req' = [req EXCEPT ![c].pc = x, ![c].then = t]
      <4> PICK t : req' = [req EXCEPT ![c].pc = x, ![c].then = t]
        BY <3>3
      <4> DEFINE v == [req[c] EXCEPT !.pc = x, !.then = t]
      <4>1. v.snap = req[c].snap /\ req' = [req EXCEPT ![c] = v]
        BY <2>0 DEF Request
      <4> HIDE DEF v
      <4> QED
        BY <1>2, <2>1, <2>2, <4>1
    <3> QED
      BY <2>2, <3>1, <3>2, <3>3
  <2>3. ASSUME Stay PROVE /\ \A p \in Pid : Buried(child'[p].snap, proc') /\ Buried(watch'[p].snap, proc')
                          /\ sweep' = sweep
    BY <1>2, <2>3 DEF Stay
  <2>4. CASE LoadRead(c)
    <3>1. \A d \in Client : req'[d].snap = req[d].snap \/ req'[d].snap = file
      BY <1>0, <2>4 DEF LoadRead, Request
    <3>2. UNCHANGED <<child, watch, sweep, file>>
      BY <2>4 DEF LoadRead, Stay
    <3> QED
      BY <1>1, <1>2, <3>1, <3>2
  <2>5. CASE LoadCheck(c) /\ Lost(req[c].snap)
    <3> DEFINE r == [req[c].snap EXCEPT !.status = "failed"]
    <3>1. Buried(r, proc')
      BY <2>0, <2>5, RecordFacts, NoObituary DEF Lost
    <3>2. \A d \in Client : req'[d].snap = req[d].snap \/ req'[d].snap = r
      BY <1>0, <2>5 DEF LoadCheck, Request
    <3>3. UNCHANGED <<child, watch, sweep, file>>
      BY <2>5 DEF LoadCheck, Stay
    <3> HIDE DEF r
    <3> QED
      BY <1>1, <1>2, <3>1, <3>2, <3>3
  <2>6. CASE (LoadCheck(c) /\ ~Lost(req[c].snap)) \/ LoadWrite(c)
    <3>1. Continue(c, req[c].then) /\ Stay
      BY <2>6 DEF LoadCheck, LoadWrite
    <3>2. Buried(file', proc')
      BY <1>2, <2>6 DEF LoadCheck, LoadWrite
    <3> QED
      BY <2>2, <2>3, <3>1, <3>2 DEF Continue, Step
  <2>7. CASE ResumeGate(c) \/ ResumeReread(c) \/ StartGate(c) \/ StartFails(c)
    <3>1. Stay /\ file' = file
      BY <2>7 DEF ResumeGate, ResumeReread, StartGate, StartFails
    <3> QED
      BY <1>2, <2>2, <2>3, <2>7, <3>1 DEF ResumeGate, ResumeReread, StartGate, StartFails, Step
  <2>8. CASE Archive(c) \/ WriteQueued(c)
    <3>1. Stay /\ Step(c, IF req[c].pc = "archive" THEN "queue" ELSE "spawn")
      BY <2>8 DEF Archive, WriteQueued
    <3>2. Buried(file', proc')
      BY <1>2, <2>8, NoObituary DEF Archive, WriteQueued
    <3> QED
      BY <2>2, <2>3, <3>1, <3>2 DEF Step
  <2>9. CASE RecordPid(c)
    <3>1. Buried(file', proc')
      BY <2>9, NoObituary DEF RecordPid
    <3>2. \A d \in Client : req'[d].snap = req[d].snap
      BY <1>0, <2>9 DEF RecordPid, Request
    <3>3. UNCHANGED <<child, sweep>> /\ \A p \in Pid : watch'[p].snap = watch[p].snap
      BY <1>0, <2>9 DEF RecordPid
    <3> QED
      BY <1>1, <1>2, <3>1, <3>2, <3>3
  <2>10. ASSUME NEW p \in Pid, Spawn(c, p) PROVE ObituariesTrue'
    <3>1. \A d \in Client : req'[d].snap = req[d].snap
      BY <1>0, <2>10 DEF Spawn, Request
    <3>2. UNCHANGED <<child, watch, sweep, file>>
      BY <2>10 DEF Spawn
    <3> QED
      BY <1>1, <1>2, <3>1, <3>2
  <2>11. CASE StopRead(c)
    <3>1. \A d \in Client : req'[d].snap = req[d].snap \/ req'[d].snap = file \/ req'[d].snap = NoFile
      BY <1>0, <2>11, IdleFacts DEF StopRead, Done, Request
    <3>2. UNCHANGED <<child, watch, sweep, file>>
      BY <2>11 DEF StopRead, Stay
    <3> QED
      BY <1>1, <1>2, <3>1, <3>2
  <2>12. CASE Terminate(c) \/ Grace(c)
    <3>1. \A d \in Client : req'[d].snap = req[d].snap
      <4> DEFINE x == IF req[c].pc = "kill" THEN "grace" ELSE "stopWrite"
                 v == [req[c] EXCEPT !.pc = x]
      <4>1. v.snap = req[c].snap /\ req' = [req EXCEPT ![c] = v]
        BY <2>0, <2>12 DEF Terminate, Grace, Step, Request
      <4> HIDE DEF v
      <4> QED
        BY <1>0, <4>1
    <3>2. UNCHANGED <<watch, sweep, file>>
      BY <2>12 DEF Terminate, Grace
    <3>3. \A p \in Pid : child'[p].snap = child[p].snap \/ child'[p].snap = NoFile
      BY <1>0, <2>12 DEF Terminate, Grace, Goto, Alive, ChildRecord
    <3> QED
      BY <1>1, <1>2, <3>1, <3>2, <3>3
  <2>13. CASE StopWrite(c)
    <3>1. Buried(file', proc')
      BY <2>0, <2>13, Untouched, RecordFacts, NoObituary DEF StopWrite
    <3> QED
      BY <2>2, <2>3, <2>13, <3>1 DEF StopWrite
  <2> QED
    BY <1>3, <2>4, <2>5, <2>6, <2>7, <2>8, <2>9, <2>10, <2>11, <2>12, <2>13 DEF Handle
<1>4. ASSUME NEW p \in Pid, ChildStep(p) PROVE ObituariesTrue'
  <2>1. UNCHANGED <<req, watch, sweep>>
    BY <1>4 DEF ChildStep, ChildRead, ChildWrite, Isolate, Raise, Exit, Finish, server
  <2>2. \A q \in Pid : child'[q].snap \in {child[q].snap, file, NoFile}
    <3>0. child[p] \in ChildRecord
      BY <1>0
    <3>1. ASSUME NEW x \in Phase, Goto(p, x) PROVE \A q \in Pid : child'[q].snap \in {child[q].snap, file, NoFile}
      <4>1. PICK v \in ChildRecord : /\ child' = [child EXCEPT ![p] = v]
                                     /\ v.ph = x /\ v.got = FALSE /\ v.snap = NoFile
        BY <3>1, GotoFacts
      <4> QED
        BY <1>0, <4>1
    <3>2. CASE ChildRead(p)
      <4> DEFINE v == [child[p] EXCEPT !.got = TRUE, !.snap = file]
      <4>1. v.snap = file /\ child' = [child EXCEPT ![p] = v]
        BY <3>0, <3>2 DEF ChildRead, ChildRecord
      <4> HIDE DEF v
      <4> QED
        BY <1>0, <4>1
    <3>3. ASSUME NEW ok \in BOOLEAN, Finish(p, ok)
          PROVE  \A q \in Pid : child'[q].snap \in {child[q].snap, file, NoFile}
      <4> DEFINE v == [child[p] EXCEPT !.ph = "final", !.ok = ok]
      <4>1. v.snap = child[p].snap /\ child' = [child EXCEPT ![p] = v]
        BY <3>0, <3>3 DEF Finish, ChildRecord
      <4> HIDE DEF v
      <4> QED
        BY <1>0, <4>1
    <3>4. CASE ChildWrite(p)
      BY <3>1, <3>4, WrittenFacts DEF ChildWrite
    <3>5. CASE Isolate(p) \/ Raise(p) \/ Exit(p)
      BY <3>1, <3>5 DEF Isolate, Raise, Exit, Phase, Rmw
    <3> QED
      BY <1>4, <3>2, <3>3, <3>4, <3>5 DEF ChildStep
  <2>3. Buried(file', proc')
    <3>1. CASE ChildWrite(p)
      <4>1. file' = Written(p) /\ Written(p) \in Record /\ child[p].ph \in Rmw
        BY <3>1, WrittenFacts DEF ChildWrite
      <4>2. Buried(Copy(child[p].snap), proc')
        BY <1>0, <1>2 DEF ChildRecord
      <4>3. CASE child[p].ph = "bench"
        BY <4>1, <4>2, <4>3, WrittenFacts, NoFileAssumption, <3>1 DEF Buried, Written, ChildWrite
      <4>4. CASE child[p].ph # "bench"
        <5>1. Written(p).status # "interrupted"
          BY <4>1, <4>4 DEF Written, Rmw
        <5> QED
          BY <4>1, <5>1, NoObituary
      <4> QED
        BY <4>3, <4>4
    <3>2. CASE ~ChildWrite(p)
      BY <1>2, <1>4, <3>2, NoObituary DEF ChildStep, ChildRead, Isolate, Raise, Exit, Finish
    <3> QED
      BY <3>1, <3>2
  <2> QED
    BY <1>1, <1>2, <2>1, <2>2, <2>3
<1>5. ASSUME NEW p \in Pid, Watch(p) PROVE ObituariesTrue'
  <2>1. UNCHANGED <<req, child, sweep>>
    BY <1>5 DEF Watch, WatchRead, WatchWrite, WatchEnds
  <2>2. \A q \in Pid : watch'[q].snap \in {watch[q].snap, file, NoFile}
    BY <1>0, <1>5 DEF Watch, WatchRead, WatchWrite, WatchEnds
  <2>3. Buried(file', proc')
    BY <1>0, <1>2, <1>5 DEF Watch, WatchRead, WatchWrite, WatchEnds
  <2> QED
    BY <1>1, <1>2, <2>1, <2>2, <2>3
<1>6. CASE Sweep
  <2>1. UNCHANGED <<req, child, watch, proc>>
    BY <1>6 DEF Sweep, SweepRead, SweepCheck, SweepWrite
  <2>2. CASE SweepRead
    BY <1>0, <2>1, <2>2 DEF SweepRead, ObituariesTrue, File, Record
  <2>3. CASE SweepCheck
    BY <1>0, <2>1, <2>3, IdleFacts, NoPidAssumption DEF SweepCheck, ObituariesTrue, PidExists
  <2>4. CASE SweepWrite
    <3>1. Buried(file', proc')
      BY <1>0, <2>1, <2>4, RecordFacts DEF SweepWrite, ObituariesTrue, Buried, LifeInv, HasRead, Record
    <3> QED
      BY <2>1, <2>4, <3>1, IdleFacts DEF SweepWrite, ObituariesTrue
  <2> QED
    BY <1>6, <2>2, <2>3, <2>4 DEF Sweep
<1>7. CASE Restart
  <2>1. /\ \A c \in Client : req'[c].snap = NoFile
        /\ \A p \in Pid : watch'[p].snap = NoFile
        /\ UNCHANGED <<file, child>> /\ sweep'.pc = "idle"
    BY <1>7, IdleFacts DEF Restart
  <2> QED
    BY <1>2, <2>1 DEF ObituariesTrue
<1>8. ASSUME NEW c \in Client, NEW op \in Ops, Submit(c, op) PROVE ObituariesTrue'
  <2>1. \A d \in Client : req'[d].snap = req[d].snap \/ req'[d].snap = NoFile
    BY <1>0, <1>8 DEF Submit, Idle
  <2> QED
    BY <1>1, <1>2, <1>8, <2>1 DEF Submit
<1>9. CASE OtherSpawn \/ UNCHANGED lifeVars
  BY <1>1, <1>2, <1>9 DEF OtherSpawn, server, lifeVars
<1> QED
  BY <1>3, <1>4, <1>5, <1>6, <1>7, <1>8, <1>9 DEF LifeNext

(* The sweeper never declares a live run interrupted, for any clients,     *)
(* requests, processes and restarts and with every other writer of the     *)
(* record at work: a stale copy that is written back speaks of a process   *)
(* that is gone, and process ids do not come back.                         *)
THEOREM InterruptedIsDead == LifeSpec => []NoFalseObituary
<1>1. LifeInit => ObituariesTrue
  BY IdleFacts DEF LifeInit, ObituariesTrue, Buried
<1>2. LifeInv /\ ObituariesTrue /\ [LifeNext]_lifeVars => ObituariesTrue'
  BY ObituaryStep
<1>3. ObituariesTrue => NoFalseObituary
  BY DEF ObituariesTrue, Buried, NoFalseObituary, Alive
<1> QED
  BY <1>1, <1>2, <1>3, LifeInvHolds, PTL DEF LifeSpec

-----------------------------------------------------------------------------
(* While nothing is alive the record may say anything.                     *)
LEMMA NothingRuns ==
    ASSUME LifeInv', Calm', Alive' = {},
           \A c \in Client : req'[c].pc = "spawn" => file' = Queued
    PROVE  RunInv'
  BY DEF RunInv, OneAlive, RecordOfRun, Reached, Alone, Queued

(* A step of a handler that only moves on.                                 *)
LEMMA HandlerMoves ==
    ASSUME RunInv, Orderly, LifeInv', Calm', NEW c \in Client, NEW v,
           req' = [req EXCEPT ![c] = v], Reached(v), Alone(v),
           UNCHANGED <<file, proc, child>>
    PROVE  RunInv'
<1>1. \A d \in Client : req'[d] = v
  BY LifeTypes DEF RunInv, Orderly
<1>2. OneAlive' /\ RecordOfRun'
  BY DEF RunInv, OneAlive, RecordOfRun, Alive, Owns
<1>3. \A d \in Client : Reached(req[d])' /\ Alone(req[d])'
  BY <1>1 DEF Reached, Alone, Alive, Owns
<1> QED
  BY <1>2, <1>3 DEF RunInv

(* An idle handler promises nothing.                                       *)
LEMMA IdleIsFine == Reached(Idle) /\ Alone(Idle)
  BY DEF Idle, Reached, Alone, Acts

(* The background threads stay off.                                        *)
LEMMA CalmStep ==
    ASSUME LifeInv, Calm, Orderly, [LifeNext]_lifeVars
    PROVE  Calm'
<1>0. /\ watch \in [Pid -> [pc : {"off", "poll", "write"}, snap : File]]
      /\ req \in [Client -> Request]
  BY LifeTypes
<1>1. ASSUME NEW c \in Client, RecordPid(c) PROVE Calm'
  <2>1. req[c].mine \in Pid
    BY <1>1, Untouched DEF RecordPid
  <2>2. watch' = [watch EXCEPT ![req[c].mine].pc = "off"] /\ sweep' = sweep
    BY <1>1 DEF RecordPid, Orderly
  <2> QED
    BY <1>0, <2>1, <2>2 DEF Calm
<1>2. ASSUME NEW c \in Client, Handle(c), ~RecordPid(c) PROVE Calm'
  BY <1>2 DEF Calm, Handle, LoadRead, LoadCheck, LoadWrite, ResumeGate, ResumeReread, StartGate, Archive,
     WriteQueued, StartFails, Spawn, StopRead, Terminate, Grace, StopWrite, Stay
<1>3. ASSUME NEW p \in Pid, ChildStep(p) PROVE Calm'
  BY <1>3 DEF Calm, ChildStep, ChildRead, ChildWrite, Isolate, Raise, Exit, Finish, server
<1>4. ~Sweep /\ \A p \in Pid : ~Watch(p)
  BY DEF Calm, Orderly, Sweep, SweepRead, SweepCheck, SweepWrite, Watch, WatchRead, WatchWrite, WatchEnds
<1>5. CASE Restart
  BY <1>5, IdleFacts DEF Restart, Calm
<1>6. CASE OtherSpawn \/ UNCHANGED lifeVars \/ \E c \in Client, op \in Ops : Submit(c, op)
  BY <1>6 DEF OtherSpawn, server, lifeVars, Submit, Calm
<1> QED
  BY <1>1, <1>2, <1>3, <1>4, <1>5, <1>6 DEF LifeNext

(* The handlers, one request at a time.                                    *)
LEMMA HandlerKeepsRun ==
    ASSUME RunInv, Orderly, NEW c \in Client, Handle(c), LifeInv', Calm'
    PROVE  RunInv'
<1>0. /\ LifeInv /\ req \in [Client -> Request] /\ req[c] \in Request /\ req[c].snap \in File
      /\ Reached(req[c]) /\ Alone(req[c]) /\ OneAlive /\ RecordOfRun
      /\ proc \in [Pid -> {"unborn", "alive", "zombie", "gone"}]
      /\ child \in [Pid -> ChildRecord]
  BY LifeTypes DEF RunInv, Request
<1>00. \A d \in Client : d = c
  BY DEF Orderly
(* Handlers that run while nothing is alive.                               *)
<1>1. ASSUME Alive = {}, proc' = proc, NEW v, req' = [req EXCEPT ![c] = v],
             v.pc = "spawn" => file' = Queued
      PROVE  RunInv'
  <2>1. \A d \in Client : req'[d] = v
    BY <1>0, <1>00, <1>1
  <2>2. Alive' = {}
    BY <1>1 DEF Alive
  <2> QED
    BY <1>1, <2>1, <2>2, NothingRuns
<1>2. ASSUME Done(c), UNCHANGED <<file, proc, child>> PROVE RunInv'
  BY <1>2, HandlerMoves, IdleIsFine DEF Done
<1>3. ASSUME Alive = {}, proc' = proc, NEW x \in RequestPc \ {"spawn"}, Step(c, x) PROVE RunInv'
  <2> DEFINE v == [req[c] EXCEPT !.pc = x]
  <2>1. v.pc = x /\ req' = [req EXCEPT ![c] = v]
    BY <1>0, <1>3 DEF Step, Request
  <2> HIDE DEF v
  <2> QED
    BY <1>1, <1>3, <2>1
<1>4. CASE LoadRead(c)
  <2> DEFINE v == [req[c] EXCEPT !.pc = "check", !.snap = file]
  <2>1. v.pc = "check" /\ v.snap = file /\ v.then = req[c].then /\ req' = [req EXCEPT ![c] = v]
    BY <1>0, <1>4 DEF LoadRead, Request
  <2>2. req[c].pc = "load" /\ UNCHANGED <<file, proc, child>>
    BY <1>4 DEF LoadRead, Stay
  <2> HIDE DEF v
  <2>3. Reached(v)
    BY <1>0, <2>1, <2>2 DEF Reached, Acts, RecordOfRun, Owns, Named
  <2>4. Alone(v)
    BY <1>0, <2>1, <2>2 DEF Alone
  <2> QED
    BY <2>1, <2>2, <2>3, <2>4, HandlerMoves
<1>5. CASE LoadCheck(c)
  <2>0. req[c].pc = "check" /\ UNCHANGED <<file, proc, child>>
    BY <1>5 DEF LoadCheck, Stay
  <2>1. CASE Lost(req[c].snap)
    <3> DEFINE v == [req[c] EXCEPT !.pc = "obit", !.snap = [req[c].snap EXCEPT !.status = "failed"]]
    <3>1. v.pc = "obit" /\ req' = [req EXCEPT ![c] = v]
      BY <1>0, <1>5, <2>1 DEF LoadCheck, Request
    <3>2. Alive = {}
      BY <1>0, <2>0, <2>1 DEF Lost, PidExists, Reached, Named, Alive
    <3> HIDE DEF v
    <3> QED
      BY <1>1, <2>0, <3>1, <3>2
  <2>2. CASE ~Lost(req[c].snap) /\ req[c].then = "idle"
    BY <1>2, <1>5, <2>0, <2>2 DEF LoadCheck, Continue
  <2>3. CASE ~Lost(req[c].snap) /\ req[c].then = "gate"
    <3>1. Step(c, "gate") /\ Alive = {}
      BY <1>0, <1>5, <2>0, <2>3 DEF LoadCheck, Continue, Alone
    <3> QED
      BY <1>3, <2>0, <3>1 DEF RequestPc
  <2>4. CASE ~Lost(req[c].snap) /\ req[c].then = "regate"
    <3> DEFINE v == [req[c] EXCEPT !.pc = "regate"]
    <3>1. v.pc = "regate" /\ v.snap = req[c].snap /\ v.then = "regate" /\ req' = [req EXCEPT ![c] = v]
      BY <1>0, <1>5, <2>4 DEF LoadCheck, Continue, Step, Request
    <3> HIDE DEF v
    <3>2. Reached(v) /\ Alone(v)
      BY <1>0, <2>0, <2>4, <3>1 DEF Reached, Alone, Acts
    <3> QED
      BY <2>0, <3>1, <3>2, HandlerMoves
  <2> QED
    BY <1>0, <2>1, <2>2, <2>3, <2>4 DEF Request
<1>6. CASE LoadWrite(c)
  <2>1. /\ Alive = {} /\ proc' = proc /\ Continue(c, req[c].then)
        /\ req[c].then \in {"idle", "regate", "gate"}
    BY <1>0, <1>6 DEF LoadWrite, Stay, Alone, Request
  <2>2. CASE req[c].then = "idle"
    BY <1>1, <2>1, <2>2, IdleFacts DEF Continue, Done
  <2> QED
    BY <1>3, <2>1, <2>2 DEF Continue, RequestPc
<1>7. CASE ResumeGate(c)
  <2>0. req[c].pc = "regate" /\ UNCHANGED <<file, proc, child>>
    BY <1>7 DEF ResumeGate, Stay
  <2>1. CASE req[c].snap = NoFile \/ PidExists(req[c].snap.pid)
    BY <1>2, <1>7, <2>0, <2>1 DEF ResumeGate
  <2>2. CASE ~(req[c].snap = NoFile \/ PidExists(req[c].snap.pid))
    <3>1. Acts(req[c]) => Alive = {}
      BY <1>0, <2>0, <2>2, NoPidAssumption DEF PidExists, Reached, Alive
    <3>2. Step(c, "reread")
      BY <1>7, <2>2 DEF ResumeGate
    <3> QED
      BY <1>0, <1>3, <2>0, <3>1, <3>2 DEF RequestPc, Acts
  <2> QED
    BY <2>1, <2>2
<1>8. CASE ResumeReread(c)
  <2>0. Alive = {} /\ UNCHANGED <<file, proc, child>>
    BY <1>0, <1>8 DEF ResumeReread, Stay, Alone
  <2>1. CASE file = NoFile
    BY <1>2, <1>8, <2>0, <2>1 DEF ResumeReread
  <2>2. CASE file # NoFile
    <3> DEFINE v == [req[c] EXCEPT !.pc = "load", !.then = "gate"]
    <3>1. v.pc = "load" /\ req' = [req EXCEPT ![c] = v]
      BY <1>0, <1>8, <2>2 DEF ResumeReread, Request
    <3> HIDE DEF v
    <3> QED
      BY <1>1, <2>0, <3>1
  <2> QED
    BY <2>1, <2>2
<1>9. CASE StartGate(c) \/ StartFails(c)
  <2>0. Alive = {} /\ UNCHANGED <<file, proc, child>>
    BY <1>0, <1>9 DEF StartGate, StartFails, Stay, Alone
  <2>1. Done(c) \/ Step(c, "archive") \/ Step(c, "queue")
    BY <1>9 DEF StartGate, StartFails
  <2> QED
    BY <1>2, <1>3, <2>0, <2>1 DEF RequestPc
<1>10. CASE Archive(c)
  BY <1>0, <1>3, <1>10 DEF Archive, Stay, Alone, RequestPc
<1>11. CASE WriteQueued(c)
  <2>0. Alive = {} /\ proc' = proc /\ file' = Queued
    BY <1>0, <1>11 DEF WriteQueued, Stay, Alone, Queued
  <2> DEFINE v == [req[c] EXCEPT !.pc = "spawn"]
  <2>1. req' = [req EXCEPT ![c] = v]
    BY <1>11 DEF WriteQueued, Step
  <2> HIDE DEF v
  <2> QED
    BY <1>1, <2>0, <2>1
<1>12. CASE RecordPid(c)
  <2> DEFINE v == [req[c] EXCEPT !.pc = "load", !.then = "idle", !.mine = NoPid]
             p == req[c].mine
  <2>1. v.pc = "load" /\ v.then = "idle" /\ req' = [req EXCEPT ![c] = v]
    BY <1>0, <1>12 DEF RecordPid, Request
  <2>2. /\ Alive \subseteq {p} /\ p \in Pid /\ file' = [status |-> "queued", pid |-> p]
        /\ UNCHANGED <<proc, child>>
    BY <1>0, <1>12, Untouched DEF RecordPid, Alone
  <2>3. file'.status = "queued" /\ file'.pid = p /\ file' \in Record
    BY <2>2, RecordFacts
  <2> HIDE DEF v, p
  <2>4. Alive' = Alive /\ OneAlive'
    BY <1>0, <2>2 DEF Alive, OneAlive
  <2>5. RecordOfRun'
    BY <1>0, <2>2, <2>3, <2>4, NoFileAssumption DEF RecordOfRun, Named, Owns, Active
  <2>6. \A d \in Client : req'[d] = v
    BY <1>0, <1>00, <2>1
  <2>7. \A d \in Client : Reached(req[d])' /\ Alone(req[d])'
    BY <2>1, <2>6 DEF Reached, Alone, Acts
  <2> QED
    BY <2>4, <2>5, <2>7 DEF RunInv
<1>13. ASSUME NEW p \in Pid, Spawn(c, p) PROVE RunInv'
  <2> DEFINE v == [req[c] EXCEPT !.pc = "record", !.mine = p]
  <2>1. v.pc = "record" /\ v.mine = p /\ req' = [req EXCEPT ![c] = v]
    BY <1>0, <1>13 DEF Spawn, Request
  <2>2. Alive = {} /\ file = Queued /\ UNCHANGED <<file, child>> /\ proc[p] = "unborn"
    BY <1>0, <1>13 DEF Spawn, Alone
  <2>3. Alive' = {p}
    BY <1>0, <1>13, <2>2 DEF Spawn, Reap, Alive
  <2>4. child[p].ph = "start" /\ ~child[p].got
    BY <1>0, <2>2 DEF LifeInv, HasRead
  <2> HIDE DEF v
  <2>5. file.pid = NoPid /\ file.status = "queued" /\ file # NoFile
    BY <2>2, RecordFacts, NoFileAssumption DEF Queued
  <2>6. OneAlive' /\ RecordOfRun'
    BY <2>2, <2>3, <2>4, <2>5 DEF OneAlive, RecordOfRun, Named
  <2>7. \A d \in Client : req'[d] = v
    BY <1>0, <1>00, <2>1
  <2>8. \A d \in Client : Reached(req[d])' /\ Alone(req[d])'
    BY <2>1, <2>3, <2>7 DEF Reached, Alone, Acts
  <2> QED
    BY <2>6, <2>8 DEF RunInv
<1>14. CASE StopRead(c)
  <2>0. req[c].pc = "stopRead" /\ UNCHANGED <<file, proc, child>>
    BY <1>14 DEF StopRead, Stay
  <2>1. CASE file = NoFile
    BY <1>2, <1>14, <2>0, <2>1 DEF StopRead
  <2>2. CASE file # NoFile
    <3> DEFINE x == IF file.pid = NoPid THEN "stopWrite" ELSE "kill"
               v == [req[c] EXCEPT !.snap = file, !.pc = x]
    <3>1. v.pc = x /\ v.snap = file /\ v.then = req[c].then /\ req' = [req EXCEPT ![c] = v]
      BY <1>0, <1>14, <2>2 DEF StopRead, Request
    <3> HIDE DEF v
    <3>2. \A p \in Alive : file.pid = p /\ p # NoPid /\ Owns(p)
                           /\ child[p].ph \notin {"start", "isolate", "stamp"}
      BY <1>0, <2>0, NoPidAssumption DEF Reached, Acts, Owns, Alive
    <3>3. Reached(v) /\ Alone(v)
      BY <2>2, <3>1, <3>2 DEF Reached, Alone, Acts
    <3> QED
      BY <2>0, <3>1, <3>3, HandlerMoves
  <2> QED
    BY <2>1, <2>2
<1>15. CASE Terminate(c) \/ Grace(c)
  <2> DEFINE p == req[c].snap.pid
             x == IF req[c].pc = "kill" THEN "grace" ELSE "stopWrite"
             v == [req[c] EXCEPT !.pc = x]
  <2>1. /\ v.pc = x /\ v.snap = req[c].snap /\ v.then = req[c].then /\ req' = [req EXCEPT ![c] = v]
        /\ req[c].pc \in {"kill", "grace"} /\ file' = file
    BY <1>0, <1>15 DEF Terminate, Grace, Step, Request
  <2>2. \A q \in Alive : q = p /\ Owns(q) /\ child[q].ph \notin {"start", "isolate", "stamp"}
    BY <1>0, <2>1 DEF Reached, Acts
  <2>3. \A d \in Client : req'[d] = v
    BY <1>0, <1>00, <2>1
  <2> HIDE DEF v
  <2>4. CASE Alive = {}
    <3>1. proc' = proc
      BY <1>15, <2>4 DEF Terminate, Grace
    <3> QED
      BY <1>1, <2>1, <2>4, <3>1
  <2>5. CASE p \in Alive /\ Die(p)
    <3>1. Alive' = {}
      BY <1>0, <2>2, <2>5 DEF Die, Alive
    <3> QED
      BY <2>1, <2>3, <3>1, NothingRuns
  <2>6. CASE p \in Alive /\ req[c].pc = "kill" /\ child[p].ph = "work" /\ Goto(p, "term") /\ UNCHANGED proc
    <3>0. p \in Pid /\ Alive' = Alive
      BY <2>6 DEF Alive
    <3>1. PICK u \in ChildRecord : /\ child' = [child EXCEPT ![p] = u]
                                   /\ u.ph = "term" /\ u.got = FALSE /\ u.snap = NoFile
      BY <1>0, <2>6, <3>0, GotoFacts DEF Phase, Rmw
    <3>2. child'[p] = u
      BY <1>0, <3>0, <3>1
    <3>3. OneAlive' /\ RecordOfRun'
      BY <1>0, <2>1, <2>2, <3>0, <3>1, <3>2 DEF OneAlive, RecordOfRun, Owns
    <3>4. \A d \in Client : Reached(req[d])' /\ Alone(req[d])'
      BY <1>0, <2>1, <2>2, <2>3, <2>6, <3>0, <3>1, <3>2, Untouched DEF Reached, Alone, Acts, Owns
    <3> QED
      BY <3>3, <3>4 DEF RunInv
  <2> QED
    BY <1>15, <2>2, <2>4, <2>5, <2>6 DEF Terminate, Grace
<1>16. CASE StopWrite(c)
  <2>0. Alive = {} /\ proc' = proc
    BY <1>0, <1>16 DEF StopWrite, Stay, Alone
  <2> DEFINE v == [req[c] EXCEPT !.pc = "load", !.then = "idle"]
  <2>1. v.pc = "load" /\ req' = [req EXCEPT ![c] = v]
    BY <1>0, <1>16 DEF StopWrite, Request
  <2> HIDE DEF v
  <2> QED
    BY <1>1, <2>0, <2>1
<1> QED
  BY <1>4, <1>5, <1>6, <1>7, <1>8, <1>9, <1>10, <1>11, <1>12, <1>13, <1>14, <1>15, <1>16 DEF Handle

(* The run script.  Its process is the only one alive, and no handler is   *)
(* past its tests.                                                         *)
LEMMA ScriptKeepsRun ==
    ASSUME RunInv, Orderly, NEW p \in Pid, ChildStep(p), LifeInv', Calm'
    PROVE  RunInv'
<1>0. /\ LifeInv /\ child \in [Pid -> ChildRecord] /\ child[p] \in ChildRecord
      /\ proc \in [Pid -> {"unborn", "alive", "zombie", "gone"}]
      /\ OneAlive /\ RecordOfRun
  BY LifeTypes DEF RunInv
<1>1. Alive = {p} /\ req' = req
  BY <1>0 DEF ChildStep, ChildRead, ChildWrite, Isolate, Raise, Exit, Finish, server, OneAlive
<1>2. /\ Named(file, p) /\ (child[p].got => Named(child[p].snap, p))
      /\ child[p].ph \in {"work", "final", "done", "bench", "term"} => Owns(p)
      /\ child[p].ph = "work" => file.status \in Active
  BY <1>0, <1>1 DEF RecordOfRun
<1>3. \A c \in Client :
         /\ Acts(req[c]) => Owns(p) /\ child[p].ph \notin {"start", "isolate", "stamp"}
         /\ req[c].pc \notin {"obit", "gate", "archive", "queue", "spawn", "reread", "stopWrite"}
         /\ ~(req[c].then = "gate" /\ req[c].pc \in {"load", "check"})
         /\ Reached(req[c]) /\ Alone(req[c])
  BY <1>1 DEF RunInv, Reached, Alone
(* What is left to show of a step after which p is still alive.            *)
<1>4. ASSUME NEW u, child' = [child EXCEPT ![p] = u], proc' = proc,
             Named(file', p), u.got => Named(u.snap, p),
             u.ph \in {"work", "final", "done", "bench", "term"}
                => file'.pid = p /\ (u.got => u.snap.pid = p),
             u.ph = "work" => file'.status \in Active,
             \A c \in Client : Acts(req[c]) => /\ file'.pid = p /\ (u.got => u.snap.pid = p)
                                               /\ u.ph \notin {"start", "isolate", "stamp"}
      PROVE  RunInv'
  <2>1. Alive' = {p} /\ child'[p] = u
    BY <1>0, <1>1, <1>4 DEF Alive
  <2>2. OneAlive' /\ RecordOfRun'
    BY <1>4, <2>1 DEF OneAlive, RecordOfRun, Owns, Named
  <2>3. \A c \in Client : Reached(req[c])' /\ Alone(req[c])'
    BY <1>1, <1>3, <1>4, <2>1 DEF Reached, Alone, Owns, Acts, Named
  <2> QED
    BY <2>2, <2>3 DEF RunInv
<1>5. CASE ChildRead(p)
  <2> DEFINE u == [child[p] EXCEPT !.got = TRUE, !.snap = file]
  <2>1. u.ph = child[p].ph /\ u.snap = file /\ child' = [child EXCEPT ![p] = u] /\ UNCHANGED <<file, proc>>
    BY <1>0, <1>5 DEF ChildRead, ChildRecord
  <2> HIDE DEF u
  <2> QED
    BY <1>2, <1>3, <1>4, <2>1 DEF Owns
<1>6. CASE ChildWrite(p)
  <2>1. child[p].got /\ file' = Written(p) /\ Goto(p, After(child[p].ph)) /\ UNCHANGED <<report, proc>>
    BY <1>6 DEF ChildWrite
  <2>2. child[p].ph \in Rmw /\ After(child[p].ph) \in Phase /\ Written(p) \in Record
    BY <1>0, <2>1, WrittenFacts
  <2>3. PICK u \in ChildRecord : /\ child' = [child EXCEPT ![p] = u]
                                 /\ u.ph = After(child[p].ph) /\ u.got = FALSE /\ u.snap = NoFile
    BY <1>0, <2>1, <2>2, GotoFacts
  <2>4. Copy(child[p].snap) = child[p].snap
    BY <1>2, <2>1 DEF Copy, Named
  <2> DEFINE was == child[p].snap
             r == Written(p)
  <2>5. was.pid \in {NoPid, p} /\ was.status # "stopped"
    BY <1>2, <2>1 DEF Named
  <2>6. /\ r.pid = IF child[p].ph \in {"stamp", "final", "term"} THEN p ELSE was.pid
        /\ child[p].ph = "stamp" => r.status = "running"
        /\ r.status # "stopped"
    BY <2>2, <2>4, <2>5 DEF Written, Rmw
  <2> HIDE DEF r
  <2>7. Named(r, p)
    BY <2>2, <2>5, <2>6, NoFileAssumption DEF Named, r
  <2>8. Owns(p) => was.pid = p
    BY <2>1 DEF Owns
  <2>9. /\ u.ph \in {"work", "final", "done", "bench", "term"} => r.pid = p
        /\ u.ph = "work" => r.status \in Active
    BY <1>2, <2>2, <2>3, <2>6, <2>8 DEF After, Rmw, Active
  <2>10. \A c \in Client : Acts(req[c]) => r.pid = p /\ u.ph \notin {"start", "isolate", "stamp"}
    BY <1>3, <2>2, <2>3, <2>6, <2>8 DEF After, Rmw
  <2>11. file' = r
    BY <2>1 DEF r
  <2> QED
    BY <1>4, <2>1, <2>3, <2>7, <2>9, <2>10, <2>11
<1>7. CASE Isolate(p)
  <2>1. child[p].ph = "isolate" /\ Goto(p, "stamp") /\ UNCHANGED proc /\ (file' = file \/ file' = Queued)
    BY <1>7 DEF Isolate, Queued
  <2>0. "stamp" \in Phase
    BY DEF Phase, Rmw
  <2>2. PICK u \in ChildRecord : /\ child' = [child EXCEPT ![p] = u]
                                 /\ u.ph = "stamp" /\ u.got = FALSE /\ u.snap = NoFile
    BY <1>0, <2>0, <2>1, GotoFacts
  <2>3. Named(Queued, p)
    BY RecordFacts, NoFileAssumption DEF Named, Queued
  <2>4. Named(file', p)
    BY <1>2, <2>1, <2>3
  <2> QED
    BY <1>3, <1>4, <2>1, <2>2, <2>4
<1>8. ASSUME NEW ok \in BOOLEAN, Finish(p, ok) PROVE RunInv'
  <2> DEFINE u == [child[p] EXCEPT !.ph = "final", !.ok = ok]
  <2>1. /\ u.ph = "final" /\ u.got = child[p].got /\ u.snap = child[p].snap
        /\ child' = [child EXCEPT ![p] = u] /\ UNCHANGED <<file, proc>> /\ child[p].ph = "work"
    BY <1>0, <1>8 DEF Finish, ChildRecord
  <2> HIDE DEF u
  <2> QED
    BY <1>2, <1>3, <1>4, <2>1 DEF Owns
<1>9. CASE Raise(p)
  <2>1. Goto(p, "err") /\ UNCHANGED <<file, proc>>
    BY <1>9 DEF Raise
  <2>0. "err" \in Phase
    BY DEF Phase, Rmw
  <2>2. PICK u \in ChildRecord : /\ child' = [child EXCEPT ![p] = u]
                                 /\ u.ph = "err" /\ u.got = FALSE /\ u.snap = NoFile
    BY <1>0, <2>0, <2>1, GotoFacts
  <2> QED
    BY <1>2, <1>3, <1>4, <2>1, <2>2 DEF Owns
<1>10. CASE Exit(p)
  <2>1. Alive' = {}
    BY <1>0, <1>1, <1>10 DEF Exit, Die, Alive
  <2> QED
    BY <1>1, <1>3, <2>1, NothingRuns
<1> QED
  BY <1>5, <1>6, <1>7, <1>8, <1>9, <1>10 DEF ChildStep

(* A patient client acts on a run that has its pid in the record, and      *)
(* starts one when none is alive.                                          *)
LEMMA SubmitKeepsRun ==
    ASSUME RunInv, Orderly, NEW c \in Client, NEW op \in Ops, Submit(c, op), LifeInv', Calm'
    PROVE  RunInv'
<1> DEFINE x == IF op = "stop" THEN "stopRead" ELSE "load"
           t == CASE op = "start" -> "gate" [] op = "resume" -> "regate" [] OTHER -> "idle"
           v == [Idle EXCEPT !.pc = x, !.op = op, !.then = t]
<1>1. v.pc = x /\ v.then = t /\ req' = [req EXCEPT ![c] = v]
  BY DEF Submit, Idle
<1>2. UNCHANGED <<file, proc, child>> /\ (op # "get" => Settled(op))
  BY DEF Submit, Orderly
<1> HIDE DEF v
<1>3. op = "start" => Alive = {}
  BY <1>2 DEF Settled
<1>4. op \in {"resume", "stop"} => \A p \in Alive : Owns(p) /\ child[p].ph = "work"
  BY <1>2 DEF Settled, RunInv, RecordOfRun
<1>5. Reached(v)
  BY <1>1, <1>4, OpsAssumption DEF Reached, Acts
<1>6. Alone(v)
  BY <1>1, <1>3, OpsAssumption DEF Alone
<1> QED
  BY <1>1, <1>2, <1>5, <1>6, HandlerMoves

(* Every step of an orderly service keeps the record with its run.         *)
LEMMA RunInvStep ==
    ASSUME RunInv, Orderly, [LifeNext]_lifeVars
    PROVE  RunInv'
<1>0. LifeInv' /\ Calm'
  BY LifeInvStep, CalmStep DEF RunInv
<1>1. CASE Restart
  <2>1. Alive' = Alive /\ UNCHANGED <<file, child>>
    BY <1>1, LifeTypes DEF Restart, Alive, RunInv
  <2>2. \A c \in Client : req'[c] = Idle
    BY <1>1 DEF Restart
  <2>3. OneAlive' /\ RecordOfRun'
    BY <2>1 DEF RunInv, OneAlive, RecordOfRun, Owns
  <2>4. \A c \in Client : Reached(req[c])' /\ Alone(req[c])'
    BY <2>1, <2>2, IdleIsFine DEF Reached, Alone, Owns, Acts
  <2> QED
    BY <1>0, <2>3, <2>4 DEF RunInv
<1>2. CASE OtherSpawn \/ UNCHANGED lifeVars
  <2>1. Alive' = Alive /\ UNCHANGED <<file, child, req>>
    BY <1>2, LifeTypes DEF OtherSpawn, Reap, Alive, RunInv, server, lifeVars
  <2>2. OneAlive' /\ RecordOfRun'
    BY <2>1 DEF RunInv, OneAlive, RecordOfRun, Owns
  <2>3. \A c \in Client : Reached(req[c])' /\ Alone(req[c])'
    BY <2>1 DEF RunInv, Reached, Alone, Owns, Acts
  <2> QED
    BY <1>0, <2>2, <2>3 DEF RunInv
<1>3. ~Sweep /\ \A p \in Pid : ~Watch(p)
  BY DEF RunInv, Calm, Orderly, Sweep, SweepRead, SweepCheck, SweepWrite, Watch, WatchRead, WatchWrite,
     WatchEnds
<1> QED
  BY <1>0, <1>1, <1>2, <1>3, HandlerKeepsRun, ScriptKeepsRun, SubmitKeepsRun DEF LifeNext

(* Nothing is alive in the beginning.                                      *)
LEMMA RunInvInit == LifeInit => RunInv
<1> SUFFICES ASSUME LifeInit PROVE RunInv
  OBVIOUS
<1>1. Alive = {} /\ Calm /\ \A c \in Client : req[c] = Idle
  BY IdleFacts DEF LifeInit, Alive, Calm
<1> QED
  BY <1>1, LifeInvInit, IdleIsFine DEF RunInv, OneAlive, RecordOfRun

(* The record stays with its run.                                          *)
LEMMA RunInvHolds == ASSUME Orderly PROVE LifeSpec => []RunInv
  BY RunInvInit, RunInvStep, PTL DEF LifeSpec

(* With requests made one at a time by clients that let a run settle, at   *)
(* most one process works in a directory, for any number of processes,     *)
(* requests, crashes and restarts of the server.                           *)
THEOREM OneRunPerDirectory == ASSUME Orderly PROVE LifeSpec => []SingleRunner
<1>1. RunInv => SingleRunner
  <2> SUFFICES ASSUME RunInv PROVE SingleRunner
    OBVIOUS
  <2>1. CASE Alive = {}
    BY <2>1, FS_EmptySet DEF RunInv, LifeInv, SingleRunner
  <2>2. CASE Alive # {}
    <3> PICK p \in Alive : TRUE
      BY <2>2
    <3>1. Alive = {p}
      BY DEF RunInv, OneAlive
    <3>2. Cardinality(Alive) = 1
      BY <3>1, FS_Singleton
    <3> QED
      BY <3>2 DEF RunInv, LifeInv, SingleRunner
  <2> QED
    BY <2>1, <2>2
<1> QED
  BY <1>1, RunInvHolds, PTL

(* Under the same hypotheses a run at work can be found through the        *)
(* record: stop, resume and the sweeper know it by its pid.                *)
THEOREM RunAtWorkIsNamed == ASSUME Orderly PROVE LifeSpec => []WorkingRunVisible
<1>1. RunInv => WorkingRunVisible
  BY DEF RunInv, RecordOfRun, Named, Owns, WorkingRunVisible
<1> QED
  BY <1>1, RunInvHolds, PTL

(* Under the same hypotheses a record that says stopped is true: no        *)
(* process was left alive, and none writes it later.                       *)
THEOREM StoppedIsStopped == ASSUME Orderly PROVE LifeSpec => []StoppedMeansStopped
<1>1. RunInv => StoppedMeansStopped
  BY DEF RunInv, RecordOfRun, Named, StoppedMeansStopped
<1> QED
  BY <1>1, RunInvHolds, PTL

-----------------------------------------------------------------------------
(* Rubric-driven and hybrid runs.  The type invariant, in groups.          *)
AgentRecord == [ph : {"none", "works", "competes", "failed", "snapped", "merged"}, own : Content,
                files : [RCluster -> Content], cmds : SUBSET (0..MaxCluster)]
DoneRecord == [is : {"none", "ok", "failed"}, own : Content, cmds : SUBSET (0..MaxCluster), old : BOOLEAN]
Grade == [score : Level, weak : SUBSET RCluster, graded : BOOLEAN, leaves : BOOLEAN]
ReportRecord == [by : {"none", "rdr", "rlm", "unscored"}, score : Level]
Keys == (0..(MaxRepairs + MaxRegens)) \X RCluster
Stage == {"new", "dev", "tail", "assemble", "env", "gate", "regen", "experiment", "score", "decide",
          "report", "phase1", "phase2", "repair", "judge", "end", "raised", "down"}

ControlTyped ==
    /\ <<kind, setting>> \in Runs /\ stage \in Stage
    /\ pass \in 0..MaxRepairs /\ regens \in 0..MaxRegens /\ crashes \in 0..MaxCrashes[kind]
    /\ waiting \subseteq RCluster /\ orphan \subseteq RCluster /\ stray \in BOOLEAN
DiskTyped ==
    /\ made \in [RCluster -> Content] /\ code \in [RCluster -> Content]
    /\ commands \subseteq 0..MaxCluster
AgentsTyped == agent \in [RCluster -> AgentRecord] /\ done \in [RCluster -> DoneRecord]
LedgerTyped ==
    /\ ckpt \in [RCluster -> {"none", "ok", "failed"}]
    /\ repaired \subseteq Keys /\ keys \subseteq Keys /\ mended \subseteq Keys /\ again \subseteq Keys
ResultTyped ==
    /\ env \in BOOLEAN /\ exp \in {"none", "empty", "metrics"}
    /\ grade \in Grade /\ final \in ReportRecord /\ saved \in ReportRecord
RubricTyped == ControlTyped /\ DiskTyped /\ AgentsTyped /\ LedgerTyped /\ ResultTyped

(* A batch that has returned has nothing in flight, a cluster is in one    *)
(* batch once, and the first batch of a pass is of Code Development.       *)
OneBatch ==
    /\ stage \notin {"dev", "tail", "regen"} => InFlight = {}
    /\ waiting \cap InFlight = {}
    /\ stage = "dev" => waiting \cup InFlight \subseteq CodeDev

(* Every repair has its checkpoint; those of the passes to come were there *)
(* when the process started, and what the pass has left to repair has not  *)
(* been repaired in it.                                                    *)
RepairsOnce ==
    /\ again = {} /\ mended \subseteq repaired
    /\ stage \notin {"new", "down"} =>
          \A n \in 0..MaxRepairs, c \in RCluster : <<n, c>> \in mended /\ n > pass => <<n, c>> \in keys
    /\ stage \in {"dev", "tail"} /\ pass > 0 =>
          \A c \in waiting \cup InFlight : <<pass, c>> \notin mended
    /\ stage = "dev" /\ pass > 0 =>
          \A c \in Pending(pass) \ CodeDev : <<pass, c>> \notin mended

(* A score above 0 comes from metrics of this process.                     *)
Backed(score) == score > 0 => exp = "metrics"

(* What each stage of the end of a run knows of the two reports.           *)
ReportsKept ==
    /\ stage \in {"decide", "report"} => Backed(grade.score)
    /\ stage = "phase1" => final.by = "rdr" /\ Backed(final.score)
    /\ stage \in {"phase2", "repair", "judge"} => saved.by = "rdr" /\ Backed(saved.score)
    /\ stage = "judge" => final.by \in {"rlm", "unscored"}
    /\ stage = "end" /\ final.by = "rdr" => Backed(final.score)
    /\ stage = "end" /\ saved.by # "none" => final.by \in {"rdr", "rlm"} /\ final.score >= saved.score
    /\ stage \notin {"phase2", "repair", "judge", "end", "raised"} => saved.by = "none"

(* The agents, one at a time.  Contents are those that agents have made ... *)
MadeByAgents ==
    \A c \in RCluster : /\ code[c] <= made[c] /\ agent[c].own <= made[c]
                        /\ \A x \in RCluster : agent[c].files[x] <= made[x]

OneAgent == \A c, d \in InFlight : c = d

(* ... what an agent has in hand, or has seen, is not older than what is   *)
(* on disk of the clusters done, and knows its own commands ...            *)
Listed(c, cmds) == c \in cmds \/ stray

AgentsInStep ==
    \A c \in RCluster :
        /\ agent[c].ph = "works" =>
              agent[c].own <= code[c] /\ (agent[c].own > 0 => Listed(c, commands))
        /\ agent[c].ph = "snapped" =>
              /\ agent[c].own <= agent[c].files[c]
              /\ agent[c].own > 0 => Listed(c, agent[c].cmds)
              /\ \A x \in RCluster : agent[c].files[x] = 0 \/ agent[c].files[x] >= done[x].own

(* ... and neither is what is run and graded.                              *)
DoneOnDisk ==
    /\ stage \notin {"repair", "judge", "end", "raised"} => \A c \in RCluster : code[c] >= done[c].own
    /\ \A c \in RCluster : done[c].own > 0 => Listed(c, done[c].cmds)
    /\ stage \in {"env", "gate", "experiment", "score"} =>
          \A c \in RCluster : done[c].own > 0 => Listed(c, commands)

(* The groups together are the type invariant.                             *)
LEMMA RubricTypes == RubricTyped <=> RubricTypeOK
  BY DEF RubricTyped, RubricTypeOK, ControlTyped, DiskTyped, AgentsTyped, LedgerTyped, ResultTyped,
     AgentRecord, DoneRecord, Grade, ReportRecord, Keys, Stage

(* The values that stand for nothing.                                      *)
LEMMA Blanks ==
    /\ NoAgent \in AgentRecord /\ NoAgent.ph = "none" /\ NoAgent.own = 0
    /\ \A x \in RCluster : NoAgent.files[x] = 0
    /\ NotDone \in DoneRecord /\ NotDone.own = 0
    /\ NoGrade \in Grade /\ NoGrade.score = 0
    /\ NoReport \in ReportRecord /\ NoReport.by = "none"
    /\ RCluster \subseteq 0..MaxCluster /\ 0 \in Content /\ Content \subseteq Nat
    /\ \A x \in {"works", "competes", "failed", "merged"} :
          /\ [NoAgent EXCEPT !.ph = x] \in AgentRecord
          /\ [NoAgent EXCEPT !.ph = x].ph = x /\ [NoAgent EXCEPT !.ph = x].own = 0
          /\ \A y \in RCluster : [NoAgent EXCEPT !.ph = x].files[y] = 0
<1>1. 0 \in Content /\ Content \subseteq Nat /\ RCluster \subseteq 0..MaxCluster /\ 0 \in Level
  BY RubricAssumption DEF Content, RCluster
<1>2. [c \in RCluster |-> 0] \in [RCluster -> Content]
  BY <1>1
<1>3. NoAgent \in AgentRecord /\ NotDone \in DoneRecord
  BY <1>1, <1>2 DEF NoAgent, AgentRecord, NotDone, DoneRecord
<1>4. NoGrade \in Grade /\ NoReport \in ReportRecord
  BY <1>1 DEF NoGrade, Grade, NoReport, ReportRecord
<1>5. ASSUME NEW x \in {"works", "competes", "failed", "merged"}
      PROVE  /\ [NoAgent EXCEPT !.ph = x] \in AgentRecord
             /\ [NoAgent EXCEPT !.ph = x].ph = x /\ [NoAgent EXCEPT !.ph = x].own = 0
             /\ [NoAgent EXCEPT !.ph = x].files = [c \in RCluster |-> 0]
  BY <1>1, <1>2 DEF NoAgent, AgentRecord
<1> QED
  BY <1>1, <1>3, <1>4, <1>5 DEF NoAgent, NotDone, NoGrade, NoReport

(* A new run is well typed.                                                *)
LEMMA RubricTypedInit == RubricInit => RubricTyped
<1> SUFFICES ASSUME RubricInit PROVE RubricTyped
  OBVIOUS
<1>1. kind \in {"rdr", "hybrid"} /\ <<kind, setting>> \in Runs
  BY RubricAssumption DEF RubricInit
<1>2. ControlTyped
  <2>1. MaxCrashes[kind] \in Nat /\ MaxRepairs \in Nat /\ MaxRegens \in Nat
    BY <1>1, RubricAssumption
  <2>2. pass \in 0..MaxRepairs /\ regens \in 0..MaxRegens /\ crashes \in 0..MaxCrashes[kind]
    BY <2>1 DEF RubricInit
  <2>3. stage \in Stage /\ stray \in BOOLEAN /\ waiting = {} /\ orphan = {}
    BY DEF RubricInit, Stage
  <2> QED
    BY <1>1, <2>2, <2>3 DEF ControlTyped
<1>3. DiskTyped /\ AgentsTyped
  BY Blanks DEF RubricInit, DiskTyped, AgentsTyped
<1>4. LedgerTyped /\ ResultTyped
  BY Blanks DEF RubricInit, LedgerTyped, ResultTyped
<1> QED
  BY <1>2, <1>3, <1>4 DEF RubricTyped

(* One cluster's agent changes.                                            *)
LEMMA AgentSet ==
    ASSUME AgentsTyped, NEW c \in RCluster, NEW a, Set(c, a)
    PROVE  /\ agent'[c] = a /\ \A d \in RCluster \ {c} : agent'[d] = agent[d]
           /\ InFlight' = IF a.ph = "none" THEN InFlight \ {c} ELSE InFlight \cup {c}
  BY DEF AgentsTyped, Set, InFlight

(* The first waiting cluster is one of those that wait.                    *)
LEMMA MinWaits ==
    ASSUME ControlTyped, waiting # {}
    PROVE  Min(waiting) \in waiting
<1> DEFINE Less == {ss \in Nat \X Nat : ss[1] < ss[2]}
<1>1. waiting \subseteq Nat
  BY RubricAssumption DEF ControlTyped, RCluster
<1>2. IsWellFoundedOn(Less, Nat)
  BY NatLessThanWellFounded DEF OpToRel
<1> HIDE DEF Less
<1>3. \E n \in waiting : \A m \in waiting : ~(<<m, n>> \in Less)
  BY <1>1, <1>2, WFMin
<1>4. \A m, n \in Nat : m < n => <<m, n>> \in Less
  BY DEF Less
<1>5. PICK n \in waiting : \A m \in waiting : ~(<<m, n>> \in Less)
  BY <1>3
<1>6. ASSUME NEW m \in waiting PROVE n <= m
  <2>1. ~(m < n) /\ m \in Nat /\ n \in Nat
    BY <1>1, <1>4, <1>5
  <2> QED
    BY <2>1
<1> QED
  BY <1>6 DEF Min

(* The threads of the agents.                                              *)
AgentStep(c) ==
    \/ AgentWrites(c) \/ AgentReturns(c) \/ WinnerChosen(c) \/ AgentFails(c) \/ AgentTimesOut(c)
    \/ OrphanWrites(c) \/ OrphanEnds(c) \/ Merge(c)

(* They, and the merge of what they return, leave the batch, the ledger    *)
(* and the results alone.                                                  *)
LEMMA AgentFrame ==
    ASSUME RubricTyped, NEW c \in RCluster, AgentStep(c)
    PROVE  /\ UNCHANGED <<stage, pass, regens, waiting, checkpoints, outcome, fixed>>
           /\ InFlight' = InFlight
<1>1. UNCHANGED <<stage, pass, regens, waiting, checkpoints, outcome, fixed>>
  BY DEF AgentStep, AgentWrites, AgentReturns, WinnerChosen, AgentFails, AgentTimesOut, OrphanWrites,
     OrphanEnds, Merge
<1>2. agent[c] \in AgentRecord
  BY DEF RubricTyped, AgentsTyped
<1>3. ASSUME NEW a, Set(c, a), a.ph # "none", agent[c].ph # "none" PROVE InFlight' = InFlight
  BY <1>3, AgentSet DEF RubricTyped, InFlight
<1>4. CASE AgentWrites(c)
  <2>1. [agent[c] EXCEPT !.own = made[c] + 1].ph = "works"
    BY <1>2, <1>4 DEF AgentWrites, AgentRecord
  <2> QED
    BY <1>3, <1>4, <2>1 DEF AgentWrites
<1>5. CASE AgentReturns(c)
  <2>1. [agent[c] EXCEPT !.ph = "snapped", !.files = code, !.cmds = commands].ph = "snapped"
    BY <1>2 DEF AgentRecord
  <2> QED
    BY <1>3, <1>5, <2>1 DEF AgentReturns
<1>6. CASE WinnerChosen(c)
  BY <1>3, <1>6 DEF WinnerChosen
<1>7. CASE AgentFails(c) \/ AgentTimesOut(c) \/ Merge(c)
  BY <1>3, <1>7, Blanks DEF AgentFails, AgentTimesOut, Merge
<1>8. CASE OrphanWrites(c) \/ OrphanEnds(c)
  BY <1>8 DEF OrphanWrites, OrphanEnds, InFlight
<1> QED
  BY <1>1, <1>4, <1>5, <1>6, <1>7, <1>8 DEF AgentStep

(* The threads of the agents keep the types.                               *)
LEMMA AgentStepTyped ==
    ASSUME RubricTyped, NEW c \in RCluster, AgentStep(c)
    PROVE  RubricTyped'
<1>0. /\ agent \in [RCluster -> AgentRecord] /\ done \in [RCluster -> DoneRecord]
      /\ made \in [RCluster -> Content] /\ code \in [RCluster -> Content] /\ commands \subseteq 0..MaxCluster
      /\ agent[c] \in AgentRecord /\ agent[c].own \in Content /\ agent[c].files \in [RCluster -> Content]
      /\ agent[c].cmds \subseteq 0..MaxCluster
      /\ orphan \subseteq RCluster /\ stray \in BOOLEAN
      /\ c \in 0..MaxCluster
  BY Blanks DEF RubricTyped, ControlTyped, DiskTyped, AgentsTyped, AgentRecord
<1>1. LedgerTyped' /\ ResultTyped'
  BY AgentFrame DEF RubricTyped, LedgerTyped, ResultTyped, checkpoints, outcome, fixed
<1>2. ControlTyped'
  <2>1. orphan' \subseteq RCluster /\ stray' \in BOOLEAN
    BY <1>0 DEF AgentStep, AgentWrites, AgentReturns, WinnerChosen, AgentFails, AgentTimesOut,
       OrphanWrites, OrphanEnds, Merge
  <2> QED
    BY <2>1, AgentFrame DEF RubricTyped, ControlTyped, fixed
<1>3. ASSUME made[c] < MaxWrites PROVE made[c] + 1 \in Content
  BY <1>0, <1>3, RubricAssumption DEF Content
<1>4. CASE AgentWrites(c) \/ OrphanWrites(c)
  <2>1. made[c] + 1 \in Content
    BY <1>3, <1>4 DEF AgentWrites, OrphanWrites
  <2>2. DiskTyped'
    BY <1>0, <1>4, <2>1 DEF AgentWrites, OrphanWrites, DiskTyped
  <2>3. [agent[c] EXCEPT !.own = made[c] + 1] \in AgentRecord
    BY <1>0, <2>1 DEF AgentRecord
  <2>4. AgentsTyped'
    BY <1>0, <1>4, <2>3 DEF AgentWrites, OrphanWrites, AgentsTyped, Set
  <2> QED
    BY <1>1, <1>2, <2>2, <2>4 DEF RubricTyped
<1>5. CASE AgentReturns(c)
  <2>1. [agent[c] EXCEPT !.ph = "snapped", !.files = code, !.cmds = commands] \in AgentRecord
    BY <1>0 DEF AgentRecord
  <2>2. AgentsTyped' /\ DiskTyped'
    BY <1>0, <1>5, <2>1 DEF AgentReturns, AgentsTyped, DiskTyped, Set
  <2> QED
    BY <1>1, <1>2, <2>2 DEF RubricTyped
<1>6. CASE WinnerChosen(c)
  <2>1. made[c] + 1 \in Content
    BY <1>3, <1>6 DEF WinnerChosen
  <2>2. [NoAgent.files EXCEPT ![c] = made[c] + 1] \in [RCluster -> Content]
    BY <2>1, Blanks DEF NoAgent
  <2>3. [ph |-> "snapped", own |-> made[c] + 1, cmds |-> {c},
         files |-> [NoAgent.files EXCEPT ![c] = made[c] + 1]] \in AgentRecord
    BY <1>0, <2>1, <2>2 DEF AgentRecord
  <2>4. AgentsTyped' /\ DiskTyped'
    BY <1>0, <1>6, <2>1, <2>3 DEF WinnerChosen, AgentsTyped, DiskTyped, Set
  <2> QED
    BY <1>1, <1>2, <2>4 DEF RubricTyped
<1>7. CASE AgentFails(c) \/ AgentTimesOut(c) \/ OrphanEnds(c)
  <2>1. AgentsTyped' /\ DiskTyped'
    BY <1>0, <1>7, Blanks DEF AgentFails, AgentTimesOut, OrphanEnds, AgentsTyped, DiskTyped, Set
  <2> QED
    BY <1>1, <1>2, <2>1 DEF RubricTyped
<1>8. CASE Merge(c)
  <2>1. /\ [NotDone EXCEPT !.is = "failed"] \in DoneRecord
        /\ [is |-> "ok", own |-> agent[c].own, cmds |-> agent[c].cmds, old |-> FALSE] \in DoneRecord
    BY <1>0, Blanks DEF NotDone, DoneRecord
  <2>2. AgentsTyped'
    BY <1>0, <1>8, <2>1, Blanks DEF Merge, AgentsTyped, Set
  <2>3. DiskTyped'
    BY <1>0, <1>8 DEF Merge, DiskTyped
  <2> QED
    BY <1>1, <1>2, <2>2, <2>3 DEF RubricTyped
<1> QED
  BY <1>4, <1>5, <1>6, <1>7, <1>8 DEF AgentStep

(* The controller between batches: no agent, no checkpoint.                *)
Between ==
    \/ Assemble \/ Environment \/ GateScan \/ Experiment \/ Score \/ Decide \/ Report
    \/ Phase1Returns \/ Phase2Starts \/ Phase2Writes \/ Judge

(* The steps of a run, grouped.                                            *)
LEMMA RubricCases ==
    ASSUME RubricNext
    PROVE  \/ \E resume \in BOOLEAN : Begin(resume)
           \/ \E c \in RCluster : AgentStep(c) \/ Checkpoint(c)
           \/ Dispatch \/ BatchReturns \/ Between \/ Crash
  BY DEF RubricNext, Controller, AgentStep, Between

(* Between batches the agents and the ledger stay as they are ...          *)
LEMMA BetweenFrame ==
    ASSUME Between
    PROVE  /\ UNCHANGED <<agent, orphan, stray, made, done, checkpoints, fixed>>
           /\ stage \notin {"new", "dev", "tail", "regen", "down"} /\ stage' \notin {"new", "tail", "down"}
           /\ InFlight' = InFlight
  BY DEF Between, Assemble, Environment, GateScan, Experiment, Score, Decide, Report, Phase1Returns,
     Phase2Starts, Phase2Writes, Judge, Steps, InFlight, dispatch, checkpoints, outcome, fixed

(* ... and every variable keeps its type.                                  *)
LEMMA BetweenTyped ==
    ASSUME RubricTyped, Between
    PROVE  RubricTyped'
<1>0. /\ stage \in Stage /\ pass \in 0..MaxRepairs /\ regens \in 0..MaxRegens
      /\ waiting \subseteq RCluster /\ CodeDev \subseteq RCluster
      /\ done \in [RCluster -> DoneRecord]
      /\ code \in [RCluster -> Content] /\ commands \subseteq 0..MaxCluster
      /\ env \in BOOLEAN /\ exp \in {"none", "empty", "metrics"}
      /\ grade \in Grade /\ grade.score \in Level /\ grade.weak \subseteq RCluster
      /\ final \in ReportRecord /\ saved \in ReportRecord
      /\ MaxRepairs \in Nat /\ MaxRegens \in Nat /\ MaxCluster \in Nat
      /\ 0 \in Level /\ Level \subseteq Nat
  BY RubricAssumption DEF RubricTyped, ControlTyped, DiskTyped, AgentsTyped, ResultTyped, Grade
<1>1. AgentsTyped' /\ LedgerTyped' /\ made' = made
  BY BetweenFrame DEF RubricTyped, AgentsTyped, LedgerTyped, checkpoints, fixed
<1>2. stage' \in Stage
  BY DEF Between, Assemble, Environment, GateScan, Experiment, Score, Decide, Report, Phase1Returns,
     Phase2Starts, Phase2Writes, Judge, Steps, Stage
<1>3. pass' \in 0..MaxRepairs /\ regens' \in 0..MaxRegens
  <2>1. ASSUME pass < MaxRepairs PROVE pass + 1 \in 0..MaxRepairs
    BY <1>0, <2>1
  <2>2. ASSUME regens < MaxRegens PROVE regens + 1 \in 0..MaxRegens
    BY <1>0, <2>2
  <2> QED
    BY <1>0, <2>1, <2>2 DEF Between, Assemble, Environment, GateScan, Experiment, Score, Decide, Report,
       Phase1Returns, Phase2Starts, Phase2Writes, Judge
<1>4. waiting' \subseteq RCluster
  BY <1>0 DEF Between, Assemble, Environment, GateScan, Experiment, Score, Decide, Report, Phase1Returns,
     Phase2Starts, Phase2Writes, Judge, dispatch
<1>5. ControlTyped'
  BY <1>2, <1>3, <1>4, BetweenFrame DEF RubricTyped, ControlTyped, fixed
<1>6. commands' \subseteq 0..MaxCluster
  <2>1. UNION {done[c].cmds : c \in RCluster} \subseteq 0..MaxCluster
    BY <1>0 DEF DoneRecord
  <2> QED
    BY <1>0, <2>1 DEF Between, Assemble, Environment, GateScan, Experiment, Score, Decide, Report,
       Phase1Returns, Phase2Starts, Phase2Writes, Judge, dispatch
<1>7. code' \in [RCluster -> Content]
  BY <1>0, Blanks DEF Between, Assemble, Environment, GateScan, Experiment, Score, Decide, Report,
     Phase1Returns, Phase2Starts, Phase2Writes, Judge, dispatch
<1>8. DiskTyped'
  BY <1>1, <1>6, <1>7 DEF RubricTyped, DiskTyped
<1>9. env' \in BOOLEAN /\ exp' \in {"none", "empty", "metrics"}
  BY <1>0 DEF Between, Assemble, Environment, GateScan, Experiment, Score, Decide, Report, Phase1Returns,
     Phase2Starts, Phase2Writes, Judge, outcome
<1>10. grade' \in Grade
  <2>1. CASE Score
    <3>1. [NoGrade EXCEPT !.leaves = TRUE] \in Grade
      BY <1>0 DEF NoGrade, Grade
    <3>2. \A s \in Level, w \in SUBSET RCluster :
             [score |-> s, weak |-> w, graded |-> TRUE, leaves |-> TRUE] \in Grade
      BY DEF Grade
    <3> QED
      BY <2>1, <3>1, <3>2, Blanks DEF Score
  <2> QED
    BY <1>0, <2>1 DEF Between, Assemble, Environment, GateScan, Experiment, Decide, Report, Phase1Returns,
       Phase2Starts, Phase2Writes, Judge, outcome
<1>11. final' \in ReportRecord /\ saved' \in ReportRecord
  <2>1. \A s \in Level, b \in {"rdr", "rlm", "unscored"} : [by |-> b, score |-> s] \in ReportRecord
    BY DEF ReportRecord
  <2> QED
    BY <1>0, <2>1, Blanks DEF Between, Assemble, Environment, GateScan, Experiment, Score, Decide, Report,
       Phase1Returns, Phase2Starts, Phase2Writes, Judge, outcome
<1> QED
  BY <1>1, <1>5, <1>8, <1>9, <1>10, <1>11 DEF RubricTyped, ResultTyped

(* Every step keeps the types.                                             *)
LEMMA RubricTypedStep ==
    ASSUME RubricTyped, [RubricNext]_rubricVars
    PROVE  RubricTyped'
<1>0. /\ ControlTyped /\ DiskTyped /\ AgentsTyped /\ LedgerTyped /\ ResultTyped
      /\ kind \in {"rdr", "hybrid"} /\ MaxCrashes[kind] \in Nat /\ MaxRepairs \in Nat /\ MaxRegens \in Nat
      /\ CodeDev \subseteq RCluster
  BY RubricAssumption DEF RubricTyped, ControlTyped
<1>1. ASSUME NEW resume \in BOOLEAN, Begin(resume) PROVE RubricTyped'
  <2>1. done' \in [RCluster -> DoneRecord]
    <3>1. \A x \in {"none", "ok", "failed"} : [NotDone EXCEPT !.is = x, !.old = TRUE] \in DoneRecord
      BY Blanks DEF NotDone, DoneRecord
    <3> QED
      BY <1>0, <1>1, <3>1, Blanks DEF Begin, Hydrated, LedgerTyped
  <2>2. AgentsTyped' /\ DiskTyped'
    BY <1>0, <1>1, <2>1 DEF Begin, AgentsTyped, DiskTyped
  <2>3. LedgerTyped'
    BY <1>0, <1>1 DEF Begin, LedgerTyped
  <2>4. ResultTyped'
    BY <1>0, <1>1, Blanks DEF Begin, ResultTyped
  <2>5. pass' \in 0..MaxRepairs /\ regens' \in 0..MaxRegens /\ stage' \in Stage /\ waiting' \subseteq RCluster
    BY <1>0, <1>1 DEF Begin, Stage
  <2>6. ControlTyped'
    BY <1>0, <1>1, <2>5 DEF Begin, ControlTyped
  <2> QED
    BY <2>2, <2>3, <2>4, <2>6 DEF RubricTyped
<1>2. ASSUME NEW c \in RCluster, Checkpoint(c) PROVE RubricTyped'
  <2>1. AgentsTyped'
    BY <1>0, <1>2, Blanks DEF Checkpoint, AgentsTyped, Set
  <2>2. ControlTyped' /\ DiskTyped' /\ ResultTyped'
    BY <1>0, <1>2 DEF Checkpoint, ControlTyped, DiskTyped, ResultTyped, outcome, fixed
  <2>3. <<RepairKey, c>> \in Keys /\ <<pass, c>> \in Keys
    BY <1>0 DEF RepairKey, ControlTyped, Keys
  <2>4. done[c].is \in {"none", "ok", "failed"}
    BY <1>0 DEF AgentsTyped, DoneRecord
  <2>5. LedgerTyped'
    BY <1>0, <1>2, <2>3, <2>4 DEF Checkpoint, LedgerTyped, fixed
  <2> QED
    BY <2>1, <2>2, <2>5 DEF RubricTyped
<1>3. CASE Dispatch
  <2> DEFINE c == Min(waiting)
  <2>1. c \in waiting /\ c \in RCluster
    BY <1>0, <1>3, MinWaits DEF Dispatch, ControlTyped
  <2>2. AgentsTyped'
    BY <1>0, <1>3, <2>1, Blanks DEF Dispatch, AgentsTyped, Set
  <2>3. ControlTyped'
    BY <1>0, <1>3 DEF Dispatch, ControlTyped, fixed
  <2>4. DiskTyped' /\ LedgerTyped' /\ ResultTyped'
    BY <1>0, <1>3 DEF Dispatch, DiskTyped, LedgerTyped, ResultTyped, checkpoints, outcome, fixed
  <2> QED
    BY <2>2, <2>3, <2>4 DEF RubricTyped
<1>4. CASE BatchReturns
  <2>0. grade.weak \subseteq RCluster
    BY <1>0 DEF ResultTyped, Grade
  <2>1. ControlTyped'
    BY <1>0, <1>4, <2>0 DEF BatchReturns, ControlTyped, Steps, fixed, Pending, Stage
  <2>2. DiskTyped' /\ AgentsTyped' /\ LedgerTyped' /\ ResultTyped'
    BY <1>0, <1>4 DEF BatchReturns, DiskTyped, AgentsTyped, LedgerTyped, ResultTyped, checkpoints, outcome,
       Steps, fixed
  <2> QED
    BY <2>1, <2>2 DEF RubricTyped
<1>5. CASE Crash
  <2>1. pass' \in 0..MaxRepairs /\ regens' \in 0..MaxRegens /\ stage' \in Stage
    BY <1>0, <1>5 DEF Crash, Stage
  <2>2. crashes' \in 0..MaxCrashes[kind']
    BY <1>0, <1>5 DEF Crash, ControlTyped
  <2>3. ControlTyped'
    BY <1>0, <1>5, <2>1, <2>2 DEF Crash, ControlTyped
  <2>4. DiskTyped' /\ AgentsTyped' /\ LedgerTyped'
    BY <1>0, <1>5, Blanks DEF Crash, DiskTyped, AgentsTyped, LedgerTyped, checkpoints
  <2>5. ResultTyped'
    BY <1>0, <1>5, Blanks DEF Crash, ResultTyped
  <2> QED
    BY <2>3, <2>4, <2>5 DEF RubricTyped
<1>6. CASE UNCHANGED rubricVars
  BY <1>0, <1>6 DEF rubricVars, RubricTyped, ControlTyped, DiskTyped, AgentsTyped, LedgerTyped, ResultTyped
<1> QED
  BY <1>1, <1>2, <1>3, <1>4, <1>5, <1>6, RubricCases, AgentStepTyped, BetweenTyped

(* Batches do not overlap: a batch returns when nothing is in flight.      *)
LEMMA OneBatchStep ==
    ASSUME RubricTyped, OneBatch, [RubricNext]_rubricVars
    PROVE  OneBatch'
<1>0. ControlTyped /\ AgentsTyped
  BY DEF RubricTyped
<1>1. ASSUME NEW resume \in BOOLEAN, Begin(resume) PROVE OneBatch'
  BY <1>1 DEF Begin, OneBatch, InFlight
<1>2. ASSUME NEW c \in RCluster, Checkpoint(c) PROVE OneBatch'
  <2>1. InFlight' = InFlight \ {c} /\ UNCHANGED <<stage, waiting>>
    BY <1>0, <1>2, AgentSet, Blanks DEF Checkpoint
  <2> QED
    BY <2>1 DEF OneBatch
<1>3. CASE Dispatch
  <2> DEFINE c == Min(waiting)
             x == IF setting = "candidates" /\ stage = "dev" /\ pass = 0 THEN "competes" ELSE "works"
             a == [NoAgent EXCEPT !.ph = x]
  <2>1. c \in waiting /\ c \in RCluster
    BY <1>0, <1>3, MinWaits DEF Dispatch, ControlTyped
  <2>2. Set(c, a) /\ waiting' = waiting \ {c} /\ stage' = stage /\ stage \in {"dev", "tail", "regen"}
    BY <1>3 DEF Dispatch
  <2>3. a.ph # "none"
    BY Blanks
  <2> HIDE DEF a, c
  <2>4. InFlight' = InFlight \cup {c}
    BY <1>0, <2>1, <2>2, <2>3, AgentSet
  <2> QED
    BY <2>1, <2>2, <2>4 DEF OneBatch
<1>4. CASE BatchReturns
  BY <1>4 DEF BatchReturns, OneBatch, InFlight, Steps
<1>5. CASE Between
  <2>1. InFlight = {} /\ InFlight' = {}
    BY <1>5, BetweenFrame DEF OneBatch
  <2>2. stage' = "dev" => waiting' \subseteq CodeDev
    BY <1>5 DEF Between, Assemble, Environment, GateScan, Experiment, Score, Decide, Report, Phase1Returns,
       Phase2Starts, Phase2Writes, Judge, Steps
  <2> QED
    BY <2>1, <2>2 DEF OneBatch
<1>6. CASE Crash
  <2>1. InFlight' = {} /\ waiting' = {}
    BY <1>6, Blanks DEF Crash, InFlight
  <2> QED
    BY <2>1 DEF OneBatch
<1>7. ASSUME NEW c \in RCluster, AgentStep(c) PROVE OneBatch'
  BY <1>7, AgentFrame DEF OneBatch
<1>8. CASE UNCHANGED rubricVars
  BY <1>8 DEF rubricVars, OneBatch, InFlight
<1> QED
  BY <1>1, <1>2, <1>3, <1>4, <1>5, <1>6, <1>7, <1>8, RubricCases

(* A pass repairs what has no checkpoint of it, and each cluster once.     *)
LEMMA RepairsOnceStep ==
    ASSUME RubricTyped, OneBatch, RepairsOnce, [RubricNext]_rubricVars
    PROVE  RepairsOnce'
<1>0. /\ ControlTyped /\ AgentsTyped /\ LedgerTyped
      /\ pass \in 0..MaxRepairs /\ MaxRepairs \in Nat /\ mended \subseteq Keys
      /\ grade.weak \subseteq RCluster
  BY RubricAssumption DEF RubricTyped, ControlTyped, LedgerTyped, ResultTyped, Grade
<1>1. ASSUME NEW resume \in BOOLEAN, Begin(resume) PROVE RepairsOnce'
  BY <1>1 DEF Begin, RepairsOnce
<1>2. ASSUME NEW c \in RCluster, Checkpoint(c) PROVE RepairsOnce'
  <2>1. InFlight' = InFlight \ {c} /\ UNCHANGED <<stage, pass, waiting, keys, grade>> /\ c \in InFlight
    BY <1>0, <1>2, AgentSet, Blanks DEF Checkpoint, InFlight, outcome, fixed
  <2>2. CASE stage = "regen" \/ pass = 0
    <3>1. UNCHANGED <<mended, again>> /\ repaired \subseteq repaired'
      BY <1>2, <2>2 DEF Checkpoint
    <3> QED
      BY <2>1, <2>2, <3>1 DEF RepairsOnce, Pending
  <2>3. CASE stage # "regen" /\ pass > 0
    <3>1. stage \in {"dev", "tail"} /\ <<pass, c>> \notin mended /\ c \notin waiting
      BY <2>1, <2>3 DEF OneBatch, RepairsOnce
    <3>2. /\ mended' = mended \cup {<<pass, c>>} /\ repaired' = repaired \cup {<<pass, c>>}
          /\ again' = again \cup (mended \cap {<<pass, c>>})
      BY <1>0, <1>2, <2>3 DEF Checkpoint, RepairKey
    <3>3. again' = {} /\ mended' \subseteq repaired'
      BY <3>1, <3>2 DEF RepairsOnce
    <3>4. \A n \in 0..MaxRepairs, d \in RCluster : <<n, d>> \in mended' /\ n > pass => <<n, d>> \in keys
      BY <1>0, <3>1, <3>2 DEF RepairsOnce
    <3>5. \A d \in waiting' \cup InFlight' : <<pass, d>> \notin mended'
      BY <2>1, <2>3, <3>1, <3>2 DEF RepairsOnce
    <3>6. stage = "dev" => \A d \in Pending(pass) \ CodeDev : <<pass, d>> \notin mended'
      BY <2>1, <2>3, <3>2 DEF RepairsOnce, OneBatch
    <3> QED
      BY <2>1, <3>3, <3>4, <3>5, <3>6 DEF RepairsOnce, Pending
  <2> QED
    BY <1>0, <2>2, <2>3
<1>3. CASE Dispatch
  <2> DEFINE c == Min(waiting)
             x == IF setting = "candidates" /\ stage = "dev" /\ pass = 0 THEN "competes" ELSE "works"
             a == [NoAgent EXCEPT !.ph = x]
  <2>1. c \in waiting /\ c \in RCluster
    BY <1>0, <1>3, MinWaits DEF Dispatch, ControlTyped
  <2>2. /\ Set(c, a) /\ waiting' = waiting \ {c}
        /\ UNCHANGED <<stage, pass, mended, again, repaired, keys, grade>>
    BY <1>3 DEF Dispatch, checkpoints, outcome, fixed
  <2>3. a.ph # "none"
    BY Blanks
  <2> HIDE DEF a, c
  <2>4. InFlight' = InFlight \cup {c}
    BY <1>0, <2>1, <2>2, <2>3, AgentSet
  <2> QED
    BY <2>1, <2>2, <2>4 DEF RepairsOnce, Pending
<1>4. CASE BatchReturns
  <2>1. /\ InFlight' = {} /\ UNCHANGED <<pass, mended, again, repaired, keys, grade>>
        /\ stage' \in {"tail", "assemble"}
        /\ stage' = "tail" /\ pass > 0 => stage = "dev" /\ waiting' = Pending(pass) \ CodeDev
        /\ stage \in {"dev", "tail", "regen"}
    BY <1>0, <1>4 DEF BatchReturns, InFlight, Steps, checkpoints, outcome, fixed
  <2> QED
    BY <2>1 DEF RepairsOnce
<1>5. CASE Between
  <2>1. InFlight' = {} /\ UNCHANGED <<mended, again, repaired, keys>>
        /\ stage \notin {"new", "dev", "tail", "regen", "down"} /\ stage' \notin {"new", "tail", "down"}
    BY <1>5, BetweenFrame DEF OneBatch, checkpoints, fixed
  <2>2. CASE Decide /\ stage' = "dev"
    <3>1. /\ pass' = pass + 1 /\ pass < MaxRepairs /\ waiting' = Pending(pass + 1) \cap CodeDev /\ grade' = grade
      BY <2>2 DEF Decide, Steps, outcome
    <3>2. pass + 1 \in 0..MaxRepairs /\ pass + 1 > pass
      BY <1>0, <3>1
    <3>3. \A d \in RCluster : <<pass + 1, d>> \in mended => <<pass + 1, d>> \in keys
      BY <2>1, <3>2 DEF RepairsOnce
    <3>4. \A d \in Pending(pass + 1) : <<pass + 1, d>> \notin mended
      BY <1>0, <3>3 DEF Pending
    <3>5. \A n \in 0..MaxRepairs, d \in RCluster : <<n, d>> \in mended /\ n > pass + 1 => <<n, d>> \in keys
      BY <1>0, <2>1 DEF RepairsOnce
    <3>6. Pending(pass)' = Pending(pass + 1)
      BY <2>1, <3>1 DEF Pending
    <3> QED
      BY <2>1, <3>1, <3>4, <3>5, <3>6 DEF RepairsOnce
  <2>3. CASE ~(Decide /\ stage' = "dev")
    <3>1. stage' # "dev" /\ pass' = pass
      BY <1>5, <2>3 DEF Between, Assemble, Environment, GateScan, Experiment, Score, Decide, Report,
         Phase1Returns, Phase2Starts, Phase2Writes, Judge, Steps
    <3> QED
      BY <2>1, <3>1 DEF RepairsOnce
  <2> QED
    BY <2>2, <2>3
<1>6. CASE Crash
  BY <1>6 DEF Crash, checkpoints, RepairsOnce
<1>7. ASSUME NEW c \in RCluster, AgentStep(c) PROVE RepairsOnce'
  BY <1>7, AgentFrame DEF RepairsOnce, Pending, checkpoints, outcome, fixed
<1>8. CASE UNCHANGED rubricVars
  BY <1>8 DEF rubricVars, RepairsOnce, InFlight, Pending
<1> QED
  BY <1>1, <1>2, <1>3, <1>4, <1>5, <1>6, <1>7, <1>8, RubricCases

(* The end of a run keeps its reports apart and its scores backed.         *)
LEMMA ReportsKeptStep ==
    ASSUME RubricTyped, ReportsKept, [RubricNext]_rubricVars
    PROVE  ReportsKept'
<1>0. /\ grade \in Grade /\ final \in ReportRecord /\ saved \in ReportRecord
      /\ final.score \in Nat /\ saved.score \in Nat
  BY RubricAssumption DEF RubricTyped, ResultTyped, ReportRecord
<1>1. ASSUME NEW resume \in BOOLEAN, Begin(resume) PROVE ReportsKept'
  BY <1>1, Blanks DEF Begin, ReportsKept
<1>2. CASE (\E c \in RCluster : AgentStep(c) \/ Checkpoint(c)) \/ Dispatch
  <2>1. UNCHANGED <<stage, outcome>>
    BY <1>2, AgentFrame DEF Checkpoint, Dispatch
  <2> QED
    BY <2>1 DEF ReportsKept, Backed, outcome
<1>3. CASE BatchReturns
  BY <1>3 DEF BatchReturns, Steps, ReportsKept, outcome
<1>4. CASE Assemble \/ Environment \/ GateScan \/ Experiment \/ Decide
  <2>1. UNCHANGED <<grade, saved>> /\ stage' \in {"experiment", "gate", "env", "regen", "score", "dev", "report"}
    BY <1>4 DEF Assemble, Environment, GateScan, Experiment, Decide, Steps, outcome
  <2>2. stage' = "report" => stage = "decide" /\ exp' = exp
    BY <1>4 DEF Assemble, Environment, GateScan, Experiment, Decide, Steps, outcome
  <2>3. stage \notin {"phase2", "repair", "judge", "end", "raised"}
    BY <1>4 DEF Assemble, Environment, GateScan, Experiment, Decide
  <2> QED
    BY <2>1, <2>2, <2>3 DEF ReportsKept, Backed
<1>5. CASE Score
  <2>1. stage' = "decide" /\ UNCHANGED <<exp, final, saved>> /\ stage = "score"
    BY <1>5 DEF Score, Steps
  <2>2. grade'.score > 0 => exp = "metrics"
    BY <1>5, Blanks DEF Score, Metrics, NoGrade
  <2> QED
    BY <2>1, <2>2 DEF ReportsKept, Backed
<1>6. CASE Report
  <2>1. /\ stage = "report" /\ stage' \in {"phase1", "end"} /\ UNCHANGED <<exp, grade, saved>>
        /\ final'.by = "rdr" /\ final'.score = grade.score
    BY <1>6 DEF Report, Steps
  <2> QED
    BY <2>1 DEF ReportsKept, Backed
<1>7. CASE Phase1Returns
  <2>1. /\ stage = "phase1" /\ UNCHANGED <<exp, grade, final>>
        /\ \/ stage' = "end" /\ saved' = saved
           \/ stage' = "phase2" /\ saved' = final
    BY <1>7 DEF Phase1Returns, Steps
  <2> QED
    BY <2>1 DEF ReportsKept, Backed
<1>8. CASE Phase2Starts
  BY <1>8 DEF Phase2Starts, Steps, ReportsKept, Backed
<1>9. CASE Phase2Writes
  <2>1. stage = "repair" /\ stage' \in {"judge", "raised"} /\ UNCHANGED <<exp, grade, saved>>
    BY <1>9 DEF Phase2Writes
  <2>2. final'.by \in {"rlm", "unscored"}
    BY <1>9 DEF Phase2Writes
  <2> QED
    BY <2>1, <2>2 DEF ReportsKept, Backed
<1>10. CASE Judge
  <2>1. /\ stage = "judge" /\ stage' = "end" /\ UNCHANGED <<exp, grade, saved>>
        /\ final' = IF final.by = "unscored" \/ saved.score > final.score THEN saved ELSE final
    BY <1>10 DEF Judge, Steps
  <2>2. saved.by = "rdr" /\ Backed(saved.score) /\ final.by \in {"rlm", "unscored"}
    BY <2>1 DEF ReportsKept
  <2>3. final'.by \in {"rdr", "rlm"} /\ final'.score >= saved.score /\ (final'.by = "rdr" => final' = saved)
    BY <1>0, <2>1, <2>2
  <2> QED
    BY <2>1, <2>2, <2>3 DEF ReportsKept, Backed
<1>11. CASE Crash
  BY <1>11, Blanks DEF Crash, ReportsKept
<1>12. CASE UNCHANGED rubricVars
  BY <1>12 DEF rubricVars, ReportsKept, Backed
<1> QED
  BY <1>1, <1>2, <1>3, <1>4, <1>5, <1>6, <1>7, <1>8, <1>9, <1>10, <1>11, <1>12, RubricCases DEF Between

(* What every step of a rubric-driven run keeps.                           *)
RubricInv == RubricTyped /\ OneBatch /\ RepairsOnce /\ ReportsKept

(* It does hold throughout.                                                *)
LEMMA RubricInvHolds == RubricSpec => []RubricInv
<1>1. RubricInit => RubricInv
  <2> SUFFICES ASSUME RubricInit PROVE RubricInv
    OBVIOUS
  <2>1. InFlight = {}
    BY Blanks DEF RubricInit, InFlight
  <2>2. OneBatch /\ RepairsOnce /\ ReportsKept
    BY <2>1, Blanks DEF RubricInit, OneBatch, RepairsOnce, ReportsKept
  <2> QED
    BY <2>2, RubricTypedInit DEF RubricInv
<1>2. RubricInv /\ [RubricNext]_rubricVars => RubricInv'
  BY RubricTypedStep, OneBatchStep, RepairsOnceStep, ReportsKeptStep DEF RubricInv
<1> QED
  BY <1>1, <1>2, PTL DEF RubricSpec

(* Through any number of crashes and resumes no cluster is repaired twice  *)
(* in one pass, and no report of this controller has a score above 0       *)
(* without metrics of its own process.                                     *)
THEOREM EachRepairOnce == RubricSpec => []RepairsNotRepeated
<1>1. RubricInv => RepairsNotRepeated
  BY RubricTypes DEF RubricInv, RepairsOnce, ReportsKept, Backed, RepairsNotRepeated
<1> QED
  BY <1>1, RubricInvHolds, PTL

(* A hybrid run that returns leaves the better of its two reports, and     *)
(* never one without a score.                                              *)
THEOREM BetterPhaseShips == RubricSpec => []BestPhaseShipped
<1>1. RubricInv => BestPhaseShipped
  BY DEF RubricInv, ReportsKept, BestPhaseShipped
<1> QED
  BY <1>1, RubricInvHolds, PTL

(* One agent at a time: with an agent in flight there is no other, and     *)
(* nothing is in flight when one is dispatched.                            *)
LEMMA OneAgentStep ==
    ASSUME RubricTyped, OneBatch, OneAgent, Concurrency = 1, [RubricNext]_rubricVars
    PROVE  OneAgent'
<1>0. ControlTyped /\ AgentsTyped
  BY DEF RubricTyped
<1>1. CASE Dispatch
  <2> DEFINE c == Min(waiting)
             x == IF setting = "candidates" /\ stage = "dev" /\ pass = 0 THEN "competes" ELSE "works"
             a == [NoAgent EXCEPT !.ph = x]
  <2>1. c \in RCluster
    BY <1>0, <1>1, MinWaits DEF Dispatch, ControlTyped
  <2>2. Set(c, a) /\ Cardinality(InFlight) < 1
    BY <1>1 DEF Dispatch, Limit
  <2>3. a.ph # "none"
    BY Blanks
  <2>4. IsFiniteSet(InFlight)
    <3>1. IsFiniteSet(RCluster)
      BY RubricAssumption, FS_Interval DEF RCluster
    <3> QED
      BY <3>1, FS_Subset DEF InFlight
  <2>5. InFlight = {}
    BY <2>2, <2>4, FS_CardinalityType, FS_EmptySet
  <2> HIDE DEF a, c
  <2>6. InFlight' = {c}
    BY <1>0, <2>1, <2>2, <2>3, <2>5, AgentSet
  <2> QED
    BY <2>6 DEF OneAgent
<1>2. ASSUME NEW c \in RCluster, Checkpoint(c) PROVE OneAgent'
  <2>1. InFlight' = InFlight \ {c}
    BY <1>0, <1>2, AgentSet, Blanks DEF Checkpoint
  <2> QED
    BY <2>1 DEF OneAgent
<1>3. ASSUME NEW c \in RCluster, AgentStep(c) PROVE OneAgent'
  BY <1>3, AgentFrame DEF OneAgent
<1>4. CASE Between
  BY <1>4, BetweenFrame DEF OneAgent
<1>5. CASE Crash
  <2>1. InFlight' = {}
    BY <1>5, Blanks DEF Crash, InFlight
  <2> QED
    BY <2>1 DEF OneAgent
<1>6. CASE BatchReturns \/ UNCHANGED rubricVars \/ \E resume \in BOOLEAN : Begin(resume)
  BY <1>6 DEF BatchReturns, rubricVars, Begin, OneAgent, InFlight
<1> QED
  BY <1>1, <1>2, <1>3, <1>4, <1>5, <1>6, RubricCases

(* The parts of the invariant that say what is on disk.                    *)
OnDisk == MadeByAgents /\ AgentsInStep /\ DoneOnDisk

(* Outside a batch no agent has anything in hand.                          *)
LEMMA NobodyWorks ==
    ASSUME MadeByAgents', DoneOnDisk', InFlight' = {}
    PROVE  OnDisk'
<1>1. \A c \in RCluster : agent'[c].ph = "none"
  BY DEF InFlight
<1> QED
  BY <1>1 DEF OnDisk, AgentsInStep

(* An agent that returns or writes, alone.                                 *)
LEMMA AgentKeepsDisk ==
    ASSUME RubricTyped, OneBatch, OneAgent, OnDisk, NEW c \in RCluster, AgentStep(c), ~Merge(c)
    PROVE  OnDisk'
<1>0. /\ agent \in [RCluster -> AgentRecord] /\ done \in [RCluster -> DoneRecord]
      /\ made \in [RCluster -> Content] /\ code \in [RCluster -> Content]
      /\ agent[c] \in AgentRecord /\ AgentsTyped /\ Content \subseteq Nat
      /\ \A d \in RCluster : /\ done[d].own \in Nat /\ agent[d].own \in Nat /\ code[d] \in Nat /\ made[d] \in Nat
                             /\ \A x \in RCluster : agent[d].files[x] \in Nat
  BY Blanks DEF RubricTyped, DiskTyped, AgentsTyped, AgentRecord, DoneRecord
<1>1. UNCHANGED <<stage, done>>
  BY AgentFrame DEF AgentStep, AgentWrites, AgentReturns, WinnerChosen, AgentFails, AgentTimesOut, OrphanWrites,
     OrphanEnds
<1>2. /\ \A d \in RCluster : code[d] <= made[d] /\ agent[d].own <= made[d]
      /\ \A d, x \in RCluster : agent[d].files[x] <= made[x]
  BY DEF OnDisk, MadeByAgents
<1>3. CASE AgentWrites(c)
  <2> DEFINE a == [agent[c] EXCEPT !.own = made[c] + 1]
  <2>1. /\ a.own = made[c] + 1 /\ a.ph = "works" /\ a.files = agent[c].files /\ Set(c, a)
        /\ agent[c].ph = "works"
    BY <1>0, <1>3 DEF AgentWrites, AgentRecord
  <2>2. /\ made' = [made EXCEPT ![c] = made[c] + 1] /\ code' = [code EXCEPT ![c] = made[c] + 1]
        /\ c \in commands' /\ stray' = stray
    BY <1>3 DEF AgentWrites
  <2> HIDE DEF a
  <2>3. agent'[c] = a /\ \A d \in RCluster \ {c} : agent'[d] = agent[d]
    BY <1>0, <2>1, AgentSet
  <2>4. /\ made'[c] = made[c] + 1 /\ code'[c] = made[c] + 1
        /\ \A d \in RCluster \ {c} : made'[d] = made[d] /\ code'[d] = code[d]
        /\ \A d \in RCluster : made'[d] >= made[d] /\ code'[d] >= code[d] /\ made'[d] \in Nat /\ code'[d] \in Nat
    BY <1>0, <1>2, <2>2
  <2>5. \A d \in RCluster \ {c} : agent[d].ph = "none"
    BY <2>1 DEF OneAgent, InFlight
  <2>6. MadeByAgents'
    BY <1>0, <1>2, <2>1, <2>3, <2>4 DEF MadeByAgents
  <2>7. AgentsInStep'
    BY <1>0, <2>1, <2>2, <2>3, <2>4, <2>5 DEF AgentsInStep, Listed
  <2>8. stage \notin {"env", "gate", "experiment", "score"}
    BY <2>1 DEF OneBatch, InFlight
  <2>9. DoneOnDisk'
    BY <1>0, <1>1, <2>2, <2>4, <2>8 DEF OnDisk, DoneOnDisk, Listed
  <2> QED
    BY <2>6, <2>7, <2>9 DEF OnDisk
<1>4. CASE OrphanWrites(c)
  <2>1. /\ made' = [made EXCEPT ![c] = made[c] + 1] /\ code' = [code EXCEPT ![c] = made[c] + 1]
        /\ stray' = TRUE /\ agent' = agent
    BY <1>4 DEF OrphanWrites
  <2>2. \A d \in RCluster : /\ made'[d] >= made[d] /\ code'[d] >= code[d] /\ code'[d] <= made'[d]
                            /\ made'[d] \in Nat /\ code'[d] \in Nat
    BY <1>0, <1>2, <2>1
  <2>3. MadeByAgents'
    BY <1>0, <1>2, <2>1, <2>2 DEF MadeByAgents
  <2>4. AgentsInStep'
    BY <1>0, <1>1, <2>1, <2>2 DEF OnDisk, AgentsInStep, Listed
  <2>5. DoneOnDisk'
    BY <1>0, <1>1, <2>1, <2>2 DEF OnDisk, DoneOnDisk, Listed
  <2> QED
    BY <2>3, <2>4, <2>5 DEF OnDisk
<1>5. CASE AgentReturns(c)
  <2> DEFINE a == [agent[c] EXCEPT !.ph = "snapped", !.files = code, !.cmds = commands]
  <2>1. /\ a.own = agent[c].own /\ a.ph = "snapped" /\ a.files = code /\ a.cmds = commands /\ Set(c, a)
        /\ agent[c].ph = "works" /\ UNCHANGED <<made, code, commands, stray>>
    BY <1>0, <1>5 DEF AgentReturns, AgentRecord
  <2> HIDE DEF a
  <2>2. agent'[c] = a /\ \A d \in RCluster \ {c} : agent'[d] = agent[d]
    BY <1>0, <2>1, AgentSet
  <2>3. MadeByAgents'
    BY <1>2, <2>1, <2>2 DEF MadeByAgents
  <2>4. stage \in {"dev", "tail", "regen"} /\ \A d \in RCluster \ {c} : agent[d].ph = "none"
    BY <2>1 DEF OneBatch, OneAgent, InFlight
  <2>5. \A x \in RCluster : code[x] >= done[x].own
    BY <2>4 DEF OnDisk, DoneOnDisk
  <2>6. AgentsInStep'
    BY <1>1, <2>1, <2>2, <2>4, <2>5 DEF OnDisk, AgentsInStep, Listed
  <2>7. DoneOnDisk'
    BY <1>1, <2>1 DEF OnDisk, DoneOnDisk, Listed
  <2> QED
    BY <2>3, <2>6, <2>7 DEF OnDisk
<1>6. CASE WinnerChosen(c)
  <2> DEFINE f == [NoAgent.files EXCEPT ![c] = made[c] + 1]
             a == [ph |-> "snapped", own |-> made[c] + 1, cmds |-> {c}, files |-> f]
  <2>1. /\ a.own = made[c] + 1 /\ a.ph = "snapped" /\ a.files = f /\ a.cmds = {c} /\ Set(c, a)
        /\ agent[c].ph = "competes" /\ UNCHANGED <<code, commands, stray>>
        /\ made' = [made EXCEPT ![c] = made[c] + 1]
    BY <1>6 DEF WinnerChosen
  <2>2. f[c] = made[c] + 1 /\ \A x \in RCluster \ {c} : f[x] = 0
    BY DEF NoAgent
  <2> HIDE DEF a, f
  <2>3. agent'[c] = a /\ \A d \in RCluster \ {c} : agent'[d] = agent[d]
    BY <1>0, <2>1, AgentSet
  <2>4. made'[c] = made[c] + 1 /\ \A d \in RCluster : made'[d] >= made[d] /\ made'[d] \in Nat
    BY <1>0, <2>1
  <2>5. MadeByAgents'
    BY <1>0, <1>2, <2>1, <2>2, <2>3, <2>4 DEF MadeByAgents
  <2>6. stage \in {"dev", "tail", "regen"} /\ \A d \in RCluster \ {c} : agent[d].ph = "none"
    BY <2>1 DEF OneBatch, OneAgent, InFlight
  <2>7. \A x \in RCluster : code[x] >= done[x].own
    BY <2>6 DEF OnDisk, DoneOnDisk
  <2>8. \A x \in RCluster : f[x] = 0 \/ f[x] >= done[x].own
    BY <1>0, <1>2, <2>2, <2>7
  <2>9. made[c] + 1 <= f[c]
    BY <1>0, <2>2
  <2>10. AgentsInStep'
    BY <1>1, <2>1, <2>3, <2>6, <2>8, <2>9 DEF AgentsInStep, Listed
  <2>11. DoneOnDisk'
    BY <1>1, <2>1 DEF OnDisk, DoneOnDisk, Listed
  <2> QED
    BY <2>5, <2>10, <2>11 DEF OnDisk
<1>7. CASE AgentFails(c) \/ AgentTimesOut(c)
  <2> DEFINE a == [NoAgent EXCEPT !.ph = "failed"]
  <2>1. /\ a.own = 0 /\ a.ph = "failed" /\ Set(c, a) /\ UNCHANGED <<made, code, commands, stray>>
        /\ \A x \in RCluster : a.files[x] = 0
    BY <1>7, Blanks DEF AgentFails, AgentTimesOut
  <2> HIDE DEF a
  <2>2. agent'[c] = a /\ \A d \in RCluster \ {c} : agent'[d] = agent[d]
    BY <1>0, <2>1, AgentSet
  <2>3. MadeByAgents'
    BY <1>0, <1>2, <2>1, <2>2 DEF MadeByAgents
  <2>4. AgentsInStep'
    BY <1>1, <2>1, <2>2 DEF OnDisk, AgentsInStep, Listed
  <2>5. DoneOnDisk'
    BY <1>1, <2>1 DEF OnDisk, DoneOnDisk, Listed
  <2> QED
    BY <2>3, <2>4, <2>5 DEF OnDisk
<1>8. CASE OrphanEnds(c)
  BY <1>1, <1>8 DEF OrphanEnds, OnDisk, MadeByAgents, AgentsInStep, DoneOnDisk, Listed
<1> QED
  BY <1>3, <1>4, <1>5, <1>6, <1>7, <1>8 DEF AgentStep

(* A snapshot that is written back is no older than what is done.          *)
LEMMA MergeKeepsDisk ==
    ASSUME RubricTyped, OneBatch, OneAgent, OnDisk, NEW c \in RCluster, Merge(c)
    PROVE  OnDisk'
<1>0. /\ agent \in [RCluster -> AgentRecord] /\ done \in [RCluster -> DoneRecord]
      /\ agent[c] \in AgentRecord /\ AgentsTyped
      /\ \A d \in RCluster : /\ done[d].own \in Nat /\ agent[d].own \in Nat /\ code[d] \in Nat /\ made[d] \in Nat
                             /\ \A x \in RCluster : agent[d].files[x] \in Nat
  BY Blanks DEF RubricTyped, DiskTyped, AgentsTyped, AgentRecord, DoneRecord
<1>1. /\ \A d \in RCluster : code[d] <= made[d] /\ agent[d].own <= made[d]
      /\ \A d, x \in RCluster : agent[d].files[x] <= made[x]
  BY DEF OnDisk, MadeByAgents
<1>2. agent[c].ph \in {"snapped", "failed"} /\ UNCHANGED <<stage, stray, made>>
  BY DEF Merge
<1>3. stage \in {"dev", "tail", "regen"} /\ \A d \in RCluster \ {c} : agent[d].ph = "none"
  BY <1>2 DEF OneBatch, OneAgent, InFlight
<1>4. \A x \in RCluster : code[x] >= done[x].own
  BY <1>3 DEF OnDisk, DoneOnDisk
<1>5. /\ agent'[c].ph = "merged" /\ agent'[c].own = 0 /\ \A x \in RCluster : agent'[c].files[x] = 0
      /\ \A d \in RCluster \ {c} : agent'[d] = agent[d]
  BY <1>0, AgentSet, Blanks DEF Merge
<1>6. AgentsInStep'
  BY <1>3, <1>5 DEF AgentsInStep
<1>7. CASE agent[c].ph = "failed"
  <2>1. code' = code /\ done' = [done EXCEPT ![c] = [NotDone EXCEPT !.is = "failed"]]
    BY <1>7 DEF Merge
  <2>2. [NotDone EXCEPT !.is = "failed"].own = 0
    BY DEF NotDone
  <2>3. done'[c].own = 0 /\ \A d \in RCluster \ {c} : done'[d] = done[d]
    BY <1>0, <2>1, <2>2
  <2>4. MadeByAgents'
    BY <1>0, <1>1, <1>2, <1>5, <2>1 DEF MadeByAgents
  <2>5. DoneOnDisk'
    BY <1>0, <1>2, <1>3, <1>4, <2>1, <2>3 DEF OnDisk, DoneOnDisk, Listed
  <2> QED
    BY <1>6, <2>4, <2>5 DEF OnDisk
<1>8. CASE agent[c].ph = "snapped"
  <2> DEFINE r == [is |-> "ok", own |-> agent[c].own, cmds |-> agent[c].cmds, old |-> FALSE]
  <2>1. /\ code' = [x \in RCluster |-> IF agent[c].files[x] = 0 THEN code[x] ELSE agent[c].files[x]]
        /\ done' = [done EXCEPT ![c] = r]
    BY <1>8 DEF Merge
  <2>2. r.own = agent[c].own /\ r.cmds = agent[c].cmds
    OBVIOUS
  <2> HIDE DEF r
  <2>3. done'[c] = r /\ \A d \in RCluster \ {c} : done'[d] = done[d]
    BY <1>0, <2>1
  <2>4. /\ agent[c].own <= agent[c].files[c] /\ (agent[c].own > 0 => Listed(c, agent[c].cmds))
        /\ \A x \in RCluster : agent[c].files[x] = 0 \/ agent[c].files[x] >= done[x].own
    BY <1>8 DEF OnDisk, AgentsInStep
  <2>5. \A x \in RCluster : code'[x] <= made[x] /\ code'[x] >= done'[x].own
    BY <1>0, <1>1, <1>4, <2>1, <2>2, <2>3, <2>4
  <2>6. MadeByAgents'
    BY <1>0, <1>1, <1>2, <1>5, <2>5 DEF MadeByAgents
  <2>7. DoneOnDisk'
    BY <1>2, <1>3, <2>2, <2>3, <2>4, <2>5 DEF OnDisk, DoneOnDisk, Listed
  <2> QED
    BY <1>6, <2>6, <2>7 DEF OnDisk
<1> QED
  BY <1>2, <1>7, <1>8

(* Every step keeps what is done on disk.                                  *)
LEMMA OnDiskStep ==
    ASSUME RubricTyped, OneBatch, OneAgent, OnDisk, [RubricNext]_rubricVars
    PROVE  OnDisk'
<1>0. /\ AgentsTyped /\ ControlTyped /\ done \in [RCluster -> DoneRecord]
      /\ \A d \in RCluster : /\ done[d].own \in Nat /\ agent[d].own \in Nat /\ code[d] \in Nat /\ made[d] \in Nat
                             /\ \A x \in RCluster : agent[d].files[x] \in Nat
  BY Blanks DEF RubricTyped, DiskTyped, AgentsTyped, AgentRecord, DoneRecord
<1>1. ASSUME NEW resume \in BOOLEAN, Begin(resume) PROVE OnDisk'
  <2>1. UNCHANGED <<agent, made, code, commands, stray>> /\ InFlight = {} /\ InFlight' = {} /\ stage' = "dev"
    BY <1>1 DEF Begin, OneBatch, InFlight
  <2>2. \A c \in RCluster : done'[c].own = 0
    BY <1>1 DEF Begin, Hydrated, NotDone
  <2>3. MadeByAgents'
    BY <2>1 DEF OnDisk, MadeByAgents
  <2>4. DoneOnDisk'
    BY <1>0, <2>1, <2>2 DEF DoneOnDisk
  <2> QED
    BY <2>1, <2>3, <2>4, NobodyWorks
<1>2. ASSUME NEW c \in RCluster, NEW a, Set(c, a), a.own = 0, a.ph # "snapped",
             \A x \in RCluster : a.files[x] = 0, UNCHANGED <<stage, stray, made, code, commands, done>>
      PROVE  OnDisk'
  <2>1. agent'[c] = a /\ \A d \in RCluster \ {c} : agent'[d] = agent[d]
    BY <1>0, <1>2, AgentSet
  <2>2. MadeByAgents'
    BY <1>0, <1>2, <2>1 DEF OnDisk, MadeByAgents
  <2>3. AgentsInStep'
    BY <1>0, <1>2, <2>1 DEF OnDisk, AgentsInStep, Listed
  <2>4. DoneOnDisk'
    BY <1>2 DEF OnDisk, DoneOnDisk, Listed
  <2> QED
    BY <2>2, <2>3, <2>4 DEF OnDisk
<1>3. CASE Dispatch
  <2> DEFINE c == Min(waiting)
             x == IF setting = "candidates" /\ stage = "dev" /\ pass = 0 THEN "competes" ELSE "works"
             a == [NoAgent EXCEPT !.ph = x]
  <2>1. c \in RCluster /\ Set(c, a) /\ UNCHANGED <<stage, stray, made, code, commands, done>>
    BY <1>0, <1>3, MinWaits DEF Dispatch, ControlTyped
  <2>2. a.own = 0 /\ a.ph # "snapped" /\ \A y \in RCluster : a.files[y] = 0
    BY Blanks
  <2> HIDE DEF a, c
  <2> QED
    BY <1>2, <2>1, <2>2
<1>4. ASSUME NEW c \in RCluster, Checkpoint(c) PROVE OnDisk'
  BY <1>2, <1>4, Blanks DEF Checkpoint
<1>5. CASE BatchReturns
  <2>1. /\ UNCHANGED <<agent, stray, made, code, commands, done>> /\ stage' \in {"tail", "assemble"}
        /\ stage \in {"dev", "tail", "regen"}
    BY <1>5 DEF BatchReturns, Steps
  <2> QED
    BY <2>1 DEF OnDisk, MadeByAgents, AgentsInStep, DoneOnDisk, Listed
<1>6. CASE Assemble
  <2> DEFINE all == UNION {done[c].cmds : c \in RCluster}
  <2>1. /\ UNCHANGED <<agent, stray, made, code, done>> /\ commands' = (IF all = {} THEN {0} ELSE all)
        /\ stage' \in {"experiment", "gate", "env"} /\ stage = "assemble"
    BY <1>6 DEF Assemble, Steps
  <2>2. \A c \in RCluster : done[c].own > 0 => Listed(c, done[c].cmds)
    BY DEF OnDisk, DoneOnDisk
  <2>3. \A c \in RCluster : done[c].cmds \subseteq all
    OBVIOUS
  <2>4. \A c \in RCluster : done[c].own > 0 => c \in commands' \/ stray
    BY <2>1, <2>2, <2>3 DEF Listed
  <2> HIDE DEF all
  <2>5. DoneOnDisk'
    BY <2>1, <2>4 DEF OnDisk, DoneOnDisk, Listed
  <2>6. MadeByAgents' /\ InFlight' = {}
    BY <1>6, <2>1, BetweenFrame DEF OnDisk, MadeByAgents, OneBatch, Between
  <2> QED
    BY <2>5, <2>6, NobodyWorks
<1>7. CASE Environment \/ GateScan \/ Experiment \/ Score \/ Decide \/ Report \/ Phase1Returns
           \/ Phase2Writes \/ Judge
  <2>1. UNCHANGED <<agent, stray, made, code, commands, done>>
    BY <1>7 DEF Environment, GateScan, Experiment, Score, Decide, Report, Phase1Returns, Phase2Writes, Judge,
       dispatch
  <2>2. /\ stage' \notin {"repair", "judge", "end", "raised"}
             => stage \notin {"repair", "judge", "end", "raised"}
        /\ stage' \in {"env", "gate", "experiment", "score"} => stage \in {"env", "gate", "experiment", "score"}
    BY <1>7 DEF Environment, GateScan, Experiment, Score, Decide, Report, Phase1Returns, Phase2Writes, Judge,
       Steps
  <2> QED
    BY <2>1, <2>2 DEF OnDisk, MadeByAgents, AgentsInStep, DoneOnDisk, Listed
<1>8. CASE Phase2Starts
  <2>1. /\ UNCHANGED <<agent, stray, made, done>> /\ stage' = "repair"
        /\ \A c \in RCluster : code'[c] \in {0, code[c]}
    BY <1>8 DEF Phase2Starts, Steps
  <2>2. MadeByAgents'
    BY <1>0, <2>1 DEF OnDisk, MadeByAgents
  <2>3. DoneOnDisk'
    BY <2>1 DEF OnDisk, DoneOnDisk, Listed
  <2>4. InFlight' = {}
    BY <1>8, BetweenFrame DEF OneBatch, Between
  <2> QED
    BY <2>2, <2>3, <2>4, NobodyWorks
<1>9. CASE Crash
  <2>1. /\ UNCHANGED <<made, code>> /\ stage' = "down" /\ \A c \in RCluster : agent'[c] = NoAgent /\ done'[c] = NotDone
    BY <1>9 DEF Crash
  <2>2. MadeByAgents' /\ InFlight' = {}
    BY <1>0, <2>1, Blanks DEF OnDisk, MadeByAgents, InFlight
  <2>3. DoneOnDisk'
    BY <1>0, <2>1, Blanks DEF DoneOnDisk
  <2> QED
    BY <2>2, <2>3, NobodyWorks
<1>10. CASE UNCHANGED rubricVars
  BY <1>10 DEF rubricVars, OnDisk, MadeByAgents, AgentsInStep, DoneOnDisk, Listed
<1> QED
  BY <1>1, <1>3, <1>4, <1>5, <1>6, <1>7, <1>8, <1>9, <1>10, RubricCases, AgentKeepsDisk, MergeKeepsDisk DEF Between

(* With one agent in flight, what is run and graded of a cluster is no     *)
(* older than what its agent wrote, and its commands are among those run   *)
(* unless an abandoned agent wrote: for every rubric, through timeouts,    *)
(* crashes, resumes, repairs and regenerations.                            *)
THEOREM WorkReachesTheGrader ==
    ASSUME Concurrency = 1
    PROVE  RubricSpec => []WorkKept
<1>1. RubricInit => OneAgent /\ OnDisk
  <2> SUFFICES ASSUME RubricInit PROVE OneAgent /\ OnDisk
    OBVIOUS
  <2>1. InFlight = {} /\ \A c \in RCluster : agent[c] = NoAgent /\ done[c] = NotDone /\ code[c] = 0 /\ made[c] = 0
    BY Blanks DEF RubricInit, InFlight
  <2> QED
    BY <2>1, Blanks DEF RubricInit, OneAgent, OnDisk, MadeByAgents, AgentsInStep, DoneOnDisk
<1>2. RubricInv /\ OneAgent /\ OnDisk /\ [RubricNext]_rubricVars => (OneAgent /\ OnDisk)'
  BY OneAgentStep, OnDiskStep DEF RubricInv
<1>3. OnDisk => WorkKept
  BY DEF OnDisk, DoneOnDisk, Listed, WorkKept
<1> QED
  BY <1>1, <1>2, <1>3, RubricInvHolds, PTL DEF RubricSpec
=============================================================================
