---------------------------- MODULE RunLifecycle ----------------------------
(***************************************************************************)
(* One project directory of the HTTP run service: the status record        *)
(* demo_status.json, the run subprocesses, and everything that reads and   *)
(* writes the record (backend/services/events/live_runs.py,                *)
(* backend/services/events/run_liveness.py, backend/agents/rlm/run.py,     *)
(* backend/services/runs/archive.py and attempt_isolation.py).             *)
(*                                                                         *)
(* No writer takes a lock.  Every writer reads the whole record, changes   *)
(* some fields and replaces the file, so each is modelled as a read step   *)
(* and a later write step from the copy it read.  Of the record only the   *)
(* status and the pid are kept.  Process ids are not reused.               *)
(***************************************************************************)
EXTENDS Naturals, FiniteSets

CONSTANTS
    Pid,            \* the subprocesses the service can spawn
    Client,         \* concurrent HTTP requests
    Ops,            \* the requests clients make
    NoPid,          \* a record without a pid
    NoFile,         \* no demo_status.json
    Patient,        \* clients wait until a live run is settled (see Settled)
    Background,     \* the sweeper thread and the stderr watchdogs run
    MaxRequests,    \* bound: requests submitted
    MaxRestarts     \* bound: times the server dies and comes back

ASSUME OpsAssumption == Ops \subseteq {"get", "start", "resume", "stop"}
ASSUME FlagAssumption == Patient \in BOOLEAN /\ Background \in BOOLEAN
ASSUME BoundAssumption == MaxRequests \in Nat /\ MaxRestarts \in Nat
ASSUME NoPidAssumption == NoPid \notin Pid

VARIABLES
    file,       \* demo_status.json
    report,     \* final_report.json exists
    proc,       \* the OS process table
    child,      \* where each subprocess is in the run script
    adopted,    \* subprocesses whose server died: init reaps them
    req,        \* the handler of each client
    sweep,      \* the liveness sweeper thread
    watch,      \* the stderr watchdog task of each subprocess
    requests, restarts

lifeVars == <<file, report, proc, child, adopted, req, sweep, watch, requests, restarts>>
server == <<req, sweep, watch, requests, restarts>>

Active == {"queued", "running"}
Terminal == {"completed", "failed", "stopped", "interrupted"}
Status == Active \cup Terminal \cup {"none"}
Record == [status : Status, pid : Pid \cup {NoPid}]
File == Record \cup {NoFile}

ASSUME NoFileAssumption == NoFile \notin Record

(* The phases of the run script.  Those in Rmw are one read-modify-write   *)
(* of the record.                                                          *)
Rmw == {"start", "stamp", "final", "done", "bench", "err", "term"}
Phase == Rmw \cup {"isolate", "work", "exit"}

Idle == [pc |-> "idle", op |-> "get", then |-> "idle", snap |-> NoFile, mine |-> NoPid]

LifeTypeOK ==
    /\ file \in File
    /\ report \in BOOLEAN
    /\ proc \in [Pid -> {"unborn", "alive", "zombie", "gone"}]
    /\ child \in [Pid -> [ph : Phase, got : BOOLEAN, snap : File, ok : BOOLEAN]]
    /\ adopted \subseteq Pid
    /\ req \in [Client -> [pc : {"idle", "load", "check", "obit", "regate", "reread", "gate",
                                 "archive", "queue", "spawn", "record", "stopRead", "kill",
                                 "grace", "stopWrite"},
                           op : {"get", "start", "resume", "stop"},
                           then : {"idle", "regate", "gate"},
                           snap : File, mine : Pid \cup {NoPid}]]
    /\ sweep \in [pc : {"idle", "check", "write"}, snap : File]
    /\ watch \in [Pid -> [pc : {"off", "poll", "write"}, snap : File]]
    /\ requests \in 0..MaxRequests
    /\ restarts \in 0..MaxRestarts

-----------------------------------------------------------------------------
(* The operating system.                                                   *)

Alive == {p \in Pid : proc[p] = "alive"}

(* _pid_exists and _pid_alive: os.kill(pid, 0).  It succeeds for a zombie. *)
PidExists(p) == p # NoPid /\ proc[p] # "gone"

(* A dead child of the server stays a zombie: nothing waits for it.  An    *)
(* orphan is reaped by init.                                               *)
Die(p) == proc' = [proc EXCEPT ![p] = IF p \in adopted THEN "gone" ELSE "zombie"]

(* subprocess._cleanup, run by every later Popen of the server, reaps the  *)
(* children whose Popen object has been dropped, that is, whose start has  *)
(* returned.                                                               *)
Dropped == Pid \ {req[c].mine : c \in {d \in Client : req[d].pc = "record"}}
Reap(table) == [p \in Pid |-> IF table[p] = "zombie" /\ p \in Dropped THEN "gone" ELSE table[p]]

(* Another run is started in another directory by the same server.         *)
OtherSpawn ==
    /\ Reap(proc) # proc
    /\ proc' = Reap(proc)
    /\ UNCHANGED <<file, report, child, adopted, server>>

-----------------------------------------------------------------------------
(* The run script of _python_script, mode rlm-pure: write_status("running"), *)
(* run_pipeline_rlm (isolate the prior attempt, stamp the pid, work,       *)
(* finalize), write_status("completed"), finalize_benchmark, os._exit.     *)

Copy(f) == IF f = NoFile THEN [status |-> "none", pid |-> NoPid] ELSE f

(* Mutant: run.py does not stamp its pid.                                  *)
WrittenNoStamp(p) ==
    LET was == Copy(child[p].snap) IN
    [status |-> IF child[p].ph \in {"start", "stamp"} THEN "running" ELSE "failed",
     pid |-> was.pid]

(* A write of the script replaces the file by the copy it read with a new  *)
(* status, and in run.py with its own pid.                                 *)
Written(p) ==
    LET was == Copy(child[p].snap)
        ph  == child[p].ph IN
    [status |-> CASE ph \in {"start", "stamp"} -> "running"
                  [] ph = "final" -> IF child[p].ok THEN "completed" ELSE "failed"
                  [] ph = "done" -> "completed"
                  [] ph = "bench" -> was.status
                  [] ph \in {"err", "term"} -> "failed",
     pid |-> IF ph \in {"stamp", "final", "term"} THEN p ELSE was.pid]

After(ph) ==
    CASE ph = "start" -> "isolate"
      [] ph = "stamp" -> "work"
      [] ph = "final" -> "done"
      [] ph = "done"  -> "bench"
      [] ph \in {"bench", "err", "term"} -> "exit"

(* Go to phase ph, having read nothing yet.                                *)
Goto(p, ph) == child' = [child EXCEPT ![p].ph = ph, ![p].got = FALSE, ![p].snap = NoFile]

(* The SIGTERM finalizer ships its report before it touches the status.    *)
ChildRead(p) ==
    /\ p \in Alive /\ child[p].ph \in Rmw /\ ~child[p].got
    /\ child' = [child EXCEPT ![p].got = TRUE, ![p].snap = file]
    /\ report' = (report \/ child[p].ph = "term")
    /\ UNCHANGED <<file, proc, adopted, server>>

ChildWrite(p) ==
    /\ p \in Alive /\ child[p].got
    /\ file' = Written(p)
    /\ Goto(p, After(child[p].ph))
    /\ UNCHANGED <<report, proc, adopted, server>>

(* The handlers of clients C that may hold .archive.lock; the archivers    *)
(* skip a directory whose lock is taken.                                   *)
Archiving(C) == \E c \in C : req[c].pc = "archive"

(* maybe_archive_prior_attempt: with a report of an earlier attempt in the *)
(* directory, move it away and write a fresh record without a pid.         *)
Isolate(p) ==
    /\ p \in Alive /\ child[p].ph = "isolate"
    /\ \/ /\ report
          /\ file' = [status |-> "queued", pid |-> NoPid]
          /\ report' = FALSE
       \/ /\ ~report \/ Archiving(Client)
          /\ UNCHANGED <<file, report>>
    /\ Goto(p, "stamp")
    /\ UNCHANGED <<proc, adopted, server>>

(* rlm.completion returned or raised; both reach _finalize, which writes   *)
(* the report and then the status.                                         *)
Finish(p, ok) ==
    /\ p \in Alive /\ child[p].ph = "work"
    /\ report' = TRUE
    /\ child' = [child EXCEPT ![p].ph = "final", ![p].ok = ok]
    /\ UNCHANGED <<file, proc, adopted, server>>

(* An exception outside the caught part of the pipeline.                   *)
Raise(p) ==
    /\ p \in Alive /\ child[p].ph \in {"isolate", "work"}
    /\ Goto(p, "err")
    /\ UNCHANGED <<file, report, proc, adopted, server>>

(* os._exit at the end, or a crash (OOM, SIGKILL) at any point.            *)
Exit(p) ==
    /\ p \in Alive
    /\ Die(p)
    /\ Goto(p, "exit")
    /\ UNCHANGED <<file, report, adopted, server>>

-----------------------------------------------------------------------------
(* HTTP handlers.                                                          *)

Stay == UNCHANGED <<proc, child, adopted, sweep, watch, requests, restarts>>

Step(c, pc) == req' = [req EXCEPT ![c].pc = pc]
Done(c) == req' = [req EXCEPT ![c] = Idle]
Continue(c, pc) == IF pc = "idle" THEN Done(c) ELSE Step(c, pc)

(* A patient client stops or resumes a run only once it has stamped its    *)
(* pid and before it begins to finish, and starts one only when no run is  *)
(* alive.                                                                  *)
Settled(op) ==
    IF op = "start" THEN Alive = {} ELSE \A p \in Alive : child[p].ph = "work"

Submit(c, op) ==
    /\ req[c].pc = "idle" /\ requests < MaxRequests
    /\ Patient /\ op # "get" => Settled(op)
    /\ req' = [req EXCEPT ![c] = [Idle EXCEPT
                  !.pc = IF op = "stop" THEN "stopRead" ELSE "load",
                  !.op = op,
                  !.then = CASE op = "start" -> "gate" [] op = "resume" -> "regate"
                             [] OTHER -> "idle"]]
    /\ requests' = requests + 1
    /\ UNCHANGED <<file, report, proc, child, adopted, sweep, watch, restarts>>

(* _load_run: read, probe the pid, record a dead run as failed.            *)
LoadRead(c) ==
    /\ req[c].pc = "load"
    /\ req' = [req EXCEPT ![c].pc = "check", ![c].snap = file]
    /\ UNCHANGED <<file, report>> /\ Stay

(* The record names a process and the process does not exist.              *)
Lost(r) == r # NoFile /\ r.status \in Active /\ r.pid # NoPid /\ ~PidExists(r.pid)

LoadCheck(c) ==
    /\ req[c].pc = "check"
    /\ IF Lost(req[c].snap)
       THEN req' = [req EXCEPT ![c].pc = "obit", ![c].snap = [@ EXCEPT !.status = "failed"]]
       ELSE Continue(c, req[c].then)
    /\ UNCHANGED <<file, report>> /\ Stay

LoadWrite(c) ==
    /\ req[c].pc = "obit"
    /\ file' = req[c].snap
    /\ Continue(c, req[c].then)
    /\ UNCHANGED report /\ Stay

(* Mutant: resume_run without its liveness test.                           *)
ResumeGateOpen(c) ==
    /\ req[c].pc = "regate"
    /\ IF req[c].snap = NoFile THEN Done(c) ELSE Step(c, "reread")
    /\ UNCHANGED <<file, report>> /\ Stay

(* resume_run: no such run, or its process still exists.                   *)
ResumeGate(c) ==
    /\ req[c].pc = "regate"
    /\ IF req[c].snap = NoFile \/ PidExists(req[c].snap.pid)
       THEN Done(c) ELSE Step(c, "reread")
    /\ UNCHANGED <<file, report>> /\ Stay

(* resume_run reads the record again for the configuration to run with,    *)
(* and enters _start_python_run, which loads the run once more.            *)
ResumeReread(c) ==
    /\ req[c].pc = "reread"
    /\ IF file = NoFile THEN Done(c)
       ELSE req' = [req EXCEPT ![c].pc = "load", ![c].then = "gate"]
    /\ UNCHANGED <<file, report>> /\ Stay

(* _start_python_run: an active run with an existing process is returned.  *)
StartGate(c) ==
    /\ req[c].pc = "gate"
    /\ LET s == req[c].snap IN
       IF s # NoFile /\ s.status \in Active /\ PidExists(s.pid) THEN Done(c)
       ELSE Step(c, IF req[c].op = "start" THEN "archive" ELSE "queue")
    /\ UNCHANGED <<file, report>> /\ Stay

(* archive_run_artifacts moves the record away with the prior attempt,     *)
(* which it knows by its report or by the events of any run before.        *)
Archive(c) ==
    /\ req[c].pc = "archive"
    /\ \/ /\ report \/ \E p \in Pid : proc[p] # "unborn"
          /\ file' = NoFile
          /\ report' = FALSE
       \/ /\ ~report \/ Archiving(Client \ {c})
          /\ UNCHANGED <<file, report>>
    /\ Step(c, "queue") /\ Stay

WriteQueued(c) ==
    /\ req[c].pc = "queue"
    /\ file' = [status |-> "queued", pid |-> NoPid]
    /\ Step(c, "spawn")
    /\ UNCHANGED report /\ Stay

Spawn(c, p) ==
    /\ req[c].pc = "spawn" /\ proc[p] = "unborn"
    /\ proc' = [Reap(proc) EXCEPT ![p] = "alive"]
    /\ req' = [req EXCEPT ![c].pc = "record", ![c].mine = p]
    /\ UNCHANGED <<file, report, child, adopted, sweep, watch, requests, restarts>>

(* Preparing the source, or Popen, raises: the request fails and whatever  *)
(* it has written stays.                                                   *)
StartFails(c) ==
    /\ req[c].pc \in {"queue", "spawn"}
    /\ Done(c)
    /\ UNCHANGED <<file, report>> /\ Stay

(* The record again, now with the pid, from the memory of the handler; the *)
(* watchdog task is created and the run is loaded for the answer.          *)
RecordPid(c) ==
    /\ req[c].pc = "record"
    /\ file' = [status |-> "queued", pid |-> req[c].mine]
    /\ watch' = [watch EXCEPT ![req[c].mine].pc = IF Background THEN "poll" ELSE "off"]
    /\ req' = [req EXCEPT ![c].pc = "load", ![c].then = "idle", ![c].mine = NoPid]
    /\ UNCHANGED <<report, proc, child, adopted, sweep, requests, restarts>>

StopRead(c) ==
    /\ req[c].pc = "stopRead"
    /\ IF file = NoFile THEN Done(c)
       ELSE req' = [req EXCEPT ![c].snap = file,
                        ![c].pc = IF file.pid = NoPid THEN "stopWrite" ELSE "kill"]
    /\ UNCHANGED <<file, report>> /\ Stay

(* _terminate_pid: SIGTERM runs the finalizer of a working run and kills   *)
(* any other process ...                                                   *)
Terminate(c) ==
    LET p == req[c].snap.pid IN
    /\ req[c].pc = "kill"
    /\ CASE p \in Alive /\ child[p].ph = "work" -> Goto(p, "term") /\ UNCHANGED proc
         [] p \in Alive /\ child[p].ph # "work" -> Goto(p, "exit") /\ Die(p)
         [] OTHER -> UNCHANGED <<child, proc>>
    /\ Step(c, "grace")
    /\ UNCHANGED <<file, report, adopted, sweep, watch, requests, restarts>>

(* Mutant: no SIGKILL after the grace period.                              *)
GraceNoKill(c) ==
    /\ req[c].pc = "grace"
    /\ Step(c, "stopWrite")
    /\ UNCHANGED <<file, report>> /\ Stay

(* ... and SIGKILL follows if it outlives the grace period.                *)
Grace(c) ==
    LET p == req[c].snap.pid IN
    /\ req[c].pc = "grace"
    /\ IF p \in Alive THEN Die(p) /\ Goto(p, "exit") ELSE UNCHANGED <<proc, child>>
    /\ Step(c, "stopWrite")
    /\ UNCHANGED <<file, report, adopted, sweep, watch, requests, restarts>>

StopWrite(c) ==
    /\ req[c].pc = "stopWrite"
    /\ file' = [req[c].snap EXCEPT !.status = "stopped"]
    /\ req' = [req EXCEPT ![c].pc = "load", ![c].then = "idle"]
    /\ UNCHANGED report /\ Stay

-----------------------------------------------------------------------------
(* The background threads of the server.                                   *)

SweepIdle == [pc |-> "idle", snap |-> NoFile]

(* Mutant: only queued runs are swept.                                     *)
SweepReadQueued ==
    /\ Background /\ sweep.pc = "idle"
    /\ file # NoFile
    /\ file.status = "queued" /\ file.pid # NoPid
    /\ sweep' = [pc |-> "check", snap |-> file]
    /\ UNCHANGED <<file, report, proc, child, adopted, req, watch, requests, restarts>>

(* sweep_orphaned_runs.  The staleness test is an age.  The cost thread of *)
(* a run refreshes the record every 30 s, which can put the sweep off for  *)
(* as long as the process lives and no longer: any age is possible here,   *)
(* and the record of a dead process does become old.                       *)
SweepRead ==
    /\ Background /\ sweep.pc = "idle"
    /\ file # NoFile
    /\ file.status = "running" /\ file.pid # NoPid
    /\ sweep' = [pc |-> "check", snap |-> file]
    /\ UNCHANGED <<file, report, proc, child, adopted, req, watch, requests, restarts>>

(* Mutant: the probe is skipped.                                           *)
SweepCheckBlind ==
    /\ sweep.pc = "check"
    /\ sweep' = [sweep EXCEPT !.pc = "write"]
    /\ UNCHANGED <<file, report, proc, child, adopted, req, watch, requests, restarts>>

SweepCheck ==
    /\ sweep.pc = "check"
    /\ sweep' = IF PidExists(sweep.snap.pid) THEN SweepIdle ELSE [sweep EXCEPT !.pc = "write"]
    /\ UNCHANGED <<file, report, proc, child, adopted, req, watch, requests, restarts>>

(* The status, then a salvaged report if there is none.                    *)
SweepWrite ==
    /\ sweep.pc = "write"
    /\ file' = [sweep.snap EXCEPT !.status = "interrupted"]
    /\ report' = TRUE
    /\ sweep' = SweepIdle
    /\ UNCHANGED <<proc, child, adopted, req, watch, requests, restarts>>

(* _stderr_watchdog: flags a degraded run once, by a read and a write.     *)
WatchRead(p) ==
    /\ watch[p].pc = "poll" /\ PidExists(p)
    /\ watch' = [watch EXCEPT ![p] = [pc |-> "write", snap |-> file]]
    /\ UNCHANGED <<file, report, proc, child, adopted, req, sweep, requests, restarts>>

WatchWrite(p) ==
    /\ watch[p].pc = "write"
    /\ file' = Copy(watch[p].snap)
    /\ watch' = [watch EXCEPT ![p] = [pc |-> "off", snap |-> NoFile]]
    /\ UNCHANGED <<report, proc, child, adopted, req, sweep, requests, restarts>>

WatchEnds(p) ==
    /\ watch[p].pc = "poll" /\ ~PidExists(p)
    /\ watch' = [watch EXCEPT ![p].pc = "off"]
    /\ UNCHANGED <<file, report, proc, child, adopted, req, sweep, requests, restarts>>

(* The server dies with its handlers and threads; its children live on as  *)
(* orphans, and init reaps the dead ones.                                  *)
Restart ==
    /\ restarts < MaxRestarts
    /\ restarts' = restarts + 1
    /\ req' = [c \in Client |-> Idle]
    /\ sweep' = SweepIdle
    /\ watch' = [p \in Pid |-> [pc |-> "off", snap |-> NoFile]]
    /\ proc' = [p \in Pid |-> IF proc[p] = "zombie" THEN "gone" ELSE proc[p]]
    /\ adopted' = Alive
    /\ UNCHANGED <<file, report, child, requests>>

-----------------------------------------------------------------------------
LifeInit ==
    /\ file = NoFile
    /\ report = FALSE
    /\ proc = [p \in Pid |-> "unborn"]
    /\ child = [p \in Pid |-> [ph |-> "start", got |-> FALSE, snap |-> NoFile, ok |-> TRUE]]
    /\ adopted = {}
    /\ req = [c \in Client |-> Idle]
    /\ sweep = SweepIdle
    /\ watch = [p \in Pid |-> [pc |-> "off", snap |-> NoFile]]
    /\ requests = 0
    /\ restarts = 0

ChildStep(p) ==
    \/ ChildRead(p) \/ ChildWrite(p) \/ Isolate(p) \/ Raise(p) \/ Exit(p)
    \/ \E ok \in BOOLEAN : Finish(p, ok)

Handle(c) ==
    \/ LoadRead(c) \/ LoadCheck(c) \/ LoadWrite(c)
    \/ ResumeGate(c) \/ ResumeReread(c) \/ StartGate(c)
    \/ Archive(c) \/ WriteQueued(c) \/ StartFails(c) \/ RecordPid(c)
    \/ \E p \in Pid : Spawn(c, p)
    \/ StopRead(c) \/ Terminate(c) \/ Grace(c) \/ StopWrite(c)

Sweep == SweepRead \/ SweepCheck \/ SweepWrite
Watch(p) == WatchRead(p) \/ WatchWrite(p) \/ WatchEnds(p)

LifeNext ==
    \/ \E c \in Client, op \in Ops : Submit(c, op)
    \/ \E c \in Client : Handle(c)
    \/ \E p \in Pid : ChildStep(p) \/ Watch(p)
    \/ Sweep \/ OtherSpawn \/ Restart

(* Handlers and threads of a live server run; so do subprocesses, which    *)
(* always end (rlm.completion is under a wall-clock watchdog).  Nothing    *)
(* forces a request, a restart, a crash or the start of another run.       *)
LifeFairness ==
    /\ \A c \in Client : WF_lifeVars(Handle(c))
    /\ \A p \in Pid : WF_lifeVars(ChildStep(p)) /\ WF_lifeVars(Watch(p))
    /\ WF_lifeVars(Sweep)

LifeSpec == LifeInit /\ [][LifeNext]_lifeVars
LifeFairSpec == LifeSpec /\ LifeFairness
-----------------------------------------------------------------------------
(* What the record promises to clients.                                    *)

Quiet == \A c \in Client : req[c].pc = "idle"

(* At most one subprocess of a project is alive: two would share the       *)
(* directory, the record and the budget.  _start_python_run and resume_run *)
(* guard it with _pid_exists on the pid in the record.  The state is       *)
(* well-formed throughout.                                                 *)
SingleRunner == LifeTypeOK /\ Cardinality(Alive) <= 1

(* Between requests a run at work is the run the record describes: active, *)
(* and with its own pid.  Stop, resume and the sweeper can reach a run     *)
(* only through that pid.                                                  *)
WorkingRunVisible ==
    \A p \in Alive :
        Quiet /\ child[p].ph = "work"
            => file # NoFile /\ file.status \in Active /\ file.pid = p

(* Between requests, a record that says stopped means that nothing runs:   *)
(* stop_run terminates the process before it writes.                       *)
StoppedMeansStopped ==
    Quiet /\ file # NoFile /\ file.status = "stopped" => Alive = {}

(* The sweeper never declares a live run interrupted, whatever else writes *)
(* the record: an interrupted record always carries the pid of a process   *)
(* that is dead.                                                           *)
NoFalseObituary ==
    file # NoFile /\ file.status = "interrupted" => file.pid \notin Alive

(* A run whose process is gone does not stay "running": the sweeper (or a  *)
(* GET) replaces the record, or something newer already has.               *)
LostRunReported ==
    \A p \in Pid :
        (proc[p] = "gone" /\ file = [status |-> "running", pid |-> p])
            ~> (file # [status |-> "running", pid |-> p])
=============================================================================
