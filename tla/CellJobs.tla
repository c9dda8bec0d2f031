------------------------------ MODULE CellJobs ------------------------------
(***************************************************************************)
(* The same grid of cells on a cluster: run_matrix of k8s_job_cell_runner  *)
(* submits one Job per cell, watches it, escalates a cell that ran out of  *)
(* memory to a bigger SKU within the run's budget, and skips a cell that a *)
(* manifest or the object store says is done.  The pods run the cell       *)
(* entrypoint, which uploads metrics and a status.json; spot nodes preempt *)
(* them.  The cluster's Job controller is external: it reschedules a       *)
(* preempted pod backoffLimit times and removes a finished Job after its   *)
(* ttl.  The orchestrator may die and be started again; its Jobs go on.    *)
(***************************************************************************)
EXTENDS Naturals, FiniteSets

CONSTANTS
    JCell,           \* the cells of cells.json
    Parallel,        \* threads of run_matrix
    MaxSkuSteps,  \* dynamic_gpu_max_escalations, or the ladder's length
    Backoff,         \* backoffLimit
    Cap,             \* max_run_gpu_usd, in units of one attempt on the first SKU
    Stable,          \* OPENRESEARCH_STABLE_RUN_ID
    LongId,          \* the project id fills the 16 characters a Job name keeps
    MaxCalls         \* bound: calls of run_matrix

ASSUME JobAssumption ==
    /\ IsFiniteSet(JCell)
    /\ {Parallel, MaxSkuSteps, Backoff, Cap, MaxCalls} \subseteq Nat
    /\ Stable \in BOOLEAN /\ LongId \in BOOLEAN

VARIABLES
    jphase,    \* of the orchestrator: idle, running, over, down
    calls,     \* calls of run_matrix so far
    arm,       \* OPENRESEARCH_RESUME_CELLS
    settled,      \* the cells whose manifest authorises a skip (should_skip_cell)
    untaken,      \* cells no thread has taken
    at,        \* per cell, where its thread is
    rungs,       \* per cell, escalation_count
    answer,    \* per cell, its result
    reserved,  \* reserved_gpu_usd
    jobs,      \* the Jobs of the namespace, by name
    blob,      \* per cell, status.json: ok with metrics, oom, or anything else (none)
    local,     \* per cell, does cell_manifest.json say ok for its fingerprint
    bill,      \* history: what the Jobs of this call can cost
    exited     \* history: cells a pod of this call ended with exit code 0

jvars == <<jphase, calls, arm, settled, untaken, at, rungs, answer, reserved, jobs,
           blob, local, bill, exited>>

JobName == JCell \X (0 .. MaxCalls) \X (0 .. MaxSkuSteps)
NoJob == [pod |-> "absent", failed |-> 0, cond |-> "", exit |-> "none", call |-> 0]
CellAnswers == {"ok", "skipped", "oom_failed", "error", "timeout", "budget", "submission"}

JobTypeOK ==
    /\ jphase \in {"idle", "running", "over", "down"} /\ calls \in 0 .. MaxCalls
    /\ arm \in BOOLEAN
    /\ settled \subseteq JCell /\ untaken \subseteq JCell
    /\ at \in [JCell -> {"rest", "submit", "watch"}]
    /\ rungs \in [JCell -> 0 .. MaxSkuSteps]
    /\ answer \in [JCell -> CellAnswers \cup {"none"}]
    /\ reserved \in Nat /\ bill \in Nat /\ exited \subseteq JCell
    /\ jobs \in [JobName -> [pod: {"absent", "up", "gone"},
                             failed: 0 .. Backoff + 1, cond: {"", "Complete", "Failed"},
                             exit: {"none", "zero", "oom", "error", "preempted"},
                             call: 0 .. MaxCalls]]
    /\ blob \in [JCell -> {"none", "ok", "oom"}]
    /\ local \in [JCell -> BOOLEAN]

(***************************************************************************)
(* Pure parts.                                                             *)
(***************************************************************************)
\* _job_name keeps 16 characters of the run id.  The project id comes first:
\* a long one pushes out the random suffix of the call and the escalation's.
NameOf(c) ==
    IF LongId THEN <<c, 0, 0>> ELSE <<c, IF Stable THEN 0 ELSE calls, rungs[c]>>

Cost(e) == e + 1

\* _check_budget: an attempt that lands on the cap is refused.
Fits(e) == reserved + Cost(e) < Cap

\* The object store is asked when the manifest does not answer: an ok
\* status.json counts only with metrics to go with it.
Skips(c) == arm /\ (c \in settled \/ blob[c] = "ok")

(***************************************************************************)
(* run_matrix and its threads.                                             *)
(***************************************************************************)
\* Without a stable run id the output directory and the prefix are new.
CallGrid(resume, forced) ==
    /\ jphase # "running" /\ calls < MaxCalls
    /\ jphase' = "running" /\ calls' = calls + 1
    /\ arm' = resume
    /\ settled' = {c \in JCell : resume /\ Stable /\ c \notin forced /\ local[c]}
    /\ untaken' = JCell
    /\ at' = [c \in JCell |-> "rest"] /\ rungs' = [c \in JCell |-> 0]
    /\ answer' = [c \in JCell |-> "none"]
    /\ reserved' = 0 /\ bill' = 0 /\ exited' = {}
    /\ blob' = IF Stable THEN blob ELSE [c \in JCell |-> "none"]
    /\ local' = IF Stable THEN local ELSE [c \in JCell |-> FALSE]
    /\ UNCHANGED jobs

\* No client of the cluster, or the code does not upload: no Job is made.
CallRefused ==
    /\ jphase = "running" /\ untaken = JCell
    /\ jphase' = "over" /\ untaken' = {}
    /\ answer' = [c \in JCell |-> "error"]
    /\ UNCHANGED <<calls, arm, settled, at, rungs, reserved, jobs, blob, exited, local, bill>>

callArgs == <<jphase, calls, arm, settled>>
clusterVars == <<jobs, blob, exited>>

ThreadFree == Cardinality({c \in JCell : at[c] # "rest"}) < Parallel

Taken(c) == /\ jphase = "running" /\ c \in untaken /\ ThreadFree
            /\ untaken' = untaken \ {c}

Answered(c, result) == answer' = [answer EXCEPT ![c] = result]

SkipDone(c) ==
    /\ Taken(c) /\ Skips(c)
    /\ Answered(c, "skipped")
    /\ UNCHANGED <<callArgs, at, rungs, reserved, clusterVars, local, bill>>

\* The overall deadline has passed, or the cell does not fit the budget.
RefuseCell(c) ==
    /\ Taken(c) /\ ~Skips(c)
    /\ \/ Answered(c, "timeout")
       \/ ~Fits(0) /\ Answered(c, "budget")
    /\ UNCHANGED <<callArgs, at, rungs, reserved, clusterVars, local, bill>>

Admit(c) ==
    /\ Taken(c) /\ ~Skips(c) /\ Fits(0)
    /\ reserved' = reserved + Cost(0)
    /\ at' = [at EXCEPT ![c] = "submit"]
    /\ UNCHANGED <<callArgs, rungs, answer, clusterVars, local, bill>>

\* What a runner that took an existing Job for its own would do.
SubmitJobAttaches(c) ==
    /\ jphase = "running" /\ at[c] = "submit"
    /\ at' = [at EXCEPT ![c] = "watch"]
    /\ jobs' = IF jobs[NameOf(c)].pod # "absent" THEN jobs
               ELSE [jobs EXCEPT ![NameOf(c)] = [NoJob EXCEPT !.pod = "up", !.call = calls]]
    /\ bill' = bill + Cost(rungs[c])
    /\ UNCHANGED <<callArgs, untaken, rungs, answer, reserved, blob, exited, local>>

\* create_namespaced_job: a name that exists is refused with 409.
SubmitJob(c) ==
    /\ jphase = "running" /\ at[c] = "submit"
    /\ jobs[NameOf(c)].pod = "absent"
    /\ at' = [at EXCEPT ![c] = "watch"]
    /\ jobs' = [jobs EXCEPT ![NameOf(c)] = [NoJob EXCEPT !.pod = "up", !.call = calls]]
    /\ bill' = bill + Cost(rungs[c])
    /\ UNCHANGED <<callArgs, untaken, rungs, answer, reserved, blob, exited, local>>

NameTaken(c) ==
    /\ jphase = "running" /\ at[c] = "submit"
    /\ jobs[NameOf(c)].pod # "absent"
    /\ at' = [at EXCEPT ![c] = "rest"]
    /\ Answered(c, "submission")
    /\ UNCHANGED <<callArgs, untaken, rungs, reserved, clusterVars, local, bill>>

\* The watch is over with a result: write_cell_manifest, then escalate or not.
Settles(c, result) ==
    /\ local' = [local EXCEPT ![c] = result = "ok"]
    /\ at' = [at EXCEPT ![c] = "rest"]
    /\ Answered(c, result)
    /\ UNCHANGED <<callArgs, untaken, rungs, reserved, clusterVars, bill>>

Watches(c) == jphase = "running" /\ at[c] = "watch"
JobOf(c) == jobs[NameOf(c)]

SeesComplete(c) ==
    /\ Watches(c) /\ JobOf(c).cond = "Complete"
    /\ Settles(c, "ok")

JobOverImpatient(c) == JobOf(c).cond = "Failed" \/ (JobOf(c).pod = "gone" /\ JobOf(c).failed > 0)

\* The Failed condition, or counters that say the retries are spent.
JobOver(c) == JobOf(c).cond = "Failed" \/ (JobOf(c).pod = "gone" /\ JobOf(c).failed > Backoff)

\* _map_status: the exit code of the last pod, or the store's status.json
\* when the pod is not there to be asked.
OomSeen(c) == \/ JobOf(c).exit = "oom"
              \/ blob[c] = "oom"

SeesFailed(c) ==
    /\ Watches(c) /\ JobOver(c)
    /\ \/ JobOf(c).exit # "oom" /\ Settles(c, "error")
       \/ OomSeen(c) /\ (rungs[c] = MaxSkuSteps \/ ~Fits(rungs[c] + 1)) /\ Settles(c, "oom_failed")

EscalateUnbilled(c) ==
    /\ Watches(c) /\ JobOver(c) /\ OomSeen(c)
    /\ rungs[c] < MaxSkuSteps /\ Fits(rungs[c] + 1)
    /\ rungs' = [rungs EXCEPT ![c] = @ + 1]
    /\ at' = [at EXCEPT ![c] = "submit"]
    /\ local' = [local EXCEPT ![c] = FALSE]
    /\ UNCHANGED <<callArgs, untaken, answer, reserved, clusterVars, bill>>

\* The next provisioned SKU of the ladder, its cost reserved first.
EscalateSku(c) ==
    /\ Watches(c) /\ JobOver(c) /\ OomSeen(c)
    /\ rungs[c] < MaxSkuSteps /\ Fits(rungs[c] + 1)
    /\ reserved' = reserved + Cost(rungs[c] + 1)
    /\ rungs' = [rungs EXCEPT ![c] = @ + 1]
    /\ at' = [at EXCEPT ![c] = "submit"]
    /\ local' = [local EXCEPT ![c] = FALSE]
    /\ UNCHANGED <<callArgs, untaken, answer, clusterVars, bill>>

\* The overall deadline, the attempt's own, or pending for too long.  The Job
\* is left to its activeDeadlineSeconds.
TimesOut(c) ==
    /\ Watches(c)
    /\ Settles(c, "timeout")

CallReturns ==
    /\ jphase = "running" /\ untaken = {} /\ \A c \in JCell : at[c] = "rest"
    /\ jphase' = "over"
    /\ UNCHANGED <<calls, arm, settled, untaken, at, rungs, answer, reserved, clusterVars, local, bill>>

\* The orchestrator's pod is preempted: its threads and its reservations are
\* gone, the Jobs and what is on disk are not.
OrchestratorDies ==
    /\ jphase = "running"
    /\ jphase' = "down"
    /\ arm' = FALSE /\ settled' = {} /\ untaken' = {}
    /\ at' = [c \in JCell |-> "rest"] /\ rungs' = [c \in JCell |-> 0]
    /\ answer' = [c \in JCell |-> "none"]
    /\ reserved' = 0 /\ bill' = 0 /\ exited' = {}
    /\ UNCHANGED <<calls, jobs, blob, local>>

(***************************************************************************)
(* The cluster and the entrypoint of the pods.                             *)
(***************************************************************************)
orchestratorVars == <<callArgs, untaken, at, rungs, answer, reserved, local, bill>>

\* main of the entrypoint, the shrink ladder behind it.  Metrics that do not
\* upload are ignored; a status.json that does not makes exit code 44.
PodSucceeds(n) ==
    /\ jobs[n].pod = "up"
    /\ \E outcome \in {"ok", "none"} : blob' = [blob EXCEPT ![n[1]] = outcome]
    /\ jobs' = [jobs EXCEPT ![n].pod = "gone", ![n].exit = "zero", ![n].cond = "Complete"]
    /\ exited' = IF jobs[n].call = calls THEN exited \cup {n[1]} ELSE exited
    /\ UNCHANGED orchestratorVars

\* Exit codes 40 to 44: podFailurePolicy fails the Job whatever the backoff.
PodFails(n, exit) ==
    /\ jobs[n].pod = "up" /\ exit \in {"oom", "error"}
    /\ \/ blob' = [blob EXCEPT ![n[1]] = IF exit = "oom" THEN "oom" ELSE "none"]
       \/ exit = "error" /\ UNCHANGED blob
    /\ jobs' = [jobs EXCEPT ![n].pod = "gone", ![n].exit = exit, ![n].failed = @ + 1]
    /\ UNCHANGED <<orchestratorVars, exited>>

\* The SIGTERM handler flushes within the grace period, or is cut off.
Preempt(n) ==
    /\ jobs[n].pod = "up"
    /\ \/ blob' = [blob EXCEPT ![n[1]] = "none"]
       \/ UNCHANGED blob
    /\ jobs' = [jobs EXCEPT ![n].pod = "gone", ![n].exit = "preempted", ![n].failed = @ + 1]
    /\ UNCHANGED <<orchestratorVars, exited>>

Reschedule(n) ==
    /\ jobs[n].pod = "gone" /\ jobs[n].cond = "" /\ jobs[n].exit = "preempted"
    /\ jobs[n].failed <= Backoff
    /\ jobs' = [jobs EXCEPT ![n].pod = "up", ![n].exit = "none"]
    /\ UNCHANGED <<orchestratorVars, blob, exited>>

JobFails(n) ==
    /\ jobs[n].pod = "gone" /\ jobs[n].cond = ""
    /\ jobs[n].exit # "preempted" \/ jobs[n].failed > Backoff
    /\ jobs' = [jobs EXCEPT ![n].cond = "Failed"]
    /\ UNCHANGED <<orchestratorVars, blob, exited>>

\* activeDeadlineSeconds: the pod is removed, and its exit code with it.
JobExpires(n) ==
    /\ jobs[n].pod = "up" /\ jobs[n].cond = ""
    /\ jobs' = [jobs EXCEPT ![n].pod = "gone", ![n].cond = "Failed", ![n].exit = "error"]
    /\ UNCHANGED <<orchestratorVars, blob, exited>>

JobRemoved(n) ==
    /\ jobs[n].cond # ""
    /\ jobs' = [jobs EXCEPT ![n] = NoJob]
    /\ UNCHANGED <<orchestratorVars, blob, exited>>

\* What an earlier call, whose orchestrator may have died, can have left of a
\* cell: nothing; a Job that runs or has failed; a cell that is done, with or
\* without its Job, and seen done or not.
Leftover ==
    LET Left(j, b, l) == [job |-> j, blob |-> b, local |-> l]
        Up == [NoJob EXCEPT !.pod = "up"]
        Ended(x, cond) == [NoJob EXCEPT !.pod = "gone", !.exit = x, !.cond = cond]
    IN  {Left(NoJob, "none", FALSE)} \cup
        IF Stable \/ LongId
        THEN {Left(Up, "none", FALSE), Left(Ended("oom", "Failed"), "oom", FALSE),
              Left(Ended("zero", "Complete"), "ok", FALSE), Left(NoJob, "ok", FALSE),
              Left(NoJob, "ok", TRUE)}
        ELSE {}

JobInit ==
    /\ jphase = "idle" /\ calls = 0 /\ arm = FALSE /\ settled = {} /\ untaken = {}
    /\ at = [c \in JCell |-> "rest"] /\ rungs = [c \in JCell |-> 0]
    /\ answer = [c \in JCell |-> "none"]
    /\ reserved = 0 /\ bill = 0 /\ exited = {}
    /\ \E before \in [JCell -> Leftover] :
        /\ jobs = [n \in JobName |-> IF n = <<n[1], 0, 0>> THEN before[n[1]].job ELSE NoJob]
        /\ blob = [c \in JCell |-> before[c].blob]
        /\ local = [c \in JCell |-> before[c].local]

JobWork ==
    \/ CallReturns \/ CallRefused
    \/ \E c \in JCell : \/ SkipDone(c) \/ RefuseCell(c) \/ Admit(c) \/ SubmitJob(c) \/ NameTaken(c)
                        \/ SeesComplete(c) \/ SeesFailed(c) \/ EscalateSku(c) \/ TimesOut(c)

JobCluster ==
    \E n \in JobName : \/ PodSucceeds(n) \/ Preempt(n) \/ Reschedule(n)
                       \/ JobFails(n) \/ JobExpires(n) \/ JobRemoved(n)
                       \/ \E x \in {"oom", "error"} : PodFails(n, x)

JobNext ==
    \/ JobWork \/ JobCluster \/ OrchestratorDies
    \/ \E resume \in BOOLEAN, forced \in {{}} \cup {{c} : c \in JCell} : CallGrid(resume, forced)

JobSpec == JobInit /\ [][JobNext]_jvars

(***************************************************************************)
(* Properties.                                                             *)
(***************************************************************************)
\* The Jobs that exist for this call can never cost more than what was
\* reserved for them, and that stays under the cap, however the threads'
\* checks and escalations interleave.
SpendCovered == JobTypeOK /\ bill <= reserved /\ (reserved > 0 => reserved < Cap)

\* A cell's verdict is earned.  It is ok only when one of its pods did exit
\* with 0 in this call, not because of what an older Job or an older
\* status.json says; and it is given up as failed only when the cluster will
\* not run it again: the moment between a preemption and the replacement pod
\* does not count.
CellVerdictEarned ==
    /\ \A c \in JCell : answer[c] = "ok" => c \in exited
    /\ \A c \in JCell :
          jphase = "running" /\ answer[c] \in {"error", "oom_failed"} =>
              /\ JobOf(c).pod \in {"absent", "gone"}
              /\ JobOf(c).pod = "gone" => JobOf(c).cond = "Failed" \/ JobOf(c).failed > Backoff
=============================================================================
