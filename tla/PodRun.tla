------------------------------- MODULE PodRun -------------------------------
(***************************************************************************)
(* run_experiment on a cloud pod.                                          *)
(*                                                                         *)
(* The caller (primitives.py, run_experiment) hands each attempt to a      *)
(* thread and waits for it with a timeout; a thread that is late is        *)
(* abandoned and goes on by itself.  The thread (_execute_in_sandbox)      *)
(* creates a pod through the runtime service and its aggregate, runs the   *)
(* commands beside a stall watchdog, destroys the pod and retries what it  *)
(* takes for a passing fault.  The caller then climbs the ladder of GPUs   *)
(* or returns.  Pods that nobody deletes are left to the exit hooks of the *)
(* process and to the sweeper of the server.                               *)
(***************************************************************************)
EXTENDS Naturals, FiniteSets

CONSTANTS
    Attempts,       \* bound: attempts of all calls of the run
    MaxPods,        \* bound: pods the cloud can create
    Commands,       \* commands of an attempt
    MaxRetries,     \* _MAX_TRANSIENT_RETRIES
    MaxStrikes,     \* OPENRESEARCH_WATCHDOG_MAX_SOFT_RECOVERIES
    MaxEscalations, \* dynamic_gpu_max_escalations
    Ladder          \* rungs of the GPU plan

ASSUME PodRunAssumption ==
    /\ {Attempts, MaxPods, Commands, MaxStrikes, Ladder} \subseteq Nat \ {0}
    /\ {MaxRetries, MaxEscalations} \subseteq Nat

(* Attempts are numbered in the order they are made.                       *)
Worker == 1..Attempts

(* So are pods; the first is the one of OPENRESEARCH_RUNPOD_POD_ID.        *)
Pod == 1..MaxPods
Kept == 1
NoPod == 0

VARIABLES
    cloud,      \* pod -> none, up, gone
    owned,      \* _owned_pod_ids of the process
    leaked,     \* history: pods the process lost sight of, and why it may
    kept,       \* the configured pod, or NoPod
    sweeps,     \* the server sweeps
    task,       \* worker -> its thread
    caller,     \* run_experiment: where it is, its worker, what it got
    rung,       \* gpu_plan.json: rungs already climbed
    esc         \* gpu_escalation_state.json

podvars == <<cloud, owned, leaked, kept, sweeps, task, caller, rung, esc>>

(* What an attempt's commands come to.  A timeout leaves no exit code, and *)
(* counts as one only when it is the last command and none failed.         *)
Results == {"none", "ok", "failed", "oom", "timeout"}

Worse(got, res) ==
    CASE "oom" \in {got, res} -> "oom"
      [] "oom" \notin {got, res} /\ "failed" \in {got, res} -> "failed"
      [] got \in {"none", "ok"} /\ res \in {"ok", "timeout"} -> res
      [] got = "timeout" /\ res \in {"ok", "timeout"} -> IF res = "ok" THEN "failed" ELSE "timeout"

(* Errors by what classify_exception makes of them: capacity and ssh are   *)
(* transient too, and the caller tells them apart; other is what is never  *)
(* retried (money, code, the unknown); invalid is InvalidSandboxTransition *)
(* of the aggregate.                                                       *)
Errors == {"none", "capacity", "ssh", "transient", "other", "invalid"}
Transient == {"capacity", "ssh", "transient"}

Thread == [pc : {"off", "create", "boot", "exec", "unwind", "done"},
           agg : {"new", "requested", "created", "running", "destroyed", "failed"},
           pod : Pod \cup {NoPod}, cut : BOOLEAN, left : 0..Commands,
           wd : {"off", "polling", "killing", "ended"}, strikes : 0..MaxStrikes,
           err : Errors, slow : BOOLEAN, retry : 0..MaxRetries, got : Results]

Off == [pc |-> "off", agg |-> "new", pod |-> NoPod, cut |-> FALSE, left |-> Commands,
        wd |-> "off", strikes |-> 0, err |-> "none", slow |-> FALSE, retry |-> 0,
        got |-> "none"]

PodTypeOK ==
    /\ cloud \in [Pod -> {"none", "up", "gone"}]
    /\ {owned, leaked} \subseteq SUBSET Pod
    /\ kept \in {Kept, NoPod} /\ sweeps \in BOOLEAN
    /\ task \in [Worker -> Thread]
    /\ caller \in [pc : {"free", "wait", "gate", "raised", "exited", "killed"},
                   at : Worker \cup {0}, got : Results \cup {"infra"}]
    /\ rung \in 0..Ladder /\ esc \in Nat

Alive == caller.pc \notin {"exited", "killed"}

Goes(w, t) == task' = [task EXCEPT ![w] = t]

(* _delete_pod: ownership is dropped whatever the API answers.             *)
Delete(p, ok) ==
    /\ owned' = owned \ {p}
    /\ cloud' = IF ok /\ p \in owned THEN [cloud EXCEPT ![p] = "gone"] ELSE cloud
    /\ leaked' = IF ~ok /\ p \in owned /\ cloud[p] = "up" THEN leaked \cup {p} ELSE leaked

Fresh(p) == cloud[p] = "none" /\ \A q \in 1..(p - 1) : cloud[q] # "none"

-----------------------------------------------------------------------------
(* Creating the sandbox.                                                   *)

(* The time since the first attempt decides about a retry: an error may    *)
(* come late, and one of the boot always does.                             *)
Raises(w, e, slow) ==
    [task[w] EXCEPT !.pc = "unwind", !.err = e, !.slow = slow /\ e \in Transient, !.got = "none"]

(* SandboxAggregate.handle_request accepts a new aggregate only, and a     *)
(* retry comes with the aggregate of the attempt before it.                *)
RequestRefused(w) ==
    /\ Alive /\ task[w].pc = "create" /\ task[w].agg # "new"
    /\ Goes(w, Raises(w, "invalid", FALSE))
    /\ UNCHANGED <<cloud, owned, leaked, kept, sweeps, caller, rung, esc>>

(* POST /pods answers with a pod.  A pod made because the configured one   *)
(* is unusable is meant to stay and is not owned.                          *)
PodGranted(w, p) ==
    /\ Alive /\ task[w].pc = "create" /\ task[w].agg = "new"
    /\ Fresh(p)
    /\ cloud' = [cloud EXCEPT ![p] = "up"]
    /\ owned' = IF kept = NoPod THEN owned \cup {p} ELSE owned
    /\ leaked' = IF kept = NoPod THEN leaked ELSE leaked \cup {p}
    /\ Goes(w, [task[w] EXCEPT !.pc = "boot", !.agg = "requested", !.pod = p])
    /\ UNCHANGED <<kept, sweeps, caller, rung, esc>>

(* It refuses, at once or after a while.                                   *)
PodRefused(w, e) ==
    /\ Alive /\ task[w].pc = "create" /\ task[w].agg = "new"
    /\ \E slow \in BOOLEAN : Goes(w, [Raises(w, e, slow) EXCEPT !.agg = "failed"])
    /\ UNCHANGED <<cloud, owned, leaked, kept, sweeps, caller, rung, esc>>

(* The pod is made and the answer lost.                                    *)
AnswerLost(w, p) ==
    /\ Alive /\ task[w].pc = "create" /\ task[w].agg = "new"
    /\ Fresh(p)
    /\ cloud' = [cloud EXCEPT ![p] = "up"] /\ leaked' = leaked \cup {p}
    /\ Goes(w, [Raises(w, "other", FALSE) EXCEPT !.agg = "failed"])
    /\ UNCHANGED <<owned, kept, sweeps, caller, rung, esc>>

PodReady(w) ==
    [task[w] EXCEPT !.pc = "exec", !.agg = "created", !.wd = "polling", !.strikes = 0,
                    !.cut = FALSE, !.left = Commands, !.got = "none"]

(* The configured pod is running: no pod is made.                          *)
Attach(w) ==
    /\ Alive /\ task[w].pc = "create" /\ task[w].agg = "new"
    /\ kept # NoPod /\ cloud[kept] = "up"
    /\ Goes(w, [PodReady(w) EXCEPT !.pod = kept])
    /\ UNCHANGED <<cloud, owned, leaked, kept, sweeps, caller, rung, esc>>

Boots(w) ==
    /\ Alive /\ task[w].pc = "boot" /\ cloud[task[w].pod] = "up"
    /\ Goes(w, PodReady(w))
    /\ UNCHANGED <<cloud, owned, leaked, kept, sweeps, caller, rung, esc>>

(* SSH does not come up in time, or the pod reaches a terminal state or    *)
(* cannot be prepared: the pod is deleted, quietly.                        *)
BootFailsKeepsPod(w, e, ok) ==
    /\ Alive /\ task[w].pc = "boot"
    /\ Goes(w, [Raises(w, e, e = "ssh") EXCEPT !.agg = "failed", !.pod = NoPod])
    /\ UNCHANGED <<cloud, owned, leaked, kept, sweeps, caller, rung, esc>>

BootFails(w, e, ok) ==
    /\ Alive /\ task[w].pc = "boot"
    /\ Goes(w, [Raises(w, e, e = "ssh") EXCEPT !.agg = "failed", !.pod = NoPod])
    /\ IF kept = NoPod THEN Delete(task[w].pod, ok) ELSE UNCHANGED <<cloud, owned, leaked>>
    /\ UNCHANGED <<kept, sweeps, caller, rung, esc>>

-----------------------------------------------------------------------------
(* Commands and the watchdog beside them.                                  *)

Commanding(w) == Alive /\ task[w].pc = "exec" /\ task[w].left > 0

(* RunpodBackend.exec on a connection that is up, and the aggregate's      *)
(* record of the result, which refuses one that comes after destroy.       *)
CommandEnds(w, res) ==
    /\ Commanding(w) /\ ~task[w].cut
    /\ cloud[task[w].pod] = "up" \/ res = "failed"
    /\ Goes(w, [task[w] EXCEPT !.left = @ - 1, !.got = Worse(@, res), !.agg = "running"])
    /\ UNCHANGED <<cloud, owned, leaked, kept, sweeps, caller, rung, esc>>

(* The connection breaks, or the watchdog has cut it.                      *)
CommandBreaks(w, e) ==
    /\ Commanding(w) /\ e \in {"transient", "other"}
    /\ \E slow \in BOOLEAN : Goes(w, Raises(w, e, slow))
    /\ UNCHANGED <<cloud, owned, leaked, kept, sweeps, caller, rung, esc>>

(* The command returns after the watchdog's destroy was recorded.          *)
CommandLate(w) ==
    /\ Commanding(w) /\ task[w].agg = "destroyed"
    /\ Goes(w, Raises(w, "invalid", FALSE))
    /\ UNCHANGED <<cloud, owned, leaked, kept, sweeps, caller, rung, esc>>

(* The pod's time or money is used up before a command: exec destroys the  *)
(* pod itself and raises.                                                  *)
BudgetSpent(w, ok) ==
    /\ Commanding(w) /\ ~task[w].cut
    /\ Goes(w, Raises(w, "other", FALSE))
    /\ Delete(task[w].pod, ok)
    /\ UNCHANGED <<kept, sweeps, caller, rung, esc>>

CommandsDone(w) ==
    /\ Alive /\ task[w].pc = "exec" /\ task[w].left = 0
    /\ Goes(w, [task[w] EXCEPT !.pc = "unwind", !.err = "none"])
    /\ UNCHANGED <<cloud, owned, leaked, kept, sweeps, caller, rung, esc>>

(* The watchdog finds the run stale and probes the pod: while it answers   *)
(* and strikes are left, it is kept.                                       *)
Spare(w) ==
    /\ Commanding(w) /\ task[w].wd = "polling"
    /\ cloud[task[w].pod] = "up" /\ task[w].strikes < MaxStrikes
    /\ Goes(w, [task[w] EXCEPT !.strikes = @ + 1])
    /\ UNCHANGED <<cloud, owned, leaked, kept, sweeps, caller, rung, esc>>

(* Else it destroys the sandbox: first it cuts the connection ...          *)
KillCuts(w) ==
    /\ Commanding(w) /\ task[w].wd = "polling"
    /\ Goes(w, [task[w] EXCEPT !.wd = "killing", !.cut = TRUE])
    /\ UNCHANGED <<cloud, owned, leaked, kept, sweeps, caller, rung, esc>>

(* ... then it deletes the pod, and raises _WatchdogKilled in its own      *)
(* task, where nobody waits for it.                                        *)
KillDeletes(w, ok) ==
    /\ Alive /\ task[w].pc = "exec" /\ task[w].wd = "killing"
    /\ Goes(w, [task[w] EXCEPT !.wd = "ended", !.agg = "destroyed"])
    /\ Delete(task[w].pod, ok)
    /\ UNCHANGED <<kept, sweeps, caller, rung, esc>>

-----------------------------------------------------------------------------
(* The finally block.                                                      *)

CanRetry(t) == t.err \in Transient /\ t.retry < MaxRetries /\ ~t.slow

(* The watchdog is cancelled (a destroy that it has begun runs on beside   *)
(* this one and finds nothing to do) and the sandbox destroyed.  A failing *)
(* delete raises in place of what the attempt had to say.                  *)
Unwind(w, ok) ==
    LET t == task[w]
        agg == IF t.pod = NoPod THEN t.agg ELSE "destroyed"
        after == IF ok /\ CanRetry(t)
                 THEN [Off EXCEPT !.pc = "create", !.retry = t.retry + 1, !.agg = agg]
                 ELSE [Off EXCEPT !.pc = "done", !.retry = t.retry, !.agg = agg, !.got = t.got,
                                  !.err = IF ok THEN t.err ELSE "other"]
    IN  /\ Alive /\ t.pc = "unwind" /\ (~ok => t.pod \in owned)
        /\ task' = [task EXCEPT ![w] = after]
        /\ IF t.pod = NoPod THEN UNCHANGED <<cloud, owned, leaked>> ELSE Delete(t.pod, ok)
        /\ UNCHANGED <<kept, sweeps, caller, rung, esc>>

-----------------------------------------------------------------------------
(* run_experiment.                                                         *)

Nothing == [pc |-> "free", at |-> 0, got |-> "none"]

NewThread(w) == task' = [task EXCEPT ![w] = [Off EXCEPT !.pc = "create"]]

Call ==
    /\ caller.pc = "free" /\ caller.at + 1 \in Worker
    /\ NewThread(caller.at + 1)
    /\ caller' = [caller EXCEPT !.pc = "wait", !.at = @ + 1]
    /\ UNCHANGED <<cloud, owned, leaked, kept, sweeps, rung, esc>>

(* The thread returned a result, or raised.                                *)
Returned ==
    /\ caller.pc = "wait" /\ task[caller.at].pc = "done"
    /\ LET t == task[caller.at]
       IN  caller' = [caller EXCEPT !.pc = "gate",
                         !.got = CASE t.err = "none" -> t.got
                                   [] t.err \in {"capacity", "ssh"} -> "infra"
                                   [] t.err \notin {"none", "capacity", "ssh"} -> "failed"]
    /\ task' = [task EXCEPT ![caller.at] = Off]
    /\ UNCHANGED <<cloud, owned, leaked, kept, sweeps, rung, esc>>

(* The caller's time is up.  Nothing tells the thread.                     *)
OuterTimeout ==
    /\ caller.pc = "wait" /\ task[caller.at].pc # "done"
    /\ caller' = [caller EXCEPT !.pc = "gate", !.got = "failed"]
    /\ UNCHANGED <<cloud, owned, leaked, kept, sweeps, task, rung, esc>>

Climbs == caller.got \in {"infra", "oom"} /\ esc < MaxEscalations /\ rung < Ladder

Uncoded == caller.got = "timeout" /\ esc < MaxEscalations

(* The next rung: the plan is saved, then the count.                       *)
Escalate ==
    /\ caller.pc = "gate" /\ Climbs /\ caller.at + 1 \in Worker
    /\ rung' = rung + 1 /\ esc' = esc + 1
    /\ NewThread(caller.at + 1)
    /\ caller' = [caller EXCEPT !.pc = "wait", !.at = @ + 1]
    /\ UNCHANGED <<cloud, owned, leaked, kept, sweeps>>

(* int(result["exit_code"]) of a failed attempt without an exit code: no   *)
(* command failed and the last one timed out.                              *)
GateRaises ==
    /\ caller.pc = "gate" /\ Uncoded
    /\ caller' = [caller EXCEPT !.pc = "raised"]
    /\ UNCHANGED <<cloud, owned, leaked, kept, sweeps, task, rung, esc>>

Return ==
    /\ caller.pc = "gate" /\ ~Climbs /\ ~Uncoded
    /\ caller' = [Nothing EXCEPT !.at = caller.at]
    /\ UNCHANGED <<cloud, owned, leaked, kept, sweeps, task, rung, esc>>

(* The primitive's error reaches the root, which may call again.           *)
RootGoesOn ==
    /\ caller.pc = "raised"
    /\ caller' = [Nothing EXCEPT !.at = caller.at]
    /\ UNCHANGED <<cloud, owned, leaked, kept, sweeps, task, rung, esc>>

-----------------------------------------------------------------------------
(* The process ends: the interpreter joins the threads of its pools, then  *)
(* every exit hook tries to delete its pod.                                *)
ProcessExit ==
    /\ caller.pc = "free" /\ \A w \in Worker : task[w].pc \in {"off", "done"}
    /\ caller' = [Nothing EXCEPT !.pc = "exited"] /\ task' = [w \in Worker |-> Off]
    /\ owned' = {}
    /\ \E failed \in SUBSET owned :
          /\ cloud' = [p \in Pod |-> IF p \in owned \ failed THEN "gone" ELSE cloud[p]]
          /\ leaked' = leaked \cup failed
    /\ UNCHANGED <<kept, sweeps, rung, esc>>

(* Or it is killed (os._exit and SIGKILL run no hook).                     *)
ProcessKilled ==
    /\ Alive
    /\ caller' = [Nothing EXCEPT !.pc = "killed"] /\ task' = [w \in Worker |-> Off]
    /\ owned' = {} /\ leaked' = leaked \cup owned
    /\ UNCHANGED <<cloud, kept, sweeps, rung, esc>>

(* sweep_stale_pods, with no pod preserved: any pod of the account that is *)
(* old by then, and an experiment may take longer than the limit.          *)
Sweep(p) ==
    /\ sweeps /\ cloud[p] = "up"
    /\ cloud' = [cloud EXCEPT ![p] = "gone"]
    /\ UNCHANGED <<owned, leaked, kept, sweeps, task, caller, rung, esc>>

PodInit ==
    /\ cloud = [p \in Pod |-> IF p = Kept THEN "up" ELSE "none"]
    /\ owned = {} /\ leaked = {}
    /\ kept \in {Kept, NoPod} /\ sweeps \in BOOLEAN
    /\ task = [w \in Worker |-> Off]
    /\ caller = Nothing
    /\ rung = 0 /\ esc = 0

Step(w) ==
    \/ RequestRefused(w) \/ Attach(w) \/ Boots(w)
    \/ \E p \in Pod : PodGranted(w, p) \/ AnswerLost(w, p)
    \/ \E e \in {"capacity", "other"} : PodRefused(w, e)
    \/ \E e \in {"ssh", "other"}, ok \in BOOLEAN : BootFails(w, e, ok)
    \/ \E res \in {"ok", "failed", "oom", "timeout"} : CommandEnds(w, res)
    \/ \E e \in {"transient", "other"} : CommandBreaks(w, e)
    \/ CommandLate(w) \/ CommandsDone(w)
    \/ \E ok \in BOOLEAN : BudgetSpent(w, ok) \/ Unwind(w, ok)

Watch(w) == Spare(w) \/ KillCuts(w) \/ \E ok \in BOOLEAN : KillDeletes(w, ok)

PodNext ==
    \/ \E w \in Worker : Step(w) \/ Watch(w)
    \/ Call \/ Returned \/ OuterTimeout \/ Escalate \/ GateRaises \/ Return \/ RootGoesOn
    \/ ProcessExit \/ ProcessKilled
    \/ \E p \in Pod : Sweep(p)

PodSpec == PodInit /\ [][PodNext]_podvars

(* A pod that runs is owned, and held by a thread that will give it back,  *)
(* or it is one the process could not know of or could not delete: no path *)
(* of creation, retry, watchdog, abandoned thread or exit forgets a pod.   *)
(* And the backend deletes only what it created itself: the configured pod *)
(* can fall to the sweeper and to nothing else.                            *)
PodAccounted ==
    /\ PodTypeOK
    /\ \A p \in Pod \ {Kept} : cloud[p] = "up" =>
          p \in leaked \/ (p \in owned /\ \E w \in Worker : task[w].pod = p)
    /\ cloud[Kept] = "gone" => sweeps

(* "Each retry gets a fresh sandbox" (comment of the retry loop).          *)
RetryGetsSandbox == \A w \in Worker : task[w].retry > 0 => task[w].err # "invalid"
=============================================================================
