----------------------------- MODULE RubricRun -----------------------------
(***************************************************************************)
(* The rubric-driven run (backend/agents/rdr/controller.py with the agents *)
(* of rdr/agent.py) and the hybrid run that repairs its result with an RLM *)
(* run (backend/agents/hybrid/controller.py), through crashes and resumes. *)
(*                                                                         *)
(* A cluster is a group of rubric leaves; an agent writes its code.  The   *)
(* agents of Code Development clusters work at the same time, each in a    *)
(* thread, all in the one directory code/.  An agent that returns takes a  *)
(* snapshot of the whole directory, which the controller later writes      *)
(* back.  The controller is one asyncio thread: what it does between two   *)
(* awaits is one step, except that agents' threads, and crashes, may come  *)
(* between any two effects on the disk.                                    *)
(*                                                                         *)
(* Of the code on disk the model keeps one file per cluster, whose content *)
(* is a number that grows with every write of the cluster's agents, and    *)
(* commands.json, as the set of clusters whose commands it lists (0 is the *)
(* command "python train.py").  Scores are levels; the verdict of a report *)
(* is the business of FinalReport.                                         *)
(***************************************************************************)
EXTENDS Naturals, FiniteSets, FiniteSetsExt

CONSTANTS
    MaxCluster,     \* clusters are 1..MaxCluster, in the rubric's order
    CodeDev,        \* the clusters whose category is Code Development
    Concurrency,    \* how many of those are in flight at once (default 8)
    Runs,           \* the kinds of run, "rdr" or "hybrid", each with the optional
                    \* step it has: "gate", "candidates" or "none"
    MaxRepairs,     \* max_repair_iterations
    MaxRegens,      \* rdr_preflight_max_regens
    Level,          \* the scores told apart
    MaxOrphans,     \* bound: abandoned agents at one time
    MaxWrites,      \* bound: writes of one cluster's agents
    MaxCrashes      \* bound, for each kind of run: times its process dies

RCluster == 1..MaxCluster

ASSUME RubricAssumption ==
    /\ MaxCluster \in Nat /\ CodeDev \subseteq RCluster /\ Concurrency \in Nat \ {0}
    /\ Runs \subseteq {"rdr", "hybrid"} \X {"none", "gate", "candidates"}
    /\ {MaxRepairs, MaxRegens, MaxOrphans, MaxWrites} \subseteq Nat
    /\ MaxCrashes \in [{"rdr", "hybrid"} -> Nat]
    /\ Level \subseteq Nat /\ 0 \in Level

VARIABLES
    kind,       \* "rdr" or "hybrid"
    setting,    \* its optional step: the pre-run gate or competing candidates
    stage,      \* where the controller is
    pass,       \* repair_iterations, and 1 more while a pass is under way
    regens,     \* regenerations of the pre-run gate
    waiting,    \* clusters of the batch that wait for the semaphore
    agent,      \* the dispatch of each cluster
    orphan,     \* clusters with an abandoned agent thread
    stray,      \* one of them has written
    made,       \* the newest content an agent of each cluster has made
    code,       \* the files of code/, 0 when absent
    commands,   \* commands.json, {} when absent
    done,       \* what the controller knows of each cluster
    ckpt,       \* iterations/cluster_*.json
    repaired,   \* iterations/repair_*.json: pairs of pass and cluster
    keys,       \* _completed_repair_keys, read when the process started
    mended,     \* history: the repairs since the last start that was no resume
    again,      \* history: those among them that were done a second time
    env,        \* an environment has been built
    exp,        \* the last experiment: "none", "empty" or "metrics"
    grade,      \* the last scores
    final,      \* final_report.json
    saved,      \* the hybrid controller's copy of the Phase 1 report
    crashes

rubricVars == <<kind, setting, stage, pass, regens, waiting, agent, orphan, stray, made, code, commands, done,
                ckpt, repaired, keys, mended, again, env, exp, grade, final, saved, crashes>>
dispatch == <<waiting, agent, orphan, stray, made, code, commands, done, ckpt, repaired, mended, again>>
checkpoints == <<ckpt, repaired, mended, again>>
outcome == <<env, exp, grade, final, saved>>
fixed == <<kind, setting, keys, crashes>>

Content == 0..MaxWrites
NoAgent == [ph |-> "none", own |-> 0, files |-> [c \in RCluster |-> 0], cmds |-> {}]
NotDone == [is |-> "none", own |-> 0, cmds |-> {}, old |-> FALSE]
NoReport == [by |-> "none", score |-> 0]
NoGrade == [score |-> 0, weak |-> RCluster, graded |-> FALSE, leaves |-> FALSE]

RubricTypeOK ==
    /\ <<kind, setting>> \in Runs /\ stray \in BOOLEAN
    /\ stage \in {"new", "dev", "tail", "assemble", "env", "gate", "regen", "experiment", "score",
                  "decide", "report", "phase1", "phase2", "repair", "judge", "end", "raised", "down"}
    /\ pass \in 0..MaxRepairs /\ regens \in 0..MaxRegens
    /\ waiting \subseteq RCluster /\ orphan \subseteq RCluster
    /\ agent \in [RCluster -> [ph : {"none", "works", "competes", "failed", "snapped", "merged"},
                               own : Content, files : [RCluster -> Content], cmds : SUBSET (0..MaxCluster)]]
    /\ made \in [RCluster -> Content] /\ code \in [RCluster -> Content]
    /\ commands \subseteq 0..MaxCluster
    /\ done \in [RCluster -> [is : {"none", "ok", "failed"}, own : Content, cmds : SUBSET (0..MaxCluster),
                              old : BOOLEAN]]
    /\ ckpt \in [RCluster -> {"none", "ok", "failed"}]
    /\ {repaired, keys, mended, again} \subseteq SUBSET ((0..(MaxRepairs + MaxRegens)) \X RCluster)
    /\ env \in BOOLEAN /\ exp \in {"none", "empty", "metrics"}
    /\ grade \in [score : Level, weak : SUBSET RCluster, graded : BOOLEAN, leaves : BOOLEAN]
    /\ {final, saved} \subseteq [by : {"none", "rdr", "rlm", "unscored"}, score : Level]
    /\ crashes \in 0..MaxCrashes[kind]

-----------------------------------------------------------------------------
(* A process starts.                                                       *)

(* _load_resume_done: a cluster with a checkpoint, of a failure too, is    *)
(* taken as done, without files or commands.                               *)
Hydrated(resume) ==
    [c \in RCluster |-> IF resume /\ ckpt[c] # "none"
                        THEN [NotDone EXCEPT !.is = ckpt[c], !.old = TRUE] ELSE NotDone]

(* run_rdr up to its first batch.  The hybrid controller never resumes.  A *)
(* start over an old directory leaves its checkpoints and its code there.  *)
Begin(resume) ==
    /\ stage \in {"new", "down"}
    /\ resume => kind = "rdr"
    /\ done' = Hydrated(resume)
    /\ keys' = IF resume THEN repaired ELSE {}
    /\ IF resume THEN UNCHANGED <<mended, again>> ELSE mended' = {} /\ again' = {}
    /\ waiting' = {c \in CodeDev : done'[c].is = "none"}
    /\ stage' = "dev" /\ pass' = 0 /\ regens' = 0
    /\ env' = FALSE /\ exp' = "none" /\ grade' = NoGrade /\ saved' = NoReport
    /\ UNCHANGED <<kind, setting, agent, orphan, stray, made, code, commands,
                   ckpt, repaired, final, crashes>>

-----------------------------------------------------------------------------
(* One cluster: _dispatch_one_cluster and the agent's thread.              *)

InFlight == {c \in RCluster : agent[c].ph # "none"}

(* The semaphore of _run_cluster_batch.                                    *)
Limit == IF stage = "tail" THEN 1 ELSE Concurrency

Set(c, a) == agent' = [agent EXCEPT ![c] = a]

(* The next waiting cluster gets the semaphore.  Competing candidates are  *)
(* built on the first pass over Code Development clusters only.            *)
Dispatch ==
    /\ stage \in {"dev", "tail", "regen"}
    /\ waiting # {} /\ Cardinality(InFlight) < Limit
    /\ LET c == Min(waiting) IN
          /\ waiting' = waiting \ {c}
          /\ Set(c, [NoAgent EXCEPT !.ph = IF setting = "candidates" /\ stage = "dev" /\ pass = 0
                                           THEN "competes" ELSE "works"])
    /\ UNCHANGED <<stage, pass, regens, orphan, stray, made, code, commands, done,
                   checkpoints, outcome, fixed>>

(* The agent writes its cluster's code into code/, and commands.json: its  *)
(* own commands, or those it found with its own.                           *)
AgentWrites(c) ==
    /\ agent[c].ph = "works" /\ made[c] < MaxWrites
    /\ made' = [made EXCEPT ![c] = @ + 1]
    /\ code' = [code EXCEPT ![c] = made[c] + 1]
    /\ \E old \in {{}, commands} : commands' = old \cup {c}
    /\ Set(c, [agent[c] EXCEPT !.own = made[c] + 1])
    /\ UNCHANGED <<stage, pass, regens, waiting, orphan, stray, done, checkpoints,
                   outcome, fixed>>

(* The end of _reproduce_inner: _snapshot_code_dir and                     *)
(* _parse_commands_json read the whole directory.                          *)
AgentReturns(c) ==
    /\ agent[c].ph = "works"
    /\ Set(c, [agent[c] EXCEPT !.ph = "snapped", !.files = code, !.cmds = commands])
    /\ UNCHANGED <<stage, pass, regens, waiting, orphan, stray, made, code,
                   commands, done, checkpoints, outcome, fixed>>

(* _dispatch_competing_candidates: the best of several scratch directories *)
(* is handed on as if one agent had written it, or none is.                *)
WinnerChosen(c) ==
    /\ agent[c].ph = "competes" /\ made[c] < MaxWrites
    /\ made' = [made EXCEPT ![c] = @ + 1]
    /\ Set(c, [ph |-> "snapped", own |-> made[c] + 1, cmds |-> {c},
               files |-> [NoAgent.files EXCEPT ![c] = made[c] + 1]])
    /\ UNCHANGED <<stage, pass, regens, waiting, orphan, stray, code, commands,
                   done, checkpoints, outcome, fixed>>

(* The agent raises, or every candidate fails.                             *)
AgentFails(c) ==
    /\ agent[c].ph \in {"works", "competes"}
    /\ Set(c, [NoAgent EXCEPT !.ph = "failed"])
    /\ UNCHANGED <<stage, pass, regens, waiting, orphan, stray, made, code,
                   commands, done, checkpoints, outcome, fixed>>

(* asyncio.wait_for gives up on the task; the thread under it may go on to *)
(* its own, longer, deadline.                                              *)
AgentTimesOut(c) ==
    /\ agent[c].ph \in {"works", "competes"}
    /\ Set(c, [NoAgent EXCEPT !.ph = "failed"])
    /\ orphan' = IF agent[c].ph = "works" /\ Cardinality(orphan) < MaxOrphans THEN orphan \cup {c} ELSE orphan
    /\ UNCHANGED <<stage, pass, regens, waiting, stray, made, code, commands,
                   done, checkpoints, outcome, fixed>>

OrphanWrites(c) ==
    /\ c \in orphan /\ made[c] < MaxWrites
    /\ made' = [made EXCEPT ![c] = @ + 1]
    /\ code' = [code EXCEPT ![c] = made[c] + 1]
    /\ \E old \in {{}, commands} : commands' = old \cup {c}
    /\ stray' = TRUE
    /\ UNCHANGED <<stage, pass, regens, waiting, agent, orphan, done, checkpoints,
                   outcome, fixed>>

OrphanEnds(c) ==
    /\ c \in orphan
    /\ orphan' = orphan \ {c}
    /\ UNCHANGED <<stage, pass, regens, waiting, agent, stray, made, code,
                   commands, done, checkpoints, outcome, fixed>>

(* The result is published in done, then _merge_cluster_files writes the   *)
(* whole snapshot back to code/.  A failure has no files and no commands.  *)
Merge(c) ==
    /\ agent[c].ph \in {"snapped", "failed"}
    /\ IF agent[c].ph = "failed"
       THEN /\ done' = [done EXCEPT ![c] = [NotDone EXCEPT !.is = "failed"]]
            /\ UNCHANGED <<code, commands>>
       ELSE /\ done' = [done EXCEPT ![c] = [is |-> "ok", own |-> agent[c].own, cmds |-> agent[c].cmds,
                                            old |-> FALSE]]
            /\ code' = [x \in RCluster |-> IF agent[c].files[x] = 0 THEN code[x] ELSE agent[c].files[x]]
            /\ commands' = IF agent[c].cmds = {} THEN commands ELSE agent[c].cmds
    /\ Set(c, [NoAgent EXCEPT !.ph = "merged"])
    /\ UNCHANGED <<stage, pass, regens, waiting, orphan, stray, made, checkpoints,
                   outcome, fixed>>

(* The number a checkpoint of the current batch carries: the repair pass,  *)
(* or, for the gate's, one beyond every repair pass.                       *)
RepairKey == IF stage = "regen" THEN MaxRepairs + regens ELSE pass

(* _write_cluster_checkpoint or _write_repair_checkpoint.                  *)
Checkpoint(c) ==
    /\ agent[c].ph = "merged"
    /\ IF pass = 0 /\ stage # "regen"
       THEN /\ ckpt' = [ckpt EXCEPT ![c] = done[c].is]
            /\ UNCHANGED <<repaired, mended, again>>
       ELSE /\ repaired' = repaired \cup {<<RepairKey, c>>}
            /\ IF stage = "regen" THEN UNCHANGED <<mended, again>>
               ELSE /\ mended' = mended \cup {<<pass, c>>}
                    /\ again' = again \cup (mended \cap {<<pass, c>>})
            /\ UNCHANGED ckpt
    /\ Set(c, NoAgent)
    /\ UNCHANGED <<stage, pass, regens, waiting, orphan, stray, made, code,
                   commands, done, outcome, fixed>>

-----------------------------------------------------------------------------
(* The controller.                                                         *)

Steps(to) == stage' = to /\ UNCHANGED fixed

(* Mutant: a resumed pass repairs every weak cluster again.                *)
PendingAll(n) == grade.weak

(* The weak clusters of pass n without a checkpoint of that pass.          *)
Pending(n) == {c \in grade.weak : <<n, c>> \notin keys}

(* asyncio.gather returns; the sequential clusters come after the others.  *)
BatchReturns ==
    /\ stage \in {"dev", "tail", "regen"} /\ waiting = {} /\ InFlight = {}
    /\ IF stage = "dev"
       THEN /\ waiting' = (IF pass = 0 THEN {c \in RCluster : done[c].is = "none"} ELSE Pending(pass))
                             \ CodeDev
            /\ Steps("tail")
       ELSE waiting' = {} /\ Steps("assemble")
    /\ UNCHANGED <<pass, regens, agent, orphan, stray, made, code, commands, done,
                   checkpoints, outcome>>

(* Mutant: commands.json stays as the last agent left it.                  *)
AssembleSkipped ==
    /\ stage = "assemble"
    /\ Steps(IF pass > 0 THEN "experiment" ELSE IF regens > 0 THEN "gate" ELSE "env")
    /\ UNCHANGED <<pass, regens, waiting, agent, orphan, stray, made, code,
                   commands, done, checkpoints, outcome>>

(* commands.json is replaced by the commands of everything done, or, when  *)
(* there are none, by the default command.                                 *)
Assemble ==
    /\ stage = "assemble"
    /\ LET all == UNION {done[c].cmds : c \in RCluster}
       IN commands' = IF all = {} THEN {0} ELSE all
    /\ Steps(IF pass > 0 THEN "experiment" ELSE IF regens > 0 THEN "gate" ELSE "env")
    /\ UNCHANGED <<pass, regens, waiting, agent, orphan, stray, made, code, done,
                   checkpoints, outcome>>

Environment ==
    /\ stage = "env"
    /\ env' \in BOOLEAN
    /\ Steps(IF setting = "gate" THEN "gate" ELSE "experiment")
    /\ UNCHANGED <<pass, regens, dispatch, exp, grade, final, saved>>

(* _run_rdr_preflight_gate: a hard violation sends the Code Development    *)
(* clusters of this process back, as long as regenerations are left.       *)
GateScan ==
    /\ stage = "gate"
    /\ \/ Steps("experiment") /\ UNCHANGED <<regens, waiting>>
       \/ /\ regens < MaxRegens
          /\ regens' = regens + 1
          /\ waiting' = {c \in CodeDev : ~done[c].old}
          /\ Steps("regen")
    /\ UNCHANGED <<pass, agent, orphan, stray, made, code, commands, done,
                   checkpoints, outcome>>

(* run_experiment, if there is an environment.  If it raises, the result   *)
(* of the pass before stays.                                               *)
Experiment ==
    /\ stage = "experiment"
    /\ exp' \in IF env THEN {"empty", "metrics", exp} ELSE {exp}
    /\ Steps("score")
    /\ UNCHANGED <<pass, regens, dispatch, env, grade, final, saved>>

(* _is_degraded_experiment.                                                *)
Metrics == exp = "metrics"

(* score_reproduction.  Degraded, every leaf is 0; when the scorer raises, *)
(* _zero_scores has no leaves at all.                                      *)
Score ==
    /\ stage = "score"
    /\ \/ grade' = NoGrade
       \/ ~Metrics /\ grade' = [NoGrade EXCEPT !.leaves = TRUE]
       \/ /\ Metrics
          /\ \E s \in Level, w \in SUBSET RCluster :
                grade' = [score |-> s, weak |-> w, graded |-> TRUE, leaves |-> TRUE]
    /\ Steps("decide")
    /\ UNCHANGED <<pass, regens, dispatch, env, exp, final, saved>>

(* The head of the repair loop.  Phase 1 of a hybrid run has no repairs.   *)
Decide ==
    /\ stage = "decide"
    /\ IF kind = "rdr" /\ pass < MaxRepairs /\ grade.weak # {}
       THEN pass' = pass + 1 /\ waiting' = Pending(pass + 1) \cap CodeDev /\ Steps("dev")
       ELSE Steps("report") /\ UNCHANGED <<pass, waiting>>
    /\ UNCHANGED <<regens, agent, orphan, stray, made, code, commands, done,
                   checkpoints, outcome>>

(* write_final_report_rlm, as far as the controller sees it.               *)
Report ==
    /\ stage = "report"
    /\ final' = [by |-> "rdr", score |-> grade.score]
    /\ Steps(IF kind = "hybrid" THEN "phase1" ELSE "end")
    /\ UNCHANGED <<pass, regens, dispatch, env, exp, grade, saved>>

-----------------------------------------------------------------------------
(* The hybrid controller.                                                  *)

(* Nothing to repair when every cluster failed, when no leaf is weak (as   *)
(* when there are none), or when the money is spent.                       *)
Phase1Returns ==
    /\ stage = "phase1"
    /\ \/ Steps("end") /\ UNCHANGED saved
       \/ /\ grade.leaves /\ grade.weak # {}
          /\ \E c \in RCluster : done[c].is = "ok"
          /\ saved' = final /\ Steps("phase2")
    /\ UNCHANGED <<pass, regens, dispatch, env, exp, grade, final>>

(* run_pipeline_rlm starts with maybe_archive_prior_attempt, whose trigger *)
(* is a final_report.json: the report and code/ move to attempts/.         *)
Phase2Starts ==
    /\ stage = "phase2"
    /\ IF final.by # "none"
       THEN code' = [c \in RCluster |-> 0] /\ commands' = {} /\ final' = NoReport
       ELSE UNCHANGED <<code, commands, final>>
    /\ Steps("repair")
    /\ UNCHANGED <<pass, regens, waiting, agent, orphan, stray, made, done,
                   checkpoints, env, exp, grade, saved>>

(* The RLM run writes a report with a score or without one, or raises.     *)
Phase2Writes ==
    /\ stage = "repair"
    /\ \/ \E s \in Level : final' = [by |-> "rlm", score |-> s]
       \/ final' = [by |-> "unscored", score |-> 0]
    /\ stage' \in {"judge", "raised"}
    /\ UNCHANGED <<fixed, pass, regens, dispatch, env, exp, grade, saved>>

(* Mutant: any score of the second phase is good enough.                   *)
JudgeKeeps ==
    /\ stage = "judge"
    /\ final' = IF final.by = "unscored" THEN saved ELSE final
    /\ Steps("end")
    /\ UNCHANGED <<pass, regens, dispatch, env, exp, grade, saved>>

(* The better report stays, the later one at equal scores.  A Phase 2      *)
(* without a score is replaced in any case.                                *)
Judge ==
    /\ stage = "judge"
    /\ final' = IF final.by = "unscored" \/ saved.score > final.score THEN saved ELSE final
    /\ Steps("end")
    /\ UNCHANGED <<pass, regens, dispatch, env, exp, grade, saved>>

-----------------------------------------------------------------------------
(* The process is killed: what was in memory, and every agent, is gone.    *)
Crash ==
    /\ stage \notin {"new", "end", "raised", "down"} /\ crashes < MaxCrashes[kind]
    /\ crashes' = crashes + 1
    /\ stage' = "down" /\ pass' = 0 /\ regens' = 0
    /\ waiting' = {} /\ orphan' = {} /\ stray' = FALSE /\ keys' = {}
    /\ agent' = [c \in RCluster |-> NoAgent] /\ done' = [c \in RCluster |-> NotDone]
    /\ env' = FALSE /\ exp' = "none" /\ grade' = NoGrade /\ saved' = NoReport
    /\ UNCHANGED <<kind, setting, made, code, commands, checkpoints, final>>

RubricInit ==
    /\ \E run \in Runs : kind = run[1] /\ setting = run[2]
    /\ stray = FALSE
    /\ stage = "new" /\ pass = 0 /\ regens = 0
    /\ waiting = {} /\ orphan = {} /\ repaired = {} /\ keys = {} /\ mended = {} /\ again = {} /\ commands = {}
    /\ agent = [c \in RCluster |-> NoAgent] /\ done = [c \in RCluster |-> NotDone]
    /\ made = [c \in RCluster |-> 0] /\ code = [c \in RCluster |-> 0]
    /\ ckpt = [c \in RCluster |-> "none"]
    /\ env = FALSE /\ exp = "none" /\ grade = NoGrade
    /\ final = NoReport /\ saved = NoReport /\ crashes = 0

(* What the controller's own thread does.                                  *)
Controller ==
    \/ Dispatch \/ BatchReturns \/ Assemble \/ Environment \/ GateScan \/ Experiment \/ Score
    \/ Decide \/ Report \/ Phase1Returns \/ Phase2Starts \/ Phase2Writes \/ Judge
    \/ \E c \in RCluster : Merge(c) \/ Checkpoint(c)

RubricNext ==
    \/ \E resume \in BOOLEAN : Begin(resume)
    \/ Controller
    \/ \E c \in RCluster : \/ AgentWrites(c) \/ AgentReturns(c) \/ WinnerChosen(c) \/ AgentFails(c)
                           \/ AgentTimesOut(c) \/ OrphanWrites(c) \/ OrphanEnds(c)
    \/ Crash

RubricSpec == RubricInit /\ [][RubricNext]_rubricVars

-----------------------------------------------------------------------------
(* Properties.                                                             *)

(* "Safe to call concurrently for distinct clusters": once the code is     *)
(* assembled, what will be run and graded of a cluster is no older than    *)
(* what its agent wrote, and its commands are among those that will be run *)
(* (unless an abandoned agent has written commands.json).                  *)
WorkKept ==
    stage \in {"env", "experiment", "score"} =>
        \A c \in RCluster : done[c].own > 0 => code[c] >= done[c].own /\ (c \in commands \/ stray)

(* Through crashes and resumes a cluster is repaired at most once in each  *)
(* pass, and its report has no score above nothing unless an experiment of *)
(* this very process produced metrics.                                     *)
RepairsNotRepeated ==
    /\ RubricTypeOK
    /\ again = {}
    /\ stage \in {"end", "phase1"} /\ final.by = "rdr" /\ final.score > 0 => exp = "metrics"

(* "a better Phase 1 is never silently clobbered by a worse-but-non-None   *)
(* Phase 2": a hybrid run that returns leaves no report below Phase 1's.   *)
BestPhaseShipped ==
    stage = "end" /\ saved.by # "none" => final.by \in {"rdr", "rlm"} /\ final.score >= saved.score

(* "Phase 2 continues where Phase 1 left off": the RLM run that is told to *)
(* repair the code of Phase 1 finds it in code/.                           *)
RepairSeesCode ==
    stage = "repair" => \A c \in RCluster : done[c].own > 0 => code[c] # 0
=============================================================================
