-------------------------- MODULE ForcedIteration --------------------------
(***************************************************************************)
(* When the root model may stop: the policy that refuses or accepts        *)
(* FINAL_VAR (backend/agents/rlm/forced_iteration.py) and the hooks of     *)
(* run.py that feed it.                                                    *)
(*                                                                         *)
(* The root works in turns.  In a turn it calls primitives and may call    *)
(* FINAL_VAR; a refusal is an error text and the root goes on.  The end    *)
(* of a turn is logged, and the logger aborts the run after a fatal        *)
(* primitive or after too many turns without code.  A primitive that       *)
(* exceeded its time is abandoned, not stopped: its outcome reaches the    *)
(* policy later.                                                           *)
(***************************************************************************)
EXTENDS Naturals

CONSTANTS
    MinIterations, MaxIterations,   \* turns before a weak answer; turns in all
    MinRepair, RepairMax,           \* repairs that are forced, and their limit
    NoProgressLimit,                \* repairs in a row that changed nothing
    Threshold,                      \* refusals, or empty turns, in a row
    MaxRefusals,                    \* refusals in a run
    MaxTurns,                       \* turns the loop itself allows
    MaxPairs                        \* bound: refusals for two experiments

ASSUME PolicyAssumption ==
    /\ {MinIterations, MaxIterations, MinRepair, RepairMax, MaxTurns, MaxPairs} \subseteq Nat
    /\ {NoProgressLimit, Threshold, MaxRefusals} \subseteq Nat \ {0}

VARIABLES
    mode,       \* the flags: fix-first repairs, the hard floor
    turn,       \* iteration_count of the logger
    empty,      \* turns without code in a row
    near,       \* the wall clock is at its floor
    exps,       \* run_experiment in this turn: how many (2 is many), did the last fail
    fatal,      \* _last_primitive_result is fatal
    hung,       \* an abandoned experiment is still running
    ran,        \* _total_run_experiments is not zero
    repairs,    \* _repair_iter_count
    stale,      \* _repair_noprogress_count
    broken,     \* _last_repair_failure_class
    terminal,   \* _terminal_failure_class
    score,      \* the latest rubric score: none, below or met
    tested,     \* a candidate was honestly tested
    refusals,   \* refusal_count
    streak,     \* _noprogress_refusals and their signature
    answered,   \* FINAL_VAR was accepted in this turn
    closed,     \* up, or how the completion ended
    idle,       \* history: refusals since a primitive changed the state
    pairs       \* history: refusals for two experiments in one turn

policy == <<repairs, stale, broken, terminal, refusals, streak>>
pvars == <<mode, turn, empty, near, exps, fatal, hung, ran, policy, score, tested,
           answered, closed, idle, pairs>>

Signatures == {"none", "two", "no_experiment", "repair_floor", "no_rubric", "below_target"}

Outcomes == {"ok", "repairable", "partial", "fatal", "exhausted"}

PolicyTypeOK ==
    /\ mode \in [fixFirst : BOOLEAN, hardFloor : BOOLEAN]
    /\ turn \in 0..MaxTurns /\ empty \in 0..Threshold
    /\ {near, fatal, hung, ran, tested, answered} \subseteq BOOLEAN
    /\ exps \in [many : 0..2, bad : BOOLEAN]
    /\ repairs \in 0..(MinRepair + RepairMax) /\ stale \in 0..NoProgressLimit
    /\ broken \in {"none", "experiment", "veto", "claim"}
    /\ terminal \in {"none", "capacity", "degenerate", "repair_exhausted"}
    /\ score \in {"none", "below", "met"}
    /\ refusals \in Nat /\ pairs \in 0..refusals /\ idle \in 0..refusals
    /\ streak \in [count : 0..Threshold, sig : Signatures]
    /\ closed \in {"up", "answered", "aborted", "exhausted"}

Up == closed = "up" /\ ~answered

-----------------------------------------------------------------------------
(* Repairs.                                                                *)

MaxRepairs == IF MinRepair > RepairMax THEN MinRepair ELSE RepairMax

Lesser(n, m) == IF n < m THEN n ELSE m

(* record_repair_attempt: the evidence may have changed since the last     *)
(* one.  Counts beyond the limits they are compared with are not told      *)
(* apart; without fix-first only the number of attempts counts.            *)
Attempt(class, changed) ==
    LET n == Lesser(repairs + 1, MaxRepairs)
        s == IF class = broken /\ ~changed THEN Lesser(stale + 1, NoProgressLimit) ELSE 0
    IN  [n |-> n, s |-> IF mode.fixFirst THEN s ELSE 0,
         over |-> mode.fixFirst /\ (n >= RepairMax \/ s >= NoProgressLimit)]

RecordRepair(class, changed) ==
    LET a == Attempt(class, changed)
    IN  /\ repairs' = a.n /\ stale' = a.s /\ broken' = class
        /\ terminal' = IF a.over THEN "repair_exhausted" ELSE terminal

(* clear_repair_trigger does nothing unless fix-first is on.               *)
ClearRepair ==
    /\ repairs' = IF mode.fixFirst THEN 0 ELSE repairs
    /\ stale' = IF mode.fixFirst THEN 0 ELSE stale
    /\ broken' = IF mode.fixFirst THEN "none" ELSE broken

NoStreak == [count |-> 0, sig |-> "none"]

(* record_state_change.                                                    *)
StateChangeIgnored == idle' = 0 /\ UNCHANGED streak

StateChange == streak' = NoStreak /\ idle' = 0

(* record_run_experiment.                                                  *)
Recorded(outcome) ==
    /\ exps' = [many |-> IF exps.many = 0 THEN 1 ELSE 2, bad |-> outcome # "ok"]
    /\ ran' = TRUE
    /\ StateChange

(* run_experiment returns: the primitive records the outcome, then the     *)
(* wrapper of the tool looks at it.                                        *)
RunExperiment(outcome) ==
    /\ Up /\ Recorded(outcome) /\ fatal' = (outcome = "fatal")
    /\ CASE outcome = "repairable" -> \E changed \in BOOLEAN : RecordRepair("experiment", changed)
         [] outcome = "ok" -> ClearRepair /\ UNCHANGED terminal
         [] outcome = "exhausted" -> terminal' = "capacity" /\ UNCHANGED <<repairs, stale, broken>>
         [] OTHER -> UNCHANGED <<repairs, stale, broken, terminal>>
    /\ UNCHANGED <<mode, turn, empty, near, hung, score, tested, refusals, answered, closed, pairs>>

(* The call exceeds its time and is abandoned; "retryable" is no success   *)
(* of a repair, and the wrapper clears the trigger all the same.           *)
ExperimentHangs ==
    /\ Up /\ ~hung
    /\ hung' = TRUE /\ fatal' = FALSE
    /\ ClearRepair
    /\ UNCHANGED <<mode, turn, empty, near, exps, ran, terminal, score, tested, refusals, streak,
                   answered, closed, idle, pairs>>

(* Its thread ends later and records an outcome that nobody waits for.     *)
LateOutcome(outcome) ==
    /\ closed = "up" /\ hung
    /\ hung' = FALSE
    /\ Recorded(outcome)
    /\ UNCHANGED <<mode, turn, empty, near, fatal, repairs, stale, broken, terminal, score, tested,
                   refusals, answered, closed, pairs>>

(* implement_baseline or build_environment.                                *)
Build ==
    /\ Up /\ StateChange
    /\ UNCHANGED <<mode, turn, empty, near, exps, fatal, hung, ran, repairs, stale, broken, terminal,
                   score, tested, refusals, answered, closed, pairs>>

(* verify_against_rubric, record_candidate_outcome.                        *)
Grade(s) ==
    /\ Up /\ ran
    /\ score' = s /\ tested' \in {tested, TRUE}
    /\ UNCHANGED <<mode, turn, empty, near, exps, fatal, hung, ran, policy, answered, closed, idle, pairs>>

ClockRunsDown ==
    /\ closed = "up" /\ ~near /\ near' = TRUE
    /\ UNCHANGED <<mode, turn, empty, exps, fatal, hung, ran, policy, score, tested, answered, closed,
                   idle, pairs>>

-----------------------------------------------------------------------------
(* FINAL_VAR.                                                              *)

TwoExperiments == exps.many = 2 /\ exps.bad

(* should_refuse accepts before it looks at the work.                      *)
LetGoUncapped == near \/ terminal # "none" \/ (MaxIterations > 0 /\ turn >= MaxIterations)

LetGo == LetGoUncapped \/ refusals >= MaxRefusals

(* The repair floor, and beyond it while repairs make progress.            *)
RepairDue ==
    /\ broken # "none"
    /\ \/ MinRepair > 0 /\ repairs < MinRepair
       \/ mode.fixFirst /\ repairs < RepairMax /\ stale < NoProgressLimit

(* The reason for a refusal once an experiment ran and no gate objects;    *)
(* due says whether a repair is.                                           *)
Objection(due) ==
    CASE MinIterations = 0 -> IF due THEN "repair_floor" ELSE "none"
      [] MinIterations > 0 /\ score = "none" ->
           IF due THEN "repair_floor"
           ELSE IF turn < MinIterations \/ mode.hardFloor THEN "no_rubric" ELSE "none"
      [] MinIterations > 0 /\ score = "met" -> "none"
      [] MinIterations > 0 /\ score = "below" ->
           IF turn < MinIterations \/ ~tested THEN "below_target"
           ELSE IF due THEN "repair_floor" ELSE IF mode.hardFloor THEN "below_target" ELSE "none"

(* register_refusal: at the threshold the callback stops the run.  The     *)
(* repairs of fix-first have a budget of their own.                        *)
RegisterRefusal(sig) ==
    LET n == IF sig = streak.sig THEN streak.count + 1 ELSE 1
        counts == ~(sig = "repair_floor" /\ mode.fixFirst)
    IN  /\ refusals' = refusals + 1 /\ idle' = idle + 1
        /\ streak' = IF counts THEN [count |-> n, sig |-> sig] ELSE streak
        /\ terminal' = IF counts /\ n >= Threshold /\ ~near /\ terminal # "capacity"
                       THEN "degenerate" ELSE terminal

NoExps == [many |-> 0, bad |-> FALSE]

Refuse(sig) == RegisterRefusal(sig) /\ exps' = NoExps /\ UNCHANGED answered

Accept == answered' = TRUE /\ UNCHANGED <<exps, refusals, streak, idle>>

(* Asked first, before the clock and the limits.                           *)
FinalVarTwo ==
    /\ Up /\ TwoExperiments /\ pairs < MaxPairs
    /\ Refuse("two") /\ pairs' = pairs + 1
    /\ UNCHANGED <<mode, turn, empty, near, fatal, hung, ran, repairs, stale, broken, score, tested, closed>>

FinalVarLetGo ==
    /\ Up /\ ~TwoExperiments /\ LetGo /\ Accept
    /\ UNCHANGED <<mode, turn, empty, near, fatal, hung, ran, repairs, stale, broken, terminal,
                   score, tested, closed, pairs>>

FinalVarNoExperiment ==
    /\ Up /\ ~TwoExperiments /\ ~LetGo /\ ~ran
    /\ Refuse("no_experiment")
    /\ UNCHANGED <<mode, turn, empty, near, fatal, hung, ran, repairs, stale, broken, score, tested,
                   closed, pairs>>

(* The validator or the claim gate vetoes; it counts as a repair, and the  *)
(* repair that exhausts the budget is accepted at once.                    *)
FinalVarVetoed(class) ==
    /\ Up /\ ~TwoExperiments /\ ~LetGo /\ ran /\ mode.fixFirst
    /\ \E changed \in BOOLEAN :
          LET a == Attempt(class, changed)
          IN  /\ repairs' = a.n /\ stale' = a.s /\ broken' = class
              /\ IF a.over THEN Accept /\ terminal' = "repair_exhausted" ELSE Refuse("repair_floor")
    /\ UNCHANGED <<mode, turn, empty, near, fatal, hung, ran, score, tested, closed, pairs>>

(* No gate objects; the trigger of an earlier objection of the claim gate  *)
(* is cleared.                                                             *)
FinalVarJudged ==
    /\ Up /\ ~TwoExperiments /\ ~LetGo /\ ran
    /\ IF broken = "claim" THEN ClearRepair ELSE UNCHANGED <<repairs, stale, broken>>
    /\ LET reason == Objection(broken # "claim" /\ RepairDue)
       IN  IF reason = "none" THEN Accept /\ UNCHANGED terminal ELSE Refuse(reason)
    /\ UNCHANGED <<mode, turn, empty, near, fatal, hung, ran, score, tested, closed, pairs>>

(* The end of a turn is logged: a fatal result, or a root that writes no   *)
(* code, aborts the run even if an answer was accepted.                    *)
EndTurn(code) ==
    LET e == IF code THEN 0 ELSE empty + 1
    IN  /\ closed = "up" /\ (answered => code)
        /\ turn < MaxTurns
        /\ turn' = turn + 1 /\ empty' = e
        /\ exps' = NoExps /\ answered' = FALSE
        /\ closed' = CASE e >= Threshold \/ fatal -> "aborted"
                    [] answered /\ ~fatal -> "answered"
                    [] ~answered /\ ~fatal /\ e < Threshold /\ turn + 1 = MaxTurns -> "exhausted"
                    [] OTHER -> closed
        /\ UNCHANGED <<mode, near, fatal, hung, ran, policy, score, tested, idle, pairs>>

PolicyInit ==
    /\ mode \in [fixFirst : BOOLEAN, hardFloor : BOOLEAN]
    /\ turn = 0 /\ empty = 0 /\ near = FALSE
    /\ exps = NoExps /\ fatal = FALSE /\ hung = FALSE /\ ran = FALSE
    /\ repairs = 0 /\ stale = 0 /\ broken = "none" /\ terminal = "none"
    /\ score = "none" /\ tested = FALSE
    /\ refusals = 0 /\ streak = NoStreak
    /\ answered = FALSE /\ closed = "up"
    /\ idle = 0 /\ pairs = 0

PolicyNext ==
    \/ \E outcome \in Outcomes : RunExperiment(outcome) \/ LateOutcome(outcome)
    \/ ExperimentHangs \/ Build \/ ClockRunsDown
    \/ \E s \in {"below", "met"} : Grade(s)
    \/ FinalVarTwo \/ FinalVarLetGo \/ FinalVarNoExperiment \/ FinalVarJudged
    \/ \E class \in {"veto", "claim"} : FinalVarVetoed(class)
    \/ \E code \in BOOLEAN : EndTurn(code)

PolicySpec == PolicyInit /\ [][PolicyNext]_pvars

(* A root that does nothing but ask is let go: beyond the refusals for two *)
(* experiments in one turn, a run is refused MaxRefusals times at most,    *)
(* whichever reasons alternate.                                            *)
ChurnBounded == PolicyTypeOK /\ refusals <= MaxRefusals + pairs

(* A run is stopped as degenerate only after Threshold refusals with no    *)
(* primitive in between that changed the state, in whatever turns they     *)
(* and the late outcomes fell.                                             *)
DegenerateIsIdle ==
    [][terminal' = "degenerate" /\ terminal # "degenerate" => idle' >= Threshold]_pvars
=============================================================================
