---------------------------- MODULE FinalReport ----------------------------
(***************************************************************************)
(* The verdict of a run: what the last report may claim                    *)
(* (backend/agents/rlm/report.py, finalize_regrade.py, two_axis_report.py, *)
(* report_claim_gate.py and the three ways run.py ends a run).             *)
(*                                                                         *)
(* A run leaves evidence behind: rows of experiment_runs.jsonl, grades in  *)
(* rubric_evaluation.json and in the event log, and counts in the ledger   *)
(* of this process.  At its end one of three paths drafts a report, and    *)
(* write_final_report_rlm passes the draft through six corrections, in     *)
(* an order that matters, before it writes the files.  The root model      *)
(* can write to the run's directory, never to the ledger in memory.        *)
(*                                                                         *)
(* Scores are percentages; a missing value is NoScore.                     *)
(***************************************************************************)
EXTENDS Integers, FiniteSets

CONSTANTS
    Score,      \* the grades a verification may give
    Target      \* the target scores a rubric may have

ASSUME ReportAssumption == Score \subseteq 0..100 /\ Target \subseteq 0..100

VARIABLES
    ever,       \* the ledger file has an entry of run_experiment
    session,    \* the outcomes of run_experiment stamped by this process
    rows,       \* experiment_runs.jsonl: the kinds of its rows with metrics
    eval,       \* rubric_evaluation.json: the last grade
    best,       \* the best grade among the rubric_score events
    metrics,    \* code/metrics.json: none, graded, or grown since the grade
    draft,      \* the report under way
    shipped     \* the report on disk, and how it came about

reportVars == <<ever, session, rows, eval, best, metrics, draft, shipped>>

NoScore == -1

Graded == Score \cup {NoScore}

Verdict == {"failed", "partial", "reproduced"}

Ending == {"none", "clean", "crashed", "hardstop", "abort"}

Rank(v) == CASE v = "failed" -> 0 [] v = "partial" -> 1 [] v = "reproduced" -> 2

Lower(v, w) == IF Rank(v) <= Rank(w) THEN v ELSE w

MaxScore(s, t) == IF s >= t THEN s ELSE t

Meets(s, t) == IF NoScore \in {s, t} THEN "unknown" ELSE IF s >= t THEN "yes" ELSE "no"

(* A draft: how the run ends, the rubric's target, and the report's        *)
(* verdict, score, target and meets_target; rescored is the score of a     *)
(* roll-up that left leaves out.                                           *)
Draft(ending, goal, v, s, t, stopped, rescored) ==
    [ending |-> ending, goal |-> goal, verdict |-> v, score |-> s, target |-> t,
     meets |-> Meets(s, t), stopped |-> stopped, rescored |-> rescored]

NoDraft == Draft("none", NoScore, "failed", NoScore, NoScore, FALSE, NoScore)

Drafts == [ending : Ending, goal : Target \cup {NoScore}, verdict : Verdict, score : Graded,
           target : Target \cup {NoScore}, meets : {"yes", "no", "unknown"},
           stopped : BOOLEAN, rescored : Graded]

ReportTypeOK ==
    /\ ever \in BOOLEAN /\ session \subseteq {"ok", "timeout", "failed"}
    /\ rows \subseteq {"success", "timeout", "crashed"}
    /\ eval \in Graded /\ best \in Graded
    /\ metrics \in {"none", "graded", "grown"}
    /\ draft \in Drafts
    /\ shipped.report \in Drafts /\ shipped.marker \in BOOLEAN

-----------------------------------------------------------------------------
(* The corrections that every report passes on its way to disk.            *)

ContentEvidence == "success" \in rows

(* A row of a success that no call of this process can have written.       *)
Forged == ContentEvidence /\ "ok" \notin session

TimeoutEvidence == "timeout" \in session /\ "timeout" \in rows

EvidenceGateContent(r) ==
    [r EXCEPT !.verdict = IF ContentEvidence THEN @
                          ELSE IF TimeoutEvidence THEN Lower(@, "partial") ELSE "failed"]

EvidenceGate(r) ==
    [r EXCEPT !.verdict = IF ContentEvidence /\ ~Forged THEN @
                          ELSE IF ~Forged /\ TimeoutEvidence THEN Lower(@, "partial")
                          ELSE "failed"]

(* No stop reason, and not degraded.                                       *)
Clean(r) == ~r.stopped /\ r.ending # "abort"

(* A report of a clean completion that meets its target is not "partial".  *)
Lifted(r) ==
    [r EXCEPT !.verdict = IF r.meets = "yes" /\ @ = "partial" /\ Clean(r) THEN "reproduced" ELSE @]

(* The graded file wins over the draft's block unless the block is higher. *)
MergeEvaluation(r) ==
    LET wins == eval >= r.score
        s == IF wins THEN eval ELSE r.score
        t == IF wins \/ r.target = NoScore THEN r.goal ELSE r.target
    IN  IF eval = NoScore THEN r
        ELSE Lifted([r EXCEPT !.score = s, !.target = t, !.meets = Meets(s, t)])

FloorAtWriteNone(r) == r

FloorAtWrite(r) ==
    IF Clean(r) /\ best > r.score
    THEN Lifted([r EXCEPT !.score = best,
                          !.meets = IF r.target = NoScore THEN @ ELSE Meets(best, r.target)])
    ELSE r

ReconcileWithScore(v, s) ==
    Lower(v, IF s >= 60 THEN "reproduced" ELSE IF s >= 15 THEN "partial" ELSE "failed")

ScoreCap(r) ==
    [r EXCEPT !.verdict = IF r.score = NoScore THEN @ ELSE ReconcileWithScore(@, r.score),
              !.meets = Meets(r.score, r.target)]

(* The fidelity axis: the certificate, and the rubric's areas other than   *)
(* the results, decide alone; an upgrade needs a call that succeeded.      *)
TwoAxisAttach(r, certificate) ==
    LET new == IF metrics = "none" \/ certificate = "failed" THEN "failed"
               ELSE IF certificate = "green" THEN "reproduced" ELSE "partial"
        clamped == Rank(new) > Rank(r.verdict) /\ "ok" \notin session
    IN  IF certificate = "disabled" \/ clamped THEN r ELSE [r EXCEPT !.verdict = new]

(* A number in the text that was never measured.                           *)
ClaimGate(r, ungrounded) ==
    [r EXCEPT !.verdict = IF ungrounded /\ metrics # "none" THEN Lower(@, "partial") ELSE @]

CorrectedCapFirst(r, certificate, ungrounded) ==
    ClaimGate(TwoAxisAttach(FloorAtWrite(MergeEvaluation(ScoreCap(EvidenceGate(r)))), certificate),
              ungrounded)

Corrected(r, certificate, ungrounded) ==
    ClaimGate(TwoAxisAttach(ScoreCap(FloorAtWrite(MergeEvaluation(EvidenceGate(r)))), certificate),
              ungrounded)

Running == draft.ending = "none" /\ shipped.report.ending = "none"

(* write_final_report_rlm, and the process ends.                           *)
WriteReport ==
    /\ draft.ending # "none"
    /\ \E certificate \in {"disabled", "none", "failed", "green"}, ungrounded \in BOOLEAN :
          LET w == Corrected(draft, certificate, ungrounded)
          IN  shipped' = [report |-> w, marker |-> w.verdict # "failed", axes |-> certificate # "disabled"]
    /\ draft' = NoDraft
    /\ UNCHANGED <<ever, session, rows, eval, best, metrics>>

-----------------------------------------------------------------------------
(* The run: experiments, grades, and a root that may write to its files.   *)

(* A success without metrics leaves a row that no rule looks at.           *)
Experiment(outcome) ==
    /\ Running
    /\ ever' = TRUE
    /\ session' = session \cup {CASE outcome \in {"success", "hollow"} -> "ok"
                                   [] outcome = "timeout" -> "timeout"
                                   [] outcome \in {"crashed", "nothing"} -> "failed"}
    /\ rows' = rows \cup ({outcome} \ {"hollow", "nothing"})
    /\ metrics' = IF outcome \in {"hollow", "nothing"} THEN metrics ELSE "grown"
    /\ UNCHANGED <<eval, best, draft, shipped>>

(* The root appends a row itself: no call, so no entry in the ledger.      *)
RootWritesRow(kind) ==
    /\ Running
    /\ rows' = rows \cup {kind}
    /\ UNCHANGED <<ever, session, eval, best, metrics, draft, shipped>>

(* The event is emitted; the file is written too unless that fails.        *)
VerifyAgainstRubric(s) ==
    /\ Running
    /\ best' = MaxScore(best, s)
    /\ \/ eval' = s /\ metrics' = IF metrics = "grown" THEN "graded" ELSE metrics
       \/ UNCHANGED <<eval, metrics>>
    /\ UNCHANGED <<ever, session, rows, draft, shipped>>

(* The process dies without a report and is started again on the same      *)
(* directory: the files stay, the counts of the session start at zero.     *)
WarmRetry ==
    /\ ever /\ shipped.report.ending = "none"
    /\ session' = {} /\ draft' = NoDraft
    /\ UNCHANGED <<ever, rows, eval, best, metrics, shipped>>

-----------------------------------------------------------------------------
(* The three ways a run drafts its report.                                 *)

(* A fresh grade of evidence that grew after the last one, kept only if    *)
(* it is higher.                                                           *)
Regradable(r) == metrics # "none" /\ (r.score = NoScore \/ eval = NoScore \/ metrics = "grown")

Regraded(r, fresh) ==
    LET t == IF r.target = NoScore THEN r.goal ELSE r.target
    IN  [r EXCEPT !.score = fresh, !.target = t, !.meets = Meets(fresh, t),
                  !.verdict = IF @ = "failed" /\ fresh >= t THEN "reproduced" ELSE @]

(* maybe_regrade, and the draft it leaves.                                 *)
Regrade(r) ==
    \/ draft' = r /\ eval' = eval
    \/ \E fresh \in Score :
          /\ Regradable(r) /\ fresh > r.score
          /\ draft' = Regraded(r, fresh) /\ eval' = fresh

(* "reproduced" needs a call, measured numbers and half of the rubric.     *)
ReconcileWithEvidence(v, measured, s) ==
    IF v = "reproduced" /\ ~(ever /\ measured /\ s >= 50) THEN "partial" ELSE v

(* build_final_report on the root's answer.  The scope guard turns         *)
(* "reproduced" into "partial", another claim of the root.  The rescore    *)
(* replaces the floored score; leaving leaves out may give any score, and  *)
(* the floor returns only when none was.                                   *)
BuildFinalReport(goal, claim, reported, s, t, stopped, rescored) ==
    LET floored == MaxScore(s, best)
        measured == ContentEvidence \/ (reported /\ ever)
        final == IF rescored # NoScore THEN rescored
                 ELSE IF eval # NoScore THEN MaxScore(eval, best) ELSE floored
    IN  Draft("clean", goal, ReconcileWithEvidence(claim, measured, floored), final, t, stopped, rescored)

(* _finalize after an answer; "failed" stands for an unparseable one too.  *)
FinalizeAnswer ==
    /\ Running
    /\ \E goal \in Target, claim \in Verdict, reported \in BOOLEAN, s \in Graded,
          stopped \in BOOLEAN, rescored \in IF eval = NoScore THEN {NoScore} ELSE Graded :
          \E t \in {NoScore, goal} :
             Regrade(BuildFinalReport(goal, claim, reported, s, t, stopped, rescored))
    /\ UNCHANGED <<ever, session, rows, best, metrics, shipped>>

(* _finalize of a run that raised or ran out of budget: no regrade.        *)
FinalizeCrash ==
    /\ Running
    /\ \E goal \in Target : draft' = Draft("crashed", goal, "failed", NoScore, NoScore, FALSE, NoScore)
    /\ UNCHANGED <<ever, session, rows, eval, best, metrics, shipped>>

(* _hard_stop_with_report: the fresh grade goes to the file only, and the  *)
(* salvage floors the score at the best one of the events.                 *)
HardStopReport ==
    /\ Running
    /\ \E fresh \in IF metrics = "none" THEN {eval} ELSE Score \cup {eval} : eval' = fresh
    /\ \E goal \in Target :
          draft' = Draft("hardstop", goal,
                         IF best = NoScore THEN "failed" ELSE ReconcileWithScore("partial", best),
                         best, NoScore, TRUE, NoScore)
    /\ UNCHANGED <<ever, session, rows, best, metrics, shipped>>

(* _finalize_fatal_primitive_abort: marked degraded.                       *)
FatalAbort ==
    /\ Running
    /\ \E goal \in Target :
          Regrade(Draft("abort", goal, IF rows # {} THEN "partial" ELSE "failed",
                        NoScore, NoScore, FALSE, NoScore))
    /\ UNCHANGED <<ever, session, rows, best, metrics, shipped>>

-----------------------------------------------------------------------------
ReportInit ==
    /\ ever = FALSE /\ session = {} /\ rows = {}
    /\ eval = NoScore /\ best = NoScore /\ metrics = "none"
    /\ draft = NoDraft
    /\ shipped = [report |-> NoDraft, marker |-> FALSE, axes |-> FALSE]

ReportNext ==
    \/ \E outcome \in {"success", "hollow", "timeout", "crashed", "nothing"} : Experiment(outcome)
    \/ \E kind \in {"success", "timeout"} : RootWritesRow(kind)
    \/ \E s \in Score : VerifyAgainstRubric(s)
    \/ WarmRetry
    \/ FinalizeAnswer \/ FinalizeCrash \/ HardStopReport \/ FatalAbort
    \/ WriteReport

ReportSpec == ReportInit /\ [][ReportNext]_reportVars

Shipped == shipped.report

(* A report on disk that claims a reproduction, whole or partial, is       *)
(* backed by a call of this very process that ended well or was cut short  *)
(* with metrics: no row of a file, no late grade, no floor and no green    *)
(* certificate can stand in for it (_apply_evidence_gate and the clamp of  *)
(* the two-axis verdict).  And a run that was stopped, aborted or crashed  *)
(* never ships "reproduced" by way of its scores, however good they are:   *)
(* the lifts to "reproduced" are for clean completions.                    *)
SuccessIsBacked ==
    /\ ReportTypeOK
    /\ Shipped.verdict # "failed" => session \cap {"ok", "timeout"} # {}
    /\ Shipped.ending \in {"hardstop", "abort", "crashed"} /\ ~shipped.axes =>
          Shipped.verdict # "reproduced"

(* The score on disk carries the verdict on disk: "reproduced" stands for  *)
(* 0.60 or more and "partial" for 0.15 or more, whichever of the three     *)
(* sources the score came from (reconcile_verdict_with_score), unless the  *)
(* fidelity axis decided.                                                  *)
ScoreBacksVerdict ==
    Shipped.score # NoScore /\ ~shipped.axes =>
        Shipped.verdict = ReconcileWithScore(Shipped.verdict, Shipped.score)

(* The grade a reader sees is never below what the run recorded: a clean   *)
(* completion ships at least its best verification, whatever the root      *)
(* wrote, a later grade said or a rescore gave.                            *)
PeakIsShipped ==
    Shipped.ending \in {"clean", "crashed"} /\ ~Shipped.stopped => Shipped.score >= best
=============================================================================
