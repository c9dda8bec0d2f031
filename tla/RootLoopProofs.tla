--------------------------- MODULE RootLoopProofs ---------------------------
(***************************************************************************)
(* Proofs about the end of a run, for any limits of the policy and any     *)
(* grades and targets: how often a root may be refused (ForcedIteration)   *)
(* and what the report it stops with may claim (FinalReport).              *)
(***************************************************************************)
EXTENDS ForcedIteration, FinalReport, TLAPS

(* A refusal clears the turn's experiments and an experiment clears the    *)
(* streak, so that the two never stand together: the refusals for two      *)
(* experiments cannot add up to a streak.  Those are the only ones that    *)
(* come after the policy let the root go.                                  *)
StreakMeansIdle ==
    /\ exps.many # 0 => streak = NoStreak
    /\ streak.count <= idle
    /\ terminal = "none" /\ ~near => streak.count < Threshold

(* A run with Threshold empty turns is over.                               *)
EmptyTurnsEnd == closed = "up" => empty < Threshold

PolicyInv == PolicyTypeOK /\ StreakMeansIdle /\ EmptyTurnsEnd /\ ChurnBounded

(* A refusal other than the one for two experiments, which the limits on   *)
(* refusals do not stop.                                                   *)
LEMMA RefusalKeepsInv ==
    ASSUME PolicyInv, NEW sig \in Signatures \ {"none"}, Refuse(sig),
           UNCHANGED <<turn, empty, near, fatal, hung, ran, mode, score, tested, closed>>,
           \/ ~LetGo /\ pairs' = pairs
           \/ exps.many = 2 /\ pairs' = pairs + 1,
           repairs' \in 0..(MinRepair + RepairMax), stale' \in 0..NoProgressLimit,
           broken' \in {"none", "experiment", "veto", "claim"}
    PROVE  PolicyInv'
<1> DEFINE n == IF sig = streak.sig THEN streak.count + 1 ELSE 1
           counts == ~(sig = "repair_floor" /\ mode.fixFirst)
<1>0. /\ Threshold \in Nat \ {0} /\ MaxRefusals \in Nat /\ refusals \in Nat /\ pairs \in 0..refusals
      /\ idle \in 0..refusals /\ streak \in [count : 0..Threshold, sig : Signatures]
      /\ terminal \in {"none", "capacity", "degenerate", "repair_exhausted"}
  BY PolicyAssumption DEF PolicyInv, ChurnBounded, PolicyTypeOK
<1>1. /\ refusals' = refusals + 1 /\ idle' = idle + 1 /\ exps' = NoExps /\ answered' = answered
      /\ streak' = IF counts THEN [count |-> n, sig |-> sig] ELSE streak
      /\ terminal' = IF counts /\ n >= Threshold /\ ~near /\ terminal # "capacity"
                     THEN "degenerate" ELSE terminal
  BY DEF Refuse, RegisterRefusal
<1>2. n \in 1..Threshold /\ n <= idle + 1
  <2>1. CASE ~LetGo
    <3>1. terminal = "none" /\ ~near
      BY <2>1 DEF LetGo, LetGoUncapped
    <3>2. streak.count < Threshold /\ streak.count <= idle /\ streak.count \in Nat
      BY <1>0, <3>1 DEF PolicyInv, StreakMeansIdle
    <3> QED
      BY <1>0, <3>2
  <2>2. CASE exps.many = 2
    <3>1. streak = NoStreak
      BY <2>2 DEF PolicyInv, StreakMeansIdle
    <3> QED
      BY <1>0, <3>1 DEF NoStreak
  <2> QED
    BY <2>1, <2>2
<1> HIDE DEF n
<1>3. refusals' <= MaxRefusals + pairs' /\ refusals' \in Nat /\ pairs' \in 0..refusals'
      /\ idle' \in 0..refusals'
  BY <1>0, <1>1 DEF LetGo, PolicyInv, ChurnBounded
<1>4. streak' \in [count : 0..Threshold, sig : Signatures] /\ streak'.count <= idle'
  BY <1>0, <1>1, <1>2 DEF PolicyInv, StreakMeansIdle
<1>5. /\ terminal' \in {"none", "capacity", "degenerate", "repair_exhausted"}
      /\ exps' \in [many : 0..2, bad : BOOLEAN] /\ exps'.many = 0
  BY <1>0, <1>1 DEF NoExps
<1>6. terminal' = "none" /\ ~near' => streak'.count < Threshold
  BY <1>0, <1>1, <1>2 DEF PolicyInv, StreakMeansIdle
<1>7. PolicyTypeOK'
  BY <1>1, <1>3, <1>4, <1>5 DEF PolicyInv, PolicyTypeOK
<1>8. StreakMeansIdle' /\ EmptyTurnsEnd'
  BY <1>4, <1>5, <1>6 DEF StreakMeansIdle, EmptyTurnsEnd, PolicyInv
<1> QED
  BY <1>3, <1>7, <1>8 DEF PolicyInv, ChurnBounded

(* An attempt to repair stays within the limits it is compared with.       *)
LEMMA AttemptFacts ==
    ASSUME PolicyTypeOK, NEW class \in {"experiment", "veto", "claim"}, NEW changed \in BOOLEAN
    PROVE  /\ Attempt(class, changed).n \in 0..(MinRepair + RepairMax)
           /\ Attempt(class, changed).s \in 0..NoProgressLimit
<1>1. /\ MinRepair \in Nat /\ RepairMax \in Nat /\ NoProgressLimit \in Nat
      /\ repairs \in Nat /\ stale \in 0..NoProgressLimit
  BY PolicyAssumption DEF PolicyTypeOK
<1>2. MaxRepairs \in 0..(MinRepair + RepairMax)
  BY <1>1 DEF MaxRepairs
<1>3. Lesser(repairs + 1, MaxRepairs) \in 0..(MinRepair + RepairMax)
  BY <1>1, <1>2 DEF Lesser
<1>4. Lesser(stale + 1, NoProgressLimit) \in 0..NoProgressLimit
  BY <1>1 DEF Lesser
<1> QED
  BY <1>1, <1>3, <1>4 DEF Attempt

(* An experiment, on time or late, or another primitive that changed the   *)
(* state, clears the streak.                                               *)
LEMMA StateChangeKeepsInv ==
    ASSUME PolicyInv, StateChange,
           UNCHANGED <<mode, turn, empty, near, score, tested, refusals, answered, closed, pairs>>,
           exps' \in [many : 0..2, bad : BOOLEAN], {fatal', hung', ran'} \subseteq BOOLEAN,
           repairs' \in 0..(MinRepair + RepairMax), stale' \in 0..NoProgressLimit,
           broken' \in {"none", "experiment", "veto", "claim"},
           terminal' \in {"none", "capacity", "degenerate", "repair_exhausted"}
    PROVE  PolicyInv'
<1>1. Threshold \in Nat \ {0} /\ refusals \in Nat
  BY PolicyAssumption DEF PolicyInv, PolicyTypeOK
<1>2. streak' = NoStreak /\ idle' = 0 /\ streak'.count = 0
  BY DEF StateChange, NoStreak
<1>3. streak' \in [count : 0..Threshold, sig : Signatures] /\ idle' \in 0..refusals
  BY <1>1, <1>2 DEF NoStreak, Signatures
<1>4. PolicyTypeOK'
  BY <1>3 DEF PolicyInv, PolicyTypeOK
<1>5. StreakMeansIdle' /\ EmptyTurnsEnd'
  BY <1>1, <1>2 DEF StreakMeansIdle, EmptyTurnsEnd, PolicyInv
<1> QED
  BY <1>4, <1>5 DEF PolicyInv, ChurnBounded

(* Every step of the root, of a late thread or of the clock keeps it.      *)
LEMMA PolicyInvInductive == PolicyInv /\ [PolicyNext]_pvars => PolicyInv'
<1> SUFFICES ASSUME PolicyInv, [PolicyNext]_pvars PROVE PolicyInv'
  OBVIOUS
<1>0. PolicyTypeOK /\ ChurnBounded
  BY DEF PolicyInv
<1>a. /\ repairs \in 0..(MinRepair + RepairMax) /\ stale \in 0..NoProgressLimit
      /\ broken \in {"none", "experiment", "veto", "claim"}
      /\ terminal \in {"none", "capacity", "degenerate", "repair_exhausted"}
      /\ MinRepair \in Nat /\ RepairMax \in Nat /\ NoProgressLimit \in Nat \ {0}
  BY <1>0, PolicyAssumption DEF PolicyTypeOK
<1>b. ASSUME ClearRepair
      PROVE  /\ repairs' \in 0..(MinRepair + RepairMax) /\ stale' \in 0..NoProgressLimit
             /\ broken' \in {"none", "experiment", "veto", "claim"}
  BY <1>a, <1>b DEF ClearRepair
<1>1. ASSUME NEW outcome \in Outcomes, RunExperiment(outcome) PROVE PolicyInv'
  <2>1. /\ repairs' \in 0..(MinRepair + RepairMax) /\ stale' \in 0..NoProgressLimit
        /\ broken' \in {"none", "experiment", "veto", "claim"}
        /\ terminal' \in {"none", "capacity", "degenerate", "repair_exhausted"}
    <3>1. CASE outcome = "repairable"
      <4>1. PICK changed \in BOOLEAN : RecordRepair("experiment", changed)
        BY <1>1, <3>1 DEF RunExperiment
      <4> QED
        BY <1>0, <1>a, <4>1, AttemptFacts DEF RecordRepair
    <3>2. CASE outcome = "ok"
      BY <1>1, <1>a, <1>b, <3>2 DEF RunExperiment
    <3>3. CASE outcome \in {"partial", "fatal", "exhausted"}
      BY <1>1, <1>a, <3>3 DEF RunExperiment
    <3> QED
      BY <3>1, <3>2, <3>3 DEF Outcomes
  <2>2. /\ exps' \in [many : 0..2, bad : BOOLEAN] /\ {fatal', hung', ran'} \subseteq BOOLEAN
        /\ StateChange
    BY <1>0, <1>1 DEF RunExperiment, Recorded, PolicyTypeOK
  <2> QED
    BY <1>1, <2>1, <2>2, StateChangeKeepsInv DEF RunExperiment
<1>2. ASSUME NEW outcome \in Outcomes, LateOutcome(outcome) PROVE PolicyInv'
  <2>1. /\ exps' \in [many : 0..2, bad : BOOLEAN] /\ {fatal', hung', ran'} \subseteq BOOLEAN
        /\ StateChange
    <3>1. {fatal, hung, ran} \subseteq BOOLEAN /\ exps.many \in 0..2
      BY <1>0 DEF PolicyTypeOK
    <3>2. fatal' = fatal /\ hung' = FALSE /\ ran' = TRUE /\ StateChange
      BY <1>2 DEF LateOutcome, Recorded
    <3>3. exps' = [many |-> IF exps.many = 0 THEN 1 ELSE 2, bad |-> outcome # "ok"]
      BY <1>2 DEF LateOutcome, Recorded
    <3>4. exps' \in [many : 0..2, bad : BOOLEAN]
      BY <3>1, <3>3
    <3>5. {fatal', hung', ran'} \subseteq BOOLEAN
      BY <3>1, <3>2, Zenon
    <3> QED
      BY <3>2, <3>4, <3>5
  <2> QED
    BY <1>2, <1>a, <2>1, StateChangeKeepsInv DEF LateOutcome
<1>3. CASE Build
  <2>1. /\ exps' \in [many : 0..2, bad : BOOLEAN] /\ {fatal', hung', ran'} \subseteq BOOLEAN
    BY <1>0, <1>3 DEF Build, PolicyTypeOK
  <2> QED
    BY <1>3, <1>a, <2>1, StateChangeKeepsInv DEF Build
<1>4. CASE ExperimentHangs
  <2>1. PolicyTypeOK'
    BY <1>0, <1>4, <1>b DEF ExperimentHangs, PolicyTypeOK
  <2> QED
    BY <1>4, <2>1 DEF ExperimentHangs, PolicyInv, StreakMeansIdle, EmptyTurnsEnd, ChurnBounded
<1>5. CASE ClockRunsDown
  <2>1. PolicyTypeOK'
    BY <1>0, <1>5 DEF ClockRunsDown, policy, PolicyTypeOK
  <2> QED
    BY <1>5, <2>1 DEF ClockRunsDown, policy, PolicyInv, StreakMeansIdle, EmptyTurnsEnd, ChurnBounded
<1>6. ASSUME NEW s \in {"below", "met"}, Grade(s) PROVE PolicyInv'
  <2>1. PolicyTypeOK'
    BY <1>0, <1>6 DEF Grade, policy, PolicyTypeOK
  <2> QED
    BY <1>6, <2>1 DEF Grade, policy, PolicyInv, StreakMeansIdle, EmptyTurnsEnd, ChurnBounded
<1>7. CASE FinalVarTwo
  BY <1>7, <1>a, RefusalKeepsInv DEF FinalVarTwo, TwoExperiments, Signatures
<1>8. ASSUME Accept, UNCHANGED <<mode, turn, empty, near, fatal, hung, ran, score, tested, closed, pairs>>,
             repairs' \in 0..(MinRepair + RepairMax), stale' \in 0..NoProgressLimit,
             broken' \in {"none", "experiment", "veto", "claim"},
             terminal' \in {terminal, "repair_exhausted"}
      PROVE  PolicyInv'
  <2>1. PolicyTypeOK'
    BY <1>0, <1>8 DEF Accept, PolicyTypeOK
  <2> QED
    BY <1>8, <2>1 DEF Accept, PolicyInv, StreakMeansIdle, EmptyTurnsEnd, ChurnBounded
<1>9. CASE FinalVarLetGo
  BY <1>8, <1>9, <1>a DEF FinalVarLetGo
<1>10. CASE FinalVarNoExperiment
  BY <1>10, <1>a, RefusalKeepsInv DEF FinalVarNoExperiment, Signatures
<1>11. ASSUME NEW class \in {"veto", "claim"}, FinalVarVetoed(class) PROVE PolicyInv'
  <2>1. PICK changed \in BOOLEAN :
           LET a == Attempt(class, changed)
           IN  /\ repairs' = a.n /\ stale' = a.s /\ broken' = class
               /\ IF a.over THEN Accept /\ terminal' = "repair_exhausted" ELSE Refuse("repair_floor")
    BY <1>11 DEF FinalVarVetoed
  <2>2. /\ repairs' \in 0..(MinRepair + RepairMax) /\ stale' \in 0..NoProgressLimit
        /\ broken' \in {"none", "experiment", "veto", "claim"}
    BY <1>0, <2>1, AttemptFacts
  <2>3. CASE Accept /\ terminal' = "repair_exhausted"
    BY <1>8, <1>11, <2>2, <2>3 DEF FinalVarVetoed
  <2>4. CASE Refuse("repair_floor")
    BY <1>11, <2>2, <2>4, RefusalKeepsInv DEF FinalVarVetoed, Signatures
  <2> QED
    BY <2>1, <2>3, <2>4
<1>12. CASE FinalVarJudged
  <2> DEFINE reason == Objection(broken # "claim" /\ RepairDue)
  <2>1. /\ repairs' \in 0..(MinRepair + RepairMax) /\ stale' \in 0..NoProgressLimit
        /\ broken' \in {"none", "experiment", "veto", "claim"}
    BY <1>12, <1>a, <1>b DEF FinalVarJudged
  <2>2. reason \in Signatures
    <3>1. MinIterations \in Nat /\ score \in {"none", "below", "met"}
      BY <1>0, PolicyAssumption DEF PolicyTypeOK
    <3> QED
      BY <3>1 DEF Objection, Signatures
  <2> HIDE DEF reason
  <2>3. CASE reason = "none"
    BY <1>8, <1>12, <2>1, <2>3 DEF FinalVarJudged, reason
  <2>4. CASE reason # "none"
    <3>1. Refuse(reason) /\ ~LetGo /\ pairs' = pairs
      BY <1>12, <2>4 DEF FinalVarJudged, reason
    <3>2. UNCHANGED <<turn, empty, near, fatal, hung, ran, mode, score, tested, closed>>
      BY <1>12 DEF FinalVarJudged
    <3> QED
      BY <2>1, <2>2, <2>4, <3>1, <3>2, RefusalKeepsInv
  <2> QED
    BY <2>3, <2>4
<1>13. ASSUME NEW code \in BOOLEAN, EndTurn(code) PROVE PolicyInv'
  <2> DEFINE e == IF code THEN 0 ELSE empty + 1
  <2>1. Threshold \in Nat \ {0} /\ MaxTurns \in Nat /\ turn \in 0..MaxTurns /\ empty \in 0..Threshold
    BY <1>0, PolicyAssumption DEF PolicyTypeOK
  <2>2. e \in 0..Threshold /\ empty' = e /\ turn' \in 0..MaxTurns
    BY <1>13, <2>1 DEF EndTurn, PolicyInv, EmptyTurnsEnd
  <2>3. /\ closed' \in {"up", "answered", "aborted", "exhausted"} /\ (closed' = "up" => e < Threshold)
        /\ exps' = NoExps /\ answered' = FALSE
        /\ UNCHANGED <<mode, near, fatal, hung, ran, policy, score, tested, idle, pairs>>
    BY <1>13, <2>1, <2>2 DEF EndTurn
  <2> HIDE DEF e
  <2>4. exps' \in [many : 0..2, bad : BOOLEAN] /\ exps'.many = 0
    BY <2>3 DEF NoExps
  <2>5. PolicyTypeOK'
    BY <1>0, <2>2, <2>3, <2>4 DEF PolicyTypeOK, policy
  <2> QED
    BY <2>2, <2>3, <2>4, <2>5 DEF PolicyInv, StreakMeansIdle, EmptyTurnsEnd, ChurnBounded, policy
<1>14. CASE UNCHANGED pvars
  BY <1>14 DEF pvars, policy, PolicyInv, PolicyTypeOK, StreakMeansIdle, EmptyTurnsEnd, ChurnBounded
<1> QED
  BY <1>1, <1>2, <1>3, <1>4, <1>5, <1>6, <1>7, <1>9, <1>10, <1>11, <1>12, <1>13, <1>14 DEF PolicyNext

(* So it holds throughout a run.                                           *)
LEMMA PolicyInvHolds == PolicySpec => []PolicyInv
<1>1. PolicyInit => PolicyInv
  <2> SUFFICES ASSUME PolicyInit PROVE PolicyInv
    OBVIOUS
  <2>1. /\ {MaxTurns, MinRepair, RepairMax} \subseteq Nat
        /\ {NoProgressLimit, Threshold, MaxRefusals} \subseteq Nat \ {0}
    BY PolicyAssumption
  <2>2. /\ exps \in [many : 0..2, bad : BOOLEAN] /\ exps.many = 0
        /\ streak \in [count : 0..Threshold, sig : Signatures] /\ streak.count = 0
    BY <2>1 DEF PolicyInit, NoExps, NoStreak, Signatures
  <2>3. {near, fatal, hung, ran, tested, answered} \subseteq BOOLEAN
    BY Zenon DEF PolicyInit
  <2>4. PolicyTypeOK
    BY <2>1, <2>2, <2>3 DEF PolicyInit, PolicyTypeOK
  <2> QED
    BY <2>1, <2>2, <2>4 DEF PolicyInit, PolicyInv, StreakMeansIdle, EmptyTurnsEnd, ChurnBounded
<1> QED
  BY <1>1, PolicyInvInductive, PTL DEF PolicySpec

(* However the root mixes its answers, its experiments and their late      *)
(* outcomes, FINAL_VAR is refused at most MaxRefusals times beyond the     *)
(* refusals for two experiments in one turn.                               *)
THEOREM RefusalsAreBounded == PolicySpec => []ChurnBounded
<1>1. PolicyInv => ChurnBounded
  BY DEF PolicyInv
<1> QED
  BY <1>1, PolicyInvHolds, PTL

(* No step stops a run as degenerate unless the root was refused Threshold *)
(* times since a primitive last changed the state.                         *)
THEOREM DegenerateRunsAreIdle == PolicySpec => DegenerateIsIdle
<1>1. PolicyInv /\ [PolicyNext]_pvars =>
         [terminal' = "degenerate" /\ terminal # "degenerate" => idle' >= Threshold]_pvars
  <2> SUFFICES ASSUME PolicyInv, PolicyNext, terminal' = "degenerate", terminal # "degenerate"
               PROVE  idle' >= Threshold
    OBVIOUS
  <2>1. \E sig \in Signatures : RegisterRefusal(sig)
    <3>1. MinIterations \in Nat /\ score \in {"none", "below", "met"}
      BY PolicyAssumption DEF PolicyInv, PolicyTypeOK
    <3>2. \A due \in BOOLEAN : Objection(due) \in Signatures
      BY <3>1 DEF Objection, Signatures
    <3>3. ASSUME NEW outcome \in Outcomes, RunExperiment(outcome) PROVE terminal' # "degenerate"
      BY <3>3 DEF RunExperiment, RecordRepair, Outcomes
    <3>4. ASSUME NEW class \in {"veto", "claim"}, FinalVarVetoed(class)
          PROVE  RegisterRefusal("repair_floor")
      BY <3>4 DEF FinalVarVetoed, Refuse
    <3>5. CASE FinalVarJudged
      <4>1. (broken # "claim" /\ RepairDue) \in BOOLEAN
        BY DEF RepairDue
      <4>2. Refuse(Objection(broken # "claim" /\ RepairDue))
        BY <3>5 DEF FinalVarJudged
      <4> QED
        BY <3>2, <4>1, <4>2 DEF Refuse
    <3>6. CASE FinalVarTwo \/ FinalVarNoExperiment
      BY <3>6 DEF FinalVarTwo, FinalVarNoExperiment, Refuse, Signatures
    <3> QED
      BY <3>3, <3>4, <3>5, <3>6 DEF PolicyNext, LateOutcome, ExperimentHangs, Build, ClockRunsDown, Grade,
         FinalVarLetGo, EndTurn, policy, Signatures
  <2>2. PICK sig \in Signatures : RegisterRefusal(sig)
    BY <2>1
  <2>3. /\ Threshold \in Nat \ {0} /\ idle \in Nat /\ streak.count \in Nat /\ streak.count <= idle
    BY PolicyAssumption DEF PolicyInv, PolicyTypeOK, StreakMeansIdle
  <2> QED
    BY <2>2, <2>3 DEF RegisterRefusal
<1> QED
  BY <1>1, PolicyInvHolds, PTL DEF PolicySpec, DegenerateIsIdle

-----------------------------------------------------------------------------
(* The report.  What a draft may claim before the corrections: only a      *)
(* clean completion may claim a reproduction, and a run with no rows has   *)
(* nothing to grade.                                                       *)
DraftModest ==
    /\ draft.ending = "hardstop" => draft.stopped
    /\ draft.ending \in {"hardstop", "abort"} => draft.verdict # "reproduced"
    /\ draft.ending = "crashed" => draft.verdict = "failed"

NoRowsNoMetrics == rows = {} => metrics = "none"

(* What is on disk was shipped with the evidence of now: nothing changes   *)
(* it after the report is written, and before that there is no report.     *)
NothingYet == shipped.report.ending = "none" => shipped.report = NoDraft

ReportInv ==
    /\ ReportTypeOK /\ DraftModest /\ NoRowsNoMetrics /\ NothingYet
    /\ SuccessIsBacked /\ ScoreBacksVerdict /\ PeakIsShipped

(* Lower is the minimum of the order of verdicts.                          *)
LEMMA LowerFacts ==
    /\ Rank("failed") = 0 /\ Rank("partial") = 1 /\ Rank("reproduced") = 2
    /\ \A v, w \in Verdict :
          /\ Lower(v, w) \in Verdict /\ Lower(v, w) \in {v, w}
          /\ Rank(Lower(v, w)) <= Rank(v) /\ Rank(Lower(v, w)) <= Rank(w)
          /\ Rank(v) <= Rank(w) => Lower(v, w) = v
          /\ Rank(v) \in 0..2
  BY DEF Rank, Lower, Verdict

(* Scores are numbers, and the cap of a score is one of three verdicts.    *)
LEMMA ScoreFacts ==
    /\ NoScore = -1 /\ NoScore \in Graded /\ Score \subseteq Graded
    /\ \A s \in Graded : s \in Int /\ s >= NoScore
    /\ \A s, t \in Graded : MaxScore(s, t) \in {s, t} /\ MaxScore(s, t) >= s /\ MaxScore(s, t) >= t
  BY ReportAssumption DEF NoScore, Graded, MaxScore

(* reconcile_verdict_with_score only lowers, and a second time changes     *)
(* nothing.                                                                *)
LEMMA CapFacts ==
    ASSUME NEW v \in Verdict, NEW s \in Graded
    PROVE  /\ ReconcileWithScore(v, s) \in Verdict
           /\ v = "failed" => ReconcileWithScore(v, s) = "failed"
           /\ v # "reproduced" => ReconcileWithScore(v, s) # "reproduced"
           /\ \A u \in Verdict : Rank(u) <= Rank(ReconcileWithScore(v, s)) => ReconcileWithScore(u, s) = u
<1> DEFINE cap == IF s >= 60 THEN "reproduced" ELSE IF s >= 15 THEN "partial" ELSE "failed"
<1>1. cap \in Verdict
  BY DEF Verdict
<1>2. \A u \in Verdict : ReconcileWithScore(u, s) = Lower(u, cap)
  BY DEF ReconcileWithScore
<1> HIDE DEF cap
<1> QED
  BY <1>1, <1>2, LowerFacts DEF Verdict

(* What the corrections do to a draft, one by one.  Ending and stop flag   *)
(* stay, and none but the two-axis verdict raises a "failed".              *)
Kept(r, x) ==
    /\ x \in Drafts /\ x.ending = r.ending /\ x.stopped = r.stopped
    /\ r.verdict = "failed" => x.verdict = "failed"

(* _apply_evidence_gate: without a call of this process all is "failed".   *)
LEMMA EvidenceGateFacts ==
    ASSUME ReportTypeOK, NEW r \in Drafts
    PROVE  /\ Kept(r, EvidenceGate(r)) /\ EvidenceGate(r).score = r.score
           /\ r.verdict # "reproduced" => EvidenceGate(r).verdict # "reproduced"
           /\ session \cap {"ok", "timeout"} = {} => EvidenceGate(r).verdict = "failed"
<1> DEFINE v == IF ContentEvidence /\ ~Forged THEN r.verdict
                ELSE IF ~Forged /\ TimeoutEvidence THEN Lower(r.verdict, "partial") ELSE "failed"
<1>1. r.verdict \in Verdict /\ "partial" \in Verdict /\ "failed" \in Verdict
  BY DEF Drafts, Verdict
<1>2. v \in Verdict /\ (r.verdict = "failed" => v = "failed") /\ (r.verdict # "reproduced" => v # "reproduced")
  BY <1>1, LowerFacts
<1>3. session \cap {"ok", "timeout"} = {} => v = "failed"
  BY DEF Forged, TimeoutEvidence
<1>4. EvidenceGate(r) = [r EXCEPT !.verdict = v]
  BY DEF EvidenceGate
<1> HIDE DEF v
<1>5. EvidenceGate(r) \in Drafts
  BY <1>2, <1>4 DEF Drafts
<1> QED
  BY <1>2, <1>3, <1>4, <1>5 DEF Kept, Drafts

(* The lift is for clean completions.                                      *)
LEMMA LiftedFacts ==
    ASSUME NEW r \in Drafts
    PROVE  /\ Kept(r, Lifted(r)) /\ Lifted(r).score = r.score
           /\ ~Clean(r) => Lifted(r).verdict = r.verdict
  BY DEF Lifted, Kept, Drafts, Verdict

(* The merge of the graded file.                                           *)
LEMMA MergeFacts ==
    ASSUME ReportTypeOK, NEW r \in Drafts
    PROVE  /\ Kept(r, MergeEvaluation(r))
           /\ ~Clean(r) => MergeEvaluation(r).verdict = r.verdict
<1> DEFINE wins == eval >= r.score
           s == IF wins THEN eval ELSE r.score
           t == IF wins \/ r.target = NoScore THEN r.goal ELSE r.target
           x == [r EXCEPT !.score = s, !.target = t, !.meets = Meets(s, t)]
<1>1. MergeEvaluation(r) = IF eval = NoScore THEN r ELSE Lifted(x)
  BY DEF MergeEvaluation
<1>2. s \in Graded /\ t \in Target \cup {NoScore} /\ Meets(s, t) \in {"yes", "no", "unknown"}
  BY DEF ReportTypeOK, Drafts, Meets
<1> HIDE DEF s, t
<1>3. x \in Drafts /\ x.ending = r.ending /\ x.stopped = r.stopped /\ x.verdict = r.verdict
  BY <1>2 DEF Drafts
<1> HIDE DEF x
<1>4. Clean(x) = Clean(r)
  BY <1>3 DEF Clean
<1>5. Kept(x, Lifted(x)) /\ (~Clean(x) => Lifted(x).verdict = x.verdict)
  BY <1>3, LiftedFacts
<1> QED
  BY <1>1, <1>3, <1>4, <1>5 DEF Kept

(* The floor at the best grade.                                            *)
LEMMA FloorFacts ==
    ASSUME ReportTypeOK, NEW r \in Drafts
    PROVE  /\ Kept(r, FloorAtWrite(r))
           /\ ~Clean(r) => FloorAtWrite(r).verdict = r.verdict
           /\ Clean(r) => FloorAtWrite(r).score >= best
<1> DEFINE m == IF r.target = NoScore THEN r.meets ELSE Meets(best, r.target)
           x == [r EXCEPT !.score = best, !.meets = m]
<1>1. FloorAtWrite(r) = IF Clean(r) /\ best > r.score THEN Lifted(x) ELSE r
  <2>1. x = [r EXCEPT !.score = best, !.meets = IF r.target = NoScore THEN @ ELSE Meets(best, r.target)]
    BY DEF Drafts
  <2> QED
    BY <2>1 DEF FloorAtWrite
<1>2. best \in Graded /\ r.score \in Graded /\ m \in {"yes", "no", "unknown"}
  BY DEF ReportTypeOK, Drafts, Meets
<1> HIDE DEF m
<1>3. /\ x \in Drafts /\ x.ending = r.ending /\ x.stopped = r.stopped /\ x.verdict = r.verdict
      /\ x.score = best
  BY <1>2 DEF Drafts
<1> HIDE DEF x
<1>4. Kept(x, Lifted(x)) /\ Lifted(x).score = x.score
  BY <1>3, LiftedFacts
<1>5. best \in Int /\ r.score \in Int
  BY <1>2, ScoreFacts
<1> QED
  BY <1>1, <1>3, <1>4, <1>5 DEF Kept

(* The cap by the score, under which every lower verdict stands as well.   *)
LEMMA ScoreCapFacts ==
    ASSUME NEW r \in Drafts
    PROVE  /\ Kept(r, ScoreCap(r)) /\ ScoreCap(r).score = r.score
           /\ r.verdict # "reproduced" => ScoreCap(r).verdict # "reproduced"
           /\ r.score # NoScore => \A u \in Verdict :
                 Rank(u) <= Rank(ScoreCap(r).verdict) => ReconcileWithScore(u, r.score) = u
<1> DEFINE v == IF r.score = NoScore THEN r.verdict ELSE ReconcileWithScore(r.verdict, r.score)
<1>1. r.verdict \in Verdict /\ r.score \in Graded /\ Meets(r.score, r.target) \in {"yes", "no", "unknown"}
  BY DEF Drafts, Meets
<1>2. /\ v \in Verdict /\ (r.verdict = "failed" => v = "failed")
      /\ r.verdict # "reproduced" => v # "reproduced"
      /\ r.score # NoScore => \A u \in Verdict : Rank(u) <= Rank(v) => ReconcileWithScore(u, r.score) = u
  BY <1>1, CapFacts
<1>3. ScoreCap(r) = [r EXCEPT !.verdict = v, !.meets = Meets(r.score, r.target)]
  BY DEF ScoreCap, Drafts
<1> HIDE DEF v
<1>4. /\ ScoreCap(r) \in Drafts /\ ScoreCap(r).verdict = v /\ ScoreCap(r).score = r.score
      /\ ScoreCap(r).ending = r.ending /\ ScoreCap(r).stopped = r.stopped
  BY <1>1, <1>2, <1>3 DEF Drafts
<1> QED
  BY <1>2, <1>4 DEF Kept

(* The two-axis verdict raises only where a call of this process ended     *)
(* well.                                                                   *)
LEMMA TwoAxisFacts ==
    ASSUME NEW r \in Drafts, NEW certificate \in {"disabled", "none", "failed", "green"}
    PROVE  LET x == TwoAxisAttach(r, certificate)
           IN  /\ x \in Drafts /\ x.ending = r.ending /\ x.stopped = r.stopped /\ x.score = r.score
               /\ certificate = "disabled" => x = r
               /\ r.verdict = "failed" /\ "ok" \notin session => x.verdict = "failed"
<1> DEFINE new == IF metrics = "none" \/ certificate = "failed" THEN "failed"
                  ELSE IF certificate = "green" THEN "reproduced" ELSE "partial"
           clamped == Rank(new) > Rank(r.verdict) /\ "ok" \notin session
           x == TwoAxisAttach(r, certificate)
<1>1. x = IF certificate = "disabled" \/ clamped THEN r ELSE [r EXCEPT !.verdict = new]
  BY DEF TwoAxisAttach
<1>2. new \in Verdict
  BY DEF Verdict
<1>3. r.verdict = "failed" /\ "ok" \notin session => clamped \/ new = "failed"
  BY <1>2, LowerFacts DEF Verdict
<1> HIDE DEF x, new, clamped
<1>4. x \in Drafts /\ x.ending = r.ending /\ x.stopped = r.stopped /\ x.score = r.score
  BY <1>1, <1>2 DEF Drafts
<1>5. r.verdict = "failed" /\ "ok" \notin session => x.verdict = "failed"
  BY <1>1, <1>3 DEF Drafts
<1> QED
  BY <1>1, <1>4, <1>5 DEF x

(* The claim gate only lowers.                                             *)
LEMMA ClaimGateFacts ==
    ASSUME NEW r \in Drafts, NEW ungrounded \in BOOLEAN
    PROVE  /\ Kept(r, ClaimGate(r, ungrounded)) /\ ClaimGate(r, ungrounded).score = r.score
           /\ Rank(ClaimGate(r, ungrounded).verdict) <= Rank(r.verdict)
<1> DEFINE v == IF ungrounded /\ metrics # "none" THEN Lower(r.verdict, "partial") ELSE r.verdict
<1>1. r.verdict \in Verdict /\ "partial" \in Verdict
  BY DEF Drafts, Verdict
<1>2. v \in Verdict /\ Rank(v) <= Rank(r.verdict) /\ (r.verdict = "failed" => v = "failed")
  BY <1>1, LowerFacts
<1>3. ClaimGate(r, ungrounded) = [r EXCEPT !.verdict = v]
  BY DEF ClaimGate, Drafts
<1> HIDE DEF v
<1>4. ClaimGate(r, ungrounded) \in Drafts /\ ClaimGate(r, ungrounded).verdict = v
  BY <1>2, <1>3 DEF Drafts
<1> QED
  BY <1>2, <1>3, <1>4 DEF Kept, Drafts

(* The six corrections in their order: what any draft has become when it   *)
(* is written.                                                             *)
LEMMA CorrectedFacts ==
    ASSUME ReportTypeOK, DraftModest, NEW ungrounded \in BOOLEAN,
           NEW certificate \in {"disabled", "none", "failed", "green"}
    PROVE  LET w == Corrected(draft, certificate, ungrounded)
           IN  /\ w \in Drafts /\ w.ending = draft.ending /\ w.stopped = draft.stopped
               /\ w.verdict # "failed" => session \cap {"ok", "timeout"} # {}
               /\ w.ending \in {"hardstop", "abort", "crashed"} /\ certificate = "disabled"
                     => w.verdict # "reproduced"
               /\ w.score # NoScore /\ certificate = "disabled"
                     => w.verdict = ReconcileWithScore(w.verdict, w.score)
               /\ w.ending \in {"clean", "crashed"} /\ ~w.stopped => w.score >= best
<1> DEFINE e == EvidenceGate(draft)
           m == MergeEvaluation(e)
           f == FloorAtWrite(m)
           c == ScoreCap(f)
           a == TwoAxisAttach(c, certificate)
           w == ClaimGate(a, ungrounded)
<1>0. draft \in Drafts /\ w = Corrected(draft, certificate, ungrounded)
  BY DEF ReportTypeOK, Corrected
<1>1. /\ Kept(draft, e) /\ (draft.verdict # "reproduced" => e.verdict # "reproduced")
      /\ session \cap {"ok", "timeout"} = {} => e.verdict = "failed"
  BY <1>0, EvidenceGateFacts
<1>2. Kept(e, m) /\ (~Clean(e) => m.verdict = e.verdict)
  <2>1. e \in Drafts
    BY <1>1 DEF Kept
  <2> HIDE DEF e
  <2> QED
    BY <2>1, MergeFacts
<1>3. Kept(m, f) /\ (~Clean(m) => f.verdict = m.verdict) /\ (Clean(m) => f.score >= best)
  <2>1. m \in Drafts
    BY <1>2 DEF Kept
  <2> HIDE DEF m
  <2> QED
    BY <2>1, FloorFacts
<1>4. /\ Kept(f, c) /\ c.score = f.score /\ (f.verdict # "reproduced" => c.verdict # "reproduced")
      /\ f.score # NoScore => \A u \in Verdict :
            Rank(u) <= Rank(c.verdict) => ReconcileWithScore(u, f.score) = u
  <2>1. f \in Drafts
    BY <1>3 DEF Kept
  <2> HIDE DEF f
  <2> QED
    BY <2>1, ScoreCapFacts
<1>5. /\ a \in Drafts /\ a.ending = c.ending /\ a.stopped = c.stopped /\ a.score = c.score
      /\ certificate = "disabled" => a = c
      /\ c.verdict = "failed" /\ "ok" \notin session => a.verdict = "failed"
  <2>1. c \in Drafts
    BY <1>4 DEF Kept
  <2> HIDE DEF c
  <2> QED
    BY <2>1, TwoAxisFacts
<1>6. Kept(a, w) /\ w.score = a.score /\ Rank(w.verdict) <= Rank(a.verdict)
  <2>1. a \in Drafts
    BY <1>5
  <2> HIDE DEF a
  <2> QED
    BY <2>1, ClaimGateFacts
<1> HIDE DEF e, m, f, c, a, w
<1>7. /\ w \in Drafts /\ w.ending = draft.ending /\ w.stopped = draft.stopped /\ w.score = f.score
      /\ m.ending = draft.ending /\ m.stopped = draft.stopped
      /\ e.ending = draft.ending /\ e.stopped = draft.stopped
  BY <1>1, <1>2, <1>3, <1>4, <1>5, <1>6 DEF Kept
<1>8. w.verdict # "failed" => session \cap {"ok", "timeout"} # {}
  BY <1>1, <1>2, <1>3, <1>4, <1>5, <1>6 DEF Kept
<1>9. ASSUME w.ending \in {"hardstop", "abort", "crashed"}, certificate = "disabled"
      PROVE  w.verdict # "reproduced"
  <2>1. CASE w.ending = "crashed"
    BY <2>1, <1>1, <1>2, <1>3, <1>4, <1>5, <1>6, <1>7, <1>9 DEF Kept, DraftModest
  <2>2. CASE w.ending # "crashed"
    <3>1. ~Clean(e) /\ ~Clean(m) /\ draft.verdict # "reproduced"
      BY <1>7, <1>9, <2>2 DEF Clean, DraftModest
    <3>2. c.verdict # "reproduced" /\ a = c
      BY <3>1, <1>1, <1>2, <1>3, <1>4, <1>5, <1>9
    <3>3. w.verdict \in Verdict /\ c.verdict \in Verdict
      BY <1>4, <1>6 DEF Kept, Drafts
    <3> QED
      BY <3>2, <3>3, <1>6, LowerFacts DEF Verdict
  <2> QED
    BY <2>1, <2>2
<1>10. ASSUME w.score # NoScore, certificate = "disabled"
       PROVE  w.verdict = ReconcileWithScore(w.verdict, w.score)
  <2>1. w.verdict \in Verdict
    BY <1>6 DEF Kept, Drafts
  <2> QED
    BY <1>4, <1>5, <1>6, <1>7, <1>10, <2>1
<1>11. w.ending \in {"clean", "crashed"} /\ ~w.stopped => w.score >= best
  BY <1>3, <1>7 DEF Clean
<1> QED
  BY <1>0, <1>7, <1>8, <1>9, <1>10, <1>11

(* A late grade changes a verdict only where there is something to grade.  *)
LEMMA RegradeFacts ==
    ASSUME ReportTypeOK, NEW r \in Drafts, Regrade(r)
    PROVE  /\ draft' \in Drafts /\ eval' \in Graded
           /\ draft'.ending = r.ending /\ draft'.stopped = r.stopped
           /\ draft'.verdict = r.verdict \/ (r.verdict = "failed" /\ metrics # "none")
<1>1. CASE draft' = r /\ eval' = eval
  BY <1>1 DEF ReportTypeOK
<1>2. ASSUME NEW fresh \in Score, Regradable(r), draft' = Regraded(r, fresh), eval' = fresh
      PROVE  /\ draft' \in Drafts /\ eval' \in Graded
             /\ draft'.ending = r.ending /\ draft'.stopped = r.stopped
             /\ draft'.verdict = r.verdict \/ (r.verdict = "failed" /\ metrics # "none")
  <2> DEFINE t == IF r.target = NoScore THEN r.goal ELSE r.target
             v == IF r.verdict = "failed" /\ fresh >= t THEN "reproduced" ELSE r.verdict
  <2>1. t \in Target \cup {NoScore} /\ v \in Verdict /\ fresh \in Graded
        /\ Meets(fresh, t) \in {"yes", "no", "unknown"}
    BY DEF Drafts, Verdict, Graded, Meets
  <2>2. v = r.verdict \/ (r.verdict = "failed" /\ metrics # "none")
    BY <1>2 DEF Regradable
  <2>3. draft' = [r EXCEPT !.score = fresh, !.target = t, !.meets = Meets(fresh, t), !.verdict = v]
    BY <1>2 DEF Regraded, Drafts
  <2> HIDE DEF t, v
  <2> QED
    BY <1>2, <2>1, <2>2, <2>3 DEF Drafts
<1> QED
  BY <1>1, <1>2 DEF Regrade

(* A step that writes no report keeps what is claimed about the last one,  *)
(* for there is none while the run goes on.                                *)
LEMMA NotShippedYet ==
    ASSUME ReportInv, shipped.report.ending = "none", shipped' = shipped, ReportTypeOK'
    PROVE  NothingYet' /\ SuccessIsBacked' /\ ScoreBacksVerdict' /\ PeakIsShipped'
<1>1. shipped.report = NoDraft
  BY DEF ReportInv, NothingYet
<1>2. NoDraft.ending = "none" /\ NoDraft.verdict = "failed" /\ NoDraft.score = NoScore
  BY DEF NoDraft, Draft
<1> QED
  BY <1>1, <1>2 DEF NothingYet, SuccessIsBacked, ScoreBacksVerdict, PeakIsShipped, Shipped

(* Every step of a run, and each of the ways it ends, keeps the invariant. *)
LEMMA ReportInvInductive == ReportInv /\ [ReportNext]_reportVars => ReportInv'
<1> SUFFICES ASSUME ReportInv, [ReportNext]_reportVars PROVE ReportInv'
  OBVIOUS
<1>0. ReportTypeOK /\ DraftModest /\ NoRowsNoMetrics
  BY DEF ReportInv
<1>a. NoDraft \in Drafts /\ NoDraft.ending = "none"
  BY ScoreFacts DEF NoDraft, Draft, Drafts, Meets, Ending, Verdict
<1>b. Running => draft.ending = "none" /\ shipped.report.ending = "none"
  BY DEF Running
<1>c. ASSUME shipped.report.ending = "none", shipped' = shipped, draft' \in Drafts, eval' \in Graded,
             UNCHANGED <<ever, session, rows, best, metrics>>, DraftModest'
      PROVE  ReportInv'
  <2>1. ReportTypeOK' /\ NoRowsNoMetrics'
    BY <1>0, <1>c DEF ReportTypeOK, NoRowsNoMetrics
  <2> QED
    BY <1>c, <2>1, NotShippedYet DEF ReportInv
<1>1. ASSUME NEW outcome \in {"success", "hollow", "timeout", "crashed", "nothing"}, Experiment(outcome)
      PROVE  ReportInv'
  <2>1. ReportTypeOK'
    <3>1. ever' \in BOOLEAN /\ metrics' \in {"none", "graded", "grown"}
      BY <1>0, <1>1 DEF Experiment, ReportTypeOK
    <3>2. session' \subseteq {"ok", "timeout", "failed"} /\ rows' \subseteq {"success", "timeout", "crashed"}
      BY <1>0, <1>1 DEF Experiment, ReportTypeOK
    <3> QED
      BY <1>0, <1>1, <3>1, <3>2 DEF Experiment, ReportTypeOK
  <2>2. DraftModest' /\ NoRowsNoMetrics'
    BY <1>0, <1>1 DEF Experiment, DraftModest, NoRowsNoMetrics
  <2> QED
    BY <1>1, <1>b, <2>1, <2>2, NotShippedYet DEF Experiment, ReportInv
<1>2. ASSUME NEW kind \in {"success", "timeout"}, RootWritesRow(kind) PROVE ReportInv'
  <2>1. ReportTypeOK' /\ DraftModest' /\ NoRowsNoMetrics'
    BY <1>0, <1>2 DEF RootWritesRow, ReportTypeOK, DraftModest, NoRowsNoMetrics
  <2> QED
    BY <1>2, <1>b, <2>1, NotShippedYet DEF RootWritesRow, ReportInv
<1>3. ASSUME NEW s \in Score, VerifyAgainstRubric(s) PROVE ReportInv'
  <2>1. best' \in Graded /\ eval' \in Graded
    BY <1>0, <1>3, ScoreFacts DEF VerifyAgainstRubric, ReportTypeOK
  <2>2. ReportTypeOK' /\ DraftModest' /\ NoRowsNoMetrics'
    BY <1>0, <1>3, <2>1 DEF VerifyAgainstRubric, ReportTypeOK, DraftModest, NoRowsNoMetrics
  <2> QED
    BY <1>3, <1>b, <2>2, NotShippedYet DEF VerifyAgainstRubric, ReportInv
<1>4. CASE WarmRetry
  <2>1. ReportTypeOK' /\ DraftModest' /\ NoRowsNoMetrics'
    BY <1>0, <1>4, <1>a DEF WarmRetry, ReportTypeOK, DraftModest, NoRowsNoMetrics
  <2> QED
    BY <1>4, <2>1, NotShippedYet DEF WarmRetry, ReportInv
<1>5. CASE FinalizeAnswer
  <2>1. PICK goal \in Target, claim \in Verdict, reported \in BOOLEAN, s \in Graded, stopped \in BOOLEAN,
             rescored \in Graded, t \in Target \cup {NoScore} :
           Regrade(BuildFinalReport(goal, claim, reported, s, t, stopped, rescored))
    <3>1. {NoScore} \subseteq Graded
      BY ScoreFacts
    <3>2. (IF eval = NoScore THEN {NoScore} ELSE Graded) \subseteq Graded
      BY <3>1
    <3> QED
      BY <1>5, <3>2 DEF FinalizeAnswer
  <2> DEFINE r == BuildFinalReport(goal, claim, reported, s, t, stopped, rescored)
  <2>2. r \in Drafts /\ r.ending = "clean"
    <3> DEFINE floored == MaxScore(s, best)
               measured == ContentEvidence \/ (reported /\ ever)
               final == IF rescored # NoScore THEN rescored
                        ELSE IF eval # NoScore THEN MaxScore(eval, best) ELSE floored
               v == ReconcileWithEvidence(claim, measured, floored)
    <3>1. final \in Graded /\ t \in Target \cup {NoScore} /\ goal \in Target \cup {NoScore}
      BY <1>0, ScoreFacts DEF ReportTypeOK
    <3>2. v \in Verdict /\ "clean" \in Ending
      BY DEF ReconcileWithEvidence, Verdict, Ending
    <3>3. r = Draft("clean", goal, v, final, t, stopped, rescored)
      BY DEF BuildFinalReport
    <3> HIDE DEF r, v, final
    <3> QED
      BY <3>1, <3>2, <3>3 DEF Draft, Drafts, Meets
  <2> HIDE DEF r
  <2>3. draft' \in Drafts /\ eval' \in Graded /\ draft'.ending = "clean"
    BY <1>0, <2>1, <2>2, RegradeFacts DEF r
  <2>4. DraftModest'
    BY <2>3 DEF DraftModest
  <2> QED
    BY <1>5, <1>b, <1>c, <2>3, <2>4 DEF FinalizeAnswer
<1>6. CASE FinalizeCrash
  <2>1. PICK goal \in Target : draft' = Draft("crashed", goal, "failed", NoScore, NoScore, FALSE, NoScore)
    BY <1>6 DEF FinalizeCrash
  <2>2. draft' \in Drafts /\ draft'.ending = "crashed" /\ draft'.verdict = "failed"
    BY <2>1, ScoreFacts DEF Draft, Drafts, Meets, Ending, Verdict
  <2>3. DraftModest'
    BY <2>2 DEF DraftModest
  <2> QED
    BY <1>0, <1>6, <1>b, <1>c, <2>2, <2>3 DEF FinalizeCrash, ReportTypeOK
<1>7. CASE HardStopReport
  <2> DEFINE v == IF best = NoScore THEN "failed" ELSE ReconcileWithScore("partial", best)
  <2>1. PICK goal \in Target : draft' = Draft("hardstop", goal, v, best, NoScore, TRUE, NoScore)
    BY <1>7 DEF HardStopReport
  <2>2. v \in Verdict /\ v # "reproduced" /\ best \in Graded
    BY <1>0, CapFacts DEF ReportTypeOK, Verdict
  <2> HIDE DEF v
  <2>3. draft' \in Drafts /\ draft'.ending = "hardstop" /\ draft'.stopped /\ draft'.verdict = v
    BY <2>1, <2>2, ScoreFacts DEF Draft, Drafts, Meets, Ending
  <2>4. DraftModest' /\ eval' \in Graded
    BY <1>0, <1>7, <2>2, <2>3, ScoreFacts DEF DraftModest, HardStopReport, ReportTypeOK
  <2> QED
    BY <1>7, <1>b, <1>c, <2>3, <2>4 DEF HardStopReport
<1>8. CASE FatalAbort
  <2> DEFINE v == IF rows # {} THEN "partial" ELSE "failed"
  <2>1. PICK goal \in Target : Regrade(Draft("abort", goal, v, NoScore, NoScore, FALSE, NoScore))
    BY <1>8 DEF FatalAbort
  <2> DEFINE r == Draft("abort", goal, v, NoScore, NoScore, FALSE, NoScore)
  <2>2. r \in Drafts /\ r.ending = "abort" /\ r.verdict = v
    BY ScoreFacts DEF Draft, Drafts, Meets, Ending, Verdict
  <2> HIDE DEF r
  <2>3. /\ draft' \in Drafts /\ eval' \in Graded /\ draft'.ending = "abort"
        /\ draft'.verdict = v \/ (v = "failed" /\ metrics # "none")
    BY <1>0, <2>1, <2>2, RegradeFacts DEF r
  <2>4. DraftModest'
    BY <1>0, <2>3 DEF DraftModest, NoRowsNoMetrics
  <2> QED
    BY <1>8, <1>b, <1>c, <2>3, <2>4 DEF FatalAbort
<1>9. CASE WriteReport
  <2>1. PICK certificate \in {"disabled", "none", "failed", "green"}, ungrounded \in BOOLEAN :
           LET w == Corrected(draft, certificate, ungrounded)
           IN  shipped' = [report |-> w, marker |-> w.verdict # "failed", axes |-> certificate # "disabled"]
    BY <1>9 DEF WriteReport
  <2> DEFINE w == Corrected(draft, certificate, ungrounded)
  <2>2. /\ w \in Drafts /\ w.ending = draft.ending /\ w.stopped = draft.stopped
        /\ w.verdict # "failed" => session \cap {"ok", "timeout"} # {}
        /\ w.ending \in {"hardstop", "abort", "crashed"} /\ certificate = "disabled"
              => w.verdict # "reproduced"
        /\ w.score # NoScore /\ certificate = "disabled"
              => w.verdict = ReconcileWithScore(w.verdict, w.score)
        /\ w.ending \in {"clean", "crashed"} /\ ~w.stopped => w.score >= best
    BY <1>0, CorrectedFacts
  <2>3. shipped'.report = w /\ shipped'.marker \in BOOLEAN /\ (~shipped'.axes => certificate = "disabled")
    BY <2>1
  <2> HIDE DEF w
  <2>4. draft' = NoDraft /\ draft.ending # "none" /\ UNCHANGED <<ever, session, rows, eval, best, metrics>>
    BY <1>9 DEF WriteReport
  <2>5. ReportTypeOK'
    BY <1>0, <1>a, <2>2, <2>3, <2>4 DEF ReportTypeOK
  <2>6. DraftModest' /\ NoRowsNoMetrics' /\ NothingYet'
    BY <1>0, <1>a, <2>2, <2>3, <2>4 DEF DraftModest, NoRowsNoMetrics, NothingYet
  <2>7. SuccessIsBacked' /\ ScoreBacksVerdict' /\ PeakIsShipped'
    BY <2>2, <2>3, <2>4, <2>5 DEF SuccessIsBacked, ScoreBacksVerdict, PeakIsShipped, Shipped
  <2> QED
    BY <2>5, <2>6, <2>7 DEF ReportInv
<1>10. CASE UNCHANGED reportVars
  BY <1>10 DEF reportVars, ReportInv, ReportTypeOK, DraftModest, NoRowsNoMetrics, NothingYet,
     SuccessIsBacked, ScoreBacksVerdict, PeakIsShipped, Shipped
<1> QED
  BY <1>1, <1>2, <1>3, <1>4, <1>5, <1>6, <1>7, <1>8, <1>9, <1>10 DEF ReportNext

(* So it holds throughout a run.                                           *)
LEMMA ReportInvHolds == ReportSpec => []ReportInv
<1>1. ReportInit => ReportInv
  <2> SUFFICES ASSUME ReportInit PROVE ReportInv
    OBVIOUS
  <2>1. NoDraft \in Drafts /\ NoDraft.ending = "none" /\ NoDraft.verdict = "failed"
    BY ScoreFacts DEF NoDraft, Draft, Drafts, Meets, Ending, Verdict
  <2>2. NoDraft.score = NoScore
    BY DEF NoDraft, Draft
  <2>3. ReportTypeOK
    BY <2>1, ScoreFacts DEF ReportInit, ReportTypeOK
  <2> QED
    BY <2>1, <2>2, <2>3 DEF ReportInit, ReportInv, DraftModest, NoRowsNoMetrics, NothingYet,
       SuccessIsBacked, ScoreBacksVerdict, PeakIsShipped, Shipped
<1> QED
  BY <1>1, ReportInvInductive, PTL DEF ReportSpec

(* Whatever the root wrote into its directory and however the run ended, a *)
(* report that claims success rests on a call of this process, and only a  *)
(* clean completion is lifted to "reproduced".                             *)
THEOREM ReportedSuccessIsBacked == ReportSpec => []SuccessIsBacked
<1>1. ReportInv => SuccessIsBacked
  BY DEF ReportInv
<1> QED
  BY <1>1, ReportInvHolds, PTL

(* The score on disk carries the verdict on disk, for any grades.          *)
THEOREM ReportedScoreBacksVerdict == ReportSpec => []ScoreBacksVerdict
<1>1. ReportInv => ScoreBacksVerdict
  BY DEF ReportInv
<1> QED
  BY <1>1, ReportInvHolds, PTL

(* A clean completion ships at least the best grade the run recorded.      *)
THEOREM ReportedPeak == ReportSpec => []PeakIsShipped
<1>1. ReportInv => PeakIsShipped
  BY DEF ReportInv
<1> QED
  BY <1>1, ReportInvHolds, PTL
=============================================================================
