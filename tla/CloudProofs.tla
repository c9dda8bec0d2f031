---------------------------- MODULE CloudProofs ----------------------------
(***************************************************************************)
(* Proofs about experiments outside the host, for every value of the       *)
(* constants: the Jobs of a grid on a cluster (CellJobs), whose spend is   *)
(* covered and whose verdicts are earned, and run_experiment on a pod of   *)
(* the cloud (PodRun), which forgets no pod.  JobInv and PodInv are the    *)
(* inductive invariants.                                                   *)
(***************************************************************************)
EXTENDS PodRun, CellJobs, FiniteSetTheorems, TLAPS

(* What is reserved for attempts that have not been submitted, as a set:   *)
(* an attempt on rung e costs e + 1.                                       *)
Due == {x \in JCell \X (0 .. MaxSkuSteps) : at[x[1]] = "submit" /\ x[2] <= rungs[x[1]]}

(* The reservations cover the Jobs and the attempts to come.               *)
Covered == bill + Cardinality(Due) <= reserved

(* A cell that no thread has taken is on the first rung, and one that has  *)
(* an answer has no thread any more.                                       *)
OneThread ==
    jphase = "running" =>
        /\ \A c \in untaken : at[c] = "rest" /\ rungs[c] = 0 /\ answer[c] = "none"
        /\ \A c \in JCell : answer[c] # "none" => at[c] = "rest"

(* A finished Job has no pod, and a pod that runs has a retry left.        *)
PodsOfJobs ==
    \A n \in JobName : /\ jobs[n].cond # "" => jobs[n].pod = "gone"
                       /\ jobs[n].pod = "up" => jobs[n].failed <= Backoff
                       /\ jobs[n].call <= calls

(* A thread watches the Job it submitted in this call, or nothing, and a   *)
(* Job of this call that is complete had a pod that exited with 0.         *)
OwnJob ==
    jphase = "running" =>
        /\ calls > 0
        /\ \A c \in JCell : at[c] = "watch" => jobs[NameOf(c)] = NoJob \/ jobs[NameOf(c)].call = calls
        /\ \A n \in JobName : jobs[n].cond = "Complete" /\ jobs[n].call = calls => n[1] \in exited

(* The inductive invariant of JobSpec.                                     *)
JobInv ==
    /\ JobTypeOK /\ Covered /\ (reserved > 0 => reserved < Cap)
    /\ OneThread /\ PodsOfJobs /\ OwnJob /\ CellVerdictEarned

-----------------------------------------------------------------------------
(* Attempts: a cell and a rung.                                            *)
RungAttempt == JCell \X (0 .. MaxSkuSteps)

(* The records of Jobs in the namespace.                                   *)
JobRecord == [pod: {"absent", "up", "gone"}, failed: 0 .. Backoff + 1,
              cond: {"", "Complete", "Failed"},
              exit: {"none", "zero", "oom", "error", "preempted"}, call: 0 .. MaxCalls]

(* A Job that the cluster will not run again.                              *)
Dead(j) == /\ j.pod \in {"absent", "gone"}
           /\ j.pod = "gone" => j.cond = "Failed" \/ j.failed > Backoff

(* The bounds are numbers.                                                 *)
LEMMA ClusterConstants ==
    MaxSkuSteps \in Nat /\ Backoff \in Nat /\ Cap \in Nat /\ MaxCalls \in Nat
  BY JobAssumption

(* A pod that failed no more than Backoff times has a retry left.          *)
LEMMA RetryLeft ==
    ASSUME NEW b \in Nat, NEW f \in 0 .. b + 1, f <= b
    PROVE  f + 1 \in 0 .. b + 1 /\ ~(f > b)
  OBVIOUS

(* Calls and rungs are counted from 0.                                     *)
LEMMA NotNegative ==
    ASSUME NEW m \in Nat, NEW k \in 0 .. m
    PROVE  k \in Nat /\ 0 <= k /\ k <= k /\ 0 \in 0 .. m
  OBVIOUS

(* No Job, which the cluster does not run.                                 *)
LEMMA NoJobFacts ==
    /\ NoJob \in JobRecord /\ NoJob.pod = "absent" /\ NoJob.cond = "" /\ NoJob.call = 0 /\ Dead(NoJob)
  BY ClusterConstants DEF NoJob, JobRecord, Dead

(* Sets of attempts are finite.                                            *)
LEMMA AttemptsFinite ==
    ASSUME NEW S \in SUBSET RungAttempt
    PROVE  IsFiniteSet(S) /\ Cardinality(S) \in Nat
<1>1. IsFiniteSet(0 .. MaxSkuSteps)
  BY ClusterConstants, FS_Interval
<1>2. IsFiniteSet(RungAttempt)
  BY <1>1, JobAssumption, FS_Product DEF RungAttempt
<1> QED
  BY <1>2, FS_Subset, FS_CardinalityType

(* The cost of an attempt on rung k is the size of its share of Due.       *)
LEMMA CostOfRung ==
    ASSUME NEW c \in JCell, NEW k \in 0 .. MaxSkuSteps
    PROVE  /\ {c} \X (0 .. k) \in SUBSET RungAttempt
           /\ Cardinality({c} \X (0 .. k)) = k + 1
<1>1. k \in Nat /\ \A e \in 0 .. k : e \in 0 .. MaxSkuSteps
  BY ClusterConstants
<1>2. IsFiniteSet(0 .. k) /\ Cardinality(0 .. k) = k + 1
  BY <1>1, FS_Interval
<1>3. IsFiniteSet({c}) /\ Cardinality({c}) = 1
  BY FS_Singleton
<1>4. Cardinality({c} \X (0 .. k)) = 1 * (k + 1)
  BY <1>2, <1>3, FS_Product
<1>5. {c} \X (0 .. k) \subseteq RungAttempt
  BY <1>1 DEF RungAttempt
<1> QED
  BY <1>1, <1>4, <1>5

(* The share of a cell comes to Due, or leaves it.                         *)
LEMMA ShareComesOrGoes ==
    ASSUME NEW S \in SUBSET RungAttempt, NEW T \in SUBSET RungAttempt, NEW c \in JCell,
           NEW k \in 0 .. MaxSkuSteps, T = S \cup ({c} \X (0 .. k)),
           S \cap ({c} \X (0 .. k)) = {}
    PROVE  Cardinality(T) = Cardinality(S) + (k + 1)
<1> DEFINE share == {c} \X (0 .. k)
<1>1. share \in SUBSET RungAttempt /\ Cardinality(share) = k + 1
  BY CostOfRung
<1>2. IsFiniteSet(S) /\ Cardinality(S) \in Nat /\ IsFiniteSet(share) /\ k \in Nat
  BY <1>1, AttemptsFinite
<1>3. T = S \cup share /\ S \cap share = {}
  OBVIOUS
<1> HIDE DEF share
<1>4. Cardinality(T) = Cardinality(S) + Cardinality(share) - Cardinality(S \cap share)
  BY <1>2, <1>3, FS_Union
<1>5. Cardinality(S \cap share) = 0
  BY <1>3, FS_EmptySet
<1> QED
  BY <1>1, <1>2, <1>4, <1>5

(* Names of Jobs hold the cell.                                            *)
LEMMA NameFacts ==
    ASSUME JobTypeOK, NEW c \in JCell
    PROVE  /\ NameOf(c) \in JobName /\ NameOf(c)[1] = c
           /\ \A d \in JCell : NameOf(d) = NameOf(c) => d = c
<1>1. calls \in 0 .. MaxCalls /\ \A d \in JCell : rungs[d] \in 0 .. MaxSkuSteps
  BY DEF JobTypeOK
<1>2. 0 \in 0 .. MaxCalls /\ 0 \in 0 .. MaxSkuSteps
  BY ClusterConstants
<1>3. \A d \in JCell : NameOf(d) \in JobName /\ NameOf(d)[1] = d
  BY <1>1, <1>2 DEF NameOf, JobName
<1> QED
  BY <1>3

(* A step of the cluster changes one Job: it never revives a Job that is   *)
(* over, and a Job becomes complete when its pod exits with 0.             *)
LEMMA ClusterKeepsInv ==
    ASSUME JobInv, NEW n \in JobName, NEW v \in JobRecord, jobs' = [jobs EXCEPT ![n] = v],
           jobs[n].pod # "absent", UNCHANGED orchestratorVars, blob' \in [JCell -> {"none", "ok", "oom"}],
           exited' \subseteq JCell, exited \subseteq exited',
           v.cond # "" => v.pod = "gone", v.pod = "up" => v.failed <= Backoff,
           v = NoJob \/ v.call = jobs[n].call,
           v.cond = "Complete" /\ v.call = calls => n[1] \in exited' \/ jobs[n].cond = "Complete",
           Dead(jobs[n]) => Dead(v)
    PROVE  JobInv'
<1>1. /\ jobs \in [JobName -> JobRecord] /\ jobs'[n] = v
      /\ \A m \in JobName \ {n} : jobs'[m] = jobs[m]
  BY DEF JobInv, JobTypeOK, JobRecord
<1>2. JobTypeOK'
  <2>1. jobs' \in [JobName -> JobRecord]
    BY <1>1
  <2> QED
    BY <2>1 DEF orchestratorVars, callArgs, JobInv, JobTypeOK, JobRecord
<1>3. Covered' /\ (reserved' > 0 => reserved' < Cap) /\ OneThread'
  BY DEF orchestratorVars, callArgs, JobInv, Covered, Due, OneThread
<1>4. PodsOfJobs'
  <2>1. v.call <= calls /\ calls' = calls
    <3>1. calls \in 0 .. MaxCalls
      BY DEF JobInv, JobTypeOK
    <3>2. jobs[n].call <= calls
      BY DEF JobInv, PodsOfJobs
    <3>3. 0 <= calls
      BY <3>1, ClusterConstants, NotNegative
    <3>4. NoJob.call = 0
      BY NoJobFacts
    <3> QED
      BY <3>2, <3>3, <3>4 DEF orchestratorVars, callArgs
  <2> QED
    BY <1>1, <2>1 DEF JobInv, PodsOfJobs
<1>5. \A c \in JCell : NameOf(c)' = NameOf(c) /\ NameOf(c) \in JobName
  BY NameFacts DEF orchestratorVars, callArgs, JobInv, NameOf
<1>6. OwnJob'
  <2> SUFFICES ASSUME jphase = "running"
               PROVE  /\ calls > 0
                      /\ \A c \in JCell : at[c] = "watch" =>
                            jobs'[NameOf(c)] = NoJob \/ jobs'[NameOf(c)].call = calls
                      /\ \A m \in JobName : jobs'[m].cond = "Complete" /\ jobs'[m].call = calls => m[1] \in exited'
    BY <1>5 DEF orchestratorVars, callArgs, OwnJob
  <2>1. /\ calls > 0
        /\ \A c \in JCell : at[c] = "watch" => jobs[NameOf(c)] = NoJob \/ jobs[NameOf(c)].call = calls
        /\ \A m \in JobName : jobs[m].cond = "Complete" /\ jobs[m].call = calls => m[1] \in exited
    BY DEF JobInv, OwnJob
  <2>3. ASSUME NEW c \in JCell, at[c] = "watch"
        PROVE  jobs'[NameOf(c)] = NoJob \/ jobs'[NameOf(c)].call = calls
    <3>1. CASE NameOf(c) # n
      BY <1>1, <1>5, <2>1, <2>3, <3>1
    <3>2. CASE NameOf(c) = n /\ jobs[n].call = calls
      BY <1>1, <3>2
    <3>3. CASE NameOf(c) = n /\ jobs[n] = NoJob
      BY <3>3, NoJobFacts
    <3> QED
      BY <2>1, <2>3, <3>1, <3>2, <3>3
  <2>4. ASSUME NEW m \in JobName, jobs'[m].cond = "Complete", jobs'[m].call = calls PROVE m[1] \in exited'
    <3>1. CASE m # n
      BY <1>1, <2>1, <2>4, <3>1
    <3>2. CASE m = n
      <4>1. v.call = jobs[n].call
        BY <1>1, <2>4, <3>2, NoJobFacts
      <4> QED
        BY <1>1, <2>1, <2>4, <3>2, <4>1
    <3> QED
      BY <3>1, <3>2
  <2> QED
    BY <2>1, <2>3, <2>4
<1>7. CellVerdictEarned'
  <2>1. \A c \in JCell : answer[c] = "ok" => c \in exited'
    BY DEF JobInv, CellVerdictEarned
  <2>2. ASSUME NEW c \in JCell, jphase = "running", answer[c] \in {"error", "oom_failed"}
        PROVE  Dead(jobs'[NameOf(c)])
    <3>1. Dead(jobs[NameOf(c)])
      BY <2>2 DEF JobInv, CellVerdictEarned, JobOf, Dead
    <3> QED
      BY <1>1, <1>5, <3>1
  <2> QED
    BY <1>5, <2>1, <2>2 DEF orchestratorVars, callArgs, CellVerdictEarned, JobOf, Dead
<1> QED
  BY <1>2, <1>3, <1>4, <1>6, <1>7 DEF JobInv

(* Every step of the cluster is one of that kind.                          *)
LEMMA ClusterStep ==
    ASSUME JobInv, NEW n \in JobName,
           \/ PodSucceeds(n) \/ Preempt(n) \/ Reschedule(n)
           \/ JobFails(n) \/ JobExpires(n) \/ JobRemoved(n)
           \/ \E x \in {"oom", "error"} : PodFails(n, x)
    PROVE  JobInv'
<1>0. /\ jobs \in [JobName -> JobRecord] /\ jobs[n] \in JobRecord /\ n[1] \in JCell
      /\ blob \in [JCell -> {"none", "ok", "oom"}] /\ exited \subseteq JCell /\ Backoff \in Nat
  BY ClusterConstants DEF JobInv, JobTypeOK, JobRecord, JobName
<1>1. /\ jobs[n].cond # "" => jobs[n].pod = "gone"
      /\ jobs[n].pod = "up" => jobs[n].failed <= Backoff
  BY DEF JobInv, PodsOfJobs
<1> DEFINE j == jobs[n]
<1>2. CASE PodSucceeds(n)
  <2> DEFINE v == [j EXCEPT !.pod = "gone", !.exit = "zero", !.cond = "Complete"]
  <2>1. v \in JobRecord /\ v.cond = "Complete" /\ v.pod = "gone" /\ v.call = j.call
    BY <1>0 DEF JobRecord
  <2>2. jobs' = [jobs EXCEPT ![n] = v] /\ j.pod = "up" /\ UNCHANGED orchestratorVars
    BY <1>0, <1>2 DEF PodSucceeds
  <2>3. /\ blob' \in [JCell -> {"none", "ok", "oom"}] /\ exited' \subseteq JCell /\ exited \subseteq exited'
        /\ j.call = calls => n[1] \in exited'
    BY <1>0, <1>2 DEF PodSucceeds
  <2>4. ~Dead(j)
    BY <2>2 DEF Dead
  <2> HIDE DEF v
  <2> QED
    BY <2>1, <2>2, <2>3, <2>4, ClusterKeepsInv
<1>3. ASSUME NEW exit \in {"oom", "error", "preempted"}, j.pod = "up", UNCHANGED <<orchestratorVars, exited>>,
             blob' \in [JCell -> {"none", "ok", "oom"}],
             jobs' = [jobs EXCEPT ![n].pod = "gone", ![n].exit = exit, ![n].failed = @ + 1]
      PROVE  JobInv'
  <2> DEFINE v == [j EXCEPT !.pod = "gone", !.exit = exit, !.failed = j.failed + 1]
  <2>1. j.failed + 1 \in 0 .. Backoff + 1 /\ j.cond = ""
    <3>1. PICK f \in 0 .. Backoff + 1 : f = j.failed
      BY <1>0 DEF JobRecord
    <3>2. f <= Backoff
      BY <1>1, <1>3, <3>1
    <3>3. j.cond = ""
      BY <1>1, <1>3
    <3>4. f + 1 \in 0 .. Backoff + 1
      BY <3>2, ClusterConstants, RetryLeft
    <3> QED
      BY <3>1, <3>3, <3>4
  <2>2. v \in JobRecord /\ v.cond = "" /\ v.pod = "gone" /\ v.call = j.call
    BY <1>0, <2>1 DEF JobRecord
  <2>3. jobs' = [jobs EXCEPT ![n] = v]
    BY <1>0, <1>3
  <2>4. ~Dead(j)
    BY <1>3 DEF Dead
  <2> HIDE DEF v
  <2> QED
    BY <1>0, <1>3, <2>2, <2>3, <2>4, ClusterKeepsInv
<1>4. CASE Preempt(n)
  <2>1. blob' \in [JCell -> {"none", "ok", "oom"}]
    BY <1>0, <1>4 DEF Preempt
  <2> QED
    BY <1>3, <1>4, <2>1 DEF Preempt
<1>5. ASSUME NEW x \in {"oom", "error"}, PodFails(n, x) PROVE JobInv'
  <2>1. blob' \in [JCell -> {"none", "ok", "oom"}]
    BY <1>0, <1>5 DEF PodFails
  <2> QED
    BY <1>3, <1>5, <2>1 DEF PodFails
<1>6. CASE Reschedule(n)
  <2> DEFINE v == [j EXCEPT !.pod = "up", !.exit = "none"]
  <2>1. v \in JobRecord /\ v.cond = "" /\ v.pod = "up" /\ v.call = j.call /\ v.failed <= Backoff
    BY <1>0, <1>6 DEF JobRecord, Reschedule
  <2>2. /\ jobs' = [jobs EXCEPT ![n] = v] /\ j.pod = "gone"
        /\ UNCHANGED <<orchestratorVars, blob, exited>>
    BY <1>0, <1>6 DEF Reschedule
  <2>3. ~Dead(j)
    <3>1. PICK f \in 0 .. Backoff + 1 : f = j.failed
      BY <1>0 DEF JobRecord
    <3>2. j.pod = "gone" /\ j.cond = "" /\ f <= Backoff
      BY <1>6, <3>1 DEF Reschedule
    <3>3. ~(f > Backoff)
      BY <3>2, ClusterConstants, RetryLeft
    <3>4. j.cond # "Failed"
      BY <3>2
    <3> QED
      BY <3>1, <3>2, <3>3, <3>4 DEF Dead
  <2> HIDE DEF v
  <2> QED
    BY <1>0, <2>1, <2>2, <2>3, ClusterKeepsInv
<1>7. CASE JobFails(n) \/ JobExpires(n)
  <2> DEFINE w == [j EXCEPT !.pod = "gone", !.cond = "Failed", !.exit = "error"]
             u == [j EXCEPT !.cond = "Failed"]
  <2>1. PICK v \in {u, w} : jobs' = [jobs EXCEPT ![n] = v] /\ (v = u => j.pod = "gone")
    <3>1. CASE JobFails(n)
      BY <1>0, <3>1 DEF JobFails
    <3>2. CASE JobExpires(n)
      <4>1. jobs' = [jobs EXCEPT ![n] = w]
        BY <1>0, <3>2 DEF JobExpires
      <4>2. w # u
        <5>1. w.pod = "gone" /\ u.pod = "up"
          BY <1>0, <3>2 DEF JobExpires, JobRecord
        <5> QED
          BY <5>1
      <4> QED
        BY <4>1, <4>2
    <3> QED
      BY <1>7, <3>1, <3>2
  <2>2. v \in JobRecord /\ v.cond = "Failed" /\ v.pod = "gone" /\ v.call = j.call
    BY <1>0, <2>1 DEF JobRecord
  <2>3. j.pod # "absent" /\ UNCHANGED <<orchestratorVars, blob, exited>>
    BY <1>7 DEF JobFails, JobExpires
  <2>4. Dead(v)
    BY <2>2 DEF Dead
  <2> HIDE DEF u, w
  <2> QED
    BY <1>0, <2>1, <2>2, <2>3, <2>4, ClusterKeepsInv
<1>8. CASE JobRemoved(n)
  BY <1>0, <1>1, <1>8, NoJobFacts, ClusterKeepsInv DEF JobRemoved
<1> QED
  BY <1>2, <1>4, <1>5, <1>6, <1>7, <1>8

-----------------------------------------------------------------------------
(* Due is a finite set.                                                    *)
LEMMA DueFinite ==
    ASSUME JobTypeOK
    PROVE  Due \in SUBSET RungAttempt /\ IsFiniteSet(Due) /\ Cardinality(Due) \in Nat
<1>1. Due \in SUBSET RungAttempt
  BY DEF Due, RungAttempt
<1> QED
  BY <1>1, AttemptsFinite

(* What is covered stays so when attempts leave Due.                       *)
LEMMA FewerDue ==
    ASSUME JobTypeOK, Covered, Due' \subseteq Due, UNCHANGED <<bill, reserved>>
    PROVE  Covered'
<1>1. Cardinality(Due') <= Cardinality(Due)
  BY DueFinite, FS_Subset
<1>2. Cardinality(Due') \in Nat /\ Cardinality(Due) \in Nat
  BY DueFinite, FS_Subset, FS_CardinalityType
<1>3. bill \in Nat /\ reserved \in Nat
  BY DEF JobTypeOK
<1> DEFINE d == Cardinality(Due)
           e == Cardinality(Due')
<1>4. bill + d <= reserved
  BY DEF Covered
<1>5. e <= d /\ d \in Nat /\ e \in Nat
  BY <1>1, <1>2
<1> HIDE DEF d, e
<1>6. bill + e <= reserved
  BY <1>3, <1>4, <1>5
<1> QED
  BY <1>6 DEF Covered, e

(* The thread of a cell ends with an answer: the reservations do not move, *)
(* and the answer is one that the Jobs back.                               *)
LEMMA ThreadEnds ==
    ASSUME JobInv, NEW c \in JCell, NEW result \in CellAnswers, jphase = "running",
           at' = [at EXCEPT ![c] = "rest"], answer' = [answer EXCEPT ![c] = result],
           untaken' \subseteq untaken, c \notin untaken', local' \in [JCell -> BOOLEAN],
           UNCHANGED <<callArgs, rungs, reserved, clusterVars, bill>>,
           result = "ok" => c \in exited,
           result \in {"error", "oom_failed"} => Dead(jobs[NameOf(c)])
    PROVE  JobInv'
<1>1. /\ at \in [JCell -> {"rest", "submit", "watch"}] /\ at'[c] = "rest"
      /\ \A d \in JCell \ {c} : at'[d] = at[d]
  BY DEF JobInv, JobTypeOK
<1>2. /\ answer \in [JCell -> CellAnswers \cup {"none"}] /\ answer'[c] = result
      /\ \A d \in JCell \ {c} : answer'[d] = answer[d]
  BY DEF JobInv, JobTypeOK
<1>3. /\ rungs' = rungs /\ jobs' = jobs /\ exited' = exited /\ reserved' = reserved /\ bill' = bill
      /\ jphase' = jphase /\ calls' = calls
  BY DEF callArgs, clusterVars
<1>4. JobTypeOK'
  BY DEF callArgs, clusterVars, JobInv, JobTypeOK
<1>5. Covered'
  <2>1. Due' \subseteq Due
    BY <1>1, <1>3 DEF Due
  <2> QED
    BY <1>3, <2>1, FewerDue DEF JobInv
<1>6. reserved' > 0 => reserved' < Cap
  BY <1>3 DEF JobInv
<1>7. OneThread'
  BY <1>1, <1>2, <1>3 DEF JobInv, OneThread, CellAnswers
<1>8. PodsOfJobs'
  BY <1>3 DEF JobInv, PodsOfJobs
<1>9. \A d \in JCell : NameOf(d)' = NameOf(d)
  BY <1>3 DEF NameOf
<1>10. OwnJob'
  <2>1. \A d \in JCell : at'[d] = "watch" => at[d] = "watch"
    BY <1>1
  <2> QED
    BY <1>3, <1>9, <2>1 DEF JobInv, OwnJob
<1>11. CellVerdictEarned'
  <2>1. \A d \in JCell : answer'[d] = "ok" => d \in exited
    BY <1>2 DEF JobInv, CellVerdictEarned
  <2>2. ASSUME NEW d \in JCell, answer'[d] \in {"error", "oom_failed"}
        PROVE  Dead(jobs[NameOf(d)])
    <3>1. CASE d = c
      BY <1>2, <2>2, <3>1
    <3>2. CASE d # c
      BY <1>2, <2>2, <3>2 DEF JobInv, CellVerdictEarned, JobOf, Dead
    <3> QED
      BY <3>1, <3>2
  <2> QED
    BY <1>3, <1>9, <2>1, <2>2 DEF CellVerdictEarned, JobOf, Dead
<1> QED
  BY <1>4, <1>5, <1>6, <1>7, <1>8, <1>10, <1>11 DEF JobInv

(* An attempt on rung k is admitted: its cost is reserved and its share    *)
(* comes to Due.                                                           *)
LEMMA AttemptAdmitted ==
    ASSUME JobInv, NEW c \in JCell, NEW k \in 0 .. MaxSkuSteps, jphase = "running",
           at[c] # "submit", answer[c] = "none",
           at' = [at EXCEPT ![c] = "submit"], rungs' = [rungs EXCEPT ![c] = k],
           reserved' = reserved + (k + 1), reserved + (k + 1) < Cap,
           untaken' \subseteq untaken, c \notin untaken', local' \in [JCell -> BOOLEAN],
           UNCHANGED <<callArgs, answer, clusterVars, bill>>
    PROVE  JobInv'
<1>1. /\ at \in [JCell -> {"rest", "submit", "watch"}] /\ at'[c] = "submit"
      /\ \A d \in JCell \ {c} : at'[d] = at[d]
  BY DEF JobInv, JobTypeOK
<1>2. /\ rungs \in [JCell -> 0 .. MaxSkuSteps] /\ rungs'[c] = k
      /\ \A d \in JCell \ {c} : rungs'[d] = rungs[d]
  BY DEF JobInv, JobTypeOK
<1>3. /\ answer' = answer /\ jobs' = jobs /\ exited' = exited /\ bill' = bill
      /\ jphase' = jphase /\ calls' = calls
  BY DEF callArgs, clusterVars
<1>4. reserved \in Nat /\ bill \in Nat /\ k \in Nat /\ MaxSkuSteps \in Nat /\ reserved' \in Nat
  <2>1. reserved \in Nat /\ bill \in Nat
    BY DEF JobInv, JobTypeOK
  <2>2. k \in Nat /\ MaxSkuSteps \in Nat
    BY ClusterConstants, NotNegative
  <2> QED
    BY <2>1, <2>2
<1>5. JobTypeOK'
  BY <1>4 DEF callArgs, clusterVars, JobInv, JobTypeOK
<1>6. Covered'
  <2> DEFINE S == Due
             T == Due'
  <2>1. S \in SUBSET RungAttempt /\ Cardinality(S) \in Nat
    BY DueFinite DEF JobInv
  <2>2. T \in SUBSET RungAttempt
    BY DEF Due, RungAttempt
  <2>3. T = S \cup ({c} \X (0 .. k))
    <3>1. \A x \in RungAttempt : x \in T <=> x \in S \/ (x[1] = c /\ x[2] <= k)
      BY <1>1, <1>2 DEF Due, RungAttempt
    <3>2. \A x \in RungAttempt : x \in {c} \X (0 .. k) <=> (x[1] = c /\ x[2] <= k)
      BY <1>4 DEF RungAttempt
    <3>3. {c} \X (0 .. k) \in SUBSET RungAttempt
      BY CostOfRung
    <3> HIDE DEF S, T
    <3> QED
      BY <2>1, <2>2, <3>1, <3>2, <3>3
  <2>4. S \cap ({c} \X (0 .. k)) = {}
    BY DEF Due
  <2> HIDE DEF S, T
  <2>5. Cardinality(T) = Cardinality(S) + (k + 1)
    BY <2>1, <2>2, <2>3, <2>4, ShareComesOrGoes
  <2>6. bill + Cardinality(S) <= reserved
    BY DEF JobInv, Covered, S
  <2> DEFINE s == Cardinality(S)
  <2>7. bill + (s + (k + 1)) <= reserved + (k + 1)
    <3> HIDE DEF s
    <3>1. s \in Nat /\ bill + s <= reserved
      BY <2>1, <2>6 DEF s
    <3> QED
      BY <1>4, <3>1
  <2> QED
    BY <1>3, <2>5, <2>7 DEF Covered, T
<1>7. reserved' > 0 => reserved' < Cap
  OBVIOUS
<1>8. OneThread'
  BY <1>1, <1>2, <1>3 DEF JobInv, OneThread
<1>9. PodsOfJobs'
  BY <1>3 DEF JobInv, PodsOfJobs
<1>10. \A d \in JCell \ {c} : NameOf(d)' = NameOf(d)
  BY <1>2, <1>3 DEF NameOf
<1>11. OwnJob'
  <2>1. \A d \in JCell : at'[d] = "watch" => d # c /\ at[d] = "watch"
    BY <1>1
  <2> QED
    BY <1>3, <1>10, <2>1 DEF JobInv, OwnJob
<1>12. CellVerdictEarned'
  <2>1. \A d \in JCell : answer[d] \in {"error", "oom_failed"} => d # c
    OBVIOUS
  <2> QED
    BY <1>3, <1>10, <2>1 DEF JobInv, CellVerdictEarned, JobOf
<1> QED
  BY <1>5, <1>6, <1>7, <1>8, <1>9, <1>11, <1>12 DEF JobInv

(* A Job is created: its share leaves Due and its cost comes to the bill.  *)
(* No other cell has the Job's name.                                       *)
LEMMA JobCreated ==
    ASSUME JobInv, NEW c \in JCell, SubmitJob(c)
    PROVE  JobInv'
<1> DEFINE n == NameOf(c)
           v == [NoJob EXCEPT !.pod = "up", !.call = calls]
           k == rungs[c]
<1>0. JobTypeOK /\ n \in JobName /\ n[1] = c /\ \A d \in JCell : NameOf(d) = n => d = c
  BY NameFacts DEF JobInv
<1>1. /\ at \in [JCell -> {"rest", "submit", "watch"}] /\ at[c] = "submit" /\ at'[c] = "watch"
      /\ \A d \in JCell \ {c} : at'[d] = at[d]
  BY DEF JobInv, JobTypeOK, SubmitJob
<1>2. /\ rungs' = rungs /\ answer' = answer /\ exited' = exited /\ reserved' = reserved
      /\ untaken' = untaken /\ jphase = "running" /\ jphase' = jphase /\ calls' = calls
      /\ bill' = bill + (k + 1) /\ jobs' = [jobs EXCEPT ![n] = v]
  BY DEF SubmitJob, callArgs, Cost
<1>3. /\ v \in JobRecord /\ v.cond = "" /\ v.pod = "up" /\ v.call = calls /\ v.failed = 0
  <2>1. calls \in 0 .. MaxCalls
    BY <1>0 DEF JobTypeOK
  <2>2. 0 \in 0 .. Backoff + 1
    BY ClusterConstants
  <2> QED
    BY <2>1, <2>2 DEF NoJob, JobRecord
<1>4. /\ jobs \in [JobName -> JobRecord] /\ jobs' \in [JobName -> JobRecord] /\ jobs'[n] = v
      /\ \A m \in JobName \ {n} : jobs'[m] = jobs[m]
  <2>1. jobs \in [JobName -> JobRecord]
    BY DEF JobInv, JobTypeOK, JobRecord
  <2> HIDE DEF n, v
  <2> QED
    BY <1>0, <1>2, <1>3, <2>1
<1>5. reserved \in Nat /\ bill \in Nat /\ k \in Nat /\ k \in 0 .. MaxSkuSteps
  <2>1. reserved \in Nat /\ bill \in Nat /\ k \in 0 .. MaxSkuSteps
    BY <1>0 DEF JobTypeOK
  <2> HIDE DEF k
  <2> QED
    BY <2>1, ClusterConstants, NotNegative
<1> HIDE DEF n, v, k
<1>6. JobTypeOK'
  <2>1. bill' \in Nat
    BY <1>2, <1>5
  <2> QED
    BY <1>0, <1>4, <2>1 DEF SubmitJob, callArgs, JobTypeOK, JobRecord
<1>7. Covered'
  <2> DEFINE S == Due'
             T == Due
  <2>1. T \in SUBSET RungAttempt
    BY DueFinite DEF JobInv
  <2>2. S \in SUBSET RungAttempt
    BY DEF Due, RungAttempt
  <2>3. T = S \cup ({c} \X (0 .. k))
    <3>1. \A x \in RungAttempt : x \in T <=> x \in S \/ (x[1] = c /\ x[2] <= k)
      BY <1>1, <1>2 DEF Due, RungAttempt, k
    <3>2. \A x \in RungAttempt : x \in {c} \X (0 .. k) <=> (x[1] = c /\ x[2] <= k)
      BY <1>5, ClusterConstants DEF RungAttempt
    <3>3. {c} \X (0 .. k) \in SUBSET RungAttempt
      BY <1>5, CostOfRung
    <3> HIDE DEF S, T
    <3> QED
      BY <2>1, <2>2, <3>1, <3>2, <3>3
  <2>4. S \cap ({c} \X (0 .. k)) = {}
    BY <1>1 DEF Due
  <2> HIDE DEF S, T
  <2>5. Cardinality(T) = Cardinality(S) + (k + 1)
    BY <1>5, <2>1, <2>2, <2>3, <2>4, ShareComesOrGoes
  <2>6. bill + Cardinality(T) <= reserved
    BY DEF JobInv, Covered, T
  <2>7. Cardinality(S) \in Nat
    BY <2>2, AttemptsFinite
  <2> DEFINE s == Cardinality(S)
  <2>8. (bill + (k + 1)) + s <= reserved
    <3> HIDE DEF s
    <3>1. s \in Nat /\ bill + (s + (k + 1)) <= reserved
      BY <2>5, <2>6, <2>7 DEF s
    <3> QED
      BY <1>5, <3>1
  <2> QED
    BY <1>2, <2>8 DEF Covered, S
<1>8. reserved' > 0 => reserved' < Cap
  BY <1>2 DEF JobInv
<1>9. OneThread'
  <2>1. c \notin untaken /\ answer[c] = "none"
    BY <1>1, <1>2 DEF JobInv, OneThread
  <2>2. \A d \in untaken : d \in JCell \ {c} /\ at[d] = "rest" /\ rungs[d] = 0 /\ answer[d] = "none"
    BY <1>0, <1>2, <2>1 DEF JobInv, OneThread, JobTypeOK
  <2>3. \A d \in JCell : answer[d] # "none" => d # c /\ at[d] = "rest"
    BY <1>2, <2>1 DEF JobInv, OneThread
  <2> QED
    BY <1>1, <1>2, <2>2, <2>3 DEF OneThread
<1>10. PodsOfJobs'
  <2>1. calls <= calls
    BY <1>0, ClusterConstants, NotNegative DEF JobTypeOK
  <2>2. 0 <= Backoff
    BY ClusterConstants
  <2> QED
    BY <1>2, <1>3, <1>4, <2>1, <2>2 DEF JobInv, PodsOfJobs
<1>11. \A d \in JCell : NameOf(d)' = NameOf(d) /\ NameOf(d) \in JobName
  BY <1>0, <1>2, NameFacts DEF NameOf
<1>12. OwnJob'
  <2>1. ASSUME NEW d \in JCell, at'[d] = "watch"
        PROVE  jobs'[NameOf(d)] = NoJob \/ jobs'[NameOf(d)].call = calls
    <3>1. CASE d = c
      BY <1>3, <1>4, <3>1 DEF n
    <3>2. CASE d # c
      BY <1>0, <1>1, <1>2, <1>4, <1>11, <2>1, <3>2 DEF JobInv, OwnJob
    <3> QED
      BY <3>1, <3>2
  <2>2. \A m \in JobName : jobs'[m].cond = "Complete" /\ jobs'[m].call = calls => m[1] \in exited
    BY <1>2, <1>3, <1>4 DEF JobInv, OwnJob
  <2>3. calls > 0
    BY <1>2 DEF JobInv, OwnJob
  <2> QED
    BY <1>2, <1>11, <2>1, <2>2, <2>3 DEF OwnJob
<1>13. CellVerdictEarned'
  <2>1. ASSUME NEW d \in JCell, answer[d] \in {"error", "oom_failed"}
        PROVE  Dead(jobs'[NameOf(d)])
    <3>1. d # c
      BY <1>1, <1>2, <2>1 DEF JobInv, OneThread
    <3>2. Dead(jobs[NameOf(d)])
      BY <1>2, <2>1 DEF JobInv, CellVerdictEarned, JobOf, Dead
    <3> QED
      BY <1>0, <1>4, <1>11, <3>1, <3>2
  <2> QED
    BY <1>2, <1>11, <2>1 DEF JobInv, CellVerdictEarned, JobOf, Dead
<1> QED
  BY <1>6, <1>7, <1>8, <1>9, <1>10, <1>12, <1>13 DEF JobInv

(* The orchestrator is not in a call, and has no attempt to come.          *)
LEMMA CallEnds ==
    ASSUME JobInv, JobTypeOK', UNCHANGED <<calls, jobs>>, jphase' # "running",
           Due' \subseteq Due, UNCHANGED <<bill, reserved>> \/ (bill' = 0 /\ reserved' = 0 /\ Due' = {}),
           \A c \in JCell : answer'[c] = "ok" => c \in exited'
    PROVE  JobInv'
<1>1. Covered' /\ (reserved' > 0 => reserved' < Cap)
  <2>1. CASE UNCHANGED <<bill, reserved>>
    BY <2>1, FewerDue DEF JobInv
  <2>2. CASE bill' = 0 /\ reserved' = 0 /\ Due' = {}
    <3>1. Cardinality(Due') = 0
      BY <2>2, FS_EmptySet
    <3> QED
      BY <2>2, <3>1 DEF Covered
  <2> QED
    BY <2>1, <2>2
<1>2. PodsOfJobs'
  BY DEF JobInv, PodsOfJobs
<1> QED
  BY <1>1, <1>2 DEF JobInv, OneThread, OwnJob, CellVerdictEarned

(* A call begins: the reservations are its own, and no Job is.             *)
LEMMA CallBegins ==
    ASSUME JobInv, NEW resume \in BOOLEAN, NEW forced \in SUBSET JCell, CallGrid(resume, forced)
    PROVE  JobInv'
<1>0. /\ jphase' = "running" /\ calls' = calls + 1 /\ untaken' = JCell /\ jobs' = jobs
      /\ at' = [c \in JCell |-> "rest"] /\ rungs' = [c \in JCell |-> 0]
      /\ answer' = [c \in JCell |-> "none"] /\ reserved' = 0 /\ bill' = 0 /\ exited' = {}
  BY DEF CallGrid
<1>1. calls \in Nat /\ calls' \in 0 .. MaxCalls
  <2>1. calls \in 0 .. MaxCalls /\ calls < MaxCalls
    BY DEF JobInv, JobTypeOK, CallGrid
  <2> QED
    BY <1>0, <2>1, ClusterConstants
<1>2. JobTypeOK'
  <2>1. 0 \in 0 .. MaxSkuSteps
    BY ClusterConstants
  <2>2. blob' \in [JCell -> {"none", "ok", "oom"}]
    BY DEF JobInv, JobTypeOK, CallGrid
  <2>3. local' \in [JCell -> BOOLEAN] /\ arm' \in BOOLEAN /\ settled' \subseteq JCell
    BY DEF JobInv, JobTypeOK, CallGrid
  <2> QED
    BY <1>0, <1>1, <2>1, <2>2, <2>3 DEF JobInv, JobTypeOK
<1>3. Covered' /\ ~(reserved' > 0)
  <2>1. Due' = {}
    BY <1>0 DEF Due
  <2>2. Cardinality(Due') = 0
    BY <2>1, FS_EmptySet
  <2> QED
    BY <1>0, <2>2 DEF Covered
<1>4. OneThread'
  BY <1>0 DEF OneThread
<1>5. \A m \in JobName : jobs[m].call \in Nat /\ jobs[m].call <= calls /\ jobs[m].call # calls + 1
  <2>1. SUFFICES ASSUME NEW m \in JobName
                 PROVE  jobs[m].call \in Nat /\ jobs[m].call <= calls /\ jobs[m].call # calls + 1
    OBVIOUS
  <2>2. PICK x \in 0 .. MaxCalls : x = jobs[m].call
    BY DEF JobInv, JobTypeOK
  <2>3. x <= calls
    BY <2>2 DEF JobInv, PodsOfJobs
  <2>4. x \in Nat /\ x # calls + 1
    BY <1>1, <2>3, ClusterConstants
  <2> QED
    BY <2>2, <2>3, <2>4
<1>6. PodsOfJobs'
  <2>1. \A m \in JobName : jobs[m].call <= calls + 1
    BY <1>1, <1>5
  <2> QED
    BY <1>0, <2>1 DEF JobInv, PodsOfJobs
<1>7. OwnJob'
  <2>1. calls + 1 > 0
    BY <1>1
  <2> QED
    BY <1>0, <1>5, <2>1 DEF OwnJob
<1>8. CellVerdictEarned'
  BY <1>0 DEF CellVerdictEarned
<1> QED
  BY <1>2, <1>3, <1>4, <1>6, <1>7, <1>8 DEF JobInv

(* The steps of a cell's thread.                                           *)
LEMMA ThreadStep ==
    ASSUME JobInv, NEW c \in JCell,
           \/ SkipDone(c) \/ RefuseCell(c) \/ Admit(c) \/ NameTaken(c)
           \/ SeesComplete(c) \/ SeesFailed(c) \/ EscalateSku(c) \/ TimesOut(c)
    PROVE  JobInv'
<1>0. /\ JobTypeOK /\ jphase = "running" /\ untaken \subseteq JCell
      /\ at \in [JCell -> {"rest", "submit", "watch"}] /\ local \in [JCell -> BOOLEAN]
  BY DEF JobInv, JobTypeOK, SkipDone, RefuseCell, Admit, NameTaken, SeesComplete, SeesFailed,
         EscalateSku, TimesOut, Taken, Watches
<1>1. /\ c \in untaken => at[c] = "rest" /\ rungs[c] = 0 /\ answer[c] = "none"
      /\ answer[c] # "none" => at[c] = "rest"
  BY <1>0 DEF JobInv, OneThread
<1>2. CASE SkipDone(c) \/ RefuseCell(c)
  <2>1. PICK result \in {"skipped", "timeout", "budget"} : answer' = [answer EXCEPT ![c] = result]
    BY <1>2 DEF SkipDone, RefuseCell, Answered
  <2>2. /\ c \in untaken /\ untaken' = untaken \ {c} /\ at' = at
        /\ UNCHANGED <<callArgs, rungs, reserved, clusterVars, local, bill>>
    BY <1>2 DEF SkipDone, RefuseCell, Taken
  <2>3. at' = [at EXCEPT ![c] = "rest"]
    BY <1>0, <1>1, <2>2
  <2>4. result \in CellAnswers /\ result # "ok" /\ result \notin {"error", "oom_failed"}
    BY DEF CellAnswers
  <2> QED
    BY <1>0, <2>1, <2>2, <2>3, <2>4, ThreadEnds
<1>3. ASSUME NEW result \in CellAnswers, at[c] # "rest", at' = [at EXCEPT ![c] = "rest"],
             answer' = [answer EXCEPT ![c] = result], local' \in [JCell -> BOOLEAN],
             UNCHANGED <<callArgs, untaken, rungs, reserved, clusterVars, bill>>,
             result = "ok" => c \in exited,
             result \in {"error", "oom_failed"} => Dead(jobs[NameOf(c)])
      PROVE  JobInv'
  <2>1. c \notin untaken' /\ untaken' \subseteq untaken
    BY <1>1, <1>3
  <2> QED
    BY <1>0, <1>3, <2>1, ThreadEnds
<1>4. CASE NameTaken(c)
  <2>1. "submission" \in CellAnswers
    BY DEF CellAnswers
  <2> QED
    BY <1>0, <1>3, <1>4, <2>1 DEF NameTaken, Answered
<1>5. ASSUME NEW result \in CellAnswers, Watches(c), Settles(c, result),
             result = "ok" => c \in exited,
             result \in {"error", "oom_failed"} => Dead(jobs[NameOf(c)])
      PROVE  JobInv'
  <2>1. /\ at[c] # "rest" /\ at' = [at EXCEPT ![c] = "rest"] /\ answer' = [answer EXCEPT ![c] = result]
        /\ UNCHANGED <<callArgs, untaken, rungs, reserved, clusterVars, bill>>
    BY <1>5 DEF Watches, Settles, Answered
  <2>2. local' \in [JCell -> BOOLEAN]
    <3>1. (result = "ok") \in BOOLEAN
      OBVIOUS
    <3> QED
      BY <1>0, <1>5, <3>1 DEF Settles
  <2> QED
    BY <1>3, <1>5, <2>1, <2>2
<1>6. CASE SeesComplete(c)
  <2>1. Watches(c) /\ jobs[NameOf(c)].cond = "Complete" /\ Settles(c, "ok") /\ at[c] = "watch"
    BY <1>6 DEF SeesComplete, JobOf, Watches
  <2>2. NameOf(c) \in JobName /\ NameOf(c)[1] = c
    BY <1>0, NameFacts
  <2>3. jobs[NameOf(c)].call = calls
    BY <1>0, <2>1, NoJobFacts DEF JobInv, OwnJob
  <2>4. c \in exited
    BY <1>0, <2>1, <2>2, <2>3 DEF JobInv, OwnJob
  <2>5. "ok" \in CellAnswers
    BY DEF CellAnswers
  <2> QED
    BY <1>5, <2>1, <2>4, <2>5
<1>7. CASE SeesFailed(c)
  <2>1. NameOf(c) \in JobName
    BY <1>0, NameFacts
  <2>2. Watches(c) /\ JobOver(c) /\ (Settles(c, "error") \/ Settles(c, "oom_failed"))
    BY <1>7 DEF SeesFailed
  <2>3. Dead(jobs[NameOf(c)])
    BY <2>1, <2>2 DEF JobInv, PodsOfJobs, JobOver, JobOf, Dead
  <2>4. {"error", "oom_failed"} \subseteq CellAnswers
    BY DEF CellAnswers
  <2> QED
    BY <1>5, <2>2, <2>3, <2>4
<1>8. CASE TimesOut(c)
  <2>1. "timeout" \in CellAnswers
    BY DEF CellAnswers
  <2> QED
    BY <1>5, <1>8, <2>1 DEF TimesOut
<1>9. CASE Admit(c)
  <2>1. /\ c \in untaken /\ untaken' = untaken \ {c} /\ at' = [at EXCEPT ![c] = "submit"]
        /\ reserved' = reserved + (0 + 1) /\ reserved + (0 + 1) < Cap
        /\ UNCHANGED <<callArgs, rungs, answer, clusterVars, local, bill>>
    BY <1>9 DEF Admit, Taken, Fits, Cost
  <2>2. rungs' = [rungs EXCEPT ![c] = 0]
    BY <1>0, <1>1, <2>1 DEF JobTypeOK
  <2>3. 0 \in 0 .. MaxSkuSteps
    BY ClusterConstants
  <2> QED
    BY <1>0, <1>1, <2>1, <2>2, <2>3, AttemptAdmitted
<1>10. CASE EscalateSku(c)
  <2>1. PICK k \in 0 .. MaxSkuSteps : k = rungs[c]
    BY <1>0 DEF JobTypeOK
  <2>2. k + 1 \in 0 .. MaxSkuSteps
    <3>1. k < MaxSkuSteps
      BY <1>10, <2>1 DEF EscalateSku
    <3> QED
      BY <3>1, ClusterConstants
  <2>3. /\ at[c] = "watch" /\ at' = [at EXCEPT ![c] = "submit"] /\ rungs' = [rungs EXCEPT ![c] = k + 1]
        /\ reserved' = reserved + ((k + 1) + 1) /\ reserved + ((k + 1) + 1) < Cap
        /\ UNCHANGED <<callArgs, untaken, answer, clusterVars, bill>>
    BY <1>10, <2>1 DEF EscalateSku, Watches, Fits, Cost
  <2>4. local' \in [JCell -> BOOLEAN]
    BY <1>0, <1>10 DEF EscalateSku
  <2>5. c \notin untaken' /\ answer[c] = "none" /\ untaken' \subseteq untaken
    BY <1>1, <2>3
  <2> QED
    BY <1>0, <2>2, <2>3, <2>4, <2>5, AttemptAdmitted
<1> QED
  BY <1>2, <1>4, <1>6, <1>7, <1>8, <1>9, <1>10

(* What an earlier call left is a Job that is over, or one that runs and   *)
(* belongs to no call of this orchestrator.                                *)
LEMMA LeftoverFacts ==
    ASSUME NEW e \in Leftover
    PROVE  /\ e.job \in JobRecord /\ e.blob \in {"none", "ok", "oom"} /\ e.local \in BOOLEAN
           /\ e.job.call = 0 /\ e.job.failed = 0 /\ (e.job.cond # "" => e.job.pod = "gone")
<1>1. 0 \in 0 .. Backoff + 1 /\ 0 \in 0 .. MaxCalls
  BY ClusterConstants
<1> DEFINE Up == [NoJob EXCEPT !.pod = "up"]
           Ended(x, cond) == [NoJob EXCEPT !.pod = "gone", !.exit = x, !.cond = cond]
<1>2. PICK j \in {NoJob, Up, Ended("oom", "Failed"), Ended("zero", "Complete")},
           b \in {"none", "ok", "oom"}, l \in BOOLEAN : e = [job |-> j, blob |-> b, local |-> l]
  BY DEF Leftover
<1>3. j \in JobRecord /\ j.call = 0 /\ j.failed = 0 /\ (j.cond # "" => j.pod = "gone")
  <2>1. CASE j = NoJob
    BY <1>1, <2>1 DEF NoJob, JobRecord
  <2>2. CASE j = Up
    BY <1>1, <2>2 DEF NoJob, JobRecord
  <2>3. ASSUME NEW x \in {"oom", "zero"}, NEW cond \in {"Failed", "Complete"}, j = Ended(x, cond)
        PROVE  j \in JobRecord /\ j.call = 0 /\ j.failed = 0 /\ j.pod = "gone"
    BY <1>1, <2>3 DEF NoJob, JobRecord
  <2> QED
    BY <2>1, <2>2, <2>3
<1>4. e.job = j /\ e.blob = b /\ e.local = l
  BY <1>2
<1> QED
  BY <1>3, <1>4

(* The invariant holds at the start, whatever was left.                     *)
LEMMA JobInitKeeps == JobInit => JobInv
<1> SUFFICES ASSUME JobInit PROVE JobInv
  OBVIOUS
<1>0. 0 \in 0 .. MaxSkuSteps /\ 0 \in 0 .. MaxCalls /\ 0 <= Backoff
  BY ClusterConstants
<1>1. PICK before \in [JCell -> Leftover] :
        /\ jobs = [n \in JobName |-> IF n = <<n[1], 0, 0>> THEN before[n[1]].job ELSE NoJob]
        /\ blob = [c \in JCell |-> before[c].blob]
        /\ local = [c \in JCell |-> before[c].local]
  BY DEF JobInit
<1>2. \A c \in JCell : before[c] \in Leftover
  OBVIOUS
<1>3. NoJob \in JobRecord /\ NoJob.call = 0 /\ NoJob.failed = 0 /\ NoJob.cond = ""
  BY NoJobFacts DEF NoJob
<1>4. ASSUME NEW n \in JobName
      PROVE  /\ jobs[n] \in JobRecord /\ jobs[n].call = 0 /\ jobs[n].failed = 0
             /\ (jobs[n].cond # "" => jobs[n].pod = "gone")
  <2>1. n[1] \in JCell
    BY DEF JobName
  <2>2. jobs[n] = before[n[1]].job \/ jobs[n] = NoJob
    BY <1>1
  <2>3. CASE jobs[n] = NoJob
    BY <1>3, <2>3
  <2>4. CASE jobs[n] = before[n[1]].job
    <3>1. PICK e \in Leftover : e = before[n[1]]
      BY <1>2, <2>1
    <3>2. jobs[n] = e.job
      BY <2>4, <3>1
    <3> QED
      BY <3>2, LeftoverFacts
  <2> QED
    BY <2>2, <2>3, <2>4
<1>5. jobs \in [JobName -> JobRecord]
  BY <1>1, <1>4
<1>6. blob \in [JCell -> {"none", "ok", "oom"}] /\ local \in [JCell -> BOOLEAN]
  BY <1>1, <1>2, LeftoverFacts
<1>7. JobTypeOK
  BY <1>0, <1>5, <1>6 DEF JobInit, JobTypeOK, JobRecord
<1>8. Covered /\ ~(reserved > 0)
  <2>1. Due = {}
    BY DEF JobInit, Due
  <2>2. Cardinality(Due) = 0
    BY <2>1, FS_EmptySet
  <2> QED
    BY <2>2 DEF JobInit, Covered
<1>9. PodsOfJobs
  <2>1. calls = 0 /\ 0 <= 0
    BY DEF JobInit
  <2> QED
    BY <1>0, <1>4, <2>1 DEF PodsOfJobs
<1> QED
  BY <1>7, <1>8, <1>9 DEF JobInit, JobInv, OneThread, OwnJob, CellVerdictEarned

(* The invariant is inductive: the cluster's steps change one Job, the     *)
(* threads' change one cell, and a call begins and ends with nothing due.  *)
LEMMA JobInvHolds == JobSpec => []JobInv
<1>1. JobInv /\ [JobNext]_jvars => JobInv'
  <2> SUFFICES ASSUME JobInv, [JobNext]_jvars PROVE JobInv'
    OBVIOUS
  <2>1. CASE JobCluster
    BY <2>1, ClusterStep DEF JobCluster
  <2>2. ASSUME NEW c \in JCell,
               \/ SkipDone(c) \/ RefuseCell(c) \/ Admit(c) \/ SubmitJob(c) \/ NameTaken(c)
               \/ SeesComplete(c) \/ SeesFailed(c) \/ EscalateSku(c) \/ TimesOut(c)
        PROVE  JobInv'
    BY <2>2, ThreadStep, JobCreated
  <2>3. CASE CallReturns \/ CallRefused
    <3>1. /\ jphase' = "over" /\ Due' = Due /\ UNCHANGED <<calls, jobs, bill, reserved, exited>>
      BY <2>3 DEF CallReturns, CallRefused, clusterVars, Due
    <3>2. answer' = answer \/ answer' = [c \in JCell |-> "error"]
      BY <2>3 DEF CallReturns, CallRefused
    <3>3. JobTypeOK'
      BY <2>3 DEF JobInv, JobTypeOK, CallReturns, CallRefused, clusterVars, CellAnswers
    <3>4. \A c \in JCell : answer'[c] = "ok" => c \in exited'
      BY <3>1, <3>2 DEF JobInv, CellVerdictEarned
    <3> QED
      BY <3>1, <3>3, <3>4, CallEnds
  <2>4. CASE OrchestratorDies
    <3>1. /\ jphase' = "down" /\ bill' = 0 /\ reserved' = 0 /\ UNCHANGED <<calls, jobs>>
          /\ answer' = [c \in JCell |-> "none"]
      BY <2>4 DEF OrchestratorDies
    <3>2. Due' = {}
      BY <2>4 DEF OrchestratorDies, Due
    <3>3. JobTypeOK'
      <4>1. 0 \in 0 .. MaxSkuSteps
        BY ClusterConstants
      <4> QED
        BY <2>4, <4>1 DEF JobInv, JobTypeOK, OrchestratorDies
    <3> QED
      BY <3>1, <3>2, <3>3, CallEnds
  <2>5. ASSUME NEW resume \in BOOLEAN, NEW forced \in {{}} \cup {{c} : c \in JCell}, CallGrid(resume, forced)
        PROVE  JobInv'
    BY <2>5, CallBegins
  <2>6. CASE UNCHANGED jvars
    BY <2>6 DEF jvars, JobInv, JobTypeOK, Covered, Due, OneThread, PodsOfJobs, OwnJob, NameOf,
                CellVerdictEarned, JobOf
  <2> QED
    BY <2>1, <2>2, <2>3, <2>4, <2>5, <2>6 DEF JobNext, JobWork
<1> QED
  BY <1>1, JobInitKeeps, PTL DEF JobSpec

(* For any grid, ladder of SKUs, cap and number of threads: what the Jobs  *)
(* of a call can cost never exceeds what run_matrix reserved for them, and *)
(* that stays under max_run_gpu_usd, however checks, escalations, refused  *)
(* names, preemptions and restarts of the orchestrator interleave.         *)
THEOREM SpendIsCovered == JobSpec => []SpendCovered
<1>1. JobInv => SpendCovered
  <2> SUFFICES ASSUME JobInv PROVE bill <= reserved
    BY DEF JobInv, SpendCovered
  <2> DEFINE d == Cardinality(Due)
  <2>1. d \in Nat /\ bill + d <= reserved /\ bill \in Nat /\ reserved \in Nat
    BY DueFinite DEF JobInv, JobTypeOK, Covered
  <2> HIDE DEF d
  <2> QED
    BY <2>1
<1> QED
  BY <1>1, JobInvHolds, PTL

(* A cell is ok only when a pod of this call exited with 0, and given up   *)
(* only when the cluster will not run its Job again: for any grid, backoff *)
(* limit and number of calls, and whatever Jobs and status files an        *)
(* earlier orchestrator left under the same names.                         *)
THEOREM CellVerdictsAreEarned == JobSpec => []CellVerdictEarned
<1>1. JobInv => CellVerdictEarned
  BY DEF JobInv
<1> QED
  BY <1>1, JobInvHolds, PTL

-----------------------------------------------------------------------------
(* On a pod.  A thread that is not at work holds no pod, the threads after *)
(* the caller's last one have not been started, and a caller that waits    *)
(* waits for one.                                                          *)
IdleHoldsNothing ==
    /\ \A w \in Worker : task[w].pc \in {"off", "create", "done"} => task[w].pod = NoPod
    /\ \A w \in Worker : w > caller.at => task[w].pc = "off"
    /\ caller.pc = "wait" => caller.at \in Worker

(* The configured pod exists and is nobody's to delete; while there is     *)
(* one, the process owns nothing.                                          *)
KeptIsSafe ==
    /\ cloud[Kept] # "none" /\ Kept \notin owned
    /\ kept # NoPod => owned = {}

(* The inductive invariant of PodSpec.                                     *)
PodInv == PodAccounted /\ IdleHoldsNothing /\ KeptIsSafe

(* The configured pod is a pod, and no pod is not one.                     *)
LEMMA PodFacts == Kept \in Pod /\ NoPod \notin Pod /\ Kept # NoPod
  BY PodRunAssumption DEF Kept, Pod, NoPod

(* A thread moves: enough that every pod that runs afterwards is lost, or  *)
(* is the thread's own, or was accounted for by another thread.            *)
LEMMA ThreadMoves ==
    ASSUME PodInv, NEW w \in Worker, NEW t \in Thread, task' = [task EXCEPT ![w] = t],
           task[w].pc # "off", t.pc \in {"off", "create", "done"} => t.pod = NoPod,
           UNCHANGED <<kept, sweeps, caller, rung, esc>>,
           cloud' \in [Pod -> {"none", "up", "gone"}], owned' \in SUBSET Pod, leaked' \in SUBSET Pod,
           leaked \subseteq leaked', cloud'[Kept] = cloud[Kept], Kept \notin owned',
           kept # NoPod => owned' = {},
           \A p \in Pod \ {Kept} : cloud'[p] = "up" =>
              \/ p \in leaked'
              \/ p \in owned' /\ p = t.pod
              \/ cloud[p] = "up" /\ p # task[w].pod /\ (p \in owned => p \in owned')
    PROVE  PodInv'
<1>1. task \in [Worker -> Thread] /\ task'[w] = t /\ \A v \in Worker \ {w} : task'[v] = task[v]
  BY DEF PodInv, PodAccounted, PodTypeOK
<1>2. task' \in [Worker -> Thread]
  BY <1>1
<1>3. PodTypeOK'
  BY <1>2 DEF PodInv, PodAccounted, PodTypeOK
<1>4. ASSUME NEW p \in Pod \ {Kept}, cloud'[p] = "up"
      PROVE  p \in leaked' \/ (p \in owned' /\ \E v \in Worker : task'[v].pod = p)
  <2>1. CASE p \in owned' /\ p = t.pod
    BY <1>1, <2>1
  <2>2. CASE cloud[p] = "up" /\ p # task[w].pod /\ (p \in owned => p \in owned')
    <3>1. CASE p \in leaked
      BY <3>1
    <3>2. CASE p \in owned /\ \E v \in Worker : task[v].pod = p
      <4>1. PICK v \in Worker : task[v].pod = p
        BY <3>2
      <4>2. task'[v].pod = p
        BY <1>1, <2>2, <4>1
      <4> QED
        BY <2>2, <3>2, <4>2
    <3> QED
      BY <2>2, <3>1, <3>2 DEF PodInv, PodAccounted
  <2> QED
    BY <1>4, <2>1, <2>2
<1>5. cloud'[Kept] = "gone" => sweeps'
  BY DEF PodInv, PodAccounted
<1>6. IdleHoldsNothing'
  BY <1>1 DEF PodInv, IdleHoldsNothing
<1>7. KeptIsSafe'
  BY DEF PodInv, KeptIsSafe
<1> QED
  BY <1>3, <1>4, <1>5, <1>6, <1>7 DEF PodInv, PodAccounted

(* It keeps the pod it has, or had none.                                   *)
LEMMA PodStays ==
    ASSUME PodInv, NEW w \in Worker, NEW t \in Thread, task' = [task EXCEPT ![w] = t],
           task[w].pc # "off", t.pc \in {"off", "create", "done"} => t.pod = NoPod,
           UNCHANGED <<cloud, owned, leaked, kept, sweeps, caller, rung, esc>>,
           t.pod = task[w].pod \/ task[w].pod \notin owned
    PROVE  PodInv'
<1>1. /\ cloud \in [Pod -> {"none", "up", "gone"}] /\ owned \in SUBSET Pod /\ leaked \in SUBSET Pod
      /\ Kept \notin owned /\ (kept # NoPod => owned = {})
  BY DEF PodInv, PodAccounted, PodTypeOK, KeptIsSafe
<1>2. ASSUME NEW p \in Pod \ {Kept}, cloud[p] = "up"
      PROVE  \/ p \in leaked
             \/ p \in owned /\ p = t.pod
             \/ cloud[p] = "up" /\ p # task[w].pod /\ (p \in owned => p \in owned)
  BY <1>2 DEF PodInv, PodAccounted
<1> QED
  BY <1>1, <1>2, ThreadMoves

(* It deletes its pod, which then is gone, or lost sight of.               *)
LEMMA PodDeleted ==
    ASSUME PodInv, NEW w \in Worker, NEW t \in Thread, task' = [task EXCEPT ![w] = t],
           task[w].pc # "off", t.pc \in {"off", "create", "done"} => t.pod = NoPod,
           UNCHANGED <<kept, sweeps, caller, rung, esc>>,
           NEW ok \in BOOLEAN, Delete(task[w].pod, ok)
    PROVE  PodInv'
<1> DEFINE q == task[w].pod
<1>1. /\ cloud \in [Pod -> {"none", "up", "gone"}] /\ owned \in SUBSET Pod /\ leaked \in SUBSET Pod
      /\ Kept \notin owned /\ (kept # NoPod => owned = {})
  BY DEF PodInv, PodAccounted, PodTypeOK, KeptIsSafe
<1>2. /\ owned' = owned \ {q}
      /\ cloud' = IF ok /\ q \in owned THEN [cloud EXCEPT ![q] = "gone"] ELSE cloud
      /\ leaked' = IF ~ok /\ q \in owned /\ cloud[q] = "up" THEN leaked \cup {q} ELSE leaked
  BY DEF Delete
<1> HIDE DEF q
<1>3. /\ cloud' \in [Pod -> {"none", "up", "gone"}] /\ owned' \in SUBSET Pod /\ leaked' \in SUBSET Pod
      /\ leaked \subseteq leaked' /\ Kept \notin owned' /\ (kept # NoPod => owned' = {})
  BY <1>1, <1>2
<1>4. cloud'[Kept] = cloud[Kept]
  BY <1>1, <1>2, PodFacts
<1>5. ASSUME NEW p \in Pod \ {Kept}, cloud'[p] = "up"
      PROVE  p \in leaked' \/ (cloud[p] = "up" /\ p # q /\ (p \in owned => p \in owned'))
  <2>1. cloud[p] = "up"
    BY <1>1, <1>2, <1>5
  <2>2. CASE p # q
    BY <1>2, <2>1, <2>2
  <2>3. CASE p = q /\ p \in owned
    <3>1. ~ok
      BY <1>1, <1>2, <1>5, <2>3
    <3> QED
      BY <1>2, <2>1, <2>3, <3>1
  <2>4. CASE p = q /\ p \notin owned
    BY <1>3, <2>1, <2>4 DEF PodInv, PodAccounted
  <2> QED
    BY <2>2, <2>3, <2>4
<1> QED
  BY <1>3, <1>4, <1>5, ThreadMoves DEF q

(* Threads are records, before and after.                                  *)
LEMMA ThreadFields ==
    ASSUME PodTypeOK, NEW w \in Worker
    PROVE  /\ task[w] \in Thread /\ Off \in Thread
           /\ \A e \in Errors, slow \in BOOLEAN : Raises(w, e, slow) \in Thread
           /\ PodReady(w) \in Thread
<1>1. task[w] \in Thread
  BY DEF PodTypeOK
<1>2. 0 \in 0 .. Commands /\ Commands \in 0 .. Commands /\ 0 \in 0 .. MaxStrikes /\ 0 \in 0 .. MaxRetries
  BY PodRunAssumption
<1>3. Off \in Thread
  BY <1>2 DEF Off, Thread, Errors, Results
<1>4. \A e \in Errors, slow \in BOOLEAN : Raises(w, e, slow) \in Thread
  <2> SUFFICES ASSUME NEW e \in Errors, NEW slow \in BOOLEAN PROVE Raises(w, e, slow) \in Thread
    OBVIOUS
  <2>1. PICK late \in BOOLEAN : late = (slow /\ e \in Transient)
    BY Zenon
  <2>2. [task[w] EXCEPT !.pc = "unwind", !.err = e, !.slow = late, !.got = "none"] \in Thread
    BY <1>1 DEF Thread, Results
  <2> QED
    BY <2>1, <2>2 DEF Raises
<1>5. PodReady(w) \in Thread
  BY <1>1, <1>2 DEF PodReady, Thread, Results
<1> QED
  BY <1>1, <1>3, <1>4, <1>5

(* The steps of a thread.                                                  *)
LEMMA StepKeeps ==
    ASSUME PodInv, NEW w \in Worker, Step(w)
    PROVE  PodInv'
<1>0. PodTypeOK /\ task[w] \in Thread /\ Off \in Thread /\ PodReady(w) \in Thread
  BY ThreadFields DEF PodInv, PodAccounted
<1>1. \A e \in Errors, slow \in BOOLEAN : Raises(w, e, slow) \in Thread
  BY <1>0, ThreadFields
<1>2. \A e \in Errors, slow \in BOOLEAN :
        Raises(w, e, slow).pc = "unwind" /\ Raises(w, e, slow).pod = task[w].pod
  BY <1>0 DEF Raises, Thread
<1>3. /\ owned \in SUBSET Pod /\ kept \in {Kept, NoPod} /\ NoPod \notin owned
      /\ cloud \in [Pod -> {"none", "up", "gone"}] /\ leaked \in SUBSET Pod
  BY <1>0, PodFacts DEF PodTypeOK
<1>4. task[w].pc = "create" => task[w].pod \notin owned
  BY <1>3 DEF PodInv, IdleHoldsNothing
<1>5. CASE RequestRefused(w)
  <2>1. "invalid" \in Errors
    BY DEF Errors
  <2> QED
    BY <1>1, <1>2, <1>5, <2>1, PodStays DEF RequestRefused, Goes
<1>6. ASSUME NEW p \in Pod, NEW t \in Thread, Fresh(p), cloud' = [cloud EXCEPT ![p] = "up"],
             task[w].pc = "create", task' = [task EXCEPT ![w] = t], t.pc \in {"boot", "unwind"},
             UNCHANGED <<kept, sweeps, caller, rung, esc>>,
             \/ owned' = owned \cup {p} /\ leaked' = leaked /\ t.pod = p /\ kept = NoPod
             \/ owned' = owned /\ leaked' = leaked \cup {p}
      PROVE  PodInv'
  <2>1. p # Kept /\ cloud[p] = "none"
    BY <1>6 DEF Fresh, PodInv, KeptIsSafe
  <2>2. cloud' \in [Pod -> {"none", "up", "gone"}] /\ cloud'[Kept] = cloud[Kept]
    BY <1>3, <1>6, <2>1, PodFacts
  <2>3. /\ owned' \in SUBSET Pod /\ leaked' \in SUBSET Pod /\ leaked \subseteq leaked'
        /\ Kept \notin owned' /\ (kept # NoPod => owned' = {})
    BY <1>3, <1>6, <2>1 DEF PodInv, KeptIsSafe
  <2>4. ASSUME NEW q \in Pod \ {Kept}, cloud'[q] = "up"
        PROVE  \/ q \in leaked'
               \/ q \in owned' /\ q = t.pod
               \/ cloud[q] = "up" /\ q # task[w].pod /\ (q \in owned => q \in owned')
    <3>1. CASE q = p
      BY <1>6, <3>1
    <3>2. CASE q # p
      <4>1. cloud[q] = "up"
        BY <1>3, <1>6, <2>4, <3>2
      <4>2. q # task[w].pod
        BY <1>6, PodFacts DEF PodInv, IdleHoldsNothing
      <4> QED
        BY <1>6, <4>1, <4>2
    <3> QED
      BY <3>1, <3>2
  <2>5. task[w].pc # "off" /\ t.pc \notin {"off", "create", "done"}
    BY <1>6
  <2> QED
    BY <1>6, <2>2, <2>3, <2>4, <2>5, ThreadMoves
<1>7. ASSUME NEW p \in Pod, PodGranted(w, p) PROVE PodInv'
  <2> DEFINE t == [task[w] EXCEPT !.pc = "boot", !.agg = "requested", !.pod = p]
  <2>1. t \in Thread /\ t.pc = "boot" /\ t.pod = p
    BY <1>0 DEF Thread
  <2>2. task' = [task EXCEPT ![w] = t]
    BY <1>7 DEF PodGranted, Goes
  <2> HIDE DEF t
  <2> QED
    BY <1>3, <1>6, <1>7, <2>1, <2>2 DEF PodGranted
<1>8. ASSUME NEW e \in Errors, NEW slow \in BOOLEAN
      PROVE  LET t == [Raises(w, e, slow) EXCEPT !.agg = "failed"]
             IN  t \in Thread /\ t.pc = "unwind" /\ t.pod = task[w].pod
  <2>1. PICK u \in Thread : u = Raises(w, e, slow) /\ u.pc = "unwind" /\ u.pod = task[w].pod
    BY <1>1, <1>2
  <2>2. [u EXCEPT !.agg = "failed"] \in Thread /\ [u EXCEPT !.agg = "failed"].pc = "unwind"
        /\ [u EXCEPT !.agg = "failed"].pod = task[w].pod
    BY <2>1 DEF Thread
  <2> QED
    BY <2>1, <2>2
<1>9. ASSUME NEW p \in Pod, AnswerLost(w, p) PROVE PodInv'
  <2> DEFINE t == [Raises(w, "other", FALSE) EXCEPT !.agg = "failed"]
  <2>1. t \in Thread /\ t.pc = "unwind"
    BY <1>8 DEF Errors
  <2>2. task' = [task EXCEPT ![w] = t]
    BY <1>9 DEF AnswerLost, Goes
  <2> HIDE DEF t
  <2> QED
    BY <1>3, <1>6, <1>9, <2>1, <2>2 DEF AnswerLost
<1>10. ASSUME NEW e \in {"capacity", "other"}, PodRefused(w, e) PROVE PodInv'
  <2>1. PICK slow \in BOOLEAN : Goes(w, [Raises(w, e, slow) EXCEPT !.agg = "failed"])
    BY <1>10 DEF PodRefused
  <2> DEFINE t == [Raises(w, e, slow) EXCEPT !.agg = "failed"]
  <2>2. t \in Thread /\ t.pc = "unwind" /\ t.pod = task[w].pod
    BY <1>8 DEF Errors
  <2>3. task' = [task EXCEPT ![w] = t]
    BY <2>1 DEF Goes
  <2> HIDE DEF t
  <2> QED
    BY <1>10, <2>2, <2>3, PodStays DEF PodRefused
<1>11. CASE Attach(w)
  <2> DEFINE t == [PodReady(w) EXCEPT !.pod = kept]
  <2>1. PICK u \in Thread : u = PodReady(w) /\ u.pc = "exec"
    BY <1>0 DEF PodReady, Thread
  <2>2. [u EXCEPT !.pod = kept] \in Thread /\ [u EXCEPT !.pod = kept].pc = "exec"
    BY <1>3, <2>1, PodFacts DEF Thread
  <2>3. t \in Thread /\ t.pc = "exec"
    BY <2>1, <2>2
  <2>4. task' = [task EXCEPT ![w] = t] /\ task[w].pod \notin owned
    BY <1>4, <1>11 DEF Attach, Goes
  <2> HIDE DEF t
  <2> QED
    BY <1>11, <2>3, <2>4, PodStays DEF Attach
<1>12. CASE Boots(w)
  <2>1. PodReady(w).pc = "exec" /\ PodReady(w).pod = task[w].pod
    BY <1>0 DEF PodReady, Thread
  <2> QED
    BY <1>0, <1>12, <2>1, PodStays DEF Boots, Goes
<1>13. ASSUME NEW e \in {"ssh", "other"}, NEW ok \in BOOLEAN, BootFails(w, e, ok) PROVE PodInv'
  <2> DEFINE t == [Raises(w, e, e = "ssh") EXCEPT !.agg = "failed", !.pod = NoPod]
  <2>1. PICK u \in Thread : u = Raises(w, e, e = "ssh") /\ u.pc = "unwind"
    <3>1. e \in Errors /\ (e = "ssh") \in BOOLEAN
      BY DEF Errors
    <3> QED
      BY <1>1, <1>2, <3>1
  <2>2. [u EXCEPT !.agg = "failed", !.pod = NoPod] \in Thread
        /\ [u EXCEPT !.agg = "failed", !.pod = NoPod].pc = "unwind"
    BY <2>1 DEF Thread
  <2>3. t \in Thread /\ t.pc = "unwind"
    BY <2>1, <2>2
  <2>4. task' = [task EXCEPT ![w] = t] /\ task[w].pc = "boot" /\ UNCHANGED <<kept, sweeps, caller, rung, esc>>
    BY <1>13 DEF BootFails, Goes
  <2> HIDE DEF t
  <2>5. CASE kept = NoPod
    BY <1>13, <2>3, <2>4, <2>5, PodDeleted DEF BootFails
  <2>6. CASE kept # NoPod
    <3>1. owned = {} /\ UNCHANGED <<cloud, owned, leaked>>
      BY <1>13, <2>6 DEF BootFails, PodInv, KeptIsSafe
    <3> QED
      BY <2>3, <2>4, <3>1, PodStays
  <2> QED
    BY <2>5, <2>6
<1>14. ASSUME NEW res \in {"ok", "failed", "oom", "timeout"}, CommandEnds(w, res) PROVE PodInv'
  <2> DEFINE t == [task[w] EXCEPT !.left = @ - 1, !.got = Worse(@, res), !.agg = "running"]
  <2>1. PICK n \in 0 .. Commands : n = task[w].left /\ n > 0
    BY <1>0, <1>14 DEF CommandEnds, Commanding, Thread
  <2>2. n - 1 \in 0 .. Commands
    BY <2>1, PodRunAssumption
  <2>3. task[w].got \in Results
    BY <1>0 DEF Thread
  <2>4. Worse(task[w].got, res) \in Results
    BY <2>3 DEF Worse, Results
  <2>5. [task[w] EXCEPT !.left = n - 1, !.got = Worse(task[w].got, res), !.agg = "running"] \in Thread
    BY <1>0, <2>2, <2>4 DEF Thread
  <2>6. t \in Thread /\ t.pc = "exec" /\ t.pod = task[w].pod
    BY <1>0, <1>14, <2>1, <2>5 DEF Thread, CommandEnds, Commanding
  <2>7. task' = [task EXCEPT ![w] = t]
    BY <1>14 DEF CommandEnds, Goes
  <2> HIDE DEF t
  <2> QED
    BY <1>14, <2>6, <2>7, PodStays DEF CommandEnds, Commanding
<1>15. ASSUME NEW e \in {"transient", "other"}, CommandBreaks(w, e) PROVE PodInv'
  <2>1. PICK slow \in BOOLEAN : Goes(w, Raises(w, e, slow))
    BY <1>15 DEF CommandBreaks
  <2>2. e \in Errors
    BY DEF Errors
  <2> QED
    BY <1>1, <1>2, <1>15, <2>1, <2>2, PodStays DEF CommandBreaks, Commanding, Goes
<1>16. CASE CommandLate(w)
  <2>1. "invalid" \in Errors
    BY DEF Errors
  <2> QED
    BY <1>1, <1>2, <1>16, <2>1, PodStays DEF CommandLate, Commanding, Goes
<1>17. CASE CommandsDone(w)
  <2> DEFINE t == [task[w] EXCEPT !.pc = "unwind", !.err = "none"]
  <2>1. t \in Thread /\ t.pc = "unwind" /\ t.pod = task[w].pod
    BY <1>0 DEF Thread, Errors
  <2>2. task' = [task EXCEPT ![w] = t]
    BY <1>17 DEF CommandsDone, Goes
  <2> HIDE DEF t
  <2> QED
    BY <1>17, <2>1, <2>2, PodStays DEF CommandsDone
<1>18. ASSUME NEW ok \in BOOLEAN, BudgetSpent(w, ok) PROVE PodInv'
  <2>1. "other" \in Errors
    BY DEF Errors
  <2> QED
    BY <1>1, <1>2, <1>18, <2>1, PodDeleted DEF BudgetSpent, Commanding, Goes
<1>19. ASSUME NEW ok \in BOOLEAN, Unwind(w, ok) PROVE PodInv'
  <2> DEFINE t == task[w]
             agg == IF t.pod = NoPod THEN t.agg ELSE "destroyed"
             again == [Off EXCEPT !.pc = "create", !.retry = t.retry + 1, !.agg = agg]
             over == [Off EXCEPT !.pc = "done", !.retry = t.retry, !.agg = agg, !.got = t.got,
                                 !.err = IF ok THEN t.err ELSE "other"]
  <2>1. PICK n \in 0 .. MaxRetries : n = t.retry
    BY <1>0 DEF Thread
  <2>2. PICK a \in {"new", "requested", "created", "running", "destroyed", "failed"} : a = agg
    BY <1>0 DEF Thread
  <2>3. PICK x \in Errors : x = IF ok THEN t.err ELSE "other"
    BY <1>0 DEF Thread, Errors
  <2>4. t.got \in Results
    BY <1>0 DEF Thread
  <2>5. ASSUME CanRetry(t) PROVE again \in Thread /\ again.pc = "create" /\ again.pod = NoPod
    <3>1. n < MaxRetries
      BY <2>1, <2>5 DEF CanRetry
    <3>2. n + 1 \in 0 .. MaxRetries
      BY <3>1, PodRunAssumption
    <3> HIDE DEF t, agg
    <3>3. [Off EXCEPT !.pc = "create", !.retry = n + 1, !.agg = a] \in Thread
      BY <1>0, <3>2 DEF Thread
    <3>4. again = [Off EXCEPT !.pc = "create", !.retry = n + 1, !.agg = a]
      BY <2>1, <2>2
    <3>5. /\ [Off EXCEPT !.pc = "create", !.retry = n + 1, !.agg = a].pc = "create"
          /\ [Off EXCEPT !.pc = "create", !.retry = n + 1, !.agg = a].pod = NoPod
      BY DEF Off
    <3> QED
      BY <3>3, <3>4, <3>5
  <2>6. over \in Thread /\ over.pc = "done" /\ over.pod = NoPod
    <3> HIDE DEF t, agg
    <3>1. over = [Off EXCEPT !.pc = "done", !.retry = n, !.agg = a, !.got = t.got, !.err = x]
      BY <2>1, <2>2, <2>3
    <3>2. [Off EXCEPT !.pc = "done", !.retry = n, !.agg = a, !.got = t.got, !.err = x] \in Thread
      BY <1>0, <2>4 DEF Thread
    <3>3. /\ [Off EXCEPT !.pc = "done", !.retry = n, !.agg = a, !.got = t.got, !.err = x].pc = "done"
          /\ [Off EXCEPT !.pc = "done", !.retry = n, !.agg = a, !.got = t.got, !.err = x].pod = NoPod
      BY DEF Off
    <3> QED
      BY <3>1, <3>2, <3>3
  <2>7. PICK after \in Thread : task' = [task EXCEPT ![w] = after] /\ after.pod = NoPod
    <3>1. task' = [task EXCEPT ![w] = IF ok /\ CanRetry(t) THEN again ELSE over]
      BY <1>19 DEF Unwind
    <3> HIDE DEF again, over
    <3> QED
      BY <2>5, <2>6, <3>1
  <2>8. task[w].pc # "off" /\ UNCHANGED <<kept, sweeps, caller, rung, esc>>
    BY <1>19 DEF Unwind
  <2>9. CASE task[w].pod = NoPod
    <3>1. UNCHANGED <<cloud, owned, leaked>>
      BY <1>19, <2>9 DEF Unwind
    <3> HIDE DEF t, agg, again, over
    <3> QED
      BY <1>3, <2>7, <2>8, <2>9, <3>1, PodStays
  <2>10. CASE task[w].pod # NoPod
    <3>1. Delete(task[w].pod, ok)
      BY <1>19, <2>10 DEF Unwind
    <3> HIDE DEF t, agg, again, over
    <3> QED
      BY <2>7, <2>8, <3>1, PodDeleted
  <2> QED
    BY <2>9, <2>10
<1> QED
  BY <1>5, <1>7, <1>9, <1>10, <1>11, <1>12, <1>13, <1>14, <1>15, <1>16, <1>17, <1>18, <1>19 DEF Step

(* The watchdog's steps.                                                   *)
LEMMA WatchKeeps ==
    ASSUME PodInv, NEW w \in Worker, Watch(w)
    PROVE  PodInv'
<1>0. PodTypeOK /\ task[w] \in Thread
  BY ThreadFields DEF PodInv, PodAccounted
<1>1. CASE Spare(w)
  <2> DEFINE t == [task[w] EXCEPT !.strikes = @ + 1]
  <2>1. PICK n \in 0 .. MaxStrikes : n = task[w].strikes /\ n < MaxStrikes
    BY <1>0, <1>1 DEF Spare, Thread
  <2>2. n + 1 \in 0 .. MaxStrikes
    BY <2>1, PodRunAssumption
  <2>3. [task[w] EXCEPT !.strikes = n + 1] \in Thread
    BY <1>0, <2>2 DEF Thread
  <2>4. t \in Thread /\ t.pc = "exec" /\ t.pod = task[w].pod
    BY <1>0, <1>1, <2>1, <2>3 DEF Thread, Spare, Commanding
  <2>5. task' = [task EXCEPT ![w] = t]
    BY <1>1 DEF Spare, Goes
  <2> HIDE DEF t
  <2> QED
    BY <1>1, <2>4, <2>5, PodStays DEF Spare, Commanding
<1>2. CASE KillCuts(w)
  <2> DEFINE t == [task[w] EXCEPT !.wd = "killing", !.cut = TRUE]
  <2>1. t \in Thread /\ t.pc = "exec" /\ t.pod = task[w].pod
    BY <1>0, <1>2 DEF Thread, KillCuts, Commanding
  <2>2. task' = [task EXCEPT ![w] = t]
    BY <1>2 DEF KillCuts, Goes
  <2> HIDE DEF t
  <2> QED
    BY <1>2, <2>1, <2>2, PodStays DEF KillCuts, Commanding
<1>3. ASSUME NEW ok \in BOOLEAN, KillDeletes(w, ok) PROVE PodInv'
  <2> DEFINE t == [task[w] EXCEPT !.wd = "ended", !.agg = "destroyed"]
  <2>1. t \in Thread /\ t.pc = "exec"
    BY <1>0, <1>3 DEF Thread, KillDeletes
  <2>2. task' = [task EXCEPT ![w] = t]
    BY <1>3 DEF KillDeletes, Goes
  <2> HIDE DEF t
  <2> QED
    BY <1>3, <2>1, <2>2, PodDeleted DEF KillDeletes
<1> QED
  BY <1>1, <1>2, <1>3 DEF Watch

(* run_experiment's own steps touch no pod: they start a thread, take the  *)
(* answer of one that holds nothing, or leave the threads alone.           *)
LEMMA CallerMoves ==
    ASSUME PodInv, UNCHANGED <<cloud, owned, leaked, kept, sweeps>>, rung' \in 0 .. Ladder, esc' \in Nat,
           caller' \in [pc : {"free", "wait", "gate", "raised", "exited", "killed"},
                        at : Worker \cup {0}, got : Results \cup {"infra"}],
           task' \in [Worker -> Thread],
           \A w \in Worker : task'[w] = task[w] \/ (task[w].pod = NoPod /\ task'[w].pod = NoPod),
           \A w \in Worker : w > caller'.at => task'[w].pc = "off",
           caller'.pc = "wait" => caller'.at \in Worker
    PROVE  PodInv'
<1>1. PodTypeOK'
  BY DEF PodInv, PodAccounted, PodTypeOK
<1>2. ASSUME NEW p \in Pod \ {Kept}, cloud[p] = "up"
      PROVE  p \in leaked \/ (p \in owned /\ \E w \in Worker : task'[w].pod = p)
  <2>1. CASE p \notin leaked
    <3>1. p \in owned /\ \E w \in Worker : task[w].pod = p
      BY <1>2, <2>1 DEF PodInv, PodAccounted
    <3>2. PICK w \in Worker : task[w].pod = p
      BY <3>1
    <3>3. task'[w] = task[w]
      BY <3>2, PodFacts
    <3> QED
      BY <3>1, <3>2, <3>3
  <2> QED
    BY <2>1
<1>3. cloud'[Kept] = "gone" => sweeps'
  BY DEF PodInv, PodAccounted
<1>4. IdleHoldsNothing'
  <2>1. ASSUME NEW w \in Worker, task'[w].pc \in {"off", "create", "done"} PROVE task'[w].pod = NoPod
    BY <2>1 DEF PodInv, IdleHoldsNothing
  <2> QED
    BY <2>1 DEF IdleHoldsNothing
<1> QED
  BY <1>1, <1>2, <1>3, <1>4 DEF PodInv, PodAccounted, KeptIsSafe

(* The steps of run_experiment.                                            *)
LEMMA CallerKeeps ==
    ASSUME PodInv,
           Call \/ Returned \/ OuterTimeout \/ Escalate \/ GateRaises \/ Return \/ RootGoesOn
    PROVE  PodInv'
<1> DEFINE Callers == [pc : {"free", "wait", "gate", "raised", "exited", "killed"},
                       at : Worker \cup {0}, got : Results \cup {"infra"}]
<1>0. /\ PodTypeOK /\ task \in [Worker -> Thread] /\ caller \in Callers
      /\ UNCHANGED <<cloud, owned, leaked, kept, sweeps>>
  BY DEF PodInv, PodAccounted, PodTypeOK, Call, Returned, OuterTimeout, Escalate, GateRaises, Return, RootGoesOn
<1>1. rung \in 0 .. Ladder /\ esc \in Nat /\ Ladder \in Nat
  BY <1>0, PodRunAssumption DEF PodTypeOK
<1>2. /\ \A w \in Worker : task[w].pc \in {"off", "create", "done"} => task[w].pod = NoPod
      /\ \A w \in Worker : w > caller.at => task[w].pc = "off"
  BY DEF PodInv, IdleHoldsNothing
<1>3. PICK m \in Worker \cup {0} : m = caller.at
  BY <1>0
<1>4. m \in Nat /\ \A w \in Worker : w \in Nat
  BY PodRunAssumption DEF Worker
<1>5. ASSUME NEW w \in Worker PROVE Off \in Thread /\ [Off EXCEPT !.pc = "create"] \in Thread
                                    /\ [Off EXCEPT !.pc = "create"].pod = NoPod /\ Off.pod = NoPod
                                    /\ Off.pc = "off"
  <2>1. Off \in Thread
    BY <1>0, ThreadFields
  <2>2. [Off EXCEPT !.pc = "create"] \in Thread
    BY <2>1 DEF Thread
  <2> QED
    BY <2>1, <2>2 DEF Off
<1>6. CASE Call \/ Escalate
  <2>1. /\ m + 1 \in Worker /\ task' = [task EXCEPT ![m + 1] = [Off EXCEPT !.pc = "create"]]
        /\ caller' = [caller EXCEPT !.pc = "wait", !.at = m + 1]
    BY <1>3, <1>6 DEF Call, Escalate, NewThread
  <2>2. caller' \in Callers /\ caller'.at = m + 1 /\ caller'.at \in Worker
    BY <1>0, <2>1
  <2>3. rung' \in 0 .. Ladder /\ esc' \in Nat
    <3>1. CASE Call
      BY <1>1, <3>1 DEF Call
    <3>2. CASE Escalate
      <4>1. rung < Ladder /\ rung' = rung + 1 /\ esc' = esc + 1
        BY <3>2 DEF Escalate, Climbs
      <4> QED
        BY <1>1, <4>1
    <3> QED
      BY <1>6, <3>1, <3>2
  <2>4. m + 1 > m /\ \A w \in Worker : w > m + 1 => w > m /\ w # m + 1
    BY <1>4
  <2>5. task[m + 1].pod = NoPod
    BY <1>2, <1>3, <2>1, <2>4
  <2>6. /\ task' \in [Worker -> Thread] /\ task'[m + 1].pod = NoPod
        /\ \A w \in Worker : w # m + 1 => task'[w] = task[w]
    BY <1>0, <1>5, <2>1
  <2>7. \A w \in Worker : w > caller'.at => task'[w].pc = "off"
    BY <1>2, <1>3, <2>2, <2>4, <2>6
  <2>8. \A w \in Worker : task'[w] = task[w] \/ (task[w].pod = NoPod /\ task'[w].pod = NoPod)
    BY <2>5, <2>6
  <2> QED
    BY <1>0, <2>2, <2>3, <2>6, <2>7, <2>8, CallerMoves
<1>7. ASSUME UNCHANGED <<rung, esc>>, caller' \in Callers, caller'.at = m, caller'.pc # "wait", task' \in [Worker -> Thread],
             \A w \in Worker : task'[w] = task[w] \/ (task[w].pod = NoPod /\ task'[w] = Off)
      PROVE  PodInv'
  <2>1. \A w \in Worker : task'[w] = task[w] \/ (task[w].pod = NoPod /\ task'[w].pod = NoPod)
    BY <1>5, <1>7
  <2>2. \A w \in Worker : w > caller'.at => task'[w].pc = "off"
    BY <1>2, <1>3, <1>5, <1>7
  <2>3. rung' \in 0 .. Ladder /\ esc' \in Nat
    BY <1>1, <1>7
  <2> QED
    BY <1>0, <1>7, <2>1, <2>2, <2>3, CallerMoves
<1>8. CASE Returned
  <2> DEFINE t == task[caller.at]
             answer0 == CASE t.err = "none" -> t.got
                          [] t.err \in {"capacity", "ssh"} -> "infra"
                          [] t.err \notin {"none", "capacity", "ssh"} -> "failed"
  <2>1. /\ caller' = [caller EXCEPT !.pc = "gate", !.got = answer0]
        /\ task' = [task EXCEPT ![m] = Off] /\ task[m].pc = "done" /\ UNCHANGED <<rung, esc>>
    BY <1>3, <1>8 DEF Returned
  <2>2. m \in Worker
    BY <1>3, <1>8 DEF Returned, PodInv, IdleHoldsNothing
  <2>3. PICK x \in Results \cup {"infra"} : x = answer0
    <3>1. t \in Thread
      BY <1>0, <1>3, <2>2
    <3>2. t.got \in Results
      BY <3>1 DEF Thread
    <3> HIDE DEF t
    <3> QED
      BY <3>2 DEF Results
  <2> HIDE DEF t, answer0
  <2>4. caller' \in Callers /\ caller'.at = m /\ caller'.pc # "wait"
    BY <1>0, <1>3, <2>1, <2>3
  <2>5. task[m].pod = NoPod
    BY <1>2, <2>1, <2>2
  <2>6. task' \in [Worker -> Thread] /\ \A w \in Worker : task'[w] = task[w] \/ (task[w].pod = NoPod /\ task'[w] = Off)
    BY <1>0, <1>5, <2>1, <2>2, <2>5
  <2> QED
    BY <1>7, <2>1, <2>4, <2>6
<1>9. CASE OuterTimeout \/ GateRaises \/ Return \/ RootGoesOn
  <2>1. task' = task /\ UNCHANGED <<rung, esc>>
    BY <1>9 DEF OuterTimeout, GateRaises, Return, RootGoesOn
  <2>2. caller' \in Callers /\ caller'.at = m /\ caller'.pc # "wait"
    <3>1. CASE OuterTimeout \/ GateRaises
      BY <1>0, <1>3, <3>1 DEF OuterTimeout, GateRaises, Results
    <3>2. CASE Return \/ RootGoesOn
      <4>1. caller' = [Nothing EXCEPT !.at = m]
        BY <1>3, <3>2 DEF Return, RootGoesOn
      <4> QED
        BY <4>1 DEF Nothing, Results
    <3> QED
      BY <1>9, <3>1, <3>2
  <2> QED
    BY <1>0, <1>7, <2>1, <2>2
<1> QED
  BY <1>6, <1>8, <1>9

(* The process ends, with its exit hooks or without: what it does not      *)
(* delete is lost.                                                         *)
LEMMA ProcessEnds ==
    ASSUME PodInv, ProcessExit \/ ProcessKilled
    PROVE  PodInv'
<1>0. /\ PodTypeOK /\ cloud \in [Pod -> {"none", "up", "gone"}]
      /\ owned \in SUBSET Pod /\ leaked \in SUBSET Pod /\ Kept \notin owned
  BY DEF PodInv, PodAccounted, PodTypeOK, KeptIsSafe
<1>1. /\ task' = [w \in Worker |-> Off] /\ owned' = {} /\ UNCHANGED <<kept, sweeps, rung, esc>>
      /\ caller' \in {[Nothing EXCEPT !.pc = "exited"], [Nothing EXCEPT !.pc = "killed"]}
  BY DEF ProcessExit, ProcessKilled
<1>2. PICK failed \in SUBSET owned :
        /\ cloud' = [p \in Pod |-> IF p \in owned \ failed THEN "gone" ELSE cloud[p]]
        /\ leaked' = leaked \cup failed
  <2>1. CASE ProcessExit
    BY <2>1 DEF ProcessExit
  <2>2. CASE ProcessKilled
    <3>1. cloud' = cloud /\ leaked' = leaked \cup owned
      BY <2>2 DEF ProcessKilled
    <3>2. cloud = [p \in Pod |-> IF p \in owned \ owned THEN "gone" ELSE cloud[p]]
      BY <1>0
    <3> QED
      BY <3>1, <3>2
  <2> QED
    BY <2>1, <2>2
<1>3. /\ cloud' \in [Pod -> {"none", "up", "gone"}] /\ leaked' \in SUBSET Pod
      /\ cloud'[Kept] = cloud[Kept]
  BY <1>0, <1>2, PodFacts
<1>4. ASSUME NEW w \in Worker PROVE Off \in Thread
  BY <1>0, ThreadFields
<1>5. /\ caller' \in [pc : {"free", "wait", "gate", "raised", "exited", "killed"},
                      at : Worker \cup {0}, got : Results \cup {"infra"}]
      /\ caller'.pc # "wait"
  BY <1>1 DEF Nothing, Results
<1>6. PodTypeOK'
  <2>1. task' \in [Worker -> Thread]
    BY <1>1, <1>4
  <2> QED
    BY <1>0, <1>1, <1>3, <1>5, <2>1 DEF PodTypeOK
<1>7. ASSUME NEW p \in Pod \ {Kept}, cloud'[p] = "up" PROVE p \in leaked'
  BY <1>0, <1>2, <1>7 DEF PodInv, PodAccounted
<1>8. IdleHoldsNothing'
  <2>1. Off.pod = NoPod /\ Off.pc = "off"
    BY DEF Off
  <2> QED
    BY <1>1, <1>5, <2>1 DEF IdleHoldsNothing
<1>9. KeptIsSafe' /\ (cloud'[Kept] = "gone" => sweeps')
  BY <1>1, <1>3 DEF PodInv, PodAccounted, KeptIsSafe
<1> QED
  BY <1>6, <1>7, <1>8, <1>9 DEF PodInv, PodAccounted

(* The sweeper takes a pod, the configured one too.                        *)
LEMMA SweepKeeps ==
    ASSUME PodInv, NEW p \in Pod, Sweep(p)
    PROVE  PodInv'
<1>1. /\ cloud \in [Pod -> {"none", "up", "gone"}] /\ cloud' = [cloud EXCEPT ![p] = "gone"] /\ sweeps
      /\ UNCHANGED <<owned, leaked, kept, sweeps, task, caller, rung, esc>>
  BY DEF PodInv, PodAccounted, PodTypeOK, Sweep
<1>2. /\ cloud' \in [Pod -> {"none", "up", "gone"}] /\ cloud'[p] = "gone"
      /\ \A q \in Pod \ {p} : cloud'[q] = cloud[q]
  BY <1>1
<1>3. PodTypeOK'
  BY <1>1, <1>2 DEF PodInv, PodAccounted, PodTypeOK
<1>4. \A q \in Pod \ {Kept} : cloud'[q] = "up" => cloud[q] = "up"
  BY <1>2
<1>5. cloud'[Kept] # "none"
  BY <1>2, PodFacts DEF PodInv, KeptIsSafe
<1> QED
  BY <1>1, <1>3, <1>4, <1>5 DEF PodInv, PodAccounted, IdleHoldsNothing, KeptIsSafe

(* The invariant holds at the start.                                       *)
LEMMA PodInitKeeps == PodInit => PodInv
<1> SUFFICES ASSUME PodInit PROVE PodInv
  OBVIOUS
<1>1. 0 \in 0 .. Commands /\ Commands \in 0 .. Commands /\ 0 \in 0 .. MaxStrikes /\ 0 \in 0 .. MaxRetries
      /\ 0 \in 0 .. Ladder /\ 0 \in Nat
  BY PodRunAssumption
<1>2. Off \in Thread /\ Off.pc = "off" /\ Off.pod = NoPod
  BY <1>1 DEF Off, Thread, Errors, Results
<1>3. PodTypeOK
  <2>1. task \in [Worker -> Thread]
    BY <1>2 DEF PodInit
  <2>2. caller \in [pc : {"free", "wait", "gate", "raised", "exited", "killed"},
                    at : Worker \cup {0}, got : Results \cup {"infra"}]
    BY DEF PodInit, Nothing, Results
  <2> QED
    BY <1>1, <2>1, <2>2 DEF PodInit, PodTypeOK
<1>4. cloud[Kept] = "up" /\ \A p \in Pod \ {Kept} : cloud[p] # "up"
  BY PodFacts DEF PodInit
<1>5. IdleHoldsNothing
  BY <1>2 DEF PodInit, IdleHoldsNothing, Nothing
<1> QED
  BY <1>3, <1>4, <1>5 DEF PodInit, PodInv, PodAccounted, KeptIsSafe

(* No pod is forgotten, for any number of attempts, pods, commands,        *)
(* retries, strikes and rungs: a pod that runs is owned and held by a      *)
(* thread of run_experiment, or is one of those the process lost a reply   *)
(* about, failed to delete or died with.  And nothing but the sweeper      *)
(* takes the pod of OPENRESEARCH_RUNPOD_POD_ID.                            *)
THEOREM NoPodForgotten == PodSpec => []PodAccounted
<1>1. PodInv /\ [PodNext]_podvars => PodInv'
  <2> SUFFICES ASSUME PodInv, [PodNext]_podvars PROVE PodInv'
    OBVIOUS
  <2>1. ASSUME NEW w \in Worker, Step(w) \/ Watch(w) PROVE PodInv'
    BY <2>1, StepKeeps, WatchKeeps
  <2>2. CASE Call \/ Returned \/ OuterTimeout \/ Escalate \/ GateRaises \/ Return \/ RootGoesOn
    BY <2>2, CallerKeeps
  <2>3. CASE ProcessExit \/ ProcessKilled
    BY <2>3, ProcessEnds
  <2>4. ASSUME NEW p \in Pod, Sweep(p) PROVE PodInv'
    BY <2>4, SweepKeeps
  <2>5. CASE UNCHANGED podvars
    BY <2>5 DEF podvars, PodInv, PodAccounted, PodTypeOK, IdleHoldsNothing, KeptIsSafe
  <2> QED
    BY <2>1, <2>2, <2>3, <2>4, <2>5 DEF PodNext
<1>2. PodInv => PodAccounted
  BY DEF PodInv
<1> QED
  BY <1>1, <1>2, PodInitKeeps, PTL DEF PodSpec
=============================================================================
