------------------------------ MODULE MCCloud ------------------------------
(***************************************************************************)
(* Experiments outside the host, a part at a time: on a pod of the cloud,  *)
(* and as a grid of Jobs on a cluster.  part says which of the two a       *)
(* behaviour is about.                                                     *)
(***************************************************************************)
EXTENDS PodRun, CellJobs, TLC

VARIABLE part

(* The cells of the grid are interchangeable.                              *)
Symmetric == Permutations(JCell)

MCvars == <<podvars, jvars, part>>

MCInit ==
    /\ part \in {"pod", "cluster"}
    /\ PodInit /\ JobInit
    /\ part = "pod" => \A c \in JCell : blob[c] = "none" /\ jobs[NameOf(c)] = NoJob
    /\ part = "cluster" => kept = NoPod /\ ~sweeps

OnPod == part = "pod" /\ PodNext /\ UNCHANGED <<jvars, part>>
OnCluster == part = "cluster" /\ JobNext /\ UNCHANGED <<podvars, part>>

MCNext == OnPod \/ OnCluster

MCSpec == MCInit /\ [][MCNext]_MCvars
=============================================================================
