------------------------------ MODULE MCLaunch ------------------------------
(***************************************************************************)
(* The two programs that start runs, each on its own: the batch launcher   *)
(* on the cards of the host, and the run service with its sweeper.  part   *)
(* says which of them a behaviour is about.                                *)
(***************************************************************************)
EXTENDS BatchLaunch, RunLifecycle

CONSTANTS
    l1, l2, r1, r2, r3,
    Parts           \* the parts a run of TLC looks at

VARIABLE part

(* A launcher with two papers, or with one, beside one in auto mode.       *)
Owners == [r \in {r1, r2, r3} |-> IF r = r3 THEN l2 ELSE l1]
PairOwners == [r \in {r1, r3} |-> IF r = r3 THEN l2 ELSE l1]
Sizes == [l \in {l1, l2} |-> IF l = l1 THEN 1 ELSE 0]

MCvars == <<vars, lifeVars, part>>

MCInit == part \in Parts /\ Init /\ LifeInit

Batch(A) == part = "batch" /\ A /\ UNCHANGED <<lifeVars, part>>
Service(A) == part = "service" /\ A /\ UNCHANGED <<vars, part>>

MCNext == Batch(Next) \/ Service(LifeNext)

MCSpec == MCInit /\ [][MCNext]_MCvars

(* Fairness of BatchLaunch and LifeFairness of RunLifecycle.               *)
MCFairSpec ==
    /\ MCSpec
    /\ \A l \in Launcher : WF_MCvars(Batch(Main(l)))
    /\ \A r \in Run : /\ WF_MCvars(Batch(Work(r))) /\ WF_MCvars(Batch(ChildExit(r)))
                      /\ SF_MCvars(Batch(Expire(r)))
    /\ \A c \in Client : WF_MCvars(Service(Handle(c)))
    /\ \A p \in Pid : WF_MCvars(Service(ChildStep(p))) /\ WF_MCvars(Service(Watch(p)))
    /\ WF_MCvars(Service(Sweep))
=============================================================================
