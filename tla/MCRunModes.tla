----------------------------- MODULE MCRunModes -----------------------------
(***************************************************************************)
(* The run service with its pure RLM runs, and the rubric-driven and       *)
(* hybrid runs, a part at a time: part says which a behaviour is about.    *)
(***************************************************************************)
EXTENDS RunLifecycle, RubricRun, TLC

CONSTANT Parts  \* the parts a run of TLC looks at

VARIABLE part

(* Process ids and clients are interchangeable.                            *)
Symmetric == Permutations(Pid) \cup Permutations(Client)

MCRuns == {<<"rdr", "candidates">>, <<"hybrid", "gate">>}

(* A hybrid run is never resumed; what it leaves is overwritten.           *)
MCCrashes == [rdr |-> 1, hybrid |-> 0]

MCvars == <<lifeVars, rubricVars, part>>

MCInit ==
    /\ part \in Parts
    /\ LifeInit /\ RubricInit
    /\ part = "service" => kind = "rdr"

Serving == part = "service" /\ LifeNext /\ UNCHANGED <<rubricVars, part>>
Rubric == part = "rubric" /\ RubricNext /\ UNCHANGED <<lifeVars, part>>

MCNext == Serving \/ Rubric

MCSpec == MCInit /\ [][MCNext]_MCvars
=============================================================================
