----------------------------- MODULE MCRootLoop -----------------------------
(***************************************************************************)
(* The root model's loop, a part at a time: the policy that says when it   *)
(* may stop, and the report it stops with.  part says which of the two a   *)
(* behaviour is about.                                                     *)
(***************************************************************************)
EXTENDS ForcedIteration, FinalReport

VARIABLE part

MCvars == <<pvars, reportVars, part>>

MCInit ==
    /\ part \in {"policy", "report"}
    /\ PolicyInit /\ ReportInit
    /\ part = "report" => ~mode.fixFirst /\ ~mode.hardFloor

Deciding == part = "policy" /\ PolicyNext /\ UNCHANGED <<reportVars, part>>
Reporting == part = "report" /\ ReportNext /\ UNCHANGED <<pvars, part>>

MCNext == Deciding \/ Reporting

MCSpec == MCInit /\ [][MCNext]_MCvars
=============================================================================
