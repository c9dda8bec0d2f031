--------------------------- MODULE MCRunProcess ---------------------------
(***************************************************************************)
(* The threads of a run's process, a part at a time: those that end it,    *)
(* and those that train a grid of cells on the cards of the host.  They    *)
(* share no state that the models keep; part says which of them a          *)
(* behaviour is about.                                                     *)
(***************************************************************************)
EXTENDS RunFinalize, CellMatrix

CONSTANTS wide, narrow    \* two cells

VARIABLE part

(* The first cell asks for more cards than there are.                      *)
MCNeed == [x \in Cell |-> IF x = wide THEN 3 ELSE 1]

MCvars == <<fvars, cvars, part>>

MCInit ==
    /\ part \in {"finalize", "grid"}
    /\ FinalizeInit /\ CellInit

Finalizing(A) == part = "finalize" /\ A /\ UNCHANGED <<cvars, part>>
Training(A) == part = "grid" /\ A /\ UNCHANGED <<fvars, part>>

MCNext == Finalizing(FinalizeNext) \/ Training(CellNext)

MCSpec ==
    /\ MCInit /\ [][MCNext]_MCvars
    /\ WF_MCvars(Finalizing(MainStep)) /\ WF_MCvars(Finalizing(Deadline))
    /\ WF_MCvars(Finalizing(WatchdogFires)) /\ WF_MCvars(Finalizing(Write("cost")))
    /\ \A a \in {"watchdog", "sigterm"} : WF_MCvars(Finalizing(Write(a) \/ HardExit(a)))
    /\ WF_MCvars(Training(GridWork))
===========================================================================
