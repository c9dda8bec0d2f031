----------------------------- MODULE MCGpuHost -----------------------------
(***************************************************************************)
(* The other users of the host's cards, each on its own: part says which   *)
(* of them a behaviour is about.  Reservations and the local LLM server    *)
(* share the lease file with ordinary runs.                                *)
(***************************************************************************)
EXTENDS GpuReservation, LlmServer

CONSTANTS s, t, v, w    \* two server scripts and their vLLM processes

VARIABLE part

MCVllmOf == [x \in Server |-> IF x = s THEN v ELSE w]

MCvars == <<gvars, pc, got, bound, part>>

MCInit ==
    /\ part \in {"reservation", "server"}
    /\ ReservationInit /\ ServerInit

Reservation(A) == part = "reservation" /\ A /\ UNCHANGED <<pc, got, bound, part>>
LlmScripts(A) == part = "server" /\ A /\ UNCHANGED <<rvars, part>>

MCNext == Reservation(ReservationNext) \/ LlmScripts(ServerNext)

MCSpec ==
    /\ MCInit /\ [][MCNext]_MCvars
    /\ \A x \in Holder : /\ WF_MCvars(Reservation(Expire(x)))
                         /\ WF_MCvars(Reservation(HolderExit(x)))
=============================================================================
