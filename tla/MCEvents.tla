------------------------------ MODULE MCEvents ------------------------------
(***************************************************************************)
(* The event store and a subscription to it, each on its own: part says    *)
(* which of them a behaviour is about.  EventStore: two writers on two     *)
(* aggregates of different projects.  EventSubscription: five events,      *)
(* fetched in batches of at most two, so that one batch never holds the    *)
(* whole log and a purge or a crash can split it.                          *)
(***************************************************************************)
EXTENDS EventStore, EventSubscription, TLC

CONSTANTS a1, a2

VARIABLE part

OwnProjects == {{a1}, {a2}}

(* The writers and the ids of the store are interchangeable.  A behaviour  *)
(* of the subscription leaves them in the initial state, which every       *)
(* permutation maps to itself: its fairness and its liveness are not       *)
(* touched by the symmetry.                                                *)
Symmetric == Permutations(EventId) \cup Permutations(Writer)

Store(A) == part = "store" /\ A /\ UNCHANGED <<vars, part>>
Subscription(A) == part = "subscription" /\ A /\ UNCHANGED <<storeVars, part>>

MCvars == <<storeVars, vars, part>>

MCInit == part \in {"store", "subscription"} /\ StoreInit /\ Init

MCNext == Store(StoreNext) \/ Subscription(Next)

MCSpec ==
    /\ MCInit /\ [][MCNext]_MCvars
    /\ WF_MCvars(Subscription(Open))
    /\ SF_MCvars(Subscription(Claim)) /\ SF_MCvars(Subscription(Fetch))
    /\ SF_MCvars(Subscription(Deliver)) /\ SF_MCvars(Subscription(Ack))
    /\ \A x \in Position : WF_MCvars(Subscription(BecomesDue(x)))
=============================================================================
