----------------------------- MODULE StreamStore -----------------------------
(***************************************************************************)
(* What an event store promises its callers: every aggregate is a stream,  *)
(* a batch of new events is appended to the end of one stream or not at    *)
(* all, no event is in the store twice, and only the purge of a project    *)
(* takes events out, whole streams at a time.                              *)
(***************************************************************************)
EXTENDS Naturals, Sequences, Functions

CONSTANTS Aggregate, EventId, Projects, MaxBatch

VARIABLE stream

Present == UNION {Range(stream[a]) : a \in Aggregate}

Init == stream = [a \in Aggregate |-> <<>>]

AppendBatch(a, batch) ==
    /\ Range(batch) \cap Present = {}
    /\ stream' = [stream EXCEPT ![a] = @ \o batch]

Purge(P) == stream' = [a \in Aggregate |-> IF a \in P THEN <<>> ELSE stream[a]]

Next ==
    \/ \E a \in Aggregate, n \in 1..MaxBatch : \E batch \in [1..n -> EventId] :
          IsInjective(batch) /\ AppendBatch(a, batch)
    \/ \E P \in Projects : Purge(P)

Spec == Init /\ [][Next]_stream
=============================================================================
