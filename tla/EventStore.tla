----------------------------- MODULE EventStore -----------------------------
(***************************************************************************)
(* The SQLite event store (backend/eventstore/sqlite_store.py) and writers *)
(* that use it the way the repository's services do: read the version of   *)
(* an aggregate, append a batch expecting that version, and send the same  *)
(* batch again when the answer was lost.                                   *)
(*                                                                         *)
(* append() runs in one BEGIN IMMEDIATE transaction, which no other writer *)
(* can interleave with and which a crash undoes, so it is one step.  A     *)
(* crash after COMMIT is LoseAnswer: the rows are there and the caller     *)
(* does not know.                                                          *)
(***************************************************************************)
EXTENDS Integers, FiniteSets, Sequences, Functions

CONSTANTS
    Aggregate, EventId, Writer,
    Projects,       \* sets of aggregates that a purge deletes together
    MaxBatch,       \* bound: events in a batch
    MaxSeq          \* bound: rows ever inserted

ASSUME ProjectsAssumption == Projects \subseteq SUBSET Aggregate
ASSUME StoreBoundAssumption == MaxBatch \in Nat \ {0} /\ MaxSeq \in Nat

VARIABLES
    rows,       \* event_store_events
    seq,        \* sqlite_sequence of the AUTOINCREMENT key global_position
    call        \* what each writer is doing

storeVars == <<rows, seq, call>>

Batch == {b \in UNION {[1..n -> EventId] : n \in 1..MaxBatch} : IsInjective(b)}
Row == [id : EventId, agg : Aggregate, ver : Nat \ {0}, pos : Nat \ {0}]

(* A call has its arguments and, once answered, the answer and the         *)
(* positions append() returned.                                            *)
NoCall == [pc |-> "idle"]
Answer == {"stored", "replayed", "conflict", "duplicate"}
Call == [pc : {"ready"} \cup Answer, agg : Aggregate, batch : Batch, expected : Nat,
         at : SUBSET Nat]

StoreTypeOK ==
    /\ rows \subseteq Row
    /\ seq \in 0..MaxSeq
    /\ call \in [Writer -> Call \cup {NoCall}]

-----------------------------------------------------------------------------
Ids == {r.id : r \in rows}
Of(a) == {r \in rows : r.agg = a}
RowsWith(b) == {r \in rows : r.id \in Range(b)}

(* MAX(aggregate_version), 0 when there is none.                           *)
Version(a) ==
    IF Of(a) = {} THEN 0 ELSE CHOOSE v \in {r.ver : r \in Of(a)} : \A r \in Of(a) : r.ver <= v

Answered(w, answer, at) == call' = [call EXCEPT ![w].pc = answer, ![w].at = at]

(* The rows of a batch appended to aggregate a after version v.            *)
NewRows(a, b, v) ==
    {[id |-> b[i], agg |-> a, ver |-> v + i, pos |-> seq + i] : i \in DOMAIN b}

(* get_aggregate_version, and the batch the writer builds on it.           *)
ReadVersion(w, a, b) ==
    /\ call[w] = NoCall
    /\ call' = [call EXCEPT ![w] = [pc |-> "ready", agg |-> a, batch |-> b,
                                    expected |-> Version(a), at |-> {}]]
    /\ UNCHANGED <<rows, seq>>

(* Mutant: the optimistic concurrency check is dropped.                    *)
AppendStaleOk(w) ==
    LET c == call[w] IN
    /\ c.pc = "ready"
    /\ RowsWith(c.batch) = {}
    /\ seq + Len(c.batch) <= MaxSeq
    /\ rows' = rows \cup NewRows(c.agg, c.batch, c.expected)
    /\ seq' = seq + Len(c.batch)
    /\ Answered(w, "stored", {r.pos : r \in rows' \ rows})

(* append() of new events at the expected version.                         *)
AppendStored(w) ==
    LET c == call[w] IN
    /\ c.pc = "ready"
    /\ RowsWith(c.batch) = {}
    /\ Version(c.agg) = c.expected
    /\ seq + Len(c.batch) <= MaxSeq
    /\ rows' = rows \cup NewRows(c.agg, c.batch, c.expected)
    /\ seq' = seq + Len(c.batch)
    /\ Answered(w, "stored", {r.pos : r \in rows' \ rows})

(* Mutant: an event id of another aggregate counts as a replay.            *)
AppendReplayedAnywhere(w) ==
    LET c == call[w] IN
    /\ c.pc = "ready"
    /\ Range(c.batch) \subseteq Ids
    /\ Answered(w, "replayed", {r.pos : r \in RowsWith(c.batch)})
    /\ UNCHANGED <<rows, seq>>

(* append() of a batch that is in the store already, on this aggregate:    *)
(* the original positions are returned, whatever version is expected.      *)
AppendReplayed(w) ==
    LET c == call[w] IN
    /\ c.pc = "ready"
    /\ Range(c.batch) \subseteq Ids
    /\ \A r \in RowsWith(c.batch) : r.agg = c.agg
    /\ Answered(w, "replayed", {r.pos : r \in RowsWith(c.batch)})
    /\ UNCHANGED <<rows, seq>>

(* DuplicateEventError: a partial duplicate, or ids of another aggregate.  *)
AppendDuplicate(w) ==
    LET c == call[w] IN
    /\ c.pc = "ready"
    /\ RowsWith(c.batch) # {}
    /\ \/ ~(Range(c.batch) \subseteq Ids)
       \/ \E r \in RowsWith(c.batch) : r.agg # c.agg
    /\ Answered(w, "duplicate", {})
    /\ UNCHANGED <<rows, seq>>

(* ConcurrencyError.                                                       *)
AppendConflict(w) ==
    LET c == call[w] IN
    /\ c.pc = "ready"
    /\ RowsWith(c.batch) = {}
    /\ Version(c.agg) # c.expected
    /\ Answered(w, "conflict", {})
    /\ UNCHANGED <<rows, seq>>

(* The writer dies after COMMIT, or its answer is lost, and it sends the   *)
(* same call again.                                                        *)
LoseAnswer(w) ==
    /\ call[w].pc \in {"stored", "replayed"}
    /\ Answered(w, "ready", {})
    /\ UNCHANGED <<rows, seq>>

(* The writer goes on to its next batch.                                   *)
Return(w) ==
    /\ call[w].pc \in Answer
    /\ call' = [call EXCEPT ![w] = NoCall]
    /\ UNCHANGED <<rows, seq>>

(* Mutant: only the first row of a stream is deleted.                      *)
PurgePart(P) ==
    /\ \E r \in rows : r.agg \in P
    /\ rows' = {r \in rows : r.agg \notin P \/ r.ver > 1}
    /\ UNCHANGED <<seq, call>>

(* purge_project_aggregates: one DELETE.  The key sequence goes on.        *)
PurgeProject(P) ==
    /\ \E r \in rows : r.agg \in P
    /\ rows' = {r \in rows : r.agg \notin P}
    /\ UNCHANGED <<seq, call>>

-----------------------------------------------------------------------------
StoreInit ==
    /\ rows = {}
    /\ seq = 0
    /\ call = [w \in Writer |-> NoCall]

Decide(w) ==
    AppendStored(w) \/ AppendReplayed(w) \/ AppendDuplicate(w) \/ AppendConflict(w)

StoreNext ==
    \/ \E w \in Writer, a \in Aggregate, b \in Batch : ReadVersion(w, a, b)
    \/ \E w \in Writer : Decide(w) \/ LoseAnswer(w) \/ Return(w)
    \/ \E P \in Projects : PurgeProject(P)

StoreSpec == StoreInit /\ [][StoreNext]_storeVars

-----------------------------------------------------------------------------
(* Every stream is gap-free and ordered alike by version and by position,  *)
(* so that load(), load_global() and a subscription see one order.  Two    *)
(* writers that are both told that their batch was stored never hold the   *)
(* same position, not even across a purge: a position names one event for  *)
(* ever, which is what subscription checkpoints rest on.                   *)
OneOrder ==
    /\ StoreTypeOK
    /\ \A a \in Aggregate :
          /\ {r.ver : r \in Of(a)} = 1..Cardinality(Of(a))
          /\ \A r, s \in Of(a) : r.ver < s.ver <=> r.pos < s.pos
    /\ \A w, x \in Writer :
          /\ w # x
          /\ call[w].pc = "stored" /\ call[x].pc = "stored"
          => call[w].at \cap call[x].at = {}

(* A writer that is told its batch is in the store, at once or after any   *)
(* number of lost answers and by whichever writer stored it first, finds   *)
(* at the positions it was given exactly its own events on its own         *)
(* aggregate, or nothing once they are purged.                             *)
AnswerIsTrue ==
    \A w \in Writer :
        LET c == call[w]
            found == {r \in rows : r.pos \in c.at} IN
        c.pc \in {"stored", "replayed"} =>
            \/ found = {}
            \/ {r.id : r \in found} = Range(c.batch) /\ found \subseteq Of(c.agg)

(* The stream of an aggregate: its events by version.                      *)
Stream(a) ==
    [v \in 1..Cardinality(Of(a)) |->
        IF \E r \in Of(a) : r.ver = v THEN (CHOOSE r \in Of(a) : r.ver = v).id ELSE a]

Streams == INSTANCE StreamStore WITH stream <- [a \in Aggregate |-> Stream(a)]

(* The store implements StreamStore: each append changes one stream, by    *)
(* the whole batch at its end, or nothing.                                 *)
StoreImplementsStreams == Streams!Spec
=============================================================================
