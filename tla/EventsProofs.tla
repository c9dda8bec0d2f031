---------------------------- MODULE EventsProofs ----------------------------
(***************************************************************************)
(* Proofs about EventStore and EventSubscription.                          *)
(*                                                                         *)
(* The store, for any number of writers, aggregates, events and purges and *)
(* any length of a batch: streams are gap-free and ordered alike by        *)
(* version and by position, what a writer is told is true, and the table   *)
(* implements StreamStore.                                                 *)
(*                                                                         *)
(* The subscription, for every log, batch limit and number of crashes,     *)
(* nacks, purges and repositionings: a consumer that is reopened only      *)
(* after the retry delay, and repositioned only with nothing held back, is *)
(* given the events in order and loses none.                               *)
(***************************************************************************)
EXTENDS EventStore, EventSubscription, FiniteSetTheorems, TLAPS

(* No event is in the table twice, and neither is a position.              *)
RowsOnce ==
    \A r, s \in rows : r.id = s.id \/ r.pos = s.pos => r = s

(* The versions of an aggregate are 1..n, each in one row.                 *)
Gapless ==
    /\ \A a \in Aggregate : \E n \in Nat : {r.ver : r \in Of(a)} = 1..n
    /\ \A r, s \in rows : r.agg = s.agg /\ r.ver = s.ver => r = s

(* Versions and positions of an aggregate grow together.                   *)
Aligned ==
    \A r, s \in rows : r.agg = s.agg => (r.ver < s.ver <=> r.pos < s.pos)

(* Positions beyond the key sequence are in nobody's hands ...             *)
GivenOut ==
    /\ \A r \in rows : r.pos <= seq
    /\ \A w \in Writer : call[w] # NoCall => call[w].at \subseteq 1..seq

(* ... and no two stored batches have been given the same.                 *)
StoredApart ==
    \A w, x \in Writer :
        w # x /\ call[w].pc = "stored" /\ call[x].pc = "stored"
            => call[w].at \cap call[x].at = {}

StoreInv ==
    /\ StoreTypeOK /\ RowsOnce /\ Gapless /\ Aligned /\ GivenOut /\ StoredApart
    /\ AnswerIsTrue

-----------------------------------------------------------------------------
(* A batch is a non-empty sequence of different events.                   *)
LEMMA BatchFacts ==
    ASSUME NEW b \in Batch
    PROVE  /\ Len(b) \in 1..MaxBatch
           /\ DOMAIN b = 1..Len(b)
           /\ b \in [1..Len(b) -> EventId]
           /\ \A i, j \in 1..Len(b) : b[i] = b[j] => i = j
           /\ Range(b) = {b[i] : i \in 1..Len(b)}
  BY StoreBoundAssumption DEF Batch, IsInjective, Range

(* MAX(aggregate_version) of a gap-free stream is its length.              *)
LEMMA VersionIsLast ==
    ASSUME StoreTypeOK, NEW a \in Aggregate, NEW n \in Nat,
           {r.ver : r \in Of(a)} = 1..n
    PROVE  Version(a) = n
<1>1. CASE n = 0
  <2>1. Of(a) = {}
    BY <1>1
  <2> QED
    BY <1>1, <2>1 DEF Version
<1>2. CASE n > 0
  <2> DEFINE Top(v) == \A r \in Of(a) : r.ver <= v
  <2>1. Of(a) # {} /\ n \in 1..n /\ Top(n)
    BY <1>2
  <2>2. ASSUME NEW v \in 1..n, Top(v) PROVE v = n
    <3>1. PICK r \in Of(a) : r.ver = n
      BY <2>1
    <3>2. n <= v
      BY <2>2, <3>1
    <3> QED
      BY <3>2
  <2> HIDE DEF Top
  <2>3. (CHOOSE v \in 1..n : Top(v)) = n
    BY <2>1, <2>2
  <2> QED
    BY <2>1, <2>3 DEF Version, Top
<1> QED
  BY <1>1, <1>2

(* The rows that append() inserts.                                         *)
LEMMA NewRowFacts ==
    ASSUME StoreTypeOK, NEW a \in Aggregate, NEW b \in Batch, NEW v \in Nat
    PROVE  /\ NewRows(a, b, v) \subseteq Row
           /\ \A r \in NewRows(a, b, v) :
                 /\ r.agg = a /\ r.id \in Range(b)
                 /\ r.pos - seq \in 1..Len(b) /\ r.ver = v + (r.pos - seq)
           /\ \A r, s \in NewRows(a, b, v) : r.id = s.id \/ r.pos = s.pos \/ r.ver = s.ver => r = s
<1>1. Len(b) \in Nat /\ seq \in Nat
  BY BatchFacts, StoreBoundAssumption DEF StoreTypeOK
<1>2. \A i \in 1..Len(b) : b[i] \in EventId /\ b[i] \in Range(b)
  BY BatchFacts
<1>3. NewRows(a, b, v) =
         {[id |-> b[i], agg |-> a, ver |-> v + i, pos |-> seq + i] : i \in 1..Len(b)}
  BY BatchFacts DEF NewRows
<1>4. NewRows(a, b, v) \subseteq Row
  BY <1>1, <1>2, <1>3 DEF Row
<1>5. ASSUME NEW r \in NewRows(a, b, v)
      PROVE  \E i \in 1..Len(b) : /\ r.id = b[i] /\ r.agg = a /\ r.ver = v + i /\ r.pos = seq + i
                                  /\ r = [id |-> b[i], agg |-> a, ver |-> v + i, pos |-> seq + i]
  BY <1>3
<1>6. \A r, s \in NewRows(a, b, v) : r.id = s.id \/ r.pos = s.pos \/ r.ver = s.ver => r = s
  <2> SUFFICES ASSUME NEW r \in NewRows(a, b, v), NEW s \in NewRows(a, b, v),
                      r.id = s.id \/ r.pos = s.pos \/ r.ver = s.ver
               PROVE  r = s
    OBVIOUS
  <2>1. PICK i \in 1..Len(b) : r = [id |-> b[i], agg |-> a, ver |-> v + i, pos |-> seq + i]
    BY <1>5
  <2>2. PICK j \in 1..Len(b) : s = [id |-> b[j], agg |-> a, ver |-> v + j, pos |-> seq + j]
    BY <1>5
  <2>3. b[i] = b[j] \/ seq + i = seq + j \/ v + i = v + j
    BY <2>1, <2>2
  <2>4. i = j
    BY <1>1, <2>3, BatchFacts
  <2> QED
    BY <2>1, <2>2, <2>4
<1>7. ASSUME NEW r \in NewRows(a, b, v)
      PROVE  /\ r.agg = a /\ r.id \in Range(b)
             /\ r.pos - seq \in 1..Len(b) /\ r.ver = v + (r.pos - seq)
  BY <1>1, <1>2, <1>5
<1> QED
  BY <1>4, <1>6, <1>7

(* There is one for each event of the batch.                               *)
LEMMA NewRowEach ==
    ASSUME NEW a \in Aggregate, NEW b \in Batch, NEW v \in Nat, NEW i \in 1..Len(b)
    PROVE  \E r \in NewRows(a, b, v) : r.id = b[i] /\ r.ver = v + i /\ r.pos = seq + i
<1> DEFINE row == [id |-> b[i], agg |-> a, ver |-> v + i, pos |-> seq + i]
<1>1. row \in NewRows(a, b, v)
  BY BatchFacts DEF NewRows
<1>2. row.id = b[i] /\ row.ver = v + i /\ row.pos = seq + i
  OBVIOUS
<1> QED
  BY <1>1, <1>2

-----------------------------------------------------------------------------
(* append() of a new batch.                                                *)
LEMMA StoredKeepsRows ==
    ASSUME StoreInv, NEW w \in Writer, AppendStored(w)
    PROVE  /\ call[w] \in Call
           /\ rows' \ rows = NewRows(call[w].agg, call[w].batch, call[w].expected)
           /\ StoreTypeOK' /\ RowsOnce' /\ Gapless' /\ Aligned' /\ GivenOut'
<1> DEFINE c == call[w]
           new == NewRows(c.agg, c.batch, c.expected)
<1>1. c \in Call
  BY DEF StoreInv, StoreTypeOK, AppendStored, NoCall
<1>2. c.agg \in Aggregate /\ c.batch \in Batch /\ c.expected \in Nat
  BY <1>1 DEF Call
<1>3. Len(c.batch) \in Nat /\ seq \in Nat /\ StoreTypeOK
  BY <1>2, BatchFacts, StoreBoundAssumption DEF StoreInv, StoreTypeOK
<1>4. rows' = rows \cup new /\ seq' = seq + Len(c.batch) /\ seq' <= MaxSeq
  BY DEF AppendStored
<1>5. \A r \in rows : \A s \in new : r.id # s.id /\ r.pos < s.pos
  <2> SUFFICES ASSUME NEW r \in rows, NEW s \in new PROVE r.id # s.id /\ r.pos < s.pos
    OBVIOUS
  <2>1. s.id \in Range(c.batch) /\ s.pos - seq \in 1..Len(c.batch)
    BY <1>2, <1>3, NewRowFacts
  <2>2. r.id \notin Range(c.batch)
    BY DEF AppendStored, RowsWith
  <2>3. r \in Row /\ s \in Row /\ r.pos <= seq
    BY <1>2, <1>3, NewRowFacts DEF StoreInv, StoreTypeOK, GivenOut
  <2>4. r.pos \in Nat /\ s.pos \in Nat
    BY <2>3 DEF Row
  <2> QED
    BY <1>3, <2>1, <2>2, <2>3, <2>4
<1>6. rows' \ rows = new
  BY <1>4, <1>5
<1>7. PICK n \in Nat : {r.ver : r \in Of(c.agg)} = 1..n
  BY <1>2 DEF StoreInv, Gapless
<1>8. c.expected = n
  BY <1>2, <1>3, <1>7, VersionIsLast DEF AppendStored
<1>9. \A r \in rows : r \in Row /\ r.ver \in Nat \ {0} /\ r.pos \in Nat \ {0} /\ r.pos <= seq
  BY DEF StoreInv, StoreTypeOK, Row, GivenOut
<1>10. \A s \in new : /\ s \in Row /\ s.ver \in Nat \ {0} /\ s.pos \in Nat \ {0} /\ s.agg = c.agg
                      /\ s.pos - seq \in 1..Len(c.batch) /\ s.ver = n + (s.pos - seq)
  BY <1>2, <1>3, <1>8, NewRowFacts DEF Row
<1>11. \A r \in rows : r.agg = c.agg => r.ver <= n
  BY <1>7 DEF Of
<1> HIDE DEF new
<1>12. StoreTypeOK'
  <2>1. rows' \subseteq Row
    BY <1>4, <1>9, <1>10
  <2>2. seq' \in 0..MaxSeq
    BY <1>3, <1>4, StoreBoundAssumption
  <2>3. {r.pos : r \in rows' \ rows} \subseteq Nat
    BY <1>6, <1>10
  <2>4. call' \in [Writer -> Call \cup {NoCall}]
    BY <1>1, <2>3 DEF AppendStored, Answered, StoreInv, StoreTypeOK, Call, Answer
  <2> QED
    BY <2>1, <2>2, <2>4 DEF StoreTypeOK
<1>13. RowsOnce'
  <2>1. \A r, s \in new : r.id = s.id \/ r.pos = s.pos => r = s
    BY <1>2, <1>3, NewRowFacts DEF new
  <2>2. \A r, s \in rows : r.id = s.id \/ r.pos = s.pos => r = s
    BY DEF StoreInv, RowsOnce
  <2> QED
    BY <1>4, <1>5, <1>9, <1>10, <2>1, <2>2 DEF RowsOnce
<1>14. Gapless'
  <2>1. ASSUME NEW a \in Aggregate PROVE \E m \in Nat : {r.ver : r \in Of(a)'} = 1..m
    <3>1. CASE a = c.agg
      <4>1. Of(a)' = Of(a) \cup new
        BY <1>4, <1>10, <3>1 DEF Of
      <4>2. ASSUME NEW k \in 1..(n + Len(c.batch)) PROVE \E r \in Of(a)' : r.ver = k
        <5>1. CASE k <= n
          <6>1. k \in 1..n
            BY <5>1
          <6>2. PICK r \in Of(a) : r.ver = k
            BY <1>7, <3>1, <6>1
          <6> QED
            BY <4>1, <6>2
        <5>2. CASE k > n
          <6>1. k - n \in 1..Len(c.batch)
            BY <5>2, <1>3
          <6> DEFINE i == k - n
          <6>2. i \in 1..Len(c.batch) /\ n + i = k
            BY <6>1, <5>2
          <6> HIDE DEF i
          <6>3. \E r \in NewRows(c.agg, c.batch, c.expected) :
                   r.id = c.batch[i] /\ r.ver = c.expected + i /\ r.pos = seq + i
            BY <1>2, <6>2, NewRowEach
          <6>4. PICK r \in new : r.ver = k
            BY <6>2, <6>3, <1>8 DEF new
          <6> QED
            BY <4>1, <6>4
        <5> QED
          BY <5>1, <5>2
      <4>3. ASSUME NEW r \in Of(a)' PROVE r.ver \in 1..(n + Len(c.batch))
        <5>1. CASE r \in Of(a)
          BY <5>1, <1>7, <1>3, <3>1
        <5>2. CASE r \in new
          BY <5>2, <1>10, <1>3
        <5> QED
          BY <4>1, <5>1, <5>2
      <4>4. {r.ver : r \in Of(a)'} = 1..(n + Len(c.batch))
        BY <4>2, <4>3
      <4>5. n + Len(c.batch) \in Nat
        BY <1>3
      <4> QED
        BY <4>4, <4>5
    <3>2. CASE a # c.agg
      <4>1. Of(a)' = Of(a)
        BY <1>4, <1>10, <3>2 DEF Of
      <4> QED
        BY <4>1 DEF StoreInv, Gapless
    <3> QED
      BY <3>1, <3>2
  <2>2. \A r, s \in rows' : r.agg = s.agg /\ r.ver = s.ver => r = s
    <3>1. \A r, s \in new : r.ver = s.ver => r = s
      BY <1>2, <1>3, NewRowFacts DEF new
    <3>2. \A r, s \in rows : r.agg = s.agg /\ r.ver = s.ver => r = s
      BY DEF StoreInv, Gapless
    <3>3. \A r \in rows, s \in new : r.agg = s.agg => r.ver # s.ver
      BY <1>3, <1>9, <1>10, <1>11
    <3> QED
      BY <1>4, <3>1, <3>2, <3>3
  <2> QED
    BY <2>1, <2>2 DEF Gapless
<1>15. Aligned'
  <2>1. \A r, s \in rows : r.agg = s.agg => (r.ver < s.ver <=> r.pos < s.pos)
    BY DEF StoreInv, Aligned
  <2>2. ASSUME NEW r \in new, NEW s \in new PROVE r.ver < s.ver <=> r.pos < s.pos
    <3>1. /\ r.ver = n + (r.pos - seq) /\ s.ver = n + (s.pos - seq)
          /\ r.pos \in Nat /\ s.pos \in Nat
      BY <1>10
    <3> QED
      BY <1>3, <3>1
  <2>3. \A r \in rows, s \in new : r.agg = s.agg => /\ r.ver < s.ver /\ ~(s.ver < r.ver)
                                                    /\ r.pos < s.pos /\ ~(s.pos < r.pos)
    BY <1>3, <1>5, <1>9, <1>10, <1>11
  <2> QED
    BY <1>4, <2>1, <2>2, <2>3 DEF Aligned
<1>16. GivenOut'
  <2>1. \A r \in rows' : r.pos <= seq'
    BY <1>3, <1>4, <1>9, <1>10
  <2>2. {r.pos : r \in new} \subseteq 1..seq'
    BY <1>3, <1>4, <1>10
  <2>3. 1..seq \subseteq 1..seq'
    BY <1>3, <1>4
  <2>4. \A x \in Writer : call'[x] # NoCall => call'[x].at \subseteq 1..seq'
    BY <1>1, <1>6, <2>2, <2>3 DEF AppendStored, Answered, StoreInv, StoreTypeOK, GivenOut, Call
  <2> QED
    BY <2>1, <2>4 DEF GivenOut
<1> QED
  BY <1>1, <1>6, <1>12, <1>13, <1>14, <1>15, <1>16 DEF new

(* It gives its writer positions that nobody else was given.              *)
LEMMA StoredKeepsAnswers ==
    ASSUME StoreInv, NEW w \in Writer, AppendStored(w)
    PROVE  StoredApart' /\ AnswerIsTrue'
<1> DEFINE c == call[w]
           new == NewRows(c.agg, c.batch, c.expected)
<1>1. c \in Call /\ rows' \ rows = new
  BY StoredKeepsRows
<1>2. c.agg \in Aggregate /\ c.batch \in Batch /\ c.expected \in Nat /\ StoreTypeOK
  BY <1>1 DEF Call, StoreInv
<1>3. rows' = rows \cup new
  BY DEF AppendStored
<1>4. Len(c.batch) \in Nat /\ seq \in Nat
  BY <1>2, BatchFacts, StoreBoundAssumption DEF StoreTypeOK
<1>5. \A r \in rows : r.pos \in Nat /\ r.pos <= seq
  BY DEF StoreInv, StoreTypeOK, Row, GivenOut
<1>6. \A r \in new : r.pos \in Nat /\ r.pos > seq /\ r.agg = c.agg /\ r.id \in Range(c.batch)
  <2> SUFFICES ASSUME NEW r \in new
               PROVE  r.pos \in Nat /\ r.pos > seq /\ r.agg = c.agg /\ r.id \in Range(c.batch)
    OBVIOUS
  <2>1. r \in Row /\ r.agg = c.agg /\ r.id \in Range(c.batch) /\ r.pos - seq \in 1..Len(c.batch)
    BY <1>2, NewRowFacts
  <2>2. r.pos \in Nat
    BY <2>1 DEF Row
  <2> QED
    BY <1>4, <2>1, <2>2
<1>7. \A e \in Range(c.batch) : \E r \in new : r.id = e
  <2> SUFFICES ASSUME NEW i \in 1..Len(c.batch) PROVE \E r \in new : r.id = c.batch[i]
    BY <1>2, BatchFacts
  <2> QED
    BY <1>2, NewRowEach
<1> HIDE DEF new
<1>8. \A x \in Writer : call[x] # NoCall => call[x].at \subseteq 1..seq
  BY DEF StoreInv, GivenOut
<1>9. /\ call'[w].pc = "stored" /\ call'[w].at = {r.pos : r \in new}
      /\ call'[w].batch = c.batch /\ call'[w].agg = c.agg
      /\ \A x \in Writer \ {w} : call'[x] = call[x]
  BY <1>1, <1>2 DEF AppendStored, Answered, StoreTypeOK, Call
<1>10. StoredApart'
  <2>1. ASSUME NEW x \in Writer \ {w}, call[x].pc = "stored"
        PROVE  call[x].at \cap {r.pos : r \in new} = {}
    <3>1. call[x].at \subseteq 1..seq
      BY <1>8, <2>1 DEF NoCall
    <3> QED
      BY <1>4, <1>6, <3>1
  <2>2. \A x, y \in Writer : x # y /\ call[x].pc = "stored" /\ call[y].pc = "stored"
                                => call[x].at \cap call[y].at = {}
    BY DEF StoreInv, StoredApart
  <2> QED
    BY <1>9, <2>1, <2>2 DEF StoredApart
<1>11. AnswerIsTrue'
  <2> SUFFICES ASSUME NEW x \in Writer, call'[x].pc \in {"stored", "replayed"}
               PROVE  LET found == {r \in rows' : r.pos \in call'[x].at}
                      IN  \/ found = {}
                          \/ /\ {r.id : r \in found} = Range(call'[x].batch)
                             /\ \A r \in found : r.agg = call'[x].agg
    BY DEF AnswerIsTrue, Of
  <2> DEFINE found == {r \in rows' : r.pos \in call'[x].at}
  <2>1. CASE x = w
    <3>1. found = new
      <4>1. \A r \in rows : r.pos \notin {s.pos : s \in new}
        BY <1>4, <1>5, <1>6
      <4> QED
        BY <1>3, <1>9, <2>1, <4>1
    <3>2. {r.id : r \in found} = Range(c.batch)
      BY <1>6, <1>7, <3>1
    <3>3. \A r \in found : r.agg = c.agg
      BY <1>6, <3>1
    <3> QED
      BY <1>9, <2>1, <3>2, <3>3
  <2>2. CASE x # w
    <3>1. call'[x] = call[x] /\ call[x].at \subseteq 1..seq
      BY <1>8, <1>9, <2>2 DEF NoCall
    <3>2. found = {r \in rows : r.pos \in call[x].at}
      BY <1>3, <1>4, <1>6, <3>1
    <3>3. LET old == {r \in rows : r.pos \in call[x].at}
          IN  \/ old = {}
              \/ {r.id : r \in old} = Range(call[x].batch) /\ \A r \in old : r.agg = call[x].agg
      BY <3>1 DEF StoreInv, AnswerIsTrue, Of
    <3> QED
      BY <3>1, <3>2, <3>3
  <2> QED
    BY <2>1, <2>2
<1> QED
  BY <1>10, <1>11

-----------------------------------------------------------------------------
(* append() that stores nothing changes what one writer was told.          *)
LEMMA RowsStandStill ==
    ASSUME StoreInv, NEW w \in Writer, UNCHANGED <<rows, seq>>,
           NEW v \in Call \cup {NoCall}, call' = [call EXCEPT ![w] = v],
           v # NoCall => v.at \subseteq 1..seq,
           v.pc # "stored",
           v.pc = "replayed" =>
               LET found == {r \in rows : r.pos \in v.at}
               IN  {r.id : r \in found} = Range(v.batch) /\ found \subseteq Of(v.agg)
    PROVE  StoreInv'
<1>1. call'[w] = v /\ \A x \in Writer \ {w} : call'[x] = call[x]
  BY DEF StoreInv, StoreTypeOK
<1>2. StoreTypeOK' /\ RowsOnce' /\ Aligned'
  BY DEF StoreInv, StoreTypeOK, RowsOnce, Aligned
<1>3. Gapless'
  BY DEF StoreInv, Gapless, Of
<1>4. GivenOut'
  BY <1>1 DEF StoreInv, GivenOut
<1>5. StoredApart'
  BY <1>1 DEF StoreInv, StoredApart
<1>6. AnswerIsTrue'
  <2> SUFFICES ASSUME NEW x \in Writer, call'[x].pc \in {"stored", "replayed"}
               PROVE  LET found == {r \in rows : r.pos \in call'[x].at}
                      IN  \/ found = {}
                          \/ /\ {r.id : r \in found} = Range(call'[x].batch)
                             /\ found \subseteq Of(call'[x].agg)
    BY DEF AnswerIsTrue, Of
  <2>1. CASE x = w
    BY <1>1, <2>1
  <2>2. CASE x # w
    BY <1>1, <2>2 DEF StoreInv, AnswerIsTrue
  <2> QED
    BY <2>1, <2>2
<1> QED
  BY <1>2, <1>3, <1>4, <1>5, <1>6 DEF StoreInv

(* A purge takes whole streams.                                            *)
LEMMA PurgeKeepsInv ==
    ASSUME StoreInv, NEW P \in Projects, PurgeProject(P)
    PROVE  StoreInv'
<1>1. rows' = {r \in rows : r.agg \notin P} /\ rows' \subseteq rows /\ seq' = seq /\ call' = call
  BY DEF PurgeProject
<1>2. StoreTypeOK' /\ RowsOnce' /\ Aligned' /\ GivenOut' /\ StoredApart'
  BY <1>1 DEF StoreInv, StoreTypeOK, RowsOnce, Aligned, GivenOut, StoredApart
<1>3. Gapless'
  <2>1. ASSUME NEW a \in Aggregate PROVE \E n \in Nat : {r.ver : r \in Of(a)'} = 1..n
    <3>1. CASE a \in P
      <4>1. {r.ver : r \in Of(a)'} = 1..0
        BY <1>1, <3>1 DEF Of
      <4> QED
        BY <4>1
    <3>2. CASE a \notin P
      <4>1. Of(a)' = Of(a)
        BY <1>1, <3>2 DEF Of
      <4> QED
        BY <4>1 DEF StoreInv, Gapless
    <3> QED
      BY <3>1, <3>2
  <2> QED
    BY <1>1, <2>1 DEF StoreInv, Gapless
<1>4. AnswerIsTrue'
  <2> SUFFICES ASSUME NEW x \in Writer, call[x].pc \in {"stored", "replayed"}
               PROVE  LET found == {r \in rows' : r.pos \in call[x].at}
                      IN  \/ found = {}
                          \/ /\ {r.id : r \in found} = Range(call[x].batch)
                             /\ \A r \in found : r.agg = call[x].agg
    BY <1>1 DEF AnswerIsTrue, Of
  <2> DEFINE old == {r \in rows : r.pos \in call[x].at}
             found == {r \in rows' : r.pos \in call[x].at}
  <2>1. \/ old = {}
        \/ {r.id : r \in old} = Range(call[x].batch) /\ \A r \in old : r.agg = call[x].agg
    BY DEF StoreInv, AnswerIsTrue, Of
  <2>2. found = {} \/ found = old
    BY <1>1, <2>1
  <2> QED
    BY <2>1, <2>2
<1> QED
  BY <1>2, <1>3, <1>4 DEF StoreInv

(* Every step keeps the inductive invariant.                               *)
LEMMA StoreInvInductive == StoreInv /\ [StoreNext]_storeVars => StoreInv'
<1> SUFFICES ASSUME StoreInv, [StoreNext]_storeVars PROVE StoreInv'
  OBVIOUS
<1>0. StoreTypeOK /\ call \in [Writer -> Call \cup {NoCall}]
  BY DEF StoreInv, StoreTypeOK
<1>1. ASSUME NEW w \in Writer, NEW a \in Aggregate, NEW b \in Batch, ReadVersion(w, a, b)
      PROVE  StoreInv'
  <2> DEFINE v == [pc |-> "ready", agg |-> a, batch |-> b, expected |-> Version(a), at |-> {}]
  <2>1. PICK n \in Nat : {r.ver : r \in Of(a)} = 1..n
    BY DEF StoreInv, Gapless
  <2>2. Version(a) \in Nat
    BY <1>0, <2>1, VersionIsLast
  <2>3. v \in Call
    BY <2>2 DEF Call
  <2>4. v.at \subseteq 1..seq /\ v.pc = "ready"
    OBVIOUS
  <2>5. call' = [call EXCEPT ![w] = v] /\ UNCHANGED <<rows, seq>>
    BY <1>1 DEF ReadVersion
  <2> HIDE DEF v
  <2> QED
    BY <2>3, <2>4, <2>5, RowsStandStill
<1>2. ASSUME NEW w \in Writer, AppendStored(w) PROVE StoreInv'
  BY <1>2, StoredKeepsRows, StoredKeepsAnswers DEF StoreInv
<1>3. ASSUME NEW w \in Writer, call[w] # NoCall, NEW answer \in Answer \cup {"ready"},
             answer # "stored", NEW at \in SUBSET (1..seq), Answered(w, answer, at),
             UNCHANGED <<rows, seq>>,
             answer = "replayed" =>
                 LET found == {r \in rows : r.pos \in at}
                 IN  {r.id : r \in found} = Range(call[w].batch) /\ found \subseteq Of(call[w].agg)
      PROVE  StoreInv'
  <2> DEFINE v == [call[w] EXCEPT !.pc = answer, !.at = at]
  <2>1. call[w] \in Call /\ seq \in Nat
    BY <1>0, <1>3, StoreBoundAssumption DEF StoreTypeOK
  <2>2. v \in Call /\ v.pc = answer /\ v.at = at /\ v.batch = call[w].batch /\ v.agg = call[w].agg
    <3>1. at \in SUBSET Nat /\ answer \in {"ready"} \cup Answer
      BY <2>1
    <3> QED
      BY <2>1, <3>1 DEF Call
  <2>3. call' = [call EXCEPT ![w] = v]
    BY <1>0, <1>3, <2>1 DEF Answered, Call
  <2> HIDE DEF v
  <2> QED
    BY <1>3, <2>2, <2>3, RowsStandStill
<1>4. ASSUME NEW w \in Writer, AppendReplayed(w) PROVE StoreInv'
  <2> DEFINE at == {r.pos : r \in RowsWith(call[w].batch)}
  <2>1. at \subseteq 1..seq
    BY DEF StoreInv, StoreTypeOK, GivenOut, RowsWith, Row
  <2>2. {r \in rows : r.pos \in at} = RowsWith(call[w].batch)
    BY DEF StoreInv, RowsOnce, RowsWith
  <2>3. {r.id : r \in RowsWith(call[w].batch)} = Range(call[w].batch)
    BY <1>4 DEF AppendReplayed, RowsWith, Ids
  <2>4. RowsWith(call[w].batch) \subseteq Of(call[w].agg)
    BY <1>4 DEF AppendReplayed, RowsWith, Of
  <2>5. call[w] # NoCall /\ Answered(w, "replayed", at) /\ UNCHANGED <<rows, seq>>
    BY <1>4 DEF AppendReplayed, NoCall
  <2> HIDE DEF at
  <2> QED
    BY <1>3, <2>1, <2>2, <2>3, <2>4, <2>5 DEF Answer
<1>5. ASSUME NEW w \in Writer, AppendDuplicate(w) \/ AppendConflict(w) \/ LoseAnswer(w)
      PROVE  StoreInv'
  <2>1. PICK answer \in {"duplicate", "conflict", "ready"} :
           call[w] # NoCall /\ Answered(w, answer, {}) /\ UNCHANGED <<rows, seq>>
    BY <1>5 DEF AppendDuplicate, AppendConflict, LoseAnswer, NoCall
  <2> QED
    BY <1>3, <2>1 DEF Answer
<1>6. ASSUME NEW w \in Writer, Return(w) PROVE StoreInv'
  <2>1. NoCall.pc = "idle"
    BY DEF NoCall
  <2> QED
    BY <1>6, <2>1, RowsStandStill DEF Return
<1>7. ASSUME NEW P \in Projects, PurgeProject(P) PROVE StoreInv'
  BY <1>7, PurgeKeepsInv
<1>8. CASE UNCHANGED storeVars
  BY <1>8 DEF storeVars, StoreInv, StoreTypeOK, RowsOnce, Gapless, Aligned, GivenOut, StoredApart,
     AnswerIsTrue, Of
<1> QED
  BY <1>1, <1>2, <1>4, <1>5, <1>6, <1>7, <1>8 DEF StoreNext, Decide

(* So it holds in every state the store can reach.                        *)
LEMMA StoreInvHolds == StoreSpec => []StoreInv
<1>1. StoreInit => StoreInv
  <2> SUFFICES ASSUME StoreInit PROVE StoreInv
    OBVIOUS
  <2>1. StoreTypeOK
    BY StoreBoundAssumption DEF StoreInit, StoreTypeOK
  <2>2. \A w \in Writer : call[w] = NoCall /\ call[w].pc = "idle"
    BY DEF StoreInit, NoCall
  <2>3. ASSUME NEW a \in Aggregate PROVE \E n \in Nat : {r.ver : r \in Of(a)} = 1..n
    <3>1. {r.ver : r \in Of(a)} = 1..0
      BY DEF StoreInit, Of
    <3> QED
      BY <3>1
  <2> QED
    BY <2>1, <2>2, <2>3 DEF StoreInit, StoreInv, RowsOnce, Gapless, Aligned, GivenOut, StoredApart,
       AnswerIsTrue
<1> QED
  BY <1>1, StoreInvInductive, PTL DEF StoreSpec

-----------------------------------------------------------------------------
(* A stream has as many rows as its last version says.                     *)
LEMMA StreamLength ==
    ASSUME StoreInv, NEW a \in Aggregate, NEW n \in Nat, {r.ver : r \in Of(a)} = 1..n
    PROVE  Cardinality(Of(a)) = n
<1> DEFINE f == [v \in 1..n |-> CHOOSE r \in Of(a) : r.ver = v]
<1>1. \A v \in 1..n : f[v] \in Of(a) /\ f[v].ver = v
  OBVIOUS
<1>2. f \in [1..n -> Of(a)]
  BY <1>1
<1>3. IsInjective(f)
  <2>1. \A u, v \in 1..n : f[u] = f[v] => u = v
    BY <1>1
  <2> QED
    BY <1>2, <2>1 DEF IsInjective
<1>4. \A r \in Of(a) : \E v \in 1..n : f[v] = r
  <2> SUFFICES ASSUME NEW r \in Of(a) PROVE f[r.ver] = r /\ r.ver \in 1..n
    OBVIOUS
  <2>1. r.ver \in 1..n
    OBVIOUS
  <2>2. f[r.ver] \in Of(a) /\ f[r.ver].ver = r.ver
    BY <1>1, <2>1
  <2> HIDE DEF f
  <2> QED
    BY <2>1, <2>2 DEF StoreInv, Gapless, Of
<1> HIDE DEF f
<1>5. ExistsBijection(1..n, Of(a))
  BY <1>2, <1>3, <1>4 DEF ExistsBijection, Bijection, Injection, Surjection
<1>6. IsFiniteSet(1..n) /\ Cardinality(1..n) = n
  BY FS_Interval
<1> QED
  BY <1>5, <1>6, FS_Bijection

(* Streams are gap-free and in one order, and a position is given to one   *)
(* batch only, for any number of writers, losses of answers and purges.    *)
THEOREM StoreKeepsOneOrder == StoreSpec => []OneOrder
<1>1. StoreInv => OneOrder
  <2> SUFFICES ASSUME StoreInv PROVE OneOrder
    OBVIOUS
  <2>1. ASSUME NEW a \in Aggregate PROVE {r.ver : r \in Of(a)} = 1..Cardinality(Of(a))
    <3>1. PICK n \in Nat : {r.ver : r \in Of(a)} = 1..n
      BY DEF StoreInv, Gapless
    <3> QED
      BY <3>1, StreamLength
  <2>2. \A a \in Aggregate : \A r, s \in Of(a) : r.ver < s.ver <=> r.pos < s.pos
    BY DEF StoreInv, Aligned, Of
  <2> QED
    BY <2>1, <2>2 DEF StoreInv, StoredApart, OneOrder
<1> QED
  BY <1>1, StoreInvHolds, PTL

(* A writer that was told its batch is stored finds exactly its own events *)
(* at the positions append() returned, or none once they are purged.       *)
THEOREM StoreAnswersTruly == StoreSpec => []AnswerIsTrue
<1>1. StoreInv => AnswerIsTrue
  BY DEF StoreInv
<1> QED
  BY <1>1, StoreInvHolds, PTL

-----------------------------------------------------------------------------
(* The refinement mapping reads the rows of an aggregate by version.       *)
StreamsRead ==
    \A a \in Aggregate :
        /\ Cardinality(Of(a)) \in Nat
        /\ {r.ver : r \in Of(a)} = 1..Cardinality(Of(a))
        /\ Stream(a) \in [1..Cardinality(Of(a)) -> EventId]
        /\ \A r \in Of(a) : Stream(a)[r.ver] = r.id

(* It does in every state of the store: no version is in two rows.         *)
LEMMA StreamsAreRead == StoreInv => StreamsRead
<1> SUFFICES ASSUME StoreInv, NEW a \in Aggregate
             PROVE  /\ Cardinality(Of(a)) \in Nat
                    /\ {r.ver : r \in Of(a)} = 1..Cardinality(Of(a))
                    /\ Stream(a) \in [1..Cardinality(Of(a)) -> EventId]
                    /\ \A r \in Of(a) : Stream(a)[r.ver] = r.id
  BY DEF StreamsRead
<1>1. PICK n \in Nat : {r.ver : r \in Of(a)} = 1..n
  BY DEF StoreInv, Gapless
<1>2. Cardinality(Of(a)) = n
  BY <1>1, StreamLength
<1>3. \A r, s \in Of(a) : r.ver = s.ver => r = s
  BY DEF StoreInv, Gapless, Of
<1>4. \A r \in Of(a) : r.ver \in 1..n /\ r.id \in EventId
  BY <1>1 DEF StoreInv, StoreTypeOK, Row, Of
<1>5. ASSUME NEW v \in 1..n
      PROVE  \E r \in Of(a) : r.ver = v /\ Stream(a)[v] = r.id
  <2>1. \E r \in Of(a) : r.ver = v
    BY <1>1
  <2>2. (CHOOSE r \in Of(a) : r.ver = v) \in Of(a) /\ (CHOOSE r \in Of(a) : r.ver = v).ver = v
    BY <2>1
  <2>3. Stream(a)[v] = (CHOOSE r \in Of(a) : r.ver = v).id
    BY <1>2, <2>1 DEF Stream
  <2> QED
    BY <2>2, <2>3
<1>6. Stream(a) = [v \in 1..n |-> Stream(a)[v]]
  BY <1>2 DEF Stream
<1>7. Stream(a) \in [1..n -> EventId]
  BY <1>4, <1>5, <1>6
<1>8. \A r \in Of(a) : Stream(a)[r.ver] = r.id
  BY <1>3, <1>4, <1>5
<1> QED
  BY <1>1, <1>2, <1>7, <1>8

(* append() of a new batch puts the whole batch at the end of one stream.  *)
LEMMA StoredIsAppend ==
    ASSUME StoreInv, StreamsRead, StreamsRead', NEW w \in Writer, AppendStored(w)
    PROVE  Streams!Next
<1>1. call[w] \in Call /\ rows' \ rows = NewRows(call[w].agg, call[w].batch, call[w].expected)
  BY StoredKeepsRows
<1>2. PICK g \in Aggregate, b \in Batch, n \in Nat :
         g = call[w].agg /\ b = call[w].batch /\ n = call[w].expected
  BY <1>1 DEF Call
<1> DEFINE new == NewRows(g, b, n)
<1>3. /\ Len(b) \in 1..MaxBatch /\ b \in [1..Len(b) -> EventId]
      /\ IsInjective(b) /\ DOMAIN b = 1..Len(b)
  BY BatchFacts DEF Batch
<1>4. rows' = rows \cup new /\ RowsWith(b) = {} /\ Version(g) = n
  BY <1>2 DEF AppendStored
<1>5. Cardinality(Of(g)) = n /\ Len(b) \in Nat
  <2>1. Cardinality(Of(g)) \in Nat /\ {r.ver : r \in Of(g)} = 1..Cardinality(Of(g))
    BY DEF StreamsRead
  <2>2. Version(g) = Cardinality(Of(g))
    BY <2>1, VersionIsLast DEF StoreInv
  <2> QED
    BY <1>3, <1>4, <2>2, StoreBoundAssumption
<1>6. /\ \A r \in new : r.agg = g /\ r.pos - seq \in 1..Len(b) /\ r.ver = n + (r.pos - seq)
      /\ seq \in Nat
  BY NewRowFacts, StoreBoundAssumption DEF StoreInv, StoreTypeOK
<1>7. \A i \in 1..Len(b) : \E r \in new : r.id = b[i] /\ r.ver = n + i
  BY NewRowEach
<1> HIDE DEF new
<1>8. ASSUME NEW a \in Aggregate, a # g PROVE Stream(a)' = Stream(a)
  <2>1. Of(a)' = Of(a)
    BY <1>4, <1>6, <1>8 DEF Of
  <2> QED
    BY <2>1 DEF Stream
<1>9. Stream(g)' = Stream(g) \o b
  <2> DEFINE old == Stream(g)
             m == n + Len(b)
  <2>1. Of(g)' = Of(g) \cup new
    BY <1>4, <1>6 DEF Of
  <2>2. /\ Cardinality(Of(g))' \in Nat
        /\ {r.ver : r \in Of(g)'} = 1..Cardinality(Of(g))'
        /\ Stream(g)' \in [1..Cardinality(Of(g))' -> EventId]
        /\ \A r \in Of(g)' : Stream(g)'[r.ver] = r.id
    BY DEF StreamsRead
  <2>3. /\ {r.ver : r \in Of(g)} = 1..n /\ old \in [1..n -> EventId]
        /\ \A r \in Of(g) : old[r.ver] = r.id
    BY <1>5 DEF StreamsRead
  <2>4. {r.ver : r \in Of(g)'} = 1..m
    <3>1. \A r \in new : r.ver \in 1..m
      BY <1>5, <1>6
    <3>2. \A r \in Of(g) : r.ver \in 1..m
      BY <1>5, <2>3
    <3>3. ASSUME NEW k \in 1..m PROVE \E r \in Of(g)' : r.ver = k
      <4>1. CASE k <= n
        BY <2>1, <2>3, <4>1
      <4>2. CASE k > n
        <5>1. k - n \in 1..Len(b) /\ n + (k - n) = k
          BY <1>5, <4>2
        <5> QED
          BY <1>7, <2>1, <5>1
      <4> QED
        BY <4>1, <4>2
    <3> QED
      BY <2>1, <3>1, <3>2, <3>3
  <2>5. Cardinality(Of(g))' = m
    <3>1. 1..Cardinality(Of(g))' = 1..m /\ m \in Nat
      BY <1>5, <2>2, <2>4
    <3> HIDE DEF m
    <3> QED
      BY <2>2, <3>1
  <2>6. ASSUME NEW k \in 1..n PROVE Stream(g)'[k] = old[k]
    <3>1. PICK r \in Of(g) : r.ver = k
      BY <2>3
    <3> QED
      BY <2>1, <2>2, <2>3, <3>1
  <2>7. ASSUME NEW i \in 1..Len(b) PROVE Stream(g)'[n + i] = b[i]
    <3>1. PICK r \in new : r.id = b[i] /\ r.ver = n + i
      BY <1>7
    <3> QED
      BY <2>1, <2>2, <3>1
  <2>8. Stream(g)' \in [1..m -> EventId]
    BY <2>2, <2>5
  <2> DEFINE both == old \o b
             now == Stream(g)'
  <2>9. both = [k \in 1..m |-> IF k <= n THEN old[k] ELSE b[k - n]]
    <3>1. old \in Seq(EventId) /\ b \in Seq(EventId) /\ Len(old) = n
      BY <1>3, <1>5, <2>3
    <3>2. Len(both) = m /\ both \in Seq(EventId)
      BY <1>5, <3>1
    <3>3. \A k \in 1..m : both[k] = IF k <= n THEN old[k] ELSE b[k - n]
      BY <1>5, <3>1
    <3> HIDE DEF both
    <3> QED
      BY <1>5, <3>2, <3>3
  <2>10. ASSUME NEW k \in 1..m PROVE now[k] = both[k]
    <3>1. CASE k <= n
      BY <2>6, <2>9, <3>1
    <3>2. CASE k > n
      <4>1. k - n \in 1..Len(b) /\ n + (k - n) = k
        BY <1>5, <3>2
      <4>2. now[k] = b[k - n]
        BY <2>7, <4>1
      <4> QED
        BY <1>5, <2>9, <3>2, <4>2
    <3>3. k <= n \/ k > n
      BY <1>5
    <3> QED
      BY <3>1, <3>2, <3>3
  <2>11. now = [k \in 1..m |-> now[k]] /\ both = [k \in 1..m |-> both[k]]
    BY <2>8, <2>9
  <2> HIDE DEF now, both
  <2>12. now = both
    BY <2>10, <2>11
  <2> QED
    BY <2>12 DEF now, both
<1>10. Range(b) \cap Streams!Present = {}
  <2> SUFFICES ASSUME NEW a \in Aggregate, NEW e \in Range(Stream(a)) PROVE e \notin Range(b)
    BY DEF Streams!Present, Streams!Range, Range
  <2>1. PICK v \in 1..Cardinality(Of(a)) : e = Stream(a)[v]
    BY DEF StreamsRead, Range
  <2>2. PICK r \in Of(a) : r.ver = v
    BY DEF StreamsRead
  <2>3. r.id = e
    BY <2>1, <2>2 DEF StreamsRead
  <2> QED
    BY <1>4, <2>3 DEF RowsWith, Of
<1>11. [a \in Aggregate |-> Stream(a)]' = [[a \in Aggregate |-> Stream(a)] EXCEPT ![g] = @ \o b]
  BY <1>8, <1>9
<1>12. Streams!AppendBatch(g, b)
  BY <1>10, <1>11 DEF Streams!AppendBatch, Streams!Range, Range
<1> QED
  BY <1>3, <1>12 DEF Streams!Next, Streams!IsInjective, IsInjective

(* The purge of a project empties its streams.                             *)
LEMMA PurgeIsPurge ==
    ASSUME NEW P \in Projects, PurgeProject(P)
    PROVE  Streams!Next
<1>1. ASSUME NEW a \in Aggregate PROVE Stream(a)' = IF a \in P THEN <<>> ELSE Stream(a)
  <2>1. CASE a \in P
    <3>1. Of(a)' = {}
      BY <2>1 DEF PurgeProject, Of
    <3>2. Cardinality({}) = 0
      BY FS_EmptySet
    <3> QED
      BY <2>1, <3>1, <3>2 DEF Stream
  <2>2. CASE a \notin P
    <3>1. Of(a)' = Of(a)
      BY <2>2 DEF PurgeProject, Of
    <3> QED
      BY <2>2, <3>1 DEF Stream
  <2> QED
    BY <2>1, <2>2
<1> QED
  BY <1>1 DEF Streams!Next, Streams!Purge

(* The table implements StreamStore: whatever the writers do, an append    *)
(* puts a whole batch of new events at the end of one stream or changes    *)
(* nothing, and only a purge takes events out.                             *)
THEOREM StoreRefinesStreams == StoreSpec => StoreImplementsStreams
<1>1. StoreInit => Streams!Init
  <2> SUFFICES ASSUME StoreInit, NEW a \in Aggregate PROVE Stream(a) = <<>>
    BY DEF Streams!Init
  <2>1. Of(a) = {} /\ Cardinality({}) = 0
    BY FS_EmptySet DEF StoreInit, Of
  <2> QED
    BY <2>1 DEF Stream
<1>2. StoreInv /\ StoreInv' /\ StreamsRead /\ StreamsRead' /\ [StoreNext]_storeVars
         => [Streams!Next]_([a \in Aggregate |-> Stream(a)])
  <2> SUFFICES ASSUME StoreInv, StreamsRead, StreamsRead', [StoreNext]_storeVars
               PROVE  Streams!Next \/ UNCHANGED [a \in Aggregate |-> Stream(a)]
    OBVIOUS
  <2>1. CASE UNCHANGED rows
    BY <2>1 DEF Stream, Of
  <2>2. ASSUME NEW w \in Writer, AppendStored(w) PROVE Streams!Next
    BY <2>2, StoredIsAppend
  <2>3. ASSUME NEW P \in Projects, PurgeProject(P) PROVE Streams!Next
    BY <2>3, PurgeIsPurge
  <2> QED
    BY <2>1, <2>2, <2>3 DEF StoreNext, Decide, storeVars, ReadVersion, AppendReplayed,
       AppendDuplicate, AppendConflict, LoseAnswer, Return
<1> QED
  BY <1>1, <1>2, StoreInvHolds, StreamsAreRead, PTL
     DEF StoreSpec, StoreImplementsStreams, Streams!Spec

-----------------------------------------------------------------------------
(* The subscription.  Its invariant.                                       *)

(* Nothing refers to a position that has not been given out, except that a *)
(* repositioned subscription may already have declined it.                 *)
Bounds ==
    /\ \A x \in Position : x > head /\ x <= checkpoint => x \in acked
    /\ \A x \in Position : x > head /\ open /\ x < next => x \in acked
    /\ retry \subseteq 1..head
    /\ queue \subseteq 1..head
    /\ hand \in (1..head) \cup {Nothing}

(* A consumer that has stopped remembers nothing.                          *)
Forgotten == ~open => queue = {} /\ hand = Nothing

(* While a consumer iterates, no held-back event is waiting for its time.  *)
RetryDue == open => retry = due

(* At most one event is held back, and none while another is fetched or in *)
(* hand: the consumer stops at the first failure and is reopened after its *)
(* delay, so the held-back event is claimed before anything is fetched.    *)
OneHeld ==
    /\ \A x, y \in retry : x = y
    /\ queue # {} \/ hand # Nothing => retry = {}

(* Everything the checkpoint has passed is handled ...                     *)
Passed == \A x \in log : x <= checkpoint => x \in acked

(* ... and so is everything before an event in the redelivery table.       *)
RetryFirst == \A r \in retry : \A x \in log : x < r => x \in acked

(* What the cursor has passed is handled, fetched or in hand.              *)
CursorFirst ==
    open => \A x \in log : x < next => x \in acked \cup queue \cup {hand}

(* What precedes a fetched event is handled, fetched too or in hand.       *)
QueueFirst ==
    \A q \in queue : \A x \in log : x < q => x \in acked \cup queue \cup {hand}

DeliveryInv ==
    /\ TypeOK /\ Bounds /\ Forgotten /\ RetryDue /\ OneHeld /\ Passed /\ RetryFirst
    /\ CursorFirst /\ QueueFirst /\ InOrder

(* ORDER BY ... LIMIT returns a subset that is closed downwards.           *)
LEMMA FirstIsPrefix ==
    ASSUME NEW S, S \subseteq Nat, IsFiniteSet(S), NEW n \in Nat
    PROVE  /\ First(S, n) \subseteq S
           /\ \A q \in First(S, n) : \A x \in S : x < q => x \in First(S, n)
<1>1. First(S, n) \subseteq S
  BY DEF First
<1>2. ASSUME NEW q \in First(S, n), NEW x \in S, x < q
      PROVE  x \in First(S, n)
  <2> DEFINE Below(z) == {y \in S : y < z}
  <2>0. x \in Nat /\ q \in Nat
    BY <1>1
  <2>1. Below(x) \subseteq Below(q)
    <3> SUFFICES ASSUME NEW y \in S, y < x PROVE y < q
      OBVIOUS
    <3> QED
      BY <1>2, <2>0
  <2>2. IsFiniteSet(Below(q))
    BY FS_Subset, Below(q) \subseteq S
  <2>3. /\ IsFiniteSet(Below(x))
        /\ Cardinality(Below(x)) <= Cardinality(Below(q))
    BY <2>1, <2>2, FS_Subset
  <2>4. /\ Cardinality(Below(x)) \in Nat
        /\ Cardinality(Below(q)) \in Nat
    BY <2>2, <2>3, FS_CardinalityType
  <2>5. Cardinality(Below(q)) < n
    BY <1>2 DEF First
  <2>6. Cardinality(Below(x)) < n
    BY <2>3, <2>4, <2>5
  <2> QED
    BY <2>6 DEF First
<1> QED
  BY <1>1, <1>2

(* A query with a limit returns the only row there is.                     *)
LEMMA FirstOfOne ==
    ASSUME NEW S, S \subseteq Nat, \A x, y \in S : x = y, NEW n \in Nat \ {0}
    PROVE  First(S, n) = S
<1>1. ASSUME NEW x \in S PROVE Cardinality({y \in S : y < x}) < n
  <2>1. {y \in S : y < x} = {}
    <3> SUFFICES ASSUME NEW y \in S, y < x PROVE FALSE
      OBVIOUS
    <3>1. y = x /\ x \in Nat
      OBVIOUS
    <3> QED
      BY <3>1
  <2>2. Cardinality({}) = 0
    BY FS_EmptySet
  <2> QED
    BY <2>1, <2>2
<1> QED
  BY <1>1 DEF First

(* With nothing held back, what precedes a row read from the log is        *)
(* handled or read with it, if what the cursor has passed is handled.      *)
LEMMA RowsArePrefix ==
    ASSUME TypeOK, CursorFirst, open, queue = {}, hand = Nothing
    PROVE  /\ Rows({}) \subseteq 1..head
           /\ \A q \in Rows({}) : \A x \in log : x < q => x \in acked \cup Rows({})
<1> USE BoundAssumption, NothingAssumption
<1> DEFINE S == {x \in log : x >= next /\ x \notin {}}
<1>1. S \subseteq 1..head /\ S \subseteq Nat
  <2>1. S \subseteq log
    BY Zenon
  <2>2. log \subseteq 1..head
    BY Zenon DEF TypeOK
  <2> HIDE DEF S
  <2> QED
    BY <2>1, <2>2
<1>2. IsFiniteSet(S)
  <2>1. IsFiniteSet(1..head)
    BY FS_Interval DEF TypeOK
  <2> QED
    BY <2>1, <1>1, FS_Subset
<1>3. Rows({}) = First(S, Limit)
  BY DEF Rows
<1>4. /\ Rows({}) \subseteq S
      /\ \A q \in Rows({}) : \A x \in S : x < q => x \in Rows({})
  BY <1>1, <1>2, <1>3, FirstIsPrefix, LimitAssumption
<1>5. ASSUME NEW q \in Rows({}), NEW x \in log, x < q
      PROVE  x \in acked \cup Rows({})
  <2>1. CASE x < next
    BY <2>1 DEF TypeOK, CursorFirst
  <2>2. CASE ~(x < next)
    <3>1. x \in S
      BY <2>2 DEF TypeOK
    <3> QED
      BY <3>1, <1>4, <1>5
  <2> QED
    BY <2>1, <2>2
<1> QED
  BY <1>1, <1>4, <1>5

(* Every step of the consumer and the log keeps the types.                 *)
LEMMA TypeStep == TypeOK /\ [Next]_vars => TypeOK'
<1> SUFFICES ASSUME TypeOK, [Next]_vars PROVE TypeOK'
  OBVIOUS
<1> USE BoundAssumption, NothingAssumption DEF TypeOK, Position
<1>1. CASE AppendEvent
  BY <1>1 DEF AppendEvent, memory
<1>2. ASSUME NEW x \in log, Purge(x) PROVE TypeOK'
  BY <1>2 DEF Purge, memory
<1>3. ASSUME NEW x \in retry, BecomesDue(x) PROVE TypeOK'
  BY <1>3 DEF BecomesDue, memory
<1>4. CASE Open
  BY <1>4 DEF Open, stored
<1>5. ASSUME NEW p \in 0..MaxPosition, Rebuild(p) PROVE TypeOK'
  BY <1>5 DEF Rebuild
<1>6. CASE Claim
  BY <1>6 DEF Claim, Rows, First
<1>7. CASE Fetch
  BY <1>7 DEF Fetch, Rows, First, stored
<1>8. ASSUME NEW x \in queue, Yield(x) PROVE TypeOK'
  BY <1>8 DEF Yield, stored, Maximum
<1>9. CASE Ack
  BY <1>9 DEF Ack, Maximum
<1>10. CASE Nack
  <2>1. open' \in BOOLEAN
    BY <1>10, Zenon DEF Nack, Forget
  <2>2. next' = 0 /\ queue' = {} /\ hand' = Nothing
    BY <1>10 DEF Nack, Forget
  <2> QED
    BY <1>10, <2>1, <2>2 DEF Nack
<1>11. CASE Crash
  <2>1. open' \in BOOLEAN
    BY <1>11, Zenon DEF Crash, Forget
  <2>2. next' = 0 /\ queue' = {} /\ hand' = Nothing
    BY <1>11 DEF Crash, Forget
  <2> QED
    BY <1>11, <2>1, <2>2 DEF Crash, stored
<1>12. CASE UNCHANGED vars
  BY <1>12 DEF vars
<1> QED
  BY <1>1, <1>2, <1>3, <1>4, <1>5, <1>6, <1>7, <1>8, <1>9, <1>10, <1>11, <1>12
  DEF Next, Consume, Deliver

(* They hold at the start.                                                 *)
LEMMA TypeInit == Init => TypeOK
<1> SUFFICES ASSUME Init PROVE TypeOK
  OBVIOUS
<1>1. open \in BOOLEAN
  BY Zenon DEF Init
<1>2. /\ head = 0 /\ log = {} /\ checkpoint = -1 /\ retry = {} /\ due = {}
      /\ next = 0 /\ queue = {} /\ hand = Nothing /\ acked = {}
      /\ rebuilds = 0 /\ purges = 0
  BY DEF Init
<1> QED
  BY <1>1, <1>2, BoundAssumption DEF TypeOK, Position

(* The state of a subscription keeps its shape, whatever the consumer, the *)
(* operator and the purges do.                                             *)
THEOREM SubscriptionTyped == Spec => []TypeOK
BY TypeInit, TypeStep, PTL DEF Spec

(* One step of a consumer that is reopened after the retry delay, and      *)
(* repositioned with nothing held back, keeps the delivery invariant.      *)
LEMMA DeliveryStep ==
    ASSUME Waits, DeliveryInv, [Next]_vars
    PROVE  DeliveryInv'
<1> USE BoundAssumption, NothingAssumption
<1>t. TypeOK /\ TypeOK'
  BY TypeStep DEF DeliveryInv
<1> DEFINE Rest == /\ Bounds /\ Forgotten /\ RetryDue /\ OneHeld /\ Passed /\ RetryFirst
                   /\ CursorFirst /\ QueueFirst /\ InOrder
<1>r. Rest
  BY DEF DeliveryInv
<1> SUFFICES Rest'
  BY <1>t DEF DeliveryInv
<1> USE <1>t, <1>r DEF Bounds, Forgotten, RetryDue, OneHeld, Passed, RetryFirst, CursorFirst, QueueFirst, InOrder
<1>1. CASE AppendEvent
  BY <1>1 DEF AppendEvent, memory, TypeOK, Position
<1>2. ASSUME NEW x \in log, Purge(x) PROVE Rest'
  BY <1>2 DEF Purge, memory, TypeOK, Position
<1>3. ASSUME NEW x \in retry, BecomesDue(x) PROVE Rest'
  BY <1>3 DEF BecomesDue, memory, TypeOK, Position
<1>4. CASE Open
  BY <1>4 DEF Open, stored, TypeOK, Position
<1>5. ASSUME NEW p \in 0..MaxPosition, Rebuild(p) PROVE Rest'
  <2>1. ~open /\ retry = {} /\ open'
    BY <1>5, Zenon DEF Rebuild
  <2>2. queue = {} /\ hand = Nothing
    BY <2>1, <1>r, Zenon DEF Forgotten
  <2>3. /\ checkpoint' = p - 1 /\ next' = p /\ acked' = 1..(p - 1)
        /\ UNCHANGED <<log, head, retry, due, queue, hand>>
    BY <1>5 DEF Rebuild
  <2>4. due = {}
    BY <2>1 DEF TypeOK
  <2>5. Bounds'
    BY <2>1, <2>2, <2>3 DEF TypeOK, Position
  <2>6. Forgotten' /\ RetryDue' /\ OneHeld'
    BY <2>1, <2>2, <2>3, <2>4
  <2>7. Passed' /\ RetryFirst' /\ CursorFirst' /\ QueueFirst' /\ InOrder'
    BY <2>1, <2>2, <2>3 DEF TypeOK, Position
  <2> QED
    BY <2>5, <2>6, <2>7
<1>p. ASSUME open, queue = {}, hand = Nothing
      PROVE  /\ Rows({}) \subseteq 1..head
             /\ \A q \in Rows({}) : \A x \in log : x < q => x \in acked \cup Rows({})
  BY <1>p, RowsArePrefix
<1>6. CASE Claim
  <2>0. open /\ queue = {} /\ hand = Nothing /\ due # {}
    BY <1>6, Zenon DEF Claim
  <2>1. due = retry
    BY <2>0, <1>r, Zenon DEF RetryDue
  <2>2. First(due, Limit) = due
    <3>1. \A x, y \in due : x = y
      BY <2>1, <1>r DEF OneHeld
    <3>2. due \subseteq Nat
      BY DEF TypeOK, Position
    <3> QED
      BY <3>1, <3>2, FirstOfOne, LimitAssumption
  <2>3. retry' = {} /\ due' = {}
    BY <1>6, <2>1, <2>2 DEF Claim
  <2>4. queue' \subseteq retry \/ queue' = Rows({})
    BY <1>6, <2>1, <2>2, <2>3 DEF Claim
  <2>5. queue' \subseteq 1..head
    BY <2>0, <2>4, <1>p
  <2>6. \A q \in queue' : \A x \in log : x < q => x \in acked \cup queue'
    BY <2>0, <2>4, <1>p
  <2>7. UNCHANGED <<log, head, checkpoint, open, next, hand, acked>>
    BY <1>6 DEF Claim
  <2>8. Bounds' /\ Forgotten' /\ RetryDue' /\ OneHeld' /\ Passed' /\ RetryFirst' /\ InOrder'
    BY <2>0, <2>3, <2>5, <2>7 DEF TypeOK, Position
  <2>9. CursorFirst' /\ QueueFirst'
    BY <2>0, <2>6, <2>7 DEF TypeOK, Position
  <2> QED
    BY <2>8, <2>9
<1>7. CASE Fetch
  <2>0. open /\ queue = {} /\ hand = Nothing /\ due = {}
    BY <1>7, Zenon DEF Fetch
  <2>1. retry = {}
    BY <2>0, <1>r, Zenon DEF RetryDue
  <2>2. queue' = Rows({})
    BY <1>7, <2>1 DEF Fetch
  <2>3. UNCHANGED <<log, head, checkpoint, retry, due, open, next, hand, acked>>
    BY <1>7 DEF Fetch, stored
  <2>4. Bounds' /\ Forgotten' /\ RetryDue' /\ OneHeld' /\ Passed' /\ RetryFirst' /\ InOrder'
    BY <2>0, <2>1, <2>2, <2>3, <1>p DEF TypeOK, Position
  <2>5. CursorFirst' /\ QueueFirst'
    BY <2>0, <2>2, <2>3, <1>p DEF TypeOK, Position
  <2> QED
    BY <2>4, <2>5
<1>8. ASSUME NEW x \in queue, Yield(x) PROVE Rest'
  BY <1>8 DEF Yield, stored, Maximum, TypeOK, Position
<1>9. CASE Ack
  BY <1>9 DEF Ack, Maximum, TypeOK, Position
<1>10. CASE Nack
  <2>1. queue' = {} /\ hand' = Nothing /\ next' = 0 /\ ~open'
    BY <1>10, Zenon DEF Nack, Forget
  <2> QED
    BY <1>10, <2>1 DEF Nack, TypeOK, Position
<1>11. CASE Crash
  <2>1. queue' = {} /\ hand' = Nothing /\ next' = 0 /\ ~open'
    BY <1>11, Zenon DEF Crash, Forget
  <2> QED
    BY <1>11, <2>1 DEF Crash, stored, TypeOK, Position
<1>12. CASE UNCHANGED vars
  BY <1>12 DEF vars
<1> QED
  BY <1>1, <1>2, <1>3, <1>4, <1>5, <1>6, <1>7, <1>8, <1>9, <1>10, <1>11, <1>12
  DEF Next, Consume, Deliver

(* At the start nothing is fetched, held back or handled.                  *)
LEMMA DeliveryInit == Init => DeliveryInv
<1> SUFFICES ASSUME Init PROVE DeliveryInv
  OBVIOUS
<1>1. ~open /\ log = {} /\ queue = {} /\ retry = {} /\ hand = Nothing
  BY Zenon DEF Init
<1>2. head = 0 /\ checkpoint = -1 /\ next = 0
  BY DEF Init
<1>3. Bounds
  <2>1. \A x \in Position : ~(x <= checkpoint)
    BY <1>2 DEF Position
  <2>2. \A x \in Position : x > head /\ x <= checkpoint => x \in acked
    BY <2>1
  <2>3. \A x \in Position : x > head /\ open /\ x < next => x \in acked
    BY <1>1, Zenon
  <2> QED
    BY <1>1, <2>2, <2>3 DEF Bounds
<1>4. Forgotten /\ RetryDue /\ CursorFirst
  BY <1>1, Zenon DEF Forgotten, RetryDue, CursorFirst
<1>5. OneHeld /\ Passed /\ RetryFirst /\ QueueFirst /\ InOrder
  BY <1>1 DEF OneHeld, Passed, RetryFirst, QueueFirst, InOrder
<1> QED
  BY TypeInit, <1>3, <1>4, <1>5 DEF DeliveryInv

(* The iterator yields in order: when an event is in hand, every earlier   *)
(* event of the log has been handled, across crashes, nacks and restarts,  *)
(* provided a stopped consumer is reopened after the retry delay and the   *)
(* subscription is repositioned only when nothing is held back.            *)
THEOREM DeliveredInOrder ==
    ASSUME Waits
    PROVE  Spec => []InOrder
<1>1. DeliveryInv /\ [Next]_vars => DeliveryInv'
  BY DeliveryStep
<1>2. DeliveryInv => InOrder
  BY DEF DeliveryInv
<1> QED
  BY DeliveryInit, <1>1, <1>2, PTL DEF Spec

(* Under the same conditions no crash can lose an event: whatever the      *)
(* durable checkpoint has passed is handled or in the redelivery table.    *)
THEOREM NoEventLost ==
    ASSUME Waits
    PROVE  Spec => []NothingLost
<1>1. DeliveryInv /\ [Next]_vars => DeliveryInv'
  BY DeliveryStep
<1>2. DeliveryInv => NothingLost
  BY DEF DeliveryInv, Passed, NothingLost
<1> QED
  BY DeliveryInit, <1>1, <1>2, PTL DEF Spec
=============================================================================
