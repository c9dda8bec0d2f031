------------------------- MODULE EventSubscription -------------------------
(***************************************************************************)
(* A durable subscription to the event log                                 *)
(* (backend/eventstore/subscription.py over backend/eventstore/            *)
(* sqlite_store.py), driven by the consumer its interface recommends:      *)
(* "iterate, handle one at a time, ack after each, on failure nack and     *)
(* stop".  The checkpoint and the redelivery table are in SQLite and       *)
(* survive a crash; next_position, the fetched batch and the event in hand *)
(* are memory.                                                             *)
(***************************************************************************)
EXTENDS Integers, FiniteSets

CONSTANTS
    MaxPosition,    \* bound: events appended to the log
    Limit,          \* LIMIT of the two queries (100 in the code)
    Nacks,          \* handlers fail and nack
    Waits,          \* a consumer is reopened only once the retry delay is over,
                    \* and repositioned only when nothing is held back
    MaxRebuilds,    \* bound: subscriptions opened with from_position
    MaxPurges,      \* bound: events deleted by a project purge
    Nothing         \* no event in hand

ASSUME LimitAssumption == Limit \in Nat \ {0}
ASSUME FlagAssumption == Nacks \in BOOLEAN /\ Waits \in BOOLEAN
ASSUME BoundAssumption == /\ MaxPosition \in Nat
                          /\ MaxRebuilds \in Nat
                          /\ MaxPurges \in Nat
ASSUME NothingAssumption == Nothing \notin Int

VARIABLES
    log,            \* the global positions in the log
    head,           \* the last position given out (AUTOINCREMENT)
    checkpoint,     \* last_position of the checkpoint row
    retry,          \* positions in the redelivery table
    due,            \* those of them whose available_at has passed
    open,           \* a consumer is iterating
    next,           \* its next_position
    queue,          \* the events it has fetched and not yet been given
    hand,           \* the event the handler is working on
    acked,          \* positions handled, or not wanted, since the last rebuild
    rebuilds, purges

stored == <<log, head, checkpoint, retry, due>>
memory == <<open, next, queue, hand>>
vars == <<log, head, checkpoint, retry, due, open, next, queue, hand, acked, rebuilds, purges>>

Position == 1..MaxPosition

TypeOK ==
    /\ head \in 0..MaxPosition
    /\ log \subseteq 1..head
    /\ checkpoint \in -1..MaxPosition
    /\ retry \subseteq Position
    /\ due \subseteq retry
    /\ open \in BOOLEAN
    /\ next \in 0..(MaxPosition + 1)
    /\ queue \subseteq Position
    /\ hand \in Position \cup {Nothing}
    /\ acked \subseteq Position
    /\ rebuilds \in 0..MaxRebuilds
    /\ purges \in 0..MaxPurges

-----------------------------------------------------------------------------
Maximum(a, b) == IF a >= b THEN a ELSE b

(* ORDER BY global_position LIMIT n.                                       *)
First(S, n) == {x \in S : Cardinality({y \in S : y < x}) < n}

(* A writer appends one event.  Writers are serialised by BEGIN IMMEDIATE, *)
(* so positions become visible in order.                                   *)
AppendEvent ==
    /\ head < MaxPosition
    /\ head' = head + 1
    /\ log' = log \cup {head + 1}
    /\ UNCHANGED <<checkpoint, retry, due, memory, acked, rebuilds, purges>>

(* purge_project_aggregates deletes rows of the log and of nothing else.   *)
Purge(x) ==
    /\ purges < MaxPurges
    /\ log' = log \ {x}
    /\ purges' = purges + 1
    /\ UNCHANGED <<head, checkpoint, retry, due, memory, acked, rebuilds>>

(* available_at passes.                                                    *)
BecomesDue(x) ==
    /\ x \in retry \ due
    /\ due' = due \cup {x}
    /\ UNCHANGED <<log, head, checkpoint, retry, memory, acked, rebuilds, purges>>

(* subscribe() and iterate: next_position starts after the checkpoint.     *)
(* When a consumer that stopped is opened again is up to its operator.     *)
Open ==
    /\ ~open
    /\ Waits => due = retry
    /\ open' = TRUE
    /\ next' = checkpoint + 1
    /\ UNCHANGED <<stored, queue, hand, acked, rebuilds, purges>>

(* subscribe(from_position=p): a rebuild sets the checkpoint; it wants     *)
(* every event from p on again and none before p.  The redelivery table is *)
(* left as it is.                                                          *)
Rebuild(p) ==
    /\ ~open /\ rebuilds < MaxRebuilds
    /\ Waits => retry = {}
    /\ checkpoint' = p - 1
    /\ acked' = 1..(p - 1)
    /\ open' = TRUE
    /\ next' = p
    /\ rebuilds' = rebuilds + 1
    /\ UNCHANGED <<log, head, retry, due, queue, hand, purges>>

(* Mutant: > for >=.                                                       *)
RowsOffByOne(held) ==
    First({x \in log : x > next /\ x \notin held}, Limit)

(* The next rows of the log, without those held back for redelivery.       *)
Rows(held) ==
    First({x \in log : x >= next /\ x \notin held}, Limit)

(* _claim_due_redeliveries: pop the due rows and yield their events.  A    *)
(* row whose event has been purged is popped and yields nothing; if none   *)
(* yields, the same iteration goes on to the log.                          *)
Claim ==
    LET claimed == First(due, Limit) IN
    /\ open /\ hand = Nothing /\ queue = {} /\ due # {}
    /\ retry' = retry \ claimed
    /\ due' = due \ claimed
    /\ queue' = IF claimed \cap log # {} THEN claimed \cap log ELSE Rows(retry')
    /\ UNCHANGED <<log, head, checkpoint, open, next, hand, acked, rebuilds, purges>>

(* Nothing is due: read the log.  An empty result polls again.             *)
Fetch ==
    /\ open /\ hand = Nothing /\ queue = {} /\ due = {}
    /\ queue' = Rows(retry)
    /\ queue' # {}
    /\ UNCHANGED <<stored, open, next, hand, acked, rebuilds, purges>>

(* Mutant: the rows come in no order.                                      *)
YieldAny(x) ==
    /\ open /\ hand = Nothing
    /\ hand' = x
    /\ queue' = queue \ {x}
    /\ next' = Maximum(next, x + 1)
    /\ UNCHANGED <<stored, open, acked, rebuilds, purges>>

(* yield the first of the fetched events: next_position moves past it.     *)
Yield(x) ==
    /\ open /\ hand = Nothing
    /\ \A y \in queue : x <= y
    /\ hand' = x
    /\ queue' = queue \ {x}
    /\ next' = Maximum(next, x + 1)
    /\ UNCHANGED <<stored, open, acked, rebuilds, purges>>

(* Mutant: the checkpoint moves past the event.                            *)
AckPast ==
    /\ open /\ hand # Nothing
    /\ checkpoint' = Maximum(checkpoint, next)
    /\ retry' = retry \ {hand}
    /\ due' = due \ {hand}
    /\ acked' = acked \cup {hand}
    /\ hand' = Nothing
    /\ UNCHANGED <<log, head, open, next, queue, rebuilds, purges>>

(* The handler succeeded: ack, which also drops a redelivery row.          *)
Ack ==
    /\ open /\ hand # Nothing
    /\ checkpoint' = Maximum(checkpoint, hand)
    /\ retry' = retry \ {hand}
    /\ due' = due \ {hand}
    /\ acked' = acked \cup {hand}
    /\ hand' = Nothing
    /\ UNCHANGED <<log, head, open, next, queue, rebuilds, purges>>

(* The consumer stops; what it had fetched is forgotten.                   *)
Forget ==
    /\ open' = FALSE
    /\ next' = 0
    /\ queue' = {}
    /\ hand' = Nothing

(* The handler failed: nack and stop.                                      *)
Nack ==
    /\ open /\ hand # Nothing /\ Nacks
    /\ retry' = retry \cup {hand}
    /\ due' = due \ {hand}
    /\ Forget
    /\ UNCHANGED <<log, head, checkpoint, acked, rebuilds, purges>>

(* close(), or the process dies, at any point of the iteration.            *)
Crash ==
    /\ open
    /\ Forget
    /\ UNCHANGED <<stored, acked, rebuilds, purges>>

-----------------------------------------------------------------------------
Init ==
    /\ log = {} /\ head = 0
    /\ checkpoint = -1
    /\ retry = {} /\ due = {}
    /\ open = FALSE /\ next = 0 /\ queue = {} /\ hand = Nothing
    /\ acked = {}
    /\ rebuilds = 0 /\ purges = 0

Deliver == \E x \in queue : Yield(x)

Consume == Open \/ Claim \/ Fetch \/ Deliver \/ Ack

Next ==
    \/ AppendEvent \/ Consume \/ Nack \/ Crash
    \/ \E x \in log : Purge(x)
    \/ \E x \in retry : BecomesDue(x)
    \/ \E p \in 0..MaxPosition : Rebuild(p)

Spec == Init /\ [][Next]_vars

(* A consumer that is down is opened again, the clock advances, and a      *)
(* consumer that is opened again and again is not always killed, nor its   *)
(* handler always unsuccessful, before the same step.                      *)
Fairness ==
    /\ WF_vars(Open)
    /\ SF_vars(Claim) /\ SF_vars(Fetch) /\ SF_vars(Deliver) /\ SF_vars(Ack)
    /\ \A x \in Position : WF_vars(BecomesDue(x))

FairSpec == Spec /\ Fairness

-----------------------------------------------------------------------------
(* Every event of the log that the checkpoint has passed has been handled  *)
(* or is still owed: it is in the redelivery table or in the memory of the *)
(* consumer.  A crash forgets the memory, so an event that is only there   *)
(* must lie after the checkpoint.                                          *)
NothingLost ==
    \A x \in log : x <= checkpoint => x \in acked \cup retry

(* Subscription: "Iterating yields events in global_position order from    *)
(* the subscription's last checkpoint".  When an event is yielded, every   *)
(* earlier one has been handled.                                           *)
InOrder ==
    hand # Nothing => \A x \in log : x < hand => x \in acked

(* An event that stays in the log is handled in the end, through crashes,  *)
(* nacks and restarts.                                                     *)
EventuallyHandled ==
    \A x \in Position : x \in log ~> (x \in acked \/ x \notin log)
=============================================================================
