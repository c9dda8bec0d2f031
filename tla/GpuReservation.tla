--------------------------- MODULE GpuReservation ---------------------------
(***************************************************************************)
(* GPU reservation on a shared host:                                       *)
(* backend/services/runtime/gpu_reservation.py, its holder process         *)
(* gpu_holder.py and the CLI scripts/reserve_gpus.py, beside the lease     *)
(* file of GpuAllocator.                                                   *)
(*                                                                         *)
(* A reservation is a small CUDA process (a holder) parked on a free card  *)
(* and an entry of a registry file.  list_reservations and release hold    *)
(* the registry's lock for an instant and are one step each; reserve holds *)
(* it through every spawn (four seconds per card), so its steps are apart. *)
(* The registry's lock is not the allocator's: leases come and go between  *)
(* the steps of a reserve.                                                 *)
(*                                                                         *)
(* Pids are not reused while the registry names them.                      *)
(***************************************************************************)
EXTENDS GpuAllocator, Sequences, SequencesExt

CONSTANTS
    Holder,     \* pids that holder processes get, a subset of Pid
    Tenant,     \* pids of launchers and of other users' jobs, of Pid too
    TenantLease,\* the lease ids launchers use
    NoHold,     \* no holder
    MaxAsk,     \* bound: cards named in one reserve
    Repeats     \* BOOLEAN: may a caller name one card twice (--gpus 4,4)?

ASSUME HolderAssumption ==
    /\ Holder \cup Tenant \subseteq Pid /\ Holder \cap Tenant = {} /\ NoHold \notin Pid
    /\ TenantLease \subseteq LeaseId /\ MaxAsk \in Nat /\ Repeats \in BOOLEAN

VARIABLES
    registry,   \* the registry file: Gpu -> pid of the holder, or NoHold
    reserver,   \* the reserve() that holds the lock
    aim,        \* the card each holder was started for
    expired,    \* holders whose time to live is over
    doomed,     \* holders that have been sent SIGTERM
    own,        \* what holder_pids last told a launcher
    lost        \* holders of a reserve that died before its save

rvars == <<registry, reserver, aim, expired, doomed, own, lost>>
gvars == <<vars, rvars>>

NoReserve == [busy |-> FALSE, file |-> [g \in Gpu |-> NoHold], todo |-> <<>>,
              new |-> NoHold, made |-> FALSE]

ReservationTypeOK ==
    /\ TypeOK
    /\ registry \in [Gpu -> Holder \cup {NoHold}]
    /\ reserver \in [busy : BOOLEAN, file : [Gpu -> Holder \cup {NoHold}],
                     todo : BoundedSeq(Gpu, Cardinality(Gpu) + MaxAsk),
                     new : Holder \cup {NoHold}, made : BOOLEAN]
    /\ aim \in [Holder -> Gpu \cup {NoHold}]
    /\ expired \subseteq Holder
    /\ doomed \subseteq Holder
    /\ own \subseteq Holder
    /\ lost \subseteq Holder

Pids(file) == {file[g] : g \in Gpu} \ {NoHold}

Reserved(file) == {g \in Gpu : file[g] # NoHold}

-----------------------------------------------------------------------------
(* _reap_inplace drops the entries of dead holders, and of expired ones,   *)
(* which it also sends SIGTERM.                                            *)
ReapedHolds(file) ==
    [g \in Gpu |-> IF file[g] \in alive \ expired THEN file[g] ELSE NoHold]

Overdue(file) == Pids(file) \cap alive \cap expired

(* list_reservations(), of which holder_pids() is the pids.                *)
ListReservations ==
    /\ ~reserver.busy
    /\ registry' = ReapedHolds(registry)
    /\ doomed' = doomed \cup Overdue(registry)
    /\ own' = Pids(registry')
    /\ UNCHANGED <<vars, reserver, aim, expired, lost>>

(* The cards reserve() may take: free right now, not reserved, and not in  *)
(* the allocator's file, which is read without its lock and not reaped.    *)
Reservable(file, smi) ==
    (FreeDevices(smi, Pids(file)) \ Reserved(file)) \ LeasedIn(leases)

(* _select_targets: the first n free cards, all of them, or a list of      *)
(* names given by the caller, in the caller's order and as often.          *)
Selections(free) ==
    LET Rising(S) == {q \in [1 .. Cardinality(S) -> S] :
                        \A i, j \in 1 .. Cardinality(S) : i < j => q[i] < q[j]}
    IN  (UNION {Rising(FirstByIndex(free, n)) : n \in Count})
        \cup Rising(free)
        \cup {q \in BoundedSeq(free, MaxAsk) : Repeats \/ IsInjective(q)}

(* reserve() up to its first spawn.  With nothing to spawn it returns      *)
(* without saving what it has reaped.                                      *)
ReserveBegin(smi) ==
    /\ ~reserver.busy
    /\ \E todo \in Selections(Reservable(ReapedHolds(registry), smi)) :
          reserver' = IF todo = <<>> THEN NoReserve
                      ELSE [busy |-> TRUE, file |-> ReapedHolds(registry),
                            todo |-> todo, new |-> NoHold, made |-> FALSE]
    /\ doomed' = doomed \cup Overdue(registry)
    /\ UNCHANGED <<vars, registry, aim, expired, own, lost>>

(* _spawn_holder: Popen.                                                   *)
Spawn(h) ==
    /\ reserver.busy /\ reserver.new = NoHold /\ reserver.todo # <<>>
    /\ h \notin alive \cup Pids(registry) \cup Pids(reserver.file) \cup own
    /\ alive' = alive \cup {h}
    /\ aim' = [aim EXCEPT ![h] = Head(reserver.todo)]
    /\ reserver' = [reserver EXCEPT !.new = h]
    /\ UNCHANGED <<leases, procs, hot, registry, expired, doomed, own, lost>>

(* Popen raises: no holder for this card.                                  *)
SpawnFails ==
    /\ reserver.busy /\ reserver.new = NoHold /\ reserver.todo # <<>>
    /\ reserver' = [reserver EXCEPT !.todo = Tail(@)]
    /\ UNCHANGED <<vars, registry, aim, expired, doomed, own, lost>>

(* The confirmation wait is over: a holder that is still running is        *)
(* entered in the copy of the registry, one that has exited is not.        *)
Confirm ==
    /\ reserver.new # NoHold
    /\ LET g == Head(reserver.todo)
           ok == reserver.new \in alive
       IN  reserver' = [reserver EXCEPT
              !.new = NoHold, !.todo = Tail(@), !.made = @ \/ ok,
              !.file[g] = IF ok THEN reserver.new ELSE @]
    /\ UNCHANGED <<vars, registry, aim, expired, doomed, own, lost>>

(* The end of reserve(): the copy is saved if any holder was created.      *)
ReserveEnd ==
    /\ reserver.busy /\ reserver.todo = <<>>
    /\ registry' = IF reserver.made THEN reserver.file ELSE registry
    /\ reserver' = NoReserve
    /\ UNCHANGED <<vars, aim, expired, doomed, own, lost>>

(* The reserving process is killed or interrupted; its holders run in      *)
(* sessions of their own and stay.                                         *)
ReserveDies ==
    /\ reserver.busy
    /\ lost' = lost \cup (((Pids(reserver.file) \ Pids(registry)) \cup {reserver.new})
                          \cap alive)
    /\ reserver' = NoReserve
    /\ UNCHANGED <<vars, registry, aim, expired, doomed, own>>

(* Mutant: the entries are deleted and nobody is signalled.                *)
ReleaseHoldsSilent(S) ==
    /\ ~reserver.busy
    /\ registry' = [g \in Gpu |-> IF g \in S THEN NoHold ELSE registry[g]]
    /\ UNCHANGED <<vars, reserver, aim, expired, doomed, own, lost>>

(* release(): SIGTERM to the holders of the chosen entries, no reaping.    *)
ReleaseHolds(S) ==
    /\ ~reserver.busy
    /\ doomed' = doomed \cup ({registry[g] : g \in S} \cap alive)
    /\ registry' = [g \in Gpu |-> IF g \in S THEN NoHold ELSE registry[g]]
    /\ UNCHANGED <<vars, reserver, aim, expired, own, lost>>

-----------------------------------------------------------------------------
(* Holder processes (gpu_holder.main).                                     *)

(* _acquire: the context that puts the holder on its card.                 *)
HolderOpens(h) ==
    /\ h \in alive
    /\ OpenCard(h, aim[h])
    /\ UNCHANGED rvars

(* Mutant: the holder listens to SIGTERM only.                             *)
HolderExitOnSignal(h) ==
    /\ h \in doomed \/ (h \in alive /\ h \notin procs[aim[h]])
    /\ ProcessExit(h)
    /\ aim' = [aim EXCEPT ![h] = NoHold]
    /\ doomed' = doomed \ {h}
    /\ expired' = expired \ {h}
    /\ lost' = lost \ {h}
    /\ UNCHANGED <<registry, reserver, own>>

(* The holder leaves: CUDA failed before it was on its card (exit 2), it   *)
(* was signalled, or its own deadline, which the registry's precedes, is   *)
(* over.                                                                   *)
HolderExit(h) ==
    /\ h \in doomed \cup expired \/ (h \in alive /\ h \notin procs[aim[h]])
    /\ ProcessExit(h)
    /\ aim' = [aim EXCEPT ![h] = NoHold]
    /\ doomed' = doomed \ {h}
    /\ expired' = expired \ {h}
    /\ lost' = lost \ {h}
    /\ UNCHANGED <<registry, reserver, own>>

(* The time to live of a reservation passes.                               *)
Expire(h) ==
    /\ h \in alive \ expired
    /\ expired' = expired \cup {h}
    /\ UNCHANGED <<vars, registry, reserver, aim, doomed, own, lost>>

-----------------------------------------------------------------------------
(* The other users of the host: launchers that lease cards, telling the    *)
(* allocator the holder pids they were told, and foreign jobs.             *)
LeaseStep ==
    /\ \/ \E l \in TenantLease, p \in Tenant, n \in Count, smi \in Smi : Grant(l, p, n, smi, own)
       \/ \E l \in TenantLease : Release(l)
    /\ UNCHANGED rvars

JobStep ==
    /\ \E p \in Tenant, g \in Gpu : OpenCard(p, g) \/ CloseCard(p, g)
    /\ UNCHANGED rvars

ReservationInit ==
    /\ Init /\ alive = Tenant
    /\ registry = [g \in Gpu |-> NoHold]
    /\ reserver = NoReserve
    /\ aim = [h \in Holder |-> NoHold]
    /\ expired = {} /\ doomed = {} /\ own = {} /\ lost = {}

ReservationNext ==
    \/ ListReservations
    \/ \E smi \in Smi : ReserveBegin(smi)
    \/ SpawnFails \/ Confirm \/ ReserveEnd \/ ReserveDies
    \/ \E S \in SUBSET Gpu : S \subseteq Reserved(registry) /\ ReleaseHolds(S)
    \/ \E h \in Holder : Spawn(h) \/ HolderOpens(h) \/ HolderExit(h) \/ Expire(h)
    \/ LeaseStep
    \/ JobStep

(* Time passes, and a holder polls its flag and its deadline every two     *)
(* seconds.                                                                *)
ReservationSpec ==
    /\ ReservationInit /\ [][ReservationNext]_gvars
    /\ \A h \in Holder : WF_gvars(Expire(h)) /\ WF_gvars(HolderExit(h))

-----------------------------------------------------------------------------
(* Properties.                                                             *)

(* A running holder can be found: it is in the registry, in the hands of a *)
(* reserve that has yet to save it, on its way out, or was left by a       *)
(* reserve that died.  "release --all" lets go of everything that is held. *)
NoUnownedHolder ==
    /\ ReservationTypeOK
    /\ \A h \in Holder \cap alive :
          \/ h \in Pids(registry) \cup doomed \cup lost
          \/ reserver.busy /\ h \in Pids(reserver.file) \cup {reserver.new}

(* "transparent to our own runs": a card with nothing on it but holders    *)
(* whose time is not over can be leased by a launcher that asks now.       *)
HeldCardUsable ==
    \A g \in Gpu :
        ~reserver.busy /\ g \notin hot /\ procs[g] \subseteq Holder \ (doomed \cup expired \cup lost)
            => g \in FreeDevices("both", Pids(ReapedHolds(registry)))

(* "a forgotten reservation can't strand cards forever": whatever became   *)
(* of the reserve and of the registry, a holder leaves its card.           *)
HoldsEnd == \A h \in Holder : h \in alive ~> h \notin alive
=============================================================================
