---------------------------- MODULE GpuAllocator ----------------------------
(***************************************************************************)
(* The local GPU lease manager of                                          *)
(* backend/services/runtime/local_gpu_allocator.py.                        *)
(*                                                                         *)
(* Launcher processes share one JSON lease file.  Every operation runs     *)
(* under an exclusive flock and ends in one os.replace, so it is one step  *)
(* here: what the environment does while the lock is held cannot be told   *)
(* apart from its doing so just before or just after.  A process that      *)
(* dies inside an operation dies before the replace (the operation never   *)
(* happened) or after it (it dies holding the lease).                      *)
(*                                                                         *)
(* The environment (other users of the host, the CUDA jobs of our own      *)
(* runs) is left completely open: any live process may open or close any   *)
(* card at any time, and any process may die.                              *)
(***************************************************************************)
EXTENDS Integers, FiniteSets

CONSTANTS
    Gpu,        \* the device indices of the host
    LeaseId,    \* lease names, e.g. one per run
    Pid,        \* process ids, of ours and of other users
    Count,      \* the request sizes callers pass
    Unleased    \* the value of a lease id that is not in the file

ASSUME GpuAssumption == /\ Gpu \subseteq Nat
                        /\ IsFiniteSet(Gpu)
ASSUME CountAssumption == Count \subseteq Nat \ {0}
ASSUME UnleasedAssumption == Unleased \notin [pid : Pid, gpus : SUBSET Gpu]

VARIABLES
    leases,     \* the lease file: LeaseId -> lease record or Unleased
    alive,      \* the OS process table
    procs,      \* compute processes per card (nvidia-smi compute-apps)
    hot         \* cards whose used memory is at or above the threshold

vars == <<leases, alive, procs, hot>>

Lease == [pid : Pid, gpus : SUBSET Gpu]

(* What one pair of nvidia-smi queries can return: both answered; the      *)
(* process query failed (no process is attributed to any card); or the     *)
(* card query failed (no cards at all).                                    *)
Smi == {"both", "noapps", "nocards"}

TypeOK ==
    /\ leases \in [LeaseId -> Lease \cup {Unleased}]
    /\ alive \subseteq Pid
    /\ procs \in [Gpu -> SUBSET Pid]
    /\ hot \subseteq Gpu

-----------------------------------------------------------------------------
(* Discovery.                                                              *)

Devices(smi) == IF smi = "nocards" THEN {} ELSE Gpu

ProcPids(smi, g) == IF smi = "both" THEN procs[g] ELSE {}

(* Mutant: own processes make a card busy like any other.                  *)
FreeDevicesForeign(smi, own) ==
    {g \in Devices(smi) : ProcPids(smi, g) = {} /\ g \notin hot}

(* A card is free for us when it carries no process outside own, and       *)
(* carries one of ours or is idle with low memory.  discover_gpus sets     *)
(* ext_proc_count to the number of distinct pids it captured, so the       *)
(* unattributable-process branch of free_devices is never taken.           *)
FreeDevices(smi, own) ==
    {g \in Devices(smi) :
        /\ ProcPids(smi, g) \subseteq own
        /\ ProcPids(smi, g) # {} \/ g \notin hot}

-----------------------------------------------------------------------------
(* The lease file.                                                         *)

Held(l) == leases[l] # Unleased

(* _reclaim_stale_inplace: the file without the leases of dead pids.       *)
Reaped ==
    [l \in LeaseId |-> IF Held(l) /\ leases[l].pid \notin alive
                       THEN Unleased ELSE leases[l]]

LeasedIn(file) == UNION {file[l].gpus : l \in {k \in LeaseId : file[k] # Unleased}}

(* Mutant: the cards others have leased are not accounted for.             *)
CandidatesLeased(smi, own) == FreeDevices(smi, own)

Candidates(smi, own) == FreeDevices(smi, own) \ LeasedIn(Reaped)

(* candidates[:count] of a list sorted by device index.                    *)
FirstByIndex(S, n) == {g \in S : Cardinality({h \in S : h < g}) < n}

(* capacity(): how many leases of n cards fit right now.                   *)
Capacity(n, smi, own) == Cardinality(Candidates(smi, own)) \div n

-----------------------------------------------------------------------------
(* Operations.                                                             *)

(* Mutant: acquire does not look whether the id has a lease already.       *)
GrantOverwrites(l, p, n, smi, own) ==
    /\ p \in alive
    /\ Cardinality(Candidates(smi, own)) >= n
    /\ leases' = [Reaped EXCEPT ![l] =
                    [pid |-> p, gpus |-> FirstByIndex(Candidates(smi, own), n)]]
    /\ UNCHANGED <<alive, procs, hot>>

(* acquire() that writes a lease.  The reaped file is what is saved.       *)
Grant(l, p, n, smi, own) ==
    /\ p \in alive
    /\ Reaped[l] = Unleased
    /\ Cardinality(Candidates(smi, own)) >= n
    /\ leases' = [Reaped EXCEPT ![l] =
                    [pid |-> p, gpus |-> FirstByIndex(Candidates(smi, own), n)]]
    /\ UNCHANGED <<alive, procs, hot>>

(* release(): drops the entry, whoever holds it, and reaps nothing.        *)
Release(l) ==
    /\ Held(l)
    /\ leases' = [leases EXCEPT ![l] = Unleased]
    /\ UNCHANGED <<alive, procs, hot>>

ReclaimStale ==
    /\ Reaped # leases
    /\ leases' = Reaped
    /\ UNCHANGED <<alive, procs, hot>>

(* The environment.                                                        *)

ProcessStart(p) ==
    /\ p \notin alive
    /\ alive' = alive \cup {p}
    /\ UNCHANGED <<leases, procs, hot>>

ProcessExit(p) ==
    /\ p \in alive
    /\ alive' = alive \ {p}
    /\ procs' = [g \in Gpu |-> procs[g] \ {p}]
    /\ UNCHANGED <<leases, hot>>

OpenCard(p, g) ==
    /\ p \in alive \ procs[g]
    /\ procs' = [procs EXCEPT ![g] = @ \cup {p}]
    /\ UNCHANGED <<leases, alive, hot>>

CloseCard(p, g) ==
    /\ p \in procs[g]
    /\ procs' = [procs EXCEPT ![g] = @ \ {p}]
    /\ UNCHANGED <<leases, alive, hot>>

MemoryChanges(g) ==
    /\ hot' = IF g \in hot THEN hot \ {g} ELSE hot \cup {g}
    /\ UNCHANGED <<leases, alive, procs>>

Init ==
    /\ leases = [l \in LeaseId |-> Unleased]
    /\ alive \in SUBSET Pid
    /\ procs = [g \in Gpu |-> {}]
    /\ hot = {}

Next ==
    \/ \E l \in LeaseId : Release(l)
    \/ ReclaimStale
    \/ \E p \in Pid : ProcessStart(p) \/ ProcessExit(p)
    \/ \E p \in Pid, g \in Gpu : OpenCard(p, g) \/ CloseCard(p, g)
    \/ \E g \in Gpu : MemoryChanges(g)
    \/ \E l \in LeaseId, p \in Pid, n \in Count, smi \in Smi, own \in SUBSET Pid :
            Grant(l, p, n, smi, own)

Spec == Init /\ [][Next]_vars

-----------------------------------------------------------------------------
(* Properties.                                                             *)

(* No card is in two leases of the file: "so two launcher processes racing *)
(* to acquire cannot double-allocate" (acquire subtracts what is leased).  *)
LeasesDisjoint ==
    \A k, l \in LeaseId :
        k # l /\ Held(k) /\ Held(l) => leases[k].gpus \cap leases[l].gpus = {}

(* A lease whose process is alive disappears from the file, or changes, by *)
(* release of that very lease only: neither a reap nor a grant to someone  *)
(* else ever takes it (reaping, acquire's save of the reaped file).        *)
LiveLeaseKept ==
    [][\A l \in LeaseId :
          Held(l) /\ leases[l].pid \in alive /\ leases'[l] # leases[l]
            => leases' = [leases EXCEPT ![l] = Unleased]]_vars
=============================================================================
