------------------------- MODULE GpuAllocatorProofs -------------------------
(***************************************************************************)
(* Proofs about the lease file of GpuAllocator for every set of cards,     *)
(* lease names and processes.                                              *)
(***************************************************************************)
EXTENDS GpuAllocator, TLAPS

(* Reaping only ever removes leases.                                       *)
LEMMA ReapedLeases ==
    ASSUME TypeOK
    PROVE  /\ Reaped \in [LeaseId -> Lease \cup {Unleased}]
           /\ \A l \in LeaseId : Reaped[l] # Unleased => Held(l) /\ Reaped[l] = leases[l]
  BY DEF TypeOK, Reaped, Held

(* The cards a grant takes are candidates: free, and in no kept lease.     *)
LEMMA GrantTakesCandidates ==
    ASSUME NEW smi \in Smi, NEW own, NEW n
    PROVE  /\ FirstByIndex(Candidates(smi, own), n) \subseteq Gpu
           /\ FirstByIndex(Candidates(smi, own), n) \cap LeasedIn(Reaped) = {}
  BY DEF FirstByIndex, Candidates, FreeDevices, Devices

(* A grant keeps the file's entries well formed and apart.                 *)
LEMMA GrantKeeps ==
    ASSUME TypeOK, NEW l \in LeaseId, NEW p \in Pid, NEW n \in Count, NEW smi \in Smi,
           NEW own \in SUBSET Pid, Grant(l, p, n, smi, own)
    PROVE  TypeOK' /\ (LeasesDisjoint => LeasesDisjoint')
<1> DEFINE new == FirstByIndex(Candidates(smi, own), n)
<1>1. new \subseteq Gpu /\ \A k \in LeaseId : Reaped[k] # Unleased => Reaped[k].gpus \cap new = {}
  BY GrantTakesCandidates DEF LeasedIn
<1>2. /\ leases'[l] = [pid |-> p, gpus |-> new]
      /\ \A k \in LeaseId \ {l} : leases'[k] = Reaped[k]
  BY ReapedLeases DEF Grant
<1>3. TypeOK'
  <2>1. [pid |-> p, gpus |-> new] \in Lease
    BY <1>1 DEF Lease
  <2>2. QED
    BY <2>1, ReapedLeases DEF Grant, TypeOK
<1> HIDE DEF new
<1>4. leases'[l].gpus = new
  BY <1>2
<1>5. ASSUME LeasesDisjoint PROVE LeasesDisjoint'
  <2>1. \A j, k \in LeaseId :
            j # k /\ Reaped[j] # Unleased /\ Reaped[k] # Unleased
              => Reaped[j].gpus \cap Reaped[k].gpus = {}
    BY <1>5, ReapedLeases DEF LeasesDisjoint
  <2>2. QED
    BY <1>1, <1>2, <1>4, <2>1 DEF LeasesDisjoint, Held
<1>6. QED
  BY <1>3, <1>5

(* So does every write that only removes entries.                          *)
LEMMA RemovalKeeps ==
    ASSUME TypeOK, \/ leases' = Reaped
                   \/ \E l \in LeaseId : leases' = [leases EXCEPT ![l] = Unleased]
    PROVE  /\ leases' \in [LeaseId -> Lease \cup {Unleased}]
           /\ LeasesDisjoint => LeasesDisjoint'
<1>1. CASE leases' = Reaped
  BY <1>1, ReapedLeases DEF LeasesDisjoint, Held
<1>2. ASSUME NEW l \in LeaseId, leases' = [leases EXCEPT ![l] = Unleased]
      PROVE  /\ leases' \in [LeaseId -> Lease \cup {Unleased}]
             /\ LeasesDisjoint => LeasesDisjoint'
  BY <1>2 DEF LeasesDisjoint, Held, TypeOK
<1>3. QED
  BY <1>1, <1>2

(* Every operation of the allocator and every step of the environment      *)
(* keeps the lease file and the observed host state well formed.           *)
THEOREM TypeCorrect == Spec => []TypeOK
<1>1. Init => TypeOK
  BY DEF Init, TypeOK
<1>2. TypeOK /\ [Next]_vars => TypeOK'
  <2> SUFFICES ASSUME TypeOK, [Next]_vars PROVE TypeOK'
    OBVIOUS
  <2>1. ASSUME NEW l \in LeaseId, NEW p \in Pid, NEW n \in Count, NEW smi \in Smi,
               NEW own \in SUBSET Pid, Grant(l, p, n, smi, own)
        PROVE  TypeOK'
    BY <2>1, GrantKeeps
  <2>2. ASSUME NEW l \in LeaseId, Release(l) PROVE TypeOK'
    BY <2>2 DEF Release, TypeOK
  <2>3. CASE ReclaimStale
    BY <2>3, ReapedLeases DEF ReclaimStale, TypeOK
  <2>4. ASSUME NEW p \in Pid, ProcessStart(p) \/ ProcessExit(p) PROVE TypeOK'
    BY <2>4 DEF ProcessStart, ProcessExit, TypeOK
  <2>5. ASSUME NEW p \in Pid, NEW g \in Gpu, OpenCard(p, g) \/ CloseCard(p, g) PROVE TypeOK'
    BY <2>5 DEF OpenCard, CloseCard, TypeOK
  <2>6. ASSUME NEW g \in Gpu, MemoryChanges(g) PROVE TypeOK'
    BY <2>6 DEF MemoryChanges, TypeOK
  <2>7. CASE UNCHANGED vars
    BY <2>7 DEF vars, TypeOK
  <2>8. QED
    BY <2>1, <2>2, <2>3, <2>4, <2>5, <2>6, <2>7 DEF Next
<1>3. QED
  BY <1>1, <1>2, PTL DEF Spec

(* Two entries of the lease file never name the same card, however many    *)
(* launchers race, whatever nvidia-smi reports and whoever dies.           *)
THEOREM DoubleAllocationFree == Spec => []LeasesDisjoint
<1>1. Init => LeasesDisjoint
  BY DEF Init, LeasesDisjoint, Held
<1>2. TypeOK /\ LeasesDisjoint /\ [Next]_vars => LeasesDisjoint'
  <2> SUFFICES ASSUME TypeOK, LeasesDisjoint, [Next]_vars PROVE LeasesDisjoint'
    OBVIOUS
  <2>1. ASSUME NEW l \in LeaseId, NEW p \in Pid, NEW n \in Count, NEW smi \in Smi,
               NEW own \in SUBSET Pid, Grant(l, p, n, smi, own)
        PROVE  LeasesDisjoint'
    BY <2>1, GrantKeeps
  <2>2. ASSUME NEW l \in LeaseId, Release(l) PROVE LeasesDisjoint'
    BY <2>2, RemovalKeeps DEF Release
  <2>3. CASE ReclaimStale
    BY <2>3, RemovalKeeps DEF ReclaimStale
  <2>4. CASE UNCHANGED leases
    BY <2>4 DEF LeasesDisjoint, Held
  <2>5. QED
    BY <2>1, <2>2, <2>3, <2>4 DEF Next, vars, ProcessStart, ProcessExit,
       OpenCard, CloseCard, MemoryChanges
<1>3. QED
  BY <1>1, <1>2, TypeCorrect, PTL DEF Spec

(* A live process loses its lease by release of that lease and by nothing  *)
(* else: no reap and no grant of another launcher removes or rewrites it.  *)
THEOREM LiveLeaseNeverTaken == Spec => LiveLeaseKept
<1> DEFINE Kept == \A l \in LeaseId :
        Held(l) /\ leases[l].pid \in alive /\ leases'[l] # leases[l]
            => leases' = [leases EXCEPT ![l] = Unleased]
<1>1. TypeOK /\ [Next]_vars => [Kept]_vars
  <2> SUFFICES ASSUME TypeOK, [Next]_vars,
                      NEW l \in LeaseId, Held(l), leases[l].pid \in alive,
                      leases'[l] # leases[l]
               PROVE  leases' = [leases EXCEPT ![l] = Unleased]
    OBVIOUS
  <2>1. Reaped[l] = leases[l] /\ Reaped[l] # Unleased
    BY DEF Reaped, Held
  <2>2. ASSUME NEW k \in LeaseId, NEW p \in Pid, NEW n \in Count, NEW smi \in Smi,
               NEW own \in SUBSET Pid, Grant(k, p, n, smi, own)
        PROVE  FALSE
    <3>1. k # l
      BY <2>1, <2>2 DEF Grant
    <3>2. leases'[l] = Reaped[l]
      BY <2>2, <3>1, ReapedLeases DEF Grant
    <3>3. QED
      BY <2>1, <3>2
  <2>3. ASSUME NEW k \in LeaseId, Release(k)
        PROVE  leases' = [leases EXCEPT ![l] = Unleased]
    <3>1. k = l
      BY <2>3 DEF Release, TypeOK
    <3>2. QED
      BY <2>3, <3>1 DEF Release
  <2>4. ASSUME ReclaimStale PROVE FALSE
    BY <2>1, <2>4 DEF ReclaimStale
  <2>5. ASSUME UNCHANGED leases PROVE FALSE
    BY <2>5
  <2>6. QED
    BY <2>2, <2>3, <2>4, <2>5 DEF Next, vars, ProcessStart, ProcessExit,
       OpenCard, CloseCard, MemoryChanges
<1>2. QED
  BY <1>1, TypeCorrect, PTL DEF Spec, LiveLeaseKept

=============================================================================
