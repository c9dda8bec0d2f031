------------------------- MODULE BatchLaunchProofs -------------------------
(***************************************************************************)
(* Proofs about BatchLaunch for every number of launchers, papers and      *)
(* cards: it uses the lease file as GpuAllocator says, and while launchers *)
(* are neither killed nor signalled in the middle of a launch no two       *)
(* children share a card.                                                  *)
(***************************************************************************)
EXTENDS BatchLaunch, FiniteSetTheorems, TLAPS

(* The two names of the cardinality of a set.                              *)
LEMMA SameCardinality == \A S : Alloc!Cardinality(S) = Cardinality(S)
  BY DEF Alloc!Cardinality, Cardinality

(* What a free card is: a card.                                            *)
LEMMA FreeCards ==
    ASSUME NEW smi, NEW own
    PROVE  /\ Alloc!FreeDevices(smi, own) \subseteq Gpu
           /\ IsFiniteSet(Alloc!FreeDevices(smi, own))
           /\ Cardinality(Alloc!FreeDevices(smi, own)) \in Nat
<1>1. Alloc!FreeDevices(smi, own) \subseteq Gpu
  BY DEF Alloc!FreeDevices, Alloc!Devices
<1>2. QED
  BY <1>1, FiniteAssumption, FS_Subset, FS_CardinalityType

(* A grant is of a size the allocator knows: no more than there are cards. *)
LEMMA GrantSize ==
    ASSUME NEW smi, NEW own, NEW n \in Nat \ {0},
           Cardinality(Alloc!Candidates(smi, own)) >= n
    PROVE  n \in 1..Cardinality(Gpu)
<1>1. Alloc!Candidates(smi, own) \subseteq Gpu
  BY FreeCards DEF Alloc!Candidates
<1>2. /\ Cardinality(Alloc!Candidates(smi, own)) \in Nat
      /\ Cardinality(Gpu) \in Nat
      /\ Cardinality(Alloc!Candidates(smi, own)) <= Cardinality(Gpu)
  BY <1>1, FiniteAssumption, FS_Subset, FS_CardinalityType
<1>3. QED
  BY <1>2

(* Every request is for at least one card.                                 *)
LEMMA AskedPositive ==
    ASSUME NEW l \in Launcher, NEW n \in Asked(l)
    PROVE  n \in Nat \ {0}
<1>1. Cardinality(Gpu) \in Nat
  BY FiniteAssumption, FS_CardinalityType
<1>2. Most(1, Cardinality(Gpu)) \in Nat
  BY <1>1 DEF Most
<1>3. QED
  BY <1>2, PerRunAssumption DEF Asked

(* Launchers, workers, handlers and children change the lease file and the *)
(* process table only by operations of the allocator and by steps of its   *)
(* environment, signals and kills included.                                *)
THEOREM BatchImplementsAllocator == Spec => ImplementsAllocator
<1>1. Init => Alloc!Init
  BY DEF Init, Alloc!Init
<1>2. [Next]_vars => [Alloc!Next]_(Alloc!vars)
  <2> SUFFICES ASSUME [Next]_vars PROVE Alloc!Next \/ UNCHANGED host
    BY DEF host, Alloc!vars
  <2>1. ASSUME NEW l \in Launcher, Main(l) PROVE Alloc!Next \/ UNCHANGED host
    <3>1. ASSUME NEW p \in Launcher \cup Run, Alloc!ProcessStart(p) \/ Alloc!ProcessExit(p)
          PROVE  Alloc!Next
      BY <3>1 DEF Alloc!Next
    <3>2. ASSUME NEW r \in Run, Release(r) PROVE Alloc!Next \/ UNCHANGED host
      BY <3>2 DEF Release, Alloc!Next
    <3>3. CASE Launch(l) \/ LauncherExit(l)
      BY <3>1, <3>3 DEF Launch, LauncherExit
    <3>4. CASE Reclaim(l)
      BY <3>4 DEF Reclaim, Alloc!Next, Alloc!ReclaimStale, host
    <3>5. CASE \E smi \in Alloc!Smi : Preflight(l, smi)
      BY <3>1, <3>5 DEF Preflight
    <3>6. CASE HandlerWait(l) \/ HandlerList(l) \/ HandlerExit(l)
      BY <3>6 DEF HandlerWait, HandlerList, HandlerExit
    <3>7. CASE \E r \in Run : HandlerKill(l, r) \/ HandlerRelease(l, r)
      BY <3>1, <3>2, <3>7 DEF HandlerKill, HandlerRelease
    <3>8. QED
      BY <2>1, <3>3, <3>4, <3>5, <3>6, <3>7 DEF Main
  <2>2. ASSUME NEW l \in Launcher, Signal(l) \/ Kill(l) PROVE Alloc!Next \/ UNCHANGED host
    BY <2>2 DEF Signal, Kill, Alloc!Next
  <2>3. ASSUME NEW r \in Run, Work(r) PROVE Alloc!Next \/ UNCHANGED host
    <3>1. ASSUME NEW n \in Asked(Owner[r]), NEW smi \in Alloc!Smi, Acquire(r, n, smi)
          PROVE  Alloc!Next
      <4>1. Owner[r] \in Launcher
        BY OwnerAssumption
      <4>2. Alloc!Grant(r, Owner[r], n, smi, {})
        BY <3>1 DEF Acquire
      <4>3. n \in 1..Cardinality(Gpu)
        BY <4>1, <4>2, AskedPositive, GrantSize, SameCardinality DEF Alloc!Grant
      <4>4. QED
        BY <4>1, <4>2, <4>3 DEF Alloc!Next
    <3>2. ASSUME NEW n, NEW smi, AcquireFails(r, n, smi) PROVE UNCHANGED host
      BY <3>2 DEF AcquireFails
    <3>3. CASE Popen(r)
      BY <3>3 DEF Popen, Alloc!Next
    <3>4. CASE Finally(r)
      BY <3>4 DEF Finally, Release, Alloc!Next
    <3>5. CASE Begin(r) \/ Check(r) \/ Expire(r) \/ PrepareFails(r) \/ Register(r)
               \/ WaitReturns(r)
      BY <3>5 DEF Begin, Check, Expire, PrepareFails, Register, WaitReturns
    <3>6. QED
      BY <2>3, <3>1, <3>2, <3>3, <3>4, <3>5 DEF Work
  <2>4. ASSUME NEW r \in Run, ChildExit(r) PROVE Alloc!Next
    BY <2>4 DEF ChildExit, Alloc!Next
  <2>5. ASSUME NEW r \in Run, NEW g \in Gpu, ChildUses(r, g) PROVE Alloc!Next
    BY <2>5 DEF ChildUses, Alloc!Next
  <2>6. ASSUME NEW g \in Gpu, HostMemory(g) PROVE Alloc!Next
    BY <2>6 DEF HostMemory, Alloc!Next
  <2>7. CASE UNCHANGED vars
    BY <2>7 DEF vars, host
  <2>8. QED
    BY <2>1, <2>2, <2>3, <2>4, <2>5, <2>6, <2>7 DEF Next
<1>3. QED
  BY <1>1, <1>2, PTL DEF Spec, ImplementsAllocator, Alloc!Spec

-----------------------------------------------------------------------------
Facts == INSTANCE GpuAllocatorProofs
            WITH LeaseId <- Run, Pid <- Launcher \cup Run, Count <- 1..Cardinality(Gpu)

(* What is proved of the allocator holds here: the file is well formed and *)
(* no card is leased twice, signals and kills or not.                      *)
THEOREM LeasesStayDisjoint == Spec => [](Alloc!TypeOK /\ Alloc!LeasesDisjoint)
<1>1. 1..Cardinality(Gpu) \subseteq Nat \ {0} /\ Facts!IsFiniteSet(Gpu)
  BY FiniteAssumption, FS_CardinalityType DEF Facts!IsFiniteSet, IsFiniteSet
<1>2. (Facts!Spec => []Facts!TypeOK) /\ (Facts!Spec => []Facts!LeasesDisjoint)
  BY <1>1, Facts!TypeCorrect, Facts!DoubleAllocationFree, FiniteAssumption,
     UnleasedAssumption, Zenon
<1>3. Facts!Init <=> Alloc!Init
  BY DEF Facts!Init, Alloc!Init
<1>4. Facts!Next <=> Alloc!Next
  BY DEF Facts!Next, Alloc!Next, Facts!Grant, Alloc!Grant, Facts!Release, Alloc!Release,
     Facts!ReclaimStale, Alloc!ReclaimStale, Facts!ProcessStart, Alloc!ProcessStart,
     Facts!ProcessExit, Alloc!ProcessExit, Facts!OpenCard, Alloc!OpenCard,
     Facts!CloseCard, Alloc!CloseCard, Facts!MemoryChanges, Alloc!MemoryChanges,
     Facts!Smi, Alloc!Smi, Facts!Held, Alloc!Held, Facts!Reaped, Alloc!Reaped,
     Facts!LeasedIn, Alloc!LeasedIn, Facts!Candidates, Alloc!Candidates,
     Facts!FreeDevices, Alloc!FreeDevices, Facts!Devices, Alloc!Devices,
     Facts!ProcPids, Alloc!ProcPids, Facts!FirstByIndex, Alloc!FirstByIndex,
     Facts!Cardinality, Alloc!Cardinality
<1>5. [Alloc!Next]_(Alloc!vars) => [Facts!Next]_(Facts!vars)
  BY <1>4 DEF Facts!vars, Alloc!vars
<1>6. /\ Facts!TypeOK <=> Alloc!TypeOK
      /\ Facts!LeasesDisjoint <=> Alloc!LeasesDisjoint
  BY DEF Facts!TypeOK, Alloc!TypeOK, Facts!LeasesDisjoint, Alloc!LeasesDisjoint,
     Facts!Held, Alloc!Held, Facts!Lease, Alloc!Lease
<1>7. QED
  BY <1>2, <1>3, <1>5, <1>6, BatchImplementsAllocator, PTL
     DEF ImplementsAllocator, Facts!Spec, Alloc!Spec

(* A pool has at least one worker and no more than there are papers.       *)
LEMMA PoolSize ==
    ASSUME NEW l \in Launcher, NEW free \in Nat, PerRun[l] # 0
    PROVE  Most(1, Least(free \div PerRun[l], Cardinality(Own(l)))) \in 1..Cardinality(Run)
<1>1. Own(l) \subseteq Run
  BY DEF Own
<1>2. /\ Cardinality(Own(l)) \in Nat /\ Cardinality(Run) \in Nat
      /\ Cardinality(Own(l)) <= Cardinality(Run)
  BY <1>1, FiniteAssumption, FS_Subset, FS_CardinalityType
<1>3. Cardinality(Run) # 0
  BY FiniteAssumption, FS_EmptySet
<1>4. free \div PerRun[l] \in Nat
  BY PerRunAssumption
<1>5. QED
  BY <1>2, <1>3, <1>4 DEF Most, Least

(* The launchers' own state is well formed too.                            *)
THEOREM BatchTyped == Spec => []TypeOK
<1>1. Init => TypeOK
  <2>1. 1 \in 1..Cardinality(Run)
    BY FiniteAssumption, FS_EmptySet, FS_CardinalityType
  <2>2. QED
    BY <2>1 DEF Init, TypeOK, Alloc!TypeOK
<1>2. TypeOK /\ Alloc!TypeOK' /\ [Next]_vars => TypeOK'
  <2> SUFFICES ASSUME TypeOK, Alloc!TypeOK', [Next]_vars PROVE TypeOK'
    OBVIOUS
  <2> USE DEF TypeOK
  <2>1. ASSUME NEW l \in Launcher, Launch(l) \/ Reclaim(l) \/ LauncherExit(l)
        PROVE  TypeOK'
    BY <2>1 DEF Launch, Reclaim, LauncherExit
  <2>2. ASSUME NEW l \in Launcher, NEW smi \in Alloc!Smi, Preflight(l, smi) PROVE TypeOK'
    <3>1. 1 \in 1..Cardinality(Run)
      BY FiniteAssumption, FS_EmptySet, FS_CardinalityType
    <3>2. QED
      BY <2>2, <3>1, FreeCards, PoolSize DEF Preflight
  <2>3. ASSUME NEW l \in Launcher,
               HandlerWait(l) \/ HandlerList(l) \/ HandlerExit(l) \/ Signal(l) \/ Kill(l)
        PROVE  TypeOK'
    BY <2>3 DEF HandlerWait, HandlerList, HandlerExit, Signal, Kill, Own, main
  <2>4. ASSUME NEW l \in Launcher, NEW r \in Run, HandlerKill(l, r) \/ HandlerRelease(l, r)
        PROVE  TypeOK'
    BY <2>4 DEF HandlerKill, HandlerRelease
  <2>5. ASSUME NEW r \in Run, NEW n, NEW smi, Acquire(r, n, smi) PROVE TypeOK'
    <3>1. leases'[r].gpus \subseteq Gpu
      BY <2>5, FreeCards DEF Acquire, Alloc!Grant, Alloc!TypeOK, Alloc!Reaped,
         Alloc!FirstByIndex, Alloc!Candidates
    <3>2. QED
      BY <2>5, <3>1 DEF Acquire, At, main
  <2>6. ASSUME NEW r \in Run, NEW n, NEW smi, AcquireFails(r, n, smi) PROVE TypeOK'
    BY <2>6 DEF AcquireFails, At, main
  <2>7. ASSUME NEW r \in Run,
               Begin(r) \/ Check(r) \/ Expire(r) \/ Popen(r) \/ PrepareFails(r)
               \/ Register(r) \/ WaitReturns(r) \/ Finally(r)
        PROVE  TypeOK'
    BY <2>7 DEF Begin, Check, Expire, Popen, PrepareFails, Register, WaitReturns, Finally,
       At, main
  <2>8. CASE UNCHANGED <<main, pc, cards, live>>
    BY <2>8 DEF main
  <2>9. QED
    BY <2>1, <2>2, <2>3, <2>4, <2>5, <2>6, <2>7, <2>8
       DEF Next, Main, Work, ChildExit, ChildUses, HostMemory, vars, main
<1>3. QED
  BY <1>1, <1>2, LeasesStayDisjoint, PTL DEF Spec

-----------------------------------------------------------------------------
(* The inductive invariant.  Disjoint leases protect children only if      *)
(* every child alive still has its lease, in the name of a live launcher.  *)

(* A child is alive only while its worker waits for it, and a worker that  *)
(* waits has registered it.                                                *)
ChildWatched ==
    \A r \in Run : /\ r \in alive => pc[r] \in {"register", "wait"}
                   /\ pc[r] = "wait" => r \in live

(* Leases are in the name of the launcher of the run; from the acquire on, *)
(* and as long as the child lives, the lease is there and is what the      *)
(* child was told.                                                         *)
LeaseBehind ==
    \A r \in Run : /\ Alloc!Held(r) => leases[r].pid = Owner[r]
                   /\ (pc[r] = "prepare" \/ r \in alive)
                        => Alloc!Held(r) /\ leases[r].gpus = cards[r]

(* A worker at work belongs to a launcher with a pool, which is alive, and *)
(* one that is launching to a launcher that has not been signalled.        *)
LauncherBehind ==
    /\ \A l \in Launcher : at[l] \notin {"off", "over"} => l \in alive
    /\ \A r \in Run :
          /\ pc[r] \notin {"queued", "done"} => at[Owner[r]] = "pool"
          /\ pc[r] \in {"acquire", "prepare", "register"} => sig[Owner[r]] = "none"

(* What the handler has already dealt with.                                *)
HandlerProgress ==
    \A l \in Launcher :
        /\ sig[l] = "kill" => Own(l) \cap alive \subseteq todo[l]
        /\ sig[l] \in {"release", "exit"} => Own(l) \cap alive = {}
        /\ sig[l] = "release" => todo[l] \subseteq Own(l)

Guarded ==
    /\ ChildWatched
    /\ LeaseBehind
    /\ LauncherBehind
    /\ HandlerProgress

(* A process that is alive keeps its leases through a reap.                *)
LEMMA ReapKeepsLive ==
    ASSUME TypeOK, NEW r \in Run
    PROVE  /\ Alloc!Reaped[r] = leases[r] \/ Alloc!Reaped[r] = Unleased
           /\ Alloc!Held(r) /\ leases[r].pid \in alive => Alloc!Reaped[r] = leases[r]
  BY DEF TypeOK, Alloc!TypeOK, Alloc!Reaped, Alloc!Held

(* What a lease in the file looks like after an operation on another run   *)
(* or on no run: it is the same, or it is gone because its holder is dead. *)
LEMMA GrantEffect ==
    ASSUME TypeOK, NEW r \in Run, NEW p \in Launcher, NEW n, NEW smi,
           Alloc!Grant(r, p, n, smi, {})
    PROVE  /\ leases'[r].pid = p /\ leases'[r] # Unleased
           /\ \A s \in Run \ {r} : leases'[s] = Alloc!Reaped[s]
           /\ UNCHANGED alive
<1> DEFINE new == [pid |-> p, gpus |-> Alloc!FirstByIndex(Alloc!Candidates(smi, {}), n)]
<1>1. /\ leases'[r] = new
      /\ \A s \in Run \ {r} : leases'[s] = Alloc!Reaped[s]
      /\ UNCHANGED alive
  BY DEF Alloc!Grant, Alloc!Reaped
<1>2. new \in [pid : Launcher \cup Run, gpus : SUBSET Gpu]
  BY FreeCards DEF Alloc!FirstByIndex, Alloc!Candidates
<1>3. QED
  BY <1>1, <1>2, UnleasedAssumption

(* The worker's release of its own lease, when its child is gone.          *)
LEMMA ReleaseEffect ==
    ASSUME TypeOK, NEW r \in Run, Release(r)
    PROVE  /\ leases'[r] = Unleased
           /\ \A s \in Run \ {r} : leases'[s] = leases[s]
           /\ UNCHANGED alive
  BY DEF Release, Alloc!Release, Alloc!Held, TypeOK, Alloc!TypeOK, host

(* At the start there are no children to guard.                            *)
LEMMA GuardedInit == Init => Guarded
  BY DEF Init, Guarded, ChildWatched, LeaseBehind, LauncherBehind, HandlerProgress, Alloc!Held

(* Launchers that are neither killed nor signalled in the middle of a      *)
(* launch keep every child guarded by its lease.                           *)
LEMMA GuardedStep ==
    ASSUME Signals # "any", ~Kills, TypeOK, Guarded, [Next]_vars
    PROVE  Guarded'
<1> USE NamesAssumption, OwnerAssumption DEF Own, Alloc!Held
<1>0. /\ alive \subseteq Launcher \cup Run
      /\ pc \in [Run -> {"queued", "check", "acquire", "prepare", "register", "wait",
                         "finally", "done", "dead"}]
      /\ at \in [Launcher -> {"off", "reclaim", "preflight", "pool", "over"}]
      /\ sig \in [Launcher -> {"none", "term", "kill", "release", "exit"}]
      /\ todo \in [Launcher -> SUBSET Run]
      /\ cards \in [Run -> SUBSET Gpu]
      /\ ChildWatched /\ LeaseBehind /\ LauncherBehind /\ HandlerProgress
  BY DEF TypeOK, Alloc!TypeOK, Guarded
<1>1. ASSUME NEW l \in Launcher, Launch(l) PROVE Guarded'
  <2>1. ChildWatched'
    BY <1>0, <1>1 DEF ChildWatched, Launch, Alloc!ProcessStart
  <2>2. LeaseBehind'
    BY <1>0, <1>1 DEF LeaseBehind, ChildWatched, LauncherBehind, Launch, Alloc!ProcessStart
  <2>3. LauncherBehind'
    BY <1>0, <1>1 DEF LauncherBehind, Launch, Alloc!ProcessStart
  <2>4. HandlerProgress'
    BY <1>0, <1>1 DEF HandlerProgress, ChildWatched, LauncherBehind, Launch, Alloc!ProcessStart
  <2>5. QED
    BY <2>1, <2>2, <2>3, <2>4 DEF Guarded
<1>2. ASSUME NEW l \in Launcher, Reclaim(l) PROVE Guarded'
  <2>1. \A r \in Run :
            /\ leases'[r] = leases[r] \/ leases'[r] = Unleased
            /\ leases[r] # Unleased /\ leases[r].pid \in alive => leases'[r] = leases[r]
    BY <1>2, ReapKeepsLive DEF Reclaim
  <2>2. ChildWatched'
    BY <1>0, <1>2, <2>1 DEF ChildWatched, Reclaim
  <2>3. LeaseBehind'
    <3>1. \A r \in Run : pc[r] = "prepare" \/ r \in alive => Owner[r] \in alive
      BY <1>0 DEF ChildWatched, LauncherBehind
    <3>2. UNCHANGED <<alive, pc, cards>>
      BY <1>2 DEF Reclaim
    <3>3. QED
      BY <1>0, <2>1, <3>1, <3>2 DEF LeaseBehind
  <2>4. LauncherBehind'
    BY <1>0, <1>2, <2>1 DEF LauncherBehind, Reclaim
  <2>5. HandlerProgress'
    BY <1>0, <1>2, <2>1 DEF HandlerProgress, ChildWatched, LauncherBehind, Reclaim
  <2>6. QED
    BY <2>2, <2>3, <2>4, <2>5 DEF Guarded
<1>3. ASSUME NEW l \in Launcher, NEW smi, Preflight(l, smi) PROVE Guarded'
  <2>1. ChildWatched'
    BY <1>0, <1>3 DEF ChildWatched, Preflight, Alloc!ProcessExit, host
  <2>2. LeaseBehind'
    BY <1>0, <1>3 DEF LeaseBehind, ChildWatched, LauncherBehind, Preflight, Alloc!ProcessExit, host
  <2>3. LauncherBehind'
    BY <1>0, <1>3 DEF LauncherBehind, Preflight, Alloc!ProcessExit, host
  <2>4. HandlerProgress'
    BY <1>0, <1>3 DEF HandlerProgress, ChildWatched, LauncherBehind, Preflight, Alloc!ProcessExit, host
  <2>5. QED
    BY <2>1, <2>2, <2>3, <2>4 DEF Guarded
<1>4. ASSUME NEW l \in Launcher, LauncherExit(l) PROVE Guarded'
  <2>1. ChildWatched'
    BY <1>0, <1>4 DEF ChildWatched, LauncherExit, Alloc!ProcessExit
  <2>2. LeaseBehind'
    BY <1>0, <1>4 DEF LeaseBehind, ChildWatched, LauncherBehind, LauncherExit, Alloc!ProcessExit
  <2>3. LauncherBehind'
    BY <1>0, <1>4 DEF LauncherBehind, LauncherExit, Alloc!ProcessExit
  <2>4. HandlerProgress'
    BY <1>0, <1>4 DEF HandlerProgress, ChildWatched, LauncherBehind, LauncherExit, Alloc!ProcessExit
  <2>5. QED
    BY <2>1, <2>2, <2>3, <2>4 DEF Guarded
<1>5. ASSUME NEW l \in Launcher, HandlerWait(l) PROVE Guarded'
  <2>1. ChildWatched'
    BY <1>0, <1>5 DEF ChildWatched, HandlerWait, host
  <2>2. LeaseBehind'
    BY <1>0, <1>5 DEF LeaseBehind, ChildWatched, LauncherBehind, HandlerWait, host
  <2>3. LauncherBehind'
    BY <1>0, <1>5 DEF LauncherBehind, HandlerWait, host
  <2>4. HandlerProgress'
    BY <1>0, <1>5 DEF HandlerProgress, ChildWatched, LauncherBehind, HandlerWait, host
  <2>5. QED
    BY <2>1, <2>2, <2>3, <2>4 DEF Guarded
<1>6. ASSUME NEW l \in Launcher, HandlerList(l) PROVE Guarded'
  <2>1. ChildWatched'
    BY <1>0, <1>6 DEF ChildWatched, HandlerList, host
  <2>2. LeaseBehind'
    BY <1>0, <1>6 DEF LeaseBehind, ChildWatched, LauncherBehind, HandlerList, host
  <2>3. LauncherBehind'
    BY <1>0, <1>6 DEF LauncherBehind, HandlerList, host
  <2>4. HandlerProgress'
    BY <1>0, <1>6 DEF HandlerProgress, LeaseBehind, HandlerList, host
  <2>5. QED
    BY <2>1, <2>2, <2>3, <2>4 DEF Guarded
<1>7. ASSUME NEW l \in Launcher, HandlerExit(l) PROVE Guarded'
  <2>1. ChildWatched'
    BY <1>0, <1>7 DEF ChildWatched, HandlerExit, host
  <2>2. LeaseBehind'
    BY <1>0, <1>7 DEF LeaseBehind, ChildWatched, LauncherBehind, HandlerExit, host
  <2>3. LauncherBehind'
    BY <1>0, <1>7 DEF LauncherBehind, HandlerExit, host
  <2>4. HandlerProgress'
    BY <1>0, <1>7 DEF HandlerProgress, ChildWatched, LauncherBehind, HandlerExit, host
  <2>5. QED
    BY <2>1, <2>2, <2>3, <2>4 DEF Guarded
<1>8. ASSUME NEW l \in Launcher, NEW r \in Run, HandlerKill(l, r) PROVE Guarded'
  <2>1. ChildWatched'
    BY <1>0, <1>8 DEF ChildWatched, HandlerKill, Alloc!ProcessExit, host
  <2>2. LeaseBehind'
    BY <1>0, <1>8 DEF LeaseBehind, ChildWatched, LauncherBehind, HandlerKill, Alloc!ProcessExit, host
  <2>3. LauncherBehind'
    BY <1>0, <1>8 DEF LauncherBehind, HandlerKill, Alloc!ProcessExit, host
  <2>4. HandlerProgress'
    BY <1>0, <1>8 DEF HandlerProgress, ChildWatched, LauncherBehind, HandlerKill, Alloc!ProcessExit, host
  <2>5. QED
    BY <2>1, <2>2, <2>3, <2>4 DEF Guarded
<1>9. ASSUME NEW l \in Launcher, NEW r \in Run, HandlerRelease(l, r) PROVE Guarded'
  <2>1. /\ r \notin alive /\ pc[r] # "prepare"
        /\ leases'[r] = Unleased /\ UNCHANGED alive
        /\ \A s \in Run \ {r} : leases'[s] = leases[s]
    BY <1>0, <1>9, ReleaseEffect DEF HandlerRelease, HandlerProgress, LauncherBehind
  <2>2. ChildWatched'
    BY <1>0, <1>9, <2>1 DEF ChildWatched, HandlerRelease
  <2>3. LeaseBehind'
    BY <1>0, <1>9, <2>1 DEF LeaseBehind, ChildWatched, LauncherBehind, HandlerRelease
  <2>4. LauncherBehind'
    BY <1>0, <1>9, <2>1 DEF LauncherBehind, HandlerRelease
  <2>5. HandlerProgress'
    BY <1>0, <1>9, <2>1 DEF HandlerProgress, ChildWatched, LauncherBehind, HandlerRelease
  <2>6. QED
    BY <2>2, <2>3, <2>4, <2>5 DEF Guarded
<1>10. ASSUME NEW l \in Launcher, Signal(l) PROVE Guarded'
  <2>1. ChildWatched'
    BY <1>0, <1>10 DEF ChildWatched, Signal, Calm, host
  <2>2. LeaseBehind'
    BY <1>0, <1>10 DEF LeaseBehind, ChildWatched, LauncherBehind, Signal, Calm, host
  <2>3. LauncherBehind'
    BY <1>0, <1>10 DEF LauncherBehind, Signal, Calm, host
  <2>4. HandlerProgress'
    BY <1>0, <1>10 DEF HandlerProgress, ChildWatched, LauncherBehind, Signal, Calm, host
  <2>5. QED
    BY <2>1, <2>2, <2>3, <2>4 DEF Guarded
<1>11. ASSUME NEW r \in Run, Begin(r) \/ Check(r) \/ Expire(r) PROVE Guarded'
  <2>1. ChildWatched'
    BY <1>0, <1>11 DEF ChildWatched, Begin, Check, Expire, At, host, main
  <2>2. LeaseBehind'
    BY <1>0, <1>11 DEF LeaseBehind, ChildWatched, LauncherBehind, Begin, Check, Expire, At, host, main
  <2>3. LauncherBehind'
    BY <1>0, <1>11 DEF LauncherBehind, Begin, Check, Expire, At, host, main
  <2>4. HandlerProgress'
    BY <1>0, <1>11 DEF HandlerProgress, ChildWatched, LauncherBehind, Begin, Check, Expire, At, host, main
  <2>5. QED
    BY <2>1, <2>2, <2>3, <2>4 DEF Guarded
<1>12. ASSUME NEW r \in Run, NEW n, NEW smi, AcquireFails(r, n, smi) PROVE Guarded'
  <2>1. ChildWatched'
    BY <1>0, <1>12 DEF ChildWatched, AcquireFails, At, host, main
  <2>2. LeaseBehind'
    BY <1>0, <1>12 DEF LeaseBehind, ChildWatched, LauncherBehind, AcquireFails, At, host, main
  <2>3. LauncherBehind'
    BY <1>0, <1>12 DEF LauncherBehind, AcquireFails, At, host, main
  <2>4. HandlerProgress'
    BY <1>0, <1>12 DEF HandlerProgress, ChildWatched, LauncherBehind, AcquireFails, At, host, main
  <2>5. QED
    BY <2>1, <2>2, <2>3, <2>4 DEF Guarded
<1>13. ASSUME NEW r \in Run, NEW n, NEW smi, Acquire(r, n, smi) PROVE Guarded'
  <2>1. /\ leases'[r].pid = Owner[r] /\ leases'[r] # Unleased /\ UNCHANGED alive
        /\ \A s \in Run \ {r} :
            /\ leases'[s] = leases[s] \/ leases'[s] = Unleased
            /\ leases[s] # Unleased /\ leases[s].pid \in alive => leases'[s] = leases[s]
    BY <1>13, GrantEffect, ReapKeepsLive DEF Acquire
  <2>2. ChildWatched'
    BY <1>0, <1>13, <2>1 DEF ChildWatched, Acquire, At, main
  <2>3. LeaseBehind'
    BY <1>0, <1>13, <2>1 DEF LeaseBehind, ChildWatched, LauncherBehind, Acquire, At, main
  <2>4. LauncherBehind'
    BY <1>0, <1>13, <2>1 DEF LauncherBehind, Acquire, At, main
  <2>5. HandlerProgress'
    BY <1>0, <1>13, <2>1 DEF HandlerProgress, ChildWatched, LauncherBehind, Acquire, At, main
  <2>6. QED
    BY <2>2, <2>3, <2>4, <2>5 DEF Guarded
<1>14. ASSUME NEW r \in Run, PrepareFails(r) \/ Register(r) \/ WaitReturns(r) PROVE Guarded'
  <2>1. ChildWatched'
    BY <1>0, <1>14 DEF ChildWatched, PrepareFails, Register, WaitReturns, At, host, main
  <2>2. LeaseBehind'
    BY <1>0, <1>14 DEF LeaseBehind, ChildWatched, LauncherBehind, PrepareFails, Register, WaitReturns, At, host, main
  <2>3. LauncherBehind'
    BY <1>0, <1>14 DEF LauncherBehind, PrepareFails, Register, WaitReturns, At, host, main
  <2>4. HandlerProgress'
    BY <1>0, <1>14 DEF HandlerProgress, ChildWatched, LauncherBehind, PrepareFails, Register, WaitReturns, At, host, main
  <2>5. QED
    BY <2>1, <2>2, <2>3, <2>4 DEF Guarded
<1>15. ASSUME NEW r \in Run, Popen(r) PROVE Guarded'
  <2>1. ChildWatched'
    BY <1>0, <1>15 DEF ChildWatched, Popen, At, Alloc!ProcessStart, main
  <2>2. LeaseBehind'
    BY <1>0, <1>15 DEF LeaseBehind, ChildWatched, LauncherBehind, Popen, At, Alloc!ProcessStart, main
  <2>3. LauncherBehind'
    BY <1>0, <1>15 DEF LauncherBehind, Popen, At, Alloc!ProcessStart, main
  <2>4. HandlerProgress'
    BY <1>0, <1>15 DEF HandlerProgress, ChildWatched, LauncherBehind, Popen, At, Alloc!ProcessStart, main
  <2>5. QED
    BY <2>1, <2>2, <2>3, <2>4 DEF Guarded
<1>16. ASSUME NEW r \in Run, Finally(r) PROVE Guarded'
  <2>1. /\ leases'[r] = Unleased /\ UNCHANGED alive
        /\ \A s \in Run \ {r} : leases'[s] = leases[s]
    BY <1>16, ReleaseEffect DEF Finally
  <2>2. ChildWatched'
    BY <1>0, <1>16, <2>1 DEF ChildWatched, Finally, At, main
  <2>3. LeaseBehind'
    BY <1>0, <1>16, <2>1 DEF LeaseBehind, ChildWatched, LauncherBehind, Finally, At, main
  <2>4. LauncherBehind'
    BY <1>0, <1>16, <2>1 DEF LauncherBehind, Finally, At, main
  <2>5. HandlerProgress'
    BY <1>0, <1>16, <2>1 DEF HandlerProgress, ChildWatched, LauncherBehind, Finally, At, main
  <2>6. QED
    BY <2>2, <2>3, <2>4, <2>5 DEF Guarded
<1>17. ASSUME NEW r \in Run, ChildExit(r) PROVE Guarded'
  <2>1. ChildWatched'
    BY <1>0, <1>17 DEF ChildWatched, ChildExit, Alloc!ProcessExit, main
  <2>2. LeaseBehind'
    BY <1>0, <1>17 DEF LeaseBehind, ChildWatched, LauncherBehind, ChildExit, Alloc!ProcessExit, main
  <2>3. LauncherBehind'
    BY <1>0, <1>17 DEF LauncherBehind, ChildExit, Alloc!ProcessExit, main
  <2>4. HandlerProgress'
    BY <1>0, <1>17 DEF HandlerProgress, ChildWatched, LauncherBehind, ChildExit, Alloc!ProcessExit, main
  <2>5. QED
    BY <2>1, <2>2, <2>3, <2>4 DEF Guarded
<1>18. ASSUME UNCHANGED <<leases, alive, main, pc, cards, live>> PROVE Guarded'
  BY <1>18 DEF main, Guarded, ChildWatched, LeaseBehind, LauncherBehind, HandlerProgress
<1>19. ASSUME NEW r \in Run, NEW g \in Gpu, ChildUses(r, g) PROVE Guarded'
  BY <1>18, <1>19 DEF ChildUses, Alloc!OpenCard, Alloc!CloseCard
<1>20. ASSUME NEW l \in Launcher, Main(l) \/ Signal(l) \/ Kill(l) PROVE Guarded'
  BY <1>1, <1>2, <1>3, <1>4, <1>5, <1>6, <1>7, <1>8, <1>9, <1>10, <1>20 DEF Main, Kill
<1>21. ASSUME NEW r \in Run, Work(r) \/ ChildExit(r) PROVE Guarded'
  BY <1>11, <1>12, <1>13, <1>14, <1>15, <1>16, <1>17, <1>21 DEF Work
<1>22. ASSUME NEW g \in Gpu, HostMemory(g) PROVE Guarded'
  BY <1>18, <1>22 DEF HostMemory, Alloc!MemoryChanges
<1>23. QED
  BY <1>18, <1>19, <1>20, <1>21, <1>22 DEF Next, vars, main

(* No two runs share a card, for any number of launchers and papers, as    *)
(* long as no launcher is killed or signalled in the middle of a launch.   *)
THEOREM NoSharedCards ==
    ASSUME Signals # "any", ~Kills
    PROVE  Spec => []CardsNotShared
<1>1. TypeOK /\ Guarded /\ [Next]_vars => Guarded'
  BY GuardedStep
<1>2. Alloc!LeasesDisjoint /\ Guarded => CardsNotShared
  BY DEF Alloc!LeasesDisjoint, Guarded, LeaseBehind, CardsNotShared
<1>3. QED
  BY <1>1, <1>2, GuardedInit, BatchTyped, LeasesStayDisjoint, PTL DEF Spec

-----------------------------------------------------------------------------
(* A worker has a lease only between the acquire and the end of its        *)
(* finally block.                                                          *)
HeldWhileWorking ==
    \A r \in Run : pc[r] \in {"queued", "check", "acquire", "done"} => ~Alloc!Held(r)

(* A lease appears by the acquire of its own worker and in no other way.   *)
LEMMA LeaseStep ==
    ASSUME TypeOK, [Next]_vars, NEW r \in Run
    PROVE  \/ leases'[r] = leases[r]
           \/ leases'[r] = Unleased
           \/ pc[r] = "acquire" /\ pc'[r] = "prepare" /\ leases'[r].pid = Owner[r]
<1> DEFINE Goal == \/ leases'[r] = leases[r]
                   \/ leases'[r] = Unleased
                   \/ pc[r] = "acquire" /\ pc'[r] = "prepare" /\ leases'[r].pid = Owner[r]
<1>0. ASSUME UNCHANGED leases PROVE Goal
  BY <1>0
<1>1. ASSUME NEW s \in Run, Release(s) PROVE Goal
  BY <1>1, ReleaseEffect
<1>2. ASSUME NEW l \in Launcher, Main(l) \/ Signal(l) \/ Kill(l) PROVE Goal
  <2>1. CASE Reclaim(l)
    BY <2>1, ReapKeepsLive DEF Reclaim
  <2>2. CASE \E s \in Run : HandlerKill(l, s) \/ HandlerRelease(l, s)
    BY <1>0, <1>1, <2>2 DEF HandlerKill, HandlerRelease, Alloc!ProcessExit, host
  <2>3. CASE Launch(l) \/ LauncherExit(l) \/ HandlerWait(l) \/ HandlerList(l) \/ HandlerExit(l)
             \/ Signal(l) \/ Kill(l) \/ \E smi \in Alloc!Smi : Preflight(l, smi)
    <3>1. UNCHANGED leases
      BY <2>3 DEF Launch, LauncherExit, HandlerWait, HandlerList, HandlerExit, Signal, Kill,
         Preflight, Alloc!ProcessStart, Alloc!ProcessExit, host
    <3> QED
      BY <1>0, <3>1
  <2> QED
    BY <1>2, <2>1, <2>2, <2>3 DEF Main
<1>3. ASSUME NEW s \in Run, NEW n \in Asked(Owner[s]), NEW smi \in Alloc!Smi,
             Acquire(s, n, smi) \/ AcquireFails(s, n, smi)
      PROVE  Goal
  <2>1. CASE Acquire(s, n, smi)
    <3>1. /\ leases'[s].pid = Owner[s]
          /\ \A t \in Run \ {s} : leases'[t] = Alloc!Reaped[t]
      BY <2>1, GrantEffect, OwnerAssumption DEF Acquire
    <3>2. pc[s] = "acquire" /\ pc'[s] = "prepare"
      BY <2>1 DEF Acquire, At, TypeOK
    <3> QED
      BY <3>1, <3>2, ReapKeepsLive
  <2> QED
    BY <1>0, <1>3, <2>1 DEF AcquireFails, host
<1>4. ASSUME NEW s \in Run, Work(s) \/ ChildExit(s) PROVE Goal
  <2>1. CASE Finally(s)
    BY <1>1, <2>1 DEF Finally
  <2>2. CASE Begin(s) \/ Check(s) \/ Expire(s) \/ Popen(s) \/ PrepareFails(s) \/ Register(s)
             \/ WaitReturns(s) \/ ChildExit(s)
    <3>1. UNCHANGED leases
      BY <2>2 DEF Begin, Check, Expire, Popen, PrepareFails, Register, WaitReturns, ChildExit,
         Alloc!ProcessStart, Alloc!ProcessExit, host
    <3> QED
      BY <1>0, <3>1
  <2> QED
    BY <1>3, <1>4, <2>1, <2>2 DEF Work
<1>5. ASSUME NEW s \in Run, NEW g \in Gpu, ChildUses(s, g) \/ HostMemory(g) PROVE Goal
  BY <1>0, <1>5 DEF ChildUses, HostMemory, Alloc!OpenCard, Alloc!CloseCard, Alloc!MemoryChanges
<1> QED
  BY <1>0, <1>2, <1>4, <1>5 DEF Next, vars

(* A worker comes to an idle place from an idle one, or by giving its      *)
(* lease back.                                                             *)
LEMMA IdleStep ==
    ASSUME TypeOK, [Next]_vars, NEW r \in Run,
           pc'[r] \in {"queued", "check", "acquire", "done"}
    PROVE  pc[r] \in {"queued", "check", "acquire", "done"} \/ leases'[r] = Unleased
<1>0. pc \in [Run -> {"queued", "check", "acquire", "prepare", "register", "wait",
                      "finally", "done", "dead"}]
  BY DEF TypeOK
<1>1. ASSUME NEW l \in Launcher, Main(l) \/ Signal(l) PROVE UNCHANGED pc
  BY <1>1 DEF Main, Launch, Reclaim, LauncherExit, Preflight, HandlerWait, HandlerList,
     HandlerExit, HandlerKill, HandlerRelease, Signal
<1>2. ASSUME NEW l \in Launcher, Kill(l) PROVE pc'[r] \in {pc[r], "dead"}
  BY <1>2 DEF Kill
<1>3. ASSUME NEW s \in Run, Work(s), pc'[r] # pc[r]
      PROVE  pc[r] \in {"queued", "check", "acquire"} \/ leases'[r] = Unleased
             \/ pc'[r] \in {"register", "finally", "wait"}
  <2>1. CASE Finally(s)
    BY <1>0, <1>3, <2>1, ReleaseEffect DEF Finally, At
  <2>2. CASE Begin(s) \/ Check(s) \/ Expire(s) \/ Popen(s) \/ PrepareFails(s) \/ Register(s)
             \/ WaitReturns(s)
    BY <1>0, <1>3, <2>2 DEF Begin, Check, Expire, Popen, PrepareFails, Register, WaitReturns, At
  <2>3. CASE \E n \in Asked(Owner[s]), smi \in Alloc!Smi : Acquire(s, n, smi) \/ AcquireFails(s, n, smi)
    BY <1>0, <1>3, <2>3 DEF Acquire, AcquireFails, At
  <2> QED
    BY <1>3, <2>1, <2>2, <2>3 DEF Work
<1> QED
  BY <1>0, <1>1, <1>2, <1>3 DEF Next, ChildExit, ChildUses, HostMemory, vars

(* The finally block leaves nothing behind: a worker that is through has   *)
(* no lease in the file, however it ended and whatever signals and kills   *)
(* its launcher and the others got.                                        *)
THEOREM LeaseAlwaysReleased == Spec => []NoStrandedLease
<1>1. Init => HeldWhileWorking
  BY DEF Init, HeldWhileWorking, Alloc!Held
<1>2. TypeOK /\ HeldWhileWorking /\ [Next]_vars => HeldWhileWorking'
  BY LeaseStep, IdleStep DEF HeldWhileWorking, Alloc!Held
<1>3. TypeOK /\ HeldWhileWorking => NoStrandedLease
  BY DEF HeldWhileWorking, NoStrandedLease
<1> QED
  BY <1>1, <1>2, <1>3, BatchTyped, PTL DEF Spec

(* From the moment the handler has listed the leases of its launcher, the  *)
(* ones that are left are on its list.                                     *)
ListComplete ==
    \A l \in Launcher, r \in Run :
        /\ sig[l] \in {"release", "exit"} /\ Alloc!Held(r) /\ leases[r].pid = l
        => sig[l] = "release" /\ r \in todo[l]

(* No worker of a signalled launcher acquires, so nothing is added behind  *)
(* the handler's back.                                                     *)
LEMMA ListStep ==
    ASSUME TypeOK, Guarded, ListComplete, [Next]_vars
    PROVE  ListComplete'
<1> SUFFICES ASSUME NEW l \in Launcher, NEW r \in Run,
                    sig'[l] \in {"release", "exit"}, leases'[r] # Unleased, leases'[r].pid = l
             PROVE  sig'[l] = "release" /\ r \in todo'[l]
  BY DEF ListComplete, Alloc!Held
<1>0. /\ sig \in [Launcher -> {"none", "term", "kill", "release", "exit"}]
      /\ todo \in [Launcher -> SUBSET Run]
  BY DEF TypeOK
<1>1. sig'[l] # sig[l] => \E k \in Launcher : Main(k) \/ Signal(k)
  BY DEF Next, Kill, Work, Begin, Check, Expire, Acquire, AcquireFails, Popen, PrepareFails,
     Register, WaitReturns, Finally, ChildExit, ChildUses, HostMemory, main, vars
<1>2. sig[l] # "none"
  <2>1. ASSUME NEW k \in Launcher, Main(k) \/ Signal(k), sig[l] = "none"
        PROVE  sig'[l] \in {"none", "term"}
    BY <1>0, <2>1 DEF Main, Launch, Reclaim, LauncherExit, Preflight, HandlerWait, HandlerList,
       HandlerExit, HandlerKill, HandlerRelease, Signal
  <2> QED
    BY <1>1, <2>1
<1>3. leases'[r] = leases[r]
  <2>1. ~(pc[r] = "acquire" /\ leases'[r].pid = Owner[r])
    BY <1>2 DEF Guarded, LauncherBehind
  <2> QED
    BY <2>1, LeaseStep
<1>4. ASSUME NEW k \in Launcher, Main(k) \/ Signal(k) PROVE sig'[l] = "release" /\ r \in todo'[l]
  <2>1. CASE \E s \in Run : HandlerRelease(k, s)
    <3>1. PICK s \in Run : HandlerRelease(k, s)
      BY <2>1
    <3>2. leases'[s] = Unleased
      BY <3>1, ReleaseEffect DEF HandlerRelease
    <3> QED
      BY <1>0, <1>3, <3>1, <3>2 DEF HandlerRelease, ListComplete, Alloc!Held
  <2>2. CASE HandlerList(k)
    BY <1>0, <1>3, <2>2 DEF HandlerList, ListComplete, Alloc!Held
  <2>3. CASE HandlerExit(k) \/ HandlerWait(k) \/ Signal(k)
    BY <1>0, <1>3, <2>3 DEF HandlerExit, HandlerWait, Signal, ListComplete, Alloc!Held
  <2>4. CASE \E s \in Run : HandlerKill(k, s)
    BY <1>0, <1>3, <2>4 DEF HandlerKill, ListComplete, Alloc!Held
  <2>5. CASE Launch(k) \/ Reclaim(k) \/ LauncherExit(k) \/ \E smi \in Alloc!Smi : Preflight(k, smi)
    BY <1>0, <1>3, <2>5 DEF Launch, Reclaim, LauncherExit, Preflight, ListComplete, Alloc!Held
  <2> QED
    BY <1>4, <2>1, <2>2, <2>3, <2>4, <2>5 DEF Main
<1>5. UNCHANGED <<sig, todo>> \/ \E k \in Launcher : Main(k) \/ Signal(k)
  BY DEF Next, Kill, Work, Begin, Check, Expire, Acquire, AcquireFails, Popen, PrepareFails,
     Register, WaitReturns, Finally, ChildExit, ChildUses, HostMemory, main, vars
<1> QED
  BY <1>3, <1>4, <1>5 DEF ListComplete, Alloc!Held

(* When the handler of a launcher is through, none of its children is left *)
(* and no lease is in its name, and it stays so until the launcher ends:   *)
(* for launchers that are not killed or signalled in the middle of a       *)
(* launch.                                                                 *)
THEOREM TeardownIsComplete ==
    ASSUME Signals # "any", ~Kills
    PROVE  Spec => []SignalTearsDown
<1>1. TypeOK /\ Guarded /\ [Next]_vars => Guarded'
  BY GuardedStep
<1>2. Init => ListComplete
  BY DEF Init, ListComplete
<1>3. TypeOK /\ Guarded /\ ListComplete /\ [Next]_vars => ListComplete'
  BY ListStep
<1>4. Guarded /\ ListComplete => SignalTearsDown
  BY DEF Guarded, HandlerProgress, ListComplete, SignalTearsDown
<1> QED
  BY <1>1, <1>2, <1>3, <1>4, GuardedInit, BatchTyped, PTL DEF Spec
=============================================================================
