----------------------------- MODULE BatchLaunch -----------------------------
(***************************************************************************)
(* scripts/batch_reproduce.py over the GPU lease file: launcher processes, *)
(* each with a pool of worker threads that run one child process per paper *)
(* on leased cards, the SIGINT/SIGTERM handler of a launcher, and the      *)
(* death of a launcher.                                                    *)
(*                                                                         *)
(* The lease of a run is held in the name of its launcher, so the file     *)
(* protects the child only while the launcher lives and the worker has not *)
(* released it.  The child of run r is the process called r, and the lease *)
(* id of r is r.  Every change of the lease file and of the process table  *)
(* is an operation of GpuAllocator.                                        *)
(***************************************************************************)
EXTENDS Integers, FiniteSets

CONSTANTS
    Gpu, Unleased,
    Launcher,   \* batch_reproduce processes
    Run,        \* papers to reproduce
    Owner,      \* the launcher each paper was given to
    PerRun,     \* --gpus-per-run of each launcher; 0 stands for auto
    Signals,    \* "none", "any", or "calm": only while no worker is launching
    Kills       \* launchers may be killed

ASSUME OwnerAssumption == Owner \in [Run -> Launcher]
ASSUME PerRunAssumption == PerRun \in [Launcher -> Nat]
ASSUME NamesAssumption == Launcher \cap Run = {}
ASSUME FiniteAssumption == /\ IsFiniteSet(Run) /\ Run # {}
                           /\ IsFiniteSet(Gpu) /\ Gpu \subseteq Nat
ASSUME UnleasedAssumption == Unleased \notin [pid : Launcher \cup Run, gpus : SUBSET Gpu]
ASSUME FaultAssumption == Signals \in {"none", "any", "calm"} /\ Kills \in BOOLEAN

VARIABLES
    leases, alive, procs, hot,      \* see GpuAllocator
    at,         \* where the main thread of each launcher is
    workers,    \* the size of its thread pool
    sig,        \* where its signal handler is
    todo,       \* the children or the leases the handler still has to deal with
    pc,         \* the worker of each run
    cards,      \* CUDA_VISIBLE_DEVICES of each child
    live        \* live_procs of all launchers

host == <<leases, alive, procs, hot>>
main == <<at, workers, sig, todo>>
vars == <<leases, alive, procs, hot, at, workers, sig, todo, pc, cards, live>>

Alloc == INSTANCE GpuAllocator
            WITH LeaseId <- Run, Pid <- Launcher \cup Run, Count <- 1..Cardinality(Gpu)

Own(l) == {r \in Run : Owner[r] = l}

TypeOK ==
    /\ Alloc!TypeOK
    /\ at \in [Launcher -> {"off", "reclaim", "preflight", "pool", "over"}]
    /\ workers \in [Launcher -> 1..Cardinality(Run)]
    /\ sig \in [Launcher -> {"none", "term", "kill", "release", "exit"}]
    /\ todo \in [Launcher -> SUBSET Run]
    /\ pc \in [Run -> {"queued", "check", "acquire", "prepare", "register", "wait",
                       "finally", "done", "dead"}]
    /\ cards \in [Run -> SUBSET Gpu]
    /\ live \subseteq Run

-----------------------------------------------------------------------------
(* main().                                                                 *)

Launch(l) ==
    /\ at[l] = "off"
    /\ Alloc!ProcessStart(l)
    /\ at' = [at EXCEPT ![l] = "reclaim"]
    /\ UNCHANGED <<workers, sig, todo, pc, cards, live>>

Reclaim(l) ==
    /\ at[l] = "reclaim"
    /\ leases' = Alloc!Reaped
    /\ at' = [at EXCEPT ![l] = "preflight"]
    /\ UNCHANGED <<workers, sig, todo, alive, procs, hot, pc, cards, live>>

Least(a, b) == IF a <= b THEN a ELSE b
Most(a, b) == IF a >= b THEN a ELSE b

(* No free card: return 2.  Otherwise a pool of as many workers as runs    *)
(* fit, one in auto mode.                                                  *)
Preflight(l, smi) ==
    LET free == Cardinality(Alloc!FreeDevices(smi, {})) IN
    /\ at[l] = "preflight"
    /\ IF free = 0
       THEN /\ Alloc!ProcessExit(l)
            /\ at' = [at EXCEPT ![l] = "over"]
            /\ UNCHANGED <<workers, sig, todo>>
       ELSE /\ at' = [at EXCEPT ![l] = "pool"]
            /\ workers' = [workers EXCEPT ![l] =
                    IF PerRun[l] = 0 THEN 1
                    ELSE Most(1, Least(free \div PerRun[l], Cardinality(Own(l))))]
            /\ UNCHANGED <<sig, todo, host>>
    /\ UNCHANGED <<pc, cards, live>>

(* The pool has drained.  With nothing in live_procs the releases of the   *)
(* outer finally are void.                                                 *)
LauncherExit(l) ==
    /\ at[l] = "pool" /\ sig[l] \in {"none", "exit"}
    /\ \A r \in Own(l) : pc[r] = "done"
    /\ Alloc!ProcessExit(l)
    /\ at' = [at EXCEPT ![l] = "over"]
    /\ UNCHANGED <<workers, sig, todo, pc, cards, live>>

(* SIGKILL, or the OOM killer: the threads vanish, the children do not.    *)
Kill(l) ==
    /\ Kills
    /\ Alloc!ProcessExit(l)
    /\ at' = [at EXCEPT ![l] = "over"]
    /\ UNCHANGED <<workers, sig, todo>>
    /\ pc' = [r \in Run |-> IF r \in Own(l) /\ pc[r] # "done" THEN "dead" ELSE pc[r]]
    /\ live' = live \ Own(l)
    /\ UNCHANGED cards

-----------------------------------------------------------------------------
(* _run_one, in a worker thread.                                           *)

Busy(l) == {r \in Own(l) : pc[r] \notin {"queued", "done"}}

At(r, here, there) == pc[r] = here /\ pc' = [pc EXCEPT ![r] = there]

Begin(r) ==
    /\ at[Owner[r]] = "pool"
    /\ Cardinality(Busy(Owner[r])) < workers[Owner[r]]
    /\ At(r, "queued", "check")
    /\ UNCHANGED <<host, main, cards, live>>

(* The head of the acquire loop: give up when shutting down ...            *)
Check(r) ==
    /\ At(r, "check", IF sig[Owner[r]] = "none" THEN "acquire" ELSE "done")
    /\ UNCHANGED <<host, main, cards, live>>

(* Mutant: the deadline is armed again by every attempt.                   *)
ExpireNever(r) ==
    /\ At(r, "check", "check")
    /\ UNCHANGED <<host, main, cards, live>>

(* ... or at the deadline.                                                 *)
Expire(r) ==
    /\ At(r, "check", "done")
    /\ UNCHANGED <<host, main, cards, live>>

(* What is asked for.  Auto mode counts the free cards beforehand, and     *)
(* that count may be stale by now.                                         *)
Asked(l) == IF PerRun[l] = 0 THEN 1..Most(1, Cardinality(Gpu)) ELSE {PerRun[l]}

(* Mutant: the cards are the ones counted as free before the lock.         *)
AcquireCounted(r, n, smi) ==
    /\ At(r, "acquire", "prepare")
    /\ Cardinality(Alloc!FreeDevices(smi, {})) >= n
    /\ cards' = [cards EXCEPT ![r] = Alloc!FirstByIndex(Alloc!FreeDevices(smi, {}), n)]
    /\ leases' = [leases EXCEPT ![r] = [pid |-> Owner[r], gpus |-> cards'[r]]]
    /\ UNCHANGED <<alive, procs, hot, main, live>>

Acquire(r, n, smi) ==
    /\ At(r, "acquire", "prepare")
    /\ Alloc!Grant(r, Owner[r], n, smi, {})
    /\ cards' = [cards EXCEPT ![r] = leases'[r].gpus]
    /\ UNCHANGED <<main, live>>

AcquireFails(r, n, smi) ==
    /\ At(r, "acquire", "check")
    /\ Cardinality(Alloc!Candidates(smi, {})) < n
    /\ UNCHANGED <<host, main, cards, live>>

(* Project directory, venv, caches and environment come first; then Popen. *)
Popen(r) ==
    /\ At(r, "prepare", "register")
    /\ Alloc!ProcessStart(r)
    /\ UNCHANGED <<main, cards, live>>

(* Mutant: a failed launch does not go through the finally block.          *)
PrepareFailsBare(r) ==
    /\ At(r, "prepare", "done")
    /\ UNCHANGED <<host, main, cards, live>>

PrepareFails(r) ==
    /\ At(r, "prepare", "finally")
    /\ UNCHANGED <<host, main, cards, live>>

Register(r) ==
    /\ At(r, "register", "wait")
    /\ live' = live \cup {r}
    /\ UNCHANGED <<host, main, cards>>

(* proc.wait() returns; a missing report is synthesised.                   *)
WaitReturns(r) ==
    /\ At(r, "wait", "finally")
    /\ r \notin alive
    /\ UNCHANGED <<host, main, cards, live>>

(* release(), a no-op when the lease is not in the file.                   *)
Release(r) == IF Alloc!Held(r) THEN Alloc!Release(r) ELSE UNCHANGED host

Finally(r) ==
    /\ At(r, "finally", "done")
    /\ live' = live \ {r}
    /\ Release(r)
    /\ UNCHANGED <<main, cards>>

-----------------------------------------------------------------------------
(* The signal handler, in the main thread.                                 *)

Calm(l) == \A r \in Own(l) : pc[r] \notin {"acquire", "prepare", "register"}

(* _shutting_down is set and SIGTERM sent, which a child may or may not    *)
(* obey.                                                                   *)
Signal(l) ==
    /\ Signals = "any" \/ (Signals = "calm" /\ Calm(l))
    /\ at[l] = "pool" /\ sig[l] = "none"
    /\ sig' = [sig EXCEPT ![l] = "term"]
    /\ UNCHANGED <<at, workers, todo, host, pc, cards, live>>

HandlerWait(l) ==
    /\ at[l] = "pool" /\ sig[l] = "term"
    /\ sig' = [sig EXCEPT ![l] = "kill"]
    /\ todo' = [todo EXCEPT ![l] = live \cap Own(l)]
    /\ UNCHANGED <<at, workers, host, pc, cards, live>>

(* Mutant: the handler trusts SIGTERM.                                     *)
HandlerKillNot(l, r) ==
    /\ at[l] = "pool" /\ sig[l] = "kill" /\ r \in todo[l]
    /\ todo' = [todo EXCEPT ![l] = @ \ {r}]
    /\ UNCHANGED <<at, workers, sig, host, pc, cards, live>>

(* A child that has not exited in time is killed.                          *)
HandlerKill(l, r) ==
    /\ at[l] = "pool" /\ sig[l] = "kill" /\ r \in todo[l]
    /\ IF r \in alive THEN Alloc!ProcessExit(r) ELSE UNCHANGED host
    /\ todo' = [todo EXCEPT ![l] = @ \ {r}]
    /\ UNCHANGED <<at, workers, sig, pc, cards, live>>

(* Mutant: every lease of the file is listed.                              *)
HandlerListAll(l) ==
    /\ at[l] = "pool" /\ sig[l] = "kill" /\ todo[l] = {}
    /\ sig' = [sig EXCEPT ![l] = "release"]
    /\ todo' = [todo EXCEPT ![l] = {r \in Run : Alloc!Held(r)}]
    /\ UNCHANGED <<at, workers, host, pc, cards, live>>

(* active_leases(), filtered by holder pid.                                *)
HandlerList(l) ==
    /\ at[l] = "pool" /\ sig[l] = "kill" /\ todo[l] = {}
    /\ sig' = [sig EXCEPT ![l] = "release"]
    /\ todo' = [todo EXCEPT ![l] = {r \in Run : Alloc!Held(r) /\ leases[r].pid = l}]
    /\ UNCHANGED <<at, workers, host, pc, cards, live>>

HandlerRelease(l, r) ==
    /\ at[l] = "pool" /\ sig[l] = "release" /\ r \in todo[l]
    /\ Release(r)
    /\ todo' = [todo EXCEPT ![l] = @ \ {r}]
    /\ UNCHANGED <<at, workers, sig, pc, cards, live>>

(* sys.exit: the executor's exit still waits for the workers.              *)
HandlerExit(l) ==
    /\ at[l] = "pool" /\ sig[l] = "release" /\ todo[l] = {}
    /\ sig' = [sig EXCEPT ![l] = "exit"]
    /\ UNCHANGED <<at, workers, todo, host, pc, cards, live>>

-----------------------------------------------------------------------------
(* The children and the host.                                              *)

ChildExit(r) ==
    /\ Alloc!ProcessExit(r)
    /\ UNCHANGED <<main, pc, cards, live>>

(* A child opens its cards when an experiment runs and closes them after.  *)
ChildUses(r, g) ==
    /\ g \in cards[r]
    /\ Alloc!OpenCard(r, g) \/ Alloc!CloseCard(r, g)
    /\ UNCHANGED <<main, pc, cards, live>>

HostMemory(g) ==
    /\ Alloc!MemoryChanges(g)
    /\ UNCHANGED <<main, pc, cards, live>>

-----------------------------------------------------------------------------
Init ==
    /\ leases = [r \in Run |-> Unleased]
    /\ alive = {}
    /\ procs = [g \in Gpu |-> {}]
    /\ hot = {}
    /\ at = [l \in Launcher |-> "off"]
    /\ workers = [l \in Launcher |-> 1]
    /\ sig = [l \in Launcher |-> "none"]
    /\ todo = [l \in Launcher |-> {}]
    /\ pc = [r \in Run |-> "queued"]
    /\ cards = [r \in Run |-> {}]
    /\ live = {}

Main(l) ==
    \/ Launch(l) \/ Reclaim(l) \/ LauncherExit(l)
    \/ \E smi \in Alloc!Smi : Preflight(l, smi)
    \/ HandlerWait(l) \/ HandlerList(l) \/ HandlerExit(l)
    \/ \E r \in Run : HandlerKill(l, r) \/ HandlerRelease(l, r)

Work(r) ==
    \/ Begin(r) \/ Check(r) \/ Expire(r)
    \/ \E n \in Asked(Owner[r]), smi \in Alloc!Smi : Acquire(r, n, smi) \/ AcquireFails(r, n, smi)
    \/ Popen(r) \/ PrepareFails(r) \/ Register(r) \/ WaitReturns(r) \/ Finally(r)

Next ==
    \/ \E l \in Launcher : Main(l) \/ Signal(l) \/ Kill(l)
    \/ \E r \in Run : Work(r) \/ ChildExit(r)
    \/ \E r \in Run, g \in Gpu : ChildUses(r, g)
    \/ \E g \in Gpu : HostMemory(g)

Spec == Init /\ [][Next]_vars

(* Threads run, the acquire deadline passes, and a child ends (it runs     *)
(* under the wall-clock budget of its own watchdog).                       *)
Fairness ==
    /\ \A l \in Launcher : WF_vars(Main(l))
    /\ \A r \in Run : WF_vars(Work(r)) /\ SF_vars(Expire(r)) /\ WF_vars(ChildExit(r))

FairSpec == Spec /\ Fairness

-----------------------------------------------------------------------------
(* "GPU leases are managed via LocalGpuAllocator so no two runs share a    *)
(* card": the children alive at one time were given disjoint cards.        *)
CardsNotShared ==
    \A r, s \in Run : r # s /\ r \in alive /\ s \in alive => cards[r] \cap cards[s] = {}

(* "the lease is ALWAYS released": a worker that is through leaves nothing *)
(* in the file, however it ended.  Its launcher lives on, so nothing would *)
(* ever reap what it left.  The state is well-formed throughout.           *)
NoStrandedLease == TypeOK /\ \A r \in Run : pc[r] = "done" => ~Alloc!Held(r)

(* The handler tears down live children and leases: when it is through, no *)
(* child of the launcher is left and no lease in its name.                 *)
SignalTearsDown ==
    \A l \in Launcher : sig[l] = "exit" =>
        /\ Own(l) \cap alive = {}
        /\ \A r \in Run : Alloc!Held(r) => leases[r].pid # l

(* Launchers, workers, handlers and children touch the lease file and the  *)
(* process table only in the ways GpuAllocator describes, so that what is  *)
(* shown of it holds here too.                                             *)
ImplementsAllocator == Alloc!Spec

(* A launcher ends, signalled or not, whatever the cards do.               *)
BatchEnds == \A l \in Launcher : at[l] = "pool" ~> at[l] = "over"
=============================================================================
