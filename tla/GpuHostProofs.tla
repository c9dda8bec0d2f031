--------------------------- MODULE GpuHostProofs ---------------------------
(***************************************************************************)
(* Proofs about the other users of the host's cards, for every set of      *)
(* cards, processes and leases: the local LLM server (LlmServer) and the   *)
(* reservations (GpuReservation), beside ordinary runs.                    *)
(***************************************************************************)
EXTENDS GpuReservation, LlmServer, GpuAllocatorProofs, FiniteSetTheorems, SequenceTheorems

(* One server script runs at a time, and it is a live process.             *)
OneScript ==
    /\ \A s, t \in Server : pc[s] # "off" /\ pc[t] # "off" => s = t
    /\ \A s \in Server : s \in alive <=> pc[s] # "off"

(* The server's lease is a script's; a script past its acquire has it.     *)
LeaseOfScript ==
    /\ Held(LlmLease) => leases[LlmLease].pid \in Server
    /\ \A s \in Server : pc[s] \in {"launch", "boot", "serve"} =>
          Held(LlmLease) /\ leases[LlmLease].gpus = got[s] /\ leases[LlmLease].pid = s

(* A script that found the port silent is alone: no vLLM but its own runs. *)
NoOtherVllm ==
    \A s \in Server :
        /\ pc[s] \in {"lease", "launch"} => \A t \in Server : ~Running(t)
        /\ pc[s] \in {"boot", "serve"} => \A t \in Server \ {s} : ~Running(t)

(* A vLLM without its script has the port, and one with the port is on its *)
(* cards.                                                                  *)
DetachedIsBound ==
    /\ \A s \in Server : Running(s) /\ pc[s] \in {"off", "probe", "final"} => s \in bound
    /\ \A s \in bound : Running(s) /\ \A g \in got[s] : VllmOf[s] \in procs[g]
    /\ \A s, t \in bound : s = t

(* A vLLM shows on its own cards only, and they are full.                  *)
LoadedIsHot ==
    \A s \in Server, g \in Gpu :
        VllmOf[s] \in procs[g] => Running(s) /\ g \in got[s] /\ g \in hot

(* Nothing that runs shares cards with a vLLM: the second part of          *)
(* VllmExclusive.                                                          *)
CardsApart ==
    \A s \in Server : Running(s) =>
        /\ \A l \in LeaseId \ {LlmLease} : Held(l) => leases[l].gpus \cap got[s] = {}
        /\ \A t \in Server \ {s} : Running(t) => got[t] \cap got[s] = {}

(* The inductive invariant of ServerSpec.                                  *)
ServerInv ==
    /\ ServerTypeOK /\ LeasesDisjoint /\ OneScript /\ LeaseOfScript
    /\ NoOtherVllm /\ DetachedIsBound /\ LoadedIsHot /\ CardsApart

-----------------------------------------------------------------------------
(* The processes of scripts, of their vLLMs and of runs are different.     *)
LEMMA ServerPids ==
    ASSUME NEW s \in Server
    PROVE  /\ VllmOf[s] \in Pid /\ VllmOf[s] \notin Server /\ VllmOf[s] \notin Runner
           /\ s \in Pid /\ s \notin Runner
           /\ \A t \in Server : VllmOf[t] = VllmOf[s] => t = s
  BY ServerAssumption

(* A set whose members are all equal has one at most.                      *)
LEMMA AtMostOne ==
    ASSUME NEW S, \A x, y \in S : x = y
    PROVE  Cardinality(S) <= 1
<1>1. CASE S = {}
  BY <1>1, FS_EmptySet
<1>2. CASE S # {}
  <2>1. PICK x \in S : S = {x}
    BY <1>2
  <2> QED
    BY <2>1, FS_Singleton
<1> QED
  BY <1>1, <1>2

(* A step of a script or of its vLLM.                                      *)
LEMMA ScriptStep ==
    ASSUME ServerInv, ~Overlap, ~HardKill, NEW s \in Server,
           \/ Start(s) \/ ProbeAnswered(s) \/ ProbeSilent(s)
           \/ LeaseExisting(s) \/ LaunchVllm(s) \/ Ready(s)
           \/ Cleanup(s) \/ VllmGone(s) \/ Finally(s) \/ ScriptKilled(s)
           \/ Load(s) \/ Bind(s) \/ Crash(s)
    PROVE  ServerInv'
<1> USE DEF ServerInv, ServerTypeOK, TypeOK, Running, Held, OneScript, LeaseOfScript, NoOtherVllm,
            DetachedIsBound, LoadedIsHot, CardsApart, LeasesDisjoint, vars
<1>1. CASE Start(s)
  <2>1. ServerTypeOK'
    BY <1>1, ServerPids, ServerAssumption DEF Start, ProcessStart, Go, Scripts
  <2>2. OneScript' /\ LeaseOfScript' /\ NoOtherVllm' /\ LeasesDisjoint'
    BY <1>1, ServerPids, ServerAssumption DEF Start, ProcessStart, Go
  <2>3. DetachedIsBound' /\ LoadedIsHot' /\ CardsApart'
    BY <1>1, ServerPids, ServerAssumption DEF Start, ProcessStart, Go
  <2> QED
    BY <2>1, <2>2, <2>3
<1>2. CASE ProbeAnswered(s)
  <2>1. ServerTypeOK'
    BY <1>2, ServerPids, ServerAssumption DEF ProbeAnswered, Go, Scripts
  <2>2. OneScript' /\ LeaseOfScript' /\ NoOtherVllm' /\ LeasesDisjoint'
    BY <1>2, ServerPids, ServerAssumption DEF ProbeAnswered, Go
  <2>3. DetachedIsBound' /\ LoadedIsHot' /\ CardsApart'
    BY <1>2, ServerPids, ServerAssumption DEF ProbeAnswered, Go
  <2> QED
    BY <2>1, <2>2, <2>3
<1>3. CASE ProbeSilent(s)
  <2>1. ServerTypeOK'
    BY <1>3, ServerPids, ServerAssumption DEF ProbeSilent, Go, Scripts
  <2>2. OneScript' /\ LeaseOfScript' /\ NoOtherVllm' /\ LeasesDisjoint'
    BY <1>3, ServerPids, ServerAssumption DEF ProbeSilent, Go
  <2>3. DetachedIsBound' /\ LoadedIsHot' /\ CardsApart'
    BY <1>3, ServerPids, ServerAssumption DEF ProbeSilent, Go
  <2> QED
    BY <2>1, <2>2, <2>3
<1>4. CASE LeaseExisting(s)
  <2>1. ServerTypeOK'
    <3>1. Reaped[LlmLease] \in Lease /\ leases' \in [LeaseId -> Lease \cup {Unleased}]
      BY <1>4, ServerAssumption, ReapedLeases DEF LeaseExisting
    <3>2. Reaped[LlmLease].gpus \in SUBSET Gpu
      BY <3>1 DEF Lease
    <3> QED
      BY <1>4, <3>1, <3>2 DEF LeaseExisting, Go, Scripts
  <2>2. OneScript' /\ LeaseOfScript' /\ NoOtherVllm' /\ LeasesDisjoint'
    BY <1>4, ServerPids, ServerAssumption DEF LeaseExisting, Go, Reaped
  <2>3. DetachedIsBound' /\ LoadedIsHot' /\ CardsApart'
    BY <1>4, ServerPids, ServerAssumption DEF LeaseExisting, Go, Reaped
  <2> QED
    BY <2>1, <2>2, <2>3
<1>5. CASE LaunchVllm(s)
  <2>1. ServerTypeOK'
    BY <1>5, ServerPids, ServerAssumption DEF LaunchVllm, Go, ProcessStart, Scripts
  <2>2. OneScript' /\ LeaseOfScript' /\ NoOtherVllm' /\ LeasesDisjoint'
    BY <1>5, ServerPids, ServerAssumption DEF LaunchVllm, Go, ProcessStart
  <2>3. DetachedIsBound' /\ LoadedIsHot' /\ CardsApart'
    BY <1>5, ServerPids, ServerAssumption DEF LaunchVllm, Go, ProcessStart
  <2> QED
    BY <2>1, <2>2, <2>3
<1>6. CASE Ready(s)
  <2>1. ServerTypeOK'
    BY <1>6, ServerPids, ServerAssumption DEF Ready, Go, Dropped, Scripts
  <2>2. OneScript' /\ LeaseOfScript' /\ NoOtherVllm' /\ LeasesDisjoint'
    BY <1>6, ServerPids, ServerAssumption DEF Ready, Go, Dropped
  <2>3. DetachedIsBound' /\ LoadedIsHot' /\ CardsApart'
    BY <1>6, ServerPids, ServerAssumption DEF Ready, Go, Dropped
  <2> QED
    BY <2>1, <2>2, <2>3
<1>7. CASE Cleanup(s)
  <2>1. ServerTypeOK'
    <3>1. Cardinality(bound') <= 1
      <4>1. \A x, y \in bound' : x = y
        BY <1>7 DEF Cleanup, Terminated
      <4> QED
        BY <4>1, AtMostOne
    <3>2. TypeOK'
      BY <1>7, ServerAssumption DEF Cleanup, Terminated, Dropped
    <3> QED
      BY <1>7, <3>1, <3>2 DEF Cleanup, Terminated, Scripts
  <2>2. OneScript' /\ LeaseOfScript' /\ NoOtherVllm' /\ LeasesDisjoint'
    BY <1>7, ServerPids, ServerAssumption DEF Cleanup, Terminated, Dropped
  <2>3. DetachedIsBound' /\ LoadedIsHot' /\ CardsApart'
    BY <1>7, ServerPids, ServerAssumption DEF Cleanup, Terminated, Dropped
  <2> QED
    BY <2>1, <2>2, <2>3
<1>8. CASE VllmGone(s)
  <2>1. ServerTypeOK'
    BY <1>8, ServerPids, ServerAssumption DEF VllmGone, Go, Scripts
  <2>2. OneScript' /\ LeaseOfScript' /\ NoOtherVllm' /\ LeasesDisjoint'
    BY <1>8, ServerPids, ServerAssumption DEF VllmGone, Go
  <2>3. DetachedIsBound' /\ LoadedIsHot' /\ CardsApart'
    BY <1>8, ServerPids, ServerAssumption DEF VllmGone, Go
  <2> QED
    BY <2>1, <2>2, <2>3
<1>9. CASE Finally(s)
  <2>1. ServerTypeOK'
    BY <1>9, ServerPids, ServerAssumption DEF Finally, Go, Dropped, Scripts
  <2>2. OneScript' /\ LeaseOfScript' /\ NoOtherVllm' /\ LeasesDisjoint'
    BY <1>9, ServerPids, ServerAssumption DEF Finally, Go, Dropped
  <2>3. DetachedIsBound' /\ LoadedIsHot' /\ CardsApart'
    BY <1>9, ServerPids, ServerAssumption DEF Finally, Go, Dropped
  <2> QED
    BY <2>1, <2>2, <2>3
<1>10. CASE ScriptKilled(s)
  <2>1. ServerTypeOK'
    BY <1>10, ServerPids, ServerAssumption DEF ScriptKilled, Scripts
  <2>2. OneScript' /\ LeaseOfScript' /\ NoOtherVllm' /\ LeasesDisjoint'
    BY <1>10, ServerPids, ServerAssumption DEF ScriptKilled
  <2>3. DetachedIsBound' /\ LoadedIsHot' /\ CardsApart'
    BY <1>10, ServerPids, ServerAssumption DEF ScriptKilled
  <2> QED
    BY <2>1, <2>2, <2>3
<1>11. CASE Load(s)
  <2>1. ServerTypeOK'
    BY <1>11, ServerPids, ServerAssumption DEF Load, Scripts
  <2>2. OneScript' /\ LeaseOfScript' /\ NoOtherVllm' /\ LeasesDisjoint'
    BY <1>11, ServerPids, ServerAssumption DEF Load
  <2>3. DetachedIsBound' /\ LoadedIsHot' /\ CardsApart'
    BY <1>11, ServerPids, ServerAssumption DEF Load
  <2> QED
    BY <2>1, <2>2, <2>3
<1>12. CASE Bind(s)
  <2>1. ServerTypeOK'
    <3>1. Cardinality(bound') <= 1
      <4>1. \A x, y \in bound' : x = y
        BY <1>12 DEF Bind, Terminated
      <4> QED
        BY <4>1, AtMostOne
    <3>2. TypeOK'
      BY <1>12, ServerAssumption DEF Bind, Terminated
    <3> QED
      BY <1>12, <3>1, <3>2 DEF Bind, Terminated, Scripts
  <2>2. OneScript' /\ LeaseOfScript' /\ NoOtherVllm' /\ LeasesDisjoint'
    BY <1>12, ServerPids, ServerAssumption DEF Bind, Terminated
  <2>3. DetachedIsBound' /\ LoadedIsHot' /\ CardsApart'
    BY <1>12, ServerPids, ServerAssumption DEF Bind, Terminated
  <2> QED
    BY <2>1, <2>2, <2>3
<1>13. CASE Crash(s)
  <2>1. ServerTypeOK'
    <3>1. Cardinality(bound') <= 1
      <4>1. \A x, y \in bound' : x = y
        BY <1>13 DEF Crash, Terminated
      <4> QED
        BY <4>1, AtMostOne
    <3>2. TypeOK'
      BY <1>13, ServerAssumption DEF Crash, Terminated
    <3> QED
      BY <1>13, <3>1, <3>2 DEF Crash, Terminated, Scripts
  <2>2. OneScript' /\ LeaseOfScript' /\ NoOtherVllm' /\ LeasesDisjoint'
    BY <1>13, ServerPids, ServerAssumption DEF Crash, Terminated
  <2>3. DetachedIsBound' /\ LoadedIsHot' /\ CardsApart'
    BY <1>13, ServerPids, ServerAssumption DEF Crash, Terminated
  <2> QED
    BY <2>1, <2>2, <2>3
<1> QED
  BY <1>1, <1>2, <1>3, <1>4, <1>5, <1>6, <1>7, <1>8, <1>9, <1>10, <1>11, <1>12, <1>13

(* The script asks for cards while no vLLM runs.                           *)
LEMMA LeaseAsked ==
    ASSUME ServerInv, NEW s \in Server, NEW n \in Count, NEW smi \in Smi,
           LeaseGranted(s, n, smi) \/ LeaseRefused(s, n, smi)
    PROVE  ServerInv'
<1> USE DEF ServerInv, ServerTypeOK, Running, Held, OneScript, LeaseOfScript, NoOtherVllm,
            DetachedIsBound, LoadedIsHot, CardsApart
<1>1. CASE LeaseGranted(s, n, smi)
  <2>1. TypeOK' /\ LeasesDisjoint'
    BY <1>1, GrantKeeps, ServerPids, ServerAssumption DEF LeaseGranted
  <2>2. leases'[LlmLease] = [pid |-> s, gpus |-> FirstByIndex(Candidates(smi, {}), n)]
    BY <1>1, ServerAssumption, ReapedLeases DEF LeaseGranted, Grant
  <2>3. /\ leases'[LlmLease] # Unleased /\ leases'[LlmLease].pid = s
        /\ leases'[LlmLease].gpus \in SUBSET Gpu
    <3> DEFINE new == FirstByIndex(Candidates(smi, {}), n)
    <3>1. new \in SUBSET Gpu /\ s \in Pid
      BY GrantTakesCandidates, ServerPids
    <3> HIDE DEF new
    <3>2. [pid |-> s, gpus |-> new] \in [pid : Pid, gpus : SUBSET Gpu]
      BY <3>1
    <3>3. leases'[LlmLease] = [pid |-> s, gpus |-> new]
      BY <2>2 DEF new
    <3> QED
      BY <3>1, <3>2, <3>3, UnleasedAssumption
  <2>4. ServerTypeOK'
    BY <1>1, <2>1, <2>3 DEF LeaseGranted, Go, Scripts
  <2>5. OneScript' /\ LeaseOfScript' /\ NoOtherVllm'
    BY <1>1, <2>3, ServerPids DEF LeaseGranted, Grant, Go
  <2>6. DetachedIsBound' /\ LoadedIsHot' /\ CardsApart'
    BY <1>1, ServerPids DEF LeaseGranted, Grant, Go
  <2> QED
    BY <2>1, <2>4, <2>5, <2>6
<1>2. CASE LeaseRefused(s, n, smi)
  <2>1. leases' \in [LeaseId -> Lease \cup {Unleased}] /\ LeasesDisjoint'
    BY <1>2, RemovalKeeps DEF LeaseRefused
  <2>2. ServerTypeOK'
    BY <1>2, <2>1 DEF LeaseRefused, Scripts, TypeOK
  <2>3. OneScript' /\ LeaseOfScript' /\ NoOtherVllm'
    BY <1>2, ServerPids, ServerAssumption DEF LeaseRefused
  <2>4. DetachedIsBound' /\ LoadedIsHot' /\ CardsApart'
    BY <1>2, ServerPids DEF LeaseRefused
  <2> QED
    BY <2>1, <2>2, <2>3, <2>4
<1> QED
  BY <1>1, <1>2

(* The cards of a vLLM are no candidates: they are leased to its script,   *)
(* or nvidia-smi shows them taken, by the process query or by the memory.  *)
LEMMA VllmCardsTaken ==
    ASSUME ServerInv, NEW s \in Server, Running(s), NEW smi \in Smi
    PROVE  Candidates(smi, {}) \cap got[s] = {}
<1>1. CASE s \in bound
  <2>1. \A g \in got[s] : g \in Gpu /\ VllmOf[s] \in procs[g] /\ g \in hot
    BY <1>1 DEF ServerInv, ServerTypeOK, DetachedIsBound, LoadedIsHot
  <2> QED
    BY <2>1 DEF Candidates, FreeDevices, ProcPids, Devices, Smi
<1>2. CASE s \notin bound
  <2>1. pc[s] \in {"boot", "serve"}
    BY <1>2 DEF ServerInv, ServerTypeOK, Scripts, DetachedIsBound, NoOtherVllm
  <2>2. /\ Held(LlmLease) /\ leases[LlmLease].gpus = got[s] /\ leases[LlmLease].pid = s /\ s \in alive
    BY <2>1 DEF ServerInv, OneScript, LeaseOfScript
  <2>3. Reaped[LlmLease] # Unleased /\ Reaped[LlmLease].gpus = got[s]
    BY <2>2, ServerAssumption DEF Reaped, Held
  <2>4. got[s] \subseteq LeasedIn(Reaped)
    BY <2>3, ServerAssumption DEF LeasedIn
  <2> QED
    BY <2>4 DEF Candidates
<1> QED
  BY <1>1, <1>2

(* A step of a run.                                                        *)
LEMMA RunKeeps ==
    ASSUME ServerInv, RunStep
    PROVE  ServerInv'
<1>0. UNCHANGED <<pc, got, bound>>
  BY DEF RunStep
<1>1. ASSUME NEW p \in Runner, NEW l \in LeaseId \ {LlmLease}, NEW n \in Count, NEW smi \in Smi,
             Grant(l, p, n, smi, {})
      PROVE  ServerInv'
  <2> DEFINE new == FirstByIndex(Candidates(smi, {}), n)
  <2>1. TypeOK' /\ LeasesDisjoint'
    BY <1>1, GrantKeeps, ServerAssumption DEF ServerInv, ServerTypeOK
  <2>2. UNCHANGED <<alive, procs, hot>> /\ ServerTypeOK'
    BY <1>0, <1>1, <2>1 DEF Grant, ServerInv, ServerTypeOK
  <2>3. /\ leases'[l] = [pid |-> p, gpus |-> new]
        /\ \A k \in LeaseId \ {l} : leases'[k] = Reaped[k]
    BY <1>1, ReapedLeases DEF Grant, ServerInv, ServerTypeOK
  <2>4. leases'[l].gpus = new /\ new \subseteq Candidates(smi, {})
    BY <2>3 DEF FirstByIndex
  <2> HIDE DEF new
  <2>5. ASSUME NEW s \in Server, Running(s), NEW k \in LeaseId \ {LlmLease}, leases'[k] # Unleased
        PROVE  leases'[k].gpus \cap got[s] = {}
    <3>1. CASE k = l
      BY <2>4, <2>5, <3>1, VllmCardsTaken
    <3>2. CASE k # l
      BY <2>3, <2>5, <3>2, ReapedLeases DEF ServerInv, ServerTypeOK, CardsApart
    <3> QED
      BY <3>1, <3>2
  <2>6. CardsApart'
    BY <1>0, <2>2, <2>5 DEF ServerInv, CardsApart, Running, Held
  <2>7. LeaseOfScript'
    <3>1. leases'[LlmLease] = Reaped[LlmLease]
      BY <2>3, ServerAssumption
    <3> QED
      BY <1>0, <3>1, ServerAssumption DEF ServerInv, LeaseOfScript, OneScript, Held, Reaped
  <2>8. OneScript' /\ NoOtherVllm' /\ DetachedIsBound' /\ LoadedIsHot'
    BY <1>0, <2>2 DEF ServerInv, OneScript, NoOtherVllm, DetachedIsBound, LoadedIsHot, Running
  <2> QED
    BY <2>1, <2>2, <2>6, <2>7, <2>8 DEF ServerInv
<1>2. ASSUME NEW l \in LeaseId \ {LlmLease}, Release(l) PROVE ServerInv'
  <2>1. LeasesDisjoint' /\ leases' \in [LeaseId -> Lease \cup {Unleased}]
    BY <1>2, RemovalKeeps DEF Release, ServerInv, ServerTypeOK
  <2>2. UNCHANGED <<alive, procs, hot>> /\ ServerTypeOK'
    BY <1>0, <1>2, <2>1 DEF Release, ServerInv, ServerTypeOK, TypeOK
  <2>3. leases'[LlmLease] = leases[LlmLease]
    BY <1>2, ServerAssumption DEF Release, ServerInv, ServerTypeOK, TypeOK
  <2>4. \A k \in LeaseId : leases'[k] # Unleased => leases[k] # Unleased /\ leases'[k] = leases[k]
    BY <1>2 DEF Release, ServerInv, ServerTypeOK, TypeOK
  <2>5. LeaseOfScript' /\ CardsApart'
    BY <1>0, <2>2, <2>3, <2>4 DEF ServerInv, LeaseOfScript, CardsApart, Running, Held
  <2>6. OneScript' /\ NoOtherVllm' /\ DetachedIsBound' /\ LoadedIsHot'
    BY <1>0, <2>2 DEF ServerInv, OneScript, NoOtherVllm, DetachedIsBound, LoadedIsHot, Running
  <2> QED
    BY <2>1, <2>2, <2>5, <2>6 DEF ServerInv
<1>3. ASSUME NEW p \in Runner, NEW g \in Gpu, OpenCard(p, g) \/ CloseCard(p, g) PROVE ServerInv'
  <2>1. /\ UNCHANGED <<leases, alive, hot>> /\ procs' \in [Gpu -> SUBSET Pid]
        /\ \A s \in Server, c \in Gpu : VllmOf[s] \in procs'[c] <=> VllmOf[s] \in procs[c]
    BY <1>3, ServerPids, ServerAssumption DEF OpenCard, CloseCard, ServerInv, ServerTypeOK, TypeOK
  <2>2. ServerTypeOK' /\ LeasesDisjoint' /\ OneScript' /\ LeaseOfScript' /\ NoOtherVllm' /\ CardsApart'
    BY <1>0, <2>1 DEF ServerInv, ServerTypeOK, TypeOK, LeasesDisjoint, OneScript, LeaseOfScript,
       NoOtherVllm, CardsApart, Running, Held
  <2>3. DetachedIsBound' /\ LoadedIsHot'
    BY <1>0, <2>1 DEF ServerInv, ServerTypeOK, DetachedIsBound, LoadedIsHot, Running
  <2> QED
    BY <2>2, <2>3 DEF ServerInv
<1> QED
  BY <1>1, <1>2, <1>3 DEF RunStep

(* While a vLLM runs, starting or detached from its script, none of its    *)
(* cards is leased to a run or under another vLLM, and a script that has   *)
(* its lease finds it in the file: for any number of scripts, runs, cards  *)
(* and leases and whatever nvidia-smi answers, provided scripts are        *)
(* started one after the other and not killed while vLLM is starting.      *)
THEOREM VllmHasItsCards ==
    ASSUME ~Overlap, ~HardKill
    PROVE  ServerSpec => []VllmExclusive
<1>1. ServerInit => ServerInv
  <2> SUFFICES ASSUME ServerInit PROVE ServerInv
    OBVIOUS
  <2>1. TypeOK /\ LeasesDisjoint
    BY DEF ServerInit, Init, TypeOK, LeasesDisjoint, Held
  <2>2. Cardinality(bound) <= 1
    BY AtMostOne DEF ServerInit
  <2>3. \A s \in Server : ~Running(s) /\ s \notin alive
    BY ServerPids DEF ServerInit, Running
  <2>4. ServerTypeOK
    BY <2>1, <2>2 DEF ServerInit, ServerTypeOK, Scripts
  <2>5. OneScript /\ LeaseOfScript /\ NoOtherVllm /\ DetachedIsBound /\ LoadedIsHot /\ CardsApart
    BY <2>3, ServerAssumption DEF ServerInit, Init, OneScript, LeaseOfScript, NoOtherVllm, DetachedIsBound,
       LoadedIsHot, CardsApart, Held
  <2> QED
    BY <2>1, <2>4, <2>5 DEF ServerInv
<1>2. ServerInv /\ [ServerNext]_svars => ServerInv'
  <2> SUFFICES ASSUME ServerInv, [ServerNext]_svars PROVE ServerInv'
    OBVIOUS
  <2>1. CASE UNCHANGED svars
    BY <2>1 DEF svars, vars, ServerInv, ServerTypeOK, TypeOK, LeasesDisjoint, OneScript, LeaseOfScript,
       NoOtherVllm, DetachedIsBound, LoadedIsHot, CardsApart, Running, Held
  <2> QED
    BY <2>1, ScriptStep, LeaseAsked, RunKeeps DEF ServerNext
<1>3. ServerInv => VllmExclusive
  BY DEF ServerInv, VllmExclusive, LeaseOfScript, CardsApart
<1> QED
  BY <1>1, <1>2, <1>3, PTL DEF ServerSpec

-----------------------------------------------------------------------------
(* Reservations.  What a reserve has in its hands: the holder it waits     *)
(* for is of the first card of its list, which has different cards, none   *)
(* of them entered yet; its copy of the registry lacks no holder of the    *)
(* file but dead ones and those on their way out, and has new ones only    *)
(* when it will be saved.                                                  *)
InHand ==
    /\ ~reserver.busy => reserver = NoReserve
    /\ reserver.new # NoHold => reserver.busy /\ reserver.todo # <<>>
    /\ reserver.busy =>
          /\ Pids(registry) \cap alive \subseteq Pids(reserver.file) \cup doomed
          /\ ~reserver.made => Pids(reserver.file) \subseteq Pids(registry)
          /\ \A i, j \in 1 .. Len(reserver.todo) : reserver.todo[i] = reserver.todo[j] => i = j
          /\ \A i \in 1 .. Len(reserver.todo) : reserver.file[reserver.todo[i]] = NoHold

(* Processes on cards are alive, and a holder has its card.                *)
OnCardsAlive ==
    /\ \A g \in Gpu : procs[g] \subseteq alive
    /\ \A h \in Holder \cap alive : aim[h] \in Gpu

(* The inductive invariant of ReservationSpec.                             *)
HoldInv == NoUnownedHolder /\ InHand /\ OnCardsAlive

(* Sequences of a bounded length.                                          *)
LEMMA BoundedSequences ==
    ASSUME NEW S, NEW n \in Nat, NEW q
    PROVE  q \in BoundedSeq(S, n) <=> q \in Seq(S) /\ Len(q) <= n
<1>1. ASSUME q \in BoundedSeq(S, n) PROVE q \in Seq(S) /\ Len(q) <= n
  <2>1. PICK m \in 0 .. n : q \in [1 .. m -> S]
    BY <1>1 DEF BoundedSeq, SeqOf
  <2> QED
    BY <2>1
<1>2. ASSUME q \in Seq(S), Len(q) <= n PROVE q \in BoundedSeq(S, n)
  <2>1. Len(q) \in 0 .. n /\ q \in [1 .. Len(q) -> S]
    BY <1>2
  <2> QED
    BY <2>1 DEF BoundedSeq, SeqOf
<1> QED
  BY <1>1, <1>2

(* The bound on what one reserve does.                                     *)
LEMMA AskBound ==
    Cardinality(Gpu) \in Nat /\ Cardinality(Gpu) + MaxAsk \in Nat /\ MaxAsk \in Nat
  BY GpuAssumption, HolderAssumption, FS_CardinalityType

(* What _select_targets can choose: different free cards, unless a caller  *)
(* names one twice.                                                        *)
LEMMA SelectionFacts ==
    ASSUME ~Repeats, NEW free \in SUBSET Gpu, NEW q \in Selections(free)
    PROVE  /\ q \in Seq(free) /\ Len(q) <= Cardinality(Gpu) + MaxAsk
           /\ \A i, j \in 1 .. Len(q) : q[i] = q[j] => i = j
<1> DEFINE Rising(S) == {f \in [1 .. Cardinality(S) -> S] :
                           \A i, j \in 1 .. Cardinality(S) : i < j => f[i] < f[j]}
<1>1. ASSUME NEW S \in SUBSET free, q \in Rising(S)
      PROVE  /\ q \in Seq(free) /\ Len(q) <= Cardinality(Gpu) + MaxAsk
             /\ \A i, j \in 1 .. Len(q) : q[i] = q[j] => i = j
  <2>1. Cardinality(S) <= Cardinality(Gpu) /\ Cardinality(S) \in Nat
    BY GpuAssumption, FS_Subset, FS_CardinalityType
  <2>2. PICK m \in Nat : m = Cardinality(S)
    BY <2>1
  <2>3. /\ q \in [1 .. m -> S] /\ \A i, j \in 1 .. m : i < j => q[i] < q[j]
    BY <1>1, <2>2
  <2>4. q \in Seq(free) /\ Len(q) = m
    BY <2>3
  <2>5. \A i, j \in 1 .. m : q[i] = q[j] => i = j
    <3>1. \A i \in 1 .. m : q[i] \in Nat
      BY <2>3, GpuAssumption
    <3> QED
      BY <2>3, <3>1
  <2>6. m <= Cardinality(Gpu) + MaxAsk
    BY <2>1, <2>2, AskBound
  <2> QED
    BY <2>4, <2>5, <2>6
<1>2. CASE q \in UNION {Rising(FirstByIndex(free, n)) : n \in Count}
  <2>1. PICK n \in Count : q \in Rising(FirstByIndex(free, n))
    BY <1>2
  <2>2. FirstByIndex(free, n) \in SUBSET free
    BY DEF FirstByIndex
  <2> QED
    BY <1>1, <2>1, <2>2
<1>3. CASE q \in Rising(free)
  BY <1>1, <1>3
<1>4. CASE q \in BoundedSeq(free, MaxAsk) /\ (Repeats \/ IsInjective(q))
  <2>1. q \in Seq(free) /\ Len(q) <= MaxAsk
    BY <1>4, AskBound, BoundedSequences
  <2>2. Len(q) <= Cardinality(Gpu) + MaxAsk
    <3>1. Len(q) \in Nat
      BY <2>1
    <3> QED
      BY <2>1, <3>1, AskBound
  <2>3. DOMAIN q = 1 .. Len(q)
    BY <2>1
  <2> QED
    BY <1>4, <2>1, <2>2, <2>3 DEF IsInjective
<1> QED
  BY <1>2, <1>3, <1>4 DEF Selections

(* Pids in a registry, and what reaping leaves of them.                    *)
LEMMA PidsFacts ==
    ASSUME NEW file \in [Gpu -> Holder \cup {NoHold}]
    PROVE  /\ Pids(file) \subseteq Holder
           /\ ReapedHolds(file) \in [Gpu -> Holder \cup {NoHold}]
           /\ Pids(ReapedHolds(file)) = (Pids(file) \cap alive) \ expired
<1>1. NoHold \notin Holder
  BY HolderAssumption
<1>2. Pids(file) \subseteq Holder
  BY DEF Pids
<1>3. ReapedHolds(file) \in [Gpu -> Holder \cup {NoHold}]
  BY DEF ReapedHolds
<1>4. ASSUME NEW x \in Pids(ReapedHolds(file)) PROVE x \in (Pids(file) \cap alive) \ expired
  <2>1. PICK g \in Gpu : x = ReapedHolds(file)[g] /\ x # NoHold
    BY <1>4 DEF Pids
  <2>2. x = file[g] /\ x \in alive \ expired
    BY <2>1 DEF ReapedHolds
  <2> QED
    BY <2>1, <2>2 DEF Pids
<1>5. ASSUME NEW x \in (Pids(file) \cap alive) \ expired PROVE x \in Pids(ReapedHolds(file))
  <2>1. PICK g \in Gpu : x = file[g] /\ x # NoHold
    BY <1>5 DEF Pids
  <2>2. ReapedHolds(file)[g] = x
    BY <1>5, <2>1 DEF ReapedHolds
  <2> QED
    BY <2>1, <2>2 DEF Pids
<1> QED
  BY <1>2, <1>3, <1>4, <1>5

(* Some fields of a busy reserver.                                         *)
LEMMA ReserverFacts ==
    ASSUME ReservationTypeOK
    PROVE  /\ reserver.busy \in BOOLEAN /\ reserver.file \in [Gpu -> Holder \cup {NoHold}]
           /\ reserver.todo \in Seq(Gpu) /\ Len(reserver.todo) <= Cardinality(Gpu) + MaxAsk
           /\ reserver.new \in Holder \cup {NoHold} /\ reserver.made \in BOOLEAN
<1>1. /\ reserver.busy \in BOOLEAN /\ reserver.file \in [Gpu -> Holder \cup {NoHold}]
      /\ reserver.todo \in BoundedSeq(Gpu, Cardinality(Gpu) + MaxAsk)
      /\ reserver.new \in Holder \cup {NoHold} /\ reserver.made \in BOOLEAN
  BY DEF ReservationTypeOK
<1> QED
  BY <1>1, AskBound, BoundedSequences

(* No reserve: nothing is in hand.                                         *)
LEMMA NoReserveFacts ==
    /\ NoReserve \in [busy : BOOLEAN, file : [Gpu -> Holder \cup {NoHold}],
                      todo : BoundedSeq(Gpu, Cardinality(Gpu) + MaxAsk),
                      new : Holder \cup {NoHold}, made : BOOLEAN]
    /\ NoReserve.busy = FALSE /\ NoReserve.new = NoHold
<1>1. <<>> \in BoundedSeq(Gpu, Cardinality(Gpu) + MaxAsk)
  <2>1. <<>> \in Seq(Gpu) /\ Len(<<>>) = 0
    OBVIOUS
  <2>2. 0 <= Cardinality(Gpu) + MaxAsk
    BY AskBound
  <2> QED
    BY <2>1, <2>2, AskBound, BoundedSequences
<1> QED
  BY <1>1 DEF NoReserve

(* list_reservations and release write the registry while nobody reserves: *)
(* a holder that leaves it has been signalled, or is dead.                 *)
LEMMA RegistryWritten ==
    ASSUME HoldInv, ~reserver.busy, registry' \in [Gpu -> Holder \cup {NoHold}],
           doomed' \in SUBSET Holder, doomed \subseteq doomed', own' \in SUBSET Holder,
           \A h \in Pids(registry) \cap alive : h \in Pids(registry') \cup doomed',
           UNCHANGED <<vars, reserver, aim, expired, lost>>
    PROVE  HoldInv'
<1>1. ReservationTypeOK'
  BY DEF HoldInv, NoUnownedHolder, ReservationTypeOK, TypeOK, vars
<1>2. \A h \in Holder \cap alive : h \in Pids(registry) \cup doomed \cup lost
  BY DEF HoldInv, NoUnownedHolder
<1>3. \A h \in Holder \cap alive' : h \in Pids(registry') \cup doomed' \cup lost'
  BY <1>2 DEF vars
<1>4. InHand'
  <2>1. reserver = NoReserve /\ reserver.new = NoHold
    BY NoReserveFacts DEF HoldInv, InHand
  <2> QED
    BY <2>1 DEF InHand, NoReserve
<1>5. OnCardsAlive'
  BY DEF HoldInv, OnCardsAlive, vars
<1> QED
  BY <1>1, <1>3, <1>4, <1>5 DEF HoldInv, NoUnownedHolder

(* The operations on the registry.                                         *)
LEMMA RegistryStep ==
    ASSUME HoldInv, \/ ListReservations
                    \/ \E S \in SUBSET Gpu : S \subseteq Reserved(registry) /\ ReleaseHolds(S)
    PROVE  HoldInv'
<1>0. /\ registry \in [Gpu -> Holder \cup {NoHold}] /\ doomed \subseteq Holder /\ own \subseteq Holder
      /\ NoHold \notin Holder
  BY HolderAssumption DEF HoldInv, NoUnownedHolder, ReservationTypeOK
<1>1. CASE ListReservations
  <2>1. registry' \in [Gpu -> Holder \cup {NoHold}] /\ Pids(registry') = (Pids(registry) \cap alive) \ expired
    BY <1>0, <1>1, PidsFacts DEF ListReservations
  <2>2. own' \subseteq Holder /\ Pids(registry) \subseteq Holder
    BY <1>0, <1>1, <2>1, PidsFacts DEF ListReservations
  <2>3. doomed' = doomed \cup (Pids(registry) \cap alive \cap expired)
    BY <1>1 DEF ListReservations, Overdue
  <2> QED
    BY <1>0, <1>1, <2>1, <2>2, <2>3, RegistryWritten DEF ListReservations
<1>2. ASSUME NEW S \in SUBSET Gpu, S \subseteq Reserved(registry), ReleaseHolds(S) PROVE HoldInv'
  <2>1. /\ registry' = [g \in Gpu |-> IF g \in S THEN NoHold ELSE registry[g]]
        /\ doomed' = doomed \cup ({registry[g] : g \in S} \cap alive)
        /\ ~reserver.busy /\ UNCHANGED <<vars, reserver, aim, expired, own, lost>>
    BY <1>2 DEF ReleaseHolds
  <2>2. registry' \in [Gpu -> Holder \cup {NoHold}]
    BY <1>0, <2>1
  <2>3. doomed' \in SUBSET Holder
    BY <1>0, <1>2, <2>1 DEF Reserved
  <2>4. ASSUME NEW h \in Pids(registry) \cap alive PROVE h \in Pids(registry') \cup doomed'
    <3>1. PICK g \in Gpu : h = registry[g] /\ h # NoHold
      BY <2>4 DEF Pids
    <3>2. CASE g \in S
      BY <2>1, <2>4, <3>1, <3>2
    <3>3. CASE g \notin S
      <4>1. registry'[g] = h
        BY <2>1, <3>1, <3>3
      <4> QED
        BY <3>1, <4>1 DEF Pids
    <3> QED
      BY <3>2, <3>3
  <2> QED
    BY <1>0, <2>1, <2>2, <2>3, <2>4, RegistryWritten
<1> QED
  BY <1>1, <1>2

(* What the reserver can be.                                               *)
Reserving == [busy : BOOLEAN, file : [Gpu -> Holder \cup {NoHold}],
              todo : BoundedSeq(Gpu, Cardinality(Gpu) + MaxAsk),
              new : Holder \cup {NoHold}, made : BOOLEAN]

(* A reserve begins, under the lock.                                       *)
LEMMA ReserveBegins ==
    ASSUME HoldInv, ~Repeats, NEW smi \in Smi, ReserveBegin(smi)
    PROVE  HoldInv'
<1>0. /\ ReservationTypeOK /\ registry \in [Gpu -> Holder \cup {NoHold}] /\ doomed \subseteq Holder
      /\ Pids(registry) \subseteq Holder /\ NoHold \notin Holder
  BY HolderAssumption, PidsFacts DEF HoldInv, NoUnownedHolder, ReservationTypeOK
<1> DEFINE file == ReapedHolds(registry)
           free == Reservable(file, smi)
<1>1. file \in [Gpu -> Holder \cup {NoHold}] /\ Pids(file) = (Pids(registry) \cap alive) \ expired
  BY <1>0, PidsFacts
<1>2. free \in SUBSET Gpu /\ \A g \in free : file[g] = NoHold
  BY DEF Reservable, FreeDevices, Devices, Reserved
<1>3. PICK todo \in Selections(free) :
        reserver' = IF todo = <<>> THEN NoReserve
                    ELSE [busy |-> TRUE, file |-> file, todo |-> todo, new |-> NoHold, made |-> FALSE]
  BY DEF ReserveBegin
<1>4. /\ doomed' = doomed \cup (Pids(registry) \cap alive \cap expired) /\ ~reserver.busy
      /\ UNCHANGED <<vars, registry, aim, expired, own, lost>>
  BY DEF ReserveBegin, Overdue
<1> HIDE DEF file, free
<1>5. /\ todo \in Seq(free) /\ Len(todo) <= Cardinality(Gpu) + MaxAsk
      /\ \A i, j \in 1 .. Len(todo) : todo[i] = todo[j] => i = j
  BY <1>2, SelectionFacts
<1>6. todo \in BoundedSeq(Gpu, Cardinality(Gpu) + MaxAsk)
  <2>1. todo \in Seq(Gpu)
    BY <1>2, <1>5
  <2> QED
    BY <1>5, <2>1, AskBound, BoundedSequences
<1>7. reserver' \in Reserving
  <2>1. CASE todo = <<>>
    BY <1>3, <2>1, NoReserveFacts DEF Reserving
  <2>2. CASE todo # <<>>
    BY <1>1, <1>3, <1>6, <2>2 DEF Reserving
  <2> QED
    BY <2>1, <2>2
<1>8. ReservationTypeOK'
  BY <1>0, <1>4, <1>7 DEF ReservationTypeOK, TypeOK, vars, Reserving
<1>9. \A h \in Holder \cap alive' : h \in Pids(registry') \cup doomed' \cup lost'
  BY <1>4 DEF HoldInv, NoUnownedHolder, vars
<1>10. InHand'
  <2>1. CASE todo = <<>>
    BY <1>3, <2>1, NoReserveFacts DEF InHand
  <2>2. CASE todo # <<>>
    <3>1. /\ reserver'.busy = TRUE /\ reserver'.file = file /\ reserver'.todo = todo
          /\ reserver'.new = NoHold /\ reserver'.made = FALSE
      BY <1>3, <2>2
    <3>2. \A i \in 1 .. Len(todo) : file[todo[i]] = NoHold
      BY <1>2, <1>5
    <3>3. Pids(registry) \cap alive \subseteq Pids(file) \cup doomed'
      BY <1>1, <1>4
    <3>4. Pids(file) \subseteq Pids(registry)
      BY <1>1
    <3>5. registry' = registry /\ alive' = alive
      BY <1>4 DEF vars
    <3> QED
      BY <1>5, <3>1, <3>2, <3>3, <3>4, <3>5 DEF InHand
  <2> QED
    BY <2>1, <2>2
<1>11. OnCardsAlive'
  BY <1>4 DEF HoldInv, OnCardsAlive, vars
<1> QED
  BY <1>8, <1>9, <1>10, <1>11 DEF HoldInv, NoUnownedHolder

(* The first card of a reserve's list, and the cards after it.             *)
LEMMA NextCard ==
    ASSUME HoldInv, reserver.busy, reserver.todo # <<>>
    PROVE  LET todo == reserver.todo
           IN  /\ Head(todo) \in Gpu /\ Tail(todo) \in BoundedSeq(Gpu, Cardinality(Gpu) + MaxAsk)
               /\ reserver.file[Head(todo)] = NoHold
               /\ \A i, j \in 1 .. Len(Tail(todo)) : Tail(todo)[i] = Tail(todo)[j] => i = j
               /\ \A i \in 1 .. Len(Tail(todo)) :
                     Tail(todo)[i] # Head(todo) /\ reserver.file[Tail(todo)[i]] = NoHold
<1> DEFINE todo == reserver.todo
<1>1. /\ todo \in Seq(Gpu) /\ Len(todo) <= Cardinality(Gpu) + MaxAsk /\ todo # <<>>
  BY ReserverFacts DEF HoldInv, NoUnownedHolder
<1>2. /\ \A i, j \in 1 .. Len(todo) : todo[i] = todo[j] => i = j
      /\ \A i \in 1 .. Len(todo) : reserver.file[todo[i]] = NoHold
  BY DEF HoldInv, InHand
<1> HIDE DEF todo
<1>3. /\ Head(todo) \in Gpu /\ Tail(todo) \in Seq(Gpu) /\ Len(Tail(todo)) = Len(todo) - 1
      /\ \A i \in 1 .. Len(Tail(todo)) : Tail(todo)[i] = todo[i + 1]
      /\ Head(todo) = todo[1] /\ Len(todo) \in Nat /\ Len(todo) > 0
  BY <1>1, HeadTailProperties
<1>4. Tail(todo) \in BoundedSeq(Gpu, Cardinality(Gpu) + MaxAsk)
  <2>1. Len(Tail(todo)) <= Cardinality(Gpu) + MaxAsk
    BY <1>1, <1>3, AskBound
  <2> QED
    BY <1>3, <2>1, AskBound, BoundedSequences
<1>5. \A i, j \in 1 .. Len(Tail(todo)) : Tail(todo)[i] = Tail(todo)[j] => i = j
  BY <1>2, <1>3
<1>6. 1 \in 1 .. Len(todo) /\ \A i \in 1 .. Len(Tail(todo)) : i + 1 \in 1 .. Len(todo) /\ i + 1 # 1
  BY <1>3
<1>7. \A i \in 1 .. Len(Tail(todo)) : Tail(todo)[i] # Head(todo) /\ reserver.file[Tail(todo)[i]] = NoHold
  BY <1>2, <1>3, <1>6
<1> QED
  BY <1>2, <1>3, <1>4, <1>5, <1>6, <1>7 DEF todo

(* A holder is started for it, or cannot be.                               *)
LEMMA SpawnKeeps ==
    ASSUME HoldInv, SpawnFails \/ \E h \in Holder : Spawn(h)
    PROVE  HoldInv'
<1>0. /\ ReservationTypeOK /\ reserver \in Reserving /\ reserver.busy /\ reserver.todo # <<>>
      /\ reserver.new = NoHold
  BY DEF HoldInv, NoUnownedHolder, ReservationTypeOK, Reserving, SpawnFails, Spawn
<1> DEFINE todo == reserver.todo
<1>1. /\ Head(todo) \in Gpu /\ Tail(todo) \in BoundedSeq(Gpu, Cardinality(Gpu) + MaxAsk)
      /\ \A i, j \in 1 .. Len(Tail(todo)) : Tail(todo)[i] = Tail(todo)[j] => i = j
      /\ \A i \in 1 .. Len(Tail(todo)) : reserver.file[Tail(todo)[i]] = NoHold
  BY <1>0, NextCard
<1>2. CASE SpawnFails
  <2>1. reserver' = [reserver EXCEPT !.todo = Tail(todo)] /\ UNCHANGED <<vars, registry, aim, expired, doomed, own, lost>>
    BY <1>2 DEF SpawnFails
  <2> HIDE DEF todo
  <2>2. /\ reserver' \in Reserving /\ reserver'.busy = reserver.busy /\ reserver'.new = reserver.new
        /\ reserver'.file = reserver.file /\ reserver'.made = reserver.made /\ reserver'.todo = Tail(todo)
    BY <1>0, <1>1, <2>1 DEF Reserving
  <2>3. ReservationTypeOK'
    BY <1>0, <2>1, <2>2 DEF ReservationTypeOK, TypeOK, vars, Reserving
  <2>4. InHand'
    BY <1>0, <1>1, <2>1, <2>2 DEF HoldInv, InHand, vars
  <2> QED
    BY <2>1, <2>2, <2>3, <2>4 DEF HoldInv, NoUnownedHolder, OnCardsAlive, vars
<1>3. ASSUME NEW h \in Holder, Spawn(h) PROVE HoldInv'
  <2>1. /\ h \notin alive \cup Pids(registry) /\ alive' = alive \cup {h}
        /\ aim' = [aim EXCEPT ![h] = Head(todo)] /\ reserver' = [reserver EXCEPT !.new = h]
        /\ UNCHANGED <<leases, procs, hot, registry, expired, doomed, own, lost>>
    BY <1>3 DEF Spawn
  <2>2. /\ reserver' \in Reserving /\ reserver'.busy = reserver.busy /\ reserver'.new = h
        /\ reserver'.file = reserver.file /\ reserver'.made = reserver.made /\ reserver'.todo = todo
    BY <1>0, <2>1 DEF Reserving
  <2> HIDE DEF todo
  <2>3. ReservationTypeOK'
    BY <1>0, <1>1, <2>1, <2>2, HolderAssumption DEF ReservationTypeOK, TypeOK, Reserving
  <2>4. ASSUME NEW x \in Holder \cap alive'
        PROVE  \/ x \in Pids(registry') \cup doomed' \cup lost'
               \/ reserver'.busy /\ x \in Pids(reserver'.file) \cup {reserver'.new}
    <3>1. CASE x = h
      BY <1>0, <2>2, <3>1
    <3>2. CASE x \in alive
      <4>1. x # NoHold
        BY HolderAssumption
      <4> QED
        BY <1>0, <2>1, <2>2, <3>2, <4>1 DEF HoldInv, NoUnownedHolder
    <3> QED
      BY <2>1, <3>1, <3>2
  <2>5. InHand'
    <3>1. Pids(registry) \cap alive' = Pids(registry) \cap alive
      BY <2>1
    <3> QED
      BY <1>0, <2>1, <2>2, <3>1 DEF HoldInv, InHand, todo
  <2>6. OnCardsAlive'
    BY <1>0, <1>1, <2>1 DEF HoldInv, OnCardsAlive, ReservationTypeOK
  <2> QED
    BY <2>3, <2>4, <2>5, <2>6 DEF HoldInv, NoUnownedHolder
<1> QED
  BY <1>2, <1>3

(* A holder that runs is entered; its card has no other.                   *)
LEMMA ConfirmKeeps ==
    ASSUME HoldInv, Confirm
    PROVE  HoldInv'
<1> DEFINE todo == reserver.todo
           g == Head(todo)
           h == reserver.new
           file == reserver.file
           ok == h \in alive
           entered == [file EXCEPT ![g] = IF ok THEN h ELSE file[g]]
<1>0. /\ ReservationTypeOK /\ reserver \in Reserving /\ reserver.busy /\ todo # <<>> /\ h # NoHold
      /\ h \in Holder /\ file \in [Gpu -> Holder \cup {NoHold}]
  <2>1. reserver.new # NoHold
    BY DEF Confirm
  <2> QED
    BY <2>1 DEF HoldInv, NoUnownedHolder, InHand, ReservationTypeOK, Reserving
<1>1. /\ g \in Gpu /\ Tail(todo) \in BoundedSeq(Gpu, Cardinality(Gpu) + MaxAsk) /\ file[g] = NoHold
      /\ \A i, j \in 1 .. Len(Tail(todo)) : Tail(todo)[i] = Tail(todo)[j] => i = j
      /\ \A i \in 1 .. Len(Tail(todo)) : Tail(todo)[i] # g /\ file[Tail(todo)[i]] = NoHold
  BY <1>0, NextCard
<1>2. entered \in [Gpu -> Holder \cup {NoHold}] /\ \A c \in Gpu \ {g} : entered[c] = file[c]
  BY <1>0, <1>1
<1>3. PICK made \in BOOLEAN : made = (reserver.made \/ ok)
  BY Zenon
<1>4. /\ reserver' = [reserver EXCEPT !.new = NoHold, !.todo = Tail(todo), !.made = made, !.file = entered]
      /\ UNCHANGED <<vars, registry, aim, expired, doomed, own, lost>>
  BY <1>0, <1>3 DEF Confirm, Reserving
<1>5. Pids(file) \subseteq Pids(entered) /\ (ok => h \in Pids(entered)) /\ (~ok => Pids(entered) = Pids(file))
  <2>1. ASSUME NEW x \in Pids(file) PROVE x \in Pids(entered)
    <3>1. PICK c \in Gpu : x = file[c] /\ x # NoHold
      BY <2>1 DEF Pids
    <3>2. c # g
      BY <1>1, <3>1
    <3>3. entered[c] = x
      BY <1>2, <3>1, <3>2
    <3> HIDE DEF entered
    <3> QED
      BY <3>1, <3>3 DEF Pids
  <2>2. ok => entered[g] = h
    BY <1>0, <1>1
  <2>3. ok => h \in Pids(entered)
    <3> HIDE DEF entered
    <3> QED
      BY <1>0, <1>1, <2>2 DEF Pids
  <2>4. ~ok => entered = file
    BY <1>0, <1>1
  <2> HIDE DEF entered
  <2> QED
    BY <2>1, <2>3, <2>4
<1> HIDE DEF entered, file, todo, g, ok
<1>6. /\ reserver' \in Reserving /\ reserver'.busy = reserver.busy /\ reserver'.new = NoHold
      /\ reserver'.file = entered /\ reserver'.made = made /\ reserver'.todo = Tail(todo)
  BY <1>0, <1>1, <1>2, <1>4 DEF Reserving
<1>7. ReservationTypeOK'
  BY <1>0, <1>4, <1>6 DEF ReservationTypeOK, TypeOK, vars, Reserving
<1>8. ASSUME NEW x \in Holder \cap alive'
      PROVE  \/ x \in Pids(registry') \cup doomed' \cup lost'
             \/ reserver'.busy /\ x \in Pids(reserver'.file) \cup {reserver'.new}
  <2>1. alive' = alive
    BY <1>4 DEF vars
  <2>2. x \in Pids(registry) \cup doomed \cup lost \/ x \in Pids(file) \/ x = h
    BY <2>1 DEF HoldInv, NoUnownedHolder, file
  <2>3. x = h => ok
    BY <2>1 DEF ok
  <2> QED
    BY <1>0, <1>4, <1>5, <1>6, <2>2, <2>3
<1>9. InHand'
  <2>1. /\ Pids(registry) \cap alive \subseteq Pids(file) \cup doomed
        /\ ~reserver.made => Pids(file) \subseteq Pids(registry)
    BY <1>0 DEF HoldInv, InHand, file
  <2>2. Pids(registry) \cap alive \subseteq Pids(entered) \cup doomed
    BY <1>5, <2>1
  <2>3. ~made => Pids(entered) \subseteq Pids(registry)
    BY <1>3, <1>5, <2>1
  <2>4. \A i \in 1 .. Len(Tail(todo)) : entered[Tail(todo)[i]] = NoHold
    <3>1. \A i \in 1 .. Len(Tail(todo)) : Tail(todo)[i] \in Gpu
      <4>1. Tail(todo) \in Seq(Gpu)
        BY <1>1, AskBound, BoundedSequences
      <4> QED
        BY <4>1
    <3> QED
      BY <1>1, <1>2, <3>1
  <2>5. alive' = alive /\ registry' = registry /\ doomed' = doomed
    BY <1>4 DEF vars
  <2> QED
    BY <1>0, <1>1, <1>6, <2>2, <2>3, <2>4, <2>5 DEF InHand
<1>10. OnCardsAlive'
  BY <1>4 DEF HoldInv, OnCardsAlive, vars
<1> QED
  BY <1>7, <1>8, <1>9, <1>10 DEF HoldInv, NoUnownedHolder

(* A reserve saves what it has, or dies with it.                           *)
LEMMA ReserveOver ==
    ASSUME HoldInv, ReserveEnd \/ ReserveDies
    PROVE  HoldInv'
<1>0. /\ ReservationTypeOK /\ reserver.busy /\ reserver' = NoReserve
      /\ reserver.file \in [Gpu -> Holder \cup {NoHold}] /\ NoHold \notin Holder
      /\ registry \in [Gpu -> Holder \cup {NoHold}]
      /\ UNCHANGED <<vars, aim, expired, doomed, own>>
  BY HolderAssumption, ReserverFacts DEF HoldInv, NoUnownedHolder, ReservationTypeOK, ReserveEnd, ReserveDies
<1>1. /\ Pids(registry) \cap alive \subseteq Pids(reserver.file) \cup doomed
      /\ ~reserver.made => Pids(reserver.file) \subseteq Pids(registry)
      /\ reserver.new # NoHold => reserver.todo # <<>>
  BY <1>0 DEF HoldInv, InHand
<1>2. \A h \in Holder \cap alive : h \in Pids(registry) \cup doomed \cup lost
                                   \/ h \in Pids(reserver.file) \/ h = reserver.new
  BY DEF HoldInv, NoUnownedHolder
<1>3. registry' \in [Gpu -> Holder \cup {NoHold}] /\ lost' \in SUBSET Holder
      /\ \A h \in Holder \cap alive : h \in Pids(registry') \cup doomed \cup lost'
  <2>1. CASE ReserveEnd
    <3>1. /\ registry' = IF reserver.made THEN reserver.file ELSE registry
          /\ reserver.todo = <<>> /\ lost' = lost
      BY <2>1 DEF ReserveEnd
    <3>2. lost \in SUBSET Holder
      BY <1>0 DEF ReservationTypeOK
    <3> QED
      BY <1>0, <1>1, <1>2, <3>1, <3>2
  <2>2. CASE ReserveDies
    <3>1. /\ registry' = registry
          /\ lost' = lost \cup (((Pids(reserver.file) \ Pids(registry)) \cup {reserver.new}) \cap alive)
      BY <2>2 DEF ReserveDies
    <3>2. /\ lost \in SUBSET Holder /\ Pids(reserver.file) \subseteq Holder /\ alive \subseteq Pid
          /\ reserver.new \in Holder \cup {NoHold} /\ NoHold \notin Pid
      BY <1>0, PidsFacts, ReserverFacts, HolderAssumption DEF ReservationTypeOK, TypeOK
    <3> QED
      BY <1>0, <1>2, <3>1, <3>2
  <2> QED
    BY <2>1, <2>2
<1>4. ReservationTypeOK'
  BY <1>0, <1>3, NoReserveFacts DEF ReservationTypeOK, TypeOK, vars
<1>5. InHand'
  BY <1>0, NoReserveFacts DEF InHand
<1>6. OnCardsAlive'
  BY <1>0 DEF HoldInv, OnCardsAlive, vars
<1> QED
  BY <1>0, <1>3, <1>4, <1>5, <1>6 DEF HoldInv, NoUnownedHolder, vars

(* Holders open their cards, expire and leave; runs lease cards and other  *)
(* jobs come and go.                                                       *)
LEMMA HolderStep ==
    ASSUME HoldInv, \/ LeaseStep \/ JobStep
                    \/ \E h \in Holder : HolderOpens(h) \/ HolderExit(h) \/ Expire(h)
    PROVE  HoldInv'
<1>0. /\ ReservationTypeOK /\ TypeOK /\ registry' = registry /\ reserver' = reserver /\ own' = own
  BY DEF HoldInv, NoUnownedHolder, ReservationTypeOK, LeaseStep, JobStep, HolderOpens, HolderExit,
         Expire, rvars
<1>1. ASSUME TypeOK', alive' = alive, UNCHANGED <<aim, doomed, lost>>, expired' \in SUBSET Holder,
             \A g \in Gpu : procs'[g] \subseteq alive
      PROVE  HoldInv'
  <2>1. ReservationTypeOK'
    BY <1>0, <1>1 DEF ReservationTypeOK
  <2>2. InHand' /\ OnCardsAlive'
    BY <1>0, <1>1 DEF HoldInv, InHand, OnCardsAlive
  <2> QED
    BY <1>0, <1>1, <2>1, <2>2 DEF HoldInv, NoUnownedHolder
<1>2. CASE LeaseStep
  <2>1. own \in SUBSET Pid /\ TenantLease \subseteq LeaseId /\ Tenant \subseteq Pid
    BY <1>0, HolderAssumption DEF ReservationTypeOK
  <2>2. TypeOK' /\ UNCHANGED <<alive, procs, hot>>
    <3>1. ASSUME NEW l \in TenantLease, NEW p \in Tenant, NEW n \in Count, NEW smi \in Smi, Grant(l, p, n, smi, own)
          PROVE  TypeOK' /\ UNCHANGED <<alive, procs, hot>>
      BY <1>0, <2>1, <3>1, GrantKeeps DEF Grant
    <3>2. ASSUME NEW l \in TenantLease, Release(l)
          PROVE  TypeOK' /\ UNCHANGED <<alive, procs, hot>>
      BY <1>0, <2>1, <3>2, RemovalKeeps DEF Release, TypeOK
    <3> QED
      BY <1>2, <3>1, <3>2 DEF LeaseStep
  <2> QED
    BY <1>0, <1>1, <1>2, <2>2 DEF LeaseStep, rvars, ReservationTypeOK, HoldInv, OnCardsAlive
<1>3. ASSUME NEW p \in Pid, NEW g \in Gpu, OpenCard(p, g) \/ CloseCard(p, g), UNCHANGED rvars
      PROVE  HoldInv'
  <2>1. TypeOK' /\ alive' = alive
    BY <1>0, <1>3 DEF OpenCard, CloseCard, TypeOK
  <2>2. \A c \in Gpu : procs'[c] \subseteq alive
    BY <1>0, <1>3 DEF OpenCard, CloseCard, TypeOK, HoldInv, OnCardsAlive
  <2> QED
    BY <1>0, <1>1, <1>3, <2>1, <2>2 DEF rvars, ReservationTypeOK
<1>4. CASE JobStep
  BY <1>3, <1>4, HolderAssumption DEF JobStep
<1>5. ASSUME NEW h \in Holder, HolderOpens(h) PROVE HoldInv'
  <2>1. h \in Pid /\ aim[h] \in Gpu
    BY <1>5, HolderAssumption DEF HolderOpens, HoldInv, OnCardsAlive
  <2> QED
    BY <1>3, <1>5, <2>1 DEF HolderOpens
<1>6. ASSUME NEW h \in Holder, Expire(h) PROVE HoldInv'
  <2>1. expired' \in SUBSET Holder /\ UNCHANGED <<vars, aim, doomed, lost>>
    BY <1>0, <1>6 DEF Expire, ReservationTypeOK
  <2> QED
    BY <1>0, <1>1, <2>1 DEF vars, TypeOK, HoldInv, OnCardsAlive
<1>7. ASSUME NEW h \in Holder, HolderExit(h) PROVE HoldInv'
  <2>1. /\ alive' = alive \ {h} /\ procs' = [g \in Gpu |-> procs[g] \ {h}] /\ UNCHANGED <<leases, hot>>
        /\ aim' = [aim EXCEPT ![h] = NoHold] /\ doomed' = doomed \ {h} /\ expired' = expired \ {h}
        /\ lost' = lost \ {h}
    BY <1>7 DEF HolderExit, ProcessExit
  <2>2. ReservationTypeOK'
    BY <1>0, <2>1 DEF ReservationTypeOK, TypeOK
  <2>3. \A x \in alive' : x \in alive /\ (x \in doomed => x \in doomed') /\ (x \in lost => x \in lost')
    BY <2>1
  <2>4. InHand'
    BY <1>0, <2>3 DEF HoldInv, InHand
  <2>5. OnCardsAlive'
    BY <1>0, <2>1 DEF HoldInv, OnCardsAlive, ReservationTypeOK
  <2> QED
    BY <1>0, <2>2, <2>3, <2>4, <2>5 DEF HoldInv, NoUnownedHolder
<1> QED
  BY <1>2, <1>4, <1>5, <1>6, <1>7

(* The invariant is inductive, for callers that name no card twice.        *)
LEMMA HoldInvHolds ==
    ASSUME ~Repeats
    PROVE  ReservationInit /\ [][ReservationNext]_gvars => []HoldInv
<1>1. ReservationInit => HoldInv
  <2> SUFFICES ASSUME ReservationInit PROVE HoldInv
    OBVIOUS
  <2>1. ReservationTypeOK
    BY NoReserveFacts DEF ReservationInit, Init, ReservationTypeOK, TypeOK
  <2>2. \A h \in Holder : h \notin alive
    BY HolderAssumption DEF ReservationInit
  <2>3. InHand
    BY NoReserveFacts DEF ReservationInit, InHand
  <2> QED
    BY <2>1, <2>2, <2>3 DEF ReservationInit, Init, HoldInv, NoUnownedHolder, OnCardsAlive
<1>2. HoldInv /\ [ReservationNext]_gvars => HoldInv'
  <2> SUFFICES ASSUME HoldInv, [ReservationNext]_gvars PROVE HoldInv'
    OBVIOUS
  <2>1. CASE UNCHANGED gvars
    BY <2>1 DEF gvars, rvars, vars, HoldInv, NoUnownedHolder, ReservationTypeOK, TypeOK, InHand, OnCardsAlive
  <2>2. CASE \E h \in Holder : Spawn(h) \/ HolderOpens(h) \/ HolderExit(h) \/ Expire(h)
    BY <2>2, SpawnKeeps, HolderStep
  <2> QED
    BY <2>1, <2>2, RegistryStep, ReserveBegins, SpawnKeeps, ConfirmKeeps, ReserveOver, HolderStep
       DEF ReservationNext
<1> QED
  BY <1>1, <1>2, PTL

(* No holder is unowned, for any cards and holders and however a reserve,  *)
(* its death, expiry, release and reaping interleave: a running holder is  *)
(* in the registry, in the hands of a reserve, on its way out, or was left *)
(* by a reserve that died.  The caller names no card twice.                *)
THEOREM EveryHolderIsOwned ==
    ASSUME ~Repeats
    PROVE  ReservationSpec => []NoUnownedHolder
<1>1. HoldInv => NoUnownedHolder
  BY DEF HoldInv
<1> QED
  BY <1>1, HoldInvHolds, PTL DEF ReservationSpec

(* Reservations are transparent to our own runs: for any cards, holders    *)
(* and tenants, a card with nothing on it but holders whose time is not    *)
(* over is free for a launcher that asks for the holder pids now.          *)
THEOREM HeldCardsAreUsable ==
    ASSUME ~Repeats
    PROVE  ReservationSpec => []HeldCardUsable
<1>1. HoldInv => HeldCardUsable
  <2> SUFFICES ASSUME HoldInv, NEW g \in Gpu, ~reserver.busy, g \notin hot,
                      procs[g] \subseteq Holder \ (doomed \cup expired \cup lost)
               PROVE  g \in FreeDevices("both", Pids(ReapedHolds(registry)))
    BY DEF HeldCardUsable
  <2>1. procs[g] \subseteq Pids(registry) \cap alive
    BY DEF HoldInv, NoUnownedHolder, OnCardsAlive
  <2>2. Pids(ReapedHolds(registry)) = (Pids(registry) \cap alive) \ expired
    BY PidsFacts DEF HoldInv, NoUnownedHolder, ReservationTypeOK
  <2> QED
    BY <2>1, <2>2 DEF FreeDevices, ProcPids, Devices
<1> QED
  BY <1>1, HoldInvHolds, PTL DEF ReservationSpec
=============================================================================
