----------------------------- MODULE LlmServer -----------------------------
(***************************************************************************)
(* The local vLLM server of scripts/serve_local_llm.py, a client of        *)
(* GpuAllocator that leases its cards under one fixed lease id.            *)
(*                                                                         *)
(* A script probes the port, leases cards, starts vLLM in a session of its *)
(* own, waits until the port answers, and then waits for vLLM (foreground) *)
(* or leaves it running and gives the lease back (detached).  A vLLM       *)
(* process is started, loads the model onto its cards (it then shows in    *)
(* nvidia-smi and fills their memory) and binds the port last.             *)
(***************************************************************************)
EXTENDS GpuAllocator

CONSTANTS
    Server,     \* pids of server scripts
    Runner,     \* pids of reproduction runs
    VllmOf,     \* the pid of the vLLM process each of them starts
    Foreground, \* the scripts started without --no-foreground
    LlmLease,   \* _LEASE_ID
    Overlap,    \* BOOLEAN: may a script start while another is running?
    HardKill    \* BOOLEAN: may a script be killed while its vLLM is starting?

ASSUME ServerAssumption ==
    /\ Server \cup Runner \subseteq Pid /\ Server \cap Runner = {} /\ Foreground \subseteq Server
    /\ VllmOf \in [Server -> Pid \ (Server \cup Runner)]
    /\ \A x, y \in Server : VllmOf[x] = VllmOf[y] => x = y
    /\ LlmLease \in LeaseId /\ Overlap \in BOOLEAN /\ HardKill \in BOOLEAN

VARIABLES
    pc,         \* where each script is
    got,        \* the cards of the lease each script was given
    bound       \* scripts whose vLLM has bound the port (at most one)

svars == <<vars, pc, got, bound>>

Scripts == {"off", "probe", "lease", "launch", "boot", "serve", "final"}

ServerTypeOK ==
    /\ TypeOK
    /\ pc \in [Server -> Scripts]
    /\ got \in [Server -> SUBSET Gpu]
    /\ bound \in SUBSET Server /\ Cardinality(bound) <= 1

Running(s) == VllmOf[s] \in alive

Go(s, from, to) == pc[s] = from /\ pc' = [pc EXCEPT ![s] = to]

(* alloc.release(_LEASE_ID), with or without an entry.                     *)
Dropped == [leases EXCEPT ![LlmLease] = Unleased]

(* _terminate_child: the whole process group, with SIGKILL in the end.     *)
Terminated(s) ==
    /\ alive' = alive \ {VllmOf[s]}
    /\ procs' = [g \in Gpu |-> procs[g] \ {VllmOf[s]}]
    /\ hot' = IF Running(s) THEN hot \ got[s] ELSE hot
    /\ bound' = bound \ {s}

-----------------------------------------------------------------------------
Start(s) ==
    /\ Overlap \/ \A t \in Server : pc[t] = "off"
    /\ Go(s, "off", "probe")
    /\ ProcessStart(s)
    /\ UNCHANGED <<got, bound>>

(* Step 1: nothing to do when the port answers.                            *)
ProbeAnswered(s) ==
    /\ bound # {}
    /\ Go(s, "probe", "off")
    /\ alive' = alive \ {s}
    /\ UNCHANGED <<leases, procs, hot, got, bound>>

ProbeSilent(s) ==
    /\ bound = {}
    /\ Go(s, "probe", "lease")
    /\ UNCHANGED <<vars, got, bound>>

(* Step 3: reclaim_stale, then acquire, which returns a lease that is      *)
(* already in the file under this id, whoever holds it, ...                *)
LeaseExisting(s) ==
    /\ Go(s, "lease", "launch")
    /\ Reaped[LlmLease] # Unleased
    /\ leases' = Reaped
    /\ got' = [got EXCEPT ![s] = Reaped[LlmLease].gpus]
    /\ UNCHANGED <<alive, procs, hot, bound>>

(* ... or grants a new one ...                                             *)
LeaseGranted(s, n, smi) ==
    /\ Go(s, "lease", "launch")
    /\ Grant(LlmLease, s, n, smi, {})
    /\ got' = [got EXCEPT ![s] = leases'[LlmLease].gpus]
    /\ UNCHANGED bound

(* ... or none, and the script returns 4 (before its try).                 *)
LeaseRefused(s, n, smi) ==
    /\ pc[s] = "lease" /\ pc' = [pc EXCEPT ![s] = "off"]
    /\ Reaped[LlmLease] = Unleased
    /\ Cardinality(Candidates(smi, {})) < n
    /\ leases' = Reaped
    /\ alive' = alive \ {s}
    /\ UNCHANGED <<procs, hot, got, bound>>

(* Step 4.                                                                 *)
LaunchVllm(s) ==
    /\ Go(s, "launch", "boot")
    /\ ProcessStart(VllmOf[s])
    /\ UNCHANGED <<got, bound>>

(* Step 5: the port answers, whichever vLLM is behind it, while the        *)
(* script's own is still running.                                          *)
Ready(s) ==
    /\ Running(s) /\ bound # {}
    /\ IF s \in Foreground
       THEN Go(s, "boot", "serve") /\ UNCHANGED leases
       ELSE Go(s, "boot", "final") /\ leases' = Dropped
    /\ UNCHANGED <<alive, procs, hot, got, bound>>

(* Mutant: the lease is given back and vLLM is left to itself.             *)
CleanupLeavesVllm(s) ==
    /\ pc[s] \in {"boot", "serve"} /\ pc' = [pc EXCEPT ![s] = "final"]
    /\ leases' = Dropped
    /\ UNCHANGED <<alive, procs, hot, got, bound>>

(* _cleanup: the startup timed out, or vLLM exited while it was awaited,   *)
(* or SIGINT or SIGTERM arrived once the handlers were in place.           *)
Cleanup(s) ==
    /\ pc[s] \in {"launch", "boot", "serve"} /\ pc' = [pc EXCEPT ![s] = "final"]
    /\ Terminated(s)
    /\ leases' = Dropped
    /\ UNCHANGED got

(* Step 6, foreground: vLLM has exited.                                    *)
VllmGone(s) ==
    /\ ~Running(s)
    /\ Go(s, "serve", "final")
    /\ UNCHANGED <<vars, got, bound>>

(* The finally block, and the end of the script.                           *)
Finally(s) ==
    /\ Go(s, "final", "off")
    /\ leases' = Dropped
    /\ got' = IF Running(s) THEN got ELSE [got EXCEPT ![s] = {}]
    /\ alive' = alive \ {s}
    /\ UNCHANGED <<procs, hot, bound>>

(* The script dies without a word: SIGKILL, or a signal before its         *)
(* handlers are in place.  Its vLLM lives on.                              *)
ScriptKilled(s) ==
    /\ pc[s] \in {"probe", "lease", "launch"} \/ (HardKill /\ pc[s] # "off")
    /\ pc' = [pc EXCEPT ![s] = "off"]
    /\ alive' = alive \ {s}
    /\ got' = IF Running(s) THEN got ELSE [got EXCEPT ![s] = {}]
    /\ UNCHANGED <<leases, procs, hot, bound>>

-----------------------------------------------------------------------------
(* vLLM: the model is loaded; the port is bound, or is taken and vLLM      *)
(* exits; vLLM crashes.                                                    *)
Load(s) ==
    /\ Running(s) /\ \E g \in got[s] : VllmOf[s] \notin procs[g]
    /\ procs' = [g \in Gpu |-> IF g \in got[s] THEN procs[g] \cup {VllmOf[s]} ELSE procs[g]]
    /\ hot' = hot \cup got[s]
    /\ UNCHANGED <<leases, alive, pc, got, bound>>

Bind(s) ==
    /\ Running(s) /\ s \notin bound /\ \A g \in got[s] : VllmOf[s] \in procs[g]
    /\ IF bound = {}
       THEN bound' = {s} /\ UNCHANGED <<alive, procs, hot>>
       ELSE Terminated(s)
    /\ UNCHANGED <<leases, pc, got>>

Crash(s) ==
    /\ Running(s)
    /\ Terminated(s)
    /\ UNCHANGED <<leases, pc, got>>

(* Reproduction runs on the same host lease cards and use them.            *)
RunStep ==
    /\ \E p \in Runner :
          \/ \E l \in LeaseId \ {LlmLease}, n \in Count, smi \in Smi : Grant(l, p, n, smi, {})
          \/ \E l \in LeaseId \ {LlmLease} : Held(l) /\ leases[l].pid = p /\ Release(l)
          \/ \E g \in Gpu : OpenCard(p, g) \/ CloseCard(p, g)
    /\ UNCHANGED <<pc, got, bound>>

ServerInit ==
    /\ Init /\ alive = Runner
    /\ pc = [s \in Server |-> "off"]
    /\ got = [s \in Server |-> {}]
    /\ bound = {}

ServerNext ==
    \/ \E s \in Server :
          \/ Start(s) \/ ProbeAnswered(s) \/ ProbeSilent(s)
          \/ LeaseExisting(s) \/ LaunchVllm(s) \/ Ready(s)
          \/ Cleanup(s) \/ VllmGone(s) \/ Finally(s) \/ ScriptKilled(s)
          \/ Load(s) \/ Bind(s) \/ Crash(s)
          \/ \E n \in Count, smi \in Smi : LeaseGranted(s, n, smi) \/ LeaseRefused(s, n, smi)
    \/ RunStep

ServerSpec == ServerInit /\ [][ServerNext]_svars

-----------------------------------------------------------------------------
(* Properties.                                                             *)

(* "paper-reproduction runs automatically get the remaining cards while    *)
(* the accelerator server holds its own exclusive lease": while a vLLM     *)
(* runs, starting or detached from its script, none of its cards is leased *)
(* to a run or under another vLLM.  And a script that has its lease and    *)
(* has not given it back finds it in the file: no release but its own      *)
(* takes it.                                                               *)
VllmExclusive ==
    /\ ServerTypeOK
    /\ \A s \in Server : Running(s) =>
          /\ \A l \in LeaseId \ {LlmLease} : Held(l) => leases[l].gpus \cap got[s] = {}
          /\ \A t \in Server \ {s} : Running(t) => got[t] \cap got[s] = {}
    /\ \A s \in Server : pc[s] \in {"launch", "boot", "serve"} =>
          Held(LlmLease) /\ leases[LlmLease].gpus = got[s]
=============================================================================
