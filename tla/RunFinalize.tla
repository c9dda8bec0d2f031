---------------------------- MODULE RunFinalize ----------------------------
(***************************************************************************)
(* How a run ends: the threads of one run process and the two files they   *)
(* leave behind (backend/agents/rlm/run.py, run_pipeline_rlm from the      *)
(* completion call to its return).                                         *)
(*                                                                         *)
(* The completion runs on a worker thread while the main thread awaits it. *)
(* Three actors can end the run: the main thread (_finalize, or            *)
(* _finalize_fatal_primitive_abort), the wall-clock watchdog thread and    *)
(* the SIGTERM handler, which runs on the main thread and suspends it;     *)
(* the last two take the path of _hard_stop_with_report.  A fourth thread  *)
(* rewrites the status record every half minute with the costs so far.     *)
(*                                                                         *)
(* Every writer of a file uses the same temporary name: it opens (and      *)
(* truncates) it, fills it, and renames it over the file.  A descriptor    *)
(* follows its file through a rename, so a slow writer may fill the        *)
(* published file, or one that is gone.                                    *)
(***************************************************************************)
EXTENDS Naturals, Sequences, FiniteSets

CONSTANTS
    SlowJoin    \* BOOLEAN: may the cost thread outlast the join of 5 s?

ASSUME JoinAssumption == SlowJoin \in BOOLEAN

VARIABLES
    worker,     \* the completion: busy, or how it ended
    main,       \* where the main thread is
    late,       \* the wall-clock deadline and its grace have passed
    cancelled,  \* watchdog.cancel() was called
    handler,    \* the SIGTERM finalizer is installed
    costStop,   \* the cost thread's stop event
    pub, tmp,   \* report and status: the published and the temporary file
    todo,       \* per actor: what it has yet to write, as <<file, content>>
    phase,      \* per actor: open, fill or replace
    fd,         \* per actor: what its open descriptor points to
    began,      \* the actors that began to finish the run
    end         \* up, or how the process ended

fvars == <<worker, main, late, cancelled, handler, costStop, pub, tmp, todo, phase,
           fd, began, end>>

Actor == {"main", "watchdog", "sigterm", "cost"}

File == {"report", "status"}

Content == {"absent", "torn", "blank", "hardstop", "abort", "final", "running", "failed", "completed"}

FinalizeTypeOK ==
    /\ worker \in {"busy", "ok", "error", "fatal"}
    /\ main \in {"await", "cancel", "restore", "stopcost", "join", "finish"}
    /\ {late, cancelled, handler, costStop} \subseteq BOOLEAN
    /\ pub \in [File -> Content] /\ tmp \in [File -> Content]
    /\ \A a \in Actor : /\ Len(todo[a]) <= 2
                        /\ \A i \in DOMAIN todo[a] : todo[a][i] \in File \X Content
    /\ phase \in [Actor -> {"open", "fill", "replace"}]
    /\ fd \in [Actor -> {"none", "tmp", "pub", "gone"}]
    /\ began \subseteq Actor \ {"cost"}
    /\ end \in {"up", "returned", "raised", "hardstop", "sigterm", "killed"}

-----------------------------------------------------------------------------
(* Writing a file.                                                         *)

(* The main thread does nothing while a signal handler runs on it.         *)
Active(a) == /\ end = "up" /\ todo[a] # <<>>
             /\ a = "main" => "sigterm" \notin began

Onto(a) == Head(todo[a])[1]

Open(a) ==
    /\ Active(a) /\ phase[a] = "open"
    /\ tmp' = [tmp EXCEPT ![Onto(a)] = "torn"]
    /\ fd' = [fd EXCEPT ![a] = "tmp"]
    /\ phase' = [phase EXCEPT ![a] = "fill"]
    /\ UNCHANGED <<worker, main, late, cancelled, handler, costStop, pub, todo, began, end>>

(* Filling a file that another writer has filled since it was opened       *)
(* leaves the longer tail of the two.                                      *)
Filled(old, new) == IF old = "torn" THEN {new} ELSE {new, "torn"}

Fill(a) ==
    /\ Active(a) /\ phase[a] = "fill"
    /\ LET f == Onto(a)
           v == Head(todo[a])[2]
       IN  CASE fd[a] = "tmp"  -> \E c \in Filled(tmp[f], v) :
                                     tmp' = [tmp EXCEPT ![f] = c] /\ UNCHANGED pub
             [] fd[a] = "pub"  -> \E c \in Filled(pub[f], v) :
                                     pub' = [pub EXCEPT ![f] = c] /\ UNCHANGED tmp
             [] fd[a] = "gone" -> UNCHANGED <<pub, tmp>>
    /\ fd' = [fd EXCEPT ![a] = "none"]
    /\ phase' = [phase EXCEPT ![a] = "replace"]
    /\ UNCHANGED <<worker, main, late, cancelled, handler, costStop, todo, began, end>>

(* Where the descriptors of the other writers of f point after a rename.   *)
Moved(f) ==
    [b \in Actor |->
        IF todo[b] = <<>> \/ phase[b] # "fill" \/ Onto(b) # f THEN fd[b]
        ELSE IF fd[b] = "tmp" THEN "pub" ELSE "gone"]

(* os.replace.  With nothing to rename it raises: every caller but the     *)
(* main thread's report write catches that and goes on.                   *)
Replace(a) ==
    /\ Active(a) /\ phase[a] = "replace"
    /\ LET f == Onto(a)
           ok == tmp[f] # "absent"
       IN  /\ pub' = IF ok THEN [pub EXCEPT ![f] = tmp[f]] ELSE pub
           /\ tmp' = [tmp EXCEPT ![f] = "absent"]
           /\ fd' = IF ok THEN Moved(f) ELSE fd
           /\ end' = IF ~ok /\ a = "main" /\ f = "report" THEN "raised" ELSE end
    /\ todo' = [todo EXCEPT ![a] = Tail(@)]
    /\ phase' = [phase EXCEPT ![a] = "open"]
    /\ UNCHANGED <<worker, main, late, cancelled, handler, costStop, began>>

-----------------------------------------------------------------------------
(* The main thread.                                                        *)

Completes(o) ==
    /\ end = "up" /\ worker = "busy"
    /\ worker' = o
    /\ UNCHANGED <<main, late, cancelled, handler, costStop, pub, tmp, todo, phase, fd,
                   began, end>>

MainAt(from, to) ==
    /\ end = "up" /\ "sigterm" \notin began
    /\ main = from /\ main' = to

MainWakes ==
    /\ MainAt("await", "cancel") /\ worker # "busy"
    /\ UNCHANGED <<worker, late, cancelled, handler, costStop, pub, tmp, todo, phase, fd,
                   began, end>>

(* The finally block: the watchdog is told to stop, the finalizer makes    *)
(* way for the default action of SIGTERM, the cost thread is stopped and   *)
(* joined.                                                                 *)
CancelWatchdog ==
    /\ MainAt("cancel", "restore")
    /\ cancelled' = TRUE
    /\ UNCHANGED <<worker, late, handler, costStop, pub, tmp, todo, phase, fd, began, end>>

RestoreHandler ==
    /\ MainAt("restore", "stopcost")
    /\ handler' = FALSE
    /\ UNCHANGED <<worker, late, cancelled, costStop, pub, tmp, todo, phase, fd, began, end>>

StopCost ==
    /\ MainAt("stopcost", "join")
    /\ costStop' = TRUE
    /\ UNCHANGED <<worker, late, cancelled, handler, pub, tmp, todo, phase, fd, began, end>>

(* Mutant: the status is recorded first on every path.                     *)
MainWritesStatusFirst ==
    CASE worker = "ok"    -> <<<<"status", "completed">>, <<"report", "final">>>>
      [] worker = "error" -> <<<<"status", "failed">>, <<"report", "final">>>>
      [] OTHER            -> <<<<"status", "failed">>, <<"report", "abort">>>>

(* The report first and the status last; after a fatal primitive the other *)
(* way round.                                                              *)
MainWrites ==
    CASE worker = "ok"    -> <<<<"report", "final">>, <<"status", "completed">>>>
      [] worker = "error" -> <<<<"report", "final">>, <<"status", "failed">>>>
      [] OTHER            -> <<<<"status", "failed">>, <<"report", "abort">>>>

(* Mutant: the cost thread is not waited for.                              *)
JoinNot ==
    /\ MainAt("join", "finish")
    /\ began' = began \cup {"main"}
    /\ todo' = [todo EXCEPT !["main"] = MainWrites]
    /\ UNCHANGED <<worker, late, cancelled, handler, costStop, pub, tmp, phase, fd, end>>

Join ==
    /\ MainAt("join", "finish")
    /\ SlowJoin \/ todo["cost"] = <<>>
    /\ began' = began \cup {"main"}
    /\ todo' = [todo EXCEPT !["main"] = MainWrites]
    /\ UNCHANGED <<worker, late, cancelled, handler, costStop, pub, tmp, phase, fd, end>>

Return ==
    /\ MainAt("finish", "finish") /\ todo["main"] = <<>>
    /\ end' = "returned"
    /\ UNCHANGED <<worker, late, cancelled, handler, costStop, pub, tmp, todo, phase, fd, began>>

-----------------------------------------------------------------------------
(* _hard_stop_with_report, by the watchdog or in the SIGTERM handler.      *)
HardStop(a) ==
    /\ began' = began \cup {a}
    /\ todo' = [todo EXCEPT ![a] = <<<<"report", "hardstop">>, <<"status", "failed">>>>]

Deadline ==
    /\ end = "up" /\ ~late
    /\ late' = TRUE
    /\ UNCHANGED <<worker, main, cancelled, handler, costStop, pub, tmp, todo, phase, fd,
                   began, end>>

(* Mutant: the watchdog stops a run that has reported nothing wrong only   *)
(* once the completion is over.                                            *)
WatchdogFiresIdle ==
    /\ end = "up" /\ late /\ ~cancelled /\ "watchdog" \notin began /\ worker # "busy"
    /\ HardStop("watchdog")
    /\ UNCHANGED <<worker, main, late, cancelled, handler, costStop, pub, tmp, phase, fd, end>>

WatchdogFires ==
    /\ end = "up" /\ late /\ ~cancelled /\ "watchdog" \notin began
    /\ HardStop("watchdog")
    /\ UNCHANGED <<worker, main, late, cancelled, handler, costStop, pub, tmp, phase, fd, end>>

Sigterm ==
    /\ end = "up" /\ "sigterm" \notin began
    /\ IF handler THEN HardStop("sigterm") /\ UNCHANGED end
       ELSE end' = "sigterm" /\ UNCHANGED <<began, todo>>
    /\ UNCHANGED <<worker, main, late, cancelled, handler, costStop, pub, tmp, phase, fd>>

HardExit(a) ==
    /\ end = "up" /\ a \in began /\ todo[a] = <<>>
    /\ end' = "hardstop"
    /\ UNCHANGED <<worker, main, late, cancelled, handler, costStop, pub, tmp, todo, phase,
                   fd, began>>

Kill ==
    /\ end = "up"
    /\ end' = "killed"
    /\ UNCHANGED <<worker, main, late, cancelled, handler, costStop, pub, tmp, todo, phase,
                   fd, began>>

-----------------------------------------------------------------------------
(* _update_cost_summary_loop: the record as read, with the costs added.    *)
(* A record that cannot be parsed is read as an empty one.                 *)
CostReads ==
    /\ end = "up" /\ ~costStop /\ todo["cost"] = <<>>
    /\ todo' = [todo EXCEPT !["cost"] = <<<<"status", IF pub["status"] = "torn" THEN "blank"
                                                      ELSE pub["status"]>>>>]
    /\ UNCHANGED <<worker, main, late, cancelled, handler, costStop, pub, tmp, phase, fd,
                   began, end>>

FinalizeInit ==
    /\ worker = "busy" /\ main = "await"
    /\ late = FALSE /\ cancelled = FALSE /\ handler = TRUE /\ costStop = FALSE
    /\ pub = [report |-> "absent", status |-> "running"]
    /\ tmp = [f \in File |-> "absent"]
    /\ todo = [a \in Actor |-> <<>>]
    /\ phase = [a \in Actor |-> "open"]
    /\ fd = [a \in Actor |-> "none"]
    /\ began = {} /\ end = "up"

Write(a) == Open(a) \/ Fill(a) \/ Replace(a)

MainStep ==
    \/ MainWakes \/ CancelWatchdog \/ RestoreHandler \/ StopCost \/ Join \/ Return
    \/ Write("main")

FinalizeNext ==
    \/ MainStep
    \/ \E o \in {"ok", "error", "fatal"} : Completes(o)
    \/ Deadline \/ WatchdogFires \/ Sigterm \/ Kill
    \/ \E a \in {"watchdog", "sigterm"} : Write(a) \/ HardExit(a)
    \/ CostReads \/ Write("cost")

(* Time passes and the threads that are not the worker are scheduled; the  *)
(* completion itself may be wedged for ever.                               *)
FinalizeSpec ==
    /\ FinalizeInit /\ [][FinalizeNext]_fvars
    /\ WF_fvars(MainStep) /\ WF_fvars(Deadline) /\ WF_fvars(WatchdogFires)
    /\ WF_fvars(Write("cost"))
    /\ \A a \in {"watchdog", "sigterm"} : WF_fvars(Write(a) \/ HardExit(a))

-----------------------------------------------------------------------------
(* Properties.                                                             *)

(* The record a finished run leaves says how it ended: once _finalize has  *)
(* returned, with neither watchdog nor signal in between, the status is    *)
(* the one it wrote, whatever the cost thread was doing.                   *)
TerminalStatusStands ==
    /\ FinalizeTypeOK
    /\ end = "returned" /\ began = {"main"}
          => pub["status"] = IF worker = "ok" THEN "completed" ELSE "failed"

(* "the single 'never die without a report' path": a process that one      *)
(* actor finished leaves a whole report; and at no moment, so that a kill  *)
(* in between cannot leave it either, is "completed" recorded without the  *)
(* report of a completion that succeeded.                                  *)
EndsWithReport ==
    Cardinality(began) = 1 =>
        /\ end \in {"returned", "hardstop"} => pub["report"] \in {"final", "abort", "hardstop"}
        /\ pub["status"] = "completed" => pub["report"] = "final" /\ worker = "ok"

(* Past its deadline a run ends, even one whose completion is wedged in a  *)
(* primitive, and whoever else is finishing it at the time.                *)
ProcessEnds == late ~> end # "up"
=============================================================================
