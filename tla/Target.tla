------------------------------- MODULE Target -------------------------------
(***************************************************************************)
(* One debugged target: dbg::target and appcore::core_target_impl in the   *)
(* main thread, core::target_base in the core thread, the LLDB listener's  *)
(* event thread between them, and the debugged process.                    *)
(*                                                                         *)
(* The threads share nothing but three FIFO queues of closures:            *)
(*   coreQ   core_debugger_impl::core_thread_queue_: commands posted by    *)
(*           the main thread and LLDB events posted by the event thread;   *)
(*   mainQ   main_thread_queue_: command results and state changes;        *)
(*   lldbQ   the LLDB listener, read by the event thread, which only       *)
(*           forwards to coreQ (debugger_base, lldb_listener_event_queue). *)
(* A closure runs to its end before the thread takes the next one, so one  *)
(* closure is one action.                                                  *)
(***************************************************************************)
EXTENDS Naturals, Sequences

CONSTANTS
  MaxPending,   \* bound: the user acts only while fewer closures are pending
  MaxEvents,    \* bound: the process reports only while fewer events are unread
  Scenarios     \* the sets of mishaps a behaviour may have

\* What the environment may do besides the ordinary, one behaviour at a time.
MishapKinds == {"bornStopped",  \* attach returns with the process already stopped
                "earlyExit",    \* the process exits while the launch is unfinished
                "commandFails", \* Halt, Kill or Detach reports an error
                "stepIgnored"}  \* a step the process refuses, its SBError unread

ASSUME BoundsAssumption == MaxPending \in Nat /\ MaxEvents \in Nat
ASSUME ScenariosAssumption == Scenarios \subseteq SUBSET MishapKinds

VARIABLES
  state,          \* core_target_impl::state_
  threads,        \* target::threads_ holds threads and a current one
  locals,         \* the locals and registers lists show values
  watch,          \* the custom watch list shows values
  mainQ, coreQ, lldbQ,
  isLaunching,    \* core_target_impl::is_launching_ (core thread)
  stoppedEarly,   \* core_target_impl::is_stopped_after_launching_ (core thread)
  proc,           \* the process as target_base::state() sees it
  mishaps         \* what may go wrong in this behaviour; never changes

mainVars == <<state, threads, locals, watch>>
coreVars == <<isLaunching, stoppedEarly>>
vars == <<mainVars, mainQ, coreQ, lldbQ, coreVars, proc, mishaps>>

States == {"invalid", "loaded", "launching", "running", "stopped",
           "terminating", "detaching", "unloading"}
ProcStates == {"none", "stopped", "running"}

\* LLDB state events; "restarted" is a stop the process was resumed from.
Events == {"evStopped", "evRestarted", "evRunning", "evExited"}
\* Launch completion, sent round by the LLDB queue (post_lldb_event).
Completions == {"doneOk", "doneErr"}
\* Commands; "collect" is the process_stopped a finished launch asks for.
Commands == {"launch", "attach", "run", "step", "stop", "terminate", "detach",
             "close", "selectFrame", "fetchFrames", "collect"}
Results == {"launchOk", "launchErr", "finishRunning", "finishStopped",
            "finishErr", "attachOk", "attachErr", "resumeErr", "ok", "err",
            "stopped", "exited", "closed", "frameLists", "frames"}

\* The commands whose target_base code asserts a stopped process.
NeedStopped == {"run", "step", "terminate", "detach", "selectFrame", "fetchFrames"}

TypeOK ==
  /\ state \in States /\ proc \in ProcStates /\ mishaps \subseteq MishapKinds
  /\ threads \in BOOLEAN /\ locals \in BOOLEAN /\ watch \in BOOLEAN
  /\ isLaunching \in BOOLEAN /\ stoppedEarly \in BOOLEAN
  /\ mainQ \in Seq(Results)
  /\ coreQ \in Seq(Commands \cup Events \cup Completions)
  /\ lldbQ \in Seq(Events \cup Completions)

-----------------------------------------------------------------------------
(* The core_target_impl constructor: state_ follows the core target, which *)
(* was loaded, or attached to a process whose stop is still to be reported *)
(* or has been already.                                                    *)
Init ==
  /\ mishaps \in Scenarios
  /\ \/ state = "loaded" /\ proc = "none" /\ lldbQ = <<>>
     \/ state = "launching" /\ proc = "stopped" /\ lldbQ = <<"evStopped">>
     \/ "bornStopped" \in mishaps /\ state = "stopped" /\ proc = "stopped" /\ lldbQ = <<>>
  /\ threads = FALSE /\ locals = FALSE /\ watch = FALSE
  /\ mainQ = <<>> /\ coreQ = <<>>
  /\ isLaunching = FALSE /\ stoppedEarly = FALSE

-----------------------------------------------------------------------------
(* set_state, its listener target::on_impl_state_changed and the lists it  *)
(* refreshes: a process context brings threads and values; the states      *)
(* without a process clear the lists, the watch list by evaluating it anew *)
(* in this, the main thread.                                               *)
Clearing_NotLoaded == {"launching", "terminating", "unloading"}
Clearing == {"loaded", "launching", "terminating", "unloading"}

SetState(s, withContext) ==
  /\ state' = s
  /\ threads' = (s \in {"running", "stopped"} /\ (withContext \/ threads))
  /\ locals' = (withContext \/ (s \notin Clearing /\ locals))
  /\ watch' = (withContext \/ IF s \in Clearing THEN proc = "stopped" ELSE watch)

(* A user's request in the main thread: the state the asserts ask for, the *)
(* state set at once, and one command posted to the core thread.           *)
CanAct == Len(mainQ) + Len(coreQ) < MaxPending

Post(cmd) ==
  /\ coreQ' = Append(coreQ, cmd)
  /\ UNCHANGED <<mainQ, lldbQ, coreVars, proc, mishaps>>

Launch == state = "loaded" /\ CanAct /\ SetState("launching", FALSE) /\ Post("launch")
Attach == state = "loaded" /\ CanAct /\ SetState("launching", FALSE) /\ Post("attach")
Run == state = "stopped" /\ CanAct /\ SetState("running", FALSE) /\ Post("run")
\* step_into, step_over, step_out, step_inst_*, step_until of the current thread
Step == state = "stopped" /\ threads /\ CanAct /\ SetState("running", FALSE) /\ Post("step")
Stop == state \in {"running", "stopped"} /\ CanAct /\ UNCHANGED mainVars /\ Post("stop")
Terminate == state = "stopped" /\ CanAct /\ SetState("terminating", FALSE) /\ Post("terminate")
Detach == state = "stopped" /\ CanAct /\ SetState("detaching", FALSE) /\ Post("detach")
Close == state = "loaded" /\ CanAct /\ SetState("unloading", FALSE) /\ Post("close")
\* set_current_thread and set_current_frame
SelectFrame == state = "stopped" /\ threads /\ CanAct /\ UNCHANGED mainVars /\ Post("selectFrame")
FetchFrames == state = "stopped" /\ CanAct /\ UNCHANGED mainVars /\ Post("fetchFrames")

UserAction == \/ Launch \/ Attach \/ Run \/ Step \/ Stop \/ Terminate
              \/ Detach \/ Close \/ SelectFrame \/ FetchFrames

-----------------------------------------------------------------------------
(* The core thread: simple_event_queue::run takes the next closure.        *)
CoreTakes(msg) ==
  coreQ # <<>> /\ Head(coreQ) = msg /\ coreQ' = Tail(coreQ) /\ UNCHANGED mishaps
Reply(msgs) == mainQ' = mainQ \o msgs
Emit(evs) == lldbQ' = lldbQ \o evs

\* Launch: the events LLDB posts on the way are those is_launching_ is to hide.
CoreLaunch ==
  /\ CoreTakes("launch")
  /\ isLaunching' = TRUE
  /\ \/ \E evs \in {<<"evRunning">>, <<"evStopped", "evRunning">>} :
          proc' = "running" /\ Emit(evs) /\ Reply(<<"launchOk">>)
     \/ \E evs \in {<<>>, <<"evExited">>} :
          proc' = "none" /\ Emit(evs) /\ Reply(<<"launchErr">>)
  /\ UNCHANGED <<mainVars, stoppedEarly>>

\* Attach: target_base emits the stopped state itself, before the result.
CoreAttach_NoStop ==
  /\ CoreTakes("attach")
  /\ \/ proc' = "stopped" /\ Reply(<<"attachOk">>)
     \/ proc' = "none" /\ Reply(<<"attachErr">>)
  /\ UNCHANGED <<mainVars, lldbQ, coreVars>>

CoreAttach ==
  /\ CoreTakes("attach")
  /\ \/ proc' = "stopped" /\ Reply(<<"stopped", "attachOk">>)
     \/ proc' = "none" /\ Reply(<<"attachErr">>)
  /\ UNCHANGED <<mainVars, lldbQ, coreVars>>

\* Continue, or a step: LLDB resumes the process, or the command throws.
CoreResume ==
  \/ /\ proc = "stopped"
     /\ proc' = "running" /\ Emit(<<"evRunning">>) /\ Reply(<<"ok">>)
  \/ UNCHANGED <<proc, lldbQ>> /\ Reply(<<"resumeErr">>)

CoreRun == CoreTakes("run") /\ CoreResume /\ UNCHANGED <<mainVars, coreVars>>

\* Stepping into and out leave their SBError unread.
CoreStep ==
  /\ CoreTakes("step")
  /\ \/ CoreResume
     \/ "stepIgnored" \in mishaps /\ UNCHANGED <<proc, lldbQ>> /\ Reply(<<"ok">>)
  /\ UNCHANGED <<mainVars, coreVars>>

\* Halt waits for the process to stop; without a running process it fails.
CoreStop_Silent ==
  /\ CoreTakes("stop")
  /\ proc' = IF proc = "running" THEN "stopped" ELSE proc
  /\ Reply(<<"ok">>) /\ UNCHANGED <<mainVars, lldbQ, coreVars>>

CoreStop ==
  /\ CoreTakes("stop")
  /\ \/ proc = "running" /\ proc' = "stopped" /\ Emit(<<"evStopped">>) /\ Reply(<<"ok">>)
     \/ /\ proc # "running" \/ "commandFails" \in mishaps
        /\ UNCHANGED <<proc, lldbQ>> /\ Reply(<<"err">>)
  /\ UNCHANGED <<mainVars, coreVars>>

\* Kill and Detach: success is reported by the exit event only.
CoreEnd(cmd) ==
  /\ CoreTakes(cmd)
  /\ \/ proc' = "none" /\ Emit(<<"evExited">>) /\ Reply(<<"ok">>)
     \/ "commandFails" \in mishaps /\ UNCHANGED <<proc, lldbQ>> /\ Reply(<<"err">>)
  /\ UNCHANGED <<mainVars, coreVars>>

CoreClose ==
  /\ CoreTakes("close") /\ Reply(<<"closed">>)
  /\ UNCHANGED <<mainVars, lldbQ, coreVars, proc>>

\* Commands that only read the stopped process.
CoreRead ==
  /\ \/ CoreTakes("selectFrame") /\ Reply(<<"frameLists">>)
     \/ CoreTakes("fetchFrames") /\ Reply(<<"frames">>)
     \/ CoreTakes("collect") /\ Reply(<<"stopped">>)
  /\ UNCHANGED <<mainVars, lldbQ, coreVars, proc>>

\* on_core_state_changed; a restarted stop is dropped before it (target_base).
CoreEvent_Unhidden ==
  /\ \E ev \in Events :
       /\ CoreTakes(ev)
       /\ Reply(CASE ev = "evStopped" -> <<"stopped">>
                  [] ev = "evExited" -> <<"exited">>
                  [] OTHER -> <<>>)
  /\ UNCHANGED <<mainVars, lldbQ, coreVars, proc>>

CoreEvent_Raw ==
  /\ \E ev \in Events : CoreTakes(ev) /\ Reply(<<ev>>)
  /\ UNCHANGED <<mainVars, lldbQ, coreVars, proc>>

CoreEvent_Restarts ==
  /\ \E ev \in Events :
       /\ CoreTakes(ev)
       /\ Reply(IF isLaunching THEN <<>>
                ELSE CASE ev \in {"evStopped", "evRestarted"} -> <<"stopped">>
                       [] ev = "evExited" -> <<"exited">>
                       [] OTHER -> <<>>)
  /\ UNCHANGED <<mainVars, lldbQ, coreVars, proc>>

CoreEvent ==
  /\ \E ev \in Events :
       /\ CoreTakes(ev)
       /\ Reply(IF isLaunching THEN <<>>
                ELSE CASE ev = "evStopped" -> <<"stopped">>
                       [] ev = "evExited" -> <<"exited">>
                       [] OTHER -> <<>>)
       /\ stoppedEarly' = IF isLaunching /\ ev \in {"evStopped", "evRunning"}
                          THEN ev = "evStopped" ELSE stoppedEarly
  /\ UNCHANGED <<mainVars, lldbQ, isLaunching, proc>>

\* The launch completion, back in the core thread behind the launch's events.
CoreLaunchDone ==
  /\ \/ CoreTakes("doneErr") /\ Reply(<<"finishErr">>)
     \/ CoreTakes("doneOk") /\ Reply(<<IF stoppedEarly THEN "finishStopped" ELSE "finishRunning">>)
  /\ isLaunching' = FALSE /\ stoppedEarly' = FALSE
  /\ UNCHANGED <<mainVars, lldbQ, proc>>

CoreThread == \/ CoreLaunch \/ CoreAttach \/ CoreRun \/ CoreStep
              \/ CoreStop \/ CoreEnd("terminate") \/ CoreEnd("detach")
              \/ CoreClose \/ CoreRead \/ CoreEvent \/ CoreLaunchDone

-----------------------------------------------------------------------------
(* The event thread: forwards what the LLDB listener receives.             *)
EventThread ==
  /\ lldbQ # <<>> /\ Len(coreQ) < MaxPending + MaxEvents
  /\ lldbQ' = Tail(lldbQ) /\ coreQ' = Append(coreQ, Head(lldbQ))
  /\ UNCHANGED <<mainVars, mainQ, coreVars, proc, mishaps>>

-----------------------------------------------------------------------------
(* The main thread: takes the next posted closure.                         *)
MainTakes(msg) ==
  mainQ # <<>> /\ Head(mainQ) = msg /\ mainQ' = Tail(mainQ) /\ UNCHANGED mishaps

\* The launch command is over: its completion goes round by the LLDB queue.
MainLaunchResult ==
  /\ \/ MainTakes("launchOk") /\ Emit(<<"doneOk">>)
     \/ MainTakes("launchErr") /\ Emit(<<"doneErr">>)
  /\ UNCHANGED <<mainVars, coreQ, coreVars, proc>>

\* Always running first, then the early stop is collected in the core thread.
MainLaunchDone_NoCollect ==
  /\ \/ MainTakes("finishErr") /\ SetState("loaded", FALSE)
     \/ MainTakes("finishRunning") /\ SetState("running", FALSE)
     \/ MainTakes("finishStopped") /\ SetState("running", FALSE)
  /\ UNCHANGED <<coreQ, lldbQ, coreVars, proc>>

MainLaunchDone ==
  /\ \/ MainTakes("finishErr") /\ SetState("loaded", FALSE) /\ UNCHANGED coreQ
     \/ MainTakes("finishRunning") /\ SetState("running", FALSE) /\ UNCHANGED coreQ
     \/ MainTakes("finishStopped") /\ SetState("running", FALSE) /\ coreQ' = Append(coreQ, "collect")
  /\ UNCHANGED <<lldbQ, coreVars, proc>>

\* The closures that end in set_state: process_stopped, the exit event, the
\* close handler, and the roll-backs of a failed attach or resumption.
MainSets(msg, s, withContext) ==
  /\ MainTakes(msg) /\ SetState(s, withContext)
  /\ UNCHANGED <<coreQ, lldbQ, coreVars, proc>>

MainStopped == MainSets("stopped", "stopped", TRUE)
MainExited == MainSets("exited", "loaded", FALSE)
MainClosed == MainSets("closed", "invalid", FALSE)
MainAttachFailed == MainSets("attachErr", "loaded", FALSE)
MainResumeFailed == MainSets("resumeErr", "stopped", FALSE)

\* Lists of a newly selected frame are shown in whatever state it is by now.
MainFrameLists ==
  /\ MainTakes("frameLists")
  /\ locals' = TRUE /\ watch' = TRUE
  /\ UNCHANGED <<state, threads, coreQ, lldbQ, coreVars, proc>>

\* Frames fetched for the current thread, results without an effect, errors.
MainOther ==
  /\ \E msg \in {"frames", "attachOk", "ok", "err"} : MainTakes(msg)
  /\ UNCHANGED <<mainVars, coreQ, lldbQ, coreVars, proc>>

MainThread == \/ MainLaunchResult \/ MainLaunchDone \/ MainStopped \/ MainExited
              \/ MainClosed \/ MainAttachFailed \/ MainResumeFailed
              \/ MainFrameLists \/ MainOther

-----------------------------------------------------------------------------
(* The debugged process, as LLDB reports it.                               *)
ProcEvent(st, ev) ==
  /\ proc = "running" /\ Len(lldbQ) < MaxEvents
  /\ proc' = st /\ lldbQ' = Append(lldbQ, ev)
  /\ UNCHANGED <<mainVars, mainQ, coreQ, coreVars, mishaps>>

ProcStop == ProcEvent("stopped", "evStopped")
ProcRestart == ProcEvent("running", "evRestarted")
ProcExit == ("earlyExit" \in mishaps \/ ~isLaunching) /\ ProcEvent("none", "evExited")

Process == ProcStop \/ ProcRestart \/ ProcExit

-----------------------------------------------------------------------------
Idle == mainQ = <<>> /\ coreQ = <<>> /\ lldbQ = <<>>

\* Nothing more happens to a closed target, which its owner drops in the close
\* handler, and to one whose Kill or Detach has failed.
Over == Idle /\ state \in {"invalid", "terminating", "detaching"} /\ UNCHANGED vars

Next == UserAction \/ CoreThread \/ EventThread \/ MainThread \/ Process \/ Over

Spec == Init /\ [][Next]_vars

\* Each thread's loop runs while its queue holds a closure; users and the
\* process promise nothing.
FairSpec == Spec /\ WF_vars(CoreThread) /\ WF_vars(EventThread) /\ WF_vars(MainThread)

-----------------------------------------------------------------------------
(* Safety                                                                  *)

\* What the main thread's closures assert when they run: a stop is reported
\* to a running or launching target, an exit to one that has a process that
\* may end, the end of an unloading to an unloading one (core_target_impl).
MainAsserts ==
  mainQ # <<>> =>
    CASE Head(mainQ) = "stopped" -> state \in {"running", "launching"}
      [] Head(mainQ) = "exited" -> state \in {"running", "terminating", "detaching"}
      [] Head(mainQ) = "closed" -> state = "unloading"
      [] OTHER -> TRUE

\* The news that the process is gone has not been taken by the main thread yet.
ExitUnderWay == \/ \E i \in 1..Len(lldbQ) : lldbQ[i] = "evExited"
                \/ \E i \in 1..Len(coreQ) : coreQ[i] = "evExited"
                \/ \E i \in 1..Len(mainQ) : mainQ[i] = "exited"

\* What target_base asserts when the core thread gets to a closure: run,
\* steps, terminate, detach and the frame readers still find the stopped
\* process the main thread saw, the collection of a stop finds it stopped
\* too, the exit code is read when it is gone, and a launch finds none. The
\* assertion of stop, that there is a process, does fail in a debug build when
\* the exit overtakes the request, and only then: the news of the exit is on
\* its way or taken, or the process exited before its launch was over.
CoreAsserts ==
  coreQ # <<>> =>
    /\ Head(coreQ) \in NeedStopped \cup {"collect"} => proc = "stopped"
    /\ Head(coreQ) = "evStopped" /\ ~isLaunching => proc = "stopped"
    /\ Head(coreQ) = "evExited" /\ ~isLaunching => proc = "none"
    /\ Head(coreQ) \in {"launch", "attach"} => proc = "none"
    /\ Head(coreQ) = "stop" /\ proc = "none" =>
         \/ ExitUnderWay \/ state \in {"loaded", "launching", "unloading", "invalid"}
         \/ "earlyExit" \in mishaps

\* The stopped state shown to the user is never stale: while it lasts no
\* queued command or event has let the process run or go (target_impl).
StoppedIsStopped == state = "stopped" => proc = "stopped"

\* A target without a process shows no values of the one that is gone,
\* although lists of a frame chosen earlier may arrive at any time (set_state).
NoGhostValues ==
  state \in {"loaded", "launching", "unloading", "invalid"} => ~locals /\ ~watch

\* A stopped target has its threads and a current one, which every step and
\* current_frame() dereference, unless it was born stopped; a target without a
\* process has none.
ThreadsMatchState ==
  /\ state = "stopped" => threads \/ "bornStopped" \in mishaps
  /\ state \notin {"stopped", "running"} => ~threads

\* The assertions of both threads, which are compiled out in a release, hold
\* whatever was queued before the closure that makes them; the one of stop
\* holds but for an exit that overtakes it.
Asserts == MainAsserts /\ CoreAsserts

\* The threads, locals and watch values shown belong to the state shown.
ListsMatchState == NoGhostValues /\ ThreadsMatchState

\* With nothing pending in any queue the state shown is the process's own.
Agreement ==
  Idle /\ mishaps \subseteq {"bornStopped"} =>
    CASE proc = "none" -> state \in {"loaded", "invalid"}
      [] proc = "running" -> state = "running"
      [] OTHER -> state = "stopped"

-----------------------------------------------------------------------------
(* Refinement and liveness                                                 *)

Contract == INSTANCE TargetContract
\* The three threads together implement the state machine users rely on,
\* and leave each transient state.
ImplementsContract == Contract!FairSpec

\* A process that is ended goes: unless LLDB refuses, the target is loaded again.
EndingEnds == state \in {"terminating", "detaching"} /\ "commandFails" \notin mishaps
              ~> state = "loaded"

\* A stop asked for after the last resumption ends the running state.
StopPosted == \E i \in 1..Len(coreQ) :
                /\ coreQ[i] = "stop"
                /\ \A j \in i..Len(coreQ) : coreQ[j] \notin {"run", "step"}
StopTakesEffect ==
  state = "running" /\ StopPosted /\ mishaps \subseteq {"bornStopped"} ~> state # "running"

\* What the core thread is told to do to the process is done.
CommandsTakeEffect == EndingEnds /\ StopTakesEffect
=============================================================================
