------------------------------ MODULE Debugger ------------------------------
(***************************************************************************)
(* dbg::debugger and dbg::target in the main thread, above a target_impl   *)
(* that behaves as TargetContract allows: loading, attaching, connecting   *)
(* to a platform, and launching, built-in or in a terminal.                *)
(*                                                                         *)
(* A terminal launch starts the exec stub, attaches to its child, lets it  *)
(* exec the program, and hides the two stops on the way: a launch_helper   *)
(* listening to the debugger's state runs the target on from inside the    *)
(* very notification that reports the stop.                                *)
(*                                                                         *)
(* A main-thread closure is one action, with all the signals it emits.     *)
(***************************************************************************)
EXTENDS Naturals, Sequences, SequencesExt

CONSTANTS
  WordMod,      \* bound: modulus of launch_helper's unsigned stop counter
  MaxHelpers,   \* bound: launches start only while fewer helpers are alive
  Scenarios     \* the sets of mishaps a behaviour may have

\* What may happen besides the ordinary, one behaviour at a time.
MishapKinds == {"terminalFails",  \* the terminal program cannot be started
                "execFails",      \* the exec stub's child ends before the program
                "earlyStop",      \* the user stops the exec stub's child
                "connectFails",   \* the platform does not answer
                "bornStopped",    \* attach returns with the process already stopped
                "wakeLost"}       \* the continue notification may find nobody waiting

ASSUME WordAssumption == WordMod \in Nat /\ WordMod > 2
ASSUME HelpersAssumption == MaxHelpers \in Nat
ASSUME ScenariosAssumption == Scenarios \subseteq SUBSET MishapKinds

VARIABLES
  dbg,          \* debugger::state_
  impl,         \* the current target's target_impl::state(); "none": no target
  stubThread,   \* target::launch_exec_stub_thrd_ exists
  reply,        \* the asynchronous request whose handler has not run yet
  helpers,      \* the launch_helper objects alive, in order of connection
  wasRunning,   \* debugger::target_was_running_
  platform,     \* debugger::platform_, the platform connected to
  corePlatform, \* the platform LLDB has selected
  proc,         \* the process attached to
  shown,        \* the process whose threads the thread list shows
  stopAsked,    \* a stop of the exec stub's child was asked for
  exitSignal,   \* a bit every emission of process_exited flips
  mishaps       \* what may go wrong in this behaviour; never changes

targetVars == <<impl, stubThread, shown>>
platVars == <<platform, corePlatform>>
vars == <<dbg, targetVars, reply, helpers, wasRunning, platVars, proc, stopAsked, exitSignal, mishaps>>

TargetContract == INSTANCE TargetContract WITH state <- impl

DebuggerStates == {"initial", "connecting", "loading", "loaded", "unloading",
                   "launching", "running", "stopped", "terminating", "detaching"}
Requests == {"none", "connect", "load", "attachNew", "launch", "attach", "attachStub", "close"}
\* "waiting": the stub's child waits for the continue notification, or will,
\* for ever if it was not waiting yet when the notification came;
\* "released": it was notified and is about to exec the program.
Processes == {"none", "waiting", "released", "program"}
StubChild == {"waiting", "released"}

\* Everything is done of a launch whose child has missed its notification.
Unwoken == reply = "none" /\ impl = "running" /\ proc = "waiting"
Helper == [skip : 0..(WordMod - 1), got : BOOLEAN]

TypeOK ==
  /\ dbg \in DebuggerStates
  /\ impl \in (TargetContract!TargetStates \ {"invalid"}) \cup {"none"}
  /\ reply \in Requests /\ proc \in Processes /\ shown \in Processes
  /\ helpers \in Seq(Helper)
  /\ platform \in {"host", "remote"} /\ corePlatform \in {"host", "remote"}
  /\ stubThread \in BOOLEAN /\ wasRunning \in BOOLEAN /\ stopAsked \in BOOLEAN
  /\ exitSignal \in {0, 1} /\ mishaps \subseteq MishapKinds

Init ==
  /\ dbg = "initial" /\ impl = "none" /\ reply = "none" /\ helpers = <<>>
  /\ stubThread = FALSE /\ wasRunning = FALSE /\ stopAsked = FALSE
  /\ platform = "host" /\ corePlatform = "host"
  /\ proc = "none" /\ shown = "none" /\ exitSignal = 0
  /\ mishaps \in Scenarios

-----------------------------------------------------------------------------
(* Notifications                                                           *)

\* debugger::on_target_state_changed for every state but stopped, behind
\* target::on_impl_state_changed, which drops the threads of an ended process.
Notify_KeepsFlag(s) ==
  /\ dbg' = s
  /\ wasRunning' = (s = "running" \/ wasRunning)
  /\ exitSignal' = IF s = "loaded" /\ wasRunning THEN 1 - exitSignal ELSE exitSignal
  /\ shown' = IF s = "running" THEN shown ELSE "none"

Notify(s) ==
  /\ dbg' = s
  /\ wasRunning' = (s = "running" \/ (wasRunning /\ s # "detaching"))
  /\ exitSignal' = IF s = "loaded" /\ wasRunning THEN 1 - exitSignal ELSE exitSignal
  /\ shown' = IF s = "running" THEN shown ELSE "none"

\* launch_helper::on_state_changed: the first helper connected sees the
\* stopped state and runs the target; those after it see it running already.
\* Its counter is an unsigned int; the handler deletes it.
HelpersAfterStop ==
  LET skip == (Head(helpers).skip + WordMod - 1) % WordMod
      got == Head(helpers).got
  IN  IF skip = 0 /\ got THEN Tail(helpers)
      ELSE <<[skip |-> skip, got |-> got]>> \o Tail(helpers)

\* A stop with a process context: shown, or hidden by a helper whose run()
\* is notified before the notification of the stop has ended.
ReportStop(p) ==
  /\ proc' = p /\ wasRunning' = TRUE /\ stopAsked' = FALSE
  /\ \/ /\ helpers = <<>> /\ UNCHANGED helpers
        /\ impl' = "stopped" /\ dbg' = "stopped" /\ shown' = p
     \/ /\ helpers # <<>> /\ helpers' = HelpersAfterStop
        /\ impl' = "running" /\ dbg' = "running" /\ shown' = "none"
  /\ UNCHANGED <<stubThread, platVars, exitSignal>>

\* launch_helper::on_launched, called with the result of the latest launch.
OnLaunched_Forgets(ok) ==
  helpers' = IF ok THEN helpers ELSE Front(helpers)

OnLaunched(ok) ==
  LET skip == Last(helpers).skip
  IN  \/ (~ok \/ skip = 0) /\ helpers' = Front(helpers)
      \/ ok /\ skip # 0 /\ helpers' = Append(Front(helpers), [skip |-> skip, got |-> TRUE])

-----------------------------------------------------------------------------
(* Requests of the user: guarded by the debugger's own state, as its       *)
(* asserts are; the target is handed the request whatever state it is in.  *)

Connect ==
  /\ dbg = "initial" /\ dbg' = "connecting" /\ reply' = "connect"
  /\ corePlatform' = "remote"
  /\ UNCHANGED <<targetVars, helpers, wasRunning, platform, proc, stopAsked, exitSignal, mishaps>>

Disconnect ==
  /\ dbg = "initial" /\ platform' = "host" /\ corePlatform' = "host"
  /\ UNCHANGED <<dbg, targetVars, reply, helpers, wasRunning, proc, stopAsked, exitSignal, mishaps>>

\* load_target, and attach without a target
Load ==
  /\ dbg = "initial" /\ dbg' = "loading" /\ reply' \in {"load", "attachNew"}
  /\ UNCHANGED <<targetVars, helpers, wasRunning, platVars, proc, stopAsked, exitSignal, mishaps>>

Attach ==
  /\ dbg = "loaded" /\ impl' = "launching" /\ Notify("launching") /\ reply' = "attach"
  /\ UNCHANGED <<stubThread, helpers, platVars, proc, stopAsked, mishaps>>

NewHelper_OneStop(inTerminal) == [skip |-> IF inTerminal THEN 1 ELSE 0, got |-> FALSE]
NewHelper_ThreeStops(inTerminal) == [skip |-> IF inTerminal THEN 3 % WordMod ELSE 0, got |-> FALSE]
NewHelper(inTerminal) == [skip |-> IF inTerminal THEN 2 ELSE 0, got |-> FALSE]

LaunchBuiltin ==
  /\ dbg = "loaded" /\ Len(helpers) < MaxHelpers
  /\ helpers' = Append(helpers, NewHelper(FALSE))
  /\ impl' = "launching" /\ Notify("launching") /\ reply' = "launch"
  /\ UNCHANGED <<stubThread, platVars, proc, stopAsked, mishaps>>

\* The helper is created first; launch_terminal may throw, or starts the thread.
LaunchInTerminal_Silent ==
  /\ dbg = "loaded" /\ platform = "host" /\ Len(helpers) < MaxHelpers
  /\ helpers' = Append(helpers, NewHelper(TRUE)) /\ stubThread' = TRUE
  /\ UNCHANGED <<dbg, wasRunning, exitSignal, shown, impl, reply, platVars, proc, stopAsked, mishaps>>

LaunchInTerminal ==
  /\ dbg = "loaded" /\ platform = "host" /\ Len(helpers) < MaxHelpers
  /\ helpers' = Append(helpers, NewHelper(TRUE))
  /\ \/ /\ "terminalFails" \in mishaps
        /\ UNCHANGED <<dbg, stubThread, wasRunning, exitSignal, shown>>
     \/ stubThread' = TRUE /\ Notify("launching")
  /\ UNCHANGED <<impl, reply, platVars, proc, stopAsked, mishaps>>

\* run and the stepping operations
Run ==
  /\ dbg = "stopped" /\ impl' = "running" /\ Notify("running")
  /\ UNCHANGED <<stubThread, reply, helpers, platVars, proc, stopAsked, mishaps>>

Stop ==
  /\ dbg \in {"running", "stopped"}
  /\ \/ proc \notin StubChild /\ stopAsked' = FALSE
     \/ proc \in StubChild /\ "earlyStop" \in mishaps /\ stopAsked' = TRUE
  /\ UNCHANGED <<dbg, targetVars, reply, helpers, wasRunning, platVars, proc, exitSignal, mishaps>>

EndProcess_Running ==
  /\ dbg \in {"stopped", "running"}
  /\ \E s \in {"terminating", "detaching"} : impl' = s /\ Notify(s)
  /\ UNCHANGED <<stubThread, reply, helpers, platVars, proc, stopAsked, mishaps>>

EndProcess ==
  /\ dbg = "stopped"
  /\ \E s \in {"terminating", "detaching"} : impl' = s /\ Notify(s)
  /\ UNCHANGED <<stubThread, reply, helpers, platVars, proc, stopAsked, mishaps>>

CloseTarget ==
  /\ dbg = "loaded" /\ impl' = "unloading" /\ Notify("unloading") /\ reply' = "close"
  /\ UNCHANGED <<stubThread, helpers, platVars, proc, stopAsked, mishaps>>

UserAction == \/ Connect \/ Disconnect \/ Load \/ Attach \/ LaunchBuiltin
              \/ LaunchInTerminal \/ Run \/ Stop \/ EndProcess \/ CloseTarget

-----------------------------------------------------------------------------
(* Results of asynchronous requests                                        *)
Answer(r) == reply = r /\ reply' = "none"

Connected ==
  /\ Answer("connect") /\ dbg' = "initial"
  /\ \/ platform' = "remote"
     \/ "connectFails" \in mishaps /\ UNCHANGED platform
  /\ UNCHANGED <<targetVars, helpers, wasRunning, corePlatform, proc, stopAsked, exitSignal, mishaps>>

LoadFailed ==
  /\ Answer("load") \/ Answer("attachNew")
  /\ dbg' = "initial"
  /\ UNCHANGED <<targetVars, helpers, wasRunning, platVars, proc, stopAsked, exitSignal, mishaps>>

\* on_target_load_attach_complete: the state is set before the target's
\* signals are connected, so a helper's run() is not noticed.
LoadDone ==
  /\ \/ Answer("load") /\ impl' = "loaded" /\ dbg' = "loaded" /\ UNCHANGED <<helpers, proc>>
     \/ /\ Answer("attachNew") /\ proc' = "program"
        /\ \/ impl' = "launching" /\ dbg' = "launching" /\ UNCHANGED helpers
           \/ /\ "bornStopped" \in mishaps /\ dbg' = "stopped"
              /\ \/ helpers = <<>> /\ impl' = "stopped" /\ UNCHANGED helpers
                 \/ helpers # <<>> /\ impl' = "running" /\ helpers' = HelpersAfterStop
  /\ UNCHANGED <<stubThread, shown, wasRunning, platVars, stopAsked, exitSignal, mishaps>>

LaunchDone ==
  /\ Answer("launch")
  /\ \/ impl' = "running" /\ Notify("running") /\ proc' = "program" /\ OnLaunched(TRUE)
     \/ impl' = "loaded" /\ Notify("loaded") /\ OnLaunched(FALSE) /\ UNCHANGED proc
  /\ UNCHANGED <<stubThread, platVars, stopAsked, mishaps>>

\* The thread that waited for the exec stub posts on_exec_stub_launched: with
\* no PID the launch has failed, otherwise the target attaches to the child.
StubFailed_Silent ==
  /\ stubThread /\ stubThread' = FALSE /\ OnLaunched(FALSE)
  /\ UNCHANGED <<dbg, impl, shown, wasRunning, exitSignal, reply, platVars, proc, stopAsked, mishaps>>

StubFailed ==
  /\ stubThread /\ stubThread' = FALSE
  /\ Notify("loaded") /\ OnLaunched(FALSE)
  /\ UNCHANGED <<impl, reply, platVars, proc, stopAsked, mishaps>>

StubLaunched ==
  /\ stubThread /\ stubThread' = FALSE
  /\ impl' = "launching" /\ Notify("launching") /\ reply' = "attachStub"
  /\ UNCHANGED <<helpers, platVars, proc, stopAsked, mishaps>>

AttachFailed ==
  /\ impl = "launching" /\ impl' = "loaded" /\ Notify("loaded")
  /\ \/ Answer("attach") /\ UNCHANGED helpers
     \/ Answer("attachStub") /\ OnLaunched(FALSE)
  /\ UNCHANGED <<stubThread, platVars, proc, stopAsked, mishaps>>

\* The stub's child is notified before the launch result is passed on. The
\* notification is not remembered for a child that does not wait for it yet.
AttachDone_NoNotify ==
  /\ \/ Answer("attach") /\ proc' = "program" /\ UNCHANGED helpers
     \/ Answer("attachStub") /\ proc' = "waiting" /\ OnLaunched(TRUE)
  /\ UNCHANGED <<dbg, targetVars, wasRunning, platVars, stopAsked, exitSignal, mishaps>>

AttachDone ==
  /\ \/ Answer("attach") /\ proc' = "program" /\ UNCHANGED helpers
     \/ /\ Answer("attachStub") /\ OnLaunched(TRUE)
        /\ proc' = "released" \/ ("wakeLost" \in mishaps /\ proc' = "waiting")
  /\ UNCHANGED <<dbg, targetVars, wasRunning, platVars, stopAsked, exitSignal, mishaps>>

Closed ==
  /\ Answer("close") /\ impl' = "none" /\ dbg' = "initial"
  /\ UNCHANGED <<stubThread, shown, helpers, wasRunning, platVars, proc, stopAsked, exitSignal, mishaps>>

Result == \/ Connected \/ LoadFailed \/ LoadDone \/ LaunchDone \/ StubFailed
          \/ StubLaunched \/ AttachFailed \/ AttachDone \/ Closed

-----------------------------------------------------------------------------
(* State changes of the target_impl that answer no request. The results    *)
(* of a request are posted before anything that follows from it, so they   *)
(* come first.                                                             *)

\* The stop an attach causes, before or after its result.
AttachStop ==
  /\ impl = "launching" /\ reply # "launch"
  /\ ReportStop(IF proc # "none" THEN proc
                ELSE IF reply = "attachStub" THEN "waiting" ELSE "program")
  /\ UNCHANGED <<reply, mishaps>>

\* The stop at the exec of the program.
ExecStop ==
  /\ impl = "running" /\ proc = "released" /\ ReportStop("program")
  /\ UNCHANGED <<reply, mishaps>>

\* A breakpoint, a signal, a finished step, a stop by the user.
ProgramStop ==
  /\ impl = "running" /\ proc = "program" /\ reply = "none" /\ ReportStop("program")
  /\ UNCHANGED <<reply, mishaps>>

EarlyStop ==
  /\ impl = "running" /\ proc \in StubChild /\ reply = "none" /\ stopAsked /\ ReportStop(proc)
  /\ UNCHANGED <<reply, mishaps>>

Exit ==
  /\ impl \in {"running", "terminating", "detaching"} /\ reply = "none"
  /\ impl = "running" /\ proc \in StubChild => "execFails" \in mishaps
  /\ impl' = "loaded" /\ Notify("loaded") /\ proc' = "none" /\ stopAsked' = FALSE
  /\ UNCHANGED <<stubThread, reply, helpers, platVars, mishaps>>

TargetEvent == AttachStop \/ ExecStop \/ ProgramStop \/ EarlyStop \/ Exit

\* Nothing happens to a child that is never woken, unless the user stops it.
Hangs == Unwoken /\ UNCHANGED vars

Next == UserAction \/ Result \/ TargetEvent \/ Hangs

Spec == Init /\ [][Next]_vars

\* Requests are answered, the stop an attach causes arrives, a child that was
\* woken goes on to exec or ends; users and the program promise nothing, and
\* nothing wakes a child that has missed its notification.
FairSpec == /\ Spec
            /\ WF_vars(Result) /\ WF_vars(AttachStop)
            /\ WF_vars(ExecStop \/ (proc = "released" /\ Exit))

-----------------------------------------------------------------------------
(* Properties                                                              *)

\* Nothing goes wrong that leaves a launch_helper behind, or makes it miscount:
\* such a helper hides stops of the programs launched after it.
NoLeaks == mishaps \subseteq {"connectFails", "bornStopped", "wakeLost"}

\* The state a user sees is the current target's, with the exec stub's start
\* shown as launching, and a debugger without a target says so: whatever the
\* nesting of notifications (on_target_state_changed, target::state).
TargetState == IF impl = "loaded" /\ stubThread THEN "launching" ELSE impl
FollowsTarget ==
  NoLeaks => IF impl = "none" THEN dbg \in {"initial", "connecting", "loading"}
             ELSE dbg = TargetState

\* Although it consults its own state only, and helpers run the target from
\* inside a notification, the debugger asks a target_impl for nothing its
\* contract forbids (the asserts of core_target_impl).
KeepsContract ==
  [][NoLeaks /\ impl # "none" /\ impl' # "none" => TargetContract!Next]_impl

\* A target with a thread waiting for the exec stub is loaded, has no other
\* request pending and cannot be closed under that thread, whatever goes wrong
\* (launch_terminal).
StubThreadAlone == stubThread => impl = "loaded" /\ reply = "none" /\ proc = "none"

\* A stop of the program is shown to the user: no helper takes it for one of
\* the temporary stops of a launch (debugger::launch, launch_helper).
ProgramStopsShown == [][NoLeaks /\ ProgramStop => dbg' = "stopped"]_vars

\* The temporary stops of a terminal launch are hidden: the stop at the exec
\* is followed by running, and no thread of the exec stub is ever listed
\* (target::clear_threads).
ExecStopsHidden == [][NoLeaks /\ ExecStop => dbg' = "running"]_vars
StubThreadsHidden == NoLeaks => shown \notin StubChild

\* The stub is a matter of the launch: nobody else acts on the target under
\* its thread, nobody sees its child's threads.
StubApart == TypeOK /\ StubThreadAlone /\ StubThreadsHidden

\* A launch has been answered, and its helper is gone, at the latest when
\* the target can be launched again (launch_helper::on_launched).
AnsweredWhenOver == NoLeaks /\ impl = "loaded" /\ ~stubThread => helpers = <<>>

\* A process that ends is announced by process_exited, whatever helpers and
\* failed launches come between, but for one that was detached from, and for
\* one that was born stopped and has not been shown running since. A failed
\* launch may be announced too, so this is not said the other way round
\* (target_was_running_, on_target_load_attach_complete).
ProcessEnds == proc # "none" /\ proc' = "none"
ExitAnnounced ==
  [][ /\ ProcessEnds /\ dbg # "detaching" =>
           \/ exitSignal' # exitSignal
           \/ "bornStopped" \in mishaps /\ dbg # "running" /\ ~wasRunning
      /\ dbg = "detaching" => exitSignal' = exitSignal ]_vars

\* Every launch is answered in the end, unless the stub's child has missed its
\* notification, which neither side repeats (exec_stub_struct::notify_continue).
LaunchAnswered ==
  helpers # <<>> /\ NoLeaks ~> helpers = <<>> \/ ("wakeLost" \in mishaps /\ Unwoken)
=============================================================================
