----------------------------- MODULE Application -----------------------------
(***************************************************************************)
(* dbg::application and the windows of cxxdbg-gui above dbg::debugger: the *)
(* main thread while it waits.                                             *)
(*                                                                         *)
(* The commands that need several requests (closing, attaching, ending a   *)
(* process, ...) are ordinary functions that open a modal dialog and run a *)
(* nested event loop until it is closed: a question the user answers, or a *)
(* progress dialog the user cannot close, which a notification of the      *)
(* debugger accepts. Accepting only marks the loop: it is left when the    *)
(* posted events are handled, so more of them may come in between, and the *)
(* function goes on in whatever state they leave. One more loop runs       *)
(* inside a notification: the message box of a stop at a watchpoint.       *)
(*                                                                         *)
(* The debugger below is the one of Debugger.tla, every action of it taken *)
(* here either by a command or by the event loop that runs.                *)
(***************************************************************************)
EXTENDS Naturals, Sequences, SequencesExt

CONSTANTS
  WordMod, MaxHelpers, Scenarios,   \* those of Debugger
  Lapses        \* the sets of further mishaps a behaviour may have

\* What a command under way is not prepared for, one behaviour at a time.
LapseKinds == {"endsMeanwhile", \* the process exits while the user is asked whether
                                \* to kill it, or detach waits for it to stop
               "stopsAtOnce",   \* it stops before launch() has left its dialog
               "answersLate",   \* attach() is answered after do_attach has returned
               "commandFails",  \* Halt, Kill or Detach reports an error, to nobody
               "killed"}        \* a stopped process is killed from outside

ASSUME LapsesAssumption == Lapses \subseteq SUBSET LapseKinds
ASSUME WordAssumption == WordMod \in Nat /\ WordMod > 2

VARIABLES
  dbg, impl, stubThread, reply, helpers, wasRunning, platform, corePlatform,
  proc, shown, stopAsked, exitSignal, mishaps,      \* those of Debugger
  todo,         \* the rest of the command under way, one step after the other
  open,         \* the dialog Head(todo) is open, its nested event loop running
  accepted,     \* the dialog was closed, its loop not left yet
  box,          \* the message box of a watchpoint is open, above all else
  failed,       \* the result the launch or connect under way left behind
  broken,       \* the assertion that failed, if one did; the program is gone
  quit,         \* the main window is closed
  lapses        \* further mishaps of this behaviour; never changes

D == INSTANCE Debugger

debuggerVars == <<dbg, impl, stubThread, reply, helpers, wasRunning, platform,
                  corePlatform, proc, shown, stopAsked, exitSignal, mishaps>>
shellVars == <<todo, open, accepted, box, failed, broken, quit, lapses>>
vars == <<debuggerVars, shellVars>>

\* The progress dialogs display_progress_while shows, by the state waited out.
WaitState == [loading |-> "loading", attaching |-> "launching", stopping |-> "running",
              terminating |-> "terminating", detaching |-> "detaching",
              unloading |-> "unloading"]
\* Progress dialogs: those, and the two closed by the handler of their request.
Progress == DOMAIN WaitState \cup {"launching", "connecting"}
Questions == {"askTerminate", "askClose"}

Dialog == IF open THEN Head(todo) ELSE "none"

Init ==
  /\ D!Init
  /\ todo = <<>> /\ open = FALSE /\ accepted = FALSE /\ box = FALSE
  /\ failed = FALSE /\ broken = "none" /\ quit = FALSE
  /\ lapses \in Lapses

-----------------------------------------------------------------------------
(* The commands, step by step                                              *)
TerminateSteps == <<"stop", "stopping", "terminate", "terminating", "ended">>
DetachSteps == <<"stop", "stopping", "detach", "detaching", "ended">>
CloseSteps == <<"close", "askTerminate", "closeTarget", "unloading", "closed">>
ConnectSteps == <<"askClose", "connect", "connecting", "connected">>
DisconnectSteps == <<"askClose", "disconnect">>
LaunchSteps == <<"launch", "launching", "launched">>

\* Optionally connecting to a platform first, which closes the target again.
LoadSteps(withPlatform) ==
  <<"askClose">> \o (IF withPlatform THEN ConnectSteps ELSE <<>>)
                 \o <<"load", "loading", "loaded">>
AttachSteps(withPlatform) ==
  <<"askTerminate">> \o (IF withPlatform THEN ConnectSteps ELSE <<>>)
                     \o <<"attach", "loading", "attaching", "attached">>

Alive == broken = "none" /\ ~quit

\* The user reaches the main window only while no dialog is open.
Free == Alive /\ todo = <<>> /\ ~box

Command(steps) ==
  /\ Free /\ todo' = steps
  /\ UNCHANGED <<debuggerVars, open, accepted, box, failed, broken, quit, lapses>>

\* The actions of the main window, each enabled by the state shown.
Start == dbg = "loaded" /\ Command(LaunchSteps)
StopDebugging == dbg \in {"running", "stopped"} /\ Command(TerminateSteps)
DetachFromProcess == dbg \in {"running", "stopped"} /\ Command(DetachSteps)
CloseExecutable == dbg # "initial" /\ Command(CloseSteps)
LoadExecutable == \E p \in BOOLEAN : Command(LoadSteps(p))
AttachToProcess == \E p \in BOOLEAN : Command(AttachSteps(p))
ConnectToPlatform == dbg # "connecting" /\ Command(ConnectSteps)
DisconnectFromPlatform == dbg # "connecting" /\ platform # "host" /\ Command(DisconnectSteps)
CloseWindow == Command(IF dbg = "initial" THEN <<"quit">> ELSE CloseSteps \o <<"quit">>)

\* Continue, the steps, Interrupt: one request each, no dialog. The target is
\* resumed, ended and released from the stopped state only, which the debugger
\* asserts of its own state and core_target_impl of the target's.
Stopped == dbg = "stopped" /\ impl = "stopped"

Direct ==
  /\ Free
  /\ \/ Stopped /\ D!Run /\ UNCHANGED shellVars
     \/ dbg = "running" /\ D!Stop /\ UNCHANGED shellVars
     \/ /\ dbg = "stopped" /\ ~Stopped /\ broken' = "run"
        /\ UNCHANGED <<debuggerVars, todo, open, accepted, box, failed, quit, lapses>>

User == \/ Start \/ StopDebugging \/ DetachFromProcess \/ CloseExecutable
        \/ LoadExecutable \/ AttachToProcess \/ ConnectToPlatform
        \/ DisconnectFromPlatform \/ CloseWindow \/ Direct

-----------------------------------------------------------------------------
(* A step of the command under way: the main thread runs, no loop does.    *)
Running(step) ==
  /\ Alive /\ ~open /\ ~box /\ todo # <<>> /\ Head(todo) = step
  /\ UNCHANGED <<accepted, box, quit, lapses>>

Go(rest) == todo' = rest /\ open' = FALSE /\ UNCHANGED <<broken>>
Show == open' = TRUE /\ UNCHANGED <<todo, broken>>
\* An exception ends the command; the slot's wrapper shows it in a box.
Throw == todo' = <<"error">> /\ open' = TRUE /\ UNCHANGED <<broken>>
Break(step) == broken' = step /\ UNCHANGED <<debuggerVars, todo, open>>

\* A step that asserts cond, then does act and goes on with rest.
Step(step, cond, act, rest) ==
  /\ Running(step) /\ UNCHANGED failed
  /\ IF cond THEN act /\ Go(rest) ELSE Break(step)

Nothing == UNCHANGED debuggerVars

\* application::terminate and detach: stop the process and wait for that.
StopStep ==
  Step("stop", dbg \in {"running", "stopped"},
       IF dbg = "running" THEN D!Stop ELSE Nothing, Tail(todo))

\* terminate looks whether the process has exited meanwhile, detach does not.
TerminateStep_NoLook ==
  Step("terminate", Stopped,
       D!EndProcess /\ dbg' = "terminating", Tail(todo))

TerminateStep ==
  \/ dbg = "loaded" /\ Step("terminate", TRUE, Nothing, SubSeq(todo, 4, Len(todo)))
  \/ dbg # "loaded" /\ Step("terminate", Stopped,
                            D!EndProcess /\ dbg' = "terminating", Tail(todo))
DetachStep ==
  Step("detach", Stopped, D!EndProcess /\ dbg' = "detaching", Tail(todo))

\* What the ends of terminate, detach, close and load_target assert.
CheckStep ==
  \/ Step("ended", dbg = "loaded", Nothing, Tail(todo))
  \/ Step("closed", dbg = "initial", Nothing, Tail(todo))

\* close is for a debugger with a target: has_target of a debugger that is
\* loading or unloading says no.
CloseStep == Step("close", dbg \notin {"initial", "connecting", "loading", "unloading"},
                  Nothing, Tail(todo))
CloseTargetStep == Step("closeTarget", dbg = "loaded", D!CloseTarget, Tail(todo))
ConnectStep == Step("connect", dbg = "initial", D!Connect, Tail(todo))
DisconnectStep == Step("disconnect", dbg = "initial", D!Disconnect, Tail(todo))
LoadStep == Step("load", dbg = "initial", D!Load /\ reply' = "load", Tail(todo))
AttachStep ==
  Step("attach", dbg \in {"initial", "loaded"},
       D!Attach \/ (D!Load /\ reply' = "attachNew"), Tail(todo))

\* launch_terminal may throw before anything has changed.
LaunchStep ==
  /\ Running("launch") /\ failed' = FALSE
  /\ IF dbg # "loaded" THEN Break("launch")
     ELSE /\ D!LaunchBuiltin \/ D!LaunchInTerminal
          /\ IF dbg' = "launching" THEN Go(Tail(todo)) ELSE Throw

\* The results the commands end with.
LaunchedStep ==
  /\ Running("launched") /\ UNCHANGED failed
  /\ IF dbg \notin {"loaded", "running"} THEN Break("launched")
     ELSE Nothing /\ IF failed THEN Throw ELSE Go(Tail(todo))
ConnectedStep ==
  /\ Running("connected") /\ Nothing /\ UNCHANGED failed
  /\ IF failed THEN Throw ELSE Go(Tail(todo))
LoadedStep ==
  /\ Running("loaded") /\ UNCHANGED failed
  /\ IF dbg \notin {"loaded", "initial"} THEN Break("loaded")
     ELSE Nothing /\ IF dbg = "initial" THEN Throw ELSE Go(Tail(todo))
AttachedStep ==
  /\ Running("attached") /\ UNCHANGED failed
  /\ CASE dbg = "stopped" -> D!Run /\ Go(Tail(todo))
       [] dbg = "running" -> Nothing /\ Go(Tail(todo))
       [] OTHER -> Nothing /\ Throw

\* closeEvent accepts, and the application ends.
QuitStep ==
  /\ Alive /\ ~open /\ ~box /\ todo = <<"quit">>
  /\ quit' = TRUE /\ todo' = <<>>
  /\ UNCHANGED <<debuggerVars, open, accepted, box, failed, broken, lapses>>

\* display_progress_while opens nothing when the state has passed already;
\* the dialogs of launch and connect are opened in any case.
WaitStep_Always ==
  \E d \in Progress :
    /\ Running(d) /\ Nothing /\ failed' = (failed /\ d \notin {"launching", "connecting"})
    /\ Show
WaitStep ==
  \E d \in Progress :
    /\ Running(d) /\ Nothing /\ failed' = (failed /\ d \notin {"launching", "connecting"})
    /\ IF d \in DOMAIN WaitState /\ dbg # WaitState[d] THEN Go(Tail(todo)) ELSE Show

\* ask_terminate and ask_and_close ask only when there is something to lose.
AskStep ==
  \E q \in Questions :
    /\ Running(q) /\ Nothing /\ UNCHANGED failed
    /\ IF dbg = "initial" \/ (q = "askTerminate" /\ dbg = "loaded")
       THEN Go(Tail(todo)) ELSE Show

Flow == \/ StopStep \/ TerminateStep \/ DetachStep \/ CheckStep \/ CloseStep
        \/ CloseTargetStep \/ ConnectStep \/ DisconnectStep \/ LoadStep
        \/ AttachStep \/ LaunchStep \/ LaunchedStep \/ ConnectedStep
        \/ LoadedStep \/ AttachedStep \/ QuitStep \/ WaitStep \/ AskStep

-----------------------------------------------------------------------------
(* What the event loop that runs does: input for the topmost dialog, and   *)
(* closures posted by the threads below.                                   *)
Answer ==
  /\ Alive /\ open /\ ~box /\ ~accepted /\ Head(todo) \in Questions \cup {"error"}
  /\ \/ Head(todo) = "askTerminate" /\ Go(TerminateSteps \o Tail(todo))
     \/ Head(todo) = "askClose" /\ Go(CloseSteps \o Tail(todo))
     \/ Go(<<>>)
  /\ UNCHANGED <<debuggerVars, accepted, box, failed, quit, lapses>>

\* The loop of an accepted progress dialog is left; the stop an attach causes
\* may accept it before the result is there, for which do_attach does not look.
Resume ==
  /\ Alive /\ open /\ accepted /\ ~box /\ accepted' = FALSE /\ Go(Tail(todo))
  /\ Head(todo) = "attaching" /\ reply = "attach" => "answersLate" \in lapses
  /\ UNCHANGED <<debuggerVars, box, failed, quit, lapses>>

Looping == Alive /\ (open \/ box \/ todo = <<>>)

\* The notification of a state, "stopped" among them even if a helper runs the
\* target on within it, accepts the dialog that waits for the state to pass.
Accepts(isStop) ==
  \/ Dialog \in DOMAIN WaitState
     /\ (dbg' # WaitState[Dialog] \/ (isStop /\ Dialog = "stopping"))
  \/ Dialog = "launching" /\ Len(helpers') < Len(helpers)
  \/ Dialog = "connecting" /\ reply = "connect" /\ reply' = "none"

\* The handlers of launch and connect keep their result for the command.
KeepResult ==
  CASE Dialog = "launching" /\ Len(helpers') < Len(helpers) -> failed' = (dbg' = "loaded")
    [] Dialog = "connecting" /\ reply = "connect" /\ reply' = "none" ->
         failed' \in (IF platform' = "host" THEN {TRUE}
                      ELSE IF platform = "remote" /\ "connectFails" \in mishaps
                      THEN BOOLEAN ELSE {FALSE})
    [] OTHER -> UNCHANGED failed

Handled(isStop) ==
  /\ accepted' = (accepted \/ Accepts(isStop)) /\ KeepResult
  /\ UNCHANGED <<todo, open, broken, quit, lapses>>

Unprepared == "stopsAtOnce" \notin lapses /\ Dialog = "launching" /\ accepted

DeliverResult == Looping /\ D!Result /\ Handled(FALSE) /\ UNCHANGED box

DeliverStop ==
  /\ Looping /\ ~Unprepared
  /\ D!AttachStop \/ D!ExecStop \/ D!ProgramStop \/ D!EarlyStop
  /\ Handled(TRUE) /\ UNCHANGED box

DeliverExit ==
  /\ Looping
  /\ impl = "running" /\ "endsMeanwhile" \notin lapses =>
       Dialog # "askTerminate" /\ (Dialog = "stopping" => todo[2] # "detach")
  /\ D!Exit /\ Handled(FALSE) /\ UNCHANGED box

\* A stopped process is killed from outside: its exit is reported as any other.
DeliverKilled ==
  /\ Looping /\ "killed" \in lapses /\ impl = "stopped" /\ reply = "none"
  /\ impl' = "loaded" /\ D!Notify("loaded") /\ proc' = "none" /\ stopAsked' = FALSE
  /\ UNCHANGED <<box, stubThread, reply, helpers, platform, corePlatform, mishaps>>
  /\ Handled(FALSE)

\* A stop at a watchpoint opens its message box before the state is set ...
WatchpointStop ==
  /\ Looping /\ ~Unprepared /\ ~box /\ box' = TRUE
  /\ impl = "running" /\ proc = "program" /\ reply = "none" /\ helpers = <<>>
  /\ impl' = "stopped" /\ shown' = proc /\ wasRunning' = TRUE /\ stopAsked' = FALSE
  /\ UNCHANGED <<dbg, stubThread, reply, helpers, platform, corePlatform, proc,
                 exitSignal, mishaps, todo, open, accepted, failed, broken, quit, lapses>>

\* ... and the state is set when the user has closed it.
BoxClosed ==
  /\ Alive /\ box /\ box' = FALSE /\ dbg' = "stopped"
  /\ UNCHANGED <<impl, stubThread, reply, helpers, wasRunning, platform, corePlatform, proc,
                 shown, stopAsked, exitSignal, mishaps>>
  /\ Handled(TRUE)

Deliver == DeliverResult \/ DeliverStop \/ DeliverExit \/ DeliverKilled \/ WatchpointStop

Next == User \/ Flow \/ Answer \/ Resume \/ Deliver \/ BoxClosed

Spec == Init /\ [][Next]_vars

\* The main thread runs on, a user dismisses message boxes, requests are
\* answered as Debugger assumes, a child that was woken goes on to exec or ends,
\* and a process told to stop, to end or to go does so unless LLDB refuses.
Obeyed == \/ Dialog = "stopping" /\ (DeliverStop \/ DeliverExit \/ WatchpointStop)
          \/ impl \in {"terminating", "detaching"} /\ DeliverExit

FairSpec ==
  /\ Spec
  /\ WF_vars(Flow) /\ WF_vars(Resume) /\ WF_vars(BoxClosed)
  /\ WF_vars(DeliverResult) /\ WF_vars(DeliverStop /\ impl # "running")
  /\ WF_vars(proc = "released" /\ (DeliverStop \/ DeliverExit))
  /\ WF_vars("commandFails" \notin lapses /\ Obeyed)

-----------------------------------------------------------------------------
(* Properties                                                              *)

\* No leaked launch_helper, no exec stub that ends early (Debugger.tla).
Orderly == mishaps \subseteq {"connectFails", "bornStopped", "wakeLost"}

\* The state assertions of application.cpp and debugger.cpp hold in every
\* command, whatever is delivered in its nested loops; a lapse breaks no other
\* assertions than those named here (terminate, detach, launch).
BreaksOn(l) ==
  CASE l = "endsMeanwhile" -> {"stop", "detach"}
    [] l = "stopsAtOnce" -> {"launched"}
    [] l \in {"answersLate", "commandFails"} -> {}
    [] OTHER -> {"stop", "run", "terminate", "detach"}
AssertsHold == Orderly => broken \in {"none"} \cup UNION {BreaksOn(l) : l \in lapses}

\* When the user can give a command, no other is under way: no request is
\* pending, and the state shown is the target's and one of those the actions
\* of the main window are made for (updateActionsStatus, updateMenuStatus).
\* The window closes over nothing: no target, no request, no process that was
\* being debugged is left when the program ends (closeEvent, close).
FreeMeansSettled ==
  Free /\ lapses \cap {"killed", "answersLate"} = {} =>
    /\ reply = "none" /\ ~stubThread /\ helpers = <<>>
    /\ dbg \in {"initial", "loaded", "running", "stopped"}
    /\ D!FollowsTarget
QuitLeavesNothing ==
  quit => impl = "none" /\ reply = "none" /\ proc = "none" /\ ~stubThread

\* The commands assert what is so, and end with everything settled.
ShellSound == AssertsHold /\ QuitLeavesNothing /\ (Orderly => FreeMeansSettled)

\* A progress dialog, which no user can close, is closed (display_progress_while,
\* launch, ask_and_connect), whatever is delivered before it is opened. Two are
\* not: that of a launch whose child has missed its notification, and that of a
\* process which LLDB fails to stop, kill or detach from.
StaysOpen ==
  \/ Dialog = "launching" /\ "wakeLost" \in mishaps /\ D!Unwoken
  \/ Dialog \in {"stopping", "terminating", "detaching"} /\ "commandFails" \in lapses
ProgressEnds ==
  Dialog \in Progress /\ Orderly /\ Alive ~> Dialog \notin Progress \/ StaysOpen
=============================================================================
