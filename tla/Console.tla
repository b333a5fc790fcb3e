------------------------------- MODULE Console -------------------------------
(***************************************************************************)
(* The console of cxxdbg-gui and the terminal of the executable, over      *)
(* dbg::application.                                                       *)
(*                                                                         *)
(* A command typed into the console is executed by the same functions the  *)
(* main window calls, in the same nested event loops, and its answer is    *)
(* given when they return: that it was done, that it was refused or        *)
(* declined, or the text of the exception they threw. Commands for LLDB    *)
(* and watchpoints are queued for the core thread and answered later, after*)
(* whatever has been answered meanwhile.                                   *)
(*                                                                         *)
(* The terminal listens to the target itself, before the debugger does. It *)
(* tells when the program exits, and takes input for it.                   *)
(***************************************************************************)
EXTENDS Application

CONSTANTS
  MaxLate,      \* bound: answers of the core thread pending at once
  Slips         \* the sets of slips a behaviour may have

\* What the console or the terminal takes for something else.
SlipKinds == {"early",     \* breakpoint commands in states they are refused in
              "both",      \* one command sets both exception breakpoints
              "nowhere",   \* "breakpoint set" does not say where
              "declines",  \* disconnecting is declined
              "reload",    \* a target is loaded after another one was closed
              "detach",    \* the process is detached from
              "bareAttach"}\* a process is attached to without a target

ASSUME SlipsAssumption == Slips \subseteq SUBSET SlipKinds /\ MaxLate \in Nat

VARIABLES
  call,         \* the command whose answer is outstanding, or "none"
  late,         \* the commands the core thread has still to answer
  points,       \* the list has a breakpoint
  termWasRunning, \* dbg_terminal::was_running_
  inTerm,       \* target::launched_in_term_
  ours,         \* history: the process was launched built-in, its output is here
  out,          \* the answers given in this step
  typed,        \* history: a command was typed in this step
  exited,       \* the terminal told in this step that the program exited
  slips         \* slips of this behaviour; never changes

consoleVars == <<call, late, points>>
terminalVars == <<termWasRunning, inTerm, ours, exited>>
allVars == <<vars, consoleVars, terminalVars, out, typed, slips>>

ProcessCommands == {"attach", "continue", "detach", "interrupt", "kill", "launch"}
TargetCommands == {"create", "delete"}
PlatformCommands == {"connect", "disconnect"}
StepCommands == {"step"}
SelectCommands == {"select"}             \* a thread or a frame
PointCommands == {"set", "modify"}       \* modify, or delete, enable, disable
WatchCommands == {"watch"}
ForLLDB == {"lldb"}
Commands == ProcessCommands \cup TargetCommands \cup PlatformCommands \cup StepCommands
            \cup SelectCommands \cup PointCommands \cup WatchCommands \cup ForLLDB \cup {"unknown"}

\* The commands executed by functions of the application that may wait.
StepsOf ==
  [attach |-> AttachSteps(FALSE), detach |-> DetachSteps, kill |-> TerminateSteps,
   launch |-> LaunchSteps, create |-> <<"load", "loading", "loaded">>,
   delete |-> CloseSteps, connect |-> ConnectSteps, disconnect |-> DisconnectSteps]

ConsoleInit ==
  /\ Init /\ call = "none" /\ late = <<>> /\ points = FALSE
  /\ termWasRunning = FALSE /\ inTerm = FALSE /\ ours = FALSE /\ exited = FALSE
  /\ out = <<>> /\ typed = FALSE /\ slips \in Slips

-----------------------------------------------------------------------------
(* Commands                                                                *)

\* The state a command is for, by the checks of the two processors.
Refused(c) ==
  \/ c = "unknown"
  \/ c \in {"kill", "detach"} /\ dbg \notin {"running", "stopped"}
  \/ c = "launch" /\ dbg # "loaded"
  \/ c = "create" /\ dbg # "initial"
  \/ c = "delete" /\ dbg = "initial"
  \/ c \in {"continue", "step", "select", "watch"} /\ dbg # "stopped"
  \/ c = "interrupt" /\ dbg # "running"
  \/ c \in PointCommands /\ dbg \notin {"stopped", "loaded"}

\* What is printed for the command c.
Says(c, result) == <<[of |-> c, result |-> result]>>

Refuse(c) ==
  /\ Refused(c) /\ c \notin PointCommands /\ out' = Says(c, "error")
  /\ UNCHANGED <<vars, consoleVars>>

\* The command is the function of the application it calls, then its answer.
Begin(c) ==
  /\ c \in DOMAIN StepsOf /\ ~Refused(c) /\ (c = "detach" => "detach" \in slips)
  /\ Command(StepsOf[c] \o <<"answer">>) /\ call' = c
  /\ out' = <<>> /\ UNCHANGED <<late, points>>

\* One request, or a selection, which no state modelled here shows.
Act(c) ==
  /\ c \in {"continue", "step", "interrupt", "select"} /\ ~Refused(c)
  /\ IF c = "select" THEN UNCHANGED vars ELSE Direct
  /\ out' = Says(c, "done") /\ UNCHANGED consoleVars

\* The check of a breakpoint command answers that it is refused, and does not
\* return: the command is executed and answered as any other.
CheckPoint(c) == IF Refused(c) THEN Says(c, "error") ELSE <<>>

\* The options are looked at before the state: some do not go together or make
\* no sense, and without any that says where nothing is done or answered.
SetPoint ==
  \/ points' = TRUE /\ out' = CheckPoint("set") \o Says("set", "done")
  \/ /\ "both" \in slips /\ points' = TRUE
     /\ out' = CheckPoint("set") \o Says("set", "done") \o CheckPoint("set") \o Says("set", "done")
  \/ UNCHANGED points /\ out' = Says("set", "error")
  \/ "nowhere" \in slips /\ UNCHANGED points /\ out' = <<>>

ModifyPoint ==
  \/ ~points /\ UNCHANGED points /\ out' = CheckPoint("modify") \o Says("modify", "error")
  \/ points /\ points' \in BOOLEAN /\ out' = CheckPoint("modify") \o Says("modify", "done")

Edit(c) ==
  /\ c \in PointCommands /\ (Refused(c) => "early" \in slips)
  /\ IF c = "set" THEN SetPoint ELSE ModifyPoint
  /\ UNCHANGED <<vars, call, late>>

\* Queued for the core thread; a watchpoint only in the stopped state.
Queue(c) ==
  /\ c \in ForLLDB \cup WatchCommands /\ ~Refused(c) /\ Len(late) < MaxLate
  /\ late' = Append(late, c) /\ out' = <<>> /\ UNCHANGED <<vars, call, points>>

Type ==
  /\ Free /\ call = "none"
  /\ \E c \in Commands : Refuse(c) \/ Begin(c) \/ Act(c) \/ Edit(c) \/ Queue(c)

-----------------------------------------------------------------------------
(* Answers                                                                 *)

\* The function returned.
Done ==
  /\ Alive /\ ~open /\ ~box /\ todo = <<"answer">> /\ todo' = <<>>
  /\ out' = Says(call, "done")
  /\ UNCHANGED <<debuggerVars, open, accepted, box, failed, broken, quit, lapses>>

\* The function returned that the user had declined to go on; disconnect does
\* not look at that.
Declined == call # "none" /\ todo = <<>>
Decline_AsDone ==
  /\ Declined /\ out' = Says(call, "done") /\ UNCHANGED vars
Decline ==
  /\ Declined /\ UNCHANGED vars
  /\ out' = Says(call, IF call = "disconnect" THEN "done" ELSE "error")

\* The function threw: in the main window a message box, here the answer.
Thrown == call # "none" /\ todo = <<"error">>
Catch ==
  /\ Thrown /\ todo' = <<>> /\ open' = FALSE /\ out' = Says(call, "error")
  /\ UNCHANGED <<debuggerVars, accepted, box, failed, broken, quit, lapses>>

Answered == (Done \/ Decline \/ Catch) /\ call' = "none" /\ UNCHANGED <<late, points>>

AnswerLate ==
  /\ Looping /\ ~Declined /\ ~Thrown /\ late # <<>> /\ late' = Tail(late)
  /\ \E result \in {"done", "error"} : out' = Says(Head(late), result)
  /\ UNCHANGED <<vars, call, points>>

\* The application goes on: the commands of the main window, given while none
\* of the console's is under way, and everything the event loops do.
Window ==
  /\ \/ User \/ Flow \/ Resume \/ Deliver \/ BoxClosed
     \/ Answer /\ (call = "disconnect" /\ todo' = <<>> => "declines" \in slips)
  /\ call = "none" \/ ~Free
  /\ ~Declined /\ ~Thrown
  /\ (todo = <<>> /\ todo' = DetachSteps => "detach" \in slips)
  /\ out' = <<>> /\ UNCHANGED consoleVars

-----------------------------------------------------------------------------
(* The terminal of the executable                                          *)

\* Set before the target's own state is: by target::launch, target::attach,
\* and in a new target.
LaunchedInTerm ==
  CASE impl = "none" -> FALSE
    [] reply = "none" /\ reply' = "launch" -> FALSE
    [] reply = "none" /\ reply' \in {"attach", "attachStub"} -> TRUE
    [] OTHER -> inTerm

\* The target told its listeners a state, of which the last counts.
Notified == impl \notin {"none", impl'} \/ stubThread' # stubThread
NewState == IF impl' = "loaded" /\ stubThread' THEN "launching" ELSE impl'

Listen_KeepsFlag ==
  IF ~Notified \/ LaunchedInTerm \/ NewState = "launching"
  THEN exited' = FALSE /\ UNCHANGED termWasRunning
  ELSE /\ exited' = (NewState = "loaded" /\ termWasRunning)
       /\ termWasRunning' = (termWasRunning \/ NewState # "loaded")
Listen ==
  IF ~Notified \/ LaunchedInTerm \/ NewState = "launching"
  THEN exited' = FALSE /\ UNCHANGED termWasRunning
  ELSE /\ exited' = (NewState = "loaded" /\ termWasRunning)
       /\ termWasRunning' = (NewState # "loaded")

CanSend == impl \in {"running", "stopped"} /\ ~inTerm

\* Which process is attached to, for the properties.
Owner == IF proc' = "none" THEN FALSE ELSE ours \/ reply = "launch"

Terminal ==
  /\ Listen /\ inTerm' = LaunchedInTerm /\ ours' = Owner
  /\ (impl = "none" /\ termWasRunning /\ reply' = "load" => "reload" \in slips)
  /\ (reply' = "attachNew" => "bareAttach" \in slips)
  /\ UNCHANGED slips

ConsoleNext ==
  /\ \/ Type /\ typed' = TRUE
     \/ (Answered \/ AnswerLate \/ Window) /\ typed' = FALSE
  /\ Terminal

ConsoleSpec == ConsoleInit /\ [][ConsoleNext]_allVars

-----------------------------------------------------------------------------
(* Properties                                                              *)

\* What an answer says is so when it is given: nothing of the command is
\* left, and the debugger is in the state asked for.
IsSo(c) ==
  /\ c \in DOMAIN StepsOf => reply' = "none" /\ ~stubThread' /\ helpers' = <<>>
  /\ c \in {"kill", "detach"} => dbg' = "loaded" /\ proc' = "none"
  /\ c \in {"delete", "disconnect"} => dbg' = "initial" /\ impl' = "none"
  /\ c = "disconnect" => platform' = "host"
  /\ c = "connect" => dbg' = "initial" /\ platform' = "remote"
  /\ c = "create" => dbg' = "loaded"
  /\ c = "launch" => dbg' \in {"loaded", "running"}
  /\ c = "attach" => dbg' = "running" /\ proc' = "program"

\* The commands whose answer is outstanding.
Owed == (IF call = "none" THEN 0 ELSE 1) + Len(late)

\* Every command is answered once: of those typed, no answer is dropped and none
\* is given twice, whatever dialogs, notifications and other commands come
\* between. What a command is said to have done is done, and a refused one does
\* nothing (cli_processor, dbg_cli_processor). The slips are named: commands for
\* breakpoints given too early, and both exception breakpoints, are answered
\* twice; a breakpoint to be set nowhere is not answered at all; a declined
\* disconnection is said to be done.
AnswersSound ==
  [][/\ slips \cap {"early", "both", "nowhere"} = {} =>
          Owed' + Len(out') = Owed + (IF typed' THEN 1 ELSE 0)
     /\ slips \cap {"early", "both", "declines"} = {} =>
          \A i \in DOMAIN out' :
            /\ out'[i].result = "done" => IsSo(out'[i].of)
            /\ out'[i].result = "error" /\ call = "none" => UNCHANGED <<debuggerVars, points>>]_allVars

\* "The signal is emitted when process exited" (terminal.hpp): when the
\* program launched here has gone, and then only, but the terminal takes a
\* detached process, and one of an earlier target, for it. Input is for that
\* program, unless the target is one it was attached with.
TerminalSound ==
  [][/\ slips \cap {"reload", "detach", "bareAttach"} = {} =>
          (exited' <=> ours /\ ~ours' /\ dbg # "detaching")
     /\ ("bareAttach" \notin slips => (CanSend => ours))']_allVars
=============================================================================
