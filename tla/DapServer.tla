----------------------------- MODULE DapServer -----------------------------
(***************************************************************************)
(* The debug adapter: dapsrv::server_impl, the child process it holds      *)
(* (debug_child_process, client_term_debug_child_process or                *)
(* nodebug_child_process), and LLDB below.                                 *)
(*                                                                         *)
(* One ASIO thread runs everything: requests as they are read, and the     *)
(* closures LLDB's event thread posts, in their order (asio_event_queue).  *)
(* A request looks at the process as it is, not as the last event handled  *)
(* left it, and a stop or an exit whose event is still queued is what      *)
(* makes them differ. An exception a request throws is answered as an      *)
(* error; one that escapes from a closure, or a failed assertion, ends the *)
(* server.                                                                 *)
(*                                                                         *)
(* The client, which is not part of the program, launches or attaches once *)
(* with success, ends its configuration once, and resumes only what it was *)
(* told has stopped.                                                       *)
(***************************************************************************)
EXTENDS Naturals, Sequences

CONSTANT
  Scenarios     \* the sets of mishaps a behaviour may have

\* What may happen besides the ordinary, one behaviour at a time.
MishapKinds ==
  {"hastyTerminate", \* terminate during the initial stops, or before the news of a stop
   "hastyPause",     \* pause during the initial stops, or before the news of the exit
   "commandFails",   \* Continue, Halt or Kill reports an error
   "earlyExit",      \* the process exits before its launch has returned
   "noInitialStop",  \* a launch without the stop the server is going to skip
   "attachStop",     \* LLDB reports the stop of an attach as an event, too
   "functionsLater"} \* function breakpoints are set after exception filters

ASSUME ScenariosAssumption == Scenarios \subseteq SUBSET MishapKinds

VARIABLES
  server,       \* "up"; "closed" by notify_exited; "down" for good
  disconnect,   \* server_impl::disconnect_requested_
  input,        \* the client's stream is open
  child,        \* the kind of child_
  target,       \* debug_child_process::targ_ exists
  config,       \* the configurationDone request and its completion handler
  saved,        \* the kinds of breakpoints server_impl keeps for a later child
  installed,    \* the kinds of breakpoints the target holds
  ehPointers,   \* eh_thrown_bp_, eh_caught_bp_ are set
  asked,        \* the kinds of breakpoints the client last asked for
  skip,         \* num_skip_init_stops_
  launching,    \* is_launching_
  stoppedEarly, \* is_stopped_after_launching_
  terminating,  \* terminate_requested_
  refs,         \* frames_ and vars_: empty, of this stop, of an earlier one
  proc,         \* the process as target_base::state() sees it
  ahead,        \* the initial stops still to come
  queue,        \* closures posted by LLDB's event thread
  told,         \* what the client was told of the process
  mishaps       \* what may go wrong in this behaviour; never changes

serverVars == <<server, disconnect, input>>
bpVars == <<saved, installed, ehPointers, asked>>
launchVars == <<skip, launching, stoppedEarly>>
procVars == <<proc, ahead, queue>>
vars == <<serverVars, child, target, config, bpVars, launchVars, terminating, refs,
          procVars, told, mishaps>>

Children == {"none", "direct", "terminal", "attached", "nodebug"}
Breakpoints == {"source", "function", "exception"}
Events == {"initStop", "stop", "running", "exited", "done"}

TypeOK ==
  /\ server \in {"up", "closed", "down"} /\ child \in Children
  /\ disconnect \in BOOLEAN /\ input \in BOOLEAN /\ target \in BOOLEAN
  /\ config \in {"no", "asked", "done", "failed"}
  /\ saved \subseteq Breakpoints /\ installed \subseteq Breakpoints
  /\ asked \subseteq Breakpoints /\ ehPointers \in BOOLEAN
  /\ skip \in 0..2 /\ launching \in BOOLEAN /\ stoppedEarly \in BOOLEAN
  /\ terminating \in BOOLEAN /\ refs \in {"none", "current", "old"}
  /\ proc \in {"none", "stopped", "running"} /\ ahead \in 0..1
  /\ queue \in Seq(Events)
  /\ told \in {"nothing", "running", "stopped", "exited"}
  /\ mishaps \subseteq MishapKinds

Init ==
  /\ server = "up" /\ disconnect = FALSE /\ input = TRUE
  /\ child = "none" /\ target = FALSE /\ config = "no"
  /\ saved = {} /\ installed = {} /\ asked = {} /\ ehPointers = FALSE
  /\ skip = 0 /\ launching = FALSE /\ stoppedEarly = FALSE
  /\ terminating = FALSE /\ refs = "none"
  /\ proc = "none" /\ ahead = 0 /\ queue = <<>> /\ told = "nothing"
  /\ mishaps \in Scenarios

-----------------------------------------------------------------------------
(* Requests                                                                *)

\* A request is read while the client has not ended the session.
Request == server = "up" /\ input /\ ~disconnect /\ UNCHANGED mishaps

Debugging == child \in {"direct", "terminal", "attached"} /\ target

\* LLDB resumes the process; what was handed out for this stop is then old,
\* unless prepare_to_run has dropped it.
Resume(q, left) ==
  /\ proc' = "running" /\ queue' = Append(q, "running")
  /\ refs' = IF left = "none" THEN "none" ELSE "old"

NewSet(set, kind, on) == IF on THEN set \cup {kind} ELSE set \ {kind}

\* setBreakpoints, as it is setInstructionBreakpoints: kept, or forwarded to
\* a target, which drops its old ones first.
SetSourceBreakpoints(on) ==
  /\ Request /\ (child = "none" \/ Debugging)
  /\ asked' = NewSet(asked, "source", on)
  /\ saved' = IF child = "none" THEN NewSet(saved, "source", on) ELSE saved
  /\ installed' = IF child = "none" THEN installed ELSE NewSet(installed, "source", on)
  /\ UNCHANGED <<serverVars, child, target, config, ehPointers, launchVars, terminating,
                 refs, procVars, told>>

\* The target drops every breakpoint that is set on a function, those of the
\* exception filters among them.
SetFunctionBreakpoints(on) ==
  /\ Request /\ (child = "none" \/ Debugging)
  /\ "exception" \in installed => "functionsLater" \in mishaps
  /\ asked' = NewSet(asked, "function", on)
  /\ saved' = IF child = "none" THEN NewSet(saved, "function", on) ELSE saved
  /\ installed' = IF child = "none" THEN installed
                  ELSE NewSet(installed \ {"exception"}, "function", on)
  /\ UNCHANGED <<serverVars, child, target, config, ehPointers, launchVars, terminating,
                 refs, procVars, told>>

\* set_eh_breakpoints removes by pointer, whatever became of the breakpoints.
SetExceptionBreakpoints(on) ==
  /\ Request /\ (child = "none" \/ Debugging)
  /\ asked' = NewSet(asked, "exception", on)
  /\ \/ /\ child = "none" /\ saved' = NewSet(saved, "exception", on)
        /\ UNCHANGED <<installed, ehPointers, server>>
     \/ /\ child # "none" /\ installed' = NewSet(installed, "exception", on)
        /\ ehPointers' = on /\ UNCHANGED <<saved, server>>
     \/ /\ child # "none" /\ ehPointers /\ "exception" \notin installed
        /\ server' = "down" /\ UNCHANGED <<saved, installed, ehPointers>>
  /\ UNCHANGED <<disconnect, input, child, target, config, launchVars, terminating,
                 refs, procVars, told>>

\* install_breakpoints, the last step of prepare_target
Install ==
  target' = TRUE /\ installed' = saved /\ ehPointers' = ("exception" \in saved)

\* The child is set first: loading may throw and leave it without a target.
Launch ==
  /\ Request /\ child = "none"
  /\ \/ child' \in {"direct", "terminal"} /\ Install
     \/ child' \in {"direct", "terminal", "nodebug"}
        /\ UNCHANGED <<target, installed, ehPointers>>
  /\ UNCHANGED <<serverVars, config, saved, asked, launchVars, terminating, refs,
                 procVars, told>>

\* attach replaces a child, here one that has no target.
Attach ==
  /\ Request /\ child # "nodebug" /\ ~target /\ config = "no"
  /\ child' = "attached"
  /\ \/ /\ Install /\ proc' = "stopped"
        /\ queue' = IF "attachStop" \in mishaps THEN <<"stop">> ELSE <<>>
     \/ UNCHANGED <<target, installed, ehPointers, proc, queue>>
  /\ UNCHANGED <<serverVars, config, saved, asked, launchVars, terminating, refs,
                 ahead, told>>

\* process_configuration_done of an attached process runs it.
ConfigureAttached ==
  /\ Request /\ Debugging /\ child = "attached" /\ config = "no" /\ told # "exited"
  /\ \/ /\ proc = "stopped" /\ Resume(queue, refs)
        /\ config' = "done" /\ told' = "running" /\ UNCHANGED server
     \/ /\ proc = "stopped" /\ "commandFails" \in mishaps
        /\ config' = "failed" /\ UNCHANGED <<proc, queue, refs, told, server>>
     \/ /\ proc # "stopped"
        /\ server' = "down" /\ UNCHANGED <<proc, queue, refs, told, config>>
  /\ UNCHANGED <<disconnect, input, child, target, bpVars, launchVars, terminating, ahead>>

\* process_configuration_done that launches from LLDB: one initial stop is
\* expected, before launch() returns or after; the completion is posted
\* behind the events of the launch (post_lldb_event).
ConfigureDirect ==
  /\ Request /\ Debugging /\ child = "direct" /\ config = "no"
  /\ skip' = 1
  /\ \/ /\ config' = "asked" /\ launching' = TRUE
        /\ \/ proc' = "stopped" /\ ahead' = 0 /\ queue' = <<"initStop", "done">>
           \/ /\ proc' = "running" /\ queue' = <<"running", "done">>
              /\ ahead' \in IF "noInitialStop" \in mishaps THEN {0, 1} ELSE {1}
           \/ /\ "earlyExit" \in mishaps
              /\ proc' = "none" /\ ahead' = 0 /\ queue' = <<"running", "exited", "done">>
     \/ config' = "failed" /\ UNCHANGED <<launching, procVars>>
  /\ UNCHANGED <<serverVars, child, target, bpVars, stoppedEarly, terminating, refs, told>>

\* process_configuration_done with the exec stub: the client is asked to run
\* it in a terminal.
ConfigureInTerminal ==
  /\ Request /\ config = "no"
  /\ (child = "terminal" /\ target) \/ child = "nodebug"
  /\ config' = "asked"
  /\ UNCHANGED <<serverVars, child, target, bpVars, launchVars, terminating, refs,
                 procVars, told>>

TerminalAttached_Miscounts ==
  /\ server = "up" /\ input /\ child = "terminal" /\ config = "asked"
  /\ ahead' = 1 /\ skip' = 2
  /\ \/ Resume(queue, refs) /\ config' = "done" /\ told' = "running"
     \/ /\ "commandFails" \in mishaps
        /\ proc' = "stopped" /\ config' = "failed" /\ UNCHANGED <<queue, refs, told>>
  /\ UNCHANGED <<serverVars, child, target, bpVars, launching, stoppedEarly, terminating, mishaps>>

\* The client has run the stub. attach() reports the stub's stop itself, and
\* its handler resumes the process before attach() has returned.
TerminalAttached ==
  /\ server = "up" /\ input /\ child = "terminal" /\ config = "asked"
  /\ ahead' = 1 /\ skip' = 1
  /\ \/ Resume(queue, refs) /\ config' = "done" /\ told' = "running"
     \/ /\ "commandFails" \in mishaps
        /\ proc' = "stopped" /\ config' = "failed" /\ UNCHANGED <<queue, refs, told>>
  /\ UNCHANGED <<serverVars, child, target, bpVars, launching, stoppedEarly, terminating, mishaps>>

\* The same without debugging: only the end of the process is watched.
TerminalStarted ==
  /\ server = "up" /\ input /\ child = "nodebug" /\ config = "asked"
  /\ proc' = "running" /\ config' = "done" /\ told' = "running"
  /\ UNCHANGED <<serverVars, child, target, bpVars, launchVars, terminating, refs, ahead,
                 queue, mishaps>>

\* The client reports an error, no PID arrives, or attach() throws.
TerminalFailed ==
  /\ server = "up" /\ input /\ child \in {"terminal", "nodebug"} /\ config = "asked"
  /\ config' = "failed"
  /\ skip' \in IF child = "terminal" THEN {0, 2} ELSE {0}
  /\ UNCHANGED <<serverVars, child, target, bpVars, launching, stoppedEarly, terminating,
                 refs, procVars, told, mishaps>>

\* continue, next, stepIn, stepOut: prepare_to_run first, then the target
Continue ==
  /\ Request /\ Debugging /\ told = "stopped" /\ proc = "stopped"
  /\ \/ Resume(queue, "none") /\ told' = "running"
     \/ "commandFails" \in mishaps /\ refs' = "none" /\ UNCHANGED <<proc, queue, told>>
  /\ UNCHANGED <<serverVars, child, target, config, bpVars, launchVars, terminating, ahead>>

\* stackTrace, and through it scopes, variables and evaluate
StackTrace ==
  /\ Request /\ Debugging /\ told = "stopped" /\ proc = "stopped" /\ refs = "none"
  /\ refs' = "current"
  /\ UNCHANGED <<serverVars, child, target, config, bpVars, launchVars, terminating,
                 procVars, told>>

\* A stop or an exit the client has not been told of is queued.
NewsPending(news) == \E i \in 1..Len(queue) : queue[i] \in news
Starting == config \in {"no", "asked"} \/ (skip # 0 /\ proc # "none")

Halt ==
  \/ proc' = "stopped" /\ queue' = Append(queue, "stop")
  \/ "commandFails" \in mishaps /\ UNCHANGED <<proc, queue>>

\* target_base::stop asserts a process, and of a stopped one reports an error.
Pause ==
  /\ Request /\ Debugging /\ told = "running"
  /\ Starting \/ proc = "none" => "hastyPause" \in mishaps
  /\ \/ proc = "running" /\ Halt /\ UNCHANGED server
     \/ proc = "none" /\ server' = "down" /\ UNCHANGED <<proc, queue>>
  /\ UNCHANGED <<disconnect, input, child, target, config, bpVars, launchVars, terminating,
                 refs, ahead, told>>

\* Kills a stopped process at once, and a running one when it has stopped.
Terminate ==
  /\ Request /\ Debugging /\ proc # "none"
  /\ Starting \/ NewsPending({"stop"}) => "hastyTerminate" \in mishaps
  /\ terminating' = TRUE
  /\ \/ proc = "running" /\ Halt
     \/ proc = "stopped" /\ proc' = "none" /\ queue' = Append(queue, "exited")
     \/ proc = "stopped" /\ "commandFails" \in mishaps /\ UNCHANGED <<proc, queue>>
  /\ UNCHANGED <<serverVars, child, target, config, bpVars, launchVars, refs, ahead, told>>

\* nodebug_child_process::terminate uses its monitor, which exists from the
\* start of the process to the news of its end.
TerminateUndebugged ==
  /\ Request /\ child = "nodebug"
  /\ \/ /\ told = "running" /\ proc = "running"
        /\ proc' = "none" /\ queue' = Append(queue, "exited") /\ UNCHANGED server
     \/ /\ told # "running" /\ "hastyTerminate" \in mishaps
        /\ server' = "down" /\ UNCHANGED <<proc, queue>>
  /\ UNCHANGED <<disconnect, input, child, target, config, bpVars, launchVars, terminating,
                 refs, ahead, told>>

\* server_impl::disconnect: with a child it does no more than to remember.
Disconnecting ==
  \/ child = "none" /\ server' = "closed" /\ UNCHANGED disconnect
  \/ child # "none" /\ disconnect' = TRUE /\ UNCHANGED server

Disconnect ==
  /\ Request /\ Disconnecting
  /\ UNCHANGED <<input, child, target, config, bpVars, launchVars, terminating, refs,
                 procVars, told>>

\* handle_input_closed
InputClosed ==
  /\ server = "up" /\ input /\ input' = FALSE
  /\ \/ ~disconnect /\ Disconnecting
     \/ disconnect /\ UNCHANGED <<server, disconnect>>
  /\ UNCHANGED <<child, target, config, bpVars, launchVars, terminating, refs, procVars,
                 told, mishaps>>

Client ==
  \/ \E on \in BOOLEAN : \/ SetSourceBreakpoints(on) \/ SetFunctionBreakpoints(on)
                         \/ SetExceptionBreakpoints(on)
  \/ Launch \/ Attach \/ ConfigureAttached \/ ConfigureDirect \/ ConfigureInTerminal
  \/ TerminalAttached \/ TerminalStarted \/ TerminalFailed
  \/ Continue \/ StackTrace \/ Pause \/ Terminate \/ TerminateUndebugged
  \/ Disconnect \/ InputClosed

-----------------------------------------------------------------------------
(* Closures posted by the event thread                                     *)

Takes(evs) == server = "up" /\ queue # <<>> /\ Head(queue) \in evs /\ UNCHANGED mishaps

OnStopped_NoReturn(before) ==
  LET toSkip == skip # 0 /\ child # "attached"
  IN  \/ /\ toSkip /\ proc = "stopped"
         /\ skip' = skip - 1 /\ Resume(Tail(queue), refs) /\ told' = "stopped" /\ UNCHANGED server
      \/ /\ ~toSkip /\ terminating /\ proc = "stopped"
         /\ proc' = "none" /\ queue' = Append(Tail(queue), "exited") /\ told' = before
         /\ UNCHANGED <<skip, refs, server>>
      \/ /\ ~toSkip /\ ~terminating
         /\ told' = "stopped" /\ queue' = Tail(queue) /\ UNCHANGED <<proc, skip, refs, server>>
      \/ /\ proc # "stopped" \/ ((toSkip \/ terminating) /\ "commandFails" \in mishaps)
         /\ server' = "down" /\ queue' = Tail(queue) /\ told' = before
         /\ UNCHANGED <<proc, skip, refs>>

OnStopped_Tells(before) ==
  LET toSkip == skip # 0 /\ child # "attached"
  IN  \/ /\ toSkip /\ proc = "stopped"
         /\ skip' = skip - 1 /\ Resume(Tail(queue), refs) /\ told' = before /\ UNCHANGED server
      \/ /\ ~toSkip
         /\ told' = "stopped" /\ queue' = Tail(queue) /\ UNCHANGED <<proc, skip, refs, server>>
      \/ /\ proc # "stopped" \/ (toSkip /\ "commandFails" \in mishaps)
         /\ server' = "down" /\ queue' = Tail(queue) /\ told' = before
         /\ UNCHANGED <<proc, skip, refs>>

\* on_target_state_changed for a stop, out of a launch: an initial stop to
\* skip, a process to kill, or a stop to tell the client. A failure of LLDB,
\* or the assertion that the process is stopped, ends the server; what LLDB
\* answers about a process that is not is left open. before: what the client
\* was told so far.
OnStopped(before) ==
  LET toSkip == skip # 0 /\ child # "attached"
  IN  \/ /\ toSkip /\ proc = "stopped"
         /\ skip' = skip - 1 /\ Resume(Tail(queue), refs) /\ told' = before /\ UNCHANGED server
      \/ /\ ~toSkip /\ terminating /\ proc = "stopped"
         /\ proc' = "none" /\ queue' = Append(Tail(queue), "exited") /\ told' = before
         /\ UNCHANGED <<skip, refs, server>>
      \/ /\ ~toSkip /\ ~terminating
         /\ told' = "stopped" /\ queue' = Tail(queue) /\ UNCHANGED <<proc, skip, refs, server>>
      \/ /\ proc # "stopped" \/ ((toSkip \/ terminating) /\ "commandFails" \in mishaps)
         /\ server' = "down" /\ queue' = Tail(queue) /\ told' = before
         /\ UNCHANGED <<proc, skip, refs>>

HandleStop ==
  /\ Takes({"initStop", "stop"})
  /\ \/ launching /\ stoppedEarly' = TRUE /\ queue' = Tail(queue)
        /\ UNCHANGED <<proc, skip, refs, server, told>>
     \/ ~launching /\ OnStopped(told) /\ UNCHANGED stoppedEarly
  /\ UNCHANGED <<disconnect, input, child, target, config, bpVars, launching, terminating, ahead>>

HandleRunning ==
  /\ Takes({"running"}) /\ queue' = Tail(queue)
  /\ stoppedEarly' = (stoppedEarly /\ ~launching)
  /\ UNCHANGED <<serverVars, child, target, config, bpVars, skip, launching, terminating,
                 refs, proc, ahead, told>>

HandleExit ==
  /\ Takes({"exited"}) /\ queue' = Tail(queue)
  /\ told' = IF launching THEN told ELSE "exited"
  /\ UNCHANGED <<serverVars, child, target, config, bpVars, launchVars, terminating,
                 refs, proc, ahead>>

\* The completion of a launch: the request is answered, then a stop the
\* launch has hidden is handled.
LaunchDone ==
  /\ Takes({"done"})
  /\ launching' = FALSE /\ config' = "done" /\ stoppedEarly' = FALSE
  /\ \/ ~stoppedEarly /\ told' = "running" /\ queue' = Tail(queue)
        /\ UNCHANGED <<proc, skip, refs, server>>
     \/ stoppedEarly /\ OnStopped("running")
  /\ UNCHANGED <<disconnect, input, child, target, bpVars, terminating, ahead>>

Handler == HandleStop \/ HandleRunning \/ HandleExit \/ LaunchDone

-----------------------------------------------------------------------------
(* LLDB and the process                                                    *)

\* An initial stop comes before any stop of the program.
ProcStop ==
  /\ server = "up" /\ proc = "running" /\ child # "nodebug"
  /\ proc' = "stopped" /\ ahead' = 0
  /\ queue' = Append(queue, IF ahead > 0 THEN "initStop" ELSE "stop")
  /\ UNCHANGED <<serverVars, child, target, config, bpVars, launchVars, terminating,
                 refs, told, mishaps>>

ProcExit ==
  /\ server = "up" /\ proc = "running"
  /\ proc' = "none" /\ ahead' = 0 /\ queue' = Append(queue, "exited")
  /\ UNCHANGED <<serverVars, child, target, config, bpVars, launchVars, terminating,
                 refs, told, mishaps>>

\* Nothing more need happen once the client has left or the server has ended.
Over == (server # "up" \/ ~input) /\ UNCHANGED vars

Next == Client \/ Handler \/ ProcStop \/ ProcExit \/ Over

Spec == Init /\ [][Next]_vars

\* The ASIO thread handles what is posted to it.
FairSpec == Spec /\ WF_vars(Handler)

-----------------------------------------------------------------------------
(* Properties                                                              *)

Free(kinds) == mishaps \cap kinds = {}

\* The server survives every order of requests and events: no failed
\* assertion of target_base and no exception out of a closure, unless the
\* client is hasty, LLDB fails, or exception breakpoints are set again after
\* function breakpoints have removed them (process_io in main.cpp).
ServerStays ==
  server = "down" =>
    ~Free({"hastyTerminate", "hastyPause", "commandFails", "attachStop", "functionsLater"})

\* A client told "stopped" has a process it can inspect and resume, or one
\* that is dead since, but never one that runs; told "exited", it has none.
\* The stop of an attach is the exception.
ToldTruth ==
  Free({"attachStop"}) =>
    /\ told = "stopped" => proc # "running"
    /\ told = "exited" => proc = "none"

\* num_skip_init_stops_ tells the stops of a launch from those of the program:
\* every stop of the program reaches the client, unless the process is to be
\* killed there, and none of the launch does. A pause during the launch, a
\* launch without the stop that was counted on, and the stop of an attach
\* upset the count.
StopsSorted ==
  [][Free({"noInitialStop", "hastyPause", "attachStop"}) /\ Handler =>
       /\ Head(queue) = "stop" /\ ~terminating => told' = "stopped"
       /\ Head(queue) \in {"initStop", "done"} => told' # "stopped"]_vars

\* What the client asked for before or after its target exists is what the
\* target has, unless function breakpoints come after exception filters.
BreakpointsInstalled ==
  Debugging /\ Free({"functionsLater"}) => installed = asked

\* Frame and variable references handed out for one stop are gone before the
\* next (prepare_to_run), unless LLDB reports the stop of an attach, which
\* the client can look at before process_configuration_done resumes it.
NoOldRefs == Free({"attachStop"}) => refs # "old"

\* The server goes on, and what the client was told and given is true of the
\* target it debugs.
ClientKnows == TypeOK /\ ServerStays /\ ToldTruth /\ BreakpointsInstalled /\ NoOldRefs

\* The events of a session come in the order the protocol has: nothing after
\* "exited", no "stopped" before the debuggee was started and none twice
\* without a resumption between, unless LLDB reports the stop of an attach.
Session == INSTANCE DapSession
KeepsSession == Session!Init /\ [][Free({"attachStop"}) => Session!Next]_told

\* What a session tells its client comes in the order of the program's stops
\* and of the protocol.
TellsInOrder == StopsSorted /\ KeepsSession

\* A process that has ended, or that the client wants to end, is told to have
\* exited, whatever stops and requests come between, unless LLDB fails, the
\* client does not wait for the first stops, or the exit falls into the launch, whose events
\* on_target_state_changed ignores.
EndsTold ==
  Free({"commandFails", "hastyTerminate", "earlyExit"})
    /\ (terminating \/ (config = "done" /\ proc = "none"))
  ~> told = "exited" \/ server # "up"
=============================================================================
