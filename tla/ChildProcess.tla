---------------------------- MODULE ChildProcess ----------------------------
(***************************************************************************)
(* One process and the monitor that tells its owner of it (namespace proc):*)
(*                                                                         *)
(*   "pipes"  bp_io_launcher: standard input, output and error are pipes   *)
(*   "pty"    bp_pty_launcher: all three are one pseudo terminal           *)
(*   "child"  bp_launcher: only the end of the process is waited for       *)
(*   "other"  system_monitor: the process is another one's child, which the*)
(*            exec stub has started for a launch without debugging         *)
(*                                                                         *)
(* A pool of one thread (boost_asio_io_pool) does the reading and writing; *)
(* what it has to tell is posted to the owner's thread, as is the end of a *)
(* process by the monitors' own threads. Input is a list of buffers where  *)
(* an empty one stands for the end; a stream that has ended has its buffer *)
(* emptied; and the step that finds all buffers empty waits for the        *)
(* process and announces its end.                                          *)
(***************************************************************************)
EXTENDS Naturals, Sequences

CONSTANTS
  MaxOutput,   \* bound: pieces of output of a process, per stream
  MaxInput,    \* bound: buffers the owner sends, the empty ones included
  MaxRounds    \* rounds of the wait for a PID (20 in the code)

VARIABLES
  kind,      \* how the process was launched
  process,   \* "none", "running", "dead" until it is waited for, "reaped"
  heir,      \* a process it has left behind holds its streams
  reused,    \* its number is another process' now
  written,   \* pieces it has written, by stream
  unread,    \* those of them that have not been read
  shut,      \* streams it has closed itself
  input,     \* stdin_buffers_, async_write under way, the sink is open
  reading,   \* streams whose buffers are not cleared
  tasks,     \* buffers posted by do_send_stdin
  pool,      \* the pool's thread: "free", "joining" in send_exit_signal
  events,    \* posted to the owner's thread
  told,      \* events the owner has handled, by kind
  monitor,   \* "none", "alive", "destroyed"
  sent,      \* buffers sent so far
  late,      \* a buffer was taken when the end had been announced
  request    \* the launch with the exec stub: see LaunchAsync

Kinds == {"pipes", "pty", "child", "other"}
Streams == {"out", "err"}
Data == "data"
Close == "close"       \* an empty buffer
outputVars == <<written, unread, shut>>
ownerVars == <<told, monitor, sent>>
childVars == <<kind, process, heir, reused, outputVars, input, reading, tasks, pool, events,
               ownerVars, late, request>>

Redirected == kind \in {"pipes", "pty"}

\* The streams a monitor reads; a terminal has both in one.
StreamsOf(k) == CASE k = "pipes" -> Streams [] k = "pty" -> {"out"} [] OTHER -> {}

ChildInit ==
  /\ kind \in Kinds /\ process = "none" /\ heir = FALSE /\ reused = FALSE
  /\ written = [s \in Streams |-> 0] /\ unread = [s \in Streams |-> 0] /\ shut = {}
  /\ input = [buffers |-> <<>>, writing |-> FALSE, open |-> FALSE]
  /\ reading = {} /\ tasks = <<>> /\ pool = "free" /\ events = <<>>
  /\ told = [e \in Streams \cup {"exited"} |-> 0]
  /\ monitor = "none" /\ sent = 0 /\ late = FALSE
  /\ request = [state |-> "none", rounds |-> 0, pid |-> FALSE]

-----------------------------------------------------------------------------
(* Launching                                                               *)

\* launch, launch_io: the streams are redirected and read from the start.
Launch ==
  /\ kind # "other" /\ process = "none" /\ process' = "running" /\ monitor' = "alive"
  /\ reading' = StreamsOf(kind) /\ input' = [input EXCEPT !.open = Redirected]
  /\ UNCHANGED <<kind, heir, reused, outputVars, tasks, pool, events, told, sent, late, request>>

\* launch_async: the client is asked to run the stub in a terminal.
LaunchAsync ==
  /\ kind = "other" /\ request.state = "none"
  /\ request' = [request EXCEPT !.state = "asked"]
  /\ UNCHANGED <<kind, process, heir, reused, outputVars, input, reading, tasks, pool, events,
                 ownerVars, late>>

\* The stub forks the process, which runs at once; its parent writes the PID
\* where it finds the region of the launch, which goes with the request.
Fork ==
  /\ request.state \in {"asked", "waiting"} /\ process = "none" /\ process' = "running"
  /\ UNCHANGED <<kind, heir, reused, outputVars, input, reading, tasks, pool, events,
                 ownerVars, late, request>>
SendPid ==
  /\ process # "none" /\ request.state \in {"asked", "waiting"} /\ ~request.pid
  /\ request' = [request EXCEPT !.pid = TRUE]
  /\ UNCHANGED <<kind, process, heir, reused, outputVars, input, reading, tasks, pool, events,
                 ownerVars, late>>

TerminalAnswers ==
  /\ request.state = "asked"
  /\ \E s \in {"waiting", "failed"} : request' = [request EXCEPT !.state = s]
  /\ UNCHANGED <<kind, process, heir, reused, outputVars, input, reading, tasks, pool, events,
                 ownerVars, late>>

\* A round of the wait, on the thread that handles requests and events: the
\* PID is looked at, and gets a monitor. After the last round the launch has
\* failed, whatever the stub still does.
WaitPid ==
  /\ request.state = "waiting"
  /\ \/ /\ request.pid /\ request' = [request EXCEPT !.state = "done"] /\ monitor' = "alive"
     \/ /\ ~request.pid /\ request.rounds + 1 < MaxRounds
        /\ request' = [request EXCEPT !.rounds = @ + 1] /\ UNCHANGED monitor
     \/ /\ ~request.pid /\ request.rounds + 1 = MaxRounds
        /\ request' = [request EXCEPT !.state = "failed"] /\ UNCHANGED monitor
  /\ UNCHANGED <<kind, process, heir, reused, outputVars, input, reading, tasks, pool, events,
                 told, sent, late>>

-----------------------------------------------------------------------------
(* The pool's thread                                                       *)

\* all_buffers_cleared; send_exit_signal then waits for the process.
Cleared(buffers, streams) == buffers = <<>> /\ streams = {}
PoolAfter(buffers, streams) == IF Cleared(buffers, streams) THEN "joining" ELSE "free"

\* start_write_stdin: data are written; an empty buffer closes the sink, and
\* what is behind it is left where it is. A terminal is the source as well.
StartWrite(buffers) ==
  IF Head(buffers) = Data
  THEN input' = [input EXCEPT !.buffers = buffers, !.writing = TRUE] /\ UNCHANGED pool
  ELSE /\ input' = [buffers |-> Tail(buffers), writing |-> FALSE, open |-> FALSE]
       /\ pool' = PoolAfter(Tail(buffers), reading)

\* do_send_stdin: a write is taken to be in progress when there are buffers.
TakeTask ==
  /\ pool = "free" /\ tasks # <<>> /\ tasks' = Tail(tasks)
  /\ late' = (late \/ "exited" \in {events[i] : i \in DOMAIN events} \/ told["exited"] > 0)
  /\ \/ input.buffers = <<>> /\ StartWrite(<<Head(tasks)>>)
     \/ /\ input.buffers # <<>>
        /\ input' = [input EXCEPT !.buffers = Append(@, Head(tasks))] /\ UNCHANGED pool
  /\ UNCHANGED <<kind, process, heir, reused, outputVars, reading, events, ownerVars, request>>

\* With nobody at the other end a pipe reports an error, a terminal may.
CanWrite == input.open /\ (process = "running" \/ heir \/ kind = "pty")
CannotWrite == ~input.open \/ (process # "running" /\ ~heir)

WriteEnds_NoSignal ==
  /\ pool = "free" /\ input.writing
  /\ \/ /\ CanWrite /\ Len(input.buffers) > 1 /\ StartWrite(Tail(input.buffers))
     \/ /\ (CanWrite /\ Len(input.buffers) = 1) \/ CannotWrite
        /\ input' = [input EXCEPT !.buffers = <<>>, !.writing = FALSE]
        /\ UNCHANGED pool
  /\ UNCHANGED <<kind, process, heir, reused, outputVars, reading, tasks, events, ownerVars,
                 late, request>>

\* The handler of async_write, which reports the last write's end or an error.
WriteEnds ==
  /\ pool = "free" /\ input.writing
  /\ \/ /\ CanWrite /\ Len(input.buffers) > 1 /\ StartWrite(Tail(input.buffers))
     \/ /\ (CanWrite /\ Len(input.buffers) = 1) \/ CannotWrite
        /\ input' = [input EXCEPT !.buffers = <<>>, !.writing = FALSE]
        /\ pool' = PoolAfter(<<>>, reading)
  /\ UNCHANGED <<kind, process, heir, reused, outputVars, reading, tasks, events, ownerVars,
                 late, request>>

ReadEnds_TellsAtOnce(s) ==
  /\ pool = "free" /\ s \in reading
  /\ \/ /\ unread[s] > 0 /\ (kind = "pty" => input.open)
        /\ unread' = [unread EXCEPT ![s] = @ - 1] /\ events' = Append(events, s)
        /\ UNCHANGED <<reading, pool>>
     \/ /\ \/ unread[s] = 0 /\ (s \in shut \/ (process # "running" /\ ~heir))
           \/ kind = "pty" /\ ~input.open
        /\ reading' = reading \ {s} /\ pool' = PoolAfter(input.buffers, {})
        /\ UNCHANGED <<unread, events>>
  /\ UNCHANGED <<kind, process, heir, reused, written, shut, input, tasks, ownerVars, late, request>>

\* The handlers of async_read_some: a piece is passed on; at the end of the
\* stream, or when the terminal was closed under it, the buffer is cleared.
ReadEnds(s) ==
  /\ pool = "free" /\ s \in reading
  /\ \/ /\ unread[s] > 0 /\ (kind = "pty" => input.open)
        /\ unread' = [unread EXCEPT ![s] = @ - 1] /\ events' = Append(events, s)
        /\ UNCHANGED <<reading, pool>>
     \/ /\ \/ unread[s] = 0 /\ (s \in shut \/ (process # "running" /\ ~heir))
           \/ kind = "pty" /\ ~input.open
        /\ reading' = reading \ {s} /\ pool' = PoolAfter(input.buffers, reading \ {s})
        /\ UNCHANGED <<unread, events>>
  /\ UNCHANGED <<kind, process, heir, reused, written, shut, input, tasks, ownerVars, late, request>>

\* send_exit_signal: join, which blocks the pool, then the event.
Joined ==
  /\ pool = "joining" /\ process \in {"dead", "reaped"}
  /\ pool' = "free" /\ process' = "reaped" /\ events' = Append(events, "exited")
  /\ UNCHANGED <<kind, heir, reused, outputVars, input, reading, tasks, ownerVars, late, request>>

Pool == TakeTask \/ WriteEnds \/ (\E s \in Streams : ReadEnds(s)) \/ Joined

-----------------------------------------------------------------------------
(* The threads of bp_child_monitor and posix_monitor                       *)

Unannounced == "exited" \notin {events[i] : i \in DOMAIN events} /\ told["exited"] = 0

\* The first waits for its child. The second asks every 100 ms whether there
\* is a process of that number, which there is until somebody has waited for it.
Watch ==
  /\ monitor = "alive" /\ Unannounced
  /\ \/ kind = "child" /\ process = "dead" /\ process' = "reaped"
     \/ kind = "other" /\ process = "reaped" /\ ~reused /\ UNCHANGED process
  /\ events' = Append(events, "exited")
  /\ UNCHANGED <<kind, heir, reused, outputVars, input, reading, tasks, pool, ownerVars, late, request>>

-----------------------------------------------------------------------------
(* The owner                                                               *)

\* send_stdin, which ignores empty data, and close_stdin
SendStdin(b) ==
  /\ Redirected /\ monitor = "alive" /\ told["exited"] = 0 /\ sent < MaxInput
  /\ sent' = sent + 1 /\ tasks' = Append(tasks, b)
  /\ UNCHANGED <<kind, process, heir, reused, outputVars, input, reading, pool, events, told,
                 monitor, late, request>>

Terminate ==
  /\ monitor = "alive" /\ process = "running" /\ process' = "dead"
  /\ UNCHANGED <<kind, heir, reused, outputVars, input, reading, tasks, pool, events,
                 ownerVars, late, request>>

\* The handlers of the signals; nodebug_child_process drops its monitor first.
HandleEvent ==
  /\ events # <<>> /\ request.state # "waiting" /\ events' = Tail(events)
  /\ told' = [told EXCEPT ![Head(events)] = @ + 1]
  /\ monitor' = IF kind = "other" THEN "destroyed" ELSE monitor
  /\ UNCHANGED <<kind, process, heir, reused, outputVars, input, reading, tasks, pool, sent,
                 late, request>>

\* An owner told of the end destroys the monitor.
Destroy ==
  /\ kind # "other" /\ monitor = "alive" /\ told["exited"] > 0
  /\ monitor' = "destroyed"
  /\ UNCHANGED <<kind, process, heir, reused, outputVars, input, reading, tasks, pool, events,
                 told, sent, late, request>>

-----------------------------------------------------------------------------
(* The process and the system                                              *)

Write(s) ==
  /\ process = "running" \/ heir
  /\ s \in StreamsOf(kind) \ shut /\ written[s] < MaxOutput
  /\ written' = [written EXCEPT ![s] = @ + 1] /\ unread' = [unread EXCEPT ![s] = @ + 1]
  /\ UNCHANGED <<kind, process, heir, reused, shut, input, reading, tasks, pool, events,
                 ownerVars, late, request>>

Shut(s) ==
  /\ process = "running" /\ kind = "pipes" /\ shut' = shut \cup {s}
  /\ UNCHANGED <<kind, process, heir, reused, written, unread, input, reading, tasks, pool,
                 events, ownerVars, late, request>>

\* A process may end when its input does, or at any time, and leave another one.
Exit ==
  /\ process = "running" /\ Redirected /\ ~input.open /\ process' = "dead"
  /\ UNCHANGED <<kind, heir, reused, outputVars, input, reading, tasks, pool, events,
                 ownerVars, late, request>>
Fail ==
  /\ process = "running" /\ process' = "dead" /\ heir' \in {FALSE, Redirected}
  /\ UNCHANGED <<kind, reused, outputVars, input, reading, tasks, pool, events,
                 ownerVars, late, request>>

\* The exec stub waits for its child; the number may then be given away.
Reap ==
  /\ kind = "other" /\ process = "dead" /\ process' = "reaped"
  /\ UNCHANGED <<kind, heir, reused, outputVars, input, reading, tasks, pool, events,
                 ownerVars, late, request>>
Reuse ==
  /\ kind = "other" /\ process = "reaped" /\ monitor # "destroyed" /\ ~reused /\ reused' = TRUE
  /\ UNCHANGED <<kind, process, heir, outputVars, input, reading, tasks, pool, events,
                 ownerVars, late, request>>

Owner == LaunchAsync \/ TerminalAnswers \/ Launch \/ Terminate \/ Destroy
         \/ \E b \in {Data, Close} : SendStdin(b)
System == Fork \/ SendPid \/ Fail \/ Reuse \/ \E s \in Streams : Write(s) \/ Shut(s)
ChildNext == Owner \/ Pool \/ Watch \/ WaitPid \/ HandleEvent \/ System \/ Exit \/ Reap

ChildSpec == ChildInit /\ [][ChildNext]_childVars

\* The threads of the program go on, a process whose input has ended ends,
\* and the stub waits for its child.
ChildFairness ==
  /\ WF_childVars(Pool) /\ WF_childVars(Watch) /\ WF_childVars(HandleEvent)
  /\ WF_childVars(WaitPid) /\ WF_childVars(Exit) /\ WF_childVars(Reap)

ChildFairSpec == ChildSpec /\ ChildFairness

-----------------------------------------------------------------------------
(* Properties                                                              *)

\* A buffer behind an empty one is never looked at again.
Stranded == input.buffers # <<>> /\ ~input.writing

\* The process has closed its output and is waited for, which stops the pool,
\* while it waits for input.
Deadlocked == pool = "joining" /\ process = "running"

\* The owner is told of the end once, when the process has ended and all it
\* wrote was passed on, unless the terminal was closed under the output; a
\* buffer handled later announces the end again. What is destroyed then is
\* not used any more.
ToldSound ==
  /\ told["exited"] > 0 =>
       /\ process = "reaped"
       /\ late \/ told["exited"] = 1
       /\ late \/ kind = "other" \/ events = <<>>
       /\ \A s \in Streams : told[s] = written[s] \/ (kind = "pty" /\ ~input.open)
  /\ monitor = "destroyed" => late \/ (pool = "free" /\ input.buffers = <<>>)

\* A process that has ended is told to have ended, and closing its input ends
\* it, with the causes the code leaves open: an heir of the streams, buffers
\* behind a close, output closed before the input, and a number given away.
EndTold ==
  /\ process \in {"dead", "reaped"} /\ monitor = "alive"
       ~> told["exited"] > 0 \/ heir \/ reused \/ Stranded
  /\ Close \in {tasks[i] : i \in DOMAIN tasks}
       ~> process # "running" \/ Stranded \/ Deadlocked
=============================================================================
