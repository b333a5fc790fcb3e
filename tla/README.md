# A verification project for cxxdbg

cxxdbg is a C++ debugger on top of LLDB, with a window program, a command line
program and a debug adapter (DAP). These TLA+ modules model the parts of it
that a unit test can hardly reach: threads that exchange closures, launches that
cross processes, listeners that answer a notification from inside it. TLC checks the
models on small instances; TLAPS proves the theorems for every value of the
constants. Paths below are relative to `src/cxxdbg/`.

    tlc -config target.cfg Target.tla          one run (each run is one .cfg)
    tlapm DebuggerProofs.tla                   the proofs of one module

## The system

| Component | State it keeps | Operations | Talks to |
|---|---|---|---|
| Command and event queues (`async/`) | FIFO queues of closures | `add_command`, `post`, `run` | all threads; everything else runs inside its closures |
| Core target (`dbg/core/target_base.cpp`, `debugger_base.cpp`, `lldb_listener_event_queue.cpp`) | the LLDB process, breakpoints, modules | launch, attach, run, step, stop, terminate, detach, reads; one event thread | LLDB; posts events to the core thread |
| Target (`dbg/appcore/core_target_impl.cpp`, `dbg/target.cpp`) | `state_`, `is_launching_`, `is_stopped_after_launching_`, threads, lists of values | the operations of `target_impl` | commands to the core thread, results and signals back to the main thread |
| Debugger (`dbg/debugger.cpp`) | `state_`, platform, target, `target_was_running_`, `launch_helper`s | connect, load, attach, launch, launch in a terminal, run, stop, end, close | listens to its target, is listened to by windows, console, helpers |
| Exec stub (`exec_stub/`) | a shared region: a PID and two conditions | `do_exec`, `wait_pid`, `notify_continue`, `wait_for_conitue` | a terminal, a parent and a child process; the launch thread of `dbg::target` |
| Debug adapter (`dbg/dapsrv/`) | the child process object, saved breakpoints, reference tables | one handler per DAP request | a DAP client, a core target, sometimes the exec stub |
| Breakpoints (`dbg/breakpoint_list.cpp`, `breakpoint.hpp`) | breakpoint objects, locations, rows of the view; LLDB's breakpoints in the core | add, remove, enable, conditions, hit counts | the core by commands; installs, stops and watchpoints come back as answers |
| Watch lists, locals, registers (`dbg/appcore/watch_list_server.cpp`, `dbg/watch_list.cpp`, `custom_watch_list.cpp`) | a tree of nodes in the main thread, a tree of formatted values behind the core's queue | add, remove, edit, expand, collapse, update | each other by messages with node ids |
| Threads and call stack (`dbg/thread_list.cpp`, `thread.cpp`, `call_stack_tree.cpp`) | threads, current thread and frame, frames fetched, the tree of them | select, fetch, group | the target; the merge of each stop's stacks into the old ones |
| Application shell (`dbg/application.cpp`, `gui/MainWindow.cpp`) | the command under way, dialogs open | close, attach, launch, load, connect, end | the debugger, in nested event loops |
| Console and terminal (`cli/`, `dbg/dbg_cli_processor.cpp`, `dbg/dbg_terminal.cpp`) | the command whose answer is outstanding, what the terminal takes the program for | one per command | the application; the target's state signal, before the debugger hears it |
| Memory (`app/async_data_fetcher.cpp`, `app/data_hex_text_model.cpp`, `dbg/core/memory_disassembler.*`) | a window of bytes and the rows over it, reads under way | reset, fetch at both ends, disassemble around an address | the core's queue |
| Views (`app/*_model.*`, `dbg/source_tree*.cpp`, `gui/CxxdbgTreeView.cpp`) | rows, order, selection and expansion, each kept from announcements | add, remove, sort, expand | model, proxy, Qt model and view by before/after signals |
| Process launching (`proc/`) | a child, its pipes, exit status | launch, monitor, terminate | a waiting thread and a reading thread |
| Documents, settings, types, utilities (`app/`, `dbg/core/*type*`, `util/`, `ranges/`, `log/`) | documents, values | sequential | the above |

What is hard in it, and so what the properties are about:

* A request is checked in the main thread and executed later in the core thread,
  while the process, the event thread and other requests go on. What the check saw
  must still be true when the command runs, and an answer must not overwrite what
  happened since.
* The state the user sees is set three ways: at once by a request, by the
  result of a command, and by an LLDB event. They must agree in the end, and may
  never show a stopped process that runs.
* A launch posts its completion through LLDB's own event queue so that it comes
  behind the events the launch caused, which are ignored meanwhile.
* A terminal launch has two stops nobody should see. A helper hides them by
  running the target from inside the notification; it must be there for those two
  stops and no other.
* The debugger, the exec stub and its child are three processes that meet under one
  name, with condition variables that have no predicate.
* Most operations can fail after part of their effect is visible.
* Two copies of one thing, in two threads, are kept alike by messages: the breakpoints, the
  watches, the threads. Each is edited while the answer to an earlier edit is on its way, and the
  handlers of answers hold numbers, indices or plain pointers from before.
* A function that waits in a modal dialog goes on in whatever state the event loop has left.
* Views are told positions, of rows that the layers between have sorted, merged or hidden.

`PROJECT.json` lists these hazards line by line.

## The modules

| Module | What it is | Code |
|---|---|---|
| `TargetContract` | what `target_impl` promises to its users: one state, the permitted changes | `dbg/target_impl.hpp` |
| `Target` | the detailed target: user, main thread, core thread, event thread, process | `dbg/appcore/core_target_impl.cpp`, `dbg/core/target_base.cpp`, `dbg/target.cpp`, `async/` |
| `TargetProofs` | what `Target` guarantees, proved, its contract among it | |
| `Debugger` | debugger and target in the main thread, above any target that keeps `TargetContract` | `dbg/debugger.cpp`, `dbg/target.cpp` |
| `DebuggerProofs` | what `Debugger` guarantees, proved | |
| `ExecStub` | the launch in a terminal, across processes | `exec_stub/`, `dbg/target.cpp` |
| `ChildProcess` | a process and the monitor that tells its owner of it | `proc/` |
| `Launching`, `LaunchingProofs` | the two ways to start a process; what they guarantee, proved | |
| `DapSession` | what a client of the debug adapter is told, in the order the protocol has | `dbg/dapsrv/child_process.hpp`, `server_impl.cpp` |
| `DapServer` | the debug adapter: requests, one thread, LLDB's events | `dbg/dapsrv/`, `dbg/core/target_base.cpp` |
| `Inspect` | the numbers an adapter's client is handed out for frames and variables | `dbg/dapsrv/` |
| `Adapter`, `DapProofs` | the session and its numbers; what a session guarantees, proved | |
| `Breakpoints` | the list of breakpoints against LLDB's | `dbg/breakpoint_list.cpp`, `breakpoint.hpp`, `breakpoints_view_model.cpp`, `core_target_impl.cpp`, `target_base.cpp` |
| `BreakpointsSteps`, `BreakpointsProofs` | what the list guarantees, proved: the invariant with the parts that concern one target or none, and the parts that follow LLDB's breakpoints | |
| `BreakpointsView` | the panel of breakpoints: rows of locations, selection, actions | `dbg/breakpoints_view_model.cpp`, `gui/` |
| `Threads` | the merge of call stacks, the tree of frames, selection and fetching | `dbg/thread_list.cpp`, `thread.cpp`, `call_stack_tree.cpp`, `call_stack_model.cpp` |
| `WatchList` | the two trees of a list of values | `dbg/watch_list.cpp`, `custom_watch_list.cpp`, `appcore/watch_list_server.cpp` |
| `Application` | the commands of the window program in nested event loops, over `Debugger` | `dbg/application.cpp`, `gui/MainWindow.cpp` |
| `ApplicationProofs` | which of the commands' assertions can fail, and what they leave, proved | |
| `Console` | the console's commands and the terminal, over `Application` | `cli/`, `dbg/dbg_cli_processor.cpp`, `dbg/dbg_terminal.cpp` |
| `Memory` | the window of memory, a client's reads, the disassembler | `app/async_data_fetcher.*`, `app/data_hex_text_model.cpp`, `dbg/core/memory_disassembler.*` |
| `Editor` | the sources in tabs, their marks, highlighted lines and menus, the search | `app/document*`, `gui/` |
| `Workbench`, `WorkbenchProofs` | the memory and the sources, which share no state; what the window of memory shows and a client reads of it, proved | |
| `Views` | the watches sorted, the sources as a tree, and the views of them | `app/sortable_proxy_tree_view_model.cpp`, `dbg/source_tree.cpp`, `dbg/composite_source_tree_model.cpp`, `gui/` |

`Launching`, `Adapter`, `Workbench` and `Views` put parts side by side that share no state: a variable `part`, which never changes, says
which of them moves in a behaviour, so that one run has the behaviours of each and not their product. `Application` and `Console` are layered on `Debugger` (`D == INSTANCE Debugger`, `EXTENDS Application`):
every step of theirs is one of the debugger's, or of a dialog, or of the console. The others stand on their own and
see the target as far as they need it.

`Target` implements `TargetContract` (the property `ImplementsContract`, with
the contract's fairness), and `Debugger` is written against the contract: each
change of `impl` is one the contract permits (`KeepsContract`). So the debugger's
properties do not depend on the threads below it. `ExecStub` is the detail of
what `Debugger` sees as `StubLaunched`, `StubFailed`, `ExecStop`. `DapServer` is a second program over
the same core target, without the application's threads; it implements `DapSession`.

**Target.** One closure is one action, since a thread's loop runs each to its end.
`coreQ` is `core_thread_queue_`, `mainQ` is the main thread's, `lldbQ` the LLDB
listener; a closure is known by the request or event it stands for. A user action
asserts a state, sets the next (`SetState` is `set_state` with every list it refreshes) and
posts one command. `Core*` actions are the commands in `target_base` and the event
handler `on_core_state_changed`; `Main*` actions are the result handlers. The process
(`ProcStop`, `ProcRestart`, `ProcExit`) is LLDB's and may do what LLDB reports.
LLDB's synchronous waits (Halt, Kill) are inside their action.

**Debugger.** A closure of the main thread is one action with every signal it
emits, so the nested `run()` of a helper is `ReportStop`'s second disjunct: the
listener that was connected first runs the target, the others see it running.
`Notify(s)` is `on_target_state_changed` for every other state. `helpers` is the list
of `launch_helper`s in the order they were connected, each with its `unsigned` counter,
which wraps modulo `WordMod`. `exitSignal` is flipped by each emission. A stub's child is `waiting` until the target has attached to it and notified it
(`released`); one that begins to wait later stays `waiting` (`Unwoken`), and `Hangs` is the only thing that goes on happening to it.

**ExecStub.** Regions are numbered by the launch that made them, because the
shared name is always the same and only the region behind it changes. A
condition variable without a predicate is modelled as it is: a notification wakes who waits at that
moment (`Woken`) and is otherwise gone.

**ChildProcess.** `kind` is the launcher and so the monitor: pipes, a pseudo terminal, no redirection, or a process that is the exec
stub's child. The pool's one thread reads, writes and, when every buffer is empty, waits for the process (`pool`); what it has to say is posted to the owner
(`events`, counted in `told`). A process may leave an heir behind that holds its streams, and its number may be given away (`reused`).

**DapServer.** A request is one action, with every call it makes into the child
and the target; what a request that only throws does is a stutter and left out. `queue` holds the closures
`asio_event_queue` posts from the event thread; `HandleStop`, `HandleRunning`, `HandleExit` and
`LaunchDone` are their handlers. `proc` is `target_base::state()`, which requests and handlers read as
it is now, so that it may be ahead of `queue`. `ahead` counts the stops of a launch that are still to come (after the
attach in a terminal launch the one of the two that `attach()` has not reported itself). Breakpoints are three
kinds, on or off; those at instructions are treated by the code as those at source lines are. The client is one that
waits for an answer: it launches or attaches once with success, configures once, resumes what it was told has stopped.
Requests that only read, output and progress events, the thread and reason of a stop and a breakpoint that cannot be set
are left out. The skip counts are those of the Linux build.

**Inspect.** A frame object of LLDB lives for one stop (`epoch`) and is compared by what `stack_frame_compare` looks at; a value is
known by its address, which is given away again. `held` is what the client takes its references for.

**Breakpoints.** An edit is one action: it changes `list` and `rows`, which stand for `breakpoints_` and the view model's
`root_nodes_`, and appends a command. `Core` runs the first command against `core`, LLDB's breakpoints by LLDB's ids, and `Answer` the
first answer's handler. The two number spaces are kept apart because the code uses one for the other. Where assertions are compiled in (`checked`) an installation ends in
`check_initial_bp_props`, which fails for a breakpoint that is off or has a condition (`Unexpected`, `CheckFails`).
A stop is one action of the process and one answer with the hit counts and locations it brings. A new target comes when the core thread has
done what was queued before it, since its own command is queued behind that; the list is installed in the order of its map (`InOrder`). Using a null or dangling pointer is a
value of `fault`, where a behaviour ends, in the three modules that have one.

**Threads.** `thread::update` is the operator that finds the longest part of the old stack that has stayed, by CFAs, and
the removals and insertions at both ends; the tree follows them one by one, as `call_stack_model` announces them. A frame is its CFA and its function.

**WatchList.** `roots` is the client's tree, `server` the `watch_list_server` with `watches`, `queue` and `known` (`nodes_`).
`pendings`, `removed` and `renamed` are the containers of raw pointers; a slot is a pointer, so that a destroyed node whose memory
is used again is seen. One closure is one action. `custom = FALSE` is the list of locals or registers, whose roots the frame decides.

**Application.** A command is the sequence of its remaining steps, `todo`: a step that waits (`open`) hands the main thread to the nested loop, in which every
action of `Debugger` may be taken; a notification that closes a dialog only sets `accepted`, and the next step runs when the
loop is left. `box` is the loop inside a notification. Assertions of the code between two waits set `broken`.

**Console.** A command typed takes the same steps as the window's; `call` is what is still to be answered when they end, `late` the
commands the core thread has to answer, `out` the answers of one step. `termWasRunning`, `inTerm` and `exited` are the
terminal's, updated by each state signal before the debugger's listeners.

**Memory.** A byte is the address it was read from, so that a list of bytes says what memory it shows. The window's three operations and their answers are actions;
`readMemory` and the disassembler are functions of the memory, evaluated once per behaviour by a query.

**Editor.** Handlers call each other through signals, each an operator from the window (`ui`: documents, tabs, marks) before its call to the window after
it; `lost` is the fault where a behaviour ends. `focus`, which never changes, says whether a behaviour is about searching, stopping or editing breakpoints.

**Views.** An announcement (`beforeRemoved`, `afterAdded`, `afterLayoutChanged`) is an operator on the listener's state: the view's rows change
only by the positions it is told, the model's by what it does. A behaviour has either the watches with their sorting proxy and
header, or the sources with the composite of directory chains, or the panel of the breakpoints (`panel`).

## Scenarios

Each module has a constant `Scenarios`, a set of sets of *mishaps*, and a variable
`mishaps` chosen at the start: what may go wrong in this behaviour besides what always may: exits, stops, failed launches, failed attaches and
failed resumptions, in every order. Some mishaps are a failure of the layer below, some an order of steps that the code does not provide for
(`wakeLost`, `slowChild`: the notification comes before its receiver waits), some a build (`checked`). Each `.cfg` lists the sets it takes: those of
`target.cfg` and `debugger.cfg` are none, each one (or those that are alike together) and all; the others take the combinations that do not hide each other's
effects, and `application.cfg` and `console.cfg` always let the connection fail and an attached process be stopped. A property that cannot hold under some mishap says
which (`NoLeaks`, `InTime`, `Orderly`, or by its name); the others hold under all.

| Module | Mishaps |
|---|---|
| `Target` | `bornStopped` (attach returns with the process stopped already), `earlyExit` (exit while the launch is unfinished), `commandFails` (Halt, Kill or Detach fails), `stepIgnored` (a refused step whose `SBError` is not read) |
| `Debugger` | `terminalFails`, `execFails`, `earlyStop` (the user stops the stub's child), `connectFails`, `bornStopped` (an attach finds the process stopped), `wakeLost` (the stub's child does not wait yet when it is notified) |
| `ExecStub` | `timeOut` (a stub slower than all the rounds), `terminalExits`, `slowChild` (not yet waiting when notified), `attachFails` |
| `DapServer` | `hastyTerminate` and `hastyPause` (the client does not wait for the launch, or for the news of a stop or the exit), `commandFails`, `earlyExit` (exit before `launch()` returns), `noInitialStop`, `attachStop` (LLDB reports the stop of an attach as an event), `functionsLater` (function breakpoints set after exception filters) |
| `Breakpoints` | `renumber` (a second target, or a removal while there is none: LLDB's ids are no longer the list's), `editClosing`, `staleHits` (a hit count changed while the program runs, or reset), `cancelWait` (the dialog is cancelled while waiting), `removeWatch` (a watchpoint removed while the program runs), `attachFirst`, `checked` (assertions are compiled in) |
| `Threads` | `grouping`, `deep` (more frames than are fetched at once), `disorder` (CFAs that do not ascend), `switch` (another thread selected while frames are fetched), `hastyEnd` |
| `WatchList` | `overlap` (acts while trees are on their way), `reopen` (expanded while its collapse is), `unanswered` (edited while an answer is), `again` (an expression that was removed before), `edit`, `raw` (a `[Raw Data]` child) |
| `Application` | the debugger's; as `Lapses`: `endsMeanwhile` (exit during a question, or before detach's stop), `stopsAtOnce`, `answersLate` (attach answered after `do_attach` has returned), `commandFails` (LLDB fails to stop, kill or detach), `killed` |
| `Console` | as `Slips`: `early`, `both`, `nowhere` (`breakpoint set` without an option that says where), `declines`, `reload`, `detach`, `bareAttach` |
| `Editor` | as `EditorScenarios`: `missing` (the source of main is not on this machine), `staleSource` (shorter than the debug information says), `lateOpen` (opened while stopped), `closeTab`, `showThreads`, `staleSymbol` (the symbol's item used when the process is not stopped), `killed` |
| `Memory` | `unreadable`, `ahead` (extended at its end twice), `again` (moved under its text), `lowEnd`, `offset`, `nullPage`, `far` (beyond the symbol lookup limit) |
| `Views` | `sortedDelete`, `unsort` (sorting is switched off), `slip` (the button released at a header's edge) |

## What is checked

`target.cfg` (bounds: three pending closures for a user to act, three unread events):

* `Asserts`: the assertions in both threads hold when their closure gets its turn, whatever was queued before it, but for one: `target_base::stop` asserts a
  process, and fails when the exit overtakes the request; it fails then only.
* `StoppedIsStopped`: the stopped state is never stale. This is what makes the assertions of the
  five commands that need a stopped process true.
* `ListsMatchState`: lists of an ended process are empty although
  late answers fill them; a stopped target has a current thread.
* `Agreement`: with nothing queued the state shown is the process's.
* `ImplementsContract`, `CommandsTakeEffect`: the contract, with its progress;
  an ended process is seen to end; a stop takes effect unless the user resumes after it.

`debugger.cfg` (counter modulo 4, three helpers alive):

* `FollowsTarget`: the debugger's state is its target's, through nested notifications.
* `ProgramStopsShown`, `ExecStopsHidden`: a terminal launch hides its two stops and no other.
* `AnsweredWhenOver`, `LaunchAnswered`: every launch is answered, unless the stub's child has missed its notification, and its helper is gone when the
  target can be launched again.
* `StubApart`: while a thread waits for the stub nothing else touches the target, and no thread of the stub's child is listed.
* `KeepsContract`, `ExitAnnounced`: requests are made in the states the target allows; `process_exited`
  announces every end of a process, terminated or not, but of one that was born stopped and has not been shown running since, and never a detach.

`launching.cfg` (two launches, two rounds for the code's twenty, one piece of output per stream, three buffers of input):

* `LaunchesApart`: launches under one name meet their own processes only and leave no program unattended, while stubs report in time.
* `WaitsEnd`: a child that waits when the debugger comes to attach to it goes on, and the launch thread ends. Nothing is claimed of a child that begins to wait later:
  the notification is lost on it (`slowChild`), and it waits for ever.
* `MonitorsSound`: the owner of a process is told of its end when it has ended and all its output was passed on, and once, unless a buffer that came late closes an
  emptied input again (`late`).
* `MonitorsTell`: it is told in the end, and closing its input ends the process, with the causes the code leaves open.

Two launches are the smallest number at which a late stub meets the
next launch's region; a round has no memory, so that two rounds have all the
cases (not the last one, the last one). Of three buffers one can be behind a close that has one before it. `CHECK_DEADLOCK FALSE` because a child that was
notified too early waits in its terminal for ever, and launches are bounded.

`dap.cfg` (at most four closures are ever queued; pages of three frames, two values with references):

* `ClientKnows`: the server goes on (no assertion fails and no exception leaves a closure, which would end it); a client told of a stop has a process to
  inspect; what was asked for before or after the launch is installed; references to frames and variables do not outlive their stop.
* `TellsInOrder`: the count of initial stops hides those of the launch and never one of the program; the events come in the protocol's order.
* `EndsTold`: a process that ends, or is to be ended, is told to have exited.
* `HandedOutSound`: a number handed out at a stop leads to the frame or the value it was made for, however the stack is paged and addresses used again.

`breakpoints.cfg` (two breakpoints of a kind, three edits, two runs, two targets):

* `ListSound`: a pending installation is of a breakpoint without one, and the only one of it, so nothing is installed twice and no answer of a closed
  target reaches the next; the view's rows are the list's breakpoints with their locations; invalid pointers are used, and assertions fail, in the named circumstances only;
  with nothing on its way LLDB has the breakpoints of the list, on or off, conditional and ignoring as the list says, where it says
  (`CoreFollowsList`, but where the numbers have parted, `renumber`, or a hit count was changed under a running program, `staleHits`).
* `GetsInstalled`: every breakpoint of a live target gets its LLDB breakpoint, or goes (liveness, with the queues fair).

`threads.cfg` (four CFAs, three frames fetched at once, two stops, two closures):

* `ThreadsSound`: the tree has the rows of the current thread's frames, as grouped, and no pointer, index or frame is used that is not valid, but for the named causes;
  with nothing on its way the merged stacks are LLDB's, and so are the selection and the frame whose locals are shown.

`watches.cfg` (one old watch remembered for the code's twenty, five acts, two closures):

* `WatchesSound`: every destroyed node or forgotten watch that is used has a named cause; the server has each node in one tree, each watch in one place, a
  bounded queue, and no values of a process that has gone on.
* `ShowsServers`: a stopped program's list, with nothing on its way, is the server's trees, expanded alike.

`application.cfg` (two helpers):

* `ShellSound`: which state assertions of the commands can fail under which lapse, and that no other can; when the window takes commands again, nothing
  is pending and the state shown is the target's, in orderly scenarios in which no handler is late and nobody has killed the program; a window that has closed left nothing.
* `ProgressEnds`: a progress dialog, which the user cannot close, is closed, but for those that stay (`StaysOpen`): that of a launch whose child missed its notification, and
  that of a process LLDB failed to stop, kill or detach from.

`console.cfg` (one answer of the core thread pending): `AnswersSound`: the commands answered and those still to be answered are the commands typed, so that none is answered twice or dropped; an answer is true, and a command
that is refused does nothing; each but for its named slips;
`TerminalSound`: the terminal tells the exit of the program launched in it and of no other, and offers input to that one only.

`workbench.cfg` (16 addresses in pages of 4, rows and steps of 2 bytes, instructions up to 2 bytes, 4 reads of the window; two documents, two breakpoints, one stop):
`WindowSound`: the window shows the memory at its address, the text its rows, and the counters the reads under way; but for the bytes of a window extended at its end twice (`ahead`) and the text of one moved under it (`again`);
`ReadSound`: a client is given the readable beginning of what it asked for, unless it gives an offset, and is told to pass over whole steps up to the first that can be read in full,
or all the rest, unless the request ends within a step of zero (`nullPage`); readable bytes may be among them;
`DisassemblySound`: instructions follow each other without gap or overlap, counted from the address asked for;
`DocumentsSound`: the documents, tabs, marks and menus agree with each other and with the debugger, and a search finds what there is;
`StopsShown`: a stop in a source that is here is shown with its line.

`views.cfg` (three watches with two texts; five sources in nested directories): `WatchRowsSound`: the view has the model's rows in the
header's order, and what is selected stays selected and is what is deleted; `SourceRowsSound`: every source has one
row under directories shown with their chains, and what was expanded stays expanded;
`BreakpointRowsSound`: the panel never asks a location that is gone, and offers what its selected rows allow.

Why the bounds are enough. In `Target` a third pending closure adds a second
request behind one whose effect is not known yet. The event handlers look at one event and at
`is_launching_`, so the order of two events and the command between them is
what can go wrong, and three fit. In `Debugger` the counter takes the values 0, 1, 2 and wraps to 3; three helpers are
one launch, a leaked helper before it and one after it. In `Breakpoints` two of a kind are the fewest that can be confused; an edit, its
answer and one edit between them need two edits, and the third undoes one. In `Threads` the merge compares both ends of two stacks: three shown frames have a
kept part with something above and below it, the fourth CFA makes a stack deeper than is fetched. In `WatchList` a queue of one is full at once, so that each further watch
drops the oldest. In `Memory` an address is within a step of a page's edge, of zero and of the top. Five sources are two chains that share a directory, one that
splits, and a file beside it. Where a run would be too large, its module's comments say which combinations of mishaps it leaves out; each mishap is in some behaviour.

Each property is paired in `PROJECT.json` with a mutant: a definition named
`X_Something` beside `X`, a bug one could plausibly write there (a dropped guard, a missing
reset, a missing signal). With the mutant in place of `X` the property fails in
the same run, so each property depends on the code it is about.

### Fairness

The threads are fair (`CoreThread`, `EventThread`, `MainThread`): each is a loop that takes the
next closure while there is one, and no closure waits for another thread except inside LLDB. The launch thread, its
result and a forked child are fair for the same reason. In `Debugger` the
fair actions are the answers of the layer below, which `Target` is shown to give, the stub's thread,
which `WaitsEnd` shows to end, and a child that was woken, which execs or ends. Nothing wakes a child that missed its notification, and no property assumes it. In `ChildProcess` the pool, the monitor's thread, the owner's queue and the wait for a process are threads as well; a process
that was told to end by its closed input ends (`Exit`), and the system reaps what is waited for. In `DapServer` only the handlers of posted closures are fair,
in `Breakpoints` the two queues. `Application` adds the event loop, which leaves a dialog that was accepted and goes on with the command, the
message box, which the user is assumed to close, and a process that is told to stop, to end or to go, which does so where LLDB does not fail (without `commandFails`). Neither a user nor a program is fair, except that
a launched process execs or exits. A terminal need never run the stub.

## Where the code departs from what it says

One violation run, `views_v_delete`, checks a sentence of the code against it: `onDeleteClicked` of the watches is to remove the selected rows, but collects
their positions in the sorted view and removes the model's rows at those positions (`gui/WatchListDockWidget.cpp:199`), so that with the view sorted others go.

Other departures met while modelling. They are in the models, most under a mishap that the property they would break leaves out by name:

* Frames fetched before a terminate arrive after the thread list is cleared, and `current_thread()` is null (`dbg/thread_list.cpp:139`).
* The comment at `core_target_impl.cpp:784` expects an empty watch list; at terminate the process is still there and the list is filled again.
* A target born stopped has no threads until its first stop (`core_target_impl.cpp:213`), and `step_*` dereferences the current one.
* `target_base.cpp:816` and `:863` do not read a step's error: the target is shown running.
* A failed Kill or Detach leaves the target terminating or detaching (`core_target_impl.cpp:418`, `:431`), and the window's dialog open.
* `target_base::stop` asserts a process (`target_base.cpp:701`) that may have exited since the request; `core_target_impl.cpp` asserts it in the main thread only.
* An exec that fails in the terminal never calls the launch handler (`debugger.cpp:525`); a stop by the user before the exec counts as one of the two temporary stops (`debugger.cpp:522`).
* Terminating a process that was stopped when it was attached to emits no `process_exited` (`debugger.cpp:1041`).
* A platform that does not answer stays selected in LLDB (`core/debugger_base.cpp:193`).
* A stub that answers after its launch has timed out writes its PID into the next launch's region (`exec_stub_server.cpp:36`).
* Debug adapter: a terminate while a stop is queued kills the process, and the stop's handler then fails the assertion of a stopped process
  (`debug_child_process.cpp:887`, `target_base.cpp:725`); a pause before the news of the exit fails that of `target_base.cpp:701`; during the initial
  stops both are swallowed by the skipping (`debug_child_process.cpp:867`); an exit before `launch()` returns is never told (`:842`).
* A direct launch of the adapter skips one stop (`debug_child_process.cpp:68`), while `debugger::launch` without a terminal skips none.
* `server_impl::launch` sets `child_` before loading, so a launch that fails cannot be repeated (`server_impl.cpp:102`), while `attach` replaces any child;
  `nodebug_child_process::terminate` uses a null monitor before the start and after the exit (`:62`).
* An unknown exception filter builds a message and does not throw it (`debug_child_process.cpp:1097`).
* `handle_stderr` reads the standard output (`target_base.cpp:1435`).
* A stop queued before the exit meets the assertion of a process (`target_base.cpp:701`); an exit during the launch is ignored
  and the target shown running for ever; a failed relaunch emits `process_exited` again; a launch that throws after it has connected its helper leaves it to hide the next
  program's stops (`debugger.cpp:584`); the exec stub's child is not woken by a notification that came first (`exec_stub_struct.cpp:63`, `exec_stub_struct.hpp:45`);
  with a child, an adapter's disconnect only sets a flag (`server_impl.cpp:95`, `server_impl.hpp:43`); setting function breakpoints removes those of the exception filters.

Breakpoints:

* `check_initial_bp_props` asserts a breakpoint that is enabled and has no condition (`core_target_impl.cpp:533`), and is called after the breakpoint was disabled and its condition
  set (`:560`, `:582`, `:604`): installing one that is off or conditional fails the assertion.
* `find_code_breakpoint` looks among the watchpoints (`breakpoint_list.cpp:222`); nothing uses it.
* The list asks the core by its own numbers, the core looks them up among LLDB's ids (`breakpoint_list.cpp:115`, `breakpoint.hpp:108`); after a removal without a target,
  or with a second target, they are others.
* Attaching with breakpoints and no target uses a null `impl_` (`:294`); edits while the target unloads use the core target that was reset.
* A hit count changed while the program runs, or reset, leaves LLDB with another ignore count than the list's.
* A watchpoint removed while the program runs is looked up when it is hit, and is null (`debugger.cpp:1115`).
* `isThreadAtLine` is the wrong way round (`debug_source_code_widget_delegate.cpp:225`).

Threads:

* A frame taken out of a group is removed from the tree by the position it had before (`call_stack_tree.cpp:117`, `:162`).
* Stacks whose CFAs do not ascend keep a current frame that is gone, and underflow a count (`thread.cpp:144`, `:325`); the merge takes for equal what its comment calls equal ranges (`:291`).
* Frames fetched are given to the thread that is current when they arrive (`target.cpp:522`), or to none.

Lists of values:

* `make_watch_info` ignores the new expression, so an edited watch shows the old one (`watch_list_server.cpp:157`).
* Roots being added are removed with the answer for any tree (`watch_list.cpp:384`); handlers use raw pointers to nodes (`custom_watch_list.cpp:74`, `:100`, `:153`); `remove_root_node` erases only the root's counter.
* A collapse leaves the children among `nodes_` (`watch_list_server.cpp:121`); a root kept in the queue keeps its old id (`:271`); `[Raw Data]` is kept and one child removed (`:104`).
* At terminate the tree is made in the main thread (`core_target_impl.cpp:785`).

Application and console:

* `terminate` and `detach` assert a state that the process can leave while the question is shown (`application.cpp:480`); `do_attach`'s handler writes a variable of a function that has returned when it is answered late (`:322`).
* The launch dialog stays when the exec stub's child ends early.
* The error branches of `check_dbg_bp_state` lack a return: the command is answered twice and done all the same (`cli_processor.cpp:57`, `:74`, `:91`, `:124`, `:137`, `:150`, `:166`, `:181`, `:196`); so are two exception options (`break_group.cpp:60`).
* `breakpoint set` without a location, function, file, line, address or exception option is never answered: the chain of cases has no last one (`break_group.cpp:71`-`170`).
* `platform disconnect` tells it has disconnected when that was declined (`platform_group.cpp:114`).
* A success is told through the constructor of errors (`cli_processor.cpp:289`, `:331`), which does no harm; `--location` wins over a file and a function given with it (`break_group.cpp:71`).
* The terminal takes unloading for running and never resets it, so a failed launch of a later target tells an exit (`dbg_terminal.cpp:66`); a process detached from is told to have exited; input is offered to a process attached to.

Memory:

* Extending the window at its end twice reads the same bytes twice (`async_data_fetcher.cpp:128`); a reset to size 0 keeps the data; the text is not cleared by a reset; a short read and a window at the beginning of memory fail assertions.
* `readMemory` ignores its `offset` (`debug_child_process.cpp:587`); behind what it has read it goes on by whole steps from an address that need not be a step's, so that readable bytes, up to
  all the rest, are called unreadable (`:636`-`647`), and it wraps below a step; regions beyond the lookup limit overlap (`memory_disassembler.cpp:178`).

Views:

* The third click on a header sorts descending again and never unsorts (`sortable_proxy_tree_view_model.cpp:130`); a changed text is not sorted in; a release at a header's edge leaves the next click without effect (`CxxdbgTreeView.cpp:393`).
* A directory merges into a file of its name (`source_tree.cpp:167`, not enumerated); the column of `dataChanged` is fixed to 2; `vector_model` and `vector_ptr_model` announce an appended row one too far.

## What is proved

Every theorem is for all values of the constants, in every scenario its property does not exclude itself; each rests on
one inductive invariant, which TLC checked on the run's instance before it was proved.

**`TargetProofs`** (`Target`). `TypeCorrect`: the queues hold only closures their readers know. `IInv` says what the
queues may hold in each phase of the target. It reads `coreQ \o lldbQ` as one queue, `Work`, since forwarding an event does not change that, and
describes each queue by the kinds of its closures (`All` of a kind, or `One` that matters, with the kinds before and behind it):

* a process shown running runs, or its stop or its end is on its way in exactly one place (`Reported`);
* the events before a launch's completion are hidden, and what they leave behind in `stoppedEarly` is what the process is when it comes (`Hidden`);
* in each other state shown, one command or result is under way that will leave it (`Starting`, `Resuming`, `Ending`, `Unloading`), or none.

The properties are not inductive: that an assertion holds when a closure gets its turn depends on everything queued before it. From `IInv` follow `TargetAsserts`
(the assertion of `stop` needs a part of its own, `StopOvertaken`: without a process behind a queued stop, its exit is in some queue or has been taken),
`StoppedTruly`, `ListsFollowState`, `QuietAgreement`, and, step by step, `TargetImplements`: `Target` implements the safety part of `TargetContract`.

**`DebuggerProofs`** (`Debugger`). Under `NoLeaks` (no mishap but an unanswered platform, a process born stopped or a lost notification) `IInv`:

* a launch that is in progress determines everything: who holds the answer (`reply` or the stub's thread), the state of
  `impl`, the process, and a single helper whose counter is the number of temporary stops still to come (`Launching`);
* otherwise there is no helper and no stub thread (`Settled`);
* the debugger's state is the target's, and no thread of the stub's child is shown.

That a program's stop is shown follows only from the absence of helpers, and that the second
temporary stop is hidden only from the counter being exactly 1 and the handler not
called before. From it follow `DebuggerFollowsTarget`, `NoHelperSurvives`,
`ShowsProgramStops`, `HidesTemporaryStops` and, with the contract as an action
property, `DebuggerKeepsContract`. `OrderInv` holds in all scenarios: which request, process and state of the target go together, that the latest
launch's helper waits for its answer, and what `target_was_running_` remembers. From it follow `StubStaysApart` and
`AnnouncesExits`: in every scenario, each end of a process, by itself or terminated, is announced and that of a detached one is not; not announced is one that was born stopped, as long as it has not
been shown running.

**`LaunchingProofs`** (`Launching`). `LaunchesKeepApart`, with `StubInv`: while the debugger waits or attaches, the name denotes the region of its
latest launch, and as long as all keep up, stub and child of a launch are through with the name by then. `TellsInTime`, with `MonitorInv`: each piece a process has written is told,
on its way or unread; the end is posted behind everything else, and nothing follows it but itself. It is posted once but where a buffer is late (`late`); exit codes are not modelled.

**`DapProofs`** (a session of `Adapter`). `DapInv` says what may be queued for each state of the process: news of a stop are the last ones while it is stopped,
news of its exit when it is gone; one closure ends a launch, and only its own news come before; the count of stops to skip is the number still to
come. From it follow `KnowsTruly` (`ClientKnows`) and `OrderTold` (`TellsInOrder`): the stops are sorted, and what the client is told is a behaviour of `DapSession`.

`LeadsWhereHanded` (`HandedOutSound`) is about the other part, the numbers of frames and variables, with `HandedInv`:

* `FramesKept`: the frames of a stop differ in the three features that are compared (`LiveApart`), the table has no frame twice, and a number keeps its place as pages of
  a stack are asked for again or overlap (`PageFolded` unrolls the fold over a page, which has two frames at most);
* `RefsKept`: each reference has the frame and the path it was given for. A value of its own (`Owners`) has an address that no other
  reference has (`Unshared`), a member that of its owner, `MaxValues` further, and the owner is in the table: so an address that is used again, which
  is one not in the table, cannot lead to what was there before (`MatchSame`). Which number and which address is least follows from well-founded
  induction over the naturals, for one set at a time (`LeastPlace`).

**`ApplicationProofs`** (`Application`). `CommandsAreSound` (`ShellSound`), with `ShellInv`, which is not about assertions but about what comes before them:

* what is left of a command is a chain in which only some steps follow each other (`Chain`), whatever commands were put together or cut short by an answer;
* each step finds, or its dialog waits for, the debugger and its target in one of a few states together (`Asking`, `EndingProcess`, `Loading`,
  `LaunchingProgram`): which ones depends on whether its dialog is open, has been accepted, or is covered by a watchpoint's box, and on the lapses;
* in scenarios that are not orderly, still: which requests, states and processes go together (`Ordered`), so that the window closes over nothing (`Leaves`).

The closing window is proved in every scenario; the assertions in orderly ones, with every lapse, but for those a lapse is named for; that a user who can give a command finds the
target's own state in orderly ones without the lapses `killed` and `answersLate`.

A step of a command is proved to leave what the next one finds (`GoesOn`, `Turns`, and a lemma for each step), and a notification what the same step waits
for: `Located` says which dialog can be open in each state, `Hears` whether the notification accepts it.

The same module adds the console to it (`Console`). `AnswersAreSound` (`AnswersSound`), with `ConsoleInv`, for orderly scenarios in which no attach is answered after its stop
(the `answersLate` lapse: there, an attach may be said to have succeeded while it is still under way; the console's run leaves it out too):

* the last step of what is left of a command is its answer, and none of the others is (`ConsoleChains`), so that a step gives as many answers as it leaves fewer owed, but in the slips `early`, `both` and `nowhere` (`AnswersAreCounted`);
* `Outstanding`: what remains of the command says what it still has to make so; `Results`, `Prepared`: the result that is on its way, or has just come, is the one that its last step reports.

`TerminalIsSound` (`TerminalSound`), with every lapse, in orderly scenarios, from `TerminalInv`: a step moves the target, its process and the request under way only
together (`Shift`), so that a process belongs to the terminal when the launch that started it was the built-in one (`Owned`), the terminal remembers a running program exactly
while there is one of its own (`Remembers`), and no step that would detach from it is left (`NoDetach`).

**`BreakpointsProofs`** (`Breakpoints`). `ListIsSound` (`ListSound`), in every scenario; that LLDB follows the list (`CoreFollowsList`) leaves out `renumber` and, for the ignore counts, `staleHits`. The two copies agree only when nothing is on its way, so `IInv`, in `BreakpointsSteps`,
says what the commands and answers on their way will make of them:

* `Fresh`, at all times, even after a fault: what is being installed has no number yet, and is on its way in one place;
* `Phase`, `Closing`, `Waiting`: one command or answer is under way that takes the target to its next state, the close is the last command, and
  a watchpoint's dialog waits for one answer;
* `Following`, while numbers are the same on both sides: the commands to install come in the order of the numbers the core will give (which is why installing in the
  map's order matters), an edit finds its breakpoint or comes behind its installation, the last edit of a removed breakpoint removes it, and the last
  command that sets a field sets it to the list's value;
* `Snapped`, `Sites`, `HitsAgree`: what a stop reports is still LLDB's when it is told, locations are known or told by an answer behind the stop, and
  the ignore count that is set or on its way is the one for the hits LLDB counts on from;
* `AskedStill`, `WatchStops`: a watchpoint is added and removed before the program goes on, so that a stop names one that is listed.

The lemmas tell a step's effect on one breakpoint (`Grown`, `Shrunk`: a queue with one more or one fewer element; `Same`: a map unchanged but at a place),
and each conjunct of `IInv` is carried over each handler by one of them. `InOrderSorts` is the order's own lemma: the position
of a breakpoint is the number of those before it, so a finite map has exactly one such order.

**`WorkbenchProofs`** (`Memory`, in `Workbench`). `WindowShowsMemory` (`WindowSound`). What the window shows now does not determine what it will show, since its reads are answered
one by one after it has moved on; so `WindowInv` is about all of them together:

* `Divided`: the reads under way are a beginning that a move has made obsolete, whose answers the counters will skip, and the ones that extend the window as it is;
* `Begins`, `Ends`: a number for each answer to come, where the window begins by then and how much is still to come at its end, which falls by what that answer
  brings and is what its read asked for (`Falls`; `FallsAdded` and `FallsTaken` carry it over a read that is asked for and one that is answered);
* `Excused`: which assertion has failed, and the mishap that lets it.

The text follows since `Rows` of two lists joined is the rows of each when the first is whole rows (`RowsJoined`), or when the second fills the last row
first (`RowsContinued`). Division by the constant `Row`, which the solver cannot do, is kept in lemmas that say what a quotient is (`DivIs`, `DivUnique`); the rest is linear.

`ReadsTruly` (`ReadSound`) is about one answer, which two functions of the address compute step by step: `Blocks` is one read of all that is asked for (`BlocksRead`, from
`ReadParts`: a read in two parts), and `Unreadable` is, in whole steps, the way to the first that can be read in full, or the way to the end (`PassedOver`, by `UnreadableIs`, which
goes back from the end). It is proved for requests without an offset that do not end within a step of zero. A recursive function is a choice, so that there is one
has to be shown (for `Blocks` by naming it, for `Unreadable` in `Descends`); that it is the one meant follows from the last address where it would not be (`LeastPlace`), for one set at a time.

`BoundsAssumption`, `WordAssumption`, `NumbersAssumption`, `HelpersAssumption`, `LapsesAssumption`, `SlipsAssumption` and
`ScenariosAssumption` only say that the constants are numbers and sets of the named mishaps.

Only model-checked:

* The liveness properties (`CommandsTakeEffect`, `LaunchAnswered`, `WaitsEnd`, `MonitorsTell`, `EndsTold`, `GetsInstalled`, `ProgressEnds`
  and the contract's fairness), which are out of the prover's reach.
* `ThreadsSound`, `WatchesSound`, `ShowsServers`, `DisassemblySound`, `DocumentsSound`, `StopsShown` and the properties of `Views`: they
  speak of what recursive or folding operators compute from lists and trees (the merge of two stacks, the rows of a tree, the search), which takes induction over data.

## The plan

1. `Target` over `TargetContract`, `Debugger`, `ExecStub`, `DapServer` over `DapSession`: done.
2. `Breakpoints`, `Threads`, `WatchList`: the three copies kept in two threads: done.
3. `Application` and `Console` over `Debugger`: done.
4. `Memory`, `Views`, `Editor`, `Inspect`, `ChildProcess`, `BreakpointsView`: done.
5. Proofs: `Target`, `Debugger`, `Launching`, the session of the adapter, the commands of the application, the list of breakpoints: done.
6. Proofs: the console on top of `ShellInv`, the adapter's numbers, the window of memory and a client's reads: done.

### Not modelled

`PROJECT.json` gives each part with its reason: the conversions of LLDB's objects, types and values (text and layout), registers, debugger settings, the log,
ranges and utilities, mocks and LLDB itself. Within the modelled
components: output and module events, which share the target's queues and add no state to it
that the properties mention; the option dialogs of the application; the grouping of registers; layout and painting; the Windows branch
of the exec stub; the rows below a watch in the sorted view, which pass the proxy unchanged.
