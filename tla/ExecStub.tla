------------------------------ MODULE ExecStub ------------------------------
(***************************************************************************)
(* Launching a program in a terminal: the debugger's launch thread, the    *)
(* exec stub (parent) that the terminal runs, and the child it forks, which*)
(* waits for the debugger before it becomes the program.                   *)
(*                                                                         *)
(* They meet in a shared memory region holding a PID and two condition     *)
(* variables. The debugger has one region at a time, always under the same *)
(* name: a new launch removes the name and creates it anew, while those    *)
(* that opened the old region keep it. A region is known by the number of  *)
(* the launch that created it, and so are the processes of a launch.       *)
(***************************************************************************)
EXTENDS Naturals

CONSTANTS
  MaxLaunches,  \* bound: launches of one debugger
  MaxRounds,    \* rounds of the launch thread's wait (20 in the code)
  Scenarios     \* the sets of mishaps a behaviour may have

\* What may happen besides the ordinary, one behaviour at a time.
MishapKinds == {"timeOut",       \* a stub that needs longer than all the rounds
                "terminalExits", \* a terminal program that ends before its stub
                "slowChild",     \* a child not waiting yet when it is notified
                "attachFails"}   \* the debugger cannot attach to the PID

ASSUME BoundsAssumption == MaxLaunches \in Nat /\ MaxRounds \in Nat \ {0}
ASSUME ScenariosAssumption == Scenarios \subseteq SUBSET MishapKinds

Launches == 1..MaxLaunches
NoRegion == 0
NoPid == 0

VARIABLES
  launch,     \* number of the latest launch, 0 before the first
  phase,      \* what the debugger does for it
  rounds,     \* rounds the launch thread has waited
  found,      \* the PID it has found, a launch number
  server,     \* the region the shared name denotes: exec_stub_srv_
  pid,        \* exec_stub_struct::pid_ of each region
  terminal,   \* the terminal's process runs
  parent,     \* the exec stub
  parentShm,  \* the region it has opened
  child,      \* the child it forked
  childShm,   \* the region the child has opened
  attached,   \* the children the debugger has attached to
  mishaps     \* what may go wrong in this behaviour; never changes

debuggerVars == <<launch, phase, rounds, found, server, attached>>
parentVars == <<parent, parentShm>>
childVars == <<child, childShm>>
vars == <<debuggerVars, pid, terminal, parentVars, childVars, mishaps>>

TypeOK ==
  /\ launch \in 0..MaxLaunches /\ rounds \in 0..MaxRounds
  /\ phase \in {"idle", "waiting", "attaching"}
  /\ server \in {NoRegion} \cup Launches /\ found \in {NoPid} \cup Launches
  /\ pid \in [Launches -> {NoPid} \cup Launches]
  /\ terminal \in [Launches -> BOOLEAN]
  /\ parent \in [Launches -> {"none", "forking", "forked", "open", "done"}]
  /\ child \in [Launches -> {"none", "forked", "open", "waiting", "notified", "program", "ended"}]
  /\ parentShm \in [Launches -> {NoRegion} \cup Launches]
  /\ childShm \in [Launches -> {NoRegion} \cup Launches]
  /\ attached \subseteq Launches /\ mishaps \subseteq MishapKinds

Init ==
  /\ mishaps \in Scenarios
  /\ launch = 0 /\ phase = "idle" /\ rounds = 0 /\ found = NoPid
  /\ server = NoRegion /\ attached = {}
  /\ pid = [i \in Launches |-> NoPid] /\ terminal = [i \in Launches |-> FALSE]
  /\ parent = [i \in Launches |-> "none"] /\ parentShm = [i \in Launches |-> NoRegion]
  /\ child = [i \in Launches |-> "none"] /\ childShm = [i \in Launches |-> NoRegion]

-----------------------------------------------------------------------------
(* The debugger                                                            *)

\* target::launch_terminal: a new region, the terminal with the stub in it,
\* and the launch thread.
LaunchTerminal_SameRegion ==
  /\ phase = "idle" /\ launch < MaxLaunches
  /\ launch' = launch + 1 /\ server' = IF server = NoRegion THEN launch + 1 ELSE server
  /\ phase' = "waiting" /\ rounds' = 0 /\ found' = NoPid
  /\ terminal' = [terminal EXCEPT ![launch + 1] = TRUE]
  /\ parent' = [parent EXCEPT ![launch + 1] = "forking"]
  /\ UNCHANGED <<attached, pid, parentShm, childVars, mishaps>>

LaunchTerminal ==
  /\ phase = "idle" /\ launch < MaxLaunches
  /\ launch' = launch + 1 /\ server' = launch + 1
  /\ phase' = "waiting" /\ rounds' = 0 /\ found' = NoPid
  /\ terminal' = [terminal EXCEPT ![launch + 1] = TRUE]
  /\ parent' = [parent EXCEPT ![launch + 1] = "forking"]
  /\ UNCHANGED <<attached, pid, parentShm, childVars, mishaps>>

\* One round of the thread: wait_pid returns the PID as it is, on a notification
\* or at the end of its time; then the terminal's process is looked at.
Wait ==
  /\ phase = "waiting"
  /\ \/ pid[server] # NoPid /\ phase' = "attaching" /\ found' = pid[server] /\ UNCHANGED rounds
     \/ pid[server] = NoPid /\ ~terminal[launch] /\ phase' = "idle" /\ UNCHANGED <<rounds, found>>
     \/ /\ pid[server] = NoPid /\ terminal[launch] /\ rounds + 1 < MaxRounds
        /\ rounds' = rounds + 1 /\ UNCHANGED <<phase, found>>
     \/ /\ pid[server] = NoPid /\ terminal[launch] /\ rounds + 1 = MaxRounds
        /\ "timeOut" \in mishaps
        /\ phase' = "idle" /\ UNCHANGED <<rounds, found>>
  /\ UNCHANGED <<launch, server, attached, pid, terminal, parentVars, childVars, mishaps>>

\* on_exec_stub_launched and the attach handler: with the process attached,
\* notify_continue wakes whoever waits on the region at this moment.
Woken(r) == {i \in Launches : child[i] = "waiting" /\ childShm[i] = r}

Attach_NoNotify ==
  /\ phase = "attaching" /\ phase' = "idle"
  /\ attached' = attached \cup {found} /\ UNCHANGED child
  /\ UNCHANGED <<launch, rounds, found, server, pid, terminal, parentVars, childShm, mishaps>>

Attach ==
  /\ phase = "attaching" /\ phase' = "idle"
  /\ child[found] \in {"forked", "open"} => "slowChild" \in mishaps
  /\ \/ /\ attached' = attached \cup {found}
        /\ child' = [i \in Launches |-> IF i \in Woken(server) THEN "notified" ELSE child[i]]
     \/ "attachFails" \in mishaps /\ UNCHANGED <<attached, child>>
  /\ UNCHANGED <<launch, rounds, found, server, pid, terminal, parentVars, childShm, mishaps>>

\* The target is closed, its server with it: the name is removed.
CloseTarget ==
  /\ phase = "idle" /\ server # NoRegion /\ server' = NoRegion
  /\ UNCHANGED <<launch, phase, rounds, found, attached, pid, terminal, parentVars, childVars, mishaps>>

-----------------------------------------------------------------------------
(* The exec stub, do_exec: fork, open the region by its name, set_pid.     *)
(* Without a region of that name the constructor throws and the stub ends, *)
(* parent or child.                                                        *)

Fork(i) ==
  /\ parent[i] = "forking" /\ parent' = [parent EXCEPT ![i] = "forked"]
  /\ child' = [child EXCEPT ![i] = "forked"]
  /\ UNCHANGED <<debuggerVars, pid, terminal, parentShm, childShm, mishaps>>

ParentOpens(i) ==
  /\ parent[i] = "forked"
  /\ parent' = [parent EXCEPT ![i] = IF server = NoRegion THEN "done" ELSE "open"]
  /\ parentShm' = [parentShm EXCEPT ![i] = server]
  /\ UNCHANGED <<debuggerVars, pid, terminal, childVars, mishaps>>

SendPid(i) ==
  /\ parent[i] = "open" /\ parent' = [parent EXCEPT ![i] = "done"]
  /\ pid' = [pid EXCEPT ![parentShm[i]] = i]
  /\ UNCHANGED <<debuggerVars, terminal, parentShm, childVars, mishaps>>

ChildOpens(i) ==
  /\ child[i] = "forked"
  /\ child' = [child EXCEPT ![i] = IF server = NoRegion THEN "ended" ELSE "open"]
  /\ childShm' = [childShm EXCEPT ![i] = server]
  /\ UNCHANGED <<debuggerVars, pid, terminal, parentVars, mishaps>>

\* wait_for_conitue: no flag is tested, before the wait or after it.
ChildWaits(i) ==
  /\ child[i] = "open" /\ child' = [child EXCEPT ![i] = "waiting"]
  /\ UNCHANGED <<debuggerVars, pid, terminal, parentVars, childShm, mishaps>>

\* execv, or its failure and exit(2)
Exec(i) ==
  /\ child[i] = "notified"
  /\ \E c \in {"program", "ended"} : child' = [child EXCEPT ![i] = c]
  /\ UNCHANGED <<debuggerVars, pid, terminal, parentVars, childShm, mishaps>>

Debugger == LaunchTerminal \/ Wait \/ Attach \/ CloseTarget
Parent(i) == Fork(i) \/ ParentOpens(i) \/ SendPid(i)
Child(i) == ChildOpens(i) \/ ChildWaits(i) \/ Exec(i)

TerminalExits(i) ==
  /\ "terminalExits" \in mishaps /\ terminal[i]
  /\ terminal' = [terminal EXCEPT ![i] = FALSE]
  /\ UNCHANGED <<debuggerVars, pid, parentVars, childVars, mishaps>>

Next == Debugger \/ \E i \in Launches : Parent(i) \/ Child(i) \/ TerminalExits(i)

Spec == Init /\ [][Next]_vars

\* The debugger's threads are scheduled, and so is a child once it is forked;
\* a terminal program may take for ever to run the stub.
FairSpec == /\ Spec /\ \A i \in Launches : WF_vars(Child(i))
            /\ WF_vars(Wait) /\ WF_vars(Attach)

-----------------------------------------------------------------------------
(* Properties                                                              *)

\* Stubs and children keep up: none is busy with a launch that is over.
InTime == mishaps \subseteq {"attachFails"}

\* The launch thread takes the PID of its own launch's child for the process
\* to attach to, although every launch uses the same name (exec_stub_server).
OwnPid == InTime => found \in {NoPid, launch}

\* The program is not run before the debugger has attached to it, so that no
\* breakpoint is missed (do_exec, notify_continue).
NoUnattendedProgram == InTime => \A i \in Launches : child[i] = "program" => i \in attached

\* Launches under one name keep to their own processes.
LaunchesApart == TypeOK /\ OwnPid /\ NoUnattendedProgram

\* A child that waits when the debugger comes to attach to it goes on to its
\* program, or ends, unless the debugger cannot attach. Nothing is promised to a
\* child that begins to wait later: the notification wakes only those that wait
\* (exec_stub_struct.cpp:63), so that one waits for ever.
AttachedChildRuns ==
  \A i \in Launches :
    child[i] = "waiting" /\ phase = "attaching" /\ found = i
    /\ mishaps \subseteq {"attachFails", "slowChild"}
      ~> child[i] \in {"program", "ended"} \/ (phase # "attaching" /\ i \notin attached)

\* The launch thread ends, with a PID or without, even if the terminal never
\* runs the stub (the 20 rounds of launch_terminal). Scenarios without "timeOut"
\* leave the last round open until the stub reports.
LaunchEnds == "timeOut" \in mishaps /\ phase = "waiting" ~> phase # "waiting"

\* The wait of a child that is notified ends, and so does the launch thread's.
WaitsEnd == AttachedChildRuns /\ LaunchEnds

=============================================================================
