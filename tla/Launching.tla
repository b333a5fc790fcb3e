------------------------------ MODULE Launching ------------------------------
(***************************************************************************)
(* How the programs start processes: in a terminal with the exec stub, to  *)
(* debug them (ExecStub), and with a monitor (ChildProcess). The two share *)
(* no state; one of them moves in a behaviour.                             *)
(***************************************************************************)
EXTENDS ExecStub

CONSTANTS MaxOutput, MaxInput
VARIABLES
  kind, process, heir, reused, written, unread, shut, input, reading, tasks, pool, events,
  told, monitor, sent, late, request,   \* those of ChildProcess
  part    \* the part that moves; never changes

P == INSTANCE ChildProcess

processVars == <<kind, process, heir, reused, written, unread, shut, input, reading, tasks, pool,
                 events, told, monitor, sent, late, request>>
launchingVars == <<vars, processVars, part>>

LaunchingInit ==
  /\ Init /\ P!ChildInit
  /\ \/ part = "stub" /\ kind = "other"
     \/ part = "process" /\ mishaps = {}

StubPart(A) == part = "stub" /\ A /\ UNCHANGED <<processVars, part>>
ProcessPart(A) == part = "process" /\ A /\ UNCHANGED <<vars, part>>

LaunchingNext == StubPart(Next) \/ ProcessPart(P!ChildNext)

\* The fairness of both parts (FairSpec, ChildFairness)
LaunchingSpec ==
  /\ LaunchingInit /\ [][LaunchingNext]_launchingVars
  /\ \A i \in Launches : WF_launchingVars(StubPart(Child(i)))
  /\ WF_launchingVars(StubPart(Wait)) /\ WF_launchingVars(StubPart(Attach))
  /\ WF_launchingVars(ProcessPart(P!Pool)) /\ WF_launchingVars(ProcessPart(P!Watch))
  /\ WF_launchingVars(ProcessPart(P!HandleEvent)) /\ WF_launchingVars(ProcessPart(P!WaitPid))
  /\ WF_launchingVars(ProcessPart(P!Exit)) /\ WF_launchingVars(ProcessPart(P!Reap))

-----------------------------------------------------------------------------
\* The monitors tell of a process's end when it has ended, after its output,
\* and once, unless a buffer of input was handled after the end.
MonitorsSound == P!ToldSound

\* They tell of it in the end (bp_io_child_monitor, posix_monitor).
MonitorsTell == P!EndTold
=============================================================================
