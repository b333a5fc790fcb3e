--------------------------- MODULE TargetContract ---------------------------
(***************************************************************************)
(* What the interface cxxdbg::dbg::target_impl promises to its users in    *)
(* the main thread, as its comments state it: the target state machine.    *)
(* The debugger, the command line and the windows are written against this *)
(* machine only; Target.tla is the implementation with its three threads.  *)
(***************************************************************************)

VARIABLE state      \* target_impl::state()

TargetStates == {"invalid", "loaded", "launching", "running", "stopped",
                 "terminating", "detaching", "unloading"}

Init == state \in {"loaded", "launching", "stopped"}

\* launch() and attach(): only in the loaded state; the state becomes launching.
StartProcess == state = "loaded" /\ state' = "launching"

\* The launch failed, was completed, or (attach) found a stopped process.
EndLaunching == state = "launching" /\ state' \in {"loaded", "running", "stopped"}

\* run() and the stepping operations: only in the stopped state.
Resume == state = "stopped" /\ state' = "running"

\* A stop event, or a resumption that failed and is rolled back.
StopReported == state = "running" /\ state' = "stopped"

\* The process exited by itself, was killed, or was released.
ExitReported == state \in {"running", "terminating", "detaching"} /\ state' = "loaded"

\* terminate() and detach(): only in the stopped state.
EndProcess == state = "stopped" /\ state' \in {"terminating", "detaching"}

\* close(): only in the loaded state; its handler runs in the invalid state.
Unload == state = "loaded" /\ state' = "unloading"
Unloaded == state = "unloading" /\ state' = "invalid"

Next == \/ StartProcess \/ EndLaunching \/ Resume \/ StopReported
        \/ ExitReported \/ EndProcess \/ Unload \/ Unloaded

Spec == Init /\ [][Next]_state

\* The transient states are left: what a user waits for after each request.
\* An end that LLDB refuses leaves the target ending, so that one is no promise.
FairSpec == Spec /\ WF_state(EndLaunching) /\ WF_state(Unloaded)
=============================================================================
