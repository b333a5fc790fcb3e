----------------------------- MODULE DapSession -----------------------------
(***************************************************************************)
(* What a client of the debug adapter is told of its debuggee: the events  *)
(* and answers of one session, as child_process.hpp and the Debug Adapter  *)
(* Protocol have them.                                                     *)
(***************************************************************************)

VARIABLE told       \* what the client takes the debuggee for

Told == {"nothing", "running", "stopped", "exited"}

Init == told = "nothing"

\* configurationDone is answered: the debuggee was launched or resumed.
Started == told = "nothing" /\ told' = "running"

\* continue, next, stepIn, stepOut are answered.
Resumed == told = "stopped" /\ told' = "running"

\* The events "stopped" and "exited"; the second is the last.
StopTold == told = "running" /\ told' = "stopped"
ExitTold == told # "exited" /\ told' = "exited"

Next == Started \/ Resumed \/ StopTold \/ ExitTold

Spec == Init /\ [][Next]_told
=============================================================================
