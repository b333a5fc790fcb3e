------------------------------- MODULE Adapter -------------------------------
(***************************************************************************)
(* The debug adapter: a session (DapServer), and what its client is handed *)
(* out at the stops of one (Inspect). What connects them is prepare_to_run,*)
(* which each resumption of a session begins with (NoOldRefs) and each of  *)
(* Inspect is; one of the two moves in a behaviour.                        *)
(***************************************************************************)
EXTENDS DapServer

CONSTANTS MaxPage, MaxValues    \* those of Inspect

ASSUME NumbersAssumption == {MaxPage, MaxValues} \subseteq Nat

VARIABLES
  stacks, epoch, frames, varRefs, shown, whole, held,    \* those of Inspect
  part    \* the part that moves; never changes

I == INSTANCE Inspect

handedOut == <<stacks, epoch, frames, varRefs, shown, whole, held>>
adapterVars == <<vars, handedOut, part>>

AdapterInit ==
  /\ Init /\ I!InspectInit
  /\ part = "session" \/ (part = "inspect" /\ mishaps = {})

SessionPart(A) == part = "session" /\ A /\ UNCHANGED <<handedOut, part>>

AdapterNext ==
  \/ SessionPart(Next)
  \/ part = "inspect" /\ I!InspectNext /\ UNCHANGED <<vars, part>>

\* The fairness of FairSpec
AdapterSpec ==
  AdapterInit /\ [][AdapterNext]_adapterVars /\ WF_adapterVars(SessionPart(Handler))

-----------------------------------------------------------------------------
\* What the client holds leads to what it was handed out for (see RefsSound).
HandedOutSound == I!RefsSound
=============================================================================
