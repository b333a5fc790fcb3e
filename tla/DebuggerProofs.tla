--------------------------- MODULE DebuggerProofs ---------------------------
(***************************************************************************)
(* Proofs about Debugger.tla, for every word size, bound and scenario. The *)
(* properties speak of behaviours without the mishaps that leak a          *)
(* launch_helper or make it miscount (NoLeaks); mishaps never change, so   *)
(* a behaviour keeps to the inductive invariant or never has to.           *)
(*                                                                         *)
(* The inductive invariant says which helper is alive in each phase of a   *)
(* launch, what it has counted, and what the phase looks like otherwise.   *)
(* The last section is about all scenarios: OrderInv says which request,   *)
(* process and state of the target go together, whatever goes wrong.       *)
(***************************************************************************)
EXTENDS Debugger, TLAPS

One(n, g) == <<[skip |-> n, got |-> g]>>

\* The phases of a terminal launch and of a built-in one.
Launching ==
  \/ stubThread = TRUE /\ reply = "none" /\ impl = "loaded" /\ proc = "none" /\ helpers = One(2, FALSE)
  \/ /\ stubThread = FALSE /\ impl = "launching"
     /\ \/ reply = "launch" /\ proc = "none" /\ helpers = One(0, FALSE)
        \/ reply = "attachStub" /\ proc = "none" /\ helpers = One(2, FALSE)
        \/ reply = "none" /\ proc \in StubChild /\ helpers = One(2, TRUE)
  \/ /\ stubThread = FALSE /\ impl = "running"
     /\ \/ reply = "attachStub" /\ proc = "waiting" /\ helpers = One(1, FALSE)
        \/ reply = "none" /\ proc \in StubChild /\ helpers = One(1, TRUE)

\* Everything else: no helper is alive.
WithProcess == {"launching", "running", "stopped", "terminating", "detaching"}
Settled ==
  /\ stubThread = FALSE /\ helpers = <<>>
  /\ \/ impl = "none" /\ proc = "none" /\ reply = "none" /\ dbg = "initial"
     \/ impl = "none" /\ proc = "none" /\ reply = "connect" /\ dbg = "connecting"
     \/ impl = "none" /\ proc = "none" /\ reply \in {"load", "attachNew"} /\ dbg = "loading"
     \/ impl = "loaded" /\ proc = "none" /\ reply = "none"
     \/ impl = "unloading" /\ proc = "none" /\ reply = "close"
     \/ impl = "launching" /\ proc = "none" /\ reply = "attach"
     \/ impl \in WithProcess /\ proc = "program" /\ reply = "none"
     \/ impl \in WithProcess \ {"launching"} /\ proc = "program" /\ reply = "attach"

IInv == /\ Launching \/ Settled
        /\ stopAsked = FALSE
        /\ FollowsTarget
        /\ StubThreadsHidden

-----------------------------------------------------------------------------
\* What a lone helper does with a stop and with the result of its launch.
LEMMA HelperStop ==
  /\ \A g \in BOOLEAN : helpers = One(2, g) => HelpersAfterStop = One(1, g)
  /\ helpers = One(1, TRUE) => HelpersAfterStop = <<>>
PROOF
<1>1. (2 + WordMod - 1) % WordMod = 1 /\ (1 + WordMod - 1) % WordMod = 0
  BY WordAssumption
<1>2. ASSUME NEW g \in BOOLEAN, helpers = One(2, g)
      PROVE  HelpersAfterStop = One(1, g)
  <2>1. Head(helpers).skip = 2 /\ Head(helpers).got = g /\ Tail(helpers) = <<>>
    BY <1>2 DEF One
  <2>2. (Head(helpers).skip + WordMod - 1) % WordMod = 1
    BY <1>1, <2>1
  <2>3. <<[skip |-> 1, got |-> g]>> \o <<>> = One(1, g)
    BY DEF One
  <2>4. (Head(helpers).skip + WordMod - 1) % WordMod # 0
    BY <2>2
  <2>. QED
    BY <2>1, <2>2, <2>3, <2>4, Zenon DEF HelpersAfterStop
<1>3. ASSUME helpers = One(1, TRUE)
      PROVE  HelpersAfterStop = <<>>
  <2>1. Head(helpers).skip = 1 /\ Head(helpers).got = TRUE /\ Tail(helpers) = <<>>
    BY <1>3 DEF One
  <2>2. (Head(helpers).skip + WordMod - 1) % WordMod = 0
    BY <1>1, <2>1
  <2>. QED
    BY <2>1, <2>2 DEF HelpersAfterStop
<1>. QED
  BY <1>2, <1>3

LEMMA OneIsSome == \A n, g : One(n, g) # <<>>
PROOF BY DEF One

LEMMA HelperResult ==
  ASSUME NEW n \in {0, 1, 2}, helpers = One(n, FALSE)
  PROVE  /\ OnLaunched(FALSE) => helpers' = <<>>
         /\ OnLaunched(TRUE) => helpers' = IF n = 0 THEN <<>> ELSE One(n, TRUE)
PROOF
<1>1. Front(helpers) = <<>>
  BY DEF One, Front
<1>2. Last(helpers).skip = n
  BY DEF One, Last
<1>3. Append(<<>>, [skip |-> n, got |-> TRUE]) = One(n, TRUE)
  BY DEF One
<1>. QED
  BY <1>1, <1>2, <1>3 DEF OnLaunched

\* The helper a launch creates.
LEMMA NewLaunch ==
  ASSUME helpers = <<>>
  PROVE  \A t \in BOOLEAN : Append(helpers, NewHelper(t)) = One(IF t THEN 2 ELSE 0, FALSE)
PROOF BY DEF NewHelper, One

-----------------------------------------------------------------------------
\* IInv holds initially.
LEMMA InitIInv == Init => IInv
PROOF BY DEF Init, IInv, Settled, FollowsTarget, StubThreadsHidden, StubChild

\* A request of the user keeps IInv.
LEMMA UserActionIInv ==
  ASSUME NoLeaks, IInv, UserAction
  PROVE  IInv'
PROOF
<1>. USE DEF IInv, FollowsTarget, TargetState, StubThreadsHidden, StubChild, targetVars, platVars
<1>1. CASE Connect \/ Disconnect \/ Load
  BY <1>1 DEF Connect, Disconnect, Load, Launching, Settled, WithProcess
<1>2. CASE Attach
  BY <1>2 DEF Attach, Notify, Launching, Settled, WithProcess
<1>3. CASE LaunchBuiltin
  <2>1. Settled /\ impl = "loaded" /\ proc = "none"
    BY <1>3 DEF LaunchBuiltin, Launching, Settled, WithProcess
  <2>2. helpers' = One(0, FALSE)
    BY <1>3, <2>1, NewLaunch DEF LaunchBuiltin, Settled
  <2>. QED
    BY <1>3, <2>1, <2>2 DEF LaunchBuiltin, Notify, Launching, Settled, One
<1>4. CASE LaunchInTerminal
  <2>1. Settled /\ impl = "loaded" /\ proc = "none" /\ reply = "none"
    BY <1>4 DEF LaunchInTerminal, Launching, Settled, WithProcess
  <2>2. helpers' = One(2, FALSE)
    BY <1>4, <2>1, NewLaunch DEF LaunchInTerminal, Settled
  <2>3. stubThread' = TRUE /\ Notify("launching")
    BY <1>4 DEF LaunchInTerminal, NoLeaks
  <2>. QED
    BY <1>4, <2>1, <2>2, <2>3 DEF LaunchInTerminal, Notify, Launching, Settled, One
<1>5. CASE Run
  BY <1>5 DEF Run, Notify, Launching, Settled, WithProcess
<1>6. CASE Stop
  BY <1>6 DEF Stop, Launching, Settled, NoLeaks
<1>7. CASE EndProcess
  BY <1>7 DEF EndProcess, Notify, Launching, Settled, WithProcess
<1>8. CASE CloseTarget
  BY <1>8 DEF CloseTarget, Notify, Launching, Settled, WithProcess
<1>. QED
  BY <1>1, <1>2, <1>3, <1>4, <1>5, <1>6, <1>7, <1>8 DEF UserAction

\* The result of a request keeps IInv.
LEMMA ResultIInv ==
  ASSUME NoLeaks, IInv, Result
  PROVE  IInv'
PROOF
<1>. USE DEF IInv, FollowsTarget, TargetState, StubThreadsHidden, StubChild, targetVars, platVars, Answer
<1>1. CASE Connected \/ LoadFailed
  BY <1>1 DEF Connected, LoadFailed, Launching, Settled, WithProcess
<1>2. CASE LoadDone
  BY <1>2 DEF LoadDone, Launching, Settled, WithProcess
<1>3. CASE LaunchDone
  <2>1. helpers = One(0, FALSE) /\ stubThread = FALSE
    BY <1>3 DEF LaunchDone, Launching, Settled
  <2>2. helpers' = <<>>
    BY <1>3, <2>1, HelperResult DEF LaunchDone
  <2>. QED
    BY <1>3, <2>1, <2>2 DEF LaunchDone, Notify, Launching, Settled, WithProcess, One
<1>4. CASE StubFailed
  <2>1. helpers = One(2, FALSE) /\ impl = "loaded" /\ reply = "none" /\ proc = "none"
    BY <1>4 DEF StubFailed, Launching, Settled
  <2>2. helpers' = <<>>
    BY <1>4, <2>1, HelperResult DEF StubFailed
  <2>. QED
    BY <1>4, <2>1, <2>2 DEF StubFailed, Notify, Settled
<1>5. CASE StubLaunched
  BY <1>5 DEF StubLaunched, Notify, Launching, Settled
<1>6. CASE AttachFailed
  <2>1. CASE reply = "attach"
    BY <1>6, <2>1 DEF AttachFailed, Notify, Launching, Settled
  <2>2. CASE reply = "attachStub"
    <3>1. helpers = One(2, FALSE) /\ stubThread = FALSE /\ proc = "none"
      BY <1>6, <2>2 DEF AttachFailed, Launching, Settled
    <3>2. helpers' = <<>>
      BY <1>6, <2>2, <3>1, HelperResult DEF AttachFailed
    <3>. QED
      BY <1>6, <2>2, <3>1, <3>2 DEF AttachFailed, Notify, Settled
  <2>. QED
    BY <1>6, <2>1, <2>2 DEF AttachFailed
<1>7. CASE AttachDone
  <2>1. CASE reply = "attach"
    BY <1>7, <2>1 DEF AttachDone, Launching, Settled, WithProcess
  <2>2. CASE reply = "attachStub"
    <3>1. /\ stubThread = FALSE
          /\ \/ impl = "launching" /\ helpers = One(2, FALSE)
             \/ impl = "running" /\ helpers = One(1, FALSE)
      BY <1>7, <2>2 DEF AttachDone, Launching, Settled
    <3>2. OnLaunched(TRUE)
      BY <1>7, <2>2 DEF AttachDone
    <3>3. CASE impl = "launching" /\ helpers = One(2, FALSE)
      <4>1. helpers' = One(2, TRUE)
        BY <3>2, <3>3, HelperResult
      <4>. QED
        BY <1>7, <2>2, <3>1, <3>3, <4>1 DEF AttachDone, Launching
    <3>4. CASE impl = "running" /\ helpers = One(1, FALSE)
      <4>1. helpers' = One(1, TRUE)
        BY <3>2, <3>4, HelperResult
      <4>. QED
        BY <1>7, <2>2, <3>1, <3>4, <4>1 DEF AttachDone, Launching
    <3>. QED
      BY <3>1, <3>3, <3>4
  <2>. QED
    BY <1>7, <2>1, <2>2 DEF AttachDone
<1>8. CASE Closed
  BY <1>8 DEF Closed, Launching, Settled
<1>. QED
  BY <1>1, <1>2, <1>3, <1>4, <1>5, <1>6, <1>7, <1>8 DEF Result

\* Which helper a stop finds: none at a stop of the program, the last
\* temporary stop's at the exec, an attach's at the stop of the stub's child.
LEMMA StopFindsHelper ==
  ASSUME IInv
  PROVE  /\ ProgramStop => helpers = <<>> /\ stubThread = FALSE
         /\ ExecStop => helpers = One(1, TRUE) /\ stubThread = FALSE /\ reply = "none"
         /\ AttachStop =>
              /\ stubThread = FALSE
              /\ \/ helpers = One(2, TRUE) /\ reply = "none" /\ proc \in StubChild
                 \/ helpers = One(2, FALSE) /\ reply = "attachStub" /\ proc = "none"
                 \/ helpers = <<>> /\ reply = "none" /\ proc = "program"
                 \/ helpers = <<>> /\ reply = "attach" /\ proc = "none"
PROOF BY DEF IInv, ProgramStop, ExecStop, AttachStop, StubChild, Launching, Settled, WithProcess

LEMMA ProgramStopShown ==
  ASSUME IInv, ProgramStop
  PROVE  dbg' = "stopped"
PROOF BY StopFindsHelper DEF ProgramStop, ReportStop

LEMMA ExecStopHidden ==
  ASSUME IInv, ExecStop
  PROVE  dbg' = "running"
PROOF BY StopFindsHelper, OneIsSome DEF ExecStop, ReportStop

\* A stop or an exit keeps IInv.
LEMMA TargetEventIInv ==
  ASSUME NoLeaks, IInv, TargetEvent
  PROVE  IInv'
PROOF
<1>. USE DEF IInv, FollowsTarget, TargetState, StubThreadsHidden, StubChild, targetVars, platVars
<1>1. CASE AttachStop
  <2>1. stubThread = FALSE
    BY <1>1, StopFindsHelper
  <2>2. CASE helpers = One(2, TRUE) /\ reply = "none" /\ proc \in StubChild
    <3>1. HelpersAfterStop = One(1, TRUE) /\ helpers # <<>>
      BY <2>2, HelperStop, OneIsSome
    <3>. QED
      BY <1>1, <2>1, <2>2, <3>1 DEF AttachStop, ReportStop, Launching
  <2>3. CASE helpers = One(2, FALSE) /\ reply = "attachStub" /\ proc = "none"
    <3>1. HelpersAfterStop = One(1, FALSE) /\ helpers # <<>>
      BY <2>3, HelperStop, OneIsSome
    <3>. QED
      BY <1>1, <2>1, <2>3, <3>1 DEF AttachStop, ReportStop, Launching
  <2>4. CASE \/ helpers = <<>> /\ reply = "none" /\ proc = "program"
             \/ helpers = <<>> /\ reply = "attach" /\ proc = "none"
    BY <1>1, <2>1, <2>4 DEF AttachStop, ReportStop, Settled, WithProcess
  <2>. QED
    BY <1>1, <2>2, <2>3, <2>4, StopFindsHelper
<1>2. CASE ExecStop
  <2>1. HelpersAfterStop = <<>> /\ helpers # <<>>
    BY <1>2, StopFindsHelper, HelperStop, OneIsSome
  <2>. QED
    BY <1>2, <2>1, StopFindsHelper DEF ExecStop, ReportStop, Settled, WithProcess
<1>3. CASE ProgramStop
  <2>1. helpers = <<>> /\ stubThread = FALSE
    BY <1>3, StopFindsHelper
  <2>. QED
    BY <1>3, <2>1 DEF ProgramStop, ReportStop, Settled, WithProcess
<1>4. CASE EarlyStop
  BY <1>4 DEF EarlyStop
<1>5. CASE Exit
  BY <1>5 DEF Exit, Notify, Launching, Settled, WithProcess, NoLeaks
<1>. QED
  BY <1>1, <1>2, <1>3, <1>4, <1>5 DEF TargetEvent

LEMMA NextIInv ==
  ASSUME NoLeaks => IInv, [Next]_vars
  PROVE  NoLeaks' => IInv'
PROOF
<1>1. mishaps' = mishaps
  BY DEF Next, vars, UserAction, Connect, Disconnect, Load, Attach, LaunchBuiltin,
         LaunchInTerminal, Run, Stop, EndProcess, CloseTarget, Result, Connected, LoadFailed,
         LoadDone, LaunchDone, StubFailed, StubLaunched, AttachFailed, AttachDone, Closed,
         TargetEvent, AttachStop, ExecStop, ProgramStop, EarlyStop, Exit, Hangs
<1>2. SUFFICES ASSUME NoLeaks PROVE IInv'
  BY <1>1 DEF NoLeaks
<1>3. CASE UNCHANGED vars
  BY <1>2, <1>3 DEF vars, targetVars, platVars, IInv, Launching, Settled, FollowsTarget,
              TargetState, StubThreadsHidden, StubChild
<1>. QED
  BY <1>2, <1>3, UserActionIInv, ResultIInv, TargetEventIInv DEF Next, Hangs

-----------------------------------------------------------------------------
\* IInv is an invariant of every behaviour in which nothing leaks a helper.
LEMMA AlwaysIInv == Spec => [](NoLeaks => IInv)
PROOF
<1>1. (NoLeaks => IInv) /\ [Next]_vars => (NoLeaks => IInv)'
  BY NextIInv
<1>2. Init => (NoLeaks => IInv)
  BY InitIInv
<1>. QED
  BY <1>1, <1>2, PTL DEF Spec

\* For every word size and number of launches, the debugger's state follows
\* the target's, whatever the nesting of notifications and helper calls
\* (debugger::on_target_state_changed).
THEOREM DebuggerFollowsTarget == Spec => []FollowsTarget
PROOF
<1>1. (NoLeaks => IInv) => FollowsTarget
  BY DEF IInv, FollowsTarget
<1>. QED
  BY <1>1, AlwaysIInv, PTL

\* No launch_helper survives its launch, so every launch is answered by the
\* time the next can begin (launch_helper::on_launched).
THEOREM NoHelperSurvives == Spec => []AnsweredWhenOver
PROOF
<1>1. (NoLeaks => IInv) => AnsweredWhenOver
  BY DEF IInv, AnsweredWhenOver, Launching, Settled
<1>. QED
  BY <1>1, AlwaysIInv, PTL

\* Every stop of the program is shown to the user, although helpers hide the
\* stops of the launch before it (launch_helper::on_state_changed).
THEOREM ShowsProgramStops == Spec => ProgramStopsShown
PROOF
<1>1. (NoLeaks => IInv) /\ [Next]_vars => [NoLeaks /\ ProgramStop => dbg' = "stopped"]_vars
  BY ProgramStopShown
<1>. QED
  BY <1>1, AlwaysIInv, PTL DEF Spec, ProgramStopsShown

\* The stop at the exec of the program is hidden, and so are the threads of
\* the exec stub (target::clear_threads).
THEOREM HidesTemporaryStops == Spec => ExecStopsHidden /\ []StubThreadsHidden
PROOF
<1>1. (NoLeaks => IInv) /\ [Next]_vars => [NoLeaks /\ ExecStop => dbg' = "running"]_vars
  BY ExecStopHidden
<1>2. (NoLeaks => IInv) => StubThreadsHidden
  BY DEF IInv, StubThreadsHidden
<1>. QED
  BY <1>1, <1>2, AlwaysIInv, PTL DEF Spec, ExecStopsHidden

\* A step of the debugger takes the target_impl one step of its contract, or
\* two if a helper runs on from a stop, which together are one again.
LEMMA ContractStep ==
  ASSUME NoLeaks, IInv, [Next]_vars
  PROVE  impl # "none" /\ impl' # "none" /\ impl' # impl => TargetContract!Next
PROOF
<1>. USE DEF IInv, FollowsTarget, TargetState, targetVars, TargetContract!Next
<1>1. CASE UserAction
  BY <1>1 DEF UserAction, Connect, Disconnect, Load, Attach, LaunchBuiltin, LaunchInTerminal, Run,
              Stop, EndProcess, CloseTarget, Launching, Settled, WithProcess,
              TargetContract!StartProcess, TargetContract!Resume, TargetContract!EndProcess,
              TargetContract!Unload
<1>2. CASE Result
  BY <1>2 DEF Result, Connected, LoadFailed, LoadDone, LaunchDone, StubFailed, StubLaunched,
              AttachFailed, AttachDone, Closed, Answer, Launching, Settled, WithProcess,
              TargetContract!StartProcess, TargetContract!EndLaunching
<1>3. CASE TargetEvent
  BY <1>3 DEF TargetEvent, AttachStop, ExecStop, ProgramStop, EarlyStop, Exit, ReportStop,
              TargetContract!EndLaunching, TargetContract!StopReported, TargetContract!ExitReported
<1>4. CASE UNCHANGED vars
  BY <1>4 DEF vars
<1>. QED
  BY <1>1, <1>2, <1>3, <1>4 DEF Next, Hangs

\* The target_impl is asked for nothing its contract forbids, although the
\* debugger's asserts look at the debugger's own state (debugger::launch,
\* run, terminate, detach, close_target).
THEOREM DebuggerKeepsContract == Spec => KeepsContract
PROOF
<1>1. (NoLeaks => IInv) /\ [Next]_vars
      => [NoLeaks /\ impl # "none" /\ impl' # "none" => TargetContract!Next]_impl
  BY ContractStep
<1>. QED
  BY <1>1, AlwaysIInv, PTL DEF Spec, KeepsContract

-----------------------------------------------------------------------------
(***************************************************************************)
(* In every scenario: helpers may be left behind and miscount, yet the     *)
(* requests keep to their order, each with a helper of its own at the end  *)
(* of the list, and what was detached from is not taken to have run.       *)
(***************************************************************************)
Shows(s) == impl = s /\ dbg = s
Orderly ==
  \/ stubThread = TRUE /\ impl = "loaded" /\ dbg = "launching" /\ reply = "none" /\ proc = "none"
  \/ /\ stubThread = FALSE
     /\ \/ /\ impl = "none" /\ proc = "none"
           /\ \/ reply = "none" /\ dbg = "initial"
              \/ reply = "connect" /\ dbg = "connecting"
              \/ reply \in {"load", "attachNew"} /\ dbg = "loading"
        \/ Shows("loaded") /\ proc = "none" /\ reply = "none"
        \/ Shows("unloading") /\ proc = "none" /\ reply = "close"
        \/ /\ Shows("launching")
           /\ \/ proc = "none" /\ reply \in {"launch", "attach", "attachStub"}
              \/ proc \in StubChild \cup {"program"} /\ reply = "none"
        \* a helper may have run the target on while nobody listened (LoadDone)
        \/ /\ impl \in {"running", "stopped", "terminating", "detaching"}
           /\ \/ dbg = impl
              \/ dbg = "stopped" /\ impl = "running" /\ proc = "program"
           /\ \/ proc \in StubChild \cup {"program"} /\ reply = "none"
              \/ proc = "waiting" /\ reply = "attachStub" /\ impl = "running"
              \/ proc = "program" /\ reply = "attach"

\* The latest launch's helper has not been told of its result.
HelperWaits ==
  stubThread \/ reply \in {"launch", "attachStub"} => helpers # <<>> /\ ~Last(helpers).got

RunRemembered == /\ dbg = "running" => wasRunning = TRUE
                 /\ dbg = "detaching" => wasRunning = FALSE
                 /\ impl \in {"running", "stopped", "terminating"} =>
                      wasRunning = TRUE \/ "bornStopped" \in mishaps

OrderInv == TypeOK /\ Orderly /\ HelperWaits /\ RunRemembered

-----------------------------------------------------------------------------
\* A list of helpers keeps its type, and its last member, at a stop.
LEMMA HelpersType ==
  ASSUME helpers \in Seq(Helper), helpers # <<>>
  PROVE  /\ Last(helpers) \in Helper /\ Front(helpers) \in Seq(Helper)
         /\ HelpersAfterStop \in Seq(Helper)
         /\ ~Last(helpers).got => HelpersAfterStop # <<>> /\ ~Last(HelpersAfterStop).got
         /\ \A ok \in BOOLEAN : OnLaunched(ok) => helpers' \in Seq(Helper)
PROOF
<1>. DEFINE n == (Head(helpers).skip + WordMod - 1) % WordMod
            h == [skip |-> n, got |-> Head(helpers).got]
<1>1. /\ Head(helpers) \in Helper /\ Tail(helpers) \in Seq(Helper)
      /\ Len(helpers) \in Nat \ {0} /\ Len(Tail(helpers)) = Len(helpers) - 1
  OBVIOUS
<1>2. n \in 0 .. WordMod - 1
  BY <1>1, WordAssumption DEF Helper
<1>3. h \in Helper /\ h.got = Head(helpers).got
  BY <1>1, <1>2 DEF Helper
<1>4. Last(helpers) = helpers[Len(helpers)] /\ Last(helpers) \in Helper
  BY <1>1 DEF Last
<1>5. Front(helpers) \in Seq(Helper)
  BY <1>1 DEF Front
<1>6. /\ <<h>> \o Tail(helpers) \in Seq(Helper)
      /\ Len(<<h>> \o Tail(helpers)) = Len(helpers)
      /\ (<<h>> \o Tail(helpers))[Len(helpers)] = IF Len(helpers) = 1 THEN h ELSE helpers[Len(helpers)]
  <2>. HIDE DEF h
  <2>1. <<h>> \in Seq(Helper) /\ Len(<<h>>) = 1 /\ <<h>>[1] = h
    BY <1>3
  <2>2. /\ <<h>> \o Tail(helpers) \in Seq(Helper)
        /\ Len(<<h>> \o Tail(helpers)) = 1 + Len(Tail(helpers))
    BY <1>1, <2>1
  <2>3. CASE Len(helpers) = 1
    BY <1>1, <2>1, <2>2, <2>3
  <2>4. CASE Len(helpers) # 1
    <3>1. (<<h>> \o Tail(helpers))[Len(helpers)] = Tail(helpers)[Len(helpers) - 1]
      BY <1>1, <2>1, <2>4
    <3>2. Tail(helpers)[Len(helpers) - 1] = helpers[Len(helpers)]
      BY <1>1, <2>4
    <3>. QED
      BY <1>1, <2>2, <2>4, <3>1, <3>2
  <2>. QED
    BY <2>3, <2>4
<1>7. HelpersAfterStop = IF n = 0 /\ Head(helpers).got THEN Tail(helpers)
                         ELSE <<h>> \o Tail(helpers)
  BY DEF HelpersAfterStop
<1>. HIDE DEF n, h
<1>8. HelpersAfterStop \in Seq(Helper)
  BY <1>1, <1>6, <1>7
<1>9. ASSUME ~Last(helpers).got
      PROVE  HelpersAfterStop # <<>> /\ ~Last(HelpersAfterStop).got
  <2>1. CASE Len(helpers) = 1
    <3>1. Last(helpers) = Head(helpers)
      BY <1>1, <1>4, <2>1
    <3>2. HelpersAfterStop = <<h>> \o Tail(helpers)
      BY <1>7, <1>9, <3>1
    <3>. QED
      BY <1>1, <1>3, <1>6, <1>9, <2>1, <3>1, <3>2 DEF Last
  <2>2. CASE Len(helpers) # 1
    <3>1. Tail(helpers) # <<>> /\ Last(Tail(helpers)) = Last(helpers)
      <4>1. Len(Tail(helpers)) > 0 /\ Len(Tail(helpers)) \in 1 .. Len(helpers) - 1
        BY <1>1, <2>2
      <4>2. Tail(helpers)[Len(Tail(helpers))] = helpers[Len(helpers)]
        BY <1>1, <4>1
      <4>3. Tail(helpers) # <<>>
        BY <1>1, <4>1
      <4>. QED
        BY <1>4, <4>2, <4>3 DEF Last
    <3>2. <<h>> \o Tail(helpers) # <<>> /\ Last(<<h>> \o Tail(helpers)) = Last(helpers)
      <4>. DEFINE r == <<h>> \o Tail(helpers)
      <4>1. r \in Seq(Helper) /\ Len(r) = Len(helpers) /\ r[Len(helpers)] = helpers[Len(helpers)]
        BY <1>6, <2>2
      <4>. HIDE DEF r
      <4>2. r # <<>> /\ Last(r) = Last(helpers)
        BY <1>1, <1>4, <4>1 DEF Last
      <4>. QED
        BY <4>2 DEF r
    <3>3. HelpersAfterStop = Tail(helpers) \/ HelpersAfterStop = <<h>> \o Tail(helpers)
      BY <1>7
    <3>. QED
      BY <1>9, <3>1, <3>2, <3>3, Zenon
  <2>. QED
    BY <2>1, <2>2
<1>10. ASSUME NEW ok \in BOOLEAN, OnLaunched(ok) PROVE helpers' \in Seq(Helper)
  <2>1. [skip |-> Last(helpers).skip, got |-> TRUE] \in Helper
    BY <1>4 DEF Helper
  <2>. QED
    BY <1>5, <1>10, <2>1 DEF OnLaunched
<1>. QED
  BY <1>4, <1>5, <1>8, <1>9, <1>10

\* A new helper is the last, and has not been told.
LEMMA HelperAdded ==
  ASSUME helpers \in Seq(Helper), NEW t \in BOOLEAN
  PROVE  LET q == Append(helpers, NewHelper(t)) IN
         q \in Seq(Helper) /\ q # <<>> /\ ~Last(q).got
PROOF
<1>1. NewHelper(t) \in Helper /\ ~NewHelper(t).got
  BY WordAssumption DEF NewHelper, Helper
<1>. HIDE DEF NewHelper
<1>. QED
  BY <1>1 DEF Last

-----------------------------------------------------------------------------
\* OrderInv holds initially.
LEMMA InitOrder == Init => OrderInv
PROOF
<1>1. ASSUME Init PROVE OrderInv
  <2>1. mishaps \subseteq MishapKinds /\ helpers \in Seq(Helper)
    BY <1>1, ScenariosAssumption DEF Init
  <2>. QED
    BY <1>1, <2>1 DEF Init, OrderInv, TypeOK, Orderly, HelperWaits, RunRemembered, DebuggerStates,
       Requests, Processes
<1>. QED
  BY <1>1

\* A notification keeps the debugger's types and what it remembers.
LEMMA Notified ==
  ASSUME TypeOK, NEW s \in DebuggerStates, Notify(s)
  PROVE  /\ dbg' = s /\ wasRunning' \in BOOLEAN /\ exitSignal' \in {0, 1} /\ shown' \in Processes
         /\ s = "running" => wasRunning' = TRUE
         /\ s = "detaching" => wasRunning' = FALSE
         /\ s = "terminating" /\ wasRunning = TRUE => wasRunning' = TRUE
PROOF
<1>1. wasRunning \in BOOLEAN /\ exitSignal \in {0, 1} /\ shown \in Processes
  BY DEF TypeOK
<1>2. dbg' = s /\ exitSignal' \in {0, 1}
  BY <1>1 DEF Notify
<1>3. shown' \in Processes
  BY <1>1 DEF Notify, Processes
<1>4. wasRunning' = (s = "running" \/ (wasRunning /\ s # "detaching"))
  BY DEF Notify
<1>5. wasRunning' \in BOOLEAN /\ (s = "running" => wasRunning' = TRUE)
  BY <1>4, Zenon
<1>6. s = "detaching" => wasRunning' = FALSE
  <2>1. "detaching" # "running"
    OBVIOUS
  <2>. QED
    BY <1>4, <2>1, Zenon
<1>7. s = "terminating" /\ wasRunning = TRUE => wasRunning' = TRUE
  <2>1. "terminating" # "detaching"
    OBVIOUS
  <2>. QED
    BY <1>4, <2>1, Zenon
<1>. QED
  BY <1>2, <1>3, <1>5, <1>6, <1>7

\* A request of the user keeps OrderInv.
LEMMA UserActionOrder ==
  ASSUME OrderInv, UserAction
  PROVE  OrderInv'
PROOF
<1>. USE DEF OrderInv, TypeOK, targetVars, platVars
<1>1. CASE Connect \/ Disconnect \/ Load
  BY <1>1 DEF Connect, Disconnect, Load, Orderly, Shows, HelperWaits, RunRemembered,
              DebuggerStates, Requests
<1>2. CASE Attach \/ CloseTarget
  <2>1. CASE Attach
    BY <2>1, Notified DEF Attach, Orderly, Shows, HelperWaits, RunRemembered,
              DebuggerStates, Requests, TargetContract!TargetStates
  <2>2. CASE CloseTarget
    BY <2>2, Notified DEF CloseTarget, Orderly, Shows, HelperWaits, RunRemembered,
              DebuggerStates, Requests, TargetContract!TargetStates
  <2>. QED
    BY <1>2, <2>1, <2>2
<1>3. CASE LaunchBuiltin \/ LaunchInTerminal
  <2>1. helpers' \in Seq(Helper) /\ helpers' # <<>> /\ ~Last(helpers').got
    BY <1>3, HelperAdded DEF LaunchBuiltin, LaunchInTerminal
  <2>2. CASE LaunchBuiltin
    BY <2>1, <2>2, Notified DEF LaunchBuiltin, Orderly, Shows, HelperWaits, RunRemembered,
              DebuggerStates, Requests, TargetContract!TargetStates
  <2>3. CASE LaunchInTerminal
    BY <2>1, <2>3, Notified DEF LaunchInTerminal, Orderly, Shows, HelperWaits, RunRemembered,
              DebuggerStates, Requests, TargetContract!TargetStates
  <2>. QED
    BY <1>3, <2>2, <2>3
<1>4. CASE Run \/ EndProcess
  <2>1. PICK s \in {"running", "terminating", "detaching"} :
           dbg = "stopped" /\ impl' = s /\ Notify(s)
    BY <1>4 DEF Run, EndProcess
  <2>2. /\ dbg' = s /\ wasRunning' \in BOOLEAN /\ exitSignal' \in {0, 1} /\ shown' \in Processes
        /\ s = "running" => wasRunning' = TRUE
        /\ s = "detaching" => wasRunning' = FALSE
        /\ s = "terminating" /\ wasRunning = TRUE => wasRunning' = TRUE
    BY <2>1, Notified DEF DebuggerStates
  <2>3. UNCHANGED <<stubThread, reply, helpers, platVars, proc, stopAsked, mishaps>>
    BY <1>4 DEF Run, EndProcess
  <2>. QED
    BY <2>1, <2>2, <2>3 DEF Orderly, Shows, HelperWaits, RunRemembered,
              DebuggerStates, TargetContract!TargetStates
<1>5. CASE Stop
  BY <1>5 DEF Stop, Orderly, Shows, HelperWaits, RunRemembered
<1>. QED
  BY <1>1, <1>2, <1>3, <1>4, <1>5 DEF UserAction

\* The result of a request keeps OrderInv.
LEMMA ResultOrder ==
  ASSUME OrderInv, Result
  PROVE  OrderInv'
PROOF
<1>. USE DEF OrderInv, TypeOK, targetVars, platVars, Answer
<1>1. CASE Connected \/ LoadFailed \/ Closed
  BY <1>1 DEF Connected, LoadFailed, Closed, Orderly, Shows, HelperWaits, RunRemembered,
              DebuggerStates, Requests
<1>2. CASE LoadDone
  <2>1. helpers' \in Seq(Helper)
    BY <1>2, HelpersType DEF LoadDone
  <2>. QED
    BY <1>2, <2>1 DEF LoadDone, Orderly, Shows, HelperWaits, RunRemembered, DebuggerStates,
              Requests, Processes, TargetContract!TargetStates
<1>3. CASE LaunchDone \/ StubFailed
  <2>1. helpers' \in Seq(Helper)
    BY <1>3, HelpersType DEF LaunchDone, StubFailed, HelperWaits
  <2>2. CASE LaunchDone
    BY <2>1, <2>2, Notified DEF LaunchDone, Orderly, Shows, HelperWaits, RunRemembered,
              DebuggerStates, Requests, Processes, TargetContract!TargetStates
  <2>3. CASE StubFailed
    BY <2>1, <2>3, Notified DEF StubFailed, Orderly, Shows, HelperWaits, RunRemembered,
              DebuggerStates
  <2>. QED
    BY <1>3, <2>2, <2>3
<1>4. CASE StubLaunched
  BY <1>4, Notified DEF StubLaunched, Orderly, Shows, HelperWaits, RunRemembered,
              DebuggerStates, Requests, TargetContract!TargetStates
<1>5. CASE AttachFailed \/ AttachDone
  <2>1. helpers' \in Seq(Helper)
    BY <1>5, HelpersType DEF AttachFailed, AttachDone, HelperWaits
  <2>2. CASE AttachFailed
    BY <2>1, <2>2, Notified DEF AttachFailed, Orderly, Shows, HelperWaits, RunRemembered,
              DebuggerStates, Requests, TargetContract!TargetStates
  <2>3. CASE AttachDone
    <3>1. CASE reply = "attach"
      BY <2>1, <2>3, <3>1 DEF AttachDone, Orderly, Shows, HelperWaits, RunRemembered, Requests, Processes
    <3>2. CASE reply = "attachStub"
      BY <2>1, <2>3, <3>2 DEF AttachDone, StubChild, Orderly, Shows, HelperWaits, RunRemembered,
         Requests, Processes
    <3>. QED
      BY <2>3, <3>1, <3>2 DEF AttachDone
  <2>. QED
    BY <1>5, <2>2, <2>3
<1>. QED
  BY <1>1, <1>2, <1>3, <1>4, <1>5 DEF Result

\* A stop or an exit keeps OrderInv.
LEMMA TargetEventOrder ==
  ASSUME OrderInv, TargetEvent
  PROVE  OrderInv'
PROOF
<1>. USE DEF OrderInv, TypeOK, targetVars, platVars
<1>1. ASSUME NEW p \in Processes, ReportStop(p)
      PROVE  /\ helpers' \in Seq(Helper)
             /\ helpers # <<>> /\ ~Last(helpers).got => helpers' # <<>> /\ ~Last(helpers').got
             /\ \/ Shows("stopped")' /\ helpers = <<>>
                \/ Shows("running")' /\ helpers # <<>>
             /\ proc' = p /\ shown' \in Processes /\ wasRunning' = TRUE /\ stopAsked' = FALSE
             /\ UNCHANGED <<stubThread, platVars, exitSignal>>
  BY <1>1, HelpersType DEF ReportStop, Shows, Processes
<1>2. CASE AttachStop
  <2>1. PICK p \in Processes : /\ ReportStop(p)
                               /\ p = (IF proc # "none" THEN proc ELSE
                                       IF reply = "attachStub" THEN "waiting" ELSE "program")
    BY <1>2 DEF AttachStop, Processes
  <2>. QED
    BY <1>1, <1>2, <2>1 DEF AttachStop, Orderly, Shows, HelperWaits, RunRemembered,
              DebuggerStates, TargetContract!TargetStates
<1>3. CASE ExecStop \/ ProgramStop \/ EarlyStop
  <2>1. PICK p \in Processes : ReportStop(p) /\ p = IF EarlyStop THEN proc ELSE "program"
    BY <1>3 DEF ExecStop, ProgramStop, EarlyStop, Processes, StubChild
  <2>. QED
    BY <1>1, <1>3, <2>1 DEF ExecStop, ProgramStop, EarlyStop, StubChild, Orderly, Shows, HelperWaits,
              RunRemembered, DebuggerStates, TargetContract!TargetStates
<1>4. CASE Exit
  BY <1>4, Notified DEF Exit, Orderly, Shows, HelperWaits, RunRemembered, DebuggerStates,
              Processes, TargetContract!TargetStates
<1>. QED
  BY <1>2, <1>3, <1>4 DEF TargetEvent

\* OrderInv is an invariant of every behaviour.
LEMMA AlwaysOrder == Spec => []OrderInv
PROOF
<1>1. OrderInv /\ [Next]_vars => OrderInv'
  <2>1. OrderInv /\ UNCHANGED vars => OrderInv'
    BY DEF vars, targetVars, platVars, OrderInv, TypeOK, Orderly, Shows, HelperWaits, RunRemembered
  <2>. QED
    BY <2>1, UserActionOrder, ResultOrder, TargetEventOrder DEF Next, Hangs
<1>. QED
  BY <1>1, InitOrder, PTL DEF Spec

\* Whatever goes wrong, the thread that waits for the exec stub has the target
\* to itself; and in a behaviour where nothing leaves a launch_helper behind,
\* the stub's threads are never shown (launch_terminal, clear_threads).
THEOREM StubStaysApart == Spec => []StubApart
PROOF
<1>1. OrderInv => TypeOK /\ StubThreadAlone
  BY DEF OrderInv, Orderly, Shows, StubThreadAlone
<1>2. (NoLeaks => IInv) => StubThreadsHidden
  BY DEF IInv, StubThreadsHidden
<1>. QED
  BY <1>1, <1>2, AlwaysOrder, AlwaysIInv, PTL DEF StubApart

\* What ran, or is being killed, has run since it was last detached from,
\* unless it was born stopped (on_target_state_changed).
LEMMA ExitStep ==
  ASSUME OrderInv, Next
  PROVE  /\ ProcessEnds /\ dbg # "detaching" =>
              \/ exitSignal' # exitSignal
              \/ "bornStopped" \in mishaps /\ dbg # "running" /\ ~wasRunning
         /\ dbg = "detaching" => exitSignal' = exitSignal
PROOF
<1>. USE DEF OrderInv, TypeOK, RunRemembered, ProcessEnds, Notify, targetVars, platVars
<1>1. CASE UserAction
  BY <1>1 DEF UserAction, Connect, Disconnect, Load, Attach, LaunchBuiltin, LaunchInTerminal, Run,
              Stop, EndProcess, CloseTarget
<1>2. CASE Result
  BY <1>2 DEF Result, Connected, LoadFailed, LoadDone, LaunchDone, StubFailed, StubLaunched,
              AttachFailed, AttachDone, Closed, Answer, StubChild, Orderly, Shows
<1>3. CASE AttachStop \/ ExecStop \/ ProgramStop \/ EarlyStop
  BY <1>3 DEF AttachStop, ExecStop, ProgramStop, EarlyStop, ReportStop
<1>4. CASE Exit
  <2>1. dbg # "detaching" => impl \in {"running", "terminating"}
    BY <1>4 DEF Exit, Orderly, Shows
  <2>2. CASE wasRunning = TRUE
    BY <1>4, <2>2 DEF Exit
  <2>3. CASE wasRunning = FALSE
    BY <1>4, <2>1, <2>3 DEF Exit
  <2>. QED
    BY <2>2, <2>3
<1>5. CASE Hangs
  BY <1>5 DEF Hangs, vars
<1>. QED
  BY <1>1, <1>2, <1>3, <1>4, <1>5 DEF Next, TargetEvent

\* In every scenario a process that ends is announced by process_exited, but
\* for one detached from and one born stopped that has not been shown running
\* since (debugger::on_target_state_changed).
THEOREM AnnouncesExits == Spec => ExitAnnounced
PROOF
<1>1. OrderInv /\ [Next]_vars =>
        [ /\ ProcessEnds /\ dbg # "detaching" =>
               \/ exitSignal' # exitSignal
               \/ "bornStopped" \in mishaps /\ dbg # "running" /\ ~wasRunning
          /\ dbg = "detaching" => exitSignal' = exitSignal ]_vars
  BY ExitStep
<1>. QED
  BY <1>1, AlwaysOrder, PTL DEF Spec, ExitAnnounced
=============================================================================
