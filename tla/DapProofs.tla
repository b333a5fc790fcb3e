------------------------------ MODULE DapProofs ------------------------------
(***************************************************************************)
(* Proofs about a session of the debug adapter (DapServer), for every set  *)
(* of mishaps a behaviour may have. What makes the invariant inductive is  *)
(* what the queue of LLDB's closures may hold in each state of the         *)
(* process, the count of the initial stops against those still to come,    *)
(* and the one closure that ends a launch.                                 *)
(***************************************************************************)
EXTENDS Adapter, WellFoundedInduction, TLAPS

-----------------------------------------------------------------------------
(* What the queue of LLDB's closures may hold, and the facts about taking   *)
(* the first of them and adding a last one.                                *)

(* Every closure in q is of S; or every one but one, which is m: those     *)
(* before it are of S, those behind it of T.                               *)
All(q, S) == \A i \in 1 .. Len(q) : q[i] \in S
One(q, S, m, T) == \E k \in 1 .. Len(q) :
  /\ q[k] = m
  /\ \A i \in 1 .. k - 1 : q[i] \in S
  /\ \A i \in k + 1 .. Len(q) : q[i] \in T

(* An empty queue holds nothing. *)
LEMMA EmptyQueue ==
  /\ \A S : All(<<>>, S)
  /\ \A S, m, T : ~One(<<>>, S, m, T)
BY DEF All, One

(* The first closure, and what is left when it is taken. *)
LEMMA Taken ==
  ASSUME NEW U, NEW q \in Seq(U), q # <<>>
  PROVE  /\ \A S : All(q, S) => Head(q) \in S /\ All(Tail(q), S)
         /\ \A S, m, T : One(q, S, m, T) =>
              \/ Head(q) = m /\ All(Tail(q), T)
              \/ Head(q) \in S /\ One(Tail(q), S, m, T)
<1>1. /\ Tail(q) \in Seq(U) /\ Len(q) \in Nat /\ Len(q) > 0
      /\ Len(Tail(q)) = Len(q) - 1 /\ Head(q) = q[1]
      /\ \A i \in 1 .. Len(q) - 1 : Tail(q)[i] = q[i + 1]
  OBVIOUS
<1>2. ASSUME NEW S, All(q, S) PROVE Head(q) \in S /\ All(Tail(q), S)
  BY <1>1, <1>2 DEF All
<1>3. ASSUME NEW S, NEW m, NEW T, One(q, S, m, T)
      PROVE  \/ Head(q) = m /\ All(Tail(q), T)
             \/ Head(q) \in S /\ One(Tail(q), S, m, T)
  <2>1. PICK k \in 1 .. Len(q) :
           /\ q[k] = m
           /\ \A i \in 1 .. k - 1 : q[i] \in S
           /\ \A i \in k + 1 .. Len(q) : q[i] \in T
    BY <1>3 DEF One
  <2>2. CASE k = 1
    BY <1>1, <2>1, <2>2 DEF All
  <2>3. CASE k # 1
    <3>1. k - 1 \in 1 .. Len(Tail(q)) /\ Tail(q)[k - 1] = m /\ Head(q) \in S
      BY <1>1, <2>1, <2>3
    <3>2. \A i \in 1 .. (k - 1) - 1 : Tail(q)[i] \in S
      BY <1>1, <2>1, <2>3
    <3>3. \A i \in (k - 1) + 1 .. Len(Tail(q)) : Tail(q)[i] \in T
      BY <1>1, <2>1, <2>3
    <3> QED BY <3>1, <3>2, <3>3 DEF One
  <2> QED BY <2>2, <2>3
<1> QED BY <1>2, <1>3

(* A closure is added at the end. *)
LEMMA Added ==
  ASSUME NEW U, NEW q \in Seq(U), NEW e \in U
  PROVE  /\ \A S : All(q, S) /\ e \in S => All(Append(q, e), S)
         /\ \A S, m, T : One(q, S, m, T) /\ e \in T => One(Append(q, e), S, m, T)
         /\ \A S, T : All(q, S) => One(Append(q, e), S, e, T)
<1>1. /\ Len(q) \in Nat /\ Len(Append(q, e)) = Len(q) + 1 /\ Append(q, e)[Len(q) + 1] = e
      /\ \A i \in 1 .. Len(q) : Append(q, e)[i] = q[i]
  OBVIOUS
<1>2. ASSUME NEW S, NEW m, NEW T, One(q, S, m, T), e \in T PROVE One(Append(q, e), S, m, T)
  <2>1. PICK k \in 1 .. Len(q) :
           /\ q[k] = m
           /\ \A i \in 1 .. k - 1 : q[i] \in S
           /\ \A i \in k + 1 .. Len(q) : q[i] \in T
    BY <1>2 DEF One
  <2>2. /\ k \in 1 .. Len(Append(q, e)) /\ Append(q, e)[k] = m
        /\ \A i \in 1 .. k - 1 : Append(q, e)[i] \in S
    BY <1>1, <2>1
  <2>3. \A i \in k + 1 .. Len(Append(q, e)) : Append(q, e)[i] \in T
    BY <1>1, <1>2, <2>1
  <2> QED BY <2>2, <2>3 DEF One
<1>3. ASSUME NEW S, All(q, S), e \in S PROVE All(Append(q, e), S)
  BY <1>1, <1>3 DEF All
<1>4. ASSUME NEW S, NEW T, All(q, S) PROVE One(Append(q, e), S, e, T)
  <2>1. Len(q) + 1 \in 1 .. Len(Append(q, e)) /\ \A i \in 1 .. (Len(q) + 1) - 1 : Append(q, e)[i] \in S
    BY <1>1, <1>4 DEF All
  <2>2. \A i \in (Len(q) + 1) + 1 .. Len(Append(q, e)) : Append(q, e)[i] \in T
    BY <1>1
  <2> QED BY <1>1, <2>1, <2>2 DEF One
<1> QED BY <1>2, <1>3, <1>4

(* Sets of closures and larger ones. *)
LEMMA Wider ==
  ASSUME NEW q, NEW S, NEW R, S \subseteq R
  PROVE  /\ All(q, S) => All(q, R)
         /\ \A m, T : One(q, S, m, T) => One(q, R, m, T)
         /\ \A m, T : One(q, T, m, S) => One(q, T, m, R)
BY DEF All, One

(* A queue of one closure among others, and one it cannot be. *)
LEMMA Within ==
  ASSUME NEW q, NEW S, NEW m, NEW T, One(q, S, m, T)
  PROVE  /\ \A R : S \subseteq R /\ T \subseteq R /\ m \in R => All(q, R)
         /\ \A R : m \notin R /\ Len(q) \in Nat => ~All(q, R)
<1>1. PICK k \in 1 .. Len(q) :
         /\ q[k] = m
         /\ \A i \in 1 .. k - 1 : q[i] \in S
         /\ \A i \in k + 1 .. Len(q) : q[i] \in T
  BY DEF One
<1>2. ASSUME NEW R, m \notin R, Len(q) \in Nat PROVE ~All(q, R)
  BY <1>1, <1>2 DEF All
<1>3. ASSUME NEW R, S \subseteq R, T \subseteq R, m \in R PROVE All(q, R)
  <2>1. ASSUME NEW i \in 1 .. Len(q) PROVE q[i] \in R
    <3>1. i \in 1 .. k - 1 \/ i = k \/ i \in k + 1 .. Len(q)
      OBVIOUS
    <3> QED BY <1>1, <1>3, <3>1
  <2> QED BY <2>1 DEF All
<1> QED BY <1>2, <1>3

(* Two sequences of one length that agree at every place are equal. *)
LEMMA Extensional ==
  ASSUME NEW S, NEW a \in Seq(S), NEW b \in Seq(S), Len(a) = Len(b),
         \A i \in 1 .. Len(a) : a[i] = b[i]
  PROVE  a = b
OBVIOUS

-----------------------------------------------------------------------------

\* The closures a resumption and a launch leave, and those of a stop.
Run == {"running", "done"}
Stops == {"initStop", "stop"}
NotDone == Events \ {"done"}

\* The server ends only where something out of the ordinary may happen.
Survives ==
  server = "down" =>
    \E m \in {"hastyTerminate", "hastyPause", "commandFails", "attachStop", "functionsLater"} :
      m \in mishaps

(* Breakpoints: without a target they are kept for it; with one, it has     *)
(* what the client asked for, and those of the filters are where the        *)
(* pointers say.                                                            *)
BreakpointsKept ==
  /\ target = TRUE => child \in {"direct", "terminal", "attached"}
  /\ target = FALSE => installed = {} /\ ehPointers = FALSE /\ saved = asked
  /\ "functionsLater" \notin mishaps =>
       /\ target = TRUE => installed = asked
       /\ ehPointers = TRUE => "exception" \in installed

(* The launch: nothing happens before it, and one closure ends it, before   *)
(* which only its own news are queued.                                      *)
Launches ==
  /\ child = "none" => config = "no" /\ target = FALSE
  /\ config = "asked" => child # "attached" /\ (child = "terminal" => target = TRUE)
  /\ child = "direct" /\ config = "asked" => launching = TRUE
  /\ launching = TRUE =>
       /\ child = "direct" /\ target = TRUE /\ config = "asked" /\ told = "nothing" /\ skip = 1
       /\ One(queue, {"initStop", "running", "exited"}, "done", NotDone)
  /\ launching = FALSE => stoppedEarly = FALSE /\ All(queue, NotDone)
  /\ terminating = TRUE \/ proc = "stopped" => target = TRUE
  /\ ahead # 0 => child \in {"direct", "terminal"}
  /\ proc = "running" => target = TRUE \/ child = "nodebug"

\* Nothing has been launched or attached to.
Before == config \in {"no", "asked"} /\ launching = FALSE /\ ~(child = "attached" /\ target = TRUE)

Beginning ==
  /\ Before => proc = "none" /\ queue = <<>> /\ told = "nothing" /\ skip = 0 /\ ahead = 0
  /\ config = "no" => launching = FALSE /\ skip = 0 /\ told \notin {"running", "stopped"}
  /\ launching = FALSE /\ told = "nothing" =>
       proc # "running" /\ (proc = "stopped" => queue = <<>>)
  /\ config = "no" /\ child = "attached" /\ target = TRUE /\ "hastyTerminate" \notin mishaps =>
       proc = "stopped"

(* The count of the stops to skip, while nothing has upset it: it is at     *)
(* least n, and it is n where every launch has the stop it is counted for.  *)
Counting ==
  /\ server # "down" /\ "hastyPause" \notin mishaps
  /\ terminating = TRUE => "hastyTerminate" \notin mishaps
Skipping(n) ==
  Counting /\ child \in {"direct", "terminal"} =>
    n <= skip /\ ("noInitialStop" \notin mishaps => n = skip)

(* News: those of a stop are the last ones while the process is stopped,    *)
(* those of its exit when it is gone. A stop that is no longer true is in   *)
(* the queue only where the client was hasty.                               *)
Hasty == terminating = TRUE /\ ("hastyTerminate" \in mishaps \/ "hastyPause" \in mishaps)
Left == IF Hasty THEN Run \cup Stops ELSE Run

StopNews ==
  \/ One(queue, Run, "initStop", {"done"}) /\ ahead = 0 /\ Skipping(1)
       /\ child \in {"direct", "terminal"}
  \/ One(queue, Run, "stop", {"done"}) /\ Skipping(0)
       /\ (Counting /\ child \in {"direct", "terminal"} => ahead = 0)

WhileRunning ==
  /\ All(queue, Run) /\ stoppedEarly = FALSE /\ told \notin {"stopped", "exited"}
  /\ Skipping(ahead)
WhileStopped ==
  /\ told # "exited"
  /\ \/ All(queue, Run) /\ stoppedEarly = FALSE /\ Skipping(ahead)
     \/ /\ All(queue, {"done"}) /\ stoppedEarly = TRUE /\ ahead = 0 /\ Skipping(1)
        /\ child \in {"direct", "terminal"}
     \/ StopNews /\ stoppedEarly = FALSE /\ told # "stopped"
WhileNone ==
  /\ stoppedEarly = TRUE => Hasty
  /\ \/ All(queue, {"done"})
     \/ One(queue, Left, "exited", {"done"}) /\ told # "exited"
          /\ (told = "stopped" => One(queue, Run, "exited", {"done"}))

News ==
  /\ proc = "running" => WhileRunning
  /\ proc = "stopped" => WhileStopped
  /\ proc = "none" => WhileNone
  /\ refs # "old" /\ (refs = "current" => told \in {"stopped", "exited"})

Ordinary == "attachStop" \notin mishaps => Launches /\ Beginning /\ News
DapInv == TypeOK /\ Survives /\ BreakpointsKept /\ Ordinary

-----------------------------------------------------------------------------
(* The invariant holds at the start of a session. *)
LEMMA SessionInit == Init => DapInv
<1> SUFFICES ASSUME Init PROVE DapInv
  OBVIOUS
<1>. USE DEF Init
<1>1. TypeOK
  <2>1. mishaps \subseteq MishapKinds
    BY ScenariosAssumption
  <2>2. queue \in Seq(Events) /\ child \in Children
    BY DEF Children
  <2>3. saved \subseteq Breakpoints /\ installed \subseteq Breakpoints /\ asked \subseteq Breakpoints
    OBVIOUS
  <2>4. skip \in 0..2 /\ ahead \in 0..1
    OBVIOUS
  <2>5. /\ server \in {"up", "closed", "down"} /\ config \in {"no", "asked", "done", "failed"}
        /\ refs \in {"none", "current", "old"} /\ proc \in {"none", "stopped", "running"}
        /\ told \in {"nothing", "running", "stopped", "exited"}
    OBVIOUS
  <2>6. /\ disconnect \in BOOLEAN /\ input \in BOOLEAN /\ target \in BOOLEAN
        /\ ehPointers \in BOOLEAN /\ launching \in BOOLEAN /\ stoppedEarly \in BOOLEAN
        /\ terminating \in BOOLEAN
    OBVIOUS
  <2> QED BY <2>1, <2>2, <2>3, <2>4, <2>5, <2>6 DEF TypeOK
<1>2. Survives /\ BreakpointsKept
  BY DEF Survives, BreakpointsKept
<1>3. \A S : All(queue, S)
  BY EmptyQueue
<1>4. Launches /\ Beginning
  BY <1>3 DEF Launches, Beginning, Before
<1>5. News
  BY <1>3 DEF News, WhileNone
<1> QED BY <1>1, <1>2, <1>4, <1>5 DEF DapInv, Ordinary

(* What leaves the process, its news and the launch alone keeps what is     *)
(* said of them; the server may end.                                        *)
LEMMA SessionKept ==
  ASSUME Launches, Beginning, News,
         UNCHANGED <<child, target, config, launchVars, terminating, refs, procVars, told, mishaps>>,
         server = "down" => server' = "down"
  PROVE  Launches' /\ Beginning' /\ News'
<1>. USE DEF launchVars, procVars
<1>1. Launches'
  BY DEF Launches
<1>2. Beginning'
  BY DEF Beginning, Before
<1>3. Counting' => Counting
  BY DEF Counting
<1>4. Hasty' = Hasty /\ Left' = Left
  BY DEF Hasty, Left
<1>5. WhileRunning => WhileRunning'
  BY <1>3 DEF WhileRunning, Skipping
<1>6. WhileStopped => WhileStopped'
  <2>1. StopNews => StopNews'
    BY <1>3 DEF StopNews, Skipping
  <2> QED BY <1>3, <2>1 DEF WhileStopped, Skipping
<1>7. WhileNone => WhileNone'
  BY <1>4 DEF WhileNone
<1>8. News'
  BY <1>5, <1>6, <1>7 DEF News
<1> QED BY <1>1, <1>2, <1>8

(* What leaves the client's breakpoints alone, the child and the mishaps. *)
LEMMA BreakpointsSame ==
  ASSUME BreakpointsKept, UNCHANGED <<child, target, bpVars, mishaps>>
  PROVE  BreakpointsKept'
BY DEF BreakpointsKept, bpVars

-----------------------------------------------------------------------------
(* setBreakpoints, setFunctionBreakpoints, setExceptionBreakpoints *)
LEMMA BreakpointSteps ==
  ASSUME DapInv, NEW on \in BOOLEAN,
         SetSourceBreakpoints(on) \/ SetFunctionBreakpoints(on) \/ SetExceptionBreakpoints(on)
  PROVE  DapInv'
<1>. USE DEF SetSourceBreakpoints, SetFunctionBreakpoints, SetExceptionBreakpoints, Request
<1>1. /\ UNCHANGED <<disconnect, input, child, target, config, launchVars, terminating,
                     refs, procVars, told, mishaps>>
      /\ server = "up" /\ (child = "none" \/ Debugging)
      /\ server' = server \/ (server' = "down" /\ ehPointers /\ "exception" \notin installed)
  BY DEF serverVars
<1>2. TypeOK /\ Survives /\ BreakpointsKept /\ Ordinary
  BY DEF DapInv
<1>3. /\ saved' \subseteq Breakpoints /\ installed' \subseteq Breakpoints
      /\ asked' \subseteq Breakpoints /\ ehPointers' \in BOOLEAN
  <2>1. /\ saved \subseteq Breakpoints /\ installed \subseteq Breakpoints
        /\ asked \subseteq Breakpoints /\ ehPointers \in BOOLEAN
    BY <1>2 DEF TypeOK
  <2>2. \A set \in SUBSET Breakpoints, k \in Breakpoints : NewSet(set, k, on) \subseteq Breakpoints
    BY DEF NewSet
  <2>3. "source" \in Breakpoints /\ "function" \in Breakpoints /\ "exception" \in Breakpoints
    BY DEF Breakpoints
  <2>4. CASE SetSourceBreakpoints(on)
    BY <2>1, <2>2, <2>3, <2>4
  <2>5. CASE SetFunctionBreakpoints(on)
    <3>1. installed \ {"exception"} \in SUBSET Breakpoints
      BY <2>1
    <3> QED BY <2>1, <2>2, <2>3, <2>5, <3>1
  <2>6. CASE SetExceptionBreakpoints(on)
    BY <2>1, <2>2, <2>3, <2>6
  <2> QED BY <2>4, <2>5, <2>6
<1>4. TypeOK'
  BY <1>1, <1>2, <1>3 DEF TypeOK, launchVars, procVars
<1>5. Survives'
  BY <1>1, <1>2 DEF Survives, BreakpointsKept, TypeOK
<1>6. BreakpointsKept'
  <2>1. CASE child = "none"
    BY <1>1, <1>2, <2>1 DEF BreakpointsKept, NewSet
  <2>2. CASE child # "none" /\ SetSourceBreakpoints(on)
    <3>1. /\ target = TRUE /\ target' = TRUE /\ child' = child /\ ehPointers' = ehPointers
          /\ asked' = NewSet(asked, "source", on) /\ installed' = NewSet(installed, "source", on)
      BY <1>1, <1>2, <2>2 DEF Debugging, TypeOK
    <3>2. "exception" \in installed => "exception" \in installed'
      BY <3>1 DEF NewSet
    <3> QED BY <1>1, <1>2, <3>1, <3>2 DEF BreakpointsKept
  <2>3. CASE child # "none" /\ SetFunctionBreakpoints(on)
    <3>1. /\ target = TRUE /\ target' = TRUE /\ child' = child /\ ehPointers' = ehPointers
          /\ "exception" \in installed => "functionsLater" \in mishaps
          /\ asked' = NewSet(asked, "function", on)
          /\ installed' = NewSet(installed \ {"exception"}, "function", on)
      BY <1>1, <1>2, <2>3 DEF Debugging, TypeOK
    <3>2. "exception" \notin installed => installed' = NewSet(installed, "function", on)
      <4>1. "exception" \notin installed => installed \ {"exception"} = installed
        OBVIOUS
      <4> QED BY <3>1, <4>1
    <3> QED BY <1>1, <1>2, <3>1, <3>2 DEF BreakpointsKept
  <2>4. CASE child # "none" /\ SetExceptionBreakpoints(on)
    BY <1>1, <1>2, <2>4 DEF BreakpointsKept, NewSet, Debugging, TypeOK
  <2> QED BY <2>1, <2>2, <2>3, <2>4
<1>7. Ordinary'
  BY <1>1, <1>2, SessionKept DEF Ordinary
<1> QED BY <1>4, <1>5, <1>6, <1>7 DEF DapInv

(* disconnect, and the end of the client's stream *)
LEMMA LeaveStep == DapInv /\ (Disconnect \/ InputClosed) => DapInv'
<1> SUFFICES ASSUME DapInv, Disconnect \/ InputClosed PROVE DapInv'
  OBVIOUS
<1>1. /\ UNCHANGED <<child, target, config, bpVars, launchVars, terminating, refs, procVars,
                     told, mishaps>>
      /\ server = "up" /\ server' \in {"up", "closed"}
      /\ disconnect' \in {TRUE, disconnect} /\ input' \in {FALSE, input}
  BY DEF Disconnect, InputClosed, Disconnecting, Request
<1>2. TypeOK /\ Survives /\ BreakpointsKept /\ Ordinary
  BY DEF DapInv
<1>3. TypeOK'
  <2>1. disconnect' \in BOOLEAN /\ input' \in BOOLEAN
    BY <1>1, <1>2 DEF TypeOK
  <2> QED BY <1>1, <1>2, <2>1 DEF TypeOK, bpVars, launchVars, procVars
<1>4. Survives' /\ BreakpointsKept'
  BY <1>1, <1>2, BreakpointsSame DEF Survives
<1>5. Ordinary'
  BY <1>1, <1>2, SessionKept DEF Ordinary
<1> QED BY <1>3, <1>4, <1>5 DEF DapInv

(* launch, and attach, which may replace a child without a target *)
LEMMA BeginStep == DapInv /\ (Launch \/ Attach) => DapInv'
<1> SUFFICES ASSUME DapInv, Launch \/ Attach PROVE DapInv'
  OBVIOUS
<1>1. TypeOK /\ Survives /\ BreakpointsKept /\ Ordinary
  BY DEF DapInv
<1>2. /\ UNCHANGED <<serverVars, config, saved, asked, launchVars, terminating, refs, ahead,
                     told, mishaps>>
      /\ child' \in {"direct", "terminal", "attached", "nodebug"}
      /\ \/ Install /\ child' # "nodebug"
         \/ UNCHANGED <<target, installed, ehPointers, proc, queue>>
      /\ \/ UNCHANGED <<proc, queue>>
         \/ /\ child' = "attached" /\ target' = TRUE /\ proc' = "stopped"
            /\ queue' = IF "attachStop" \in mishaps THEN <<"stop">> ELSE <<>>
      /\ child' = "attached" /\ target' = TRUE => proc' = "stopped"
      /\ target = FALSE
      /\ child = "none" \/ (child' = "attached" /\ child # "nodebug" /\ config = "no")
  BY <1>1 DEF Launch, Attach, Request, Install, launchVars, procVars, BreakpointsKept, TypeOK
<1>3. TypeOK'
  <2>1. target' \in BOOLEAN /\ installed' \subseteq Breakpoints /\ ehPointers' \in BOOLEAN
    <3>1. target \in BOOLEAN /\ installed \subseteq Breakpoints /\ ehPointers \in BOOLEAN
      BY <1>1 DEF TypeOK
    <3>2. saved \subseteq Breakpoints /\ ("exception" \in saved) \in BOOLEAN
      BY <1>1 DEF TypeOK
    <3>3. CASE Install
      BY <3>2, <3>3 DEF Install
    <3> QED BY <1>2, <3>1, <3>3
  <2>2. queue' \in Seq(Events)
    <3>1. <<"stop">> \in Seq(Events) /\ <<>> \in Seq(Events) /\ queue \in Seq(Events)
      BY <1>1 DEF TypeOK, Events
    <3> QED BY <1>2, <3>1
  <2>3. child' \in Children /\ proc' \in {"none", "stopped", "running"}
    BY <1>1, <1>2 DEF TypeOK, Children
  <2> QED BY <1>1, <1>2, <2>1, <2>2, <2>3 DEF TypeOK, serverVars, launchVars
<1>4. Survives' /\ BreakpointsKept'
  BY <1>1, <1>2 DEF Survives, BreakpointsKept, Install, serverVars
<1>5. ASSUME "attachStop" \notin mishaps PROVE Launches' /\ Beginning' /\ News'
  <2>1. Launches /\ Beginning /\ News
    BY <1>1, <1>5 DEF Ordinary
  <2>2. /\ config = "no" /\ launching = FALSE /\ stoppedEarly = FALSE /\ Before
        /\ proc = "none" /\ queue = <<>> /\ told = "nothing" /\ skip = 0 /\ ahead = 0
        /\ terminating = FALSE
    BY <1>1, <1>2, <2>1 DEF Launches, Beginning, Before, TypeOK
  <2>3. /\ queue' = <<>> /\ launching' = FALSE /\ stoppedEarly' = FALSE /\ config' = "no"
        /\ told' = "nothing" /\ skip' = 0 /\ ahead' = 0 /\ terminating' = FALSE
        /\ proc' = "none" \/ (child' = "attached" /\ target' = TRUE /\ proc' = "stopped")
    BY <1>2, <1>5, <2>2 DEF launchVars
  <2>4. \A S : All(queue', S)
    BY <2>3, EmptyQueue
  <2>5. Launches'
    BY <1>2, <2>3, <2>4 DEF Launches
  <2>6. Beginning'
    BY <1>2, <2>3 DEF Beginning, Before
  <2>7. News'
    <3>1. WhileNone'
      BY <2>3, <2>4 DEF WhileNone
    <3>2. child' = "attached" => WhileStopped'
      BY <2>3, <2>4 DEF WhileStopped, Skipping
    <3>3. refs' # "old" /\ refs' # "current"
      BY <1>1, <1>2, <2>1, <2>2 DEF News, TypeOK
    <3> QED BY <2>3, <3>1, <3>2, <3>3 DEF News
  <2> QED BY <2>5, <2>6, <2>7
<1> QED BY <1>2, <1>3, <1>4, <1>5 DEF DapInv, Ordinary

-----------------------------------------------------------------------------
(* A closure of LLDB is queued: the end of a launch stays where it is. *)
LEMMA Queued ==
  ASSUME NEW q \in Seq(Events), NEW e \in Events \ {"done"}
  PROVE  /\ Append(q, e) \in Seq(Events)
         /\ All(q, NotDone) => All(Append(q, e), NotDone)
         /\ \A S : One(q, S, "done", NotDone) => One(Append(q, e), S, "done", NotDone)
         /\ All(q, Run) /\ e = "running" => All(Append(q, e), Run)
<1>1. e \in Events /\ e \in NotDone /\ "running" \in Run
  BY DEF NotDone, Run
<1> QED BY <1>1, Added

(* The closures there are. *)
LEMMA Closures ==
  /\ "initStop" \in Events \ {"done"} /\ "stop" \in Events \ {"done"}
  /\ "running" \in Events \ {"done"} /\ "exited" \in Events \ {"done"}
  /\ "done" \in Events /\ Run \subseteq Run \cup Stops /\ {"done"} \subseteq Run
BY DEF Events, Run, Stops

(* process_configuration_done of an attached process *)
LEMMA ConfigureAttachedStep == DapInv /\ ConfigureAttached => DapInv'
<1> SUFFICES ASSUME DapInv, ConfigureAttached PROVE DapInv'
  OBVIOUS
<1>1. TypeOK /\ Survives /\ BreakpointsKept /\ Ordinary
  BY DEF DapInv
<1>2. /\ UNCHANGED <<disconnect, input, child, target, bpVars, launchVars, terminating, ahead,
                     mishaps>>
      /\ server = "up" /\ target = TRUE /\ child = "attached" /\ config = "no"
      /\ told # "exited"
  BY <1>1 DEF ConfigureAttached, Request, Debugging, TypeOK
<1>3. \/ /\ proc = "stopped" /\ proc' = "running" /\ queue' = Append(queue, "running")
         /\ refs' = (IF refs = "none" THEN "none" ELSE "old")
         /\ config' = "done" /\ told' = "running" /\ UNCHANGED server
      \/ /\ proc = "stopped" /\ "commandFails" \in mishaps
         /\ config' = "failed" /\ UNCHANGED <<proc, queue, refs, told, server>>
      \/ /\ proc # "stopped"
         /\ server' = "down" /\ UNCHANGED <<proc, queue, refs, told, config>>
  BY DEF ConfigureAttached, Resume
<1>4. queue \in Seq(Events) /\ Append(queue, "running") \in Seq(Events)
  BY <1>1, Queued, Closures DEF TypeOK
<1>5. TypeOK'
  <2>1. queue' \in Seq(Events)
    BY <1>3, <1>4
  <2>2. /\ server' \in {"up", "closed", "down"} /\ config' \in {"no", "asked", "done", "failed"}
        /\ refs' \in {"none", "current", "old"} /\ proc' \in {"none", "stopped", "running"}
        /\ told' \in {"nothing", "running", "stopped", "exited"}
    BY <1>1, <1>3 DEF TypeOK
  <2> QED BY <1>1, <1>2, <2>1, <2>2 DEF TypeOK, bpVars, launchVars
<1>6. Survives' /\ BreakpointsKept'
  BY <1>1, <1>2, <1>3, BreakpointsSame DEF Survives, Ordinary, Beginning
<1>7. ASSUME "attachStop" \notin mishaps PROVE Launches' /\ Beginning' /\ News'
  <2>1. Launches /\ Beginning /\ News
    BY <1>1, <1>7 DEF Ordinary
  <2>2. /\ launching = FALSE /\ stoppedEarly = FALSE /\ skip = 0 /\ told = "nothing"
        /\ proc = "stopped" => queue = <<>>
        /\ refs = "none"
    BY <1>1, <1>2, <2>1 DEF Launches, Beginning, TypeOK, News
  <2>3. \A S : All(<<>>, S)
    BY EmptyQueue
  <2>4. CASE proc = "stopped" /\ config' = "done"
    <3>1. /\ proc' = "running" /\ queue' = Append(<<>>, "running") /\ refs' = "none"
          /\ told' = "running" /\ server' = server
      BY <1>2, <1>3, <2>2, <2>4
    <3>2. All(queue', Run) /\ All(queue', NotDone)
      BY <1>4, <2>2, <2>3, <2>4, <3>1, Queued, Closures
    <3>3. Launches' /\ Beginning'
      BY <1>2, <2>1, <2>2, <2>4, <3>1, <3>2 DEF Launches, Beginning, Before, launchVars
    <3>4. WhileRunning'
      BY <1>2, <2>2, <3>1, <3>2 DEF WhileRunning, Skipping, launchVars
    <3> QED BY <3>1, <3>3, <3>4 DEF News
  <2>5. CASE proc = "stopped" /\ config' = "failed"
    <3>1. UNCHANGED <<proc, queue, refs, told, server>>
      BY <1>2, <1>3, <2>5
    <3>2. Launches' /\ Beginning'
      BY <1>2, <2>1, <2>2, <2>3, <2>5, <3>1 DEF Launches, Beginning, Before, launchVars
    <3>3. WhileStopped'
      BY <1>2, <2>2, <2>3, <2>5, <3>1 DEF WhileStopped, Skipping, launchVars
    <3> QED BY <1>2, <2>2, <2>5, <3>1, <3>2, <3>3 DEF News
  <2>6. CASE proc # "stopped"
    BY <1>2, <1>3, <2>1, <2>6, SessionKept DEF procVars
  <2> QED BY <1>3, <2>4, <2>5, <2>6
<1> QED BY <1>2, <1>5, <1>6, <1>7 DEF DapInv, Ordinary

(* process_configuration_done that launches from LLDB *)
LEMMA ConfigureDirectStep == DapInv /\ ConfigureDirect => DapInv'
<1> SUFFICES ASSUME DapInv, ConfigureDirect PROVE DapInv'
  OBVIOUS
<1>1. TypeOK /\ Survives /\ BreakpointsKept /\ Ordinary
  BY DEF DapInv
<1>2. /\ UNCHANGED <<serverVars, child, target, bpVars, stoppedEarly, terminating, refs, told,
                     mishaps>>
      /\ server = "up" /\ target = TRUE /\ child = "direct" /\ config = "no" /\ skip' = 1
  BY <1>1 DEF ConfigureDirect, Request, Debugging, TypeOK
<1>3. \/ /\ config' = "asked" /\ launching' = TRUE
         /\ \/ proc' = "stopped" /\ ahead' = 0 /\ queue' = <<"initStop", "done">>
            \/ /\ proc' = "running" /\ queue' = <<"running", "done">>
               /\ ahead' \in {0, 1} /\ ("noInitialStop" \notin mishaps => ahead' = 1)
            \/ proc' = "none" /\ ahead' = 0 /\ queue' = <<"running", "exited", "done">>
      \/ config' = "failed" /\ UNCHANGED <<launching, proc, ahead, queue>>
  BY DEF ConfigureDirect, procVars
<1>4. /\ <<"initStop", "done">> \in Seq(Events) /\ <<"running", "done">> \in Seq(Events)
      /\ <<"running", "exited", "done">> \in Seq(Events)
  BY DEF Events
<1>5. TypeOK'
  <2>1. queue' \in Seq(Events)
    BY <1>1, <1>3, <1>4 DEF TypeOK
  <2>2. /\ config' \in {"no", "asked", "done", "failed"} /\ launching' \in BOOLEAN
        /\ proc' \in {"none", "stopped", "running"}
    BY <1>1, <1>3 DEF TypeOK
  <2>3. ahead' \in 0..1 /\ skip' \in 0..2
    BY <1>1, <1>2, <1>3 DEF TypeOK
  <2> QED BY <1>1, <1>2, <2>1, <2>2, <2>3 DEF TypeOK, bpVars, serverVars
<1>6. Survives' /\ BreakpointsKept'
  BY <1>1, <1>2, BreakpointsSame DEF Survives, serverVars
<1>7. ASSUME "attachStop" \notin mishaps PROVE Launches' /\ Beginning' /\ News'
  <2>1. Launches /\ Beginning /\ News
    BY <1>1, <1>7 DEF Ordinary
  <2>2. /\ launching = FALSE /\ stoppedEarly = FALSE /\ skip = 0 /\ told = "nothing"
        /\ proc = "none" /\ queue = <<>> /\ ahead = 0 /\ refs = "none"
    BY <1>1, <1>2, <2>1 DEF Launches, Beginning, Before, TypeOK, News
  <2>3. \A S : All(<<>>, S)
    BY EmptyQueue
  <2>4. CASE config' = "failed"
    <3>1. UNCHANGED <<launching, proc, ahead, queue>>
      BY <1>3, <2>4
    <3>2. Launches' /\ Beginning'
      BY <1>2, <2>1, <2>2, <2>3, <2>4, <3>1 DEF Launches, Beginning, Before
    <3>3. WhileNone'
      BY <1>2, <2>2, <2>3, <3>1 DEF WhileNone
    <3> QED BY <1>2, <2>2, <3>1, <3>2, <3>3 DEF News
  <2>5. CASE config' = "asked"
    <3>1. launching' = TRUE
      BY <1>3, <2>5
    <3>2. One(queue', {"initStop", "running", "exited"}, "done", NotDone)
      <4>1. CASE queue' = <<"initStop", "done">>
        BY <4>1 DEF One
      <4>2. CASE queue' = <<"running", "done">>
        BY <4>2 DEF One
      <4>3. CASE queue' = <<"running", "exited", "done">>
        BY <4>3 DEF One
      <4> QED BY <1>3, <2>5, <4>1, <4>2, <4>3
    <3>3. Launches' /\ Beginning'
      BY <1>2, <2>1, <2>2, <2>5, <3>1, <3>2 DEF Launches, Beginning, Before
    <3>4. CASE proc' = "stopped"
      <4>1. queue' = <<"initStop", "done">> /\ ahead' = 0
        BY <1>3, <2>5, <3>4
      <4>2. One(queue', Run, "initStop", {"done"})
        BY <4>1 DEF One
      <4>3. WhileStopped'
        BY <1>2, <2>2, <4>1, <4>2 DEF WhileStopped, StopNews, Skipping
      <4> QED BY <1>2, <2>2, <3>3, <3>4, <4>3 DEF News
    <3>5. CASE proc' = "running"
      <4>1. /\ queue' = <<"running", "done">> /\ ahead' \in {0, 1}
            /\ "noInitialStop" \notin mishaps => ahead' = 1
        BY <1>3, <2>5, <3>5
      <4>2. All(queue', Run)
        BY <4>1 DEF All, Run
      <4>3. WhileRunning'
        BY <1>2, <2>2, <4>1, <4>2 DEF WhileRunning, Skipping
      <4> QED BY <1>2, <2>2, <3>3, <3>5, <4>3 DEF News
    <3>6. CASE proc' = "none"
      <4>1. queue' = <<"running", "exited", "done">>
        BY <1>3, <2>5, <3>6
      <4>2. One(queue', Run, "exited", {"done"})
        BY <4>1 DEF One, Run
      <4>3. One(queue', Left', "exited", {"done"})
        BY <4>2, Closures, Wider DEF Left
      <4>4. WhileNone'
        BY <1>2, <2>2, <4>3 DEF WhileNone
      <4> QED BY <1>2, <2>2, <3>3, <3>6, <4>4 DEF News
    <3> QED BY <1>3, <2>5, <3>4, <3>5, <3>6
  <2> QED BY <1>3, <2>4, <2>5
<1> QED BY <1>2, <1>5, <1>6, <1>7 DEF DapInv, Ordinary

(* process_configuration_done with the exec stub, and what becomes of the   *)
(* terminal the client was asked for                                        *)
LEMMA TerminalStep ==
  DapInv /\ (ConfigureInTerminal \/ TerminalAttached \/ TerminalStarted \/ TerminalFailed)
    => DapInv'
<1> SUFFICES ASSUME DapInv,
                    ConfigureInTerminal \/ TerminalAttached \/ TerminalStarted \/ TerminalFailed
             PROVE  DapInv'
  OBVIOUS
<1>1. TypeOK /\ Survives /\ BreakpointsKept /\ Ordinary
  BY DEF DapInv
<1>2. /\ UNCHANGED <<serverVars, child, target, bpVars, launching, stoppedEarly, terminating,
                     mishaps>>
      /\ server = "up" /\ child \in {"terminal", "nodebug"} /\ config \in {"no", "asked"}
      /\ config' \in {"asked", "done", "failed"}
      /\ config = "no" => child = "nodebug" \/ target = TRUE
  BY <1>1
  DEF ConfigureInTerminal, TerminalAttached, TerminalStarted, TerminalFailed, Request, launchVars,
      TypeOK
<1>3. \/ /\ UNCHANGED <<proc, queue, refs, told, ahead>>
         /\ \/ config' = "asked" /\ skip' = skip
            \/ config' = "failed" /\ skip' \in {0, 2}
      \/ /\ child = "nodebug" /\ config' = "done" /\ proc' = "running" /\ told' = "running"
         /\ UNCHANGED <<queue, refs, ahead, skip>>
      \/ /\ child = "terminal" /\ config = "asked" /\ ahead' = 1 /\ skip' = 1
         /\ \/ /\ config' = "done" /\ proc' = "running" /\ queue' = Append(queue, "running")
               /\ refs' = (IF refs = "none" THEN "none" ELSE "old") /\ told' = "running"
            \/ config' = "failed" /\ proc' = "stopped" /\ UNCHANGED <<queue, refs, told>>
  <2>1. CASE ConfigureInTerminal
    BY <2>1 DEF ConfigureInTerminal, launchVars, procVars
  <2>2. CASE TerminalAttached
    BY <2>2 DEF TerminalAttached, Resume
  <2>3. CASE TerminalStarted
    BY <2>3 DEF TerminalStarted, launchVars
  <2>4. CASE TerminalFailed
    BY <2>4 DEF TerminalFailed, procVars
  <2> QED BY <2>1, <2>2, <2>3, <2>4
<1>4. queue \in Seq(Events) /\ Append(queue, "running") \in Seq(Events)
  BY <1>1, Queued, Closures DEF TypeOK
<1>5. TypeOK'
  <2>1. queue' \in Seq(Events)
    BY <1>3, <1>4
  <2>2. /\ refs' \in {"none", "current", "old"} /\ proc' \in {"none", "stopped", "running"}
        /\ told' \in {"nothing", "running", "stopped", "exited"}
    BY <1>1, <1>3 DEF TypeOK
  <2>3. ahead' \in 0..1 /\ skip' \in 0..2
    BY <1>1, <1>3 DEF TypeOK
  <2> QED BY <1>1, <1>2, <2>1, <2>2, <2>3 DEF TypeOK, bpVars, serverVars
<1>6. Survives' /\ BreakpointsKept'
  BY <1>1, <1>2, BreakpointsSame DEF Survives, serverVars
<1>7. ASSUME "attachStop" \notin mishaps PROVE Launches' /\ Beginning' /\ News'
  <2>1. Launches /\ Beginning /\ News
    BY <1>1, <1>7 DEF Ordinary
  <2>2. launching = FALSE /\ stoppedEarly = FALSE
    BY <1>1, <1>2, <2>1 DEF Launches, TypeOK
  <2>3. /\ proc = "none" /\ queue = <<>> /\ told = "nothing" /\ skip = 0 /\ ahead = 0
        /\ refs = "none"
    BY <1>1, <1>2, <2>1, <2>2 DEF Beginning, Before, News, TypeOK
  <2>4. \A S : All(<<>>, S)
    BY EmptyQueue
  <2>5. CASE UNCHANGED <<proc, queue, refs, told, ahead>> /\ config' \in {"asked", "failed"}
    <3>1. Launches'
      BY <1>2, <2>1, <2>2, <2>3, <2>4, <2>5 DEF Launches
    <3>2. Beginning'
      BY <1>2, <1>3, <2>1, <2>2, <2>3, <2>5 DEF Beginning, Before
    <3>3. WhileNone'
      BY <1>2, <2>2, <2>3, <2>4, <2>5 DEF WhileNone
    <3> QED BY <1>2, <2>3, <2>5, <3>1, <3>2, <3>3 DEF News
  <2>6. CASE proc' = "running"
    <3>1. /\ queue' = <<>> \/ queue' = Append(<<>>, "running")
          /\ told' = "running" /\ refs' = "none" /\ config' = "done"
          /\ child = "terminal" => ahead' = 1 /\ skip' = 1
          /\ child = "nodebug" => ahead' = 0
      BY <1>2, <1>3, <2>3, <2>6
    <3>2. All(queue', Run) /\ All(queue', NotDone)
      BY <1>4, <2>3, <2>4, <3>1, Queued, Closures
    <3>3. Launches' /\ Beginning'
      BY <1>2, <2>1, <2>2, <2>3, <2>6, <3>1, <3>2 DEF Launches, Beginning, Before
    <3>4. WhileRunning'
      BY <1>2, <2>2, <3>1, <3>2 DEF WhileRunning, Skipping
    <3> QED BY <2>6, <3>1, <3>3, <3>4 DEF News
  <2>7. CASE proc' = "stopped"
    <3>1. /\ child = "terminal" /\ config' = "failed" /\ ahead' = 1 /\ skip' = 1
          /\ config = "asked" /\ UNCHANGED <<queue, refs, told>>
      BY <1>2, <1>3, <2>3, <2>7
    <3>2. target = TRUE
      BY <2>1, <3>1 DEF Launches
    <3>3. Launches' /\ Beginning'
      BY <1>2, <2>1, <2>2, <2>3, <2>4, <2>7, <3>1, <3>2 DEF Launches, Beginning, Before
    <3>4. WhileStopped'
      BY <1>2, <2>2, <2>3, <2>4, <3>1 DEF WhileStopped, Skipping
    <3> QED BY <2>3, <2>7, <3>1, <3>3, <3>4 DEF News
  <2> QED BY <1>3, <2>3, <2>5, <2>6, <2>7
<1> QED BY <1>2, <1>5, <1>6, <1>7 DEF DapInv, Ordinary

-----------------------------------------------------------------------------
(* The running process stops: the news of it is the last one. *)
LEMMA StopComes ==
  ASSUME TypeOK, Launches, Beginning, News, target = TRUE, proc = "running",
         NEW e \in Stops, queue' = Append(queue, e), proc' = "stopped",
         UNCHANGED <<child, target, config, launchVars, refs, told, mishaps, server>>,
         terminating' \in {TRUE, terminating}, ahead' # 0 => ahead # 0,
         e = "initStop" => ahead' = 0 /\ Skipping(1)' /\ child \in {"direct", "terminal"},
         e = "stop" => Skipping(0)' /\ (Counting' /\ child \in {"direct", "terminal"} => ahead' = 0)
  PROVE  Launches' /\ Beginning' /\ News'
<1>. USE DEF launchVars
<1>1. /\ queue \in Seq(Events) /\ e \in Events \ {"done"} /\ e \in Events
      /\ e \in {"initStop", "stop"}
  BY Closures DEF TypeOK, Stops
<1>2. /\ All(queue, NotDone) => All(queue', NotDone)
      /\ \A S : One(queue, S, "done", NotDone) => One(queue', S, "done", NotDone)
  BY <1>1, Queued
<1>3. /\ All(queue, Run) /\ stoppedEarly = FALSE /\ told \notin {"stopped", "exited"}
  BY DEF News, WhileRunning
<1>4. Launches'
  BY <1>2 DEF Launches
<1>5. Beginning'
  <2>1. launching = FALSE => told # "nothing"
    BY DEF Beginning
  <2>2. config # "no" /\ ~Before
    BY <1>3, <2>1 DEF Beginning, Before, TypeOK
  <2> QED BY <2>1, <2>2 DEF Beginning, Before
<1>6. One(queue', Run, e, {"done"})
  BY <1>1, <1>3, Added
<1>7. StopNews'
  BY <1>1, <1>6 DEF StopNews
<1>8. WhileStopped'
  BY <1>3, <1>7 DEF WhileStopped
<1>9. News'
  BY <1>8 DEF News
<1> QED BY <1>4, <1>5, <1>9

(* continue, next, stepIn, stepOut, and stackTrace *)
LEMMA ContinueStep == DapInv /\ (Continue \/ StackTrace) => DapInv'
<1> SUFFICES ASSUME DapInv, Continue \/ StackTrace PROVE DapInv'
  OBVIOUS
<1>1. TypeOK /\ Survives /\ BreakpointsKept /\ Ordinary
  BY DEF DapInv
<1>2. /\ UNCHANGED <<serverVars, child, target, config, bpVars, launchVars, terminating, ahead,
                     mishaps>>
      /\ server = "up" /\ target = TRUE /\ told = "stopped" /\ proc = "stopped"
      /\ \/ /\ proc' = "running" /\ queue' = Append(queue, "running") /\ refs' = "none"
            /\ told' = "running"
         \/ refs' \in {"none", "current"} /\ UNCHANGED <<proc, queue, told>>
  BY <1>1 DEF Continue, StackTrace, Resume, Request, Debugging, TypeOK, procVars
<1>3. queue \in Seq(Events) /\ Append(queue, "running") \in Seq(Events)
  BY <1>1, Queued, Closures DEF TypeOK
<1>4. TypeOK'
  <2>1. queue' \in Seq(Events)
    BY <1>2, <1>3
  <2>2. /\ refs' \in {"none", "current", "old"} /\ proc' \in {"none", "stopped", "running"}
        /\ told' \in {"nothing", "running", "stopped", "exited"}
    BY <1>2
  <2> QED BY <1>1, <1>2, <2>1, <2>2 DEF TypeOK, bpVars, serverVars, launchVars
<1>5. Survives' /\ BreakpointsKept'
  BY <1>1, <1>2, BreakpointsSame DEF Survives, serverVars
<1>6. ASSUME "attachStop" \notin mishaps PROVE Launches' /\ Beginning' /\ News'
  <2>1. Launches /\ Beginning /\ News
    BY <1>1, <1>6 DEF Ordinary
  <2>2. launching = FALSE /\ stoppedEarly = FALSE /\ config # "no" /\ ~Before
    BY <1>1, <1>2, <2>1 DEF Launches, Beginning, Before, TypeOK
  <2>3. All(queue, Run) /\ All(queue, NotDone) /\ Skipping(ahead)
    BY <1>2, <2>1, <2>2 DEF News, WhileStopped, Launches
  <2>4. CASE proc' = "running"
    <3>1. queue' = Append(queue, "running") /\ refs' = "none" /\ told' = "running"
      BY <1>2, <2>4
    <3>2. All(queue', Run) /\ All(queue', NotDone)
      BY <1>3, <2>3, <3>1, Queued, Closures
    <3>3. Launches' /\ Beginning'
      BY <1>2, <2>1, <2>2, <2>4, <3>1, <3>2 DEF Launches, Beginning, Before, launchVars
    <3>4. Skipping(ahead)'
      BY <1>2, <2>3 DEF Skipping, Counting, serverVars, launchVars
    <3>5. WhileRunning'
      BY <1>2, <2>2, <3>1, <3>2, <3>4 DEF WhileRunning, launchVars
    <3> QED BY <2>4, <3>1, <3>3, <3>5 DEF News
  <2>5. CASE UNCHANGED <<proc, queue, told>> /\ refs' \in {"none", "current"}
    <3>1. Launches' /\ Beginning'
      BY <1>2, <2>1, <2>5 DEF Launches, Beginning, Before, launchVars
    <3>2. Skipping(ahead)'
      BY <1>2, <2>3 DEF Skipping, Counting, serverVars, launchVars
    <3>3. WhileStopped'
      BY <1>2, <2>2, <2>3, <2>5, <3>2 DEF WhileStopped, launchVars
    <3> QED BY <1>2, <2>5, <3>1, <3>3 DEF News
  <2> QED BY <1>2, <2>4, <2>5
<1> QED BY <1>2, <1>4, <1>5, <1>6 DEF DapInv, Ordinary

(* pause: out of the initial stops none of them is still to come. *)
LEMMA PauseStep == DapInv /\ Pause => DapInv'
<1> SUFFICES ASSUME DapInv, Pause PROVE DapInv'
  OBVIOUS
<1>1. TypeOK /\ Survives /\ BreakpointsKept /\ Ordinary
  BY DEF DapInv
<1>2. /\ UNCHANGED <<disconnect, input, child, target, config, bpVars, launchVars, terminating,
                     refs, ahead, told, mishaps>>
      /\ server = "up" /\ target = TRUE /\ told = "running"
      /\ "hastyPause" \notin mishaps => ~Starting /\ proc # "none"
      /\ \/ /\ proc = "running" /\ UNCHANGED server
            /\ \/ proc' = "stopped" /\ queue' = Append(queue, "stop")
               \/ UNCHANGED <<proc, queue>>
         \/ proc = "none" /\ server' = "down" /\ UNCHANGED <<proc, queue>>
  BY <1>1 DEF Pause, Halt, Request, Debugging, TypeOK
<1>3. queue \in Seq(Events) /\ Append(queue, "stop") \in Seq(Events)
  BY <1>1, Queued, Closures DEF TypeOK
<1>4. TypeOK'
  <2>1. queue' \in Seq(Events)
    BY <1>2, <1>3
  <2>2. server' \in {"up", "closed", "down"} /\ proc' \in {"none", "stopped", "running"}
    BY <1>1, <1>2 DEF TypeOK
  <2> QED BY <1>1, <1>2, <2>1, <2>2 DEF TypeOK, bpVars, launchVars
<1>5. Survives' /\ BreakpointsKept'
  BY <1>1, <1>2, BreakpointsSame DEF Survives
<1>6. ASSUME "attachStop" \notin mishaps PROVE Launches' /\ Beginning' /\ News'
  <2>1. Launches /\ Beginning /\ News
    BY <1>1, <1>6 DEF Ordinary
  <2>2. CASE UNCHANGED <<proc, queue>>
    BY <1>2, <2>1, <2>2, SessionKept DEF procVars
  <2>3. CASE proc = "running" /\ proc' = "stopped" /\ queue' = Append(queue, "stop")
    <3>1. Counting' => skip = 0
      BY <1>2, <2>3 DEF Counting, Starting
    <3>2. Counting' /\ child \in {"direct", "terminal"} => ahead = 0
      BY <1>1, <1>2, <2>1, <2>3, <3>1 DEF News, WhileRunning, Skipping, Counting, TypeOK
    <3>3. Skipping(0)'
      BY <1>2, <3>1 DEF Skipping, launchVars
    <3> QED BY <1>1, <1>2, <2>1, <2>3, <3>2, <3>3, StopComes DEF Stops
  <2> QED BY <1>2, <2>2, <2>3
<1> QED BY <1>2, <1>4, <1>5, <1>6 DEF DapInv, Ordinary

(* A stop that is queued is one a request may look for. *)
LEMMA Pending ==
  ASSUME NEW S, NEW T, NEW e, One(queue, S, e, T)
  PROVE  NewsPending({e})
BY DEF One, NewsPending

(* terminate: kills, or stops to kill later *)
LEMMA TerminateStep == DapInv /\ Terminate => DapInv'
<1> SUFFICES ASSUME DapInv, Terminate PROVE DapInv'
  OBVIOUS
<1>1. TypeOK /\ Survives /\ BreakpointsKept /\ Ordinary
  BY DEF DapInv
<1>2. /\ UNCHANGED <<serverVars, child, target, config, bpVars, launchVars, refs, ahead, told,
                     mishaps>>
      /\ server = "up" /\ target = TRUE /\ proc # "none" /\ terminating' = TRUE
      /\ "hastyTerminate" \notin mishaps => ~Starting /\ ~NewsPending({"stop"})
      /\ \/ proc = "running" /\ proc' = "stopped" /\ queue' = Append(queue, "stop")
         \/ proc = "stopped" /\ proc' = "none" /\ queue' = Append(queue, "exited")
         \/ UNCHANGED <<proc, queue>>
  BY <1>1 DEF Terminate, Halt, Request, Debugging, TypeOK
<1>3. /\ queue \in Seq(Events) /\ Append(queue, "stop") \in Seq(Events)
      /\ Append(queue, "exited") \in Seq(Events)
  BY <1>1, Queued, Closures DEF TypeOK
<1>4. TypeOK'
  <2>1. queue' \in Seq(Events)
    BY <1>2, <1>3
  <2>2. proc' \in {"none", "stopped", "running"}
    BY <1>1, <1>2 DEF TypeOK
  <2> QED BY <1>1, <1>2, <2>1, <2>2 DEF TypeOK, bpVars, serverVars, launchVars
<1>5. Survives' /\ BreakpointsKept'
  BY <1>1, <1>2, BreakpointsSame DEF Survives, serverVars
<1>6. ASSUME "attachStop" \notin mishaps PROVE Launches' /\ Beginning' /\ News'
  <2>1. Launches /\ Beginning /\ News
    BY <1>1, <1>6 DEF Ordinary
  <2>2. Counting' => Counting /\ skip = 0
    BY <1>2 DEF Counting, Starting, serverVars
  <2>3. ~Before /\ (config = "no" => "hastyTerminate" \in mishaps)
    BY <1>2, <2>1 DEF Beginning, Starting
  <2>4. CASE proc = "running" /\ proc' = "stopped" /\ queue' = Append(queue, "stop")
    <3>1. Counting' /\ child \in {"direct", "terminal"} => ahead = 0
      BY <1>1, <2>1, <2>2, <2>4 DEF News, WhileRunning, Skipping, TypeOK
    <3>2. Skipping(0)'
      BY <1>2, <2>2 DEF Skipping, launchVars
    <3> QED BY <1>1, <1>2, <2>1, <2>4, <3>1, <3>2, StopComes DEF Stops, serverVars
  <2>5. CASE proc = "stopped" /\ proc' = "none" /\ queue' = Append(queue, "exited")
    <3>1. /\ All(queue, NotDone) => All(queue', NotDone)
          /\ \A S : One(queue, S, "done", NotDone) => One(queue', S, "done", NotDone)
      BY <1>3, <2>5, Queued, Closures
    <3>2. Launches'
      BY <1>2, <2>1, <2>5, <3>1 DEF Launches, launchVars
    <3>3. Beginning'
      BY <1>2, <2>1, <2>3, <2>5 DEF Beginning, Before, launchVars
    <3>4. stoppedEarly = TRUE => Hasty'
      BY <1>1, <1>2, <2>1 DEF Hasty, Launches, Starting, TypeOK
    <3>5. All(queue, Run) => /\ One(queue', Run, "exited", {"done"})
                             /\ One(queue', Run \cup Stops, "exited", {"done"})
      <4>1. All(queue, Run) => All(queue, Run \cup Stops)
        BY Wider, Closures
      <4>2. \A S, T : All(queue, S) => One(queue', S, "exited", T)
        BY <1>3, <2>5, Added, Closures
      <4> QED BY <4>1, <4>2
    <3>6. CASE All(queue, Run)
      BY <1>2, <2>1, <2>5, <3>4, <3>5, <3>6, <3>2, <3>3
      DEF News, WhileStopped, WhileNone, Left, launchVars
    <3>7. CASE StopNews /\ told # "stopped"
      <4>1. Hasty'
        <5>1. ASSUME "hastyTerminate" \notin mishaps, "hastyPause" \notin mishaps PROVE FALSE
          <6>1. Counting' /\ Counting /\ skip = 0 /\ ~NewsPending({"stop"})
            BY <1>2, <2>2, <5>1 DEF Counting, serverVars
          <6>2. ~One(queue, Run, "stop", {"done"})
            BY <6>1, Pending
          <6>3. Skipping(1) /\ child \in {"direct", "terminal"}
            BY <3>7, <6>2 DEF StopNews
          <6> QED BY <6>1, <6>3 DEF Skipping
        <5> QED BY <1>2, <5>1 DEF Hasty
      <4>2. All(queue, Run \cup Stops)
        <5>1. PICK e \in Stops : One(queue, Run, e, {"done"})
          BY <3>7 DEF StopNews, Stops
        <5> QED BY <5>1, Within DEF Run
      <4>3. One(queue', Run \cup Stops, "exited", {"done"})
        BY <1>3, <2>5, <4>2, Added, Closures
      <4>4. WhileNone'
        BY <1>2, <2>1, <2>5, <3>7, <4>1, <4>3 DEF WhileNone, Left, News, WhileStopped
      <4> QED BY <1>2, <2>1, <2>5, <3>2, <3>3, <4>4 DEF News
    <3>8. All(queue, {"done"}) => All(queue, Run)
      BY Wider, Closures
    <3> QED BY <2>1, <2>5, <3>6, <3>7, <3>8 DEF News, WhileStopped
  <2>6. CASE UNCHANGED <<proc, queue>>
    <3>1. Launches' /\ Beginning'
      BY <1>2, <2>1, <2>3, <2>6 DEF Launches, Beginning, Before, launchVars
    <3>2. WhileRunning => WhileRunning'
      BY <1>2, <2>2, <2>6 DEF WhileRunning, Skipping, launchVars
    <3>3. StopNews => StopNews'
      BY <1>2, <2>2, <2>6 DEF StopNews, Skipping, launchVars
    <3>4. WhileStopped => WhileStopped'
      BY <1>2, <2>2, <2>6, <3>3 DEF WhileStopped, Skipping, launchVars
    <3> QED BY <1>1, <1>2, <2>1, <2>6, <3>1, <3>2, <3>4 DEF News, TypeOK
  <2> QED BY <1>2, <2>4, <2>5, <2>6
<1> QED BY <1>2, <1>4, <1>5, <1>6 DEF DapInv, Ordinary

(* The running process ends: the news of it is the last one. *)
LEMMA ExitComes ==
  ASSUME TypeOK, Launches, Beginning, News, proc = "running",
         queue' = Append(queue, "exited"), proc' = "none",
         UNCHANGED <<child, target, config, launchVars, terminating, refs, told, mishaps, server>>,
         ahead' \in {0, ahead}
  PROVE  Launches' /\ Beginning' /\ News'
<1>. USE DEF launchVars
<1>1. queue \in Seq(Events) /\ "exited" \in Events \ {"done"} /\ "exited" \in Events
  BY Closures DEF TypeOK
<1>2. /\ All(queue, NotDone) => All(queue', NotDone)
      /\ \A S : One(queue, S, "done", NotDone) => One(queue', S, "done", NotDone)
  BY <1>1, Queued
<1>3. /\ All(queue, Run) /\ stoppedEarly = FALSE /\ told \notin {"stopped", "exited"}
  BY DEF News, WhileRunning
<1>4. Launches'
  BY <1>2 DEF Launches
<1>5. Beginning'
  <2>1. launching = FALSE => told # "nothing"
    BY DEF Beginning
  <2>2. config # "no" /\ ~Before
    BY <1>3, <2>1 DEF Beginning, Before, TypeOK
  <2> QED BY <2>1, <2>2 DEF Beginning, Before
<1>6. One(queue', Run, "exited", {"done"})
  BY <1>1, <1>3, Added
<1>7. One(queue', Left', "exited", {"done"})
  BY <1>6, Wider, Closures DEF Left
<1>8. WhileNone'
  BY <1>3, <1>6, <1>7 DEF WhileNone
<1> QED BY <1>3, <1>4, <1>5, <1>8 DEF News

(* The process stops or exits by itself. *)
LEMMA ProcStep == DapInv /\ (ProcStop \/ ProcExit) => DapInv'
<1> SUFFICES ASSUME DapInv, ProcStop \/ ProcExit PROVE DapInv'
  OBVIOUS
<1>1. TypeOK /\ Survives /\ BreakpointsKept /\ Ordinary
  BY DEF DapInv
<1>2. /\ UNCHANGED <<serverVars, child, target, config, bpVars, launchVars, terminating, refs,
                     told, mishaps>>
      /\ server = "up" /\ proc = "running" /\ ahead' = 0
      /\ \/ /\ child # "nodebug" /\ proc' = "stopped"
            /\ queue' = Append(queue, IF ahead > 0 THEN "initStop" ELSE "stop")
         \/ proc' = "none" /\ queue' = Append(queue, "exited")
  BY DEF ProcStop, ProcExit
<1>3. TypeOK'
  <2>1. queue' \in Seq(Events)
    <3>1. queue \in Seq(Events)
      BY <1>1 DEF TypeOK
    <3> QED BY <1>2, <3>1, Queued, Closures
  <2>2. proc' \in {"none", "stopped", "running"} /\ ahead' \in 0..1
    BY <1>2
  <2> QED BY <1>1, <1>2, <2>1, <2>2 DEF TypeOK, bpVars, serverVars, launchVars
<1>4. Survives' /\ BreakpointsKept'
  BY <1>1, <1>2, BreakpointsSame DEF Survives, serverVars
<1>5. ASSUME "attachStop" \notin mishaps PROVE Launches' /\ Beginning' /\ News'
  <2>1. Launches /\ Beginning /\ News
    BY <1>1, <1>5 DEF Ordinary
  <2>2. CASE proc' = "none" /\ queue' = Append(queue, "exited")
    BY <1>1, <1>2, <2>1, <2>2, ExitComes DEF serverVars
  <2>3. CASE /\ child # "nodebug" /\ proc' = "stopped"
             /\ queue' = Append(queue, IF ahead > 0 THEN "initStop" ELSE "stop")
    <3>1. target = TRUE /\ ahead \in 0..1 /\ Skipping(ahead)
      BY <1>1, <1>2, <2>1, <2>3 DEF Launches, TypeOK, News, WhileRunning
    <3>2. CASE ahead > 0
      <4>1. ahead = 1 /\ child \in {"direct", "terminal"} /\ queue' = Append(queue, "initStop")
        BY <2>1, <2>3, <3>1, <3>2 DEF Launches
      <4>2. Skipping(1)'
        BY <1>2, <3>1, <4>1 DEF Skipping, Counting, launchVars, serverVars
      <4> QED BY <1>1, <1>2, <2>1, <2>3, <3>1, <4>1, <4>2, StopComes DEF serverVars, Stops
    <3>3. CASE ~(ahead > 0)
      <4>1. ahead = 0 /\ queue' = Append(queue, "stop")
        BY <2>3, <3>1, <3>3
      <4>2. Skipping(0)'
        BY <1>2, <3>1, <4>1 DEF Skipping, Counting, launchVars, serverVars
      <4> QED BY <1>1, <1>2, <2>1, <2>3, <3>1, <4>1, <4>2, StopComes DEF serverVars, Stops
    <3> QED BY <3>2, <3>3
  <2> QED BY <1>2, <2>2, <2>3
<1> QED BY <1>2, <1>3, <1>4, <1>5 DEF DapInv, Ordinary

(* terminate without a debugger *)
LEMMA TerminateUndebuggedStep == DapInv /\ TerminateUndebugged => DapInv'
<1> SUFFICES ASSUME DapInv, TerminateUndebugged PROVE DapInv'
  OBVIOUS
<1>1. TypeOK /\ Survives /\ BreakpointsKept /\ Ordinary
  BY DEF DapInv
<1>2. /\ UNCHANGED <<disconnect, input, child, target, config, bpVars, launchVars, terminating,
                     refs, ahead, told, mishaps>>
      /\ server = "up"
      /\ \/ /\ proc = "running" /\ proc' = "none" /\ queue' = Append(queue, "exited")
            /\ UNCHANGED server
         \/ "hastyTerminate" \in mishaps /\ server' = "down" /\ UNCHANGED <<proc, queue>>
  BY DEF TerminateUndebugged, Request
<1>3. TypeOK'
  <2>1. queue' \in Seq(Events)
    <3>1. queue \in Seq(Events)
      BY <1>1 DEF TypeOK
    <3> QED BY <1>2, <3>1, Queued, Closures
  <2>2. proc' \in {"none", "stopped", "running"} /\ server' \in {"up", "closed", "down"}
    BY <1>1, <1>2 DEF TypeOK
  <2> QED BY <1>1, <1>2, <2>1, <2>2 DEF TypeOK, bpVars, launchVars
<1>4. Survives' /\ BreakpointsKept'
  BY <1>1, <1>2, BreakpointsSame DEF Survives
<1>5. ASSUME "attachStop" \notin mishaps PROVE Launches' /\ Beginning' /\ News'
  <2>1. Launches /\ Beginning /\ News
    BY <1>1, <1>5 DEF Ordinary
  <2>2. CASE UNCHANGED <<proc, queue>>
    BY <1>2, <2>1, <2>2, SessionKept DEF procVars
  <2>3. CASE proc = "running" /\ proc' = "none" /\ queue' = Append(queue, "exited")
    BY <1>1, <1>2, <2>1, <2>3, ExitComes
  <2> QED BY <1>2, <2>2, <2>3
<1> QED BY <1>2, <1>3, <1>4, <1>5 DEF DapInv, Ordinary

-----------------------------------------------------------------------------
(* The type of what on_target_state_changed does for a stop. *)
LEMMA StoppedTypes ==
  ASSUME TypeOK, queue # <<>>, NEW before \in {"nothing", "running", "stopped", "exited"},
         OnStopped(before), server = "up"
  PROVE  /\ queue' \in Seq(Events) /\ proc' \in {"none", "stopped", "running"} /\ skip' \in 0..2
         /\ refs' \in {"none", "current", "old"} /\ server' \in {"up", "down"}
         /\ told' \in {before, "stopped"}
<1>1. Tail(queue) \in Seq(Events) /\ skip \in 0..2
  BY DEF TypeOK
<1>2. /\ Append(Tail(queue), "running") \in Seq(Events)
      /\ Append(Tail(queue), "exited") \in Seq(Events)
  BY <1>1, Queued, Closures
<1>3. queue' \in {Tail(queue), Append(Tail(queue), "running"), Append(Tail(queue), "exited")}
  BY DEF OnStopped, Resume
<1>4. skip' = skip \/ (skip # 0 /\ skip' = skip - 1)
  BY DEF OnStopped
<1>5. /\ proc' \in {proc, "running", "none"} /\ refs' \in {refs, "none", "old"}
      /\ server' \in {server, "down"} /\ told' \in {before, "stopped"}
  BY DEF OnStopped, Resume
<1>6. skip' \in 0..2
  BY <1>1, <1>4
<1> QED BY <1>1, <1>2, <1>3, <1>5, <1>6 DEF TypeOK

(* A stop is handled when the process is stopped, or is gone because the    *)
(* client was hasty: it is skipped, or the process is killed, or the client *)
(* is told, or the server ends.                                             *)
LEMMA StoppedNews ==
  ASSUME TypeOK, queue # <<>>, NEW before \in {"nothing", "running"}, OnStopped(before),
         server = "up", UNCHANGED <<child, target, terminating, ahead, mishaps>>,
         stoppedEarly' = FALSE, proc # "running", refs \notin {"old", "current"},
         proc = "stopped" =>
           /\ All(Tail(queue), Run)
           /\ \/ ahead = 0 /\ Skipping(1) /\ child \in {"direct", "terminal"}
              \/ Skipping(0) /\ (Counting /\ child \in {"direct", "terminal"} => ahead = 0),
         proc = "none" =>
           Hasty /\ (All(Tail(queue), {"done"}) \/ One(Tail(queue), Left, "exited", {"done"}))
  PROVE  /\ News' /\ (All(Tail(queue), NotDone) => All(queue', NotDone))
         /\ (proc' = "running" => proc = "stopped") /\ (proc' = "stopped" => proc = "stopped")
         /\ told' = "stopped" => proc = "stopped" /\ ~(skip # 0 /\ child # "attached")
         /\ server' = "down" => Hasty \/ "commandFails" \in mishaps
<1>. DEFINE toSkip == skip # 0 /\ child # "attached"
            q == Tail(queue)
<1>1. q \in Seq(Events) /\ skip \in 0..2 /\ terminating \in BOOLEAN
  BY DEF TypeOK
<1>2. proc = "stopped" \/ proc = "none"
  BY DEF TypeOK
<1>3. \/ /\ toSkip /\ proc = "stopped" /\ skip' = skip - 1
         /\ proc' = "running" /\ queue' = Append(q, "running")
         /\ refs' = (IF refs = "none" THEN "none" ELSE "old")
         /\ told' = before /\ UNCHANGED server
      \/ /\ ~toSkip /\ terminating = TRUE /\ proc = "stopped" /\ proc' = "none"
         /\ queue' = Append(q, "exited") /\ told' = before /\ UNCHANGED <<skip, refs, server>>
      \/ /\ ~toSkip /\ terminating = FALSE
         /\ told' = "stopped" /\ queue' = q /\ UNCHANGED <<proc, skip, refs, server>>
      \/ /\ proc # "stopped" \/ "commandFails" \in mishaps
         /\ server' = "down" /\ queue' = q /\ told' = before /\ UNCHANGED <<proc, skip, refs>>
  BY <1>1 DEF OnStopped, Resume
<1>4. refs = "none"
  BY DEF TypeOK
<1>. HIDE DEF q
<1>5. CASE /\ toSkip /\ proc = "stopped" /\ skip' = skip - 1
           /\ proc' = "running" /\ queue' = Append(q, "running")
           /\ refs' = (IF refs = "none" THEN "none" ELSE "old")
           /\ told' = before /\ UNCHANGED server
  <2>1. All(queue', Run) /\ (All(q, NotDone) => All(queue', NotDone))
    BY <1>1, <1>5, Queued, Closures DEF q
  <2>2. Skipping(ahead)'
    BY <1>1, <1>5 DEF Skipping, Counting
  <2>3. WhileRunning'
    BY <1>5, <2>1, <2>2 DEF WhileRunning
  <2> QED BY <1>4, <1>5, <2>1, <2>3 DEF News, q
<1>6. CASE /\ ~toSkip /\ terminating = TRUE /\ proc = "stopped" /\ proc' = "none"
           /\ queue' = Append(q, "exited") /\ told' = before /\ UNCHANGED <<skip, refs, server>>
  <2>1. One(queue', Run, "exited", {"done"}) /\ (All(q, NotDone) => All(queue', NotDone))
    BY <1>1, <1>6, Queued, Added, Closures DEF q
  <2>2. One(queue', Left', "exited", {"done"})
    BY <2>1, Wider, Closures DEF Left
  <2>3. WhileNone'
    BY <1>6, <2>2 DEF WhileNone
  <2> QED BY <1>4, <1>6, <2>1, <2>3 DEF News, q
<1>7. CASE /\ ~toSkip /\ terminating = FALSE
           /\ told' = "stopped" /\ queue' = q /\ UNCHANGED <<proc, skip, refs, server>>
  <2>1. proc = "stopped"
    BY <1>2, <1>7 DEF Hasty
  <2>2. Skipping(ahead)'
    BY <1>1, <1>7, <2>1 DEF Skipping, Counting
  <2>3. WhileStopped'
    BY <1>7, <2>1, <2>2 DEF WhileStopped, q
  <2> QED BY <1>4, <1>7, <2>1, <2>3 DEF News, q
<1>8. CASE /\ proc # "stopped" \/ "commandFails" \in mishaps
           /\ server' = "down" /\ queue' = q /\ told' = before /\ UNCHANGED <<proc, skip, refs>>
  <2>1. Skipping(ahead)'
    BY <1>8 DEF Skipping, Counting
  <2>2. proc = "stopped" => WhileStopped'
    BY <1>8, <2>1 DEF WhileStopped, q
  <2>3. proc = "none" => WhileNone'
    BY <1>8 DEF WhileNone, q, Left, Hasty
  <2> QED BY <1>2, <1>4, <1>8, <2>2, <2>3 DEF News, q
<1> QED BY <1>3, <1>5, <1>6, <1>7, <1>8

(* What a queued stop means when it is the next to be handled. *)
LEMMA NextStop ==
  ASSUME TypeOK, Launches, News, queue # <<>>, Head(queue) \in Stops
  PROVE  /\ proc # "running" /\ told \notin {"stopped", "exited"} /\ refs \notin {"old", "current"}
         /\ proc = "stopped" =>
              /\ StopNews /\ stoppedEarly = FALSE /\ All(Tail(queue), {"done"})
              /\ Head(queue) = "initStop" =>
                   ahead = 0 /\ Skipping(1) /\ child \in {"direct", "terminal"}
              /\ Head(queue) = "stop" =>
                   Skipping(0) /\ (Counting /\ child \in {"direct", "terminal"} => ahead = 0)
         /\ proc = "none" => Hasty /\ One(Tail(queue), Left, "exited", {"done"})
<1>1. /\ queue \in Seq(Events) /\ proc \in {"none", "stopped", "running"}
      /\ refs \in {"none", "current", "old"}
  BY DEF TypeOK
<1>2. /\ Head(queue) \notin Run /\ Head(queue) \notin {"done"} /\ Head(queue) # "exited"
      /\ "initStop" # "stop"
  BY DEF Stops, Run
<1>3. \A S : All(queue, S) => Head(queue) \in S
  BY <1>1, Taken
<1>4. ~All(queue, Run) /\ ~All(queue, {"done"})
  BY <1>2, <1>3
<1>5. \A S, m, T : One(queue, S, m, T) =>
                    \/ Head(queue) = m /\ All(Tail(queue), T)
                    \/ Head(queue) \in S /\ One(Tail(queue), S, m, T)
  BY <1>1, Taken
<1>6. \A m, T : One(queue, Run, m, T) => Head(queue) = m /\ All(Tail(queue), T)
  BY <1>2, <1>5
<1>7. proc # "running"
  BY <1>4 DEF News, WhileRunning
<1>8. ASSUME proc = "stopped"
      PROVE  /\ StopNews /\ stoppedEarly = FALSE /\ All(Tail(queue), {"done"})
             /\ told \notin {"stopped", "exited"}
             /\ Head(queue) = "initStop" =>
                  ahead = 0 /\ Skipping(1) /\ child \in {"direct", "terminal"}
             /\ Head(queue) = "stop" =>
                  Skipping(0) /\ (Counting /\ child \in {"direct", "terminal"} => ahead = 0)
  <2>1. StopNews /\ stoppedEarly = FALSE /\ told \notin {"stopped", "exited"}
    BY <1>4, <1>8 DEF News, WhileStopped
  <2>2. CASE /\ One(queue, Run, "initStop", {"done"}) /\ ahead = 0 /\ Skipping(1)
             /\ child \in {"direct", "terminal"}
    <3>1. Head(queue) = "initStop" /\ All(Tail(queue), {"done"})
      BY <1>6, <2>2
    <3> QED BY <1>2, <2>1, <2>2, <3>1
  <2>3. CASE /\ One(queue, Run, "stop", {"done"}) /\ Skipping(0)
             /\ Counting /\ child \in {"direct", "terminal"} => ahead = 0
    <3>1. Head(queue) = "stop" /\ All(Tail(queue), {"done"})
      BY <1>6, <2>3
    <3> QED BY <1>2, <2>1, <2>3, <3>1
  <2> QED BY <2>1, <2>2, <2>3 DEF StopNews
<1>9. ASSUME proc = "none"
      PROVE  /\ Hasty /\ One(Tail(queue), Left, "exited", {"done"})
             /\ told \notin {"stopped", "exited"}
  <2>1. /\ One(queue, Left, "exited", {"done"}) /\ told # "exited"
        /\ told = "stopped" => One(queue, Run, "exited", {"done"})
    BY <1>4, <1>9 DEF News, WhileNone
  <2>2. Head(queue) \in Left /\ One(Tail(queue), Left, "exited", {"done"})
    BY <1>2, <1>5, <2>1
  <2>3. Hasty
    BY <1>2, <2>2 DEF Left
  <2>4. told # "stopped"
    BY <1>2, <1>6, <2>1
  <2> QED BY <2>1, <2>2, <2>3, <2>4
<1>10. told \notin {"stopped", "exited"}
  BY <1>1, <1>7, <1>8, <1>9
<1> QED BY <1>1, <1>7, <1>8, <1>9, <1>10 DEF News

(* A closure that is handled leaves the end of a launch where it is. *)
LEMMA Unqueued ==
  ASSUME TypeOK, Launches, queue # <<>>, Head(queue) # "done"
  PROVE  /\ Tail(queue) \in Seq(Events)
         /\ launching = TRUE =>
              /\ Head(queue) \in {"initStop", "running", "exited"}
              /\ One(Tail(queue), {"initStop", "running", "exited"}, "done", NotDone)
         /\ launching = FALSE => All(Tail(queue), NotDone)
<1>1. queue \in Seq(Events)
  BY DEF TypeOK
<1> QED BY <1>1, Taken DEF Launches

(* on_target_state_changed for a stop *)
LEMMA HandleStopStep == DapInv /\ HandleStop => DapInv'
<1> SUFFICES ASSUME DapInv, HandleStop PROVE DapInv'
  OBVIOUS
<1>1. TypeOK /\ Survives /\ BreakpointsKept /\ Ordinary
  BY DEF DapInv
<1>2. /\ UNCHANGED <<disconnect, input, child, target, config, bpVars, launching, terminating,
                     ahead, mishaps>>
      /\ server = "up" /\ queue # <<>> /\ Head(queue) \in Stops /\ Head(queue) # "done"
      /\ \/ /\ launching = TRUE /\ stoppedEarly' = TRUE /\ queue' = Tail(queue)
            /\ UNCHANGED <<proc, skip, refs, server, told>>
         \/ launching = FALSE /\ OnStopped(told) /\ UNCHANGED stoppedEarly
  BY <1>1 DEF HandleStop, Takes, Stops, TypeOK
<1>3. PICK before \in {"nothing", "running", "stopped", "exited"} : before = told
  BY <1>1 DEF TypeOK
<1>4. OnStopped(told) => OnStopped(before)
  BY <1>3 DEF OnStopped
<1>5. TypeOK'
  <2>1. /\ queue' \in Seq(Events) /\ proc' \in {"none", "stopped", "running"} /\ skip' \in 0..2
        /\ refs' \in {"none", "current", "old"} /\ server' \in {"up", "closed", "down"}
        /\ told' \in {"nothing", "running", "stopped", "exited"}
    <3>1. CASE launching = TRUE
      BY <1>1, <1>2, <3>1 DEF TypeOK
    <3>2. CASE launching = FALSE
      <4>1. OnStopped(before)
        BY <1>2, <1>4, <3>2
      <4> QED BY <1>1, <1>2, <4>1, StoppedTypes
    <3> QED BY <1>2, <3>1, <3>2
  <2>2. stoppedEarly' \in BOOLEAN
    BY <1>1, <1>2 DEF TypeOK
  <2> QED BY <1>1, <1>2, <2>1, <2>2 DEF TypeOK, bpVars
<1>6. ASSUME "attachStop" \notin mishaps
      PROVE  Launches' /\ Beginning' /\ News' /\ Survives'
  <2>1. Launches /\ Beginning /\ News
    BY <1>1, <1>6 DEF Ordinary
  <2>2. /\ proc # "running" /\ told \notin {"stopped", "exited"} /\ refs \notin {"old", "current"}
        /\ proc = "stopped" =>
             /\ StopNews /\ stoppedEarly = FALSE /\ All(Tail(queue), {"done"})
             /\ Head(queue) = "initStop" =>
                  ahead = 0 /\ Skipping(1) /\ child \in {"direct", "terminal"}
             /\ Head(queue) = "stop" =>
                  Skipping(0) /\ (Counting /\ child \in {"direct", "terminal"} => ahead = 0)
        /\ proc = "none" => Hasty /\ One(Tail(queue), Left, "exited", {"done"})
    BY <1>1, <1>2, <2>1, NextStop
  <2>3. /\ launching = TRUE =>
             /\ Head(queue) = "initStop"
             /\ One(Tail(queue), {"initStop", "running", "exited"}, "done", NotDone)
        /\ launching = FALSE => All(Tail(queue), NotDone)
    BY <1>1, <1>2, <2>1, Unqueued DEF Stops
  <2>4. ~Before
    BY <1>2, <2>1 DEF Beginning
  <2>5. CASE launching = TRUE
    <3>1. stoppedEarly' = TRUE /\ queue' = Tail(queue) /\ UNCHANGED <<proc, skip, refs, server, told>>
      BY <1>2, <2>5
    <3>2. Launches'
      BY <1>2, <2>1, <2>3, <2>5, <3>1 DEF Launches
    <3>3. Beginning' /\ Survives'
      BY <1>1, <1>2, <2>1, <2>4, <2>5, <3>1 DEF Beginning, Before, Survives
    <3>4. proc = "stopped" => WhileStopped'
      BY <1>2, <2>2, <2>3, <2>5, <3>1 DEF WhileStopped, Skipping, Counting
    <3>5. told = "nothing"
      BY <2>1, <2>5 DEF Launches
    <3>6. proc = "none" => WhileNone'
      BY <1>2, <2>2, <3>1, <3>5 DEF WhileNone, Hasty, Left
    <3> QED BY <2>1, <2>2, <3>1, <3>2, <3>3, <3>4, <3>6 DEF News
  <2>6. CASE launching = FALSE
    <3>1. OnStopped(before) /\ before \in {"nothing", "running"} /\ stoppedEarly' = FALSE
      BY <1>2, <1>3, <1>4, <2>1, <2>2, <2>6 DEF Launches
    <3>2. All(Tail(queue), {"done"}) => All(Tail(queue), Run)
      BY Wider, Closures
    <3>3. Head(queue) = "initStop" \/ Head(queue) = "stop"
      BY <1>2 DEF Stops
    <3>4. /\ News' /\ (All(Tail(queue), NotDone) => All(queue', NotDone))
          /\ (proc' = "running" => proc = "stopped") /\ (proc' = "stopped" => proc = "stopped")
          /\ told' = "stopped" => proc = "stopped" /\ ~(skip # 0 /\ child # "attached")
          /\ server' = "down" => Hasty \/ "commandFails" \in mishaps
      BY <1>1, <1>2, <2>2, <3>1, <3>2, <3>3, StoppedNews
    <3>5. told' \in {told, "stopped"}
      BY <1>1, <1>2, <1>3, <3>1, StoppedTypes
    <3>6. proc = "stopped" => told # "nothing" /\ target = TRUE /\ config # "no"
      BY <1>1, <1>2, <2>1, <2>2, <2>6 DEF Beginning, Launches, TypeOK
    <3>7. Launches'
      BY <1>2, <2>1, <2>3, <2>6, <3>1, <3>4, <3>6 DEF Launches
    <3>8. Beginning'
      <4>1. ~Before'
        BY <1>2, <2>4 DEF Before
      <4>2. proc = "none" => skip' = skip
        BY <3>1 DEF OnStopped
      <4>3. config = "no" => proc = "none"
        BY <2>2, <3>6, <1>1 DEF TypeOK
      <4>4. config = "no" => skip' = 0 /\ told' \notin {"running", "stopped"}
        BY <2>1, <3>4, <3>5, <4>2, <4>3 DEF Beginning
      <4>5. told' = "nothing" => proc' # "running" /\ proc' # "stopped"
        BY <3>4, <3>5, <3>6
      <4>6. config = "no" /\ child = "attached" /\ target = TRUE
              /\ "hastyTerminate" \notin mishaps => FALSE
        BY <2>1, <4>3 DEF Beginning
      <4> QED BY <1>2, <2>6, <4>1, <4>4, <4>5, <4>6 DEF Beginning
    <3>9. Survives'
      BY <1>2, <3>4 DEF Survives, Hasty
    <3> QED BY <3>4, <3>7, <3>8, <3>9
  <2> QED BY <1>2, <2>5, <2>6
<1>7. Survives'
  BY <1>2, <1>6 DEF Survives
<1>8. BreakpointsKept'
  BY <1>1, <1>2, BreakpointsSame
<1> QED BY <1>2, <1>5, <1>6, <1>7, <1>8 DEF DapInv, Ordinary

(* A closure without a stop, or the end of a launch: the process runs on. *)
LEMMA HandleRunningStep == DapInv /\ HandleRunning => DapInv'
<1> SUFFICES ASSUME DapInv, HandleRunning PROVE DapInv'
  OBVIOUS
<1>1. TypeOK /\ Survives /\ BreakpointsKept /\ Ordinary
  BY DEF DapInv
<1>2. /\ UNCHANGED <<serverVars, child, target, config, bpVars, skip, launching, terminating,
                     refs, proc, ahead, told, mishaps>>
      /\ server = "up" /\ queue # <<>> /\ Head(queue) = "running" /\ queue' = Tail(queue)
      /\ stoppedEarly' = (stoppedEarly /\ ~launching)
  BY DEF HandleRunning, Takes
<1>3. /\ queue \in Seq(Events) /\ launching \in BOOLEAN
      /\ stoppedEarly \in BOOLEAN /\ stoppedEarly' \in BOOLEAN
  BY <1>1, <1>2 DEF TypeOK
<1>4. TypeOK'
  <2>1. queue' \in Seq(Events)
    BY <1>2, <1>3, Taken
  <2> QED BY <1>1, <1>2, <1>3, <2>1 DEF TypeOK, bpVars, serverVars
<1>5. Survives' /\ BreakpointsKept'
  BY <1>1, <1>2, BreakpointsSame DEF Survives, serverVars
<1>6. ASSUME "attachStop" \notin mishaps PROVE Launches' /\ Beginning' /\ News'
  <2>1. Launches /\ Beginning /\ News
    BY <1>1, <1>6 DEF Ordinary
  <2>2. /\ launching = TRUE =>
             One(queue', {"initStop", "running", "exited"}, "done", NotDone)
        /\ launching = FALSE => All(queue', NotDone)
    BY <1>1, <1>2, <2>1, Unqueued
  <2>3. stoppedEarly' = TRUE => stoppedEarly = TRUE /\ launching = FALSE
    BY <1>2, <1>3
  <2>4. stoppedEarly' = FALSE
    BY <1>3, <2>1, <2>3 DEF Launches
  <2>5. Launches'
    BY <1>2, <2>1, <2>2, <2>4 DEF Launches
  <2>6. Beginning'
    <3>1. ~Before /\ ~Before'
      BY <1>2, <2>1 DEF Beginning, Before
    <3>2. queue # <<>>
      BY <1>2
    <3> QED BY <1>2, <2>1, <3>1, <3>2 DEF Beginning
  <2>7. Hasty' = Hasty /\ Left' = Left /\ (Counting' => Counting)
    BY <1>2 DEF Hasty, Left, Counting, serverVars
  <2>8. /\ Head(queue) \notin {"done"} /\ Head(queue) # "initStop"
        /\ Head(queue) # "stop" /\ Head(queue) # "exited"
    BY <1>2
  <2>9. /\ \A S : All(queue, S) => Head(queue) \in S /\ All(queue', S)
        /\ \A S, m, T : One(queue, S, m, T) =>
             \/ Head(queue) = m /\ All(queue', T)
             \/ Head(queue) \in S /\ One(queue', S, m, T)
    BY <1>2, <1>3, Taken
  <2>10. /\ ~All(queue, {"done"}) /\ (All(queue, Run) => All(queue', Run))
         /\ \A S, T : /\ One(queue, S, "initStop", T) => One(queue', S, "initStop", T)
                      /\ One(queue, S, "stop", T) => One(queue', S, "stop", T)
                      /\ One(queue, S, "exited", T) => One(queue', S, "exited", T)
    BY <2>8, <2>9
  <2>11. WhileRunning => WhileRunning'
    BY <1>2, <2>4, <2>7, <2>10 DEF WhileRunning, Skipping
  <2>12. StopNews => StopNews'
    BY <1>2, <2>7, <2>10 DEF StopNews, Skipping
  <2>13. WhileStopped => WhileStopped'
    BY <1>2, <2>4, <2>7, <2>10, <2>12 DEF WhileStopped, Skipping
  <2>14. WhileNone => WhileNone'
    BY <1>2, <2>4, <2>7, <2>10 DEF WhileNone
  <2> QED BY <1>2, <2>1, <2>5, <2>6, <2>11, <2>13, <2>14 DEF News
<1> QED BY <1>2, <1>4, <1>5, <1>6 DEF DapInv, Ordinary

(* The exit of the process is the last news of it. *)
LEMMA HandleExitStep == DapInv /\ HandleExit => DapInv'
<1> SUFFICES ASSUME DapInv, HandleExit PROVE DapInv'
  OBVIOUS
<1>1. TypeOK /\ Survives /\ BreakpointsKept /\ Ordinary
  BY DEF DapInv
<1>2. /\ UNCHANGED <<serverVars, child, target, config, bpVars, launchVars, terminating,
                     refs, proc, ahead, mishaps>>
      /\ server = "up" /\ queue # <<>> /\ Head(queue) = "exited" /\ queue' = Tail(queue)
      /\ told' = IF launching THEN told ELSE "exited"
  BY DEF HandleExit, Takes
<1>3. queue \in Seq(Events) /\ launching \in BOOLEAN
  BY <1>1 DEF TypeOK
<1>4. TypeOK'
  <2>1. queue' \in Seq(Events)
    BY <1>2, <1>3, Taken
  <2>2. told' \in {"nothing", "running", "stopped", "exited"}
    BY <1>1, <1>2 DEF TypeOK
  <2> QED BY <1>1, <1>2, <2>1, <2>2 DEF TypeOK, bpVars, serverVars, launchVars
<1>5. Survives' /\ BreakpointsKept'
  BY <1>1, <1>2, BreakpointsSame DEF Survives, serverVars
<1>6. ASSUME "attachStop" \notin mishaps PROVE Launches' /\ Beginning' /\ News'
  <2>1. Launches /\ Beginning /\ News
    BY <1>1, <1>6 DEF Ordinary
  <2>2. /\ launching = TRUE =>
             One(queue', {"initStop", "running", "exited"}, "done", NotDone)
        /\ launching = FALSE => All(queue', NotDone)
    BY <1>1, <1>2, <2>1, Unqueued
  <2>3. launching = TRUE => told' = told
    BY <1>2
  <2>4. Launches'
    BY <1>2, <2>1, <2>2, <2>3 DEF Launches, launchVars
  <2>5. proc = "none" /\ WhileNone /\ All(queue', {"done"})
    <3>1. /\ Head(queue) \notin Run /\ Head(queue) \notin {"done"} /\ Head(queue) \notin Left
          /\ Head(queue) # "initStop" /\ Head(queue) # "stop"
      BY <1>2 DEF Run, Left, Stops
    <3>2. /\ \A S : All(queue, S) => Head(queue) \in S /\ All(queue', S)
          /\ \A S, m, T : One(queue, S, m, T) =>
               \/ Head(queue) = m /\ All(queue', T)
               \/ Head(queue) \in S /\ One(queue', S, m, T)
      BY <1>2, <1>3, Taken
    <3>3. ~WhileRunning /\ ~StopNews
      BY <3>1, <3>2 DEF WhileRunning, StopNews
    <3>4. ~WhileStopped
      BY <3>1, <3>2, <3>3 DEF WhileStopped
    <3>5. proc = "none" /\ WhileNone
      BY <1>1, <2>1, <3>3, <3>4 DEF News, TypeOK
    <3> QED BY <3>1, <3>2, <3>5 DEF WhileNone
  <2>6. Beginning'
    <3>1. ~Before'
      BY <1>2, <2>1 DEF Beginning, Before, launchVars
    <3>2. told' \in {told, "exited"}
      BY <1>2
    <3> QED BY <1>2, <2>1, <2>5, <3>1, <3>2 DEF Beginning, launchVars
  <2>7. WhileNone'
    BY <1>2, <2>5 DEF WhileNone, Hasty, launchVars
  <2>8. told \in {"stopped", "exited"} => told' \in {"stopped", "exited"}
    BY <1>2
  <2> QED BY <1>2, <2>1, <2>4, <2>5, <2>6, <2>7, <2>8 DEF News
<1> QED BY <1>2, <1>4, <1>5, <1>6 DEF DapInv, Ordinary

(* The completion of a launch, and the stop it has hidden *)
LEMMA LaunchDoneStep == DapInv /\ LaunchDone => DapInv'
<1> SUFFICES ASSUME DapInv, LaunchDone PROVE DapInv'
  OBVIOUS
<1>1. TypeOK /\ Survives /\ BreakpointsKept /\ Ordinary
  BY DEF DapInv
<1>2. /\ UNCHANGED <<disconnect, input, child, target, bpVars, terminating, ahead, mishaps>>
      /\ server = "up" /\ queue # <<>> /\ Head(queue) = "done"
      /\ launching' = FALSE /\ config' = "done" /\ stoppedEarly' = FALSE
      /\ \/ /\ stoppedEarly = FALSE /\ told' = "running" /\ queue' = Tail(queue)
            /\ UNCHANGED <<proc, skip, refs, server>>
         \/ stoppedEarly = TRUE /\ OnStopped("running")
  BY <1>1 DEF LaunchDone, Takes, TypeOK
<1>3. PICK before \in {"nothing", "running"} : before = "running"
  OBVIOUS
<1>4. OnStopped("running") => OnStopped(before)
  BY <1>3 DEF OnStopped
<1>5. queue \in Seq(Events) /\ Tail(queue) \in Seq(Events)
  BY <1>1, <1>2, Taken DEF TypeOK
<1>6. TypeOK'
  <2>1. /\ queue' \in Seq(Events) /\ proc' \in {"none", "stopped", "running"} /\ skip' \in 0..2
        /\ refs' \in {"none", "current", "old"} /\ server' \in {"up", "closed", "down"}
        /\ told' \in {"nothing", "running", "stopped", "exited"}
    <3>1. CASE stoppedEarly = FALSE
      BY <1>1, <1>2, <1>5, <3>1 DEF TypeOK
    <3>2. CASE stoppedEarly = TRUE
      <4>1. OnStopped(before) /\ before \in {"nothing", "running", "stopped", "exited"}
        BY <1>2, <1>4, <3>2
      <4> QED BY <1>1, <1>2, <4>1, StoppedTypes
    <3> QED BY <1>2, <3>1, <3>2
  <2> QED BY <1>1, <1>2, <2>1 DEF TypeOK, bpVars
<1>7. ASSUME "attachStop" \notin mishaps
      PROVE  Launches' /\ Beginning' /\ News' /\ Survives'
  <2>1. Launches /\ Beginning /\ News
    BY <1>1, <1>7 DEF Ordinary
  <2>2. /\ \A S : All(queue, S) => "done" \in S /\ All(Tail(queue), S)
        /\ \A S, m, T : One(queue, S, m, T) =>
             \/ m = "done" /\ All(Tail(queue), T)
             \/ "done" \in S /\ One(Tail(queue), S, m, T)
    BY <1>2, <1>5, Taken
  <2>3. launching = TRUE /\ All(Tail(queue), NotDone)
    <3>1. "done" \notin NotDone /\ "done" \notin {"initStop", "running", "exited"}
      BY DEF NotDone
    <3>2. launching = TRUE
      BY <1>1, <2>1, <2>2, <3>1 DEF Launches, TypeOK
    <3>3. One(queue, {"initStop", "running", "exited"}, "done", NotDone)
      BY <2>1, <3>2 DEF Launches
    <3> QED BY <2>2, <3>1, <3>2, <3>3
  <2>4. /\ child = "direct" /\ target = TRUE /\ told = "nothing" /\ skip = 1
    BY <2>1, <2>3 DEF Launches
  <2>5. refs = "none"
    BY <1>1, <2>1, <2>4 DEF News, TypeOK
  <2>6. CASE /\ stoppedEarly = FALSE /\ told' = "running" /\ queue' = Tail(queue)
             /\ UNCHANGED <<proc, skip, refs, server>>
    <3>1. Launches'
      BY <1>2, <2>1, <2>3, <2>4, <2>6 DEF Launches
    <3>2. Beginning'
      BY <1>2, <2>6 DEF Beginning, Before
    <3>3. Survives'
      BY <1>2, <2>6 DEF Survives
    <3>4. Hasty' = Hasty /\ Left' = Left /\ (Counting' => Counting)
      BY <1>2, <2>6 DEF Hasty, Left, Counting
    <3>5. /\ \A S : All(queue, S) => All(queue', S)
          /\ \A S, T : /\ One(queue, S, "initStop", T) => One(queue', S, "initStop", T)
                       /\ One(queue, S, "stop", T) => One(queue', S, "stop", T)
                       /\ One(queue, S, "exited", T) => One(queue', S, "exited", T)
      BY <2>2, <2>6
    <3>6. WhileRunning => WhileRunning'
      BY <1>2, <2>6, <3>4, <3>5 DEF WhileRunning, Skipping
    <3>7. StopNews => StopNews'
      BY <1>2, <2>6, <3>4, <3>5 DEF StopNews, Skipping
    <3>8. WhileStopped => WhileStopped'
      BY <1>2, <2>6, <3>4, <3>5, <3>7 DEF WhileStopped, Skipping
    <3>9. WhileNone => WhileNone'
      BY <1>2, <2>6, <3>4, <3>5 DEF WhileNone
    <3>10. News'
      BY <2>1, <2>5, <2>6, <3>6, <3>8, <3>9 DEF News
    <3> QED BY <3>1, <3>2, <3>3, <3>10
  <2>7. CASE stoppedEarly = TRUE /\ OnStopped("running")
    <3>1. OnStopped(before)
      BY <1>4, <2>7
    <3>2. proc # "running"
      BY <2>1, <2>7 DEF News, WhileRunning
    <3>3. proc = "stopped" =>
            /\ All(Tail(queue), Run)
            /\ ahead = 0 /\ Skipping(1) /\ child \in {"direct", "terminal"}
      <4>1. All(Tail(queue), {"done"}) => All(Tail(queue), Run)
        BY Wider, Closures
      <4> QED BY <2>1, <2>2, <2>7, <4>1 DEF News, WhileStopped
    <3>4. proc = "none" =>
            Hasty /\ (All(Tail(queue), {"done"}) \/ One(Tail(queue), Left, "exited", {"done"}))
      BY <2>1, <2>2, <2>7 DEF News, WhileNone
    <3>5. /\ News' /\ (All(Tail(queue), NotDone) => All(queue', NotDone))
          /\ (proc' = "running" => proc = "stopped") /\ (proc' = "stopped" => proc = "stopped")
          /\ told' = "stopped" => proc = "stopped" /\ ~(skip # 0 /\ child # "attached")
          /\ server' = "down" => Hasty \/ "commandFails" \in mishaps
      BY <1>1, <1>2, <2>5, <3>1, <3>2, <3>3, <3>4, StoppedNews
    <3>6. told' = "running"
      BY <1>2, <2>4, <2>7, <3>5 DEF OnStopped
    <3>7. Launches'
      BY <1>2, <2>1, <2>3, <2>4, <3>5 DEF Launches
    <3>8. Beginning'
      BY <1>2, <3>6 DEF Beginning, Before
    <3>9. Survives'
      BY <1>2, <3>5 DEF Survives, Hasty
    <3> QED BY <3>5, <3>7, <3>8, <3>9
  <2> QED BY <1>2, <2>6, <2>7
<1>8. Survives'
  BY <1>2, <1>7 DEF Survives
<1>9. BreakpointsKept'
  BY <1>1, <1>2, BreakpointsSame
<1> QED BY <1>2, <1>6, <1>7, <1>8, <1>9 DEF DapInv, Ordinary

-----------------------------------------------------------------------------
(* Every step of a session keeps the invariant. *)
LEMMA SessionStep == DapInv /\ [Next]_vars => DapInv'
<1> SUFFICES ASSUME DapInv, [Next]_vars PROVE DapInv'
  OBVIOUS
<1>1. ASSUME UNCHANGED vars PROVE DapInv'
  <2>1. TypeOK /\ Survives /\ BreakpointsKept /\ Ordinary
    BY DEF DapInv
  <2>2. TypeOK'
    BY <1>1, <2>1 DEF vars, serverVars, bpVars, launchVars, procVars, TypeOK
  <2>3. Survives' /\ BreakpointsKept' /\ mishaps' = mishaps
    BY <1>1, <2>1, BreakpointsSame DEF vars, serverVars, Survives
  <2>4. Ordinary'
    BY <1>1, <2>1, SessionKept DEF vars, serverVars, Ordinary
  <2> QED BY <2>2, <2>3, <2>4 DEF DapInv
<1>2. CASE Client
  <2>1. ASSUME NEW on \in BOOLEAN,
               SetSourceBreakpoints(on) \/ SetFunctionBreakpoints(on) \/ SetExceptionBreakpoints(on)
        PROVE  DapInv'
    BY <2>1, BreakpointSteps
  <2>2. CASE Launch \/ Attach
    BY <2>2, BeginStep
  <2>3. CASE ConfigureAttached
    BY <2>3, ConfigureAttachedStep
  <2>4. CASE ConfigureDirect
    BY <2>4, ConfigureDirectStep
  <2>5. CASE ConfigureInTerminal \/ TerminalAttached \/ TerminalStarted \/ TerminalFailed
    BY <2>5, TerminalStep
  <2>6. CASE Continue \/ StackTrace
    BY <2>6, ContinueStep
  <2>7. CASE Pause
    BY <2>7, PauseStep
  <2>8. CASE Terminate
    BY <2>8, TerminateStep
  <2>9. CASE TerminateUndebugged
    BY <2>9, TerminateUndebuggedStep
  <2>10. CASE Disconnect \/ InputClosed
    BY <2>10, LeaveStep
  <2> QED BY <1>2, <2>1, <2>2, <2>3, <2>4, <2>5, <2>6, <2>7, <2>8, <2>9, <2>10 DEF Client
<1>3. CASE Handler
  BY <1>3, HandleStopStep, HandleRunningStep, HandleExitStep, LaunchDoneStep DEF Handler
<1>4. CASE ProcStop \/ ProcExit
  BY <1>4, ProcStep
<1>5. CASE Over
  BY <1>1, <1>5 DEF Over
<1> QED BY <1>1, <1>2, <1>3, <1>4, <1>5 DEF Next

-----------------------------------------------------------------------------
(* The invariant in every behaviour of the adapter *)
LEMMA AlwaysDap == AdapterSpec => []DapInv
<1>1. AdapterInit => DapInv
  BY SessionInit DEF AdapterInit
<1>2. DapInv /\ [AdapterNext]_adapterVars => DapInv'
  <2>1. [AdapterNext]_adapterVars => [Next]_vars
    BY DEF AdapterNext, SessionPart, adapterVars
  <2> QED BY <2>1, SessionStep
<1> QED BY <1>1, <1>2, PTL DEF AdapterSpec

(* What it says of the properties *)
LEMMA DapInvSuffices == DapInv => ClientKnows
<1> SUFFICES ASSUME DapInv PROVE ClientKnows
  OBVIOUS
<1>1. TypeOK /\ Survives /\ BreakpointsKept /\ Ordinary
  BY DEF DapInv
<1>2. ServerStays
  BY <1>1 DEF ServerStays, Survives, Free
<1>3. BreakpointsInstalled
  BY <1>1 DEF BreakpointsInstalled, BreakpointsKept, Debugging, Free
<1>4. ToldTruth /\ NoOldRefs
  <2> SUFFICES ASSUME "attachStop" \notin mishaps
               PROVE  /\ told = "stopped" => proc # "running"
                      /\ told = "exited" => proc = "none"
                      /\ refs # "old"
    BY DEF ToldTruth, NoOldRefs, Free
  <2> QED BY <1>1 DEF Ordinary, News, WhileRunning, WhileStopped, TypeOK
<1> QED BY <1>1, <1>2, <1>3, <1>4 DEF ClientKnows

(* The server goes on, and what the client was told and handed out is true  *)
(* of the debuggee, in every session and with every set of mishaps.         *)
THEOREM KnowsTruly == AdapterSpec => []ClientKnows
BY AlwaysDap, DapInvSuffices, PTL

-----------------------------------------------------------------------------
(* The completion of a launch answers it, and tells of no stop: the one it  *)
(* has hidden is the one to skip.                                           *)
LEMMA DoneTells ==
  ASSUME DapInv, "attachStop" \notin mishaps, LaunchDone
  PROVE  told = "nothing" /\ told' = "running"
<1>1. TypeOK /\ Launches
  BY DEF DapInv, Ordinary
<1>2. queue \in Seq(Events) /\ queue # <<>> /\ Head(queue) = "done" /\ launching \in BOOLEAN
  BY <1>1 DEF LaunchDone, Takes, TypeOK
<1>3. "done" \notin NotDone
  BY DEF NotDone
<1>4. ~All(queue, NotDone)
  BY <1>2, <1>3, Taken
<1>5. told = "nothing" /\ skip = 1 /\ child = "direct"
  BY <1>1, <1>2, <1>4 DEF Launches
<1> QED BY <1>5 DEF LaunchDone, OnStopped

(* A stop that is handled out of a launch: the client, who takes the        *)
(* process for running, is told of it or not.                               *)
LEMMA StopTells ==
  ASSUME DapInv, "attachStop" \notin mishaps, HandleStop
  PROVE  /\ told' # "stopped" => told' = told
         /\ told' = "stopped" => told = "running"
         /\ "noInitialStop" \notin mishaps /\ "hastyPause" \notin mishaps =>
              /\ Head(queue) = "stop" /\ ~terminating => told' = "stopped"
              /\ Head(queue) = "initStop" => told' # "stopped"
<1>. DEFINE toSkip == skip # 0 /\ child # "attached"
<1>1. TypeOK /\ BreakpointsKept /\ Launches /\ Beginning /\ News
  BY DEF DapInv, Ordinary
<1>2. /\ server = "up" /\ queue # <<>> /\ Head(queue) \in Stops /\ Head(queue) # "done"
      /\ \/ launching = TRUE /\ told' = told
         \/ launching = FALSE /\ OnStopped(told)
  BY <1>1 DEF HandleStop, Takes, Stops, TypeOK
<1>3. /\ proc # "running" /\ told \notin {"stopped", "exited"}
      /\ proc = "stopped" =>
           /\ Head(queue) = "initStop" => Skipping(1) /\ child \in {"direct", "terminal"}
           /\ Head(queue) = "stop" => Skipping(0)
      /\ proc = "none" => Hasty
  BY <1>1, <1>2, NextStop
<1>4. launching = TRUE => Head(queue) # "stop" /\ told = "nothing"
  BY <1>1, <1>2, Unqueued DEF Launches
<1>5. launching = FALSE =>
        \/ toSkip /\ proc = "stopped" /\ told' = told
        \/ ~toSkip /\ terminating = TRUE /\ told' = told
        \/ ~toSkip /\ terminating = FALSE /\ told' = "stopped"
        \/ (proc # "stopped" \/ toSkip \/ terminating = TRUE) /\ told' = told
  BY <1>1, <1>2 DEF OnStopped, TypeOK
<1>6. ASSUME told' = "stopped"
      PROVE  told = "running" /\ proc = "stopped" /\ ~toSkip /\ terminating = FALSE
  <2>1. launching = FALSE /\ ~toSkip /\ terminating = FALSE
    <3>1. told # "stopped"
      BY <1>3
    <3>2. launching = FALSE
      BY <1>2, <1>6, <3>1
    <3> QED BY <1>5, <1>6, <3>1, <3>2
  <2>2. proc = "stopped"
    BY <1>1, <1>3, <2>1 DEF Hasty, TypeOK
  <2>3. told # "nothing"
    BY <1>1, <1>2, <2>1, <2>2 DEF Beginning
  <2> QED BY <1>1, <1>3, <2>1, <2>2, <2>3 DEF TypeOK
<1>7. ASSUME "noInitialStop" \notin mishaps, "hastyPause" \notin mishaps,
             Head(queue) = "stop", ~terminating
      PROVE  told' = "stopped"
  <2>1. proc = "stopped" /\ Skipping(0) /\ launching = FALSE
    BY <1>1, <1>3, <1>4, <1>7 DEF Hasty, TypeOK
  <2>2. target = TRUE /\ child \in {"direct", "terminal", "attached"}
    BY <1>1, <2>1 DEF Launches, BreakpointsKept
  <2>3. Counting
    BY <1>2, <1>7 DEF Counting
  <2>4. ~toSkip
    BY <1>7, <2>1, <2>2, <2>3 DEF Skipping
  <2> QED BY <1>5, <1>7, <2>1, <2>4
<1>8. ASSUME "hastyPause" \notin mishaps, Head(queue) = "initStop"
      PROVE  told' # "stopped"
  <2> SUFFICES ASSUME told' = "stopped" PROVE FALSE
    OBVIOUS
  <2>1. proc = "stopped" /\ ~toSkip /\ terminating = FALSE
    BY <1>6
  <2>2. Skipping(1) /\ Counting /\ child \in {"direct", "terminal"}
    BY <1>2, <1>3, <1>8, <2>1 DEF Counting
  <2>3. 1 <= skip
    BY <2>2 DEF Skipping
  <2> QED BY <2>1, <2>2, <2>3
<1>9. told' # "stopped" => told' = told
  BY <1>2, <1>5
<1> QED BY <1>6, <1>7, <1>8, <1>9

(* The news of an exit is told once. *)
LEMMA ExitTells ==
  ASSUME DapInv, "attachStop" \notin mishaps, HandleExit
  PROVE  told' = told \/ (told # "exited" /\ told' = "exited")
<1>1. TypeOK /\ News
  BY DEF DapInv, Ordinary
<1>2. /\ queue # <<>> /\ Head(queue) = "exited" /\ told' \in {told, "exited"}
      /\ queue \in Seq(Events)
  BY <1>1 DEF HandleExit, Takes, TypeOK
<1>3. Head(queue) \notin {"done"}
  BY <1>2
<1>4. ~All(queue, {"done"})
  BY <1>2, <1>3, Taken
<1>5. told # "exited"
  BY <1>1, <1>4 DEF News, WhileRunning, WhileStopped, WhileNone, TypeOK
<1> QED BY <1>2, <1>5

(* Each step tells the client what the session lets it, or nothing. *)
LEMMA SessionTells ==
  ASSUME DapInv, [Next]_vars, Free({"attachStop"})
  PROVE  [Session!Next]_told
<1>. USE DEF Session!Next, Session!Started, Session!Resumed, Session!StopTold, Session!ExitTold
<1>1. TypeOK /\ Launches /\ Beginning /\ "attachStop" \notin mishaps
  BY DEF DapInv, Ordinary, Free
<1>2. CASE Client
  <2>1. CASE ConfigureAttached
    <3>1. config = "no" /\ told # "exited" /\ told' \in {told, "running"}
      BY <2>1 DEF ConfigureAttached
    <3> QED BY <1>1, <3>1 DEF Beginning, TypeOK
  <2>2. CASE TerminalAttached
    <3>1. config = "asked" /\ child = "terminal" /\ told' \in {told, "running"}
      BY <2>2 DEF TerminalAttached
    <3>2. Before
      BY <1>1, <3>1 DEF Launches, Before, TypeOK
    <3> QED BY <1>1, <3>1, <3>2 DEF Beginning
  <2>3. CASE TerminalStarted
    <3>1. config = "asked" /\ child = "nodebug" /\ told' \in {told, "running"}
      BY <2>3 DEF TerminalStarted
    <3>2. Before
      BY <1>1, <3>1 DEF Launches, Before, TypeOK
    <3> QED BY <1>1, <3>1, <3>2 DEF Beginning
  <2>4. CASE Continue
    BY <2>4 DEF Continue
  <2>5. CASE \E on \in BOOLEAN : \/ SetSourceBreakpoints(on) \/ SetFunctionBreakpoints(on)
                                 \/ SetExceptionBreakpoints(on)
    BY <2>5 DEF SetSourceBreakpoints, SetFunctionBreakpoints, SetExceptionBreakpoints
  <2>6. CASE Launch \/ Attach \/ ConfigureDirect \/ ConfigureInTerminal \/ TerminalFailed
    BY <2>6 DEF Launch, Attach, ConfigureDirect, ConfigureInTerminal, TerminalFailed
  <2>7. CASE \/ StackTrace \/ Pause \/ Terminate \/ TerminateUndebugged
             \/ Disconnect \/ InputClosed
    BY <2>7 DEF StackTrace, Pause, Terminate, TerminateUndebugged, Disconnect, InputClosed
  <2> QED BY <1>2, <2>1, <2>2, <2>3, <2>4, <2>5, <2>6, <2>7 DEF Client
<1>3. CASE HandleStop
  BY <1>1, <1>3, StopTells
<1>4. CASE HandleRunning
  BY <1>4 DEF HandleRunning
<1>5. CASE HandleExit
  BY <1>1, <1>5, ExitTells
<1>6. CASE LaunchDone
  BY <1>1, <1>6, DoneTells
<1>7. CASE ProcStop \/ ProcExit \/ Over \/ UNCHANGED vars
  BY <1>7 DEF ProcStop, ProcExit, Over, vars
<1> QED BY <1>2, <1>3, <1>4, <1>5, <1>6, <1>7 DEF Next, Handler

(* The initial stops are told apart from the program's, and what a client   *)
(* is told comes in the order of the protocol (DapSession).                 *)
THEOREM OrderTold == AdapterSpec => TellsInOrder
<1>1. DapInv => (Free({"noInitialStop", "hastyPause", "attachStop"}) /\ Handler =>
                   /\ Head(queue) = "stop" /\ ~terminating => told' = "stopped"
                   /\ Head(queue) \in {"initStop", "done"} => told' # "stopped")
  <2> SUFFICES ASSUME DapInv, Free({"noInitialStop", "hastyPause", "attachStop"}), Handler
               PROVE  /\ Head(queue) = "stop" /\ ~terminating => told' = "stopped"
                      /\ Head(queue) \in {"initStop", "done"} => told' # "stopped"
    OBVIOUS
  <2>1. "noInitialStop" \notin mishaps /\ "hastyPause" \notin mishaps /\ "attachStop" \notin mishaps
    BY DEF Free
  <2>2. CASE HandleStop
    BY <2>1, <2>2, StopTells DEF HandleStop, Takes
  <2>3. CASE HandleRunning \/ HandleExit
    BY <2>3 DEF HandleRunning, HandleExit, Takes
  <2>4. CASE LaunchDone
    BY <2>1, <2>4, DoneTells DEF LaunchDone, Takes
  <2> QED BY <2>2, <2>3, <2>4 DEF Handler
<1>2. DapInv /\ [AdapterNext]_adapterVars => [Free({"attachStop"}) => Session!Next]_told
  <2>1. [AdapterNext]_adapterVars => [Next]_vars
    BY DEF AdapterNext, SessionPart, adapterVars
  <2> QED BY <2>1, SessionTells
<1>3. AdapterInit => Session!Init
  BY DEF AdapterInit, Init, Session!Init
<1>4. AdapterSpec => StopsSorted
  BY <1>1, AlwaysDap, PTL DEF StopsSorted
<1>5. AdapterSpec => KeepsSession
  BY <1>2, <1>3, AlwaysDap, PTL DEF KeepsSession, AdapterSpec
<1> QED BY <1>4, <1>5 DEF TellsInOrder

-----------------------------------------------------------------------------
(* What a client is handed out at a stop (Inspect)                         *)

(* The frames LLDB has at a stop.                                          *)
Live == UNION {{I!FrameAt(t, i) : i \in DOMAIN stacks[t]} : t \in I!Threads}

LEMMA StacksAre ==
  /\ \A s \in I!Stacks \cup {I!NoStacks}, t \in I!Threads :
       Len(s[t]) \in 0 .. 2 /\ DOMAIN s[t] = 1 .. Len(s[t]) /\ I!Threads = {1, 2}
       /\ s \in [I!Threads -> Seq({I!Call(1, 1, "main"), I!Call(1, 1, "inlined"), I!Call(1, 2, "main")})]
  /\ \A s \in I!Stacks \cup {I!NoStacks}, t, u \in I!Threads : \A i \in DOMAIN s[t], j \in DOMAIN s[u] :
       /\ s[t][i].pc = s[u][j].pc /\ s[t][i].cfa = s[u][j].cfa /\ s[t][i].scope = s[u][j].scope
       => s[t][i] = s[u][j]
BY DEF I!Stacks, I!NoStacks, I!Threads, I!Call

(* Frames are told apart at a stop: the calls' features differ. *)
LEMMA LiveApart ==
  ASSUME stacks \in I!Stacks \cup {I!NoStacks}, NEW f \in Live, NEW g \in Live, I!SameFrame(f, g)
  PROVE  f = g
<1>1. PICK t \in I!Threads : \E i \in DOMAIN stacks[t] : f = I!FrameAt(t, i)
  BY DEF Live
<1>2. PICK u \in I!Threads : \E j \in DOMAIN stacks[u] : g = I!FrameAt(u, j)
  BY DEF Live
<1>3. PICK i \in DOMAIN stacks[t] : f = I!FrameAt(t, i)
  BY <1>1
<1>4. PICK j \in DOMAIN stacks[u] : g = I!FrameAt(u, j)
  BY <1>2
<1> QED BY <1>3, <1>4, StacksAre DEF I!SameFrame, I!FrameAt

(* A set of places has a first one. *)
LEMMA LeastPlace ==
  ASSUME NEW P \in SUBSET Nat, P # {}
  PROVE  \E k \in P : \A m \in P : k <= m
<1> DEFINE R == {ss \in Nat \X Nat : ss[1] < ss[2]}
<1>1. IsWellFoundedOn(R, Nat)
  BY NatLessThanWellFounded DEF OpToRel
<1>2. \E k \in P : \A m \in P : ~(<<m, k>> \in R)
  <2> HIDE DEF R
  <2> QED BY <1>1, WFMin
<1>3. PICK k \in P : \A m \in P : ~(<<m, k>> \in R)
  BY <1>2
<1>4. ASSUME NEW m \in P PROVE k <= m
  <2>1. k \in Nat /\ m \in Nat
    OBVIOUS
  <2>2. ~(<<m, k>>[1] < <<m, k>>[2])
    BY <1>3, <2>1
  <2> QED BY <2>1, <2>2
<1> QED BY <1>4

(* The first element that passes a test is one that does, or there is none. *)
LEMMA NumberIs ==
  ASSUME NEW S, NEW table \in Seq(S), NEW f
  PROVE  /\ I!NumberOf(table, f) \in 0 .. Len(table)
         /\ I!NumberOf(table, f) # 0 => I!SameFrame(f, table[I!NumberOf(table, f)])
         /\ I!NumberOf(table, f) = 0 => \A i \in 1 .. Len(table) : ~I!SameFrame(f, table[i])
<1> DEFINE Passing == {i \in 1 .. Len(table) : I!SameFrame(f, table[i])}
<1>0. I!NumberOf(table, f) = IF Passing # {} THEN I!Min(Passing) ELSE 0
  BY DEF I!NumberOf, I!SelectInSeq
<1>1. CASE Passing = {}
  BY <1>0, <1>1
<1>2. CASE Passing # {}
  <2>1. I!Min(Passing) \in Passing
    <3>0. Passing \in SUBSET Nat
      OBVIOUS
    <3>1. \E n \in Passing : \A m \in Passing : n <= m
      <4> HIDE DEF Passing
      <4> QED BY <1>2, <3>0, LeastPlace
    <3> QED BY <3>1 DEF I!Min
  <2> QED BY <1>0, <1>2, <2>1
<1> QED BY <1>1, <1>2

(* The table after a page: those of its frames without a number get one. *)
PageTable(base, page) == I!FoldLeft(I!WithFrame, base, page)

(* The pages that are asked for have two frames at most. *)
LEMMA PageFolded ==
  ASSUME NEW base, NEW S, NEW page \in Seq(S), Len(page) \in 0 .. 2
  PROVE  /\ Len(page) = 0 => PageTable(base, page) = base
         /\ Len(page) = 1 => PageTable(base, page) = I!WithFrame(base, page[1])
         /\ Len(page) = 2 => PageTable(base, page) = I!WithFrame(I!WithFrame(base, page[1]), page[2])
<1> DEFINE Step(s, g) == IF s = {} THEN base
                         ELSE I!WithFrame(g[s \ {I!Max(s)}], page[I!Max(s)])
           iter == CHOOSE g : g = [s \in SUBSET DOMAIN page |-> Step(s, g)]
<1>1. PageTable(base, page) = iter[DOMAIN page]
  BY DEF PageTable, I!FoldLeft, I!MapThenFoldSet
<1> DEFINE First == I!WithFrame(base, page[1])
           Second == I!WithFrame(First, page[2])
           D == DOMAIN page
           g == [s \in SUBSET D |->
                   CASE s = {} -> base
                     [] s = {1} -> First
                     [] s = {2} -> I!WithFrame(base, page[2])
                     [] OTHER -> Second]
<1>2. /\ I!Max({1}) = 1 /\ I!Max({2}) = 2 /\ I!Max({1, 2}) = 2
      /\ {1} \ {1} = {} /\ {2} \ {2} = {} /\ {1, 2} \ {2} = {1}
  BY DEF I!Max
<1>3. D = {} \/ D = {1} \/ D = {1, 2}
  OBVIOUS
<1>4. g = [s \in SUBSET D |-> Step(s, g)]
  <2> SUFFICES ASSUME NEW s \in SUBSET D PROVE g[s] = Step(s, g)
    OBVIOUS
  <2>1. s = {} \/ s = {1} \/ s = {2} \/ s = {1, 2}
    BY <1>3
  <2>2. {} \in SUBSET D /\ g[{}] = base
    OBVIOUS
  <2>3. CASE s = {}
    BY <2>2, <2>3
  <2>4. CASE s = {1}
    <3>1. g[s] = First
      BY <2>4
    <3> HIDE DEF g
    <3> QED BY <1>2, <2>2, <2>4, <3>1
  <2>5. CASE s = {2}
    <3>1. g[s] = I!WithFrame(base, page[2])
      BY <2>5
    <3> HIDE DEF g
    <3> QED BY <1>2, <2>2, <2>5, <3>1
  <2>6. CASE s = {1, 2}
    <3>1. {1} \in SUBSET D /\ g[{1}] = First
      BY <2>6
    <3>2. g[s] = Second
      <4>1. s # {} /\ s # {1} /\ s # {2}
        <5>1. 1 \in s /\ 2 \in s /\ 1 # 2
          BY <2>6
        <5> QED BY <5>1
      <4> HIDE DEF First, Second
      <4> QED BY <4>1
    <3>3. I!Max(s) = 2 /\ s \ {2} = {1} /\ s # {}
      BY <1>2, <2>6
    <3>4. Step(s, g) = I!WithFrame(g[{1}], page[2])
      <4> HIDE DEF g
      <4> QED BY <3>3
    <3> QED BY <3>1, <3>2, <3>4
  <2> QED BY <2>1, <2>3, <2>4, <2>5, <2>6
<1>5. iter = [s \in SUBSET D |-> Step(s, iter)]
  <2> HIDE DEF g, Step, First, Second
  <2> QED BY <1>4
<1>6. /\ D = {} => iter[D] = base
      /\ D = {1} => iter[D] = First
      /\ D = {1, 2} => iter[D] = Second
  <2> HIDE DEF iter, D, g
  <2>1. iter[{}] = base
    BY <1>5
  <2>2. {1} \subseteq D => iter[{1}] = First
    <3>1. {1} \subseteq D => iter[{1}] = Step({1}, iter)
      <4> HIDE DEF Step
      <4> QED BY <1>5
    <3>2. Step({1}, iter) = First
      BY <1>2, <2>1
    <3> QED BY <3>1, <3>2
  <2>3. {1, 2} \subseteq D => iter[{1, 2}] = I!WithFrame(iter[{1}], page[2])
    <3>1. {1, 2} \subseteq D => iter[{1, 2}] = Step({1, 2}, iter)
      <4> HIDE DEF Step
      <4> QED BY <1>5
    <3>2. Step({1, 2}, iter) = I!WithFrame(iter[{1}], page[2])
      BY <1>2
    <3> QED BY <3>1, <3>2
  <2> QED BY <2>1, <2>2, <2>3
<1>7. /\ Len(page) = 0 <=> D = {}
      /\ Len(page) = 1 <=> D = {1}
      /\ Len(page) = 2 <=> D = {1, 2}
  OBVIOUS
<1> HIDE DEF iter
<1> QED BY <1>1, <1>3, <1>6, <1>7

(* A table with a frame extends the one without, and has the frame.        *)
LEMMA FrameAdded ==
  ASSUME stacks \in I!Stacks \cup {I!NoStacks}, NEW table \in Seq(Live), NEW f \in Live
  PROVE  LET new == I!WithFrame(table, f) IN
         /\ new \in Seq(Live) /\ Len(table) <= Len(new)
         /\ \A i \in 1 .. Len(table) : new[i] = table[i]
         /\ \E i \in 1 .. Len(new) : new[i] = f
<1>1. CASE I!NumberOf(table, f) = 0
  BY <1>1 DEF I!WithFrame
<1>2. CASE I!NumberOf(table, f) # 0
  <2>1. /\ I!NumberOf(table, f) \in 1 .. Len(table)
        /\ I!SameFrame(f, table[I!NumberOf(table, f)])
    BY <1>2, NumberIs
  <2>2. f = table[I!NumberOf(table, f)]
    BY <2>1, LiveApart
  <2>3. I!WithFrame(table, f) = table
    BY <1>2 DEF I!WithFrame
  <2> QED BY <2>1, <2>2, <2>3
<1> QED BY <1>1, <1>2

(* A frame that is in the table has the number of its place. *)
LEMMA Numbered ==
  ASSUME stacks \in I!Stacks \cup {I!NoStacks}, NEW table \in Seq(Live), NEW f \in Live,
         \E i \in 1 .. Len(table) : table[i] = f
  PROVE  I!NumberOf(table, f) \in 1 .. Len(table) /\ table[I!NumberOf(table, f)] = f
<1>1. I!SameFrame(f, f)
  BY DEF I!SameFrame
<1>2. I!NumberOf(table, f) # 0
  BY <1>1, NumberIs
<1>3. /\ I!NumberOf(table, f) \in 1 .. Len(table)
      /\ I!SameFrame(f, table[I!NumberOf(table, f)])
  BY <1>2, NumberIs
<1> QED BY <1>3, LiveApart

(* So a page of a stack extends the table by its frames. *)
LEMMA PageAdded ==
  ASSUME stacks \in I!Stacks \cup {I!NoStacks}, NEW table \in Seq(Live),
         NEW page \in Seq(Live), Len(page) \in 0 .. 2
  PROVE  LET new == PageTable(table, page) IN
         /\ new \in Seq(Live) /\ Len(table) <= Len(new)
         /\ \A i \in 1 .. Len(table) : new[i] = table[i]
         /\ \A i \in 1 .. Len(page) :
              I!NumberOf(new, page[i]) \in 1 .. Len(new) /\ new[I!NumberOf(new, page[i])] = page[i]
<1> DEFINE new == PageTable(table, page)
           one == I!WithFrame(table, page[1])
           two == I!WithFrame(one, page[2])
<1>1. CASE Len(page) = 0
  <2>1. new = table
    BY <1>1, PageFolded
  <2> QED BY <1>1, <2>1
<1>2. CASE Len(page) = 1
  <2>1. new = one /\ page[1] \in Live
    BY <1>2, PageFolded
  <2>2. /\ one \in Seq(Live) /\ Len(table) <= Len(one)
        /\ \A i \in 1 .. Len(table) : one[i] = table[i]
        /\ \E i \in 1 .. Len(one) : one[i] = page[1]
    BY <2>1, FrameAdded
  <2>3. I!NumberOf(one, page[1]) \in 1 .. Len(one) /\ one[I!NumberOf(one, page[1])] = page[1]
    BY <2>1, <2>2, Numbered
  <2> HIDE DEF one
  <2> QED BY <1>2, <2>1, <2>2, <2>3
<1>3. CASE Len(page) = 2
  <2>1. new = two /\ page[1] \in Live /\ page[2] \in Live
    BY <1>3, PageFolded
  <2>2. /\ one \in Seq(Live) /\ Len(table) <= Len(one)
        /\ \A i \in 1 .. Len(table) : one[i] = table[i]
        /\ \E i \in 1 .. Len(one) : one[i] = page[1]
    BY <2>1, FrameAdded
  <2>3. /\ two \in Seq(Live) /\ Len(one) <= Len(two)
        /\ \A i \in 1 .. Len(one) : two[i] = one[i]
        /\ \E i \in 1 .. Len(two) : two[i] = page[2]
    <3> HIDE DEF one
    <3> QED BY <2>1, <2>2, FrameAdded
  <2> HIDE DEF one, two
  <2>4. \E i \in 1 .. Len(two) : two[i] = page[1]
    BY <2>2, <2>3
  <2>5. I!NumberOf(two, page[1]) \in 1 .. Len(two) /\ two[I!NumberOf(two, page[1])] = page[1]
    BY <2>1, <2>3, <2>4, Numbered
  <2>6. I!NumberOf(two, page[2]) \in 1 .. Len(two) /\ two[I!NumberOf(two, page[2])] = page[2]
    BY <2>1, <2>3, Numbered
  <2>7. /\ Len(table) <= Len(two)
        /\ \A i \in 1 .. Len(table) : two[i] = table[i]
    BY <2>2, <2>3
  <2>8. \A i \in 1 .. Len(page) : i = 1 \/ i = 2
    BY <1>3
  <2> QED BY <2>1, <2>3, <2>5, <2>6, <2>7, <2>8
<1> QED BY <1>1, <1>2, <1>3

-----------------------------------------------------------------------------
(* What the numbers given so far stand for.                                *)
FramesKept ==
  /\ stacks \in I!Stacks \cup {I!NoStacks}
  /\ frames \in Seq(Live)
  /\ shown \in [I!Threads -> Seq(Nat)] /\ whole \subseteq I!Threads
  /\ \A t \in I!Threads :
       /\ Len(shown[t]) <= Len(stacks[t])
       /\ \A i \in 1 .. Len(shown[t]) :
            shown[t][i] \in 1 .. Len(frames) /\ frames[shown[t][i]] = I!FrameAt(t, i)
       /\ t \in whole => stacks[t] # <<>> /\ Len(shown[t]) = Len(stacks[t])

(* Where a page ends. *)
LEMMA PageBounds ==
  ASSUME NEW first \in Nat, NEW count \in Nat, NEW n \in 0 .. 2, first <= n
  PROVE  LET last == IF first + count > n THEN n ELSE first + count
         IN  /\ last \in first .. n /\ last \in Nat /\ first \in Nat /\ last - first \in 0 .. 2
             /\ last - first < count => last = n
OBVIOUS

(* One sequence behind another. *)
LEMMA Chained ==
  ASSUME NEW S, NEW a \in Seq(S), NEW b \in Seq(S)
  PROVE  /\ a \o b \in Seq(S) /\ Len(a \o b) = Len(a) + Len(b)
         /\ \A i \in 1 .. Len(a) : (a \o b)[i] = a[i]
         /\ \A i \in 1 .. Len(b) : (a \o b)[Len(a) + i] = b[i]
OBVIOUS

(* The numbers of a page's frames *)
LEMMA PageNumbers ==
  ASSUME NEW S, NEW table, NEW page \in Seq(S),
         \A i \in 1 .. Len(page) :
           I!NumberOf(table, page[i]) \in 1 .. Len(table) /\ table[I!NumberOf(table, page[i])] = page[i],
         Len(table) \in Nat
  PROVE  LET numbers == [i \in DOMAIN page |-> I!NumberOf(table, page[i])]
         IN  /\ numbers \in Seq(Nat) /\ Len(numbers) = Len(page)
             /\ \A i \in 1 .. Len(page) : numbers[i] \in 1 .. Len(table) /\ table[numbers[i]] = page[i]
<1> DEFINE numbers == [i \in DOMAIN page |-> I!NumberOf(table, page[i])]
<1>1. DOMAIN page = 1 .. Len(page) /\ Len(page) \in Nat
  OBVIOUS
<1>2. DOMAIN numbers = 1 .. Len(page) /\ \A i \in 1 .. Len(page) : numbers[i] = I!NumberOf(table, page[i])
  BY <1>1
<1>3. numbers \in [1 .. Len(page) -> Nat]
  <2>1. \A i \in 1 .. Len(page) : I!NumberOf(table, page[i]) \in Nat
    OBVIOUS
  <2> QED BY <1>1, <2>1
<1> HIDE DEF numbers
<1>4. numbers \in Seq(Nat) /\ Len(numbers) = Len(page)
  BY <1>1, <1>3
<1> QED BY <1>2, <1>4 DEF numbers

(* A page behind the part of the stack before it *)
LEMMA PageJoined ==
  ASSUME NEW old \in Seq(Nat), NEW first \in 0 .. Len(old), NEW numbers \in Seq(Nat)
  PROVE  LET now == SubSeq(old, 1, first) \o numbers
         IN  /\ now \in Seq(Nat) /\ Len(now) = first + Len(numbers)
             /\ \A i \in 1 .. first : now[i] = old[i]
             /\ \A i \in 1 .. Len(numbers) : now[first + i] = numbers[i]
<1> DEFINE begin == SubSeq(old, 1, first)
<1>1. /\ begin \in Seq(Nat) /\ Len(begin) = first
      /\ \A i \in 1 .. first : begin[i] = old[i]
  OBVIOUS
<1> HIDE DEF begin
<1>2. begin \in Seq(Nat)
  BY <1>1
<1>3. /\ begin \o numbers \in Seq(Nat) /\ Len(begin \o numbers) = Len(begin) + Len(numbers)
      /\ \A i \in 1 .. Len(begin) : (begin \o numbers)[i] = begin[i]
      /\ \A i \in 1 .. Len(numbers) : (begin \o numbers)[Len(begin) + i] = numbers[i]
  BY <1>2, Chained
<1> DEFINE now == begin \o numbers
<1> HIDE DEF now
<1>4. /\ now \in Seq(Nat) /\ Len(now) = first + Len(numbers)
      /\ \A i \in 1 .. first : now[i] = old[i]
      /\ \A i \in 1 .. Len(numbers) : now[first + i] = numbers[i]
  BY <1>1, <1>3 DEF now
<1> QED BY <1>4 DEF now, begin

(* A page of a stack gives its frames numbers, and leaves the others theirs. *)
LEMMA FramesStep ==
  ASSUME FramesKept, NEW t \in I!Threads, NEW first \in 0 .. Len(shown[t]),
         NEW count \in {1, MaxPage}, I!StackTrace(t, first, count), MaxPage \in Nat
  PROVE  /\ FramesKept'
         /\ Len(frames) <= Len(frames') /\ \A i \in 1 .. Len(frames) : frames'[i] = frames[i]
<1> DEFINE last == IF first + count > Len(stacks[t]) THEN Len(stacks[t]) ELSE first + count
           page == [i \in 1 .. (last - first) |-> I!FrameAt(t, first + i)]
           table == PageTable(frames, page)
           numbers == [i \in DOMAIN page |-> I!NumberOf(table, page[i])]
<1>1. /\ Len(stacks[t]) \in 0 .. 2 /\ Len(shown[t]) <= Len(stacks[t])
      /\ shown[t] \in Seq(Nat) /\ Len(shown[t]) \in Nat
      /\ DOMAIN stacks[t] = 1 .. Len(stacks[t])
  BY StacksAre DEF FramesKept
<1>2. last \in first .. Len(stacks[t]) /\ last \in Nat /\ first \in Nat /\ last - first \in 0 .. 2
  <2>1. count \in Nat /\ first \in Nat
    BY <1>1
  <2>2. first <= Len(stacks[t]) /\ Len(stacks[t]) \in 0 .. 2
    BY <1>1
  <2> QED BY <2>1, <2>2, PageBounds
<1> HIDE DEF last
<1>3. page \in Seq(Live) /\ Len(page) = last - first /\ Len(page) \in 0 .. 2
  <2>1. \A i \in 1 .. (last - first) : I!FrameAt(t, first + i) \in Live
    <3> SUFFICES ASSUME NEW i \in 1 .. (last - first) PROVE I!FrameAt(t, first + i) \in Live
      OBVIOUS
    <3>1. first + i \in DOMAIN stacks[t]
      BY <1>1, <1>2
    <3> QED BY <3>1 DEF Live
  <2>2. page \in [1 .. (last - first) -> Live]
    BY <2>1
  <2>3. last - first \in Nat
    BY <1>2
  <2> HIDE DEF page
  <2> QED BY <1>2, <2>2, <2>3
<1>4. /\ stacks[t] # <<>> /\ stacks' = stacks /\ epoch' = epoch /\ Live' = Live /\ frames' = table
      /\ shown' = [shown EXCEPT ![t] = SubSeq(shown[t], 1, first) \o numbers]
      /\ whole' = IF Len(page) < count THEN whole \cup {t} ELSE whole \ {t}
  BY DEF I!StackTrace, PageTable, Live, I!FrameAt, last
<1>5. /\ table \in Seq(Live) /\ Len(frames) <= Len(table)
      /\ \A i \in 1 .. Len(frames) : table[i] = frames[i]
      /\ \A i \in 1 .. Len(page) :
           I!NumberOf(table, page[i]) \in 1 .. Len(table) /\ table[I!NumberOf(table, page[i])] = page[i]
  <2> HIDE DEF page
  <2> QED BY <1>3, PageAdded DEF FramesKept
<1> HIDE DEF table
<1>6. /\ numbers \in Seq(Nat) /\ Len(numbers) = last - first
      /\ \A i \in 1 .. (last - first) : numbers[i] \in 1 .. Len(table) /\ table[numbers[i]] = I!FrameAt(t, first + i)
  <2>1. \A i \in 1 .. (last - first) : page[i] = I!FrameAt(t, first + i)
    OBVIOUS
  <2> HIDE DEF page
  <2>2. Len(table) \in Nat
    BY <1>5
  <2>3. /\ numbers \in Seq(Nat) /\ Len(numbers) = Len(page)
        /\ \A i \in 1 .. Len(page) : numbers[i] \in 1 .. Len(table) /\ table[numbers[i]] = page[i]
    BY <1>3, <1>5, <2>2, PageNumbers
  <2> HIDE DEF numbers
  <2> QED BY <1>3, <2>1, <2>3
<1> HIDE DEF numbers
<1> DEFINE now == SubSeq(shown[t], 1, first) \o numbers
<1>7. /\ now \in Seq(Nat) /\ Len(now) = last
      /\ \A i \in 1 .. first : now[i] = shown[t][i]
      /\ \A i \in 1 .. (last - first) : now[first + i] = numbers[i]
  <2>1. numbers \in Seq(Nat) /\ Len(numbers) = last - first
    BY <1>6
  <2>2. /\ now \in Seq(Nat) /\ Len(now) = first + Len(numbers)
        /\ \A i \in 1 .. first : now[i] = shown[t][i]
        /\ \A i \in 1 .. Len(numbers) : now[first + i] = numbers[i]
    BY <1>1, <2>1, PageJoined
  <2> HIDE DEF now
  <2>3. first + Len(numbers) = last
    BY <1>2, <2>1
  <2> QED BY <2>1, <2>2, <2>3
<1>8. \A i \in 1 .. last : now[i] \in 1 .. Len(table) /\ table[now[i]] = I!FrameAt(t, i)
  <2> SUFFICES ASSUME NEW i \in 1 .. last PROVE now[i] \in 1 .. Len(table) /\ table[now[i]] = I!FrameAt(t, i)
    OBVIOUS
  <2>1. CASE i <= first
    <3>1. /\ i \in 1 .. Len(shown[t]) /\ now[i] = shown[t][i]
      BY <1>1, <1>7, <2>1
    <3>2. shown[t][i] \in 1 .. Len(frames) /\ frames[shown[t][i]] = I!FrameAt(t, i)
      BY <3>1 DEF FramesKept
    <3> HIDE DEF now
    <3> QED BY <1>5, <3>1, <3>2
  <2>2. CASE i > first
    <3>1. i - first \in 1 .. (last - first) /\ first + (i - first) = i
      BY <1>2, <2>2
    <3>2. PICK j \in 1 .. (last - first) : first + j = i
      BY <3>1
    <3> HIDE DEF now, last
    <3>3. now[first + j] = numbers[j]
      BY <1>7
    <3>4. numbers[j] \in 1 .. Len(table) /\ table[numbers[j]] = I!FrameAt(t, first + j)
      BY <1>6
    <3> QED BY <3>2, <3>3, <3>4
  <2> HIDE DEF now
  <2> QED BY <1>2, <2>1, <2>2
<1>9. Len(page) < count => last = Len(stacks[t])
  BY <1>1, <1>3 DEF last
<1> HIDE DEF now, page
<1>10. shown' \in [I!Threads -> Seq(Nat)] /\ shown'[t] = now
       /\ \A u \in I!Threads \ {t} : shown'[u] = shown[u]
  BY <1>4, <1>7 DEF FramesKept, now
<1>11. ASSUME NEW u \in I!Threads
       PROVE  /\ Len(shown'[u]) <= Len(stacks[u])
              /\ \A i \in 1 .. Len(shown'[u]) :
                   shown'[u][i] \in 1 .. Len(table) /\ table[shown'[u][i]] = I!FrameAt(u, i)
              /\ u \in whole' => stacks[u] # <<>> /\ Len(shown'[u]) = Len(stacks[u])
  <2>1. CASE u = t
    <3>1. shown'[u] = now /\ Len(now) = last
      BY <1>7, <1>10, <2>1
    <3>2. u \in whole' => last = Len(stacks[u])
      BY <1>4, <1>9, <2>1
    <3> QED BY <1>2, <1>4, <1>8, <2>1, <3>1, <3>2
  <2>2. CASE u # t
    <3>1. shown'[u] = shown[u] /\ (u \in whole' => u \in whole)
      BY <1>4, <1>10, <2>2
    <3>2. /\ Len(shown[u]) <= Len(stacks[u])
          /\ u \in whole => stacks[u] # <<>> /\ Len(shown[u]) = Len(stacks[u])
      BY DEF FramesKept
    <3>3. \A i \in 1 .. Len(shown[u]) :
            shown[u][i] \in 1 .. Len(frames) /\ frames[shown[u][i]] = I!FrameAt(u, i)
      BY DEF FramesKept
    <3>4. \A n \in 1 .. Len(frames) : n \in 1 .. Len(table) /\ table[n] = frames[n]
      <4>1. Len(frames) \in Nat /\ Len(table) \in Nat
        BY <1>5 DEF FramesKept
      <4> QED BY <1>5, <4>1
    <3>5. \A i \in 1 .. Len(shown[u]) : shown[u][i] \in 1 .. Len(table) /\ table[shown[u][i]] = I!FrameAt(u, i)
      BY <3>3, <3>4
    <3> QED BY <3>1, <3>2, <3>5
  <2> QED BY <2>1, <2>2
<1>12. \A u \in I!Threads : \A i : I!FrameAt(u, i)' = I!FrameAt(u, i)
  BY <1>4 DEF I!FrameAt
<1>13. whole' \subseteq I!Threads /\ stacks' \in I!Stacks \cup {I!NoStacks}
  BY <1>4 DEF FramesKept
<1>14. ASSUME NEW u \in I!Threads
       PROVE  /\ Len(shown'[u]) <= Len(stacks'[u])
              /\ \A i \in 1 .. Len(shown'[u]) :
                   shown'[u][i] \in 1 .. Len(frames') /\ frames'[shown'[u][i]] = I!FrameAt(u, i)'
              /\ u \in whole' => stacks'[u] # <<>> /\ Len(shown'[u]) = Len(stacks'[u])
  BY <1>4, <1>11, <1>12
<1>15. frames' \in Seq(Live)' /\ shown' \in [I!Threads -> Seq(Nat)]
  BY <1>4, <1>5, <1>10
<1>16. FramesKept'
  BY <1>13, <1>14, <1>15 DEF FramesKept
<1> QED BY <1>4, <1>5, <1>16

-----------------------------------------------------------------------------
(* Paths from a scope to a value                                           *)
Locals == <<"locals">>
Registers == <<"registers">>
Record == <<"locals", "record">>
Group == <<"registers", "group">>
Vector == <<"registers", "group", "vector">>
Expression == <<"expression">>
RecordMember == <<"locals", "record", "member">>
ExpressionMember == <<"expression", "member">>

\* The paths of the scopes, of the values with an address of their own, and of
\* those with a place in the value they are part of.
ScopePaths == {Locals, Registers}
Owners == {Record, Group, Vector, Expression}
Members == {RecordMember, ExpressionMember}
Paths == ScopePaths \cup Owners \cup Members

LEMMA PathsApart ==
  /\ ScopePaths \cap Owners = {} /\ ScopePaths \cap Members = {} /\ Owners \cap Members = {}
BY DEF ScopePaths, Owners, Members, Locals, Registers, Record, Group, Vector, Expression, RecordMember, ExpressionMember

LEMMA PartsAre ==
  /\ I!Parts(Locals) = <<"record">> /\ I!Parts(Registers) = <<"group">>
  /\ I!Parts(Group) = <<"vector">>
  /\ I!Parts(Record) = <<"member">> /\ I!Parts(Expression) = <<"member">>
  /\ \A p \in Members \cup {Vector} : I!Parts(p) = <<>>
BY DEF I!Parts, I!Last, Members, Locals, Registers, Record, Group, Vector, Expression, RecordMember, ExpressionMember

LEMMA LastsAre ==
  /\ I!Last(Group) = "group"
  /\ \A p \in Paths \ {Group} : I!Last(p) # "group"
<1>1. /\ I!Last(Group) = "group" /\ I!Last(Locals) = "locals" /\ I!Last(Registers) = "registers"
      /\ I!Last(Record) = "record" /\ I!Last(Vector) = "vector" /\ I!Last(Expression) = "expression"
  BY DEF I!Last, Locals, Registers, Record, Group, Vector, Expression
<1>2. I!Last(RecordMember) = "member" /\ I!Last(ExpressionMember) = "member"
  BY DEF I!Last, RecordMember, ExpressionMember
<1> QED BY <1>1, <1>2 DEF Paths, ScopePaths, Owners, Members

(* A short path continued *)
LEMMA Continued ==
  ASSUME NEW a, NEW b, NEW c
  PROVE  <<a>> \o <<b>> = <<a, b>> /\ <<a, b>> \o <<c>> = <<a, b, c>>
<1> DEFINE S == {a, b, c}
           x == <<a>> \o <<b>>
           y == <<a, b>>
           v == <<a, b>> \o <<c>>
           w == <<a, b, c>>
<1>1. /\ x \in Seq(S) /\ y \in Seq(S) /\ Len(x) = 2 /\ Len(y) = 2
      /\ x[1] = y[1] /\ x[2] = y[2]
  OBVIOUS
<1>2. /\ v \in Seq(S) /\ w \in Seq(S) /\ Len(v) = 3 /\ Len(w) = 3
      /\ v[1] = w[1] /\ v[2] = w[2] /\ v[3] = w[3]
  OBVIOUS
<1> HIDE DEF S, x, y, v, w
<1>3. /\ \A i \in 1 .. Len(x) : x[i] = y[i]
      /\ \A i \in 1 .. Len(v) : v[i] = w[i]
  BY <1>1, <1>2
<1>4. x = y /\ v = w
  BY <1>1, <1>2, <1>3, Extensional
<1> QED BY <1>4 DEF x, y, v, w

LEMMA PathsJoined ==
  /\ Locals \o <<"record">> = Record
  /\ Registers \o <<"group">> = Group
  /\ Group \o <<"vector">> = Vector
  /\ Record \o <<"member">> = RecordMember
  /\ Expression \o <<"member">> = ExpressionMember
BY Continued DEF Locals, Registers, Record, Group, Vector, Expression, RecordMember, ExpressionMember

-----------------------------------------------------------------------------
(* The references: a scope has no address, an owner one of its own, and a    *)
(* member the one of its owner, which is in the table, too.                  *)
Refs == [frame : Live, path : Paths, address : Nat]
Kind(T, i) ==
  /\ T[i].path \in ScopePaths => T[i].address = 0
  /\ T[i].path \in Owners => T[i].address \in 1 .. MaxValues
  /\ T[i].path \in Members =>
       \E j \in 1 .. Len(T) :
         /\ T[j].path \in {Record, Expression} /\ T[i].path = T[j].path \o <<"member">>
         /\ T[j].frame = T[i].frame /\ T[i].address = T[j].address + MaxValues
Unshared(T) ==
  \A i, j \in 1 .. Len(T) : T[i].address = T[j].address /\ T[i].address # 0 => i = j
TableSound(T) ==
  T \in Seq(Refs) /\ Unshared(T) /\ \A i \in 1 .. Len(T) : Kind(T, i)

(* What a new reference may be. *)
New(T, r) ==
  /\ r \in Refs
  /\ r.path \in ScopePaths => r.address = 0
  /\ r.path \in Owners =>
       r.address \in 1 .. MaxValues /\ \A i \in 1 .. Len(T) : T[i].address # r.address
  /\ r.path \in Members =>
       \E j \in 1 .. Len(T) :
         /\ T[j].path \in {Record, Expression} /\ r.path = T[j].path \o <<"member">>
         /\ T[j].frame = r.frame /\ r.address = T[j].address + MaxValues

(* The reference of r, or none. *)
LEMMA RefIs ==
  ASSUME NEW S, NEW table \in Seq(S), NEW r
  PROVE  /\ I!RefOf(table, r) \in 0 .. Len(table)
         /\ I!RefOf(table, r) # 0 => I!Matches(table[I!RefOf(table, r)], r)
         /\ I!RefOf(table, r) = 0 => \A i \in 1 .. Len(table) : ~I!Matches(table[i], r)
<1> DEFINE Passing == {i \in 1 .. Len(table) : I!Matches(table[i], r)}
<1>0. I!RefOf(table, r) = IF Passing # {} THEN I!Min(Passing) ELSE 0
  BY DEF I!RefOf, I!SelectInSeq
<1>1. CASE Passing = {}
  BY <1>0, <1>1
<1>2. CASE Passing # {}
  <2>1. I!Min(Passing) \in Passing
    <3>0. Passing \in SUBSET Nat
      OBVIOUS
    <3>1. \E n \in Passing : \A m \in Passing : n <= m
      <4> HIDE DEF Passing
      <4> QED BY <1>2, <3>0, LeastPlace
    <3> QED BY <3>1 DEF I!Min
  <2> QED BY <1>0, <1>2, <2>1
<1> QED BY <1>1, <1>2

(* What matches a new reference is for the same value of the same frame. *)
LEMMA MatchSame ==
  ASSUME stacks \in I!Stacks \cup {I!NoStacks}, MaxValues \in Nat, NEW T, TableSound(T), NEW r, New(T, r),
         NEW i \in 1 .. Len(T), I!Matches(T[i], r)
  PROVE  T[i].frame = r.frame /\ T[i].path = r.path
<1>0. T[i] \in Refs /\ r \in Refs /\ Kind(T, i)
  BY DEF TableSound, New
<1>1. CASE r.address = 0
  <2>1. T[i].path = r.path /\ I!SameFrame(T[i].frame, r.frame)
    BY <1>1 DEF I!Matches, I!NoAddress
  <2>2. T[i].frame \in Live /\ r.frame \in Live
    BY <1>0 DEF Refs
  <2> QED BY <2>1, <2>2, LiveApart
<1>2. CASE r.address # 0
  <2>1. T[i].address = r.address
    BY <1>2 DEF I!Matches, I!NoAddress
  <2>2. r.path \in Members /\ T[i].path \in Members
    <3>1. r.path \in Paths /\ T[i].path \in Paths
      BY <1>0 DEF Refs
    <3>2. r.path \notin ScopePaths /\ r.path \notin Owners
      BY <1>2, <2>1 DEF New
    <3>3. r.path \in Members
      BY <3>1, <3>2 DEF Paths
    <3>4. PICK j \in 1 .. Len(T) :
             T[j].path \in {Record, Expression} /\ r.address = T[j].address + MaxValues
      BY <3>3 DEF New
    <3>5. T[j].address \in 1 .. MaxValues
      <4>1. T[j].path \in Owners
        BY <3>4 DEF Owners
      <4> QED BY <4>1 DEF TableSound, Kind
    <3>6. T[i].path \notin Owners /\ T[i].path \notin ScopePaths
      BY <1>0, <1>2, <2>1, <3>4, <3>5 DEF Kind
    <3> QED BY <3>1, <3>3, <3>6 DEF Paths
  <2>3. PICK j \in 1 .. Len(T) :
         /\ T[j].path \in {Record, Expression} /\ r.path = T[j].path \o <<"member">>
         /\ T[j].frame = r.frame /\ r.address = T[j].address + MaxValues
    BY <2>2 DEF New
  <2>4. PICK k \in 1 .. Len(T) :
         /\ T[k].path \in {Record, Expression} /\ T[i].path = T[k].path \o <<"member">>
         /\ T[k].frame = T[i].frame /\ T[i].address = T[k].address + MaxValues
    BY <1>0, <2>2 DEF Kind
  <2>5. T[j].address = T[k].address /\ T[j].address # 0
    <3>1. T[j] \in Refs /\ T[k] \in Refs /\ Kind(T, j)
      BY DEF TableSound
    <3>2. T[j].address \in Nat /\ T[k].address \in Nat
      BY <3>1 DEF Refs
    <3>3. T[j].path \in Owners
      BY <2>3 DEF Owners
    <3>4. T[j].address \in 1 .. MaxValues
      BY <3>1, <3>3 DEF Kind
    <3>5. T[j].address + MaxValues = T[k].address + MaxValues
      BY <2>1, <2>3, <2>4
    <3> QED BY <3>2, <3>4, <3>5
  <2>6. j = k
    BY <2>5 DEF TableSound, Unshared
  <2> QED BY <2>3, <2>4, <2>6
<1> QED BY <1>1, <1>2

(* A table with a new reference keeps the others, and leads to it. *)
LEMMA RefAdded ==
  ASSUME stacks \in I!Stacks \cup {I!NoStacks}, MaxValues \in Nat, NEW T, TableSound(T), NEW r, New(T, r)
  PROVE  LET new == I!WithRef(T, r) IN
         /\ TableSound(new) /\ Len(T) <= Len(new)
         /\ \A i \in 1 .. Len(T) : new[i] = T[i]
         /\ I!RefOf(new, r) \in 1 .. Len(new)
         /\ new[I!RefOf(new, r)].frame = r.frame /\ new[I!RefOf(new, r)].path = r.path
         /\ \A i \in 1 .. Len(new) : i > Len(T) => new[i] = r
<1>0. T \in Seq(Refs) /\ r \in Refs /\ Len(T) \in Nat
  BY DEF TableSound, New
<1>1. CASE I!RefOf(T, r) # 0
  <2>1. I!WithRef(T, r) = T
    BY <1>1 DEF I!WithRef
  <2>2. I!RefOf(T, r) \in 1 .. Len(T) /\ I!Matches(T[I!RefOf(T, r)], r)
    BY <1>0, <1>1, RefIs
  <2> QED BY <1>0, <2>1, <2>2, MatchSame
<1>2. CASE I!RefOf(T, r) = 0
  <2> DEFINE new == Append(T, r)
  <2>1. I!WithRef(T, r) = new
    BY <1>2 DEF I!WithRef
  <2>2. /\ new \in Seq(Refs) /\ Len(new) = Len(T) + 1 /\ new[Len(T) + 1] = r
        /\ \A i \in 1 .. Len(T) : new[i] = T[i]
    BY <1>0
  <2> HIDE DEF new
  <2>3. \A i \in 1 .. Len(T) : ~I!Matches(T[i], r)
    BY <1>0, <1>2, RefIs
  <2>4. I!Matches(r, r)
    <3>1. I!SameFrame(r.frame, r.frame)
      BY DEF I!SameFrame
    <3> QED BY <3>1 DEF I!Matches, I!NoAddress
  <2>5. I!RefOf(new, r) \in 1 .. Len(new) /\ I!Matches(new[I!RefOf(new, r)], r)
    <3>1. Len(T) + 1 \in 1 .. Len(new) /\ I!Matches(new[Len(T) + 1], r)
      BY <1>0, <2>2, <2>4
    <3>2. I!RefOf(new, r) # 0
      BY <2>2, <3>1, RefIs
    <3> QED BY <2>2, <3>2, RefIs
  <2>6. new[I!RefOf(new, r)] = r
    BY <1>0, <2>2, <2>3, <2>5
  <2>7. \A i \in 1 .. Len(new) : i \in 1 .. Len(T) \/ i = Len(T) + 1
    BY <1>0, <2>2
  <2>8. Unshared(new)
    <3> SUFFICES ASSUME NEW i \in 1 .. Len(T), new[i].address = r.address, r.address # 0 PROVE FALSE
      <4>1. Unshared(T)
        BY DEF TableSound
      <4> QED BY <2>2, <2>7, <4>1 DEF Unshared
    <3>1. T[i].address = r.address
      BY <2>2
    <3>2. I!Matches(T[i], r)
      BY <3>1 DEF I!Matches, I!NoAddress
    <3> QED BY <2>3, <3>2
  <2>9. ASSUME NEW i \in 1 .. Len(new) PROVE Kind(new, i)
    <3>0. \A j \in 1 .. Len(T) : j \in 1 .. Len(new)
      BY <1>0, <2>2
    <3>1. CASE i \in 1 .. Len(T)
      <4>1. Kind(T, i) /\ new[i] = T[i]
        BY <2>2, <3>1 DEF TableSound
      <4> QED BY <2>2, <3>0, <4>1 DEF Kind
    <3>2. CASE i = Len(T) + 1
      <4>1. new[i] = r
        BY <2>2, <3>2
      <4>2. /\ r.path \in ScopePaths => r.address = 0
            /\ r.path \in Owners => r.address \in 1 .. MaxValues
        BY DEF New
      <4>3. r.path \in Members =>
              \E j \in 1 .. Len(new) :
                /\ new[j].path \in {Record, Expression} /\ r.path = new[j].path \o <<"member">>
                /\ new[j].frame = r.frame /\ r.address = new[j].address + MaxValues
        BY <2>2, <3>0 DEF New
      <4> QED BY <4>1, <4>2, <4>3 DEF Kind
    <3> QED BY <2>7, <3>1, <3>2
  <2>10. TableSound(new)
    BY <2>2, <2>8, <2>9 DEF TableSound
  <2> QED BY <1>0, <2>1, <2>2, <2>5, <2>6, <2>7, <2>10
<1> QED BY <1>1, <1>2

(* An address nobody uses *)
LEMMA FreshIs ==
  ASSUME MaxValues \in Nat, NEW T \in Seq(Refs), \E a \in 1 .. MaxValues : ~I!InUse(T, a)
  PROVE  I!Fresh(T) \in 1 .. MaxValues /\ \A i \in 1 .. Len(T) : T[i].address # I!Fresh(T)
<1> DEFINE Unused == {a \in 1 .. MaxValues : ~I!InUse(T, a)}
<1>1. Unused \in SUBSET Nat /\ Unused # {}
  OBVIOUS
<1>2. PICK a \in Unused : \A b \in Unused : a <= b
  <2> HIDE DEF Unused
  <2> QED BY <1>1, LeastPlace
<1>3. a \in 1 .. MaxValues /\ ~I!InUse(T, a) /\ \A b \in 1 .. (a - 1) : I!InUse(T, b)
  <2>1. a \in 1 .. MaxValues /\ ~I!InUse(T, a)
    OBVIOUS
  <2>2. ASSUME NEW b \in 1 .. (a - 1), ~I!InUse(T, b) PROVE FALSE
    <3>1. b \in 1 .. MaxValues /\ b < a
      BY <2>1
    <3>2. b \in Unused
      BY <2>2, <3>1
    <3> QED BY <1>2, <2>1, <3>1, <3>2
  <2> QED BY <2>1, <2>2
<1>4. I!Fresh(T) \in 1 .. MaxValues /\ ~I!InUse(T, I!Fresh(T))
  BY <1>3 DEF I!Fresh
<1> QED BY <1>4 DEF I!InUse

-----------------------------------------------------------------------------
RefsKept ==
  /\ TableSound(varRefs)
  /\ \A h \in held :
       h.id \in 1 .. Len(varRefs) /\ varRefs[h.id].frame = h.frame /\ varRefs[h.id].path = h.path

(* A reference that is handed out with the table it leads into *)
LEMMA HandedOut ==
  ASSUME stacks \in I!Stacks \cup {I!NoStacks}, MaxValues \in Nat, RefsKept, NEW r, New(varRefs, r),
         UNCHANGED <<stacks, epoch>>, varRefs' = I!WithRef(varRefs, r),
         held' = held \cup {I!Held(I!RefOf(varRefs', r), r.frame, r.path)}
  PROVE  RefsKept'
<1>1. /\ TableSound(varRefs') /\ Len(varRefs) <= Len(varRefs')
      /\ \A i \in 1 .. Len(varRefs) : varRefs'[i] = varRefs[i]
      /\ I!RefOf(varRefs', r) \in 1 .. Len(varRefs')
      /\ varRefs'[I!RefOf(varRefs', r)].frame = r.frame /\ varRefs'[I!RefOf(varRefs', r)].path = r.path
  BY RefAdded DEF RefsKept
<1>2. TableSound(varRefs)'
  <2>1. Live' = Live
    BY DEF Live, I!FrameAt
  <2>2. Refs' = Refs
    BY <2>1 DEF Refs
  <2> QED BY <1>1, <2>2 DEF TableSound, Unshared, Kind
<1>3. Len(varRefs) \in Nat /\ Len(varRefs') \in Nat
  BY <1>1 DEF RefsKept, TableSound
<1>4. ASSUME NEW h \in held'
      PROVE  h.id \in 1 .. Len(varRefs') /\ varRefs'[h.id].frame = h.frame /\ varRefs'[h.id].path = h.path
  <2>1. CASE h \in held
    BY <1>1, <1>3, <2>1 DEF RefsKept
  <2>2. CASE h = I!Held(I!RefOf(varRefs', r), r.frame, r.path)
    BY <1>1, <2>2 DEF I!Held
  <2> QED BY <2>1, <2>2
<1> QED BY <1>2, <1>4 DEF RefsKept

LEMMA ScopesStep ==
  ASSUME FramesKept, RefsKept, MaxValues \in Nat, NEW t \in I!Threads, NEW i \in 1 .. Len(shown[t]),
         I!Scopes(t, i)
  PROVE  RefsKept'
<1> DEFINE f == I!FrameAt(t, i)
           one == [frame |-> f, path |-> Locals, address |-> 0]
           two == [frame |-> f, path |-> Registers, address |-> 0]
           first == I!WithRef(varRefs, one)
           table == I!WithRef(first, two)
<1>1. /\ stacks \in I!Stacks \cup {I!NoStacks} /\ frames[shown[t][i]] = f /\ f \in Live
      /\ TableSound(varRefs)
  <2>1. frames[shown[t][i]] = f /\ shown[t][i] \in 1 .. Len(frames) /\ frames \in Seq(Live)
    BY DEF FramesKept
  <2>2. f \in Live
    BY <2>1
  <2> QED BY <2>1, <2>2 DEF FramesKept, RefsKept
<1>2. /\ varRefs' = table /\ UNCHANGED <<stacks, epoch>>
      /\ held' = held \cup {I!Held(I!RefOf(table, one), f, Locals), I!Held(I!RefOf(table, two), f, Registers)}
  BY <1>1 DEF I!Scopes, I!NoAddress, Locals, Registers
<1> HIDE DEF f
<1>3. \A T : New(T, one) /\ New(T, two)
  <2>1. /\ Locals \in ScopePaths /\ Registers \in ScopePaths
        /\ Locals \in Paths /\ Registers \in Paths
    BY DEF ScopePaths, Paths
  <2>2. /\ Locals \notin Owners /\ Registers \notin Owners
        /\ Locals \notin Members /\ Registers \notin Members
    BY <2>1, PathsApart
  <2>3. one \in Refs /\ two \in Refs
    BY <1>1, <2>1 DEF Refs
  <2> QED BY <2>2, <2>3 DEF New
<1> DEFINE p == one.path
           q == two.path
<1>4. one.frame = f /\ two.frame = f /\ one.path = Locals /\ two.path = Registers /\ one.address = 0
  OBVIOUS
<1> HIDE DEF one, two
<1>5. /\ TableSound(first) /\ Len(varRefs) <= Len(first)
      /\ \A k \in 1 .. Len(varRefs) : first[k] = varRefs[k]
      /\ I!RefOf(first, one) \in 1 .. Len(first)
  BY <1>1, <1>3, RefAdded
<1> HIDE DEF first
<1>6. /\ TableSound(table) /\ Len(first) <= Len(table)
      /\ \A k \in 1 .. Len(first) : table[k] = first[k]
      /\ I!RefOf(table, two) \in 1 .. Len(table)
      /\ table[I!RefOf(table, two)].frame = f /\ table[I!RefOf(table, two)].path = Registers
  BY <1>1, <1>3, <1>4, <1>5, RefAdded
<1> HIDE DEF table
<1>7. first \in Seq(Refs) /\ table \in Seq(Refs) /\ Len(first) \in Nat /\ Len(table) \in Nat
      /\ Len(varRefs) \in Nat
  BY <1>1, <1>5, <1>6 DEF TableSound
<1>8. /\ I!RefOf(table, one) \in 1 .. Len(table)
      /\ table[I!RefOf(table, one)].frame = f /\ table[I!RefOf(table, one)].path = Locals
  <2>1. I!Matches(first[I!RefOf(first, one)], one)
    <3>1. I!RefOf(first, one) # 0
      BY <1>5
    <3> QED BY <1>7, <3>1, RefIs
  <2>2. I!RefOf(first, one) \in 1 .. Len(table) /\ I!Matches(table[I!RefOf(first, one)], one)
    BY <1>5, <1>6, <1>7, <2>1
  <2>3. I!RefOf(table, one) # 0
    BY <1>7, <2>2, RefIs
  <2>4. I!RefOf(table, one) \in 1 .. Len(table) /\ I!Matches(table[I!RefOf(table, one)], one)
    BY <1>7, <2>3, RefIs
  <2> QED BY <1>1, <1>3, <1>4, <1>6, <2>4, MatchSame
<1>9. TableSound(varRefs)'
  <2>1. Live' = Live
    BY <1>2 DEF Live, I!FrameAt
  <2>2. Refs' = Refs
    BY <2>1 DEF Refs
  <2> QED BY <1>2, <1>6, <2>2 DEF TableSound, Unshared, Kind
<1>10. ASSUME NEW h \in held'
       PROVE  h.id \in 1 .. Len(table) /\ table[h.id].frame = h.frame /\ table[h.id].path = h.path
  <2>1. CASE h \in held
    <3>1. h.id \in 1 .. Len(varRefs) /\ varRefs[h.id].frame = h.frame /\ varRefs[h.id].path = h.path
      BY <2>1 DEF RefsKept
    <3> QED BY <1>5, <1>6, <1>7, <3>1
  <2>2. CASE h = I!Held(I!RefOf(table, one), f, Locals)
    BY <1>8, <2>2 DEF I!Held
  <2>3. CASE h = I!Held(I!RefOf(table, two), f, Registers)
    BY <1>6, <2>3 DEF I!Held
  <2> QED BY <1>2, <2>1, <2>2, <2>3
<1> QED BY <1>2, <1>9, <1>10 DEF RefsKept

LEMMA EvaluateStep ==
  ASSUME FramesKept, RefsKept, MaxValues \in Nat, NEW t \in I!Threads, NEW i \in 1 .. Len(shown[t]),
         I!Evaluate(t, i)
  PROVE  RefsKept'
<1> DEFINE r == [frame |-> I!FrameAt(t, i), path |-> Expression, address |-> I!Fresh(varRefs)]
<1>1. /\ stacks \in I!Stacks \cup {I!NoStacks} /\ frames[shown[t][i]] = I!FrameAt(t, i)
      /\ I!FrameAt(t, i) \in Live /\ varRefs \in Seq(Refs)
  <2>1. /\ frames[shown[t][i]] = I!FrameAt(t, i)
        /\ shown[t][i] \in 1 .. Len(frames) /\ frames \in Seq(Live)
    BY DEF FramesKept
  <2>2. I!FrameAt(t, i) \in Live
    BY <2>1
  <2> QED BY <2>1, <2>2 DEF FramesKept, RefsKept, TableSound
<1>2. /\ varRefs' = I!WithRef(varRefs, r) /\ UNCHANGED <<stacks, epoch>>
      /\ held' = held \cup {I!Held(I!RefOf(varRefs', r), r.frame, r.path)}
  BY <1>1 DEF I!Evaluate, Expression
<1>3. I!Fresh(varRefs) \in 1 .. MaxValues /\ \A j \in 1 .. Len(varRefs) : varRefs[j].address # I!Fresh(varRefs)
  BY <1>1, FreshIs DEF I!Evaluate, I!Room
<1>4. New(varRefs, r)
  <2>1. Expression \in Owners /\ Expression \in Paths
    BY DEF Owners, Paths
  <2>2. Expression \notin ScopePaths /\ Expression \notin Members
    BY <2>1, PathsApart
  <2>3. r \in Refs
    BY <1>1, <1>3, <2>1 DEF Refs
  <2> QED BY <1>3, <2>2, <2>3 DEF New
<1> HIDE DEF r
<1> QED BY <1>1, <1>2, <1>4, HandedOut

(* A value has its parts in their place, or each time one of its own. *)
LEMMA VariablesStep ==
  ASSUME FramesKept, RefsKept, MaxValues \in Nat, NEW h \in held, I!Variables(h)
  PROVE  RefsKept'
<1> DEFINE r == varRefs[h.id]
           part1 == [frame |-> r.frame, path |-> r.path \o I!Parts(r.path),
                     address |-> IF I!Anew(r) THEN I!Fresh(varRefs) ELSE r.address + MaxValues]
<1>1. /\ stacks \in I!Stacks \cup {I!NoStacks} /\ TableSound(varRefs) /\ varRefs \in Seq(Refs)
      /\ h.id \in 1 .. Len(varRefs) /\ r.frame = h.frame /\ r.path = h.path /\ r \in Refs
      /\ Kind(varRefs, h.id)
  BY DEF FramesKept, RefsKept, TableSound
<1>2. /\ varRefs' = I!WithRef(varRefs, part1) /\ UNCHANGED <<stacks, epoch>>
      /\ held' = held \cup {I!Held(I!RefOf(varRefs', part1), part1.frame, part1.path)}
      /\ I!Parts(r.path) # <<>>
  BY <1>1 DEF I!Variables
<1>3. I!Fresh(varRefs) \in 1 .. MaxValues /\ \A j \in 1 .. Len(varRefs) : varRefs[j].address # I!Fresh(varRefs)
  BY <1>1, FreshIs DEF I!Variables, I!Room
<1>4. r.path \in Paths /\ r.frame \in Live /\ r.address \in Nat
  BY <1>1 DEF Refs
<1>5. New(varRefs, part1)
  <2>1. r.path \notin Members /\ r.path # Vector
    BY <1>2, PartsAre
  <2>2. CASE r.path \in {Locals, Registers, Group}
    <3>1. I!Anew(r)
      <4>1. CASE r.path \in {Locals, Registers}
        BY <1>1, <4>1 DEF Kind, ScopePaths, I!Anew, I!NoAddress
      <4>2. CASE r.path = Group
        BY <4>2, LastsAre DEF I!Anew
      <4> QED BY <2>2, <4>1, <4>2
    <3>2. r.path \o I!Parts(r.path) \in {Record, Group, Vector}
      BY <2>2, PartsAre, PathsJoined
    <3>3. part1.path \in Owners /\ part1.path \in Paths
      BY <3>2 DEF Owners, Paths
    <3>4. part1.path \notin ScopePaths /\ part1.path \notin Members
      BY <3>3, PathsApart
    <3>5. part1.address = I!Fresh(varRefs) /\ part1.frame = r.frame
      BY <3>1
    <3>6. part1 \in Refs
      <4>1. part1 = [frame |-> part1.frame, path |-> part1.path, address |-> part1.address]
        OBVIOUS
      <4> HIDE DEF part1
      <4> QED BY <1>3, <1>4, <3>3, <3>5, <4>1 DEF Refs
    <3> HIDE DEF part1
    <3> QED BY <1>3, <3>3, <3>4, <3>5, <3>6 DEF New
  <2>3. CASE r.path \in {Record, Expression}
    <3>1. r.path \in Owners /\ r.path # Group
      <4>1. Group # Record /\ Group # Expression
        BY PartsAre
      <4> QED BY <2>3, <4>1 DEF Owners
    <3>2. r.address \in 1 .. MaxValues
      BY <1>1, <3>1 DEF Kind
    <3>3. ~I!Anew(r)
      BY <1>4, <3>1, <3>2, LastsAre DEF I!Anew, I!NoAddress
    <3>4. I!Parts(r.path) = <<"member">>
      BY <2>3, PartsAre
    <3>5. /\ part1.frame = r.frame /\ part1.path = r.path \o <<"member">>
          /\ part1.address = r.address + MaxValues
      BY <3>3, <3>4
    <3>6. part1.path \in Members /\ part1.path \in Paths
      BY <2>3, <3>5, PathsJoined DEF Members, Paths
    <3>7. part1.path \notin ScopePaths /\ part1.path \notin Owners
      BY <3>6, PathsApart
    <3>8. part1 \in Refs
      <4>1. part1 = [frame |-> part1.frame, path |-> part1.path, address |-> part1.address]
        OBVIOUS
      <4>2. part1.address \in Nat
        BY <1>4, <3>5
      <4> HIDE DEF part1
      <4> QED BY <1>4, <3>5, <3>6, <4>1, <4>2 DEF Refs
    <3> HIDE DEF part1
    <3> QED BY <1>1, <2>3, <3>5, <3>6, <3>7, <3>8 DEF New
  <2> QED BY <1>4, <2>1, <2>2, <2>3 DEF Paths, ScopePaths, Owners, Members
<1> HIDE DEF part1
<1> QED BY <1>1, <1>2, <1>5, HandedOut

(* Each step of the client and of the program keeps what the numbers and the *)
(* references stand for.                                                     *)
HandedInv == FramesKept /\ RefsKept

LEMMA HandedInit == I!InspectInit => HandedInv
<1> SUFFICES ASSUME I!InspectInit PROVE HandedInv
  OBVIOUS
<1>1. /\ stacks = I!NoStacks /\ frames = <<>> /\ varRefs = <<>>
      /\ shown = I!NoStacks /\ whole = {} /\ held = {}
  BY DEF I!InspectInit
<1>2. /\ shown \in [I!Threads -> Seq(Nat)]
      /\ \A t \in I!Threads : shown[t] = <<>> /\ stacks[t] = <<>>
  BY <1>1 DEF I!NoStacks
<1>3. FramesKept
  BY <1>1, <1>2 DEF FramesKept
<1>4. RefsKept
  BY <1>1 DEF RefsKept, TableSound, Unshared
<1> QED BY <1>3, <1>4 DEF HandedInv

LEMMA HandedAsk == HandedInv /\ I!Ask => HandedInv'
<1> SUFFICES ASSUME HandedInv, I!Ask PROVE HandedInv'
  OBVIOUS
<1>0. FramesKept /\ RefsKept /\ MaxValues \in Nat /\ MaxPage \in Nat
  BY NumbersAssumption DEF HandedInv
<1>1. ASSUME NEW t \in I!Threads, NEW first \in 0 .. Len(shown[t]), NEW count \in {1, MaxPage},
             I!StackTrace(t, first, count)
      PROVE  HandedInv'
  <2>1. FramesKept'
    BY <1>0, <1>1, FramesStep
  <2>2. varRefs' = varRefs /\ held' = held /\ UNCHANGED <<stacks, epoch>>
    BY <1>1 DEF I!StackTrace
  <2>3. Refs' = Refs
    BY <2>2 DEF Refs, Live, I!FrameAt
  <2>4. RefsKept'
    BY <1>0, <2>2, <2>3 DEF RefsKept, TableSound, Unshared, Kind
  <2> QED BY <2>1, <2>4 DEF HandedInv
<1>2. ASSUME NEW t \in I!Threads, NEW i \in DOMAIN shown[t], I!Scopes(t, i) \/ I!Evaluate(t, i)
      PROVE  HandedInv'
  <2>1. i \in 1 .. Len(shown[t])
    BY <1>0 DEF FramesKept
  <2>2. RefsKept'
    BY <1>0, <1>2, <2>1, ScopesStep, EvaluateStep
  <2>3. UNCHANGED <<stacks, epoch, frames, shown, whole>>
    BY <1>2 DEF I!Scopes, I!Evaluate
  <2>4. Live' = Live
    BY <2>3 DEF Live, I!FrameAt
  <2>5. FramesKept'
    BY <1>0, <2>3, <2>4 DEF FramesKept, I!FrameAt
  <2> QED BY <2>2, <2>5 DEF HandedInv
<1>3. ASSUME NEW h \in held, I!Variables(h) PROVE HandedInv'
  <2>1. RefsKept'
    BY <1>0, <1>3, VariablesStep
  <2>2. UNCHANGED <<stacks, epoch, frames, shown, whole>>
    BY <1>3 DEF I!Variables
  <2>3. FramesKept'
    BY <1>0, <2>2 DEF FramesKept, Live, I!FrameAt
  <2> QED BY <2>1, <2>3 DEF HandedInv
<1> QED BY <1>1, <1>2, <1>3 DEF I!Ask

LEMMA HandedStep == HandedInv /\ [I!InspectNext]_(I!inspectVars) => HandedInv'
<1> SUFFICES ASSUME HandedInv, [I!InspectNext]_(I!inspectVars) PROVE HandedInv'
  OBVIOUS
<1>1. CASE I!Ask
  BY <1>1, HandedAsk
<1>2. CASE I!PrepareToRun
  <2>1. /\ stacks' = I!NoStacks /\ frames' = <<>> /\ varRefs' = <<>>
        /\ shown' = I!NoStacks /\ whole' = {} /\ held' = {}
    BY <1>2 DEF I!PrepareToRun
  <2>2. /\ shown' \in [I!Threads -> Seq(Nat)]
        /\ \A t \in I!Threads : shown'[t] = <<>> /\ stacks'[t] = <<>>
    BY <2>1 DEF I!NoStacks
  <2>3. FramesKept'
    BY <2>1, <2>2 DEF FramesKept
  <2>4. RefsKept'
    BY <2>1 DEF RefsKept, TableSound, Unshared
  <2> QED BY <2>3, <2>4 DEF HandedInv
<1>3. CASE I!NewStop
  <2>1. /\ stacks = I!NoStacks /\ stacks' \in I!Stacks
        /\ UNCHANGED <<frames, varRefs, shown, whole, held>>
    BY <1>3 DEF I!NewStop
  <2>2. \A t \in I!Threads : stacks[t] = <<>>
    BY <2>1 DEF I!NoStacks
  <2>3. Live = {}
    BY <2>2 DEF Live
  <2>4. Len(frames) = 0 /\ frames = <<>>
    BY <2>3 DEF HandedInv, FramesKept
  <2>5. Refs = {}
    BY <2>3 DEF Refs
  <2>6. Len(varRefs) = 0 /\ varRefs = <<>>
    BY <2>5 DEF HandedInv, RefsKept, TableSound
  <2>7. held = {}
    BY <2>6 DEF HandedInv, RefsKept
  <2>8. whole = {} /\ shown \in [I!Threads -> Seq(Nat)] /\ \A t \in I!Threads : Len(shown[t]) = 0
    <3>1. \A t \in I!Threads : Len(shown[t]) <= Len(stacks[t]) /\ (t \in whole => stacks[t] # <<>>)
      BY DEF HandedInv, FramesKept
    <3>2. shown \in [I!Threads -> Seq(Nat)] /\ whole \subseteq I!Threads
      BY DEF HandedInv, FramesKept
    <3> QED BY <2>2, <3>1, <3>2
  <2>9. \A t \in I!Threads : Len(shown'[t]) <= Len(stacks'[t])
    BY <2>1, <2>8, StacksAre
  <2>10. FramesKept'
    BY <2>1, <2>4, <2>8, <2>9 DEF FramesKept
  <2>11. RefsKept'
    BY <2>1, <2>6, <2>7 DEF RefsKept, TableSound, Unshared
  <2> QED BY <2>10, <2>11 DEF HandedInv
<1>4. CASE UNCHANGED I!inspectVars
  <2>1. UNCHANGED <<stacks, epoch, frames, varRefs, shown, whole, held>>
    BY <1>4 DEF I!inspectVars
  <2>2. Live' = Live /\ Refs' = Refs
    BY <2>1 DEF Refs, Live, I!FrameAt
  <2>3. FramesKept'
    BY <2>1, <2>2 DEF HandedInv, FramesKept, I!FrameAt
  <2>4. RefsKept'
    BY <2>1, <2>2 DEF HandedInv, RefsKept, TableSound, Unshared, Kind
  <2> QED BY <2>3, <2>4 DEF HandedInv
<1> QED BY <1>1, <1>2, <1>3, <1>4 DEF I!InspectNext

LEMMA AlwaysHanded == AdapterSpec => []HandedInv
<1>1. AdapterInit => HandedInv
  BY HandedInit DEF AdapterInit
<1>2. HandedInv /\ [AdapterNext]_adapterVars => HandedInv'
  <2>1. [AdapterNext]_adapterVars => [I!InspectNext]_(I!inspectVars)
    BY DEF AdapterNext, SessionPart, adapterVars, handedOut, I!inspectVars
  <2> QED BY <2>1, HandedStep
<1> QED BY <1>1, <1>2, PTL DEF AdapterSpec

(* What a client of the adapter was handed out at a stop leads to it: the     *)
(* number of a frame to the frame, in whichever page of a stack it came, and  *)
(* a reference to the value it was given for, though frames are told apart by *)
(* three features and values by addresses that are used again.                *)
THEOREM LeadsWhereHanded == AdapterSpec => []HandedOutSound
<1>1. HandedInv => HandedOutSound
  <2> SUFFICES ASSUME HandedInv PROVE I!RefsSound
    BY DEF HandedOutSound
  <2>1. ASSUME NEW t \in I!Threads
        PROVE  /\ \A i \in DOMAIN shown[t] :
                    shown[t][i] \in DOMAIN frames /\ frames[shown[t][i]] = I!FrameAt(t, i)
               /\ t \in whole => Len(shown[t]) = Len(stacks[t])
    <3>1. DOMAIN shown[t] = 1 .. Len(shown[t]) /\ DOMAIN frames = 1 .. Len(frames)
      BY DEF HandedInv, FramesKept
    <3> QED BY <3>1 DEF HandedInv, FramesKept
  <2>2. ASSUME NEW h \in held
        PROVE  h.id \in DOMAIN varRefs /\ varRefs[h.id].frame = h.frame /\ varRefs[h.id].path = h.path
    <3>1. DOMAIN varRefs = 1 .. Len(varRefs)
      BY DEF HandedInv, RefsKept, TableSound
    <3> QED BY <3>1 DEF HandedInv, RefsKept
  <2> QED BY <2>1, <2>2 DEF I!RefsSound
<1> QED BY <1>1, AlwaysHanded, PTL
=============================================================================
