------------------------- MODULE ApplicationProofs -------------------------
(***************************************************************************)
(* Proofs about the commands of the window (Application.tla) and of the    *)
(* console (Console.tla), for every word size, bound, scenario and set of  *)
(* lapses and slips: which assertions of the commands can fail, what they  *)
(* leave when they have ended, what their answers say, and what the        *)
(* terminal tells of the process.                                          *)
(*                                                                         *)
(* The inductive invariant has two parts. What is left of a command is a   *)
(* chain of steps, of which only some may follow each other; and each step *)
(* finds, or waits for, the debugger and its target in one of a few        *)
(* states, as the notifications let them be by then. The console's adds    *)
(* which answer is outstanding, the terminal's whose the process is.       *)
(***************************************************************************)
EXTENDS Console, SequenceTheorems, TLAPS

-----------------------------------------------------------------------------
(* Commands as chains of steps. The token "end" stands behind the last one;*)
(* a command of the console has its answer there first.                    *)
AfterAskTerminate == {"closeTarget", "askClose", "attach"}
AfterAskClose == {"connect", "disconnect", "askClose", "load"}
Over == {"answer", "end"}
After(step) ==
  CASE step = "stop" -> {"stopping"}
    [] step = "stopping" -> {"terminate", "detach"}
    [] step = "terminate" -> {"terminating"}
    [] step = "detach" -> {"detaching"}
    [] step \in {"terminating", "detaching"} -> {"ended"}
    [] step = "ended" -> AfterAskTerminate \cup Over
    [] step = "askTerminate" -> AfterAskTerminate
    [] step = "close" -> {"askTerminate"}
    [] step = "closeTarget" -> {"unloading"}
    [] step = "unloading" -> {"closed"}
    [] step = "closed" -> AfterAskClose \cup {"quit"} \cup Over
    [] step = "askClose" -> AfterAskClose
    [] step = "connect" -> {"connecting"}
    [] step = "connecting" -> {"connected"}
    [] step = "connected" -> {"load", "attach"} \cup Over
    [] step \in {"disconnect", "loaded", "attached", "launched"} -> Over
    [] step \in {"load", "attach"} -> {"loading"}
    [] step = "loading" -> {"loaded", "attaching"}
    [] step = "attaching" -> {"attached"}
    [] step = "launch" -> {"launching"}
    [] step = "launching" -> {"launched"}
    [] OTHER -> {"end"}

Steps == {"stop", "stopping", "terminate", "detach", "terminating", "detaching", "ended",
          "askTerminate", "close", "closeTarget", "unloading", "closed", "askClose", "connect",
          "connecting", "connected", "disconnect", "load", "loading", "loaded", "attach",
          "attaching", "attached", "launch", "launching", "launched", "quit", "error", "answer"}

First(q) == IF Len(q) > 0 THEN q[1] ELSE "end"
Second(q) == IF Len(q) > 1 THEN q[2] ELSE "end"
Here == First(todo)
Behind == Second(todo)

\* A chain which step e, or nothing, is to follow. What a load or an attach
\* waits for comes behind the dialog of the loading.
Chain(q, e) ==
  /\ q \in Seq(Steps)
  /\ \A k \in 1 .. Len(q) :
       /\ (IF k = Len(q) THEN e ELSE q[k + 1]) \in After(q[k])
       /\ q[k] = "load" => k + 2 \in 1 .. Len(q) /\ q[k + 2] = "loaded"
       /\ q[k] = "attach" => k + 2 \in 1 .. Len(q) /\ q[k + 2] = "attaching"

-----------------------------------------------------------------------------
(* The shell: which loop runs.                                             *)
Dialogs == Progress \cup Questions \cup {"error"}

Shell ==
  /\ open \in BOOLEAN /\ accepted \in BOOLEAN /\ box \in BOOLEAN /\ quit \in BOOLEAN
  /\ open = TRUE => Here \in Dialogs
  /\ accepted = TRUE => open = TRUE /\ Here \in Progress
  /\ box = TRUE => open = TRUE \/ todo = <<>>
  /\ Here = "error" => open = TRUE

-----------------------------------------------------------------------------
(* Whatever goes wrong: the debugger without a target has nothing under way,*)
(* and that is how the program is left.                                     *)
Ending == {"running", "stopped", "terminating", "detaching"}
Ordered ==
  \/ /\ impl = "none" /\ proc = "none" /\ stubThread = FALSE
     /\ \/ dbg = "initial" /\ reply = "none"
        \/ dbg = "connecting" /\ reply = "connect"
        \/ dbg = "loading" /\ reply \in {"load", "attachNew"}
  \/ /\ impl = "loaded" /\ proc = "none" /\ reply = "none"
     /\ IF stubThread = TRUE THEN dbg = "launching"
        ELSE stubThread = FALSE /\ dbg \in {"loaded", "stopped"}
  \/ impl = "unloading" /\ proc = "none" /\ reply = "close" /\ stubThread = FALSE /\ dbg = "unloading"
  \/ /\ impl = "launching" /\ dbg = "launching" /\ stubThread = FALSE
     /\ \/ proc = "none" /\ reply \in {"launch", "attach", "attachStub"}
        \/ reply = "none"
  \/ /\ impl \in Ending /\ dbg \in Ending /\ stubThread = FALSE
     /\ reply \in {"none", "attach", "attachStub"}

Leaves ==
  /\ Ordered
  /\ box = TRUE => impl \in {"stopped", "loaded"} /\ reply = "none" /\ stubThread = FALSE
  /\ Here = "quit" \/ quit = TRUE => dbg = "initial"

-----------------------------------------------------------------------------
(* In an orderly behaviour: the states the debugger and its target may be   *)
(* in together, without a launch under way and with one.                    *)
Both(d, i, p, r) ==
  dbg = d /\ impl = i /\ proc = p /\ reply = r /\ stubThread = FALSE /\ helpers = <<>>

Initial == Both("initial", "none", "none", "none")
Loaded == Both("loaded", "loaded", "none", "none")
Runs == Both("running", "running", "program", "none")
Stops == Both("stopped", "stopped", "program", "none")

\* Its watchpoint's box is open; it was killed there, and then the box closed.
Halted == Both("running", "stopped", "program", "none")
Zombie == "killed" \in lapses /\ Both("stopped", "loaded", "none", "none")

\* An attach, while LLDB answers it and while it has not.
Attaching == Both("launching", "launching", "none", "attach")
Attached == Both("launching", "launching", "program", "none")
StopsFirst == Both("stopped", "stopped", "program", "attach")
RunsFirst == "answersLate" \in lapses /\ Both("running", "running", "program", "attach")

\* A launch: built-in; or in a terminal, while the exec stub starts, while its
\* child is attached to, and while the child goes on to the exec, or waits on.
One(n, g) == <<[skip |-> n, got |-> g]>>
LaunchAt(d, i, ps, r, n, g) ==
  dbg = d /\ impl = i /\ proc \in ps /\ reply = r /\ stubThread = FALSE /\ helpers = One(n, g)
Builtin == LaunchAt("launching", "launching", {"none"}, "launch", 0, FALSE)
Stubbing == /\ dbg = "launching" /\ impl = "loaded" /\ proc = "none" /\ reply = "none"
            /\ stubThread = TRUE /\ helpers = One(2, FALSE)
StubAttaching == LaunchAt("launching", "launching", {"none"}, "attachStub", 2, FALSE)
StubAttached == LaunchAt("launching", "launching", {"released", "waiting"}, "none", 2, TRUE)
StubRan == LaunchAt("running", "running", {"waiting"}, "attachStub", 1, FALSE)
StubReleased == LaunchAt("running", "running", {"released", "waiting"}, "none", 1, TRUE)
Launching == Builtin \/ Stubbing \/ StubAttaching \/ StubAttached \/ StubRan \/ StubReleased

\* All of them: what the debugger of an orderly behaviour can be in.
Connecting == Both("connecting", "none", "none", "connect")
LoadingFile == Both("loading", "none", "none", "load")
LoadingProcess == Both("loading", "none", "none", "attachNew")
Unloading == Both("unloading", "unloading", "none", "close")
Ends(s) == Both(s, s, "program", "none")
Known ==
  \/ Initial \/ Loaded \/ Runs \/ Stops \/ Halted \/ Both("stopped", "loaded", "none", "none")
  \/ Attaching \/ Attached \/ StopsFirst \/ Both("running", "running", "program", "attach")
  \/ Connecting \/ LoadingFile \/ LoadingProcess \/ Unloading
  \/ Ends("terminating") \/ Ends("detaching") \/ Launching

-----------------------------------------------------------------------------
(* What each step finds, or waits for.                                     *)
Lapsed == "endsMeanwhile" \in lapses \/ "killed" \in lapses
Boxed == Halted \/ ("killed" \in lapses /\ Loaded)
Process == Runs \/ RunsFirst \/ Stops \/ Zombie
Resting == IF box = TRUE THEN Boxed ELSE Initial \/ Loaded \/ Process
Started == Runs \/ Loaded \/ ("stopsAtOnce" \in lapses /\ (Stops \/ Zombie))

Asking ==
  /\ Here \in {"end", "answer", "error", "askTerminate", "askClose"} => Resting
  /\ Here \in {"askTerminate", "askClose"} /\ open = TRUE => dbg # "initial"
  /\ Here = "askTerminate" /\ Behind = "closeTarget" => dbg # "initial"
  /\ Here = "askTerminate" /\ open = TRUE /\ dbg = "loaded" => Lapsed

\* Ends of a process, terminated or detached from.
EndingProcess ==
  /\ Here = "stop" => Process \/ (Lapsed /\ Loaded)
  /\ Here = "stopping" =>
       IF accepted = TRUE
       THEN IF box = TRUE THEN "killed" \in lapses /\ Loaded
            ELSE Stops \/ Zombie \/ (Loaded /\ (Behind = "detach" => Lapsed))
       ELSE IF open = TRUE THEN IF box = TRUE THEN Halted ELSE Runs \/ RunsFirst
            ELSE Process
  /\ Here = "terminate" => Stops \/ Zombie \/ Loaded
  /\ Here = "detach" => Stops \/ Zombie \/ (Lapsed /\ Loaded)
  /\ Here \in {"terminating", "detaching"} =>
       IF accepted = TRUE THEN Loaded ELSE Ends(Here)
  /\ Here = "ended" => Loaded

\* The target is loaded, attached to or closed, and the platform connected to.
Loading ==
  /\ Here = "close" => Loaded \/ Process
  /\ Here = "closeTarget" => Loaded
  /\ Here = "unloading" =>
       IF accepted = TRUE THEN Initial ELSE Unloading
  /\ Here \in {"closed", "connect", "connected", "disconnect", "load", "quit"} => Initial
  /\ Here = "connecting" =>
       IF accepted = TRUE THEN Initial ELSE Connecting
  /\ Here = "loading" /\ Behind = "loaded" =>
       IF accepted = TRUE THEN Initial \/ Loaded ELSE LoadingFile
  /\ Here = "loaded" => Initial \/ Loaded
  /\ Here = "attach" => Initial \/ Loaded
  /\ Here = "loading" /\ Behind = "attaching" =>
       IF accepted = TRUE THEN Initial \/ Attached \/ Stops \/ Loaded
       ELSE \/ LoadingProcess
            \/ open = FALSE /\ Attaching
  /\ Here = "attaching" =>
       IF accepted = TRUE THEN Stops \/ StopsFirst \/ Loaded
       ELSE Attaching \/ Attached \/ (open = FALSE /\ (Initial \/ Loaded \/ Stops))
  /\ Here = "attached" => Initial \/ Loaded \/ Stops \/ ("answersLate" \in lapses /\ StopsFirst)

LaunchingProgram ==
  /\ Here = "launch" => Loaded
  /\ Here = "launching" =>
       IF accepted = FALSE THEN Launching
       ELSE IF box = TRUE THEN "stopsAtOnce" \in lapses /\ Boxed ELSE Started
  /\ Here = "launched" => Started

Found ==
  /\ Asking /\ EndingProcess /\ Loading /\ LaunchingProgram /\ stopAsked = FALSE
  /\ box = TRUE =>
       Here \in {"end", "error", "askTerminate", "askClose", "stopping", "launching"}

Excuses == UNION {BreaksOn(l) : l \in lapses}
OrderlyInv == (Alive => Found) /\ broken \in {"none"} \cup Excuses

ShellInv ==
  /\ lapses \subseteq LapseKinds
  /\ Chain(todo, "end") /\ Shell /\ Leaves
  /\ Orderly => OrderlyInv
-----------------------------------------------------------------------------
(***************************************************************************)
(* Chains                                                                  *)
(***************************************************************************)
(* The first two steps of a chain, and what is left when the first is done. *)
LEMMA Popped ==
  ASSUME NEW q, Chain(q, "end"), q # <<>>
  PROVE  /\ Chain(Tail(q), "end") /\ First(Tail(q)) = Second(q)
         /\ First(q) = Head(q) /\ First(q) \in Steps /\ Second(q) \in After(First(q))
         /\ First(q) = "load" => Second(Tail(q)) = "loaded"
         /\ First(q) = "attach" => Second(Tail(q)) = "attaching"
<1>. DEFINE n == Len(q)
            t == Tail(q)
<1>1. q \in Seq(Steps) /\ n \in Nat /\ n > 0
  BY DEF Chain
<1>2. \A k \in 1 .. n :
        /\ (IF k = n THEN "end" ELSE q[k + 1]) \in After(q[k])
        /\ q[k] = "load" => k + 2 \in 1 .. n /\ q[k + 2] = "loaded"
        /\ q[k] = "attach" => k + 2 \in 1 .. n /\ q[k + 2] = "attaching"
  BY DEF Chain
<1>3. t \in Seq(Steps) /\ Len(t) = n - 1 /\ \A k \in 1 .. n - 1 : t[k] = q[k + 1]
  BY <1>1
<1>4. Head(q) = q[1] /\ q[1] \in Steps
  BY <1>1
<1>5. /\ First(q) = q[1] /\ Second(q) = IF n > 1 THEN q[2] ELSE "end"
      /\ First(t) = IF n - 1 > 0 THEN t[1] ELSE "end"
      /\ Second(t) = IF n - 1 > 1 THEN t[2] ELSE "end"
  BY <1>1, <1>3 DEF First, Second
<1>. HIDE DEF n, t
<1>6. ASSUME NEW k \in 1 .. n - 1
      PROVE  /\ (IF k = n - 1 THEN "end" ELSE t[k + 1]) \in After(t[k])
             /\ t[k] = "load" => k + 2 \in 1 .. n - 1 /\ t[k + 2] = "loaded"
             /\ t[k] = "attach" => k + 2 \in 1 .. n - 1 /\ t[k + 2] = "attaching"
  <2>1. t[k] = q[k + 1] /\ k + 1 \in 1 .. n /\ (k + 1 = n <=> k = n - 1)
    BY <1>1, <1>3
  <2>2. k # n - 1 => k + 1 \in 1 .. n - 1 /\ t[k + 1] = q[(k + 1) + 1]
    BY <1>1, <1>3
  <2>3. k + 2 \in 1 .. n - 1 => t[k + 2] = q[(k + 1) + 2]
    <3>1. k + 2 \in 1 .. n - 1 => t[k + 2] = q[(k + 2) + 1]
      BY <1>3
    <3>2. (k + 2) + 1 = (k + 1) + 2
      OBVIOUS
    <3>. QED
      BY <3>1, <3>2
  <2>4. /\ (IF k + 1 = n THEN "end" ELSE q[(k + 1) + 1]) \in After(q[k + 1])
        /\ q[k + 1] = "load" => (k + 1) + 2 \in 1 .. n /\ q[(k + 1) + 2] = "loaded"
        /\ q[k + 1] = "attach" => (k + 1) + 2 \in 1 .. n /\ q[(k + 1) + 2] = "attaching"
    BY <1>2, <2>1
  <2>5. (k + 1) + 2 \in 1 .. n => k + 2 \in 1 .. n - 1
    BY <1>1
  <2>. QED
    BY <2>1, <2>2, <2>3, <2>4, <2>5
<1>7. Chain(t, "end")
  BY <1>3, <1>6 DEF Chain
<1>8. 1 \in 1 .. n /\ (n > 1 <=> n # 1) /\ (n > 1 => 1 \in 1 .. n - 1)
  BY <1>1
<1>9. Second(q) \in After(First(q))
  BY <1>2, <1>5, <1>8
<1>10. First(t) = Second(q)
  BY <1>1, <1>3, <1>5
<1>11. /\ First(q) = "load" => Second(t) = "loaded"
       /\ First(q) = "attach" => Second(t) = "attaching"
  <2>1. /\ q[1] = "load" => 3 \in 1 .. n /\ q[3] = "loaded"
        /\ q[1] = "attach" => 3 \in 1 .. n /\ q[3] = "attaching"
    BY <1>2, <1>8
  <2>2. 3 \in 1 .. n => n - 1 > 1 /\ t[2] = q[3]
    BY <1>1, <1>3
  <2>. QED
    BY <1>5, <2>1, <2>2
<1>. QED
  BY <1>4, <1>5, <1>7, <1>9, <1>10, <1>11 DEF t

(* A process that has exited meanwhile needs no termination. *)
LEMMA Skipped ==
  ASSUME NEW q, Chain(q, "end"), First(q) = "terminate"
  PROVE  /\ Chain(SubSeq(q, 4, Len(q)), "end")
         /\ First(SubSeq(q, 4, Len(q))) \in After("ended")
         /\ SubSeq(q, 4, Len(q)) = Tail(Tail(Tail(q)))
         /\ q # <<>> /\ Tail(q) # <<>> /\ Chain(Tail(q), "end") /\ First(Tail(q)) = "terminating"
         /\ Tail(Tail(q)) # <<>> /\ Chain(Tail(Tail(q)), "end") /\ First(Tail(Tail(q))) = "ended"
<1>1. \A r : Chain(r, "end") /\ First(r) # "end" => r \in Seq(Steps) /\ r # <<>>
  BY DEF Chain, First
<1>. DEFINE r == Tail(q)
            s == Tail(r)
<1>2. q \in Seq(Steps) /\ q # <<>> /\ First(r) \in After("terminate") /\ Chain(r, "end")
  BY <1>1, Popped
<1>3. First(r) = "terminating"
  BY <1>2 DEF After
<1>4. r \in Seq(Steps) /\ r # <<>> /\ First(s) \in After("terminating") /\ Chain(s, "end")
  BY <1>1, <1>2, <1>3, Popped
<1>5. First(s) = "ended"
  BY <1>4 DEF After
<1>6. s \in Seq(Steps) /\ s # <<>> /\ First(Tail(s)) \in After("ended") /\ Chain(Tail(s), "end")
  BY <1>1, <1>4, <1>5, Popped
<1>7. SubSeq(q, 4, Len(q)) = Tail(s)
  <2>1. Len(q) \in Nat /\ Len(q) >= 3
    BY <1>2, <1>4, <1>6
  <2>2. r = SubSeq(q, 2, Len(q))
    BY <1>2, TailIsSubSeq
  <2>3. s = SubSeq(q, 3, Len(q))
    <3>1. 2 \in 1 .. Len(q) /\ Len(q) \in 2 .. Len(q)
      BY <2>1
    <3>2. Tail(SubSeq(q, 2, Len(q))) = SubSeq(q, 2 + 1, Len(q))
      BY <1>2, <3>1, HeadTailOfSubSeq
    <3>. QED
      BY <2>2, <3>2
  <2>4. Tail(s) = SubSeq(q, 4, Len(q))
    <3>1. 3 \in 1 .. Len(q) /\ Len(q) \in 3 .. Len(q)
      BY <2>1
    <3>2. Tail(SubSeq(q, 3, Len(q))) = SubSeq(q, 3 + 1, Len(q))
      BY <1>2, <3>1, HeadTailOfSubSeq
    <3>. QED
      BY <2>3, <3>2
  <2>. QED
    BY <2>4
<1>. QED
  BY <1>2, <1>3, <1>4, <1>5, <1>6, <1>7 DEF r, s

(* A chain that the other one may follow is lengthened by it. *)
LEMMA Linked ==
  ASSUME NEW p, NEW q, NEW e, Chain(p, First(q)), Chain(q, e), p # <<>>, q # <<>> \/ e = "end"
  PROVE  /\ Chain(p \o q, e) /\ First(p \o q) = First(p) /\ p \o q # <<>>
         /\ Second(p \o q) = IF Len(p) = 1 THEN First(q) ELSE Second(p)
<1>1. /\ p \in Seq(Steps) /\ q \in Seq(Steps) /\ Len(p) \in Nat \ {0} /\ Len(q) \in Nat
      /\ \A k \in 1 .. Len(p) :
           /\ (IF k = Len(p) THEN First(q) ELSE p[k + 1]) \in After(p[k])
           /\ p[k] = "load" => k + 2 \in 1 .. Len(p) /\ p[k + 2] = "loaded"
           /\ p[k] = "attach" => k + 2 \in 1 .. Len(p) /\ p[k + 2] = "attaching"
      /\ \A k \in 1 .. Len(q) :
           /\ (IF k = Len(q) THEN e ELSE q[k + 1]) \in After(q[k])
           /\ q[k] = "load" => k + 2 \in 1 .. Len(q) /\ q[k + 2] = "loaded"
           /\ q[k] = "attach" => k + 2 \in 1 .. Len(q) /\ q[k + 2] = "attaching"
  BY DEF Chain
<1>. DEFINE r == p \o q
            m == Len(p)
            n == Len(q)
<1>2. /\ r \in Seq(Steps) /\ Len(r) = m + n
      /\ \A k \in 1 .. m : r[k] = p[k]
      /\ \A k \in 1 .. n : r[m + k] = q[k]
  BY <1>1
<1>3. /\ First(p) = p[1] /\ First(r) = IF m + n > 0 THEN r[1] ELSE "end"
      /\ First(q) = IF n > 0 THEN q[1] ELSE "end"
      /\ m \in Nat \ {0} /\ n \in Nat /\ (n = 0 => e = "end")
  BY <1>1, <1>2 DEF First
<1>. HIDE DEF r
<1>4. ASSUME NEW k \in 1 .. m
      PROVE  /\ (IF k = m + n THEN e ELSE r[k + 1]) \in After(r[k])
             /\ r[k] = "load" => k + 2 \in 1 .. m + n /\ r[k + 2] = "loaded"
             /\ r[k] = "attach" => k + 2 \in 1 .. m + n /\ r[k + 2] = "attaching"
  <2>1. /\ (IF k = m THEN First(q) ELSE p[k + 1]) \in After(p[k])
        /\ p[k] = "load" => k + 2 \in 1 .. m /\ p[k + 2] = "loaded"
        /\ p[k] = "attach" => k + 2 \in 1 .. m /\ p[k + 2] = "attaching"
    BY <1>1
  <2>. HIDE DEF m, n
  <2>2. r[k] = p[k] /\ (k + 2 \in 1 .. m => k + 2 \in 1 .. m + n /\ r[k + 2] = p[k + 2])
    BY <1>2, <1>3
  <2>3. (IF k = m + n THEN e ELSE r[k + 1]) = (IF k = m THEN First(q) ELSE p[k + 1])
    <3>1. CASE k # m
      BY <1>2, <1>3, <3>1
    <3>2. CASE k = m /\ n = 0
      BY <1>3, <3>2
    <3>3. CASE k = m /\ n # 0
      BY <1>2, <1>3, <3>3
    <3>. QED
      BY <3>1, <3>2, <3>3
  <2>. QED
    BY <2>1, <2>2, <2>3
<1>5. ASSUME NEW j \in 1 .. n
      PROVE  /\ (IF m + j = m + n THEN e ELSE r[(m + j) + 1]) \in After(r[m + j])
             /\ r[m + j] = "load" => (m + j) + 2 \in 1 .. m + n /\ r[(m + j) + 2] = "loaded"
             /\ r[m + j] = "attach" => (m + j) + 2 \in 1 .. m + n /\ r[(m + j) + 2] = "attaching"
  <2>1. /\ (IF j = n THEN e ELSE q[j + 1]) \in After(q[j])
        /\ q[j] = "load" => j + 2 \in 1 .. n /\ q[j + 2] = "loaded"
        /\ q[j] = "attach" => j + 2 \in 1 .. n /\ q[j + 2] = "attaching"
    BY <1>1
  <2>. HIDE DEF m, n
  <2>2. /\ r[m + j] = q[j] /\ (m + j = m + n <=> j = n)
        /\ j # n => r[m + (j + 1)] = q[j + 1]
        /\ j + 2 \in 1 .. n => m + (j + 2) \in 1 .. m + n /\ r[m + (j + 2)] = q[j + 2]
    BY <1>2, <1>3
  <2>3. m + (j + 1) = (m + j) + 1 /\ m + (j + 2) = (m + j) + 2
    BY <1>3
  <2>. QED
    BY <2>1, <2>2, <2>3
<1>6. Chain(r, e)
  <2>1. ASSUME NEW k \in 1 .. m + n
        PROVE  /\ (IF k = m + n THEN e ELSE r[k + 1]) \in After(r[k])
               /\ r[k] = "load" => k + 2 \in 1 .. m + n /\ r[k + 2] = "loaded"
               /\ r[k] = "attach" => k + 2 \in 1 .. m + n /\ r[k + 2] = "attaching"
    <3>1. CASE k \in 1 .. m
      BY <1>4, <3>1
    <3>2. CASE k \notin 1 .. m
      <4>1. k - m \in 1 .. n /\ k = m + (k - m)
        BY <1>3, <3>2
      <4>. QED
        BY <1>5, <4>1
    <3>. QED
      BY <3>1, <3>2
  <2>. HIDE DEF m, n
  <2>. QED
    BY <1>2, <2>1 DEF Chain
<1>7. First(r) = First(p) /\ r # <<>>
  <2>1. r[1] = p[1] /\ Len(r) > 0
    BY <1>2, <1>3
  <2>. QED
    BY <1>2, <1>3, <2>1
<1>8. Second(r) = IF m = 1 THEN First(q) ELSE Second(p)
  <2>1. CASE m = 1
    <3>1. n > 0 => 1 \in 1 .. n /\ r[1 + 1] = q[1]
      BY <1>2, <1>3, <2>1
    <3>. QED
      BY <1>2, <1>3, <2>1, <3>1 DEF Second
  <2>2. CASE m # 1
    <3>. HIDE DEF m, n
    <3>1. 2 \in 1 .. m
      BY <1>3, <2>2
    <3>2. r[2] = p[2] /\ Len(r) > 1
      BY <1>2, <1>3, <3>1
    <3>3. Len(p) > 1
      BY <3>1 DEF m
    <3>. QED
      BY <2>2, <3>2, <3>3 DEF Second
  <2>. QED
    BY <2>1, <2>2
<1>. QED
  BY <1>6, <1>7, <1>8 DEF r
(* The steps of a command, and of the ends of a process or a target. *)
LEMMA Parts ==
  /\ \A e \in After("ended") :
       /\ Chain(TerminateSteps, e) /\ First(TerminateSteps) = "stop" /\ TerminateSteps # <<>>
       /\ Chain(DetachSteps, e) /\ First(DetachSteps) = "stop" /\ DetachSteps # <<>>
  /\ \A e \in After("closed") :
       Chain(CloseSteps, e) /\ First(CloseSteps) = "close" /\ CloseSteps # <<>>
  /\ \A e \in After("connected") :
       Chain(ConnectSteps, e) /\ First(ConnectSteps) = "askClose" /\ ConnectSteps # <<>>
  /\ \A e \in AfterAskClose : Chain(<<"askClose">>, e) /\ First(<<"askClose">>) = "askClose"
  /\ \A e \in AfterAskTerminate :
       Chain(<<"askTerminate">>, e) /\ First(<<"askTerminate">>) = "askTerminate"
<1>. USE DEF Chain, First, After, Steps, AfterAskTerminate, AfterAskClose, Over
<1>1. ASSUME NEW e \in After("ended")
      PROVE  /\ Chain(TerminateSteps, e) /\ First(TerminateSteps) = "stop" /\ TerminateSteps # <<>>
             /\ Chain(DetachSteps, e) /\ First(DetachSteps) = "stop" /\ DetachSteps # <<>>
  BY <1>1 DEF TerminateSteps, DetachSteps
<1>2. ASSUME NEW e \in After("closed")
      PROVE  Chain(CloseSteps, e) /\ First(CloseSteps) = "close" /\ CloseSteps # <<>>
  BY <1>2 DEF CloseSteps
<1>3. ASSUME NEW e \in After("connected")
      PROVE  Chain(ConnectSteps, e) /\ First(ConnectSteps) = "askClose" /\ ConnectSteps # <<>>
  BY <1>3 DEF ConnectSteps
<1>4. ASSUME NEW e \in AfterAskClose
      PROVE  Chain(<<"askClose">>, e) /\ First(<<"askClose">>) = "askClose"
  BY <1>4
<1>5. ASSUME NEW e \in AfterAskTerminate
      PROVE  Chain(<<"askTerminate">>, e) /\ First(<<"askTerminate">>) = "askTerminate"
  BY <1>5
<1>. QED
  BY <1>1, <1>2, <1>3, <1>4, <1>5

(* The commands of the main window. *)
LEMMA CommandChains ==
  /\ Chain(<<>>, "end") /\ First(<<>>) = "end"
  /\ Chain(LaunchSteps, "end") /\ First(LaunchSteps) = "launch"
  /\ Chain(DisconnectSteps, "end") /\ First(DisconnectSteps) = "askClose"
  /\ Chain(<<"error">>, "end") /\ First(<<"error">>) = "error"
  /\ Chain(<<"quit">>, "end") /\ First(<<"quit">>) = "quit"
  /\ Chain(CloseSteps \o <<"quit">>, "end") /\ First(CloseSteps \o <<"quit">>) = "close"
  /\ \A p \in BOOLEAN :
       /\ Chain(LoadSteps(p), "end") /\ First(LoadSteps(p)) = "askClose"
       /\ Chain(AttachSteps(p), "end") /\ First(AttachSteps(p)) = "askTerminate"
       /\ Second(AttachSteps(p)) # "closeTarget"
<1>. DEFINE load == <<"load", "loading", "loaded">>
            attach == <<"attach", "loading", "attaching", "attached">>
<1>1. /\ Chain(<<>>, "end") /\ First(<<>>) = "end"
      /\ Chain(<<"error">>, "end") /\ First(<<"error">>) = "error"
      /\ Chain(<<"quit">>, "end") /\ First(<<"quit">>) = "quit"
      /\ <<"quit">> # <<>> /\ <<"askClose">> # <<>> /\ <<"askTerminate">> # <<>>
  BY DEF Chain, First, After, Steps, Over
<1>2. Chain(LaunchSteps, "end") /\ First(LaunchSteps) = "launch"
  BY DEF Chain, First, After, Steps, Over, LaunchSteps
<1>3. Chain(DisconnectSteps, "end") /\ First(DisconnectSteps) = "askClose"
  BY DEF Chain, First, After, Steps, Over, DisconnectSteps, AfterAskClose
<1>4. Chain(load, "end") /\ First(load) = "load" /\ load # <<>>
  BY DEF Chain, First, After, Steps, Over
<1>5. Chain(attach, "end") /\ First(attach) = "attach" /\ attach # <<>>
  BY DEF Chain, First, After, Steps, Over
<1>6. /\ "quit" \in After("closed") /\ {"load", "attach"} \subseteq After("connected")
      /\ {"load", "askClose"} \subseteq AfterAskClose
      /\ {"attach", "askClose"} \subseteq AfterAskTerminate
  BY DEF After, AfterAskClose, AfterAskTerminate
<1>. HIDE DEF load, attach
<1>7. Chain(CloseSteps \o <<"quit">>, "end") /\ First(CloseSteps \o <<"quit">>) = "close"
  BY <1>1, <1>6, Parts, Linked
<1>8. /\ <<"askClose">> \o <<>> = <<"askClose">> /\ <<"askTerminate">> \o <<>> = <<"askTerminate">>
      /\ Len(<<"askTerminate">>) = 1
  OBVIOUS
<1>9. /\ LoadSteps(FALSE) = <<"askClose">> \o load
      /\ LoadSteps(TRUE) = (<<"askClose">> \o ConnectSteps) \o load
      /\ AttachSteps(FALSE) = <<"askTerminate">> \o attach
      /\ AttachSteps(TRUE) = (<<"askTerminate">> \o ConnectSteps) \o attach
  BY <1>8 DEF LoadSteps, AttachSteps, load, attach
<1>10. /\ Chain(LoadSteps(FALSE), "end") /\ First(LoadSteps(FALSE)) = "askClose"
       /\ Chain(AttachSteps(FALSE), "end") /\ First(AttachSteps(FALSE)) = "askTerminate"
       /\ Second(AttachSteps(FALSE)) = "attach"
  <2>1. Chain(<<"askClose">>, First(load)) /\ First(<<"askClose">>) = "askClose"
    BY <1>4, <1>6, Parts
  <2>2. Chain(<<"askTerminate">>, First(attach)) /\ First(<<"askTerminate">>) = "askTerminate"
    BY <1>5, <1>6, Parts
  <2>3. /\ Chain(<<"askClose">> \o load, "end") /\ First(<<"askClose">> \o load) = "askClose"
        /\ Chain(<<"askTerminate">> \o attach, "end")
        /\ First(<<"askTerminate">> \o attach) = "askTerminate"
        /\ Second(<<"askTerminate">> \o attach) = "attach"
    BY <1>1, <1>4, <1>5, <1>8, <2>1, <2>2, Linked
  <2>. QED
    BY <1>9, <2>3
<1>11. Chain(LoadSteps(TRUE), "end") /\ First(LoadSteps(TRUE)) = "askClose"
  <2>. DEFINE p == <<"askClose">> \o ConnectSteps
  <2>1. Chain(ConnectSteps, "load") /\ First(ConnectSteps) = "askClose" /\ ConnectSteps # <<>>
    BY <1>6, Parts
  <2>2. Chain(<<"askClose">>, First(ConnectSteps)) /\ First(<<"askClose">>) = "askClose"
    BY <1>6, <2>1, Parts
  <2>3. Chain(p, "load") /\ First(p) = "askClose" /\ p # <<>>
    BY <1>1, <2>1, <2>2, Linked
  <2>. HIDE DEF p
  <2>4. Chain(p \o load, "end") /\ First(p \o load) = First(p)
    BY <1>4, <2>3, Linked
  <2>. QED
    BY <1>9, <2>3, <2>4 DEF p
<1>12. /\ Chain(AttachSteps(TRUE), "end") /\ First(AttachSteps(TRUE)) = "askTerminate"
       /\ Second(AttachSteps(TRUE)) = "askClose"
  <2>. DEFINE p == <<"askTerminate">> \o ConnectSteps
  <2>1. Chain(ConnectSteps, "attach") /\ First(ConnectSteps) = "askClose" /\ ConnectSteps # <<>>
    BY <1>6, Parts
  <2>2. Chain(<<"askTerminate">>, First(ConnectSteps)) /\ First(<<"askTerminate">>) = "askTerminate"
    BY <1>6, <2>1, Parts
  <2>3. Chain(p, "attach") /\ First(p) = "askTerminate" /\ p # <<>> /\ Second(p) = "askClose"
    BY <1>1, <1>8, <2>1, <2>2, Linked
  <2>4. Len(p) > 1
    BY DEF ConnectSteps
  <2>. HIDE DEF p
  <2>5. Chain(p \o attach, "end") /\ First(p \o attach) = First(p) /\ Second(p \o attach) = Second(p)
    BY <1>5, <2>3, <2>4, Linked
  <2>. QED
    BY <1>9, <2>3, <2>5 DEF p
<1>13. ASSUME NEW p \in BOOLEAN
       PROVE  /\ Chain(LoadSteps(p), "end") /\ First(LoadSteps(p)) = "askClose"
              /\ Chain(AttachSteps(p), "end") /\ First(AttachSteps(p)) = "askTerminate"
              /\ Second(AttachSteps(p)) # "closeTarget"
  <2>1. CASE p = TRUE
    BY <1>11, <1>12, <2>1
  <2>2. CASE p = FALSE
    BY <1>10, <2>2
  <2>. QED
    BY <2>1, <2>2
<1>. QED
  BY <1>1, <1>2, <1>3, <1>7, <1>13

-----------------------------------------------------------------------------
(***************************************************************************)
(* The debugger below                                                      *)
(***************************************************************************)
(* What launch_helper does at a stop, in each state the code can have it in. *)
LEMMA HelperStop ==
  /\ \A g \in BOOLEAN : helpers = One(2, g) => D!HelpersAfterStop = One(1, g)
  /\ helpers = One(1, TRUE) => D!HelpersAfterStop = <<>>
<1>1. (2 + WordMod - 1) % WordMod = 1 /\ (1 + WordMod - 1) % WordMod = 0
  BY WordAssumption
<1>2. ASSUME NEW g \in BOOLEAN, helpers = One(2, g)
      PROVE  D!HelpersAfterStop = One(1, g)
  <2>1. Head(helpers).skip = 2 /\ Head(helpers).got = g /\ Tail(helpers) = <<>>
    BY <1>2 DEF One
  <2>2. (Head(helpers).skip + WordMod - 1) % WordMod = 1
    BY <1>1, <2>1
  <2>3. <<[skip |-> 1, got |-> g]>> \o <<>> = One(1, g)
    BY DEF One
  <2>4. (Head(helpers).skip + WordMod - 1) % WordMod # 0
    BY <2>2
  <2>. QED
    BY <2>1, <2>2, <2>3, <2>4, Zenon DEF D!HelpersAfterStop
<1>3. ASSUME helpers = One(1, TRUE)
      PROVE  D!HelpersAfterStop = <<>>
  <2>1. Head(helpers).skip = 1 /\ Head(helpers).got = TRUE /\ Tail(helpers) = <<>>
    BY <1>3 DEF One
  <2>2. (Head(helpers).skip + WordMod - 1) % WordMod = 0
    BY <1>1, <2>1
  <2>. QED
    BY <2>1, <2>2 DEF D!HelpersAfterStop
<1>. QED
  BY <1>2, <1>3

(* The result of a launch takes its helper away, or leaves it listening. *)
LEMMA HelperResult ==
  ASSUME NEW n \in {0, 1, 2}, helpers = One(n, FALSE)
  PROVE  /\ D!OnLaunched(FALSE) => helpers' = <<>>
         /\ D!OnLaunched(TRUE) => helpers' = IF n = 0 THEN <<>> ELSE One(n, TRUE)
<1>1. D!Front(helpers) = <<>>
  BY DEF One, D!Front
<1>2. D!Last(helpers).skip = n
  BY DEF One, D!Last
<1>3. Append(<<>>, [skip |-> n, got |-> TRUE]) = One(n, TRUE)
  BY DEF One
<1>. QED
  BY <1>1, <1>2, <1>3 DEF D!OnLaunched

(* A helper is one, and two helpers in different states differ. *)
LEMMA OneHelper ==
  /\ \A n, g : One(n, g) # <<>> /\ Len(One(n, g)) = 1
  /\ \A n, g, m, h : One(n, g) = One(m, h) => n = m /\ g = h
  /\ Append(<<>>, D!NewHelper(TRUE)) = One(2, FALSE)
  /\ Append(<<>>, D!NewHelper(FALSE)) = One(0, FALSE)
<1>1. \A n, g : One(n, g) # <<>> /\ Len(One(n, g)) = 1
  BY DEF One
<1>2. ASSUME NEW n, NEW g, NEW m, NEW h, One(n, g) = One(m, h)
      PROVE  n = m /\ g = h
  <2>1. One(n, g)[1] = One(m, h)[1]
    BY <1>2
  <2>2. [skip |-> n, got |-> g] = [skip |-> m, got |-> h]
    BY <2>1 DEF One
  <2>3. [skip |-> n, got |-> g].skip = n /\ [skip |-> n, got |-> g].got = g
    OBVIOUS
  <2>. QED
    BY <2>2, <2>3
<1>3. Append(<<>>, D!NewHelper(TRUE)) = One(2, FALSE)
  BY DEF One, D!NewHelper
<1>4. Append(<<>>, D!NewHelper(FALSE)) = One(0, FALSE)
  BY DEF One, D!NewHelper
<1>. QED
  BY <1>1, <1>2, <1>3, <1>4
(* The result of a request, and what it leads to. *)
LEMMA WhichResult ==
  ASSUME Known, D!Result
  PROVE  /\ stopAsked' = stopAsked /\ mishaps' = mishaps
         /\ \/ Connecting /\ Initial'
            \/ LoadingFile /\ (Initial' \/ Loaded')
            \/ LoadingProcess /\ (Initial' \/ Attached' \/ Stops')
            \/ Unloading /\ Initial'
            \/ Attaching /\ (Attached' \/ Loaded')
            \/ StopsFirst /\ Stops'
            \/ Both("running", "running", "program", "attach") /\ Runs'
            \/ Builtin /\ (Runs' \/ Loaded')
            \/ Stubbing /\ (Loaded' \/ StubAttaching')
            \/ StubAttaching /\ (StubAttached' \/ Loaded')
            \/ StubRan /\ StubReleased'
<1>. USE DEF Known, Both, LaunchAt, Connecting, LoadingFile, LoadingProcess, Unloading, Initial, Loaded,
       Attached, Stops, Attaching, StopsFirst, Runs, Halted, Ends, Launching, Builtin, Stubbing,
       StubAttaching, StubAttached, StubRan, StubReleased, D!Answer, D!platVars, D!targetVars
<1>1. CASE D!Connected \/ D!LoadFailed \/ D!Closed
  BY <1>1 DEF D!Connected, D!LoadFailed, D!Closed
<1>2. CASE D!LoadDone
  BY <1>2 DEF D!LoadDone
<1>3. CASE D!LaunchDone
  <2>1. Builtin
    BY <1>3 DEF D!LaunchDone
  <2>2. helpers' = <<>>
    BY <1>3, <2>1, HelperResult DEF D!LaunchDone
  <2>. QED
    BY <1>3, <2>1, <2>2 DEF D!LaunchDone, D!Notify
<1>4. CASE D!StubFailed
  <2>1. Stubbing
    BY <1>4 DEF D!StubFailed
  <2>2. helpers' = <<>>
    BY <1>4, <2>1, HelperResult DEF D!StubFailed
  <2>. QED
    BY <1>4, <2>1, <2>2 DEF D!StubFailed, D!Notify
<1>5. CASE D!StubLaunched
  BY <1>5 DEF D!StubLaunched, D!Notify
<1>6. CASE D!AttachFailed
  <2>1. CASE reply = "attach"
    BY <1>6, <2>1 DEF D!AttachFailed, D!Notify
  <2>2. CASE reply = "attachStub"
    <3>1. StubAttaching
      BY <1>6, <2>2 DEF D!AttachFailed
    <3>2. helpers' = <<>>
      BY <1>6, <2>2, <3>1, HelperResult DEF D!AttachFailed
    <3>. QED
      BY <1>6, <2>2, <3>1, <3>2 DEF D!AttachFailed, D!Notify
  <2>. QED
    BY <1>6, <2>1, <2>2 DEF D!AttachFailed
<1>7. CASE D!AttachDone
  <2>1. CASE reply = "attach"
    BY <1>7, <2>1 DEF D!AttachDone
  <2>2. CASE reply = "attachStub"
    <3>1. StubAttaching \/ StubRan
      BY <1>7, <2>2 DEF D!AttachDone
    <3>2. D!OnLaunched(TRUE)
      BY <1>7, <2>2 DEF D!AttachDone
    <3>3. StubAttaching => helpers' = One(2, TRUE)
      BY <3>2, HelperResult
    <3>4. StubRan => helpers' = One(1, TRUE)
      BY <3>2, HelperResult
    <3>. QED
      BY <1>7, <2>2, <3>1, <3>3, <3>4 DEF D!AttachDone
  <2>. QED
    BY <1>7, <2>1, <2>2 DEF D!AttachDone
<1>. QED
  BY <1>1, <1>2, <1>3, <1>4, <1>5, <1>6, <1>7 DEF D!Result

(* A stop of the process, and what it leads to. *)
LEMMA WhichStop ==
  ASSUME Known, stopAsked = FALSE, D!AttachStop \/ D!ExecStop \/ D!ProgramStop \/ D!EarlyStop
  PROVE  /\ stopAsked' = FALSE /\ mishaps' = mishaps
         /\ \/ Attaching /\ StopsFirst'
            \/ Attached /\ Stops'
            \/ StubAttaching /\ StubRan'
            \/ StubAttached /\ StubReleased'
            \/ StubReleased /\ Runs'
            \/ Runs /\ Stops'
<1>. USE DEF Known, Both, LaunchAt, Connecting, LoadingFile, LoadingProcess, Unloading, Initial, Loaded,
       Attached, Stops, Attaching, StopsFirst, Runs, Halted, Ends, Launching, Builtin, Stubbing,
       StubAttaching, StubAttached, StubRan, StubReleased, D!platVars
<1>1. stopAsked' = FALSE /\ mishaps' = mishaps
  BY DEF D!AttachStop, D!ExecStop, D!ProgramStop, D!EarlyStop, D!ReportStop
<1>2. CASE D!AttachStop
  <2>1. Attaching \/ Attached \/ StubAttaching \/ StubAttached
    BY <1>2 DEF D!AttachStop
  <2>2. CASE Attaching \/ Attached
    BY <1>2, <2>2 DEF D!AttachStop, D!ReportStop
  <2>3. CASE StubAttaching
    <3>1. D!ReportStop("waiting") /\ reply' = reply
      BY <1>2, <2>3 DEF D!AttachStop
    <3>2. helpers # <<>> /\ helpers' = One(1, FALSE)
      BY <2>3, <3>1, HelperStop, OneHelper DEF D!ReportStop
    <3>. QED
      BY <2>3, <3>1, <3>2, <1>1 DEF D!ReportStop
  <2>4. CASE StubAttached
    <3>1. D!ReportStop(proc) /\ reply' = reply
      BY <1>2, <2>4 DEF D!AttachStop
    <3>2. helpers # <<>> /\ helpers' = One(1, TRUE)
      BY <2>4, <3>1, HelperStop, OneHelper DEF D!ReportStop
    <3>. QED
      BY <2>4, <3>1, <3>2, <1>1 DEF D!ReportStop
  <2>. QED
    BY <1>1, <2>1, <2>2, <2>3, <2>4
<1>3. CASE D!ExecStop
  <2>1. StubReleased
    BY <1>3 DEF D!ExecStop
  <2>2. D!ReportStop("program") /\ reply' = reply
    BY <1>3 DEF D!ExecStop
  <2>3. helpers # <<>> /\ helpers' = <<>>
    BY <2>1, <2>2, HelperStop, OneHelper DEF D!ReportStop
  <2>. QED
    BY <1>1, <2>1, <2>2, <2>3 DEF D!ReportStop
<1>4. CASE D!ProgramStop
  BY <1>4 DEF D!ProgramStop, D!ReportStop
<1>5. CASE D!EarlyStop
  BY <1>5 DEF D!EarlyStop, D!StubChild
<1>. QED
  BY <1>2, <1>3, <1>4, <1>5

(* The exit of the process, and what it leads to. *)
LEMMA WhichExit ==
  ASSUME Known, Orderly, D!Exit
  PROVE  /\ stopAsked' = FALSE /\ mishaps' = mishaps
         /\ Loaded' /\ (Runs \/ Ends("terminating") \/ Ends("detaching"))
BY DEF Known, Both, LaunchAt, Connecting, LoadingFile, LoadingProcess, Unloading, Initial, Loaded,
       Attached, Stops, Attaching, StopsFirst, Runs, Halted, Ends, Launching, Builtin, Stubbing,
       StubAttaching, StubAttached, StubRan, StubReleased, D!platVars, D!Exit, D!Notify, Orderly, D!StubChild
-----------------------------------------------------------------------------
(***************************************************************************)
(* The command moves on                                                    *)
(***************************************************************************)
(* The first two steps of a command that is under way, and only then. *)
LEMMA Underway ==
  ASSUME Chain(todo, "end")
  PROVE  /\ todo # <<>> => Here = Head(todo) /\ Here \in Steps /\ Behind \in After(Here)
         /\ todo = <<>> => Here = "end"
         /\ Here # "end" => todo # <<>>
<1>1. todo # <<>> => Here = Head(todo) /\ Here \in Steps /\ Behind \in After(Here)
  BY Popped DEF Here, Behind
<1>2. todo = <<>> => Here = "end"
  BY DEF Here, First
<1>. QED
  BY <1>1, <1>2

(* What a step of a command may do to the command. *)
LEMMA Moves ==
  ASSUME Chain(todo, "end"), Shell, NEW step, Running(step)
  PROVE  /\ Here = step /\ step \in Steps /\ Behind \in After(step)
         /\ open = FALSE /\ accepted = FALSE /\ accepted' = FALSE /\ box = FALSE /\ box' = FALSE
         /\ quit = FALSE /\ quit' = FALSE /\ lapses' = lapses /\ broken = "none"
         /\ Go(Tail(todo)) =>
              /\ Chain(todo, "end")' /\ Shell' /\ Here' = Behind /\ open' = FALSE /\ broken' = broken
              /\ step = "load" => Behind' = "loaded"
              /\ step = "attach" => Behind' = "attaching"
         /\ Show /\ step \in Dialogs =>
              /\ Chain(todo, "end")' /\ Shell' /\ Here' = Here /\ Behind' = Behind
              /\ open' = TRUE /\ broken' = broken
         /\ Throw => Chain(todo, "end")' /\ Shell' /\ Here' = "error" /\ open' = TRUE /\ broken' = broken
         /\ Break(step) =>
              /\ Chain(todo, "end")' /\ Shell' /\ Here' = Here /\ broken' = step
              /\ UNCHANGED debuggerVars
<1>1. /\ todo # <<>> /\ Head(todo) = step /\ broken = "none"
      /\ open = FALSE /\ box = FALSE /\ quit = FALSE
      /\ accepted' = accepted /\ box' = box /\ quit' = quit /\ lapses' = lapses
  BY DEF Running, Alive, Shell
<1>2. accepted = FALSE
  BY <1>1 DEF Shell
<1>3. Here = step /\ step \in Steps /\ Behind \in After(step)
  BY <1>1, Underway
<1>4. Here # "error" /\ "error" \notin After(step)
  BY <1>1, <1>3 DEF Shell, After, AfterAskTerminate, AfterAskClose, Over
<1>5. ASSUME Go(Tail(todo))
      PROVE  /\ Chain(todo, "end")' /\ Shell' /\ Here' = Behind /\ open' = FALSE /\ broken' = broken
             /\ step = "load" => Behind' = "loaded"
             /\ step = "attach" => Behind' = "attaching"
  <2>1. todo' = Tail(todo) /\ open' = FALSE /\ broken' = broken
    BY <1>5 DEF Go
  <2>2. /\ Chain(todo', "end") /\ First(todo') = Second(todo) /\ First(todo) = step
        /\ First(todo) = "load" => Second(todo') = "loaded"
        /\ First(todo) = "attach" => Second(todo') = "attaching"
    BY <1>1, <1>3, <2>1, Popped DEF Here
  <2>3. Here' = Behind /\ Chain(todo, "end")'
    BY <2>2 DEF Here, Behind
  <2>4. Shell'
    BY <1>1, <1>2, <1>3, <1>4, <2>1, <2>3 DEF Shell
  <2>. QED
    BY <2>1, <2>2, <2>3, <2>4 DEF Behind
<1>6. ASSUME todo' = todo
      PROVE  Chain(todo, "end")' /\ Here' = Here /\ Behind' = Behind
  BY <1>6 DEF Here, Behind
<1>7. ASSUME Show, step \in Dialogs
      PROVE  /\ Chain(todo, "end")' /\ Shell' /\ Here' = Here /\ Behind' = Behind
             /\ open' = TRUE /\ broken' = broken
  BY <1>1, <1>2, <1>3, <1>6, <1>7 DEF Show, Shell
<1>8. ASSUME Throw
      PROVE  Chain(todo, "end")' /\ Shell' /\ Here' = "error" /\ open' = TRUE /\ broken' = broken
  <2>1. todo' = <<"error">> /\ open' = TRUE /\ broken' = broken
    BY <1>8 DEF Throw
  <2>2. Chain(todo', "end") /\ First(todo') = "error"
    BY <2>1, CommandChains
  <2>3. Chain(todo, "end")' /\ Here' = "error"
    BY <2>2 DEF Here
  <2>. QED
    BY <1>1, <1>2, <2>1, <2>3 DEF Shell, Dialogs
<1>9. ASSUME Break(step)
      PROVE  /\ Chain(todo, "end")' /\ Shell' /\ Here' = Here /\ broken' = step
             /\ UNCHANGED debuggerVars
  <2>1. todo' = todo /\ open' = open /\ broken' = step /\ UNCHANGED debuggerVars
    BY <1>9 DEF Break
  <2>. QED
    BY <1>1, <1>2, <1>4, <1>6, <2>1 DEF Shell
<1>. QED
  BY <1>1, <1>2, <1>3, <1>5, <1>7, <1>8, <1>9
-----------------------------------------------------------------------------
(***************************************************************************)
(* Whatever goes wrong                                                     *)
(***************************************************************************)
(* A request keeps the order between the debugger and its target. *)
LEMMA RequestOrder ==
  ASSUME Ordered,
         \/ D!Stop \/ D!CloseTarget \/ D!Connect \/ D!Disconnect \/ D!Load \/ D!Attach
         \/ D!LaunchBuiltin \/ D!LaunchInTerminal \/ D!Run \/ D!EndProcess
  PROVE  Ordered'
<1>. USE DEF Ordered, Ending, D!targetVars, D!platVars
<1>1. CASE D!Stop
  BY <1>1 DEF D!Stop
<1>2. CASE D!CloseTarget \/ D!Attach \/ D!LaunchBuiltin
  BY <1>2 DEF D!CloseTarget, D!Attach, D!LaunchBuiltin, D!Notify
<1>3. CASE D!Connect \/ D!Disconnect \/ D!Load
  BY <1>3 DEF D!Connect, D!Disconnect, D!Load
<1>4. CASE D!LaunchInTerminal
  BY <1>4 DEF D!LaunchInTerminal, D!Notify
<1>5. CASE D!Run
  BY <1>5 DEF D!Run, D!Notify
<1>6. CASE D!EndProcess
  BY <1>6 DEF D!EndProcess, D!Notify
<1>. QED
  BY <1>1, <1>2, <1>3, <1>4, <1>5, <1>6

(* So does what is reported to it. *)
LEMMA ReportOrder ==
  ASSUME Ordered, D!Result \/ D!AttachStop \/ D!ExecStop \/ D!ProgramStop \/ D!EarlyStop \/ D!Exit
  PROVE  Ordered' /\ ~(impl \in {"stopped", "loaded"} /\ reply = "none" /\ stubThread = FALSE)
<1>. USE DEF Ordered, Ending, D!targetVars, D!platVars, D!Answer, D!Notify
<1>1. CASE D!Connected
  BY <1>1 DEF D!Connected
<1>2. CASE D!LoadFailed
  BY <1>2 DEF D!LoadFailed
<1>3. CASE D!LoadDone
  BY <1>3 DEF D!LoadDone
<1>4. CASE D!LaunchDone
  BY <1>4 DEF D!LaunchDone
<1>5. CASE D!StubFailed
  BY <1>5 DEF D!StubFailed
<1>6. CASE D!StubLaunched
  BY <1>6 DEF D!StubLaunched
<1>7. CASE D!AttachFailed
  BY <1>7 DEF D!AttachFailed
<1>8. CASE D!AttachDone
  BY <1>8 DEF D!AttachDone
<1>9. CASE D!Closed
  BY <1>9 DEF D!Closed
<1>10. CASE D!AttachStop
  BY <1>10 DEF D!AttachStop, D!ReportStop
<1>11. CASE D!ExecStop \/ D!ProgramStop \/ D!EarlyStop
  BY <1>11 DEF D!ExecStop, D!ProgramStop, D!EarlyStop, D!ReportStop
<1>12. CASE D!Exit
  BY <1>12 DEF D!Exit
<1>. QED
  BY <1>1, <1>2, <1>3, <1>4, <1>5, <1>6, <1>7, <1>8, <1>9, <1>10, <1>11, <1>12 DEF D!Result
(* The assertions a lapse excuses. *)
LEMMA Excused ==
  /\ Lapsed => {"stop", "detach"} \subseteq Excuses
  /\ "stopsAtOnce" \in lapses => "launched" \in Excuses
  /\ "killed" \in lapses => {"stop", "run", "terminate", "detach"} \subseteq Excuses
<1>1. "endsMeanwhile" \in lapses => {"stop", "detach"} \subseteq Excuses
  <2>1. BreaksOn("endsMeanwhile") = {"stop", "detach"}
    BY DEF BreaksOn
  <2>. QED
    BY <2>1 DEF Excuses
<1>2. "stopsAtOnce" \in lapses => "launched" \in Excuses
  <2>1. BreaksOn("stopsAtOnce") = {"launched"}
    BY DEF BreaksOn
  <2>. QED
    BY <2>1 DEF Excuses
<1>3. "killed" \in lapses => {"stop", "run", "terminate", "detach"} \subseteq Excuses
  <2>1. BreaksOn("killed") = {"stop", "run", "terminate", "detach"}
    BY DEF BreaksOn
  <2>. QED
    BY <2>1 DEF Excuses
<1>. QED
  BY <1>1, <1>2, <1>3 DEF Lapsed

(* A step that goes on, or is over, finds the next one as that one expects. *)
LEMMA GoesOn ==
  ASSUME ShellInv, NEW step, Running(step), Go(Tail(todo)), mishaps' = mishaps, Ordered',
         Behind = "quit" => dbg' = "initial", Orderly => Found'
  PROVE  ShellInv'
<1>1. /\ Chain(todo, "end")' /\ Shell' /\ Here' = Behind /\ broken' = broken
      /\ quit' = FALSE /\ box' = FALSE /\ lapses' = lapses
  BY Moves DEF ShellInv
<1>2. Leaves'
  BY <1>1 DEF Leaves
<1>3. Orderly' => OrderlyInv'
  BY <1>1 DEF Orderly, OrderlyInv, ShellInv, Excuses
<1>. QED
  BY <1>1, <1>2, <1>3 DEF ShellInv

(* The same of any other change of what is to be done. *)
LEMMA Turns ==
  ASSUME ShellInv, NEW rest, Chain(rest, "end"), First(rest) # "error", Go(rest), Alive,
         accepted' = FALSE, box' = FALSE, quit' = quit, lapses' = lapses, mishaps' = mishaps, Ordered',
         First(rest) = "quit" => dbg' = "initial",
         Here' = First(rest) /\ Behind' = Second(rest) /\ open' = FALSE /\ Orderly => Found'
  PROVE  ShellInv'
<1>1. todo' = rest /\ open' = FALSE /\ broken' = broken /\ broken = "none" /\ quit = FALSE
  BY DEF Go, Alive, ShellInv, Shell
<1>2. Here' = First(rest) /\ Behind' = Second(rest) /\ Chain(todo, "end")'
  BY <1>1 DEF Here, Behind
<1>3. Shell'
  BY <1>1, <1>2 DEF Shell
<1>4. Leaves'
  BY <1>1, <1>2 DEF Leaves
<1>5. Orderly' => OrderlyInv'
  BY <1>1, <1>2 DEF Orderly, OrderlyInv, ShellInv, Excuses
<1>. QED
  BY <1>2, <1>3, <1>4, <1>5 DEF ShellInv

(* A step that opens its dialog, and one that fails. *)
LEMMA Opens ==
  ASSUME ShellInv, NEW step \in Dialogs, Running(step), Show, UNCHANGED debuggerVars, Orderly => Found'
  PROVE  ShellInv'
<1>1. /\ Chain(todo, "end")' /\ Shell' /\ Here' = Here /\ broken' = broken
      /\ quit = FALSE /\ quit' = FALSE /\ box' = FALSE /\ lapses' = lapses
  BY Moves DEF ShellInv
<1>2. Ordered' /\ dbg' = dbg /\ mishaps' = mishaps
  BY DEF ShellInv, Leaves, Ordered, debuggerVars
<1>3. Leaves'
  BY <1>1, <1>2 DEF Leaves, ShellInv
<1>4. Orderly' => OrderlyInv'
  BY <1>1, <1>2 DEF Orderly, OrderlyInv, ShellInv, Excuses
<1>. QED
  BY <1>1, <1>3, <1>4 DEF ShellInv
LEMMA Fails ==
  ASSUME ShellInv, NEW step, Running(step), Throw, mishaps' = mishaps, Ordered', Orderly => Found'
  PROVE  ShellInv'
<1>1. /\ Chain(todo, "end")' /\ Shell' /\ Here' = "error" /\ broken' = broken
      /\ quit' = FALSE /\ box' = FALSE /\ lapses' = lapses
  BY Moves DEF ShellInv
<1>2. Leaves'
  BY <1>1 DEF Leaves
<1>3. Orderly' => OrderlyInv'
  BY <1>1 DEF Orderly, OrderlyInv, ShellInv, Excuses
<1>. QED
  BY <1>1, <1>2, <1>3 DEF ShellInv

(* A step whose assertion fails may do so. *)
LEMMA Breaks ==
  ASSUME ShellInv, NEW step, step # "none", Running(step), Break(step), Orderly => step \in Excuses
  PROVE  ShellInv'
<1>1. /\ Chain(todo, "end")' /\ Shell' /\ Here' = Here /\ broken' = step
      /\ quit = FALSE /\ quit' = FALSE /\ box' = FALSE /\ lapses' = lapses /\ UNCHANGED debuggerVars
  BY Moves DEF ShellInv
<1>2. Ordered' /\ dbg' = dbg /\ mishaps' = mishaps
  BY <1>1 DEF ShellInv, Leaves, Ordered, debuggerVars
<1>3. Leaves'
  BY <1>1, <1>2 DEF Leaves, ShellInv
<1>4. Orderly' => OrderlyInv'
  BY <1>1, <1>2 DEF Orderly, OrderlyInv, Alive, Excuses
<1>. QED
  BY <1>1, <1>3, <1>4 DEF ShellInv
-----------------------------------------------------------------------------
(***************************************************************************)
(* The steps of the commands                                               *)
(***************************************************************************)
USE DEF Both, LaunchAt, Initial, Loaded, Runs, Stops, Halted, Zombie, Attaching, Attached, StopsFirst,
  RunsFirst, Connecting, LoadingFile, LoadingProcess, Unloading, Ends, Launching, Builtin, Stubbing,
  StubAttaching, StubAttached, StubRan, StubReleased

(* What may follow each step. *)
LEMMA Followers ==
  /\ After("stop") = {"stopping"} /\ After("stopping") = {"terminate", "detach"}
  /\ After("terminate") = {"terminating"} /\ After("detach") = {"detaching"}
  /\ After("terminating") = {"ended"} /\ After("detaching") = {"ended"}
  /\ After("ended") = {"closeTarget", "askClose", "attach", "answer", "end"}
  /\ After("askTerminate") = {"closeTarget", "askClose", "attach"}
  /\ After("close") = {"askTerminate"} /\ After("closeTarget") = {"unloading"}
  /\ After("unloading") = {"closed"}
  /\ After("closed") = {"connect", "disconnect", "askClose", "load", "quit", "answer", "end"}
  /\ After("askClose") = {"connect", "disconnect", "askClose", "load"}
  /\ After("connect") = {"connecting"} /\ After("connecting") = {"connected"}
  /\ After("connected") = {"load", "attach", "answer", "end"} /\ After("disconnect") = Over
  /\ After("load") = {"loading"} /\ After("attach") = {"loading"}
  /\ After("loading") = {"loaded", "attaching"} /\ After("loaded") = Over
  /\ After("attaching") = {"attached"} /\ After("attached") = Over
  /\ After("launch") = {"launching"} /\ After("launching") = {"launched"}
  /\ After("launched") = Over /\ After("quit") = {"end"} /\ After("error") = {"end"}
  /\ After("answer") = {"end"} /\ Over = {"answer", "end"}
BY DEF After, AfterAskTerminate, AfterAskClose, Over

(* What a step of an orderly behaviour finds when its turn comes. *)
LEMMA Finds ==
  ASSUME ShellInv, NEW step, Running(step)
  PROVE  /\ Here = step /\ Behind \in After(step) /\ Ordered /\ step # "end"
         /\ open = FALSE /\ accepted = FALSE /\ accepted' = FALSE /\ box = FALSE /\ box' = FALSE
         /\ lapses' = lapses /\ (Go(Tail(todo)) => Here' = Behind /\ open' = FALSE)
         /\ Go(Tail(todo)) =>
              /\ step = "load" => Behind' = "loaded"
              /\ step = "attach" => Behind' = "attaching"
         /\ Orderly => Found
<1>1. broken = "none" /\ quit = FALSE
  BY Moves DEF ShellInv
<1>2. Orderly => Found
  BY <1>1 DEF ShellInv, OrderlyInv, Alive
<1>3. "end" \notin Steps
  BY DEF Steps
<1>. QED
  BY <1>2, <1>3, Moves DEF ShellInv, Leaves

(* terminate and detach stop the process, and wait for that. *)
LEMMA StopKeeps ==
  ASSUME ShellInv, StopStep
  PROVE  ShellInv'
<1>1. Running("stop") /\ Behind = "stopping" /\ Here = "stop"
  <2>1. Running("stop")
    BY DEF StopStep, Step
  <2>2. Here = "stop" /\ Behind \in After("stop")
    BY <2>1, Finds
  <2>. QED
    BY <2>1, <2>2, Followers
<1>2. CASE dbg \in {"running", "stopped"}
  <2>1. Go(Tail(todo)) /\ (Nothing \/ D!Stop)
    BY <1>2 DEF StopStep, Step
  <2>2. mishaps' = mishaps /\ Ordered'
    BY <1>1, <2>1, Finds, RequestOrder DEF Nothing, debuggerVars, D!Stop, Ordered
  <2>3. Orderly => Found'
    <3>1. /\ UNCHANGED <<dbg, impl, proc, reply, stubThread, helpers>>
          /\ Orderly /\ stopAsked = FALSE => stopAsked' = FALSE
      BY <2>1 DEF Nothing, debuggerVars, D!Stop, D!targetVars, Orderly
    <3>2. Orderly => Process'
      BY <1>1, <1>2, <3>1, Finds DEF Found, EndingProcess, Process
    <3>. QED
      BY <1>1, <2>1, <3>1, <3>2, Finds DEF Found, Asking, EndingProcess, Loading, LaunchingProgram
  <2>. QED
    BY <1>1, <2>1, <2>2, <2>3, GoesOn
<1>3. CASE dbg \notin {"running", "stopped"}
  <2>1. Break("stop")
    BY <1>3 DEF StopStep, Step
  <2>2. Orderly => Lapsed
    BY <1>1, <1>3, Finds DEF Found, EndingProcess, Process
  <2>. QED
    BY <1>1, <2>1, <2>2, Breaks, Excused
<1>. QED
  BY <1>2, <1>3
(* terminate ends the process, unless it has exited meanwhile. *)
LEMMA TerminateKeeps ==
  ASSUME ShellInv, TerminateStep
  PROVE  ShellInv'
<1>1. Running("terminate") /\ Here = "terminate" /\ Behind = "terminating"
  <2>1. Running("terminate")
    BY DEF TerminateStep, Step
  <2>2. Here = "terminate" /\ Behind \in After("terminate")
    BY <2>1, Finds
  <2>. QED
    BY <2>1, <2>2, Followers
<1>2. CASE dbg = "loaded"
  <2>. DEFINE rest == SubSeq(todo, 4, Len(todo))
  <2>1. Go(rest) /\ Nothing
    BY <1>2 DEF TerminateStep, Step
  <2>2. Chain(rest, "end") /\ First(rest) \in After("ended")
    BY <1>1, Skipped DEF ShellInv, Here
  <2>. HIDE DEF rest
  <2>3. First(rest) \in {"closeTarget", "askClose", "attach", "answer", "end"}
    BY <2>2, Followers
  <2>4. Ordered' /\ mishaps' = mishaps
    BY <1>1, <2>1, Finds DEF Nothing, debuggerVars, Ordered
  <2>5. Orderly => Loaded' /\ stopAsked' = FALSE
    BY <1>1, <1>2, <2>1, Finds DEF Nothing, debuggerVars, Found, EndingProcess
  <2>6. ASSUME Here' = First(rest), open' = FALSE, Orderly
        PROVE  Found'
    BY <1>1, <2>3, <2>5, <2>6, Finds DEF Found, Asking, EndingProcess, Loading, LaunchingProgram, Resting
  <2>7. Alive /\ accepted' = FALSE /\ box' = FALSE /\ quit' = quit /\ lapses' = lapses
    BY <1>1, Finds DEF Running
  <2>. QED
    BY <2>1, <2>2, <2>3, <2>4, <2>6, <2>7, Turns
<1>3. CASE dbg # "loaded" /\ Stopped
  <2>1. Go(Tail(todo)) /\ D!EndProcess /\ dbg' = "terminating"
    BY <1>3 DEF TerminateStep, Step
  <2>2. mishaps' = mishaps /\ Ordered'
    BY <1>1, <1>3, <2>1, Finds, RequestOrder DEF D!EndProcess
  <2>3. Orderly => Found'
    <3>1. Orderly => Ends("terminating")' /\ stopAsked' = FALSE
      BY <1>1, <1>3, <2>1, Finds DEF Found, EndingProcess, Stopped, D!EndProcess, D!Notify
    <3>. QED
      BY <1>1, <2>1, <3>1, Finds DEF Found, Asking, EndingProcess, Loading, LaunchingProgram
  <2>. QED
    BY <1>1, <2>1, <2>2, <2>3, GoesOn
<1>4. CASE dbg # "loaded" /\ ~Stopped
  <2>1. Break("terminate")
    BY <1>4 DEF TerminateStep, Step
  <2>2. Orderly => "killed" \in lapses
    BY <1>1, <1>4, Finds DEF Found, EndingProcess, Stopped
  <2>. QED
    BY <1>1, <2>1, <2>2, Breaks, Excused
<1>. QED
  BY <1>2, <1>3, <1>4

(* detach does not look whether it has exited. *)
LEMMA DetachKeeps ==
  ASSUME ShellInv, DetachStep
  PROVE  ShellInv'
<1>1. Running("detach") /\ Here = "detach" /\ Behind = "detaching"
  <2>1. Running("detach")
    BY DEF DetachStep, Step
  <2>2. Here = "detach" /\ Behind \in After("detach")
    BY <2>1, Finds
  <2>. QED
    BY <2>1, <2>2, Followers
<1>2. CASE Stopped
  <2>1. Go(Tail(todo)) /\ D!EndProcess /\ dbg' = "detaching"
    BY <1>2 DEF DetachStep, Step
  <2>2. mishaps' = mishaps /\ Ordered'
    BY <1>1, <1>2, <2>1, Finds, RequestOrder DEF D!EndProcess
  <2>3. Orderly => Found'
    <3>1. Orderly => Ends("detaching")' /\ stopAsked' = FALSE
      BY <1>1, <1>2, <2>1, Finds DEF Found, EndingProcess, Stopped, D!EndProcess, D!Notify
    <3>. QED
      BY <1>1, <2>1, <3>1, Finds DEF Found, Asking, EndingProcess, Loading, LaunchingProgram
  <2>. QED
    BY <1>1, <2>1, <2>2, <2>3, GoesOn
<1>3. CASE ~Stopped
  <2>1. Break("detach")
    BY <1>3 DEF DetachStep, Step
  <2>2. Orderly => Lapsed
    BY <1>1, <1>3, Finds DEF Found, EndingProcess, Stopped, Lapsed
  <2>. QED
    BY <1>1, <2>1, <2>2, Breaks, Excused
<1>. QED
  BY <1>2, <1>3
(* A process has ended, a target is closed. *)
LEMMA CheckKeeps ==
  ASSUME ShellInv, CheckStep
  PROVE  ShellInv'
<1>1. CASE Step("ended", dbg = "loaded", Nothing, Tail(todo))
  <2>1. /\ Running("ended") /\ Here = "ended"
        /\ Behind \in {"closeTarget", "askClose", "attach", "answer", "end"}
    <3>1. Running("ended")
      BY <1>1 DEF Step
    <3>2. Here = "ended" /\ Behind \in After("ended")
      BY <3>1, Finds
    <3>. QED
      BY <3>1, <3>2, Followers
  <2>2. Orderly => Loaded /\ stopAsked = FALSE
    BY <2>1, Finds DEF Found, EndingProcess
  <2>3. CASE dbg = "loaded"
    <3>1. Go(Tail(todo)) /\ Nothing
      BY <1>1, <2>3 DEF Step
    <3>2. mishaps' = mishaps /\ Ordered'
      BY <2>1, <3>1, Finds DEF Nothing, debuggerVars, Ordered
    <3>3. Orderly => Loaded' /\ stopAsked' = FALSE
      BY <2>2, <3>1 DEF Nothing, debuggerVars
    <3>4. Orderly => Found'
      BY <2>1, <3>1, <3>3, Finds DEF Found, Asking, EndingProcess, Loading, LaunchingProgram, Resting
    <3>. QED
      BY <2>1, <3>1, <3>2, <3>4, GoesOn
  <2>4. CASE dbg # "loaded"
    <3>1. Break("ended")
      BY <1>1, <2>4 DEF Step
    <3>. QED
      BY <2>1, <2>2, <2>4, <3>1, Breaks
  <2>. QED
    BY <2>3, <2>4
<1>2. CASE Step("closed", dbg = "initial", Nothing, Tail(todo))
  <2>1. /\ Running("closed") /\ Here = "closed"
        /\ Behind \in {"connect", "disconnect", "askClose", "load", "quit", "answer", "end"}
    <3>1. Running("closed")
      BY <1>2 DEF Step
    <3>2. Here = "closed" /\ Behind \in After("closed")
      BY <3>1, Finds
    <3>. QED
      BY <3>1, <3>2, Followers
  <2>2. Orderly => Initial /\ stopAsked = FALSE
    BY <2>1, Finds DEF Found, Loading
  <2>3. CASE dbg = "initial"
    <3>1. Go(Tail(todo)) /\ Nothing
      BY <1>2, <2>3 DEF Step
    <3>2. mishaps' = mishaps /\ Ordered' /\ dbg' = "initial"
      BY <2>1, <2>3, <3>1, Finds DEF Nothing, debuggerVars, Ordered
    <3>3. Orderly => Initial' /\ stopAsked' = FALSE
      BY <2>2, <3>1 DEF Nothing, debuggerVars
    <3>4. Orderly => Found'
      BY <2>1, <3>1, <3>3, Finds DEF Found, Asking, EndingProcess, Loading, LaunchingProgram, Resting
    <3>. QED
      BY <2>1, <3>1, <3>2, <3>4, GoesOn
  <2>4. CASE dbg # "initial"
    <3>1. Break("closed")
      BY <1>2, <2>4 DEF Step
    <3>. QED
      BY <2>1, <2>2, <2>4, <3>1, Breaks
  <2>. QED
    BY <2>3, <2>4
<1>. QED
  BY <1>1, <1>2 DEF CheckStep

(* close is for a debugger with a target, and unloads the target of a process
   that has ended. *)
LEMMA CloseKeeps ==
  ASSUME ShellInv, CloseStep \/ CloseTargetStep
  PROVE  ShellInv'
<1>1. CASE CloseStep
  <2>1. Running("close") /\ Here = "close" /\ Behind = "askTerminate"
    <3>1. Running("close")
      BY <1>1 DEF CloseStep, Step
    <3>2. Here = "close" /\ Behind \in After("close")
      BY <3>1, Finds
    <3>. QED
      BY <3>1, <3>2, Followers
  <2>2. Orderly => (Loaded \/ Process) /\ stopAsked = FALSE
    BY <2>1, Finds DEF Found, Loading
  <2>3. CASE dbg \notin {"initial", "connecting", "loading", "unloading"}
    <3>1. Go(Tail(todo)) /\ Nothing
      BY <1>1, <2>3 DEF CloseStep, Step
    <3>2. mishaps' = mishaps /\ Ordered'
      BY <2>1, <3>1, Finds DEF Nothing, debuggerVars, Ordered
    <3>3. Orderly => (Loaded \/ Process)' /\ stopAsked' = FALSE
      BY <2>1, <2>2, <3>1, Finds DEF Nothing, debuggerVars, Process
    <3>4. Orderly => Found'
      BY <2>1, <3>1, <3>3, Finds
         DEF Found, Asking, EndingProcess, Loading, LaunchingProgram, Resting, Process
    <3>. QED
      BY <2>1, <3>1, <3>2, <3>4, GoesOn
  <2>4. CASE dbg \in {"initial", "connecting", "loading", "unloading"}
    <3>1. Break("close")
      BY <1>1, <2>4 DEF CloseStep, Step
    <3>. QED
      BY <2>1, <2>2, <2>4, <3>1, Breaks DEF Process
  <2>. QED
    BY <2>3, <2>4
<1>2. CASE CloseTargetStep
  <2>1. Running("closeTarget") /\ Here = "closeTarget" /\ Behind = "unloading"
    <3>1. Running("closeTarget")
      BY <1>2 DEF CloseTargetStep, Step
    <3>2. Here = "closeTarget" /\ Behind \in After("closeTarget")
      BY <3>1, Finds
    <3>. QED
      BY <3>1, <3>2, Followers
  <2>2. Orderly => Loaded /\ stopAsked = FALSE
    BY <2>1, Finds DEF Found, Loading
  <2>3. CASE dbg = "loaded"
    <3>1. Go(Tail(todo)) /\ D!CloseTarget
      BY <1>2, <2>3 DEF CloseTargetStep, Step
    <3>2. mishaps' = mishaps /\ Ordered'
      BY <2>1, <3>1, Finds, RequestOrder DEF D!CloseTarget
    <3>3. Orderly => Unloading' /\ stopAsked' = FALSE
      BY <2>2, <3>1 DEF D!CloseTarget, D!Notify
    <3>4. Orderly => Found'
      BY <2>1, <3>1, <3>3, Finds DEF Found, Asking, EndingProcess, Loading, LaunchingProgram
    <3>. QED
      BY <2>1, <3>1, <3>2, <3>4, GoesOn
  <2>4. CASE dbg # "loaded"
    <3>1. Break("closeTarget")
      BY <1>2, <2>4 DEF CloseTargetStep, Step
    <3>. QED
      BY <2>1, <2>2, <2>4, <3>1, Breaks
  <2>. QED
    BY <2>3, <2>4
<1>. QED
  BY <1>1, <1>2
(* The platform is connected to, and disconnected from, without a target. *)
LEMMA ConnectKeeps ==
  ASSUME ShellInv, ConnectStep \/ DisconnectStep
  PROVE  ShellInv'
<1>1. CASE ConnectStep
  <2>1. Running("connect") /\ Here = "connect" /\ Behind = "connecting"
    <3>1. Running("connect")
      BY <1>1 DEF ConnectStep, Step
    <3>2. Here = "connect" /\ Behind \in After("connect")
      BY <3>1, Finds
    <3>. QED
      BY <3>1, <3>2, Followers
  <2>2. Orderly => Initial /\ stopAsked = FALSE
    BY <2>1, Finds DEF Found, Loading
  <2>3. CASE dbg = "initial"
    <3>1. Go(Tail(todo)) /\ D!Connect
      BY <1>1, <2>3 DEF ConnectStep, Step
    <3>2. mishaps' = mishaps /\ Ordered'
      BY <2>1, <3>1, Finds, RequestOrder DEF D!Connect
    <3>3. Orderly => Connecting' /\ stopAsked' = FALSE
      BY <2>2, <3>1 DEF D!Connect, D!targetVars
    <3>4. Orderly => Found'
      BY <2>1, <3>1, <3>3, Finds DEF Found, Asking, EndingProcess, Loading, LaunchingProgram
    <3>. QED
      BY <2>1, <3>1, <3>2, <3>4, GoesOn
  <2>4. CASE dbg # "initial"
    <3>1. Break("connect")
      BY <1>1, <2>4 DEF ConnectStep, Step
    <3>. QED
      BY <2>1, <2>2, <2>4, <3>1, Breaks
  <2>. QED
    BY <2>3, <2>4
<1>2. CASE DisconnectStep
  <2>1. Running("disconnect") /\ Here = "disconnect" /\ Behind \in {"answer", "end"}
    <3>1. Running("disconnect")
      BY <1>2 DEF DisconnectStep, Step
    <3>2. Here = "disconnect" /\ Behind \in After("disconnect")
      BY <3>1, Finds
    <3>. QED
      BY <3>1, <3>2, Followers
  <2>2. Orderly => Initial /\ stopAsked = FALSE
    BY <2>1, Finds DEF Found, Loading
  <2>3. CASE dbg = "initial"
    <3>1. Go(Tail(todo)) /\ D!Disconnect
      BY <1>2, <2>3 DEF DisconnectStep, Step
    <3>2. mishaps' = mishaps /\ Ordered'
      BY <2>1, <3>1, Finds, RequestOrder DEF D!Disconnect
    <3>3. Orderly => Initial' /\ stopAsked' = FALSE
      BY <2>2, <3>1 DEF D!Disconnect, D!targetVars
    <3>4. Orderly => Found'
      BY <2>1, <3>1, <3>3, Finds DEF Found, Asking, EndingProcess, Loading, LaunchingProgram, Resting
    <3>. QED
      BY <2>1, <3>1, <3>2, <3>4, GoesOn
  <2>4. CASE dbg # "initial"
    <3>1. Break("disconnect")
      BY <1>2, <2>4 DEF DisconnectStep, Step
    <3>. QED
      BY <2>1, <2>2, <2>4, <3>1, Breaks
  <2>. QED
    BY <2>3, <2>4
<1>. QED
  BY <1>1, <1>2

(* A target is loaded, or attached to, the latter with or without a target. *)
LEMMA LoadKeeps ==
  ASSUME ShellInv, LoadStep \/ AttachStep
  PROVE  ShellInv'
<1>1. CASE LoadStep
  <2>1. Running("load") /\ Here = "load" /\ Behind = "loading"
    <3>1. Running("load")
      BY <1>1 DEF LoadStep, Step
    <3>2. Here = "load" /\ Behind \in After("load")
      BY <3>1, Finds
    <3>. QED
      BY <3>1, <3>2, Followers
  <2>2. Orderly => Initial /\ stopAsked = FALSE
    BY <2>1, Finds DEF Found, Loading
  <2>3. CASE dbg = "initial"
    <3>1. Go(Tail(todo)) /\ D!Load /\ reply' = "load"
      BY <1>1, <2>3 DEF LoadStep, Step
    <3>2. mishaps' = mishaps /\ Ordered'
      BY <2>1, <3>1, Finds, RequestOrder DEF D!Load
    <3>3. Orderly => LoadingFile' /\ stopAsked' = FALSE
      BY <2>2, <3>1 DEF D!Load, D!targetVars
    <3>4. Behind' = "loaded"
      BY <2>1, <3>1, Finds
    <3>5. Orderly => Found'
      BY <2>1, <3>1, <3>3, <3>4, Finds DEF Found, Asking, EndingProcess, Loading, LaunchingProgram
    <3>. QED
      BY <2>1, <3>1, <3>2, <3>5, GoesOn
  <2>4. CASE dbg # "initial"
    <3>1. Break("load")
      BY <1>1, <2>4 DEF LoadStep, Step
    <3>. QED
      BY <2>1, <2>2, <2>4, <3>1, Breaks
  <2>. QED
    BY <2>3, <2>4
<1>2. CASE AttachStep
  <2>1. Running("attach") /\ Here = "attach" /\ Behind = "loading"
    <3>1. Running("attach")
      BY <1>2 DEF AttachStep, Step
    <3>2. Here = "attach" /\ Behind \in After("attach")
      BY <3>1, Finds
    <3>. QED
      BY <3>1, <3>2, Followers
  <2>2. Orderly => (Initial \/ Loaded) /\ stopAsked = FALSE
    BY <2>1, Finds DEF Found, Loading
  <2>3. CASE dbg \in {"initial", "loaded"}
    <3>1. Go(Tail(todo)) /\ (D!Attach \/ (D!Load /\ reply' = "attachNew"))
      BY <1>2, <2>3 DEF AttachStep, Step
    <3>2. mishaps' = mishaps /\ Ordered'
      BY <2>1, <3>1, Finds, RequestOrder DEF D!Attach, D!Load
    <3>3. Orderly => (Attaching' \/ LoadingProcess') /\ stopAsked' = FALSE
      BY <2>2, <3>1 DEF D!Attach, D!Notify, D!Load, D!targetVars
    <3>4. Behind' = "attaching"
      BY <2>1, <3>1, Finds
    <3>5. Orderly => Found'
      BY <2>1, <3>1, <3>3, <3>4, Finds DEF Found, Asking, EndingProcess, Loading, LaunchingProgram
    <3>. QED
      BY <2>1, <3>1, <3>2, <3>5, GoesOn
  <2>4. CASE dbg \notin {"initial", "loaded"}
    <3>1. Break("attach")
      BY <1>2, <2>4 DEF AttachStep, Step
    <3>. QED
      BY <2>1, <2>2, <2>4, <3>1, Breaks
  <2>. QED
    BY <2>3, <2>4
<1>. QED
  BY <1>1, <1>2
(* A launch is begun; in an orderly behaviour none throws. *)
LEMMA LaunchKeeps ==
  ASSUME ShellInv, LaunchStep
  PROVE  ShellInv'
<1>1. Running("launch") /\ Here = "launch" /\ Behind = "launching"
  <2>1. Running("launch")
    BY DEF LaunchStep
  <2>2. Here = "launch" /\ Behind \in After("launch")
    BY <2>1, Finds
  <2>. QED
    BY <2>1, <2>2, Followers
<1>2. Orderly => Loaded /\ stopAsked = FALSE
  BY <1>1, Finds DEF Found, LaunchingProgram
<1>3. CASE dbg # "loaded"
  <2>1. Break("launch")
    BY <1>3 DEF LaunchStep
  <2>. QED
    BY <1>1, <1>2, <1>3, <2>1, Breaks
<1>4. CASE dbg = "loaded"
  <2>1. /\ D!LaunchBuiltin \/ D!LaunchInTerminal
        /\ IF dbg' = "launching" THEN Go(Tail(todo)) ELSE Throw
    BY <1>4 DEF LaunchStep
  <2>2. mishaps' = mishaps /\ Ordered'
    BY <1>1, <2>1, Finds, RequestOrder DEF D!LaunchBuiltin, D!LaunchInTerminal
  <2>3. Orderly => (Builtin' \/ Stubbing') /\ stopAsked' = FALSE
    <3>1. CASE D!LaunchBuiltin
      BY <1>2, <3>1, OneHelper DEF D!LaunchBuiltin, D!Notify
    <3>2. CASE D!LaunchInTerminal
      BY <1>2, <3>2, OneHelper DEF D!LaunchInTerminal, D!Notify, Orderly
    <3>. QED
      BY <2>1, <3>1, <3>2
  <2>4. CASE dbg' = "launching"
    <3>1. Orderly => Found'
      BY <1>1, <2>1, <2>3, <2>4, Finds DEF Found, Asking, EndingProcess, Loading, LaunchingProgram
    <3>. QED
      BY <1>1, <2>1, <2>2, <2>4, <3>1, GoesOn
  <2>5. CASE dbg' # "launching"
    BY <1>1, <2>1, <2>2, <2>3, <2>5, Fails
  <2>. QED
    BY <2>4, <2>5
<1>. QED
  BY <1>3, <1>4

(* A command that ends with a result, or with the exception of a failure,
   leaves the debugger as any command may find it. *)
LEMMA Settles ==
  ASSUME ShellInv, NEW step, Running(step), mishaps' = mishaps, Ordered',
         Behind \in {"answer", "end"} \/ Throw, Go(Tail(todo)) \/ Throw,
         Orderly => stopAsked' = FALSE /\ (Initial \/ Loaded \/ Runs \/ RunsFirst)'
  PROVE  ShellInv'
<1>1. ASSUME Here' \in {"answer", "end", "error"}, Orderly
      PROVE  Found'
  <2>1. Resting' /\ stopAsked' = FALSE /\ box' = FALSE
    BY <1>1, Finds DEF Resting, Process
  <2>. QED
    BY <1>1, <2>1 DEF Found, Asking, EndingProcess, Loading, LaunchingProgram
<1>2. CASE Throw
  <2>1. Here' = "error"
    BY <1>2, Moves DEF ShellInv
  <2>. QED
    BY <1>1, <1>2, <2>1, Fails
<1>3. CASE Go(Tail(todo)) /\ Behind \in {"answer", "end"}
  <2>1. Here' \in {"answer", "end"}
    BY <1>3, Finds
  <2>. QED
    BY <1>1, <1>3, <2>1, GoesOn
<1>. QED
  BY <1>2, <1>3

(* The results of launching, of loading and of connecting. *)
LEMMA ResultKeeps ==
  ASSUME ShellInv, LaunchedStep \/ LoadedStep \/ ConnectedStep
  PROVE  ShellInv'
<1>1. ASSUME Nothing
      PROVE  /\ mishaps' = mishaps /\ (Ordered => Ordered') /\ stopAsked' = stopAsked
             /\ (Initial => Initial') /\ (Loaded => Loaded') /\ (Runs => Runs')
  BY <1>1 DEF Nothing, debuggerVars, Ordered
<1>2. CASE LaunchedStep
  <2>1. Running("launched") /\ Here = "launched" /\ Behind \in {"answer", "end"}
    <3>1. Running("launched")
      BY <1>2 DEF LaunchedStep
    <3>2. Here = "launched" /\ Behind \in After("launched")
      BY <3>1, Finds
    <3>. QED
      BY <3>1, <3>2, Followers
  <2>2. Orderly => Started /\ stopAsked = FALSE
    BY <2>1, Finds DEF Found, LaunchingProgram
  <2>3. CASE dbg \notin {"loaded", "running"}
    <3>1. Break("launched")
      BY <1>2, <2>3 DEF LaunchedStep
    <3>2. Orderly => "launched" \in Excuses
      BY <2>2, <2>3, Excused DEF Started
    <3>. QED
      BY <2>1, <3>1, <3>2, Breaks
  <2>4. CASE dbg \in {"loaded", "running"}
    <3>1. Nothing /\ (Go(Tail(todo)) \/ Throw)
      BY <1>2, <2>4 DEF LaunchedStep
    <3>2. Orderly => (Loaded \/ Runs) /\ stopAsked = FALSE
      BY <2>2, <2>4 DEF Started
    <3>. QED
      BY <1>1, <2>1, <3>1, <3>2, Settles, Finds
  <2>. QED
    BY <2>3, <2>4
<1>3. CASE LoadedStep
  <2>1. Running("loaded") /\ Here = "loaded" /\ Behind \in {"answer", "end"}
    <3>1. Running("loaded")
      BY <1>3 DEF LoadedStep
    <3>2. Here = "loaded" /\ Behind \in After("loaded")
      BY <3>1, Finds
    <3>. QED
      BY <3>1, <3>2, Followers
  <2>2. Orderly => (Initial \/ Loaded) /\ stopAsked = FALSE
    BY <2>1, Finds DEF Found, Loading
  <2>3. CASE dbg \notin {"loaded", "initial"}
    <3>1. Break("loaded")
      BY <1>3, <2>3 DEF LoadedStep
    <3>. QED
      BY <2>1, <2>2, <2>3, <3>1, Breaks
  <2>4. CASE dbg \in {"loaded", "initial"}
    <3>1. Nothing /\ (Go(Tail(todo)) \/ Throw)
      BY <1>3, <2>4 DEF LoadedStep
    <3>. QED
      BY <1>1, <2>1, <2>2, <3>1, Settles, Finds
  <2>. QED
    BY <2>3, <2>4
<1>4. CASE ConnectedStep
  <2>1. Running("connected") /\ Here = "connected" /\ Behind \in {"load", "attach", "answer", "end"}
    <3>1. Running("connected")
      BY <1>4 DEF ConnectedStep
    <3>2. Here = "connected" /\ Behind \in After("connected")
      BY <3>1, Finds
    <3>. QED
      BY <3>1, <3>2, Followers
  <2>2. Orderly => Initial /\ stopAsked = FALSE
    BY <2>1, Finds DEF Found, Loading
  <2>3. Nothing /\ (Go(Tail(todo)) \/ Throw)
    BY <1>4 DEF ConnectedStep
  <2>4. CASE Throw \/ Behind \in {"answer", "end"}
    BY <1>1, <2>1, <2>2, <2>3, <2>4, Settles, Finds
  <2>5. CASE Go(Tail(todo)) /\ Behind \in {"load", "attach"}
    <3>1. Orderly => Found'
      <4>1. Orderly => Initial' /\ stopAsked' = FALSE
        BY <1>1, <2>2, <2>3
      <4>2. Here' \in {"load", "attach"} /\ box' = FALSE
        BY <2>1, <2>5, Finds
      <4>. QED
        BY <4>1, <4>2 DEF Found, Asking, EndingProcess, Loading, LaunchingProgram
    <3>. QED
      BY <1>1, <2>1, <2>3, <2>5, <3>1, GoesOn, Finds
  <2>. QED
    BY <2>1, <2>3, <2>4, <2>5
<1>. QED
  BY <1>2, <1>3, <1>4

(* A process attached to is run on, if it has stopped. *)
LEMMA AttachedKeeps ==
  ASSUME ShellInv, AttachedStep
  PROVE  ShellInv'
<1>1. Running("attached") /\ Here = "attached" /\ Behind \in {"answer", "end"}
  <2>1. Running("attached")
    BY DEF AttachedStep
  <2>2. Here = "attached" /\ Behind \in After("attached")
    BY <2>1, Finds
  <2>. QED
    BY <2>1, <2>2, Followers
<1>2. /\ Orderly => /\ stopAsked = FALSE
                    /\ Initial \/ Loaded \/ Stops \/ ("answersLate" \in lapses /\ StopsFirst)
      /\ Ordered /\ lapses' = lapses
  BY <1>1, Finds DEF Found, Loading
<1>3. CASE dbg = "stopped"
  <2>1. D!Run /\ Go(Tail(todo))
    BY <1>3 DEF AttachedStep
  <2>2. Ordered' /\ mishaps' = mishaps /\ stopAsked' = stopAsked
    BY <1>2, <2>1, RequestOrder DEF D!Run
  <2>3. Orderly => Runs' \/ RunsFirst'
    BY <1>2, <1>3, <2>1 DEF D!Run, D!Notify
  <2>. QED
    BY <1>1, <1>2, <2>1, <2>2, <2>3, Settles
<1>4. CASE dbg # "stopped"
  <2>1. Nothing /\ (Go(Tail(todo)) \/ Throw)
    BY <1>4 DEF AttachedStep
  <2>2. Ordered' /\ mishaps' = mishaps /\ stopAsked' = stopAsked
    BY <1>2, <2>1 DEF Nothing, debuggerVars, Ordered
  <2>3. Orderly => Initial' \/ Loaded'
    BY <1>2, <1>4, <2>1 DEF Nothing, debuggerVars
  <2>. QED
    BY <1>1, <1>2, <2>1, <2>2, <2>3, Settles
<1>. QED
  BY <1>3, <1>4
(* The states the progress dialogs wait out. *)
LEMMA Waits ==
  /\ DOMAIN WaitState = {"loading", "attaching", "stopping", "terminating", "detaching", "unloading"}
  /\ WaitState["loading"] = "loading" /\ WaitState["attaching"] = "launching"
  /\ WaitState["stopping"] = "running" /\ WaitState["terminating"] = "terminating"
  /\ WaitState["detaching"] = "detaching" /\ WaitState["unloading"] = "unloading"
BY DEF WaitState

(* A progress dialog is opened while the state it waits out lasts. *)
LEMMA WaitKeeps ==
  ASSUME ShellInv, WaitStep
  PROVE  ShellInv'
<1>1. PICK d \in Progress :
        /\ Running(d) /\ Nothing
        /\ IF d \in DOMAIN WaitState /\ dbg # WaitState[d] THEN Go(Tail(todo)) ELSE Show
  BY DEF WaitStep
<1>2. d \in {"loading", "attaching", "stopping", "terminating", "detaching", "unloading",
             "launching", "connecting"}
  BY Waits DEF Progress
<1>3. Here = d /\ Behind \in After(d) /\ d \in Dialogs
  BY <1>1, Finds DEF Dialogs
<1>4. /\ dbg' = dbg /\ impl' = impl /\ proc' = proc /\ reply' = reply /\ stubThread' = stubThread
      /\ helpers' = helpers /\ stopAsked' = stopAsked /\ mishaps' = mishaps /\ UNCHANGED debuggerVars
  BY <1>1 DEF Nothing, debuggerVars
<1>5. /\ open = FALSE /\ accepted = FALSE /\ box = FALSE
      /\ accepted' = FALSE /\ box' = FALSE /\ lapses' = lapses /\ (Orderly => Found)
  BY <1>1, Finds
<1>6. CASE d \in DOMAIN WaitState /\ dbg # WaitState[d]
  <2>1. Go(Tail(todo)) /\ Here' = Behind /\ d \in DOMAIN WaitState
    BY <1>1, <1>6, Finds
  <2>2. Behind # "quit"
    BY <1>2, <1>3, Followers
  <2>3. Ordered'
    <3>1. Ordered
      BY <1>1, Finds
    <3>. QED
      BY <1>4, <3>1 DEF Ordered
  <2>4. ASSUME Orderly
        PROVE  Found'
    <3>1. CASE d = "loading"
      <4>1. Behind \in {"loaded", "attaching"} /\ dbg # "loading"
        BY <1>3, <1>6, <3>1, Followers, Waits
      <4>2. Behind = "attaching" /\ Attaching
        BY <1>3, <1>5, <2>4, <3>1, <4>1 DEF Found, Loading
      <4>. QED
        BY <1>4, <1>5, <2>1, <2>4, <4>2 DEF Found, Asking, EndingProcess, Loading, LaunchingProgram
    <3>2. CASE d = "attaching"
      <4>1. Behind = "attached" /\ dbg # "launching"
        BY <1>3, <1>6, <3>2, Followers, Waits
      <4>2. Initial \/ Loaded \/ Stops
        BY <1>3, <1>5, <2>4, <3>2, <4>1 DEF Found, Loading
      <4>. QED
        BY <1>4, <1>5, <2>1, <2>4, <4>1, <4>2 DEF Found, Asking, EndingProcess, Loading, LaunchingProgram
    <3>3. CASE d = "stopping"
      <4>1. Behind \in {"terminate", "detach"} /\ dbg # "running"
        BY <1>3, <1>6, <3>3, Followers, Waits
      <4>2. Stops \/ Zombie
        BY <1>3, <1>5, <2>4, <3>3, <4>1 DEF Found, EndingProcess, Process
      <4>. QED
        BY <1>4, <1>5, <2>1, <2>4, <4>1, <4>2 DEF Found, Asking, EndingProcess, Loading, LaunchingProgram
    <3>4. CASE d \in {"terminating", "detaching", "unloading"}
      <4>1. dbg # d
        BY <1>6, <3>4, Waits
      <4>. QED
        BY <1>3, <1>5, <2>4, <3>4, <4>1 DEF Found, EndingProcess, Loading
    <3>. QED
      BY <2>1, <3>1, <3>2, <3>3, <3>4, Waits
  <2>. QED
    BY <1>1, <1>4, <2>1, <2>2, <2>3, <2>4, GoesOn
<1>7. CASE ~(d \in DOMAIN WaitState /\ dbg # WaitState[d])
  <2>1. Show
    BY <1>1, <1>7
  <2>2. Here' = Here /\ Behind' = Behind /\ open' = TRUE
    BY <1>1, <1>3, <2>1, Moves DEF ShellInv
  <2>3. ASSUME Orderly
        PROVE  Found'
    <3>1. CASE d = "loading"
      <4>1. dbg = "loading"
        BY <1>7, <3>1, Waits
      <4>. QED
        BY <1>3, <1>4, <1>5, <2>2, <2>3, <3>1, <4>1
           DEF Found, Asking, EndingProcess, Loading, LaunchingProgram
    <3>2. CASE d = "attaching"
      <4>1. dbg = "launching"
        BY <1>7, <3>2, Waits
      <4>. QED
        BY <1>3, <1>4, <1>5, <2>2, <2>3, <3>2, <4>1
           DEF Found, Asking, EndingProcess, Loading, LaunchingProgram
    <3>3. CASE d = "stopping"
      <4>1. dbg = "running"
        BY <1>7, <3>3, Waits
      <4>2. Runs \/ RunsFirst
        BY <1>3, <1>5, <2>3, <3>3, <4>1 DEF Found, EndingProcess, Process
      <4>. QED
        BY <1>3, <1>4, <1>5, <2>2, <2>3, <3>3, <4>2
           DEF Found, Asking, EndingProcess, Loading, LaunchingProgram
    <3>4. CASE d \in {"terminating", "detaching", "unloading", "launching", "connecting"}
      BY <1>3, <1>4, <1>5, <2>2, <2>3, <3>4
         DEF Found, Asking, EndingProcess, Loading, LaunchingProgram
    <3>. QED
      BY <1>2, <3>1, <3>2, <3>3, <3>4
  <2>. QED
    BY <1>1, <1>3, <1>4, <2>1, <2>3, Opens
<1>. QED
  BY <1>6, <1>7

(* A question is asked only when there is something to lose. *)
LEMMA AskKeeps ==
  ASSUME ShellInv, AskStep
  PROVE  ShellInv'
<1>1. PICK q \in Questions :
        /\ Running(q) /\ Nothing
        /\ IF dbg = "initial" \/ (q = "askTerminate" /\ dbg = "loaded")
           THEN Go(Tail(todo)) ELSE Show
  BY DEF AskStep
<1>2. Here = q /\ Behind \in After(q) /\ q \in Dialogs /\ q \in {"askTerminate", "askClose"}
  BY <1>1, Finds DEF Dialogs, Questions
<1>3. /\ dbg' = dbg /\ impl' = impl /\ proc' = proc /\ reply' = reply /\ stubThread' = stubThread
      /\ helpers' = helpers /\ stopAsked' = stopAsked /\ mishaps' = mishaps /\ UNCHANGED debuggerVars
  BY <1>1 DEF Nothing, debuggerVars
<1>4. /\ open = FALSE /\ accepted = FALSE /\ box = FALSE
      /\ accepted' = FALSE /\ box' = FALSE /\ lapses' = lapses /\ (Orderly => Found)
  BY <1>1, Finds
<1>5. Orderly => (Initial \/ Loaded \/ Process) /\ stopAsked = FALSE
  BY <1>2, <1>4 DEF Found, Asking, Resting
<1>6. Orderly => (Initial \/ Loaded \/ Process)'
  BY <1>3, <1>4, <1>5 DEF Process
<1>7. CASE dbg = "initial" \/ (q = "askTerminate" /\ dbg = "loaded")
  <2>1. Go(Tail(todo)) /\ Here' = Behind /\ open' = FALSE
    BY <1>1, <1>7, Finds
  <2>2. Ordered'
    BY <1>1, <1>3, Finds DEF Ordered
  <2>3. CASE q = "askTerminate"
    <3>1. Behind \in {"closeTarget", "askClose", "attach"}
      BY <1>2, <2>3, Followers
    <3>2. Orderly => Initial' \/ Loaded'
      BY <1>3, <1>5, <1>7 DEF Process
    <3>3. Orderly /\ Behind = "closeTarget" => dbg # "initial"
      BY <1>2, <1>4, <2>3 DEF Found, Asking
    <3>4. Orderly => Found'
      BY <1>3, <1>4, <1>5, <2>1, <3>1, <3>2, <3>3
         DEF Found, Asking, EndingProcess, Loading, LaunchingProgram, Resting
    <3>. QED
      BY <1>1, <1>3, <2>1, <2>2, <3>1, <3>4, GoesOn
  <2>4. CASE q = "askClose"
    <3>1. Behind \in {"connect", "disconnect", "askClose", "load"}
      BY <1>2, <2>4, Followers
    <3>2. Orderly => Initial'
      BY <1>3, <1>5, <1>7, <2>4 DEF Process
    <3>3. Orderly => Found'
      BY <1>3, <1>4, <1>5, <2>1, <3>1, <3>2
         DEF Found, Asking, EndingProcess, Loading, LaunchingProgram, Resting
    <3>. QED
      BY <1>1, <1>3, <2>1, <2>2, <3>1, <3>3, GoesOn
  <2>. QED
    BY <1>2, <2>3, <2>4
<1>8. CASE ~(dbg = "initial" \/ (q = "askTerminate" /\ dbg = "loaded"))
  <2>1. Show
    BY <1>1, <1>8
  <2>2. Here' = Here /\ Behind' = Behind /\ open' = TRUE
    BY <1>1, <1>2, <2>1, Moves DEF ShellInv
  <2>3. Orderly => Found'
    <3>1. Orderly => Resting'
      BY <1>4, <1>6 DEF Resting
    <3>2. Orderly => Asking'
      BY <1>2, <1>3, <1>8, <2>2, <3>1 DEF Asking
    <3>. QED
      BY <1>2, <1>3, <1>4, <1>5, <2>2, <3>2 DEF Found, EndingProcess, Loading, LaunchingProgram
  <2>. QED
    BY <1>1, <1>2, <1>3, <2>1, <2>3, Opens
<1>. QED
  BY <1>7, <1>8

(* The window has been closed. *)
LEMMA QuitKeeps ==
  ASSUME ShellInv, QuitStep
  PROVE  ShellInv'
<1>1. /\ todo = <<"quit">> /\ todo' = <<>> /\ quit' = TRUE /\ box = FALSE /\ open = FALSE
      /\ broken = "none" /\ open' = open /\ accepted' = accepted /\ box' = box /\ broken' = broken
      /\ lapses' = lapses /\ UNCHANGED debuggerVars
  BY DEF QuitStep, Alive, ShellInv, Shell
<1>2. Here = "quit" /\ Here' = "end" /\ Chain(todo, "end")'
  <2>1. Chain(todo', "end") /\ First(todo') = "end" /\ First(todo) = "quit"
    BY <1>1, CommandChains
  <2>. QED
    BY <2>1 DEF Here
<1>3. dbg = "initial" /\ Ordered
  BY <1>2 DEF ShellInv, Leaves
<1>4. Ordered' /\ dbg' = "initial" /\ mishaps' = mishaps
  BY <1>1, <1>3 DEF debuggerVars, Ordered
<1>5. Shell'
  BY <1>1, <1>2 DEF ShellInv, Shell
<1>6. Leaves'
  BY <1>1, <1>4 DEF Leaves
<1>7. Orderly' => OrderlyInv'
  BY <1>1 DEF OrderlyInv, Alive
<1>. QED
  BY <1>1, <1>2, <1>5, <1>6, <1>7 DEF ShellInv
LEMMA FlowKeeps ==
  ASSUME ShellInv, Flow
  PROVE  ShellInv'
BY StopKeeps, TerminateKeeps, DetachKeeps, CheckKeeps, CloseKeeps, ConnectKeeps, LoadKeeps,
   LaunchKeeps, ResultKeeps, AttachedKeeps, WaitKeeps, AskKeeps, QuitKeeps DEF Flow

-----------------------------------------------------------------------------
(***************************************************************************)
(* The user                                                                *)
(***************************************************************************)
(* What a command given by the user finds. *)
LEMMA FreeFinds ==
  ASSUME ShellInv, Free
  PROVE  /\ Here = "end" /\ todo = <<>> /\ open = FALSE /\ accepted = FALSE /\ box = FALSE /\ Ordered
         /\ Orderly => (Initial \/ Loaded \/ Process) /\ stopAsked = FALSE
<1>1. Here = "end" /\ todo = <<>> /\ box = FALSE /\ Alive
  BY Underway DEF ShellInv, Shell, Free
<1>2. "end" \notin Dialogs
  BY Waits DEF Dialogs, Progress, Questions
<1>3. open = FALSE /\ accepted = FALSE
  BY <1>1, <1>2 DEF ShellInv, Shell
<1>4. Orderly => (Initial \/ Loaded \/ Process) /\ stopAsked = FALSE
  BY <1>1 DEF ShellInv, OrderlyInv, Found, Asking, Resting
<1>. QED
  BY <1>1, <1>3, <1>4 DEF ShellInv, Leaves

(* A command starts with a step the debugger is ready for. *)
LEMMA CommandKeeps ==
  ASSUME ShellInv, NEW steps, Command(steps), Chain(steps, "end"),
         \/ First(steps) = "askClose"
         \/ First(steps) = "askTerminate" /\ Second(steps) # "closeTarget"
         \/ First(steps) = "launch" /\ dbg = "loaded"
         \/ First(steps) = "stop" /\ dbg \in {"running", "stopped"}
         \/ First(steps) = "close" /\ dbg # "initial"
         \/ First(steps) \in {"quit", "load"} /\ dbg = "initial"
  PROVE  ShellInv'
<1>1. /\ Free /\ todo' = steps /\ UNCHANGED debuggerVars /\ open' = open /\ accepted' = accepted
      /\ box' = box /\ broken' = broken /\ quit' = quit /\ lapses' = lapses
  BY DEF Command
<1>2. /\ Alive /\ open = FALSE /\ accepted = FALSE /\ box = FALSE /\ Ordered
      /\ Orderly => (Initial \/ Loaded \/ Process) /\ stopAsked = FALSE
  BY <1>1, FreeFinds DEF Free
<1>3. /\ Ordered' /\ mishaps' = mishaps /\ dbg' = dbg
      /\ Orderly => stopAsked' = FALSE
  BY <1>1, <1>2 DEF debuggerVars, Ordered
<1>4. Orderly => /\ (Initial \/ Loaded \/ Process)'
                 /\ dbg = "initial" => Initial'
                 /\ dbg # "initial" => (Loaded \/ Process)'
                 /\ dbg = "loaded" => Loaded'
                 /\ dbg \in {"running", "stopped"} => Process'
  BY <1>1, <1>2 DEF debuggerVars, Process
<1>5. ASSUME Here' = First(steps), Behind' = Second(steps), open' = FALSE, Orderly
      PROVE  Found'
  BY <1>1, <1>2, <1>3, <1>4, <1>5 DEF Found, Asking, EndingProcess, Loading, LaunchingProgram, Resting
<1>. QED
  BY <1>1, <1>2, <1>3, <1>5, Turns DEF Go

(* Continue, the steps and Interrupt. *)
LEMMA DirectKeeps ==
  ASSUME ShellInv, Direct
  PROVE  ShellInv'
<1>1. /\ Here = "end" /\ todo = <<>> /\ open = FALSE /\ accepted = FALSE /\ box = FALSE /\ Ordered
      /\ Orderly => (Initial \/ Loaded \/ Process) /\ stopAsked = FALSE
      /\ broken = "none" /\ quit = FALSE
  BY FreeFinds DEF Direct, Free, Alive, ShellInv, Shell
<1>2. ASSUME UNCHANGED <<todo, open, accepted, box, quit, lapses>>, mishaps' = mishaps, Ordered',
             Orderly => IF broken' = "none" THEN (Initial \/ Loaded \/ Process)' /\ stopAsked' = FALSE
                        ELSE broken' \in Excuses
      PROVE  ShellInv'
  <2>1. Here' = "end" /\ Chain(todo, "end")'
    BY <1>1, <1>2 DEF Here, ShellInv
  <2>2. Shell' /\ Leaves'
    BY <1>1, <1>2, <2>1 DEF ShellInv, Shell, Leaves
  <2>3. Orderly /\ broken' = "none" => Found'
    BY <1>1, <1>2, <2>1 DEF Found, Asking, EndingProcess, Loading, LaunchingProgram, Resting
  <2>4. Orderly' => OrderlyInv'
    BY <1>1, <1>2, <2>3 DEF Orderly, OrderlyInv, Alive, Excuses
  <2>. QED
    BY <1>2, <2>1, <2>2, <2>4 DEF ShellInv
<1>3. CASE Stopped /\ D!Run /\ UNCHANGED shellVars
  <2>1. Ordered' /\ mishaps' = mishaps /\ stopAsked' = stopAsked
    BY <1>1, <1>3, RequestOrder DEF D!Run
  <2>2. Orderly => Runs'
    BY <1>1, <1>3 DEF Stopped, D!Run, D!Notify, Process
  <2>. QED
    BY <1>1, <1>2, <1>3, <2>1, <2>2 DEF shellVars, Process
<1>4. CASE dbg = "running" /\ D!Stop /\ UNCHANGED shellVars
  <2>1. Ordered' /\ mishaps' = mishaps
    BY <1>1, <1>4, RequestOrder DEF D!Stop
  <2>2. Orderly => Process' /\ stopAsked' = FALSE
    BY <1>1, <1>4 DEF D!Stop, D!targetVars, Process, shellVars, Orderly
  <2>. QED
    BY <1>1, <1>2, <1>4, <2>1, <2>2 DEF shellVars
<1>5. CASE /\ dbg = "stopped" /\ ~Stopped /\ broken' = "run"
           /\ UNCHANGED <<debuggerVars, todo, open, accepted, box, failed, quit, lapses>>
  <2>1. Ordered' /\ mishaps' = mishaps
    BY <1>1, <1>5 DEF debuggerVars, Ordered
  <2>2. Orderly => "killed" \in lapses
    BY <1>1, <1>5 DEF Stopped, Process
  <2>. QED
    BY <1>2, <1>5, <2>1, <2>2, Excused
<1>. QED
  BY <1>3, <1>4, <1>5 DEF Direct

LEMMA UserKeeps ==
  ASSUME ShellInv, User
  PROVE  ShellInv'
<1>1. "end" \in After("ended") /\ "end" \in After("closed") /\ "end" \in After("connected")
  BY Followers
<1>2. CASE Start
  BY <1>2, CommandChains, CommandKeeps DEF Start
<1>3. CASE StopDebugging
  BY <1>1, <1>3, Parts, CommandKeeps DEF StopDebugging
<1>4. CASE DetachFromProcess
  BY <1>1, <1>4, Parts, CommandKeeps DEF DetachFromProcess
<1>5. CASE CloseExecutable
  BY <1>1, <1>5, Parts, CommandKeeps DEF CloseExecutable
<1>6. CASE LoadExecutable
  BY <1>6, CommandChains, CommandKeeps DEF LoadExecutable
<1>7. CASE AttachToProcess
  BY <1>7, CommandChains, CommandKeeps DEF AttachToProcess
<1>8. CASE ConnectToPlatform
  BY <1>1, <1>8, Parts, CommandKeeps DEF ConnectToPlatform
<1>9. CASE DisconnectFromPlatform
  BY <1>9, CommandChains, CommandKeeps DEF DisconnectFromPlatform
<1>10. CASE CloseWindow
  <2>1. CASE dbg = "initial"
    BY <1>10, <2>1, CommandChains, CommandKeeps DEF CloseWindow
  <2>2. CASE dbg # "initial"
    BY <1>10, <2>2, CommandChains, CommandKeeps DEF CloseWindow
  <2>. QED
    BY <2>1, <2>2
<1>. QED
  BY <1>2, <1>3, <1>4, <1>5, <1>6, <1>7, <1>8, <1>9, <1>10, DirectKeeps DEF User
(* A question is answered: the process is ended, or the target closed, before
   the command goes on; or the command is given up, as after its failure. *)
LEMMA AnswerKeeps ==
  ASSUME ShellInv, Answer
  PROVE  ShellInv'
<1>1. /\ Alive /\ open = TRUE /\ box = FALSE /\ accepted = FALSE /\ accepted' = FALSE /\ box' = FALSE
      /\ quit' = quit /\ lapses' = lapses /\ UNCHANGED debuggerVars
      /\ Head(todo) \in {"askTerminate", "askClose", "error"}
      /\ \/ Head(todo) = "askTerminate" /\ Go(TerminateSteps \o Tail(todo))
         \/ Head(todo) = "askClose" /\ Go(CloseSteps \o Tail(todo))
         \/ Go(<<>>)
  BY DEF Answer, ShellInv, Shell, Questions
<1>2. todo # <<>>
  <2>1. Here \in Dialogs /\ "end" \notin Dialogs
    BY <1>1, Waits DEF ShellInv, Shell, Dialogs, Progress, Questions
  <2>. QED
    BY <2>1, Underway DEF ShellInv
<1>3. /\ Here = Head(todo) /\ Behind \in After(Here) /\ Chain(Tail(todo), "end")
      /\ First(Tail(todo)) = Behind
  BY <1>2, Popped DEF ShellInv, Here, Behind
<1>4. Orderly => Found /\ Resting /\ stopAsked = FALSE
  BY <1>1, <1>3 DEF ShellInv, OrderlyInv, Found, Asking
<1>5. Ordered' /\ mishaps' = mishaps /\ (Orderly => stopAsked' = FALSE)
  BY <1>1, <1>4 DEF ShellInv, Leaves, Ordered, debuggerVars
<1>6. Orderly => (Initial \/ Loaded \/ Process) /\ (Initial \/ Loaded \/ Process)'
  BY <1>1, <1>4 DEF Resting, Process, debuggerVars
<1>7. CASE Here = "askTerminate" /\ Go(TerminateSteps \o Tail(todo))
  <2>. DEFINE rest == TerminateSteps \o Tail(todo)
  <2>1. Behind \in After("ended")
    BY <1>3, <1>7, Followers
  <2>2. Chain(TerminateSteps, Behind) /\ First(TerminateSteps) = "stop" /\ TerminateSteps # <<>>
    BY <2>1, Parts
  <2>3. Chain(rest, "end") /\ First(rest) = "stop"
    BY <1>3, <2>2, Linked
  <2>. HIDE DEF rest
  <2>4. Orderly => Process' \/ (Lapsed' /\ Loaded')
    <3>1. Orderly => dbg # "initial" /\ (dbg = "loaded" => Lapsed)
      BY <1>1, <1>4, <1>7 DEF Found, Asking
    <3>. QED
      BY <1>1, <1>6, <3>1 DEF Lapsed, Process, debuggerVars
  <2>5. ASSUME Here' = First(rest), open' = FALSE, Orderly
        PROVE  Found'
    BY <1>1, <1>5, <2>3, <2>4, <2>5 DEF Found, Asking, EndingProcess, Loading, LaunchingProgram
  <2>6. Go(rest)
    BY <1>7 DEF rest
  <2>. QED
    BY <1>1, <1>5, <2>3, <2>5, <2>6, Turns
<1>8. CASE Here = "askClose" /\ Go(CloseSteps \o Tail(todo))
  <2>. DEFINE rest == CloseSteps \o Tail(todo)
  <2>1. Behind \in After("closed")
    BY <1>3, <1>8, Followers
  <2>2. Chain(CloseSteps, Behind) /\ First(CloseSteps) = "close" /\ CloseSteps # <<>>
    BY <2>1, Parts
  <2>3. Chain(rest, "end") /\ First(rest) = "close"
    BY <1>3, <2>2, Linked
  <2>. HIDE DEF rest
  <2>4. Orderly => Loaded' \/ Process'
    <3>1. Orderly => dbg # "initial" /\ dbg' = dbg
      BY <1>1, <1>4, <1>8 DEF Found, Asking, debuggerVars
    <3>. QED
      BY <1>6, <3>1 DEF Process
  <2>5. ASSUME Here' = First(rest), open' = FALSE, Orderly
        PROVE  Found'
    BY <1>1, <1>5, <2>3, <2>4, <2>5 DEF Found, Asking, EndingProcess, Loading, LaunchingProgram
  <2>6. Go(rest)
    BY <1>8 DEF rest
  <2>. QED
    BY <1>1, <1>5, <2>3, <2>5, <2>6, Turns
<1>9. CASE Go(<<>>)
  <2>1. Chain(<<>>, "end") /\ First(<<>>) = "end"
    BY CommandChains
  <2>2. ASSUME Here' = First(<<>>), open' = FALSE, Orderly
        PROVE  Found'
    BY <1>1, <1>5, <1>6, <2>1, <2>2 DEF Found, Asking, EndingProcess, Loading, LaunchingProgram, Resting
  <2>. QED
    BY <1>1, <1>5, <1>9, <2>1, <2>2, Turns
<1>. QED
  BY <1>1, <1>3, <1>7, <1>8, <1>9

(* The loop of an accepted progress dialog is left, in the state reached by then. *)
LEMMA ResumeKeeps ==
  ASSUME ShellInv, Resume
  PROVE  ShellInv'
<1>1. /\ Alive /\ open = TRUE /\ box = FALSE /\ accepted = TRUE /\ accepted' = FALSE /\ box' = FALSE
      /\ quit' = quit /\ lapses' = lapses /\ UNCHANGED debuggerVars /\ Go(Tail(todo))
      /\ Head(todo) = "attaching" /\ reply = "attach" => "answersLate" \in lapses
  BY DEF Resume, ShellInv, Shell
<1>2. Here \in {"loading", "attaching", "stopping", "terminating", "detaching", "unloading",
                "launching", "connecting"}
  BY <1>1, Waits DEF ShellInv, Shell, Progress
<1>3. /\ Here = Head(todo) /\ Behind \in After(Here) /\ Chain(Tail(todo), "end")
      /\ First(Tail(todo)) = Behind
  <2>1. todo # <<>>
    BY <1>2, Underway DEF ShellInv
  <2>. QED
    BY <2>1, Popped DEF ShellInv, Here, Behind
<1>4. Orderly => Found /\ stopAsked = FALSE
  BY <1>1 DEF ShellInv, OrderlyInv, Found
<1>5. Ordered' /\ mishaps' = mishaps /\ (Orderly => stopAsked' = FALSE)
  BY <1>1, <1>4 DEF ShellInv, Leaves, Ordered, debuggerVars
<1>6. /\ Initial => Initial'
      /\ Loaded => Loaded'
      /\ Runs => Runs'
      /\ Stops => Stops'
      /\ Zombie => Zombie'
      /\ Attached => Attached'
      /\ StopsFirst => StopsFirst'
  BY <1>1 DEF debuggerVars
<1>7. Behind \notin {"quit", "error"}
  BY <1>2, <1>3, Followers
<1>8. ASSUME Here' = Behind, open' = FALSE, Orderly
      PROVE  Found'
  <2>1. CASE Here \in {"terminating", "detaching"}
    <3>1. Behind = "ended" /\ Loaded'
      BY <1>1, <1>3, <1>4, <1>6, <1>8, <2>1, Followers DEF Found, EndingProcess
    <3>. QED
      BY <1>1, <1>5, <1>8, <3>1 DEF Found, Asking, EndingProcess, Loading, LaunchingProgram
  <2>2. CASE Here \in {"unloading", "connecting"}
    <3>1. Behind \in {"closed", "connected"} /\ Initial'
      BY <1>1, <1>3, <1>4, <1>6, <1>8, <2>2, Followers DEF Found, Loading
    <3>. QED
      BY <1>1, <1>5, <1>8, <3>1 DEF Found, Asking, EndingProcess, Loading, LaunchingProgram
  <2>3. CASE Here = "stopping"
    <3>1. Behind \in {"terminate", "detach"}
      BY <1>3, <2>3, Followers
    <3>2. Stops' \/ Zombie' \/ (Loaded' /\ (Behind = "detach" => Lapsed'))
      BY <1>1, <1>4, <1>6, <1>8, <2>3 DEF Found, EndingProcess, Lapsed
    <3>. QED
      BY <1>1, <1>5, <1>8, <3>1, <3>2 DEF Found, Asking, EndingProcess, Loading, LaunchingProgram
  <2>4. CASE Here = "loading"
    <3>1. Behind \in {"loaded", "attaching"}
      BY <1>3, <2>4, Followers
    <3>2. IF Behind = "loaded" THEN Initial' \/ Loaded'
          ELSE Initial' \/ Attached' \/ Stops' \/ Loaded'
      BY <1>1, <1>4, <1>6, <1>8, <2>4, <3>1 DEF Found, Loading
    <3>. QED
      BY <1>1, <1>5, <1>8, <3>1, <3>2 DEF Found, Asking, EndingProcess, Loading, LaunchingProgram
  <2>5. CASE Here = "attaching"
    <3>1. Behind = "attached"
      BY <1>3, <2>5, Followers
    <3>2. Stops' \/ Loaded' \/ ("answersLate" \in lapses' /\ StopsFirst')
      BY <1>1, <1>3, <1>4, <1>6, <1>8, <2>5 DEF Found, Loading
    <3>. QED
      BY <1>1, <1>5, <1>8, <3>1, <3>2 DEF Found, Asking, EndingProcess, Loading, LaunchingProgram
  <2>6. CASE Here = "launching"
    <3>1. Behind = "launched"
      BY <1>3, <2>6, Followers
    <3>2. Started'
      BY <1>1, <1>4, <1>6, <1>8, <2>6 DEF Found, LaunchingProgram, Started
    <3>. QED
      BY <1>1, <1>5, <1>8, <3>1, <3>2 DEF Found, Asking, EndingProcess, Loading, LaunchingProgram
  <2>. QED
    BY <1>2, <2>1, <2>2, <2>3, <2>4, <2>5, <2>6
<1>. QED
  BY <1>1, <1>3, <1>5, <1>7, <1>8, Turns
-----------------------------------------------------------------------------
(***************************************************************************)
(* What is delivered                                                       *)
(***************************************************************************)
Idle == {"end", "error", "askTerminate", "askClose"}

(* Which dialog is open, when the debugger is in one of the states it can be in. *)
LEMMA Located ==
  ASSUME ShellInv, Orderly, Looping
  PROVE  /\ Known /\ Found /\ stopAsked = FALSE /\ Behind \in After(Here) \cup {"end"}
         /\ open = TRUE \/ Here = "end"
         /\ Connecting => Here = "connecting" /\ accepted = FALSE
         /\ LoadingFile => Here = "loading" /\ Behind = "loaded" /\ accepted = FALSE
         /\ LoadingProcess => Here = "loading" /\ Behind = "attaching" /\ accepted = FALSE
         /\ Unloading => Here = "unloading" /\ accepted = FALSE
         /\ Attaching => Here = "attaching" /\ accepted = FALSE
         /\ Attached => \/ Here = "attaching" /\ accepted = FALSE
                        \/ Here = "loading" /\ Behind = "attaching" /\ accepted = TRUE
         /\ StopsFirst => Here = "attaching" /\ accepted = TRUE
         /\ Both("running", "running", "program", "attach") =>
              /\ RunsFirst /\ box = FALSE
              /\ Here \in Idle \/ (Here = "stopping" /\ accepted = FALSE)
         /\ Launching => Here = "launching" /\ accepted = FALSE /\ box = FALSE
         /\ Runs => /\ box = FALSE
                    /\ \/ Here \in Idle
                       \/ Here = "stopping" /\ accepted = FALSE
                       \/ Here = "launching" /\ accepted = TRUE
         /\ Stops => /\ box = FALSE
                     /\ \/ Here \in Idle
                        \/ Here = "stopping" /\ accepted = TRUE
                        \/ Here = "loading" /\ Behind = "attaching" /\ accepted = TRUE
                        \/ Here = "attaching" /\ accepted = TRUE
                        \/ Here = "launching" /\ accepted = TRUE /\ "stopsAtOnce" \in lapses
         /\ Halted => /\ box = TRUE
                      /\ \/ Here \in Idle
                         \/ Here = "stopping" /\ accepted = FALSE
                         \/ Here = "launching" /\ accepted = TRUE /\ "stopsAtOnce" \in lapses
         /\ \A s \in {"terminating", "detaching"} : Ends(s) => Here = s /\ accepted = FALSE
<1>1. Found /\ stopAsked = FALSE
  BY DEF ShellInv, OrderlyInv, Looping, Found
<1>2. open = TRUE \/ Here = "end"
  <2>1. open = TRUE \/ todo = <<>>
    BY DEF Looping, ShellInv, Shell
  <2>. QED
    BY <2>1, Underway DEF ShellInv
<1>3. Here \in Idle \cup {"loading", "attaching", "stopping", "terminating", "detaching", "unloading",
                          "launching", "connecting"}
  BY <1>2, Waits DEF ShellInv, Shell, Dialogs, Progress, Questions, Idle
<1>4. Behind \in After(Here) \cup {"end"}
  <2>1. CASE todo = <<>>
    BY <2>1 DEF Behind, Second
  <2>2. CASE todo # <<>>
    BY <2>2, Underway DEF ShellInv
  <2>. QED
    BY <2>1, <2>2
<1>5. open \in BOOLEAN /\ accepted \in BOOLEAN /\ box \in BOOLEAN
  BY DEF ShellInv, Shell
<1>6. CASE Here \in Idle
  <2>1. Resting
    BY <1>1, <1>6 DEF Found, Asking, Idle
  <2>. QED
    BY <1>1, <1>2, <1>4, <1>5, <1>6, <2>1 DEF Known, Resting, Boxed, Process, Idle
<1>7. CASE Here = "loading"
  <2>1. Behind \in {"loaded", "attaching"}
    <3>1. todo # <<>>
      BY <1>7, Underway DEF ShellInv
    <3>. QED
      BY <1>7, <3>1, Underway, Followers DEF ShellInv
  <2>2. box = FALSE
    BY <1>1, <1>5, <1>7 DEF Found
  <2>. QED
    BY <1>1, <1>2, <1>4, <1>5, <1>7, <2>1, <2>2 DEF Known, Found, Loading
<1>8. CASE Here = "attaching"
  <2>1. box = FALSE /\ open = TRUE
    BY <1>1, <1>2, <1>5, <1>8 DEF Found
  <2>. QED
    BY <1>1, <1>2, <1>4, <1>5, <1>8, <2>1 DEF Known, Found, Loading
<1>9. CASE Here = "stopping"
  <2>1. open = TRUE
    BY <1>2, <1>9
  <2>. QED
    BY <1>1, <1>2, <1>4, <1>5, <1>9, <2>1 DEF Known, Found, EndingProcess
<1>10. CASE Here \in {"terminating", "detaching"}
  <2>1. box = FALSE
    BY <1>1, <1>5, <1>10 DEF Found
  <2>. QED
    BY <1>1, <1>2, <1>4, <1>5, <1>10, <2>1 DEF Known, Found, EndingProcess
<1>11. CASE Here \in {"unloading", "connecting"}
  <2>1. box = FALSE
    BY <1>1, <1>5, <1>11 DEF Found
  <2>. QED
    BY <1>1, <1>2, <1>4, <1>5, <1>11, <2>1 DEF Known, Found, Loading
<1>12. CASE Here = "launching"
  <2>1. CASE accepted = FALSE
    <3>1. Launching /\ box = FALSE
      <4>1. Launching
        BY <1>1, <1>12, <2>1 DEF Found, LaunchingProgram
      <4>2. impl = "loaded" => stubThread = TRUE
        BY <4>1
      <4>. QED
        BY <1>5, <4>1, <4>2 DEF ShellInv, Leaves
    <3>. QED
      BY <1>1, <1>2, <1>4, <1>5, <1>12, <2>1, <3>1, OneHelper DEF Known
  <2>2. CASE accepted = TRUE
    BY <1>1, <1>2, <1>4, <1>5, <1>12, <2>2 DEF Known, Found, LaunchingProgram, Boxed, Started
  <2>. QED
    BY <1>5, <2>1, <2>2
<1>. QED
  BY <1>3, <1>6, <1>7, <1>8, <1>9, <1>10, <1>11, <1>12
(* A notification changes nothing of the command, and accepts the dialog that
   waited for it, which is then left in time. *)
LEMMA Hears ==
  ASSUME ShellInv, NEW b \in BOOLEAN, Handled(b), open = TRUE \/ Here = "end"
  PROVE  /\ Chain(todo, "end")' /\ Here' = Here /\ Behind' = Behind
         /\ open' = open /\ broken' = broken /\ quit' = quit /\ lapses' = lapses
         /\ accepted' \in BOOLEAN
         /\ Here \in Idle => accepted = FALSE /\ accepted' = FALSE
         /\ accepted' = TRUE => open = TRUE /\ Here \in Progress
         /\ Here = "loading" => (accepted' = TRUE <=> accepted = TRUE \/ dbg' # "loading")
         /\ Here = "attaching" => (accepted' = TRUE <=> accepted = TRUE \/ dbg' # "launching")
         /\ Here = "stopping" => (accepted' = TRUE <=> accepted = TRUE \/ dbg' # "running" \/ b = TRUE)
         /\ Here = "terminating" => (accepted' = TRUE <=> accepted = TRUE \/ dbg' # "terminating")
         /\ Here = "detaching" => (accepted' = TRUE <=> accepted = TRUE \/ dbg' # "detaching")
         /\ Here = "unloading" => (accepted' = TRUE <=> accepted = TRUE \/ dbg' # "unloading")
         /\ Here = "launching" => (accepted' = TRUE <=> accepted = TRUE \/ Len(helpers') < Len(helpers))
         /\ Here = "connecting" =>
              (accepted' = TRUE <=> accepted = TRUE \/ (reply = "connect" /\ reply' = "none"))
<1>1. /\ todo' = todo /\ open' = open /\ broken' = broken /\ quit' = quit /\ lapses' = lapses
      /\ accepted' = (accepted \/ Accepts(b))
  BY DEF Handled
<1>2. Chain(todo, "end")' /\ Here' = Here /\ Behind' = Behind
  BY <1>1 DEF ShellInv, Here, Behind
<1>3. accepted' \in BOOLEAN
  <2>1. (accepted \/ Accepts(b)) \in BOOLEAN
    BY Zenon
  <2>. QED
    BY <1>1, <2>1, Zenon
<1>4. accepted' = TRUE <=> accepted = TRUE \/ Accepts(b)
  <2>1. accepted \in BOOLEAN
    BY DEF ShellInv, Shell
  <2>2. CASE accepted = TRUE
    BY <1>1, <2>2, Zenon
  <2>3. CASE accepted = FALSE
    BY <1>1, <2>3, Zenon
  <2>. QED
    BY <2>1, <2>2, <2>3
<1>5. "end" \notin Progress /\ Progress \cap Idle = {}
  BY Waits DEF Progress, Idle
<1>6. CASE open = FALSE
  <2>1. Dialog = "none" /\ Here = "end"
    BY <1>6 DEF Dialog
  <2>2. ~Accepts(b) /\ accepted = FALSE
    BY <1>6, <2>1, Waits DEF Accepts, ShellInv, Shell
  <2>3. accepted' = FALSE
    BY <1>3, <1>4, <2>2
  <2>. QED
    BY <1>1, <1>2, <2>1, <2>2, <2>3
<1>7. CASE open = TRUE
  <2>1. Here \in Dialogs /\ "end" \notin Dialogs
    BY <1>7, Waits DEF ShellInv, Shell, Dialogs, Progress, Questions
  <2>2. Dialog = Here
    BY <1>7, <2>1, Underway DEF Dialog, ShellInv
  <2>3. Accepts(b) <=>
          \/ Here \in DOMAIN WaitState /\ (dbg' # WaitState[Here] \/ (b = TRUE /\ Here = "stopping"))
          \/ Here = "launching" /\ Len(helpers') < Len(helpers)
          \/ Here = "connecting" /\ reply = "connect" /\ reply' = "none"
    BY <2>2 DEF Accepts
  <2>4. accepted = TRUE => Here \in Progress
    BY DEF ShellInv, Shell
  <2>5. Accepts(b) => Here \in Progress
    BY <2>3 DEF Progress
  <2>6. Here \in Idle => accepted = FALSE /\ accepted' = FALSE
    <3>1. accepted \in BOOLEAN
      BY DEF ShellInv, Shell
    <3>. QED
      BY <1>3, <1>4, <1>5, <2>4, <2>5, <3>1
  <2>7. accepted' = TRUE => open = TRUE /\ Here \in Progress
    BY <1>4, <1>7, <2>4, <2>5
  <2>8. CASE Here \in DOMAIN WaitState
    <3>1. accepted' = TRUE <=> accepted = TRUE \/ dbg' # WaitState[Here] \/ (b = TRUE /\ Here = "stopping")
      BY <1>4, <2>3, <2>8, Waits
    <3>. QED
      BY <1>1, <1>2, <1>3, <2>6, <2>7, <2>8, <3>1, Waits
  <2>9. CASE Here \notin DOMAIN WaitState
    BY <1>1, <1>2, <1>3, <1>4, <2>3, <2>6, <2>7, <2>9, Waits
  <2>. QED
    BY <2>8, <2>9
<1>8. open \in BOOLEAN
  BY DEF ShellInv, Shell
<1>. QED
  BY <1>6, <1>7, <1>8

(* Whether the dialog of a launch is left depends on the helper. *)
LEMMA HelperGone ==
  ASSUME Launching
  PROVE  /\ helpers' = <<>> => Len(helpers') < Len(helpers)
         /\ Launching' => ~(Len(helpers') < Len(helpers))
<1>1. \E n, g : helpers = One(n, g)
  OBVIOUS
<1>2. Len(helpers) = 1
  BY <1>1, OneHelper
<1>3. ASSUME Launching'
      PROVE  Len(helpers') = 1
  <2>1. \E n, g : helpers' = One(n, g)
    BY <1>3
  <2>. QED
    BY <2>1, OneHelper
<1>4. ASSUME helpers' = <<>>
      PROVE  Len(helpers') = 0
  BY <1>4
<1>5. helpers' = <<>> => Len(helpers') < Len(helpers)
  <2>1. helpers' = <<>> => Len(helpers') = 0
    BY <1>4
  <2>. QED
    BY <1>2, <2>1
<1>6. ASSUME Launching'
      PROVE  ~(Len(helpers') < Len(helpers))
  <2>1. Len(helpers') = 1
    BY <1>3, <1>6
  <2>. HIDE <1>6
  <2>2. Len(helpers') = 1 /\ Len(helpers) = 1 => ~(Len(helpers') < Len(helpers))
    OBVIOUS
  <2>. QED
    BY <1>2, <2>1, <2>2
<1>. QED
  BY <1>5, <1>6
(* What such a notification leaves, in an orderly behaviour or not. *)
LEMMA Reported ==
  ASSUME ShellInv, NEW b \in BOOLEAN, Handled(b), Alive, open = TRUE \/ Here = "end",
         Here # "quit", box' \in BOOLEAN, box' = TRUE => box = TRUE,
         Ordered', mishaps' = mishaps,
         box' = TRUE => impl' \in {"stopped", "loaded"} /\ reply' = "none" /\ stubThread' = FALSE,
         Orderly => Found'
  PROVE  ShellInv'
<1>1. /\ Chain(todo, "end")' /\ Here' = Here /\ Behind' = Behind /\ open' = open /\ broken' = broken
      /\ quit' = quit /\ lapses' = lapses /\ accepted' \in BOOLEAN
      /\ accepted' = TRUE => open = TRUE /\ Here \in Progress
  BY Hears
<1>2. quit = FALSE /\ broken = "none"
  BY DEF Alive, ShellInv, Shell
<1>3. todo' = todo
  BY DEF Handled
<1>4. Shell'
  BY <1>1, <1>3 DEF ShellInv, Shell
<1>5. Leaves'
  BY <1>1, <1>2 DEF Leaves
<1>6. Orderly' => OrderlyInv'
  BY <1>1, <1>2 DEF Orderly, OrderlyInv, ShellInv, Excuses
<1>. QED
  BY <1>1, <1>4, <1>5, <1>6 DEF ShellInv

(* What a loop that runs may deliver: nothing for a window that is closing. *)
LEMMA LoopRuns ==
  ASSUME ShellInv, Alive, open = TRUE \/ box = TRUE \/ todo = <<>>
  PROVE  /\ open = TRUE \/ Here = "end"
         /\ Here # "quit" /\ Here \in Steps \cup {"end"}
<1>1. open = TRUE \/ Here = "end"
  <2>1. open = TRUE \/ todo = <<>>
    BY DEF ShellInv, Shell
  <2>. QED
    BY <2>1, Underway DEF ShellInv
<1>2. "quit" \notin Dialogs
  BY Waits DEF Dialogs, Progress, Questions
<1>3. Here # "quit"
  BY <1>1, <1>2 DEF ShellInv, Shell
<1>4. Here \in Steps \cup {"end"}
  BY Underway DEF ShellInv
<1>. QED
  BY <1>1, <1>3, <1>4

(* The result of a request. *)
LEMMA ResultFinds ==
  ASSUME ShellInv, Orderly, Looping, D!Result, Handled(FALSE), box = FALSE, box' = FALSE
  PROVE  Found'
<1>1. /\ Found /\ Known /\ stopAsked = FALSE /\ (open = TRUE \/ Here = "end")
      /\ open \in BOOLEAN /\ accepted \in BOOLEAN
  BY Located DEF ShellInv, Shell
<1>2. /\ Here' = Here /\ Behind' = Behind /\ open' = open /\ lapses' = lapses /\ accepted' \in BOOLEAN
      /\ stopAsked' = FALSE
  BY <1>1, Hears, WhichResult
<1>. USE DEF Found, Asking, EndingProcess, Loading, LaunchingProgram
<1>3. CASE Connecting /\ Initial'
  <2>1. Here = "connecting" /\ accepted = FALSE
    BY <1>3, Located
  <2>2. accepted' = TRUE
    BY <1>1, <1>3, <2>1, Hears
  <2>. QED
    BY <1>2, <1>3, <2>1, <2>2
<1>4. CASE LoadingFile /\ (Initial' \/ Loaded')
  <2>1. Here = "loading" /\ Behind = "loaded"
    BY <1>4, Located
  <2>2. accepted' = TRUE
    BY <1>1, <1>4, <2>1, Hears
  <2>. QED
    BY <1>2, <1>4, <2>1, <2>2
<1>5. CASE LoadingProcess /\ (Initial' \/ Attached' \/ Stops')
  <2>1. Here = "loading" /\ Behind = "attaching"
    BY <1>5, Located
  <2>2. accepted' = TRUE
    BY <1>1, <1>5, <2>1, Hears
  <2>. QED
    BY <1>2, <1>5, <2>1, <2>2
<1>6. CASE Unloading /\ Initial'
  <2>1. Here = "unloading"
    BY <1>6, Located
  <2>2. accepted' = TRUE
    BY <1>1, <1>6, <2>1, Hears
  <2>. QED
    BY <1>2, <1>6, <2>1, <2>2
<1>7. CASE Attaching /\ (Attached' \/ Loaded')
  <2>1. Here = "attaching" /\ accepted = FALSE
    BY <1>7, Located
  <2>2. accepted' = TRUE <=> dbg' # "launching"
    BY <1>1, <2>1, Hears
  <2>. QED
    BY <1>2, <1>7, <2>1, <2>2
<1>8. CASE StopsFirst /\ Stops'
  <2>1. Here = "attaching" /\ accepted = TRUE
    BY <1>8, Located
  <2>2. accepted' = TRUE
    BY <1>1, <2>1, Hears
  <2>. QED
    BY <1>2, <1>8, <2>1, <2>2
<1>9. CASE Both("running", "running", "program", "attach") /\ Runs'
  <2>1. Here \in Idle \/ (Here = "stopping" /\ accepted = FALSE /\ open = TRUE)
    BY <1>1, <1>9, Located
  <2>2. Here = "stopping" => accepted' = FALSE
    BY <1>1, <1>2, <1>9, <2>1, Hears
  <2>. QED
    BY <1>2, <1>9, <2>1, <2>2 DEF Idle, Resting, Process
<1>10. CASE Launching /\ (Runs' \/ Loaded')
  <2>1. Here = "launching" /\ accepted = FALSE
    BY <1>10, Located
  <2>2. helpers' = <<>>
    BY <1>10
  <2>3. accepted' = TRUE
    BY <1>1, <1>10, <2>1, <2>2, HelperGone, Hears
  <2>. QED
    BY <1>2, <1>10, <2>1, <2>3 DEF Started
<1>11. CASE Launching /\ Launching'
  <2>1. Here = "launching" /\ accepted = FALSE
    BY <1>11, Located
  <2>2. accepted' = FALSE
    BY <1>1, <1>2, <1>11, <2>1, HelperGone, Hears
  <2>. QED
    BY <1>2, <1>11, <2>1, <2>2
<1>12. /\ Builtin \/ Stubbing \/ StubAttaching \/ StubRan => Launching
       /\ StubAttaching' \/ StubAttached' \/ StubReleased' => Launching'
  OBVIOUS
<1>. HIDE DEF Connecting, LoadingFile, LoadingProcess, Unloading, Attaching, StopsFirst, Both,
         Builtin, Stubbing, StubAttaching, StubRan, StubAttached, StubReleased, Launching, Initial,
         Loaded, Runs, Stops, Attached, Found
<1>. QED
  BY <1>1, <1>3, <1>4, <1>5, <1>6, <1>7, <1>8, <1>9, <1>10, <1>11, <1>12, WhichResult
(* A stop of the process. *)
LEMMA StopFinds ==
  ASSUME ShellInv, Orderly, Looping, ~Unprepared, Handled(TRUE), box = FALSE, box' = FALSE,
         D!AttachStop \/ D!ExecStop \/ D!ProgramStop \/ D!EarlyStop
  PROVE  Found'
<1>1. /\ Found /\ Known /\ stopAsked = FALSE /\ (open = TRUE \/ Here = "end")
      /\ open \in BOOLEAN /\ accepted \in BOOLEAN
  BY Located DEF ShellInv, Shell
<1>2. /\ Here' = Here /\ Behind' = Behind /\ open' = open /\ lapses' = lapses /\ accepted' \in BOOLEAN
      /\ stopAsked' = FALSE
  BY <1>1, Hears, WhichStop
<1>3. Here = "launching" /\ accepted = TRUE => "stopsAtOnce" \in lapses
  <2>1. Here = "launching" => Dialog = "launching"
    BY <1>1, Underway DEF Dialog, ShellInv
  <2>. QED
    BY <2>1 DEF Unprepared
<1>. USE DEF Found, Asking, EndingProcess, Loading, LaunchingProgram
<1>4. CASE Attaching /\ StopsFirst'
  <2>1. Here = "attaching"
    BY <1>4, Located
  <2>2. accepted' = TRUE
    BY <1>1, <1>4, <2>1, Hears
  <2>. QED
    BY <1>2, <1>4, <2>1, <2>2
<1>5. CASE Attached /\ Stops'
  <2>1. \/ Here = "attaching"
        \/ Here = "loading" /\ Behind = "attaching"
    BY <1>5, Located
  <2>2. accepted' = TRUE
    BY <1>1, <1>5, <2>1, Hears
  <2>. QED
    BY <1>2, <1>5, <2>1, <2>2
<1>6. CASE Launching /\ Runs'
  <2>1. Here = "launching" /\ accepted = FALSE
    BY <1>6, Located
  <2>2. helpers' = <<>>
    BY <1>6
  <2>3. accepted' = TRUE
    BY <1>1, <1>6, <2>1, <2>2, HelperGone, Hears
  <2>. QED
    BY <1>2, <1>6, <2>1, <2>3 DEF Started
<1>7. CASE Launching /\ Launching'
  <2>1. Here = "launching" /\ accepted = FALSE
    BY <1>7, Located
  <2>2. accepted' = FALSE
    BY <1>1, <1>2, <1>7, <2>1, HelperGone, Hears
  <2>. QED
    BY <1>2, <1>7, <2>1, <2>2
<1>8. CASE Runs /\ Stops'
  <2>1. \/ Here \in Idle
        \/ Here = "stopping"
        \/ Here = "launching" /\ accepted = TRUE /\ "stopsAtOnce" \in lapses
    BY <1>3, <1>8, Located
  <2>2. Here \in {"stopping", "launching"} => accepted' = TRUE
    BY <1>1, <1>8, <2>1, Hears DEF Idle
  <2>. QED
    BY <1>2, <1>8, <2>1, <2>2 DEF Idle, Resting, Process, Started
<1>9. /\ StubAttaching \/ StubAttached \/ StubReleased => Launching
      /\ StubRan' \/ StubReleased' => Launching'
  OBVIOUS
<1>. HIDE DEF Attaching, StopsFirst, StubAttaching, StubRan, StubAttached, StubReleased, Launching,
         Runs, Stops, Attached, Found
<1>. QED
  BY <1>1, <1>4, <1>5, <1>6, <1>7, <1>8, <1>9, WhichStop

(* The exit of the process. *)
LEMMA ExitFinds ==
  ASSUME ShellInv, Orderly, DeliverExit, box = FALSE, box' = FALSE
  PROVE  Found'
<1>1. Looping /\ D!Exit /\ Handled(FALSE)
  BY DEF DeliverExit
<1>2. /\ Found /\ Known /\ stopAsked = FALSE /\ (open = TRUE \/ Here = "end")
      /\ open \in BOOLEAN /\ accepted \in BOOLEAN
  BY <1>1, Located DEF ShellInv, Shell
<1>3. /\ Here' = Here /\ Behind' = Behind /\ open' = open /\ lapses' = lapses /\ accepted' \in BOOLEAN
  BY <1>1, <1>2, Hears
<1>4. stopAsked' = FALSE /\ Loaded' /\ (Runs \/ Ends("terminating") \/ Ends("detaching"))
  BY <1>1, <1>2, WhichExit
<1>5. Here # "end" => Dialog = Here
  BY <1>2, Underway DEF Dialog, ShellInv
<1>6. CASE Runs
  <2>1. \/ Here \in Idle
        \/ Here = "stopping" /\ accepted = FALSE
        \/ Here = "launching" /\ accepted = TRUE
    BY <1>1, <1>6, Located
  <2>2. Here = "askTerminate" => Lapsed
    BY <1>5, <1>6 DEF DeliverExit, Lapsed
  <2>3. Here = "stopping" /\ Behind = "detach" => Lapsed
    <3>1. Here = "stopping" /\ "endsMeanwhile" \notin lapses => todo[2] # "detach"
      BY <1>5, <1>6 DEF DeliverExit
    <3>2. Behind = "detach" => todo[2] = "detach"
      BY DEF Behind, Second
    <3>. QED
      BY <3>1, <3>2 DEF Lapsed
  <2>4. Here \in {"stopping", "launching"} => accepted' = TRUE
    BY <1>1, <1>2, <1>4, <2>1, Hears DEF Idle
  <2>5. Lapsed' <=> Lapsed
    BY <1>3 DEF Lapsed
  <2>6. Asking'
    BY <1>3, <1>4, <2>1, <2>2, <2>5 DEF Asking, Idle, Resting
  <2>7. EndingProcess'
    BY <1>3, <1>4, <2>1, <2>3, <2>4, <2>5 DEF EndingProcess, Idle
  <2>8. LaunchingProgram'
    BY <1>3, <1>4, <2>1, <2>4 DEF LaunchingProgram, Idle, Started
  <2>9. Loading'
    BY <1>3, <2>1 DEF Loading, Idle
  <2>. QED
    BY <1>4, <2>6, <2>7, <2>8, <2>9 DEF Found
<1>7. CASE Ends("terminating") \/ Ends("detaching")
  <2>1. Here \in {"terminating", "detaching"}
    BY <1>1, <1>7, Located
  <2>2. accepted' = TRUE
    BY <1>1, <1>2, <1>4, <2>1, Hears
  <2>. QED
    BY <1>3, <1>4, <2>1, <2>2 DEF Found, Asking, EndingProcess, Loading, LaunchingProgram
<1>. QED
  BY <1>4, <1>6, <1>7
(* A process killed where it stands, its watchpoint's box open or not. *)
LEMMA KilledFinds ==
  ASSUME ShellInv, Orderly, DeliverKilled
  PROVE  Found'
<1>1. /\ Looping /\ Handled(FALSE) /\ "killed" \in lapses /\ impl = "stopped" /\ reply = "none"
      /\ impl' = "loaded" /\ dbg' = "loaded" /\ proc' = "none" /\ stopAsked' = FALSE /\ reply' = "none"
      /\ box' = box /\ stubThread' = stubThread /\ helpers' = helpers
  BY DEF DeliverKilled, D!Notify
<1>2. /\ Found /\ Known /\ stopAsked = FALSE /\ (open = TRUE \/ Here = "end")
      /\ open \in BOOLEAN /\ accepted \in BOOLEAN /\ box \in BOOLEAN
  BY <1>1, Located DEF ShellInv, Shell
<1>3. /\ Here' = Here /\ Behind' = Behind /\ open' = open /\ lapses' = lapses /\ accepted' \in BOOLEAN
  BY <1>1, <1>2, Hears
<1>4. Stops \/ Halted
  BY <1>1, <1>2 DEF Known
<1>5. Loaded' /\ Lapsed'
  BY <1>1, <1>3, <1>4 DEF Lapsed
<1>6. CASE Stops
  <2>1. /\ box = FALSE
        /\ \/ Here \in Idle
           \/ Here = "stopping" /\ accepted = TRUE
           \/ Here = "loading" /\ Behind = "attaching" /\ accepted = TRUE
           \/ Here = "attaching" /\ accepted = TRUE
           \/ Here = "launching" /\ accepted = TRUE /\ "stopsAtOnce" \in lapses
    BY <1>1, <1>6, Located
  <2>2. Here \notin Idle => accepted' = TRUE
    BY <1>1, <1>2, <2>1, Hears
  <2>3. Asking'
    BY <1>1, <1>3, <1>5, <2>1 DEF Asking, Idle, Resting
  <2>. QED
    BY <1>1, <1>3, <1>5, <2>1, <2>2, <2>3
       DEF Found, Asking, Idle, EndingProcess, Loading, LaunchingProgram, Started
<1>7. CASE Halted
  <2>1. /\ box = TRUE
        /\ \/ Here \in Idle
           \/ Here = "stopping" /\ accepted = FALSE
           \/ Here = "launching" /\ accepted = TRUE /\ "stopsAtOnce" \in lapses
    BY <1>1, <1>7, Located
  <2>2. Here \notin Idle => accepted' = TRUE
    BY <1>1, <1>2, <2>1, Hears DEF Idle
  <2>3. Asking'
    BY <1>1, <1>3, <1>5, <2>1 DEF Asking, Idle, Resting, Boxed
  <2>. QED
    BY <1>1, <1>3, <1>5, <2>1, <2>2, <2>3
       DEF Found, Asking, Idle, EndingProcess, Loading, LaunchingProgram, Boxed
<1>. QED
  BY <1>4, <1>6, <1>7

(* A stop at a watchpoint, and the end of its message box. *)
LEMMA WatchpointFinds ==
  ASSUME ShellInv, Orderly, WatchpointStop
  PROVE  Found'
<1>1. /\ Looping /\ ~Unprepared /\ box' = TRUE
      /\ impl = "running" /\ proc = "program" /\ reply = "none" /\ helpers = <<>>
      /\ impl' = "stopped" /\ stopAsked' = FALSE /\ dbg' = dbg /\ proc' = proc /\ reply' = reply
      /\ stubThread' = stubThread /\ helpers' = helpers
      /\ todo' = todo /\ open' = open /\ accepted' = accepted /\ lapses' = lapses
  BY DEF WatchpointStop
<1>2. /\ Found /\ Known /\ stopAsked = FALSE /\ (open = TRUE \/ Here = "end")
      /\ open \in BOOLEAN /\ accepted \in BOOLEAN /\ box \in BOOLEAN
  BY <1>1, Located DEF ShellInv, Shell
<1>3. Here' = Here /\ Behind' = Behind
  BY <1>1 DEF Here, Behind
<1>4. Runs /\ Halted'
  <2>1. One(1, TRUE) # <<>>
    BY OneHelper
  <2>. QED
    BY <1>1, <1>2, <2>1 DEF Known
<1>5. Here = "launching" /\ accepted = TRUE => "stopsAtOnce" \in lapses
  <2>1. Here = "launching" => Dialog = "launching"
    BY <1>2, Underway DEF Dialog, ShellInv
  <2>. QED
    BY <1>1, <2>1 DEF Unprepared
<1>6. \/ Here \in Idle
      \/ Here = "stopping" /\ accepted = FALSE
      \/ Here = "launching" /\ accepted = TRUE
  BY <1>1, <1>4, Located
<1>7. Asking'
  BY <1>1, <1>3, <1>4, <1>6 DEF Asking, Idle, Resting, Boxed
<1>. QED
  BY <1>1, <1>2, <1>3, <1>4, <1>5, <1>6, <1>7
     DEF Found, Idle, EndingProcess, Loading, LaunchingProgram, Boxed
LEMMA BoxFinds ==
  ASSUME ShellInv, Orderly, BoxClosed
  PROVE  Found'
<1>1. /\ Alive /\ box = TRUE /\ box' = FALSE /\ dbg' = "stopped" /\ Handled(TRUE)
      /\ impl' = impl /\ proc' = proc /\ reply' = reply /\ stubThread' = stubThread
      /\ helpers' = helpers /\ stopAsked' = stopAsked
  BY DEF BoxClosed, ShellInv, Shell
<1>2. Looping
  BY <1>1 DEF Looping
<1>3. /\ Found /\ stopAsked = FALSE /\ (open = TRUE \/ Here = "end")
      /\ open \in BOOLEAN /\ accepted \in BOOLEAN
      /\ Here \in Idle \cup {"stopping", "launching"}
  BY <1>1, <1>2, Located DEF ShellInv, Shell, Found, Idle
<1>4. /\ Here' = Here /\ Behind' = Behind /\ open' = open /\ lapses' = lapses /\ accepted' \in BOOLEAN
  BY <1>1, <1>3, Hears
<1>5. Boxed
  <2>1. Here \in Idle => Resting
    BY <1>3 DEF Found, Asking, Idle
  <2>2. Here = "stopping" => Boxed
    BY <1>1, <1>2, <1>3, Located DEF Found, EndingProcess, Boxed
  <2>3. Here = "launching" => Boxed
    <3>1. Here = "launching" => accepted = TRUE
      <4>1. Here = "launching" /\ accepted = FALSE => Launching
        BY <1>3 DEF Found, LaunchingProgram
      <4>2. Launching => box = FALSE
        BY <1>2, Located
      <4>. QED
        BY <1>1, <1>3, <4>1, <4>2
    <3>. QED
      BY <1>1, <1>3, <3>1 DEF Found, LaunchingProgram
  <2>. QED
    BY <1>1, <1>3, <2>1, <2>2, <2>3 DEF Resting
<1>6. Stops' \/ Zombie'
  BY <1>1, <1>4, <1>5 DEF Boxed
<1>7. Here = "stopping" => accepted' = TRUE
  BY <1>1, <1>3, Hears
<1>8. Here = "launching" => accepted' = TRUE /\ "stopsAtOnce" \in lapses'
  <2>1. Here = "launching" => accepted = TRUE
    <3>1. Here = "launching" /\ accepted = FALSE => Launching
      BY <1>3 DEF Found, LaunchingProgram
    <3>2. Launching => box = FALSE
      BY <1>2, Located
    <3>. QED
      BY <1>1, <1>3, <3>1, <3>2
  <2>2. Here = "launching" => "stopsAtOnce" \in lapses
    BY <1>1, <1>3, <2>1 DEF Found, LaunchingProgram
  <2>. QED
    BY <1>1, <1>3, <1>4, <2>1, <2>2, Hears
<1>9. Asking'
  BY <1>1, <1>3, <1>4, <1>6 DEF Asking, Idle, Resting, Process
<1>. QED
  BY <1>1, <1>3, <1>4, <1>6, <1>7, <1>8, <1>9
     DEF Found, Idle, EndingProcess, Loading, LaunchingProgram, Started
(* Whatever is delivered keeps the invariant. *)
LEMMA DeliverKeeps ==
  ASSUME ShellInv, Deliver \/ BoxClosed
  PROVE  ShellInv'
<1>1. Ordered /\ box \in BOOLEAN
      /\ (box = TRUE => impl \in {"stopped", "loaded"} /\ reply = "none" /\ stubThread = FALSE)
      /\ (box = TRUE => open = TRUE \/ todo = <<>>)
  BY DEF ShellInv, Shell, Leaves
<1>2. Looping => Alive /\ (open = TRUE \/ Here = "end") /\ Here # "quit" /\ Here \in Steps \cup {"end"}
  BY LoopRuns DEF Looping, ShellInv, Shell
<1>3. CASE DeliverResult \/ DeliverStop \/ DeliverExit
  <2>1. /\ Looping /\ box' = box
        /\ D!Result \/ D!AttachStop \/ D!ExecStop \/ D!ProgramStop \/ D!EarlyStop \/ D!Exit
    BY <1>3 DEF DeliverResult, DeliverStop, DeliverExit
  <2>2. Ordered' /\ box = FALSE /\ box' = FALSE
    BY <1>1, <2>1, ReportOrder
  <2>3. mishaps' = mishaps
    <3>1. D!Result => mishaps' = mishaps
      BY DEF D!Result, D!Connected, D!LoadFailed, D!LoadDone, D!LaunchDone, D!StubFailed,
             D!StubLaunched, D!AttachFailed, D!AttachDone, D!Closed
    <3>. QED
      BY <2>1, <3>1 DEF D!AttachStop, D!ExecStop, D!ProgramStop, D!EarlyStop, D!Exit
  <2>4. CASE DeliverResult
    <3>1. Handled(FALSE) /\ D!Result
      BY <2>4 DEF DeliverResult
    <3>2. Orderly => Found'
      BY <2>1, <2>2, <3>1, ResultFinds
    <3>. QED
      BY <1>2, <2>1, <2>2, <2>3, <3>1, <3>2, Reported
  <2>5. CASE DeliverStop
    <3>1. /\ Handled(TRUE) /\ ~Unprepared
          /\ D!AttachStop \/ D!ExecStop \/ D!ProgramStop \/ D!EarlyStop
      BY <2>5 DEF DeliverStop
    <3>2. Orderly => Found'
      BY <2>1, <2>2, <3>1, StopFinds
    <3>. QED
      BY <1>2, <2>1, <2>2, <2>3, <3>1, <3>2, Reported
  <2>6. CASE DeliverExit
    <3>1. Handled(FALSE)
      BY <2>6 DEF DeliverExit
    <3>2. Orderly => Found'
      BY <2>2, <2>6, ExitFinds
    <3>. QED
      BY <1>2, <2>1, <2>2, <2>3, <3>1, <3>2, Reported
  <2>. QED
    BY <1>3, <2>4, <2>5, <2>6
<1>4. CASE DeliverKilled
  <2>1. /\ Looping /\ Handled(FALSE) /\ impl = "stopped" /\ reply = "none" /\ impl' = "loaded"
        /\ dbg' = "loaded" /\ proc' = "none" /\ reply' = "none" /\ stubThread' = stubThread
        /\ box' = box /\ mishaps' = mishaps
    BY <1>4 DEF DeliverKilled, D!Notify
  <2>2. stubThread = FALSE /\ Ordered'
    BY <1>1, <2>1 DEF Ordered
  <2>3. Orderly => Found'
    BY <1>4, KilledFinds
  <2>. QED
    BY <1>1, <1>2, <2>1, <2>2, <2>3, Reported
<1>5. CASE BoxClosed
  <2>1. /\ Alive /\ box = TRUE /\ box' = FALSE /\ Handled(TRUE) /\ dbg' = "stopped" /\ impl' = impl
        /\ proc' = proc /\ reply' = reply /\ stubThread' = stubThread /\ mishaps' = mishaps
    BY <1>1, <1>5 DEF BoxClosed
  <2>2. Looping
    BY <2>1 DEF Looping
  <2>3. Ordered'
    BY <1>1, <2>1 DEF Ordered, Ending
  <2>4. Orderly => Found'
    BY <1>5, BoxFinds
  <2>. QED
    BY <1>2, <2>1, <2>2, <2>3, <2>4, Reported
<1>6. CASE WatchpointStop
  <2>1. /\ Looping /\ box = FALSE /\ box' = TRUE /\ impl = "running" /\ proc = "program" /\ reply = "none"
        /\ impl' = "stopped" /\ dbg' = dbg /\ proc' = proc /\ reply' = reply /\ stubThread' = stubThread
        /\ mishaps' = mishaps /\ todo' = todo /\ open' = open /\ accepted' = accepted
        /\ broken' = broken /\ quit' = quit /\ lapses' = lapses
    BY <1>1, <1>6 DEF WatchpointStop
  <2>2. Ordered' /\ stubThread' = FALSE
    BY <1>1, <2>1 DEF Ordered, Ending
  <2>3. Here' = Here /\ Chain(todo, "end")'
    BY <2>1 DEF Here, ShellInv
  <2>4. Alive /\ quit = FALSE /\ (open = TRUE \/ todo = <<>>)
    BY <2>1 DEF Looping, Alive, ShellInv, Shell
  <2>5. Shell'
    BY <2>1, <2>3, <2>4 DEF ShellInv, Shell
  <2>6. Leaves'
    BY <1>2, <2>1, <2>2, <2>3, <2>4 DEF Leaves
  <2>7. Orderly => Found'
    BY <1>6, WatchpointFinds
  <2>8. Orderly' => OrderlyInv'
    BY <2>1, <2>7 DEF Orderly, OrderlyInv, ShellInv, Excuses
  <2>. QED
    BY <2>1, <2>3, <2>5, <2>6, <2>8 DEF ShellInv
<1>. QED
  BY <1>3, <1>4, <1>5, <1>6 DEF Deliver

-----------------------------------------------------------------------------
(***************************************************************************)
(* The invariant, and what it says of the commands                         *)
(***************************************************************************)
LEMMA InitShell == Init => ShellInv
<1>. SUFFICES ASSUME Init PROVE ShellInv
  OBVIOUS
<1>1. /\ D!Init /\ todo = <<>> /\ open = FALSE /\ accepted = FALSE /\ box = FALSE /\ quit = FALSE
      /\ broken = "none" /\ lapses \subseteq LapseKinds
  BY LapsesAssumption DEF Init
<1>2. Here = "end" /\ Chain(todo, "end")
  BY <1>1, CommandChains DEF Here
<1>3. Initial /\ stopAsked = FALSE
  BY <1>1 DEF D!Init
<1>4. Shell /\ Leaves
  BY <1>1, <1>2, <1>3 DEF Shell, Leaves, Ordered
<1>5. OrderlyInv
  BY <1>1, <1>2, <1>3
     DEF OrderlyInv, Found, Asking, EndingProcess, Loading, LaunchingProgram, Resting
<1>. QED
  BY <1>1, <1>2, <1>4, <1>5 DEF ShellInv

LEMMA StutterShell == ShellInv /\ UNCHANGED vars => ShellInv'
<1>. SUFFICES ASSUME ShellInv, UNCHANGED vars PROVE ShellInv'
  OBVIOUS
<1>1. /\ todo' = todo /\ open' = open /\ accepted' = accepted /\ box' = box /\ quit' = quit
      /\ broken' = broken /\ lapses' = lapses /\ mishaps' = mishaps /\ dbg' = dbg /\ impl' = impl
      /\ proc' = proc /\ reply' = reply /\ stubThread' = stubThread /\ helpers' = helpers
      /\ stopAsked' = stopAsked
  BY DEF vars, debuggerVars, shellVars
<1>2. Here' = Here /\ Behind' = Behind /\ Chain(todo, "end")'
  BY <1>1 DEF Here, Behind, ShellInv
<1>3. Shell' /\ Leaves'
  BY <1>1, <1>2 DEF ShellInv, Shell, Leaves, Ordered
<1>4. Found => Found'
  <2>1. Asking => Asking'
    BY <1>1, <1>2 DEF Asking, Resting, Process, Boxed, Lapsed
  <2>2. EndingProcess => EndingProcess'
    BY <1>1, <1>2 DEF EndingProcess, Process, Lapsed
  <2>3. Loading => Loading'
    BY <1>1, <1>2 DEF Loading, Process
  <2>4. LaunchingProgram => LaunchingProgram'
    BY <1>1, <1>2 DEF LaunchingProgram, Boxed, Started
  <2>. QED
    BY <1>1, <1>2, <2>1, <2>2, <2>3, <2>4 DEF Found
<1>5. Orderly' => OrderlyInv'
  BY <1>1, <1>4 DEF Orderly, OrderlyInv, ShellInv, Alive, Excuses
<1>. QED
  BY <1>1, <1>2, <1>3, <1>5 DEF ShellInv

\* In every state of every behaviour, the command under way is a chain of steps
\* that find, or wait for, the debugger in a state they are written for.
LEMMA AlwaysShell == Spec => []ShellInv
<1>1. ShellInv /\ [Next]_vars => ShellInv'
  BY UserKeeps, FlowKeeps, AnswerKeeps, ResumeKeeps, DeliverKeeps, StutterShell DEF Next
<1>. QED
  BY <1>1, InitShell, PTL DEF Spec

\* Whatever is delivered in the nested event loops of a command: in the Orderly
\* scenarios (no helper leaks) the assertions of application.cpp and
\* debugger.cpp hold, but for those of terminate, detach, run and launch that a
\* lapse is named for (BreaksOn); in every scenario the program is left without
\* a target, a request or a process; and when the user can give a command no
\* other is under way, and the state shown is the target's, but after a command
\* killed halfway, with an attach answered late, or in a scenario that is not
\* Orderly (FreeMeansSettled).
THEOREM CommandsAreSound == Spec => []ShellSound
<1>1. ASSUME ShellInv
      PROVE  ShellSound
  <2>1. AssertsHold
    BY <1>1 DEF AssertsHold, ShellInv, OrderlyInv, Excuses
  <2>2. QuitLeavesNothing
    <3>1. quit = TRUE => dbg = "initial" /\ Ordered
      BY <1>1 DEF ShellInv, Leaves
    <3>2. quit = TRUE => impl = "none" /\ reply = "none" /\ proc = "none" /\ stubThread = FALSE
      BY <3>1 DEF Ordered, Ending
    <3>. QED
      BY <1>1, <3>2 DEF QuitLeavesNothing, ShellInv, Shell
  <2>3. ASSUME Orderly
        PROVE  FreeMeansSettled
    <3>. SUFFICES ASSUME Free, lapses \cap {"killed", "answersLate"} = {}
                  PROVE  /\ reply = "none" /\ ~stubThread /\ helpers = <<>>
                         /\ dbg \in {"initial", "loaded", "running", "stopped"}
                         /\ D!FollowsTarget
      BY DEF FreeMeansSettled
    <3>1. Initial \/ Loaded \/ Process
      BY <1>1, <2>3, FreeFinds
    <3>2. "killed" \notin lapses /\ "answersLate" \notin lapses
      OBVIOUS
    <3>3. Initial \/ Loaded \/ Runs \/ Stops
      BY <3>1, <3>2 DEF Process
    <3>. QED
      BY <3>3 DEF D!FollowsTarget, D!TargetState
  <2>. QED
    BY <2>1, <2>2, <2>3 DEF ShellSound
<1>. QED
  BY <1>1, AlwaysShell, PTL
-----------------------------------------------------------------------------
(***************************************************************************)
(* The console (Console.tla)                                               *)
(*                                                                         *)
(* A command of the console is a chain of the same steps, the last of them *)
(* its answer. Its invariant says that the step before the answer is the   *)
(* one that checks what the command is for, or knows whether it failed.    *)
(***************************************************************************)
Final == [attach |-> "attached", detach |-> "ended", kill |-> "ended", launch |-> "launched",
          create |-> "loaded", delete |-> "closed", connect |-> "connected",
          disconnect |-> "disconnect"]

LastOf(q) == IF Len(q) > 0 THEN q[Len(q)] ELSE "end"
Awaits(q, c) ==
  Len(q) > 0 /\ q[Len(q)] = "answer" /\ (Len(q) > 1 => q[Len(q) - 1] = Final[c])

\* The command whose answer is outstanding and the steps that are left of it:
\* none when it was declined, its failure when it threw.
Outstanding ==
  /\ call \in DOMAIN StepsOf \cup {"none"}
  /\ call = "none" => LastOf(todo) # "answer"
  /\ call # "none" => todo = <<>> \/ Here = "error" \/ Awaits(todo, call)
  /\ call = "disconnect" /\ todo = <<>> => "declines" \in slips

\* What is so when the command c is over.
So(c) ==
  /\ c \in {"kill", "detach"} => dbg = "loaded" /\ proc = "none"
  /\ c \in {"delete", "disconnect"} => dbg = "initial" /\ impl = "none"
  /\ c = "disconnect" => platform = "host"
  /\ c = "connect" => dbg = "initial" /\ platform = "remote"
  /\ c = "create" => dbg = "loaded"
  /\ c = "launch" => dbg \in {"loaded", "running"}
  /\ c = "attach" => dbg = "running" /\ proc = "program"

Prepared == Orderly /\ "answersLate" \notin lapses
Results ==
  /\ (Here = "connecting" /\ accepted = TRUE) \/ Here = "connected" => failed = TRUE \/ platform = "remote"
  /\ Here = "answer" => So(call)

-----------------------------------------------------------------------------
(* The last steps of what is left of a command, when its first is done. *)
LEMMA LastSteps ==
  ASSUME NEW q, Chain(q, "end"), q # <<>>, NEW c
  PROVE  /\ LastOf(Tail(q)) = LastOf(q) \/ Tail(q) = <<>>
         /\ Awaits(q, c) => IF First(q) = "answer" THEN q = <<"answer">>
                            ELSE /\ Awaits(Tail(q), c) /\ Tail(q) # <<>>
                                 /\ Second(q) = "answer" => First(q) = Final[c] /\ Tail(q) = <<"answer">>
<1>. DEFINE n == Len(q)
            t == Tail(q)
<1>1. q \in Seq(Steps) /\ n \in Nat /\ n > 0
  BY DEF Chain
<1>2. \A k \in 1 .. n : (IF k = n THEN "end" ELSE q[k + 1]) \in After(q[k])
  BY DEF Chain
<1>3. t \in Seq(Steps) /\ Len(t) = n - 1 /\ \A k \in 1 .. n - 1 : t[k] = q[k + 1]
  BY <1>1
<1>4. First(q) = q[1] /\ Second(q) = IF n > 1 THEN q[2] ELSE "end"
  BY <1>1 DEF First, Second
<1>. HIDE DEF n, t
<1>5. LastOf(t) = LastOf(q) \/ t = <<>>
  <2>1. n > 1 => t[n - 1] = q[(n - 1) + 1] /\ (n - 1) + 1 = n /\ n - 1 > 0
    BY <1>1, <1>3
  <2>2. ~(n > 1) => Len(t) = 0
    BY <1>1, <1>3
  <2>. QED
    BY <1>1, <1>3, <2>1, <2>2 DEF LastOf, n
<1>6. \A k \in 1 .. n : q[k] = "answer" => k = n
  <2>1. \A s \in Steps : s # "end"
    BY DEF Steps
  <2>2. ASSUME NEW k \in 1 .. n, q[k] = "answer", k # n
        PROVE  FALSE
    <3>1. q[k + 1] \in After("answer") /\ k + 1 \in 1 .. n
      BY <1>1, <1>2, <2>2
    <3>2. q[k + 1] \in Steps /\ q[k + 1] = "end"
      BY <1>1, <3>1, Followers DEF n
    <3>. QED
      BY <2>1, <3>2
  <2>. QED
    BY <2>2
<1>7. ASSUME Awaits(q, c)
      PROVE  IF First(q) = "answer" THEN q = <<"answer">>
             ELSE /\ Awaits(t, c) /\ t # <<>>
                  /\ Second(q) = "answer" => First(q) = Final[c] /\ t = <<"answer">>
  <2>1. q[n] = "answer" /\ (n > 1 => q[n - 1] = Final[c])
    BY <1>7 DEF Awaits, n
  <2>2. CASE q[1] = "answer"
    <3>1. n = 1
      BY <1>1, <1>6, <2>2
    <3>2. q = <<"answer">>
      BY <1>1, <2>2, <3>1 DEF n
    <3>. QED
      BY <1>4, <2>2, <3>2
  <2>3. CASE q[1] # "answer"
    <3>1. n > 1 /\ n - 1 \in 1 .. n - 1 /\ Len(t) = n - 1 /\ t[n - 1] = q[(n - 1) + 1] /\ (n - 1) + 1 = n
      BY <1>1, <1>3, <2>1, <2>3
    <3>2. Len(t) > 0 /\ t[Len(t)] = "answer" /\ t # <<>>
      BY <1>1, <2>1, <3>1
    <3>3. Len(t) > 1 => n - 2 \in 1 .. n - 1 /\ t[n - 2] = q[(n - 2) + 1] /\ (n - 2) + 1 = n - 1
                        /\ Len(t) - 1 = n - 2
      BY <1>1, <1>3, <3>1
    <3>4. Awaits(t, c)
      BY <2>1, <3>1, <3>2, <3>3 DEF Awaits
    <3>5. ASSUME Second(q) = "answer"
          PROVE  First(q) = Final[c] /\ t = <<"answer">>
      <4>1. n = 2 /\ n - 1 = 1
        BY <1>1, <1>4, <1>6, <3>1, <3>5
      <4>2. t[1] = "answer" /\ Len(t) = 1
        BY <3>1, <3>2, <4>1
      <4>. QED
        BY <1>3, <1>4, <2>1, <4>1, <4>2
    <3>. QED
      BY <1>4, <2>3, <3>2, <3>4, <3>5
  <2>. QED
    BY <2>2, <2>3
<1>. QED
  BY <1>5, <1>7 DEF t

(* The last steps of a command that another one is put before. *)
LEMMA LastAppended ==
  ASSUME NEW p \in Seq(Steps), NEW q \in Seq(Steps), p # <<>>, NEW c
  PROVE  /\ LastOf(p \o q) = IF q = <<>> THEN LastOf(p) ELSE LastOf(q)
         /\ Len(p \o q) = Len(p) + Len(q)
         /\ Awaits(q, c) /\ (Len(q) > 1 \/ LastOf(p) = Final[c]) => Awaits(p \o q, c)
<1>. DEFINE r == p \o q
            m == Len(p)
            n == Len(q)
<1>1. /\ m \in Nat \ {0} /\ n \in Nat /\ Len(r) = m + n /\ (n = 0 <=> q = <<>>)
      /\ \A k \in 1 .. m : r[k] = p[k]
      /\ \A k \in 1 .. n : r[m + k] = q[k]
  OBVIOUS
<1>. HIDE DEF r
<1>2. n > 0 => r[m + n] = q[n]
  BY <1>1
<1>3. n = 0 => r[m + n] = p[m]
  BY <1>1
<1>4. LastOf(r) = IF q = <<>> THEN LastOf(p) ELSE LastOf(q)
  BY <1>1, <1>2, <1>3 DEF LastOf
<1>5. ASSUME Awaits(q, c), n > 1 \/ LastOf(p) = Final[c]
      PROVE  Awaits(r, c)
  <2>1. Len(r) > 1 /\ r[Len(r)] = "answer" /\ n > 0
    BY <1>1, <1>2, <1>5 DEF Awaits
  <2>2. CASE n > 1
    <3>1. n - 1 \in 1 .. n /\ m + (n - 1) = (m + n) - 1
      BY <1>1, <2>2
    <3>2. r[(m + n) - 1] = q[n - 1] /\ q[n - 1] = Final[c]
      BY <1>1, <1>5, <2>2, <3>1 DEF Awaits
    <3>. QED
      BY <1>1, <2>1, <3>2 DEF Awaits
  <2>3. CASE ~(n > 1)
    <3>1. n = 1 /\ (m + n) - 1 = m /\ m \in 1 .. m
      <4>. HIDE DEF m, n
      <4>. QED
        BY <1>1, <2>1, <2>3
    <3>2. r[(m + n) - 1] = p[m] /\ p[m] = Final[c]
      BY <1>1, <1>5, <2>3, <3>1 DEF LastOf
    <3>. QED
      BY <1>1, <2>1, <3>2 DEF Awaits
  <2>. QED
    BY <2>2, <2>3
<1>. QED
  BY <1>1, <1>4, <1>5 DEF r

(* The commands of the console, with their answers. *)
LEMMA ConsoleChains ==
  /\ DOMAIN StepsOf = {"attach", "detach", "kill", "launch", "create", "delete", "connect", "disconnect"}
  /\ "none" \notin DOMAIN StepsOf
  /\ \A c \in DOMAIN StepsOf :
       LET q == StepsOf[c] \o <<"answer">>
       IN  /\ Chain(q, "end") /\ Awaits(q, c) /\ q # <<>> /\ First(q) = First(StepsOf[c])
           /\ StepsOf[c] \in Seq(Steps) /\ StepsOf[c] # <<>>
  /\ First(StepsOf["attach"]) = "askTerminate" /\ First(StepsOf["connect"]) = "askClose"
  /\ Second(StepsOf["attach"] \o <<"answer">>) = "attach"
  /\ First(StepsOf["disconnect"]) = "askClose" /\ First(StepsOf["launch"]) = "launch"
  /\ First(StepsOf["kill"]) = "stop" /\ First(StepsOf["detach"]) = "stop"
  /\ First(StepsOf["create"]) = "load" /\ First(StepsOf["delete"]) = "close"
<1>. DEFINE attach == <<"attach", "loading", "attaching", "attached">>
<1>1. AttachSteps(FALSE) = <<"askTerminate">> \o attach
  <2>1. <<"askTerminate">> \o <<>> = <<"askTerminate">>
    OBVIOUS
  <2>. QED
    BY <2>1 DEF AttachSteps
<1>2. /\ DOMAIN StepsOf = {"attach", "detach", "kill", "launch", "create", "delete", "connect", "disconnect"}
      /\ StepsOf["attach"] = <<"askTerminate">> \o attach
      /\ StepsOf["detach"] = DetachSteps /\ StepsOf["kill"] = TerminateSteps
      /\ StepsOf["launch"] = LaunchSteps /\ StepsOf["create"] = <<"load", "loading", "loaded">>
      /\ StepsOf["delete"] = CloseSteps /\ StepsOf["connect"] = ConnectSteps
      /\ StepsOf["disconnect"] = DisconnectSteps
  BY <1>1 DEF StepsOf
<1>3. /\ Final["attach"] = "attached" /\ Final["detach"] = "ended" /\ Final["kill"] = "ended"
      /\ Final["launch"] = "launched" /\ Final["create"] = "loaded" /\ Final["delete"] = "closed"
      /\ Final["connect"] = "connected" /\ Final["disconnect"] = "disconnect"
  BY DEF Final
<1>4. /\ \A c \in DOMAIN StepsOf :
           /\ Chain(StepsOf[c], "answer") /\ StepsOf[c] # <<>> /\ LastOf(StepsOf[c]) = Final[c]
      /\ First(StepsOf["attach"]) = "askTerminate" /\ Second(StepsOf["attach"]) = "attach"
      /\ First(StepsOf["connect"]) = "askClose" /\ First(StepsOf["disconnect"]) = "askClose"
      /\ First(StepsOf["launch"]) = "launch" /\ First(StepsOf["kill"]) = "stop"
      /\ First(StepsOf["detach"]) = "stop" /\ First(StepsOf["create"]) = "load"
      /\ First(StepsOf["delete"]) = "close" /\ Len(StepsOf["attach"]) = 5
  <2>1. "answer" \in After("ended") /\ "answer" \in After("closed") /\ "answer" \in After("connected")
    BY Followers
  <2>2. /\ Chain(StepsOf["attach"], "answer") /\ StepsOf["attach"] # <<>>
        /\ LastOf(StepsOf["attach"]) = "attached" /\ Len(StepsOf["attach"]) = 5
        /\ First(StepsOf["attach"]) = "askTerminate" /\ Second(StepsOf["attach"]) = "attach"
    <3>. DEFINE ask == <<"askTerminate">>
    <3>1. /\ Chain(attach, "answer") /\ First(attach) = "attach" /\ attach # <<>> /\ Len(attach) = 4
          /\ LastOf(attach) = "attached" /\ attach \in Seq(Steps)
      BY DEF Chain, First, LastOf, After, Steps, Over
    <3>2. /\ Chain(ask, "attach") /\ First(ask) = "askTerminate" /\ ask # <<>> /\ Len(ask) = 1
          /\ ask \in Seq(Steps)
      BY DEF Chain, First, After, Steps, AfterAskTerminate
    <3>. HIDE DEF attach, ask
    <3>3. /\ Chain(ask \o attach, "answer") /\ First(ask \o attach) = "askTerminate"
          /\ ask \o attach # <<>> /\ Second(ask \o attach) = "attach"
      BY <3>1, <3>2, Linked
    <3>4. LastOf(ask \o attach) = "attached"
      BY <3>1, <3>2, LastAppended, Zenon
    <3>5. Len(ask \o attach) = 5
      <4>1. Len(ask \o attach) = Len(ask) + Len(attach)
        BY <3>1, <3>2, LastAppended, Zenon
      <4>. QED
        BY <3>1, <3>2, <4>1
    <3>. QED
      BY <1>2, <3>3, <3>4, <3>5 DEF ask
  <2>3. /\ Chain(StepsOf["create"], "answer") /\ StepsOf["create"] # <<>>
        /\ LastOf(StepsOf["create"]) = "loaded" /\ First(StepsOf["create"]) = "load"
    BY <1>2 DEF Chain, First, After, Steps, Over, LastOf
  <2>4. /\ Chain(StepsOf["launch"], "answer") /\ StepsOf["launch"] # <<>>
        /\ LastOf(StepsOf["launch"]) = "launched" /\ First(StepsOf["launch"]) = "launch"
    BY <1>2 DEF Chain, First, After, Steps, Over, LastOf, LaunchSteps
  <2>5. /\ Chain(StepsOf["disconnect"], "answer") /\ StepsOf["disconnect"] # <<>>
        /\ LastOf(StepsOf["disconnect"]) = "disconnect" /\ First(StepsOf["disconnect"]) = "askClose"
    BY <1>2 DEF Chain, First, After, Steps, Over, LastOf, DisconnectSteps, AfterAskClose
  <2>6. /\ Chain(StepsOf["kill"], "answer") /\ StepsOf["kill"] # <<>> /\ LastOf(StepsOf["kill"]) = "ended"
        /\ First(StepsOf["kill"]) = "stop"
    <3>1. LastOf(TerminateSteps) = "ended"
      BY DEF TerminateSteps, LastOf
    <3>. QED
      BY <1>2, <2>1, <3>1, Parts
  <2>7. /\ Chain(StepsOf["detach"], "answer") /\ StepsOf["detach"] # <<>> /\ LastOf(StepsOf["detach"]) = "ended"
        /\ First(StepsOf["detach"]) = "stop"
    <3>1. LastOf(DetachSteps) = "ended"
      BY DEF DetachSteps, LastOf
    <3>. QED
      BY <1>2, <2>1, <3>1, Parts
  <2>8. /\ Chain(StepsOf["delete"], "answer") /\ StepsOf["delete"] # <<>> /\ LastOf(StepsOf["delete"]) = "closed"
        /\ First(StepsOf["delete"]) = "close"
    <3>1. LastOf(CloseSteps) = "closed"
      BY DEF CloseSteps, LastOf
    <3>. QED
      BY <1>2, <2>1, <3>1, Parts
  <2>9. /\ Chain(StepsOf["connect"], "answer") /\ StepsOf["connect"] # <<>>
        /\ LastOf(StepsOf["connect"]) = "connected" /\ First(StepsOf["connect"]) = "askClose"
    <3>1. LastOf(ConnectSteps) = "connected"
      BY DEF ConnectSteps, LastOf
    <3>. QED
      BY <1>2, <2>1, <3>1, Parts
  <2>. QED
    BY <1>2, <1>3, <2>2, <2>3, <2>4, <2>5, <2>6, <2>7, <2>8, <2>9
<1>5. /\ Chain(<<"answer">>, "end") /\ First(<<"answer">>) = "answer" /\ <<"answer">> # <<>>
      /\ <<"answer">> \in Seq(Steps) /\ \A c : Awaits(<<"answer">>, c)
  BY DEF Chain, First, After, Steps, Awaits
<1>6. ASSUME NEW c \in DOMAIN StepsOf
      PROVE  LET q == StepsOf[c] \o <<"answer">>
             IN  /\ Chain(q, "end") /\ Awaits(q, c) /\ q # <<>> /\ First(q) = First(StepsOf[c])
                 /\ StepsOf[c] \in Seq(Steps) /\ StepsOf[c] # <<>>
                 /\ Second(q) = IF Len(StepsOf[c]) = 1 THEN "answer" ELSE Second(StepsOf[c])
  <2>1. Chain(StepsOf[c], "answer") /\ StepsOf[c] # <<>> /\ LastOf(StepsOf[c]) = Final[c]
    BY <1>4
  <2>2. StepsOf[c] \in Seq(Steps)
    BY <2>1 DEF Chain
  <2>3. Awaits(StepsOf[c] \o <<"answer">>, c)
    BY <1>5, <2>1, <2>2, LastAppended
  <2>4. /\ Chain(StepsOf[c] \o <<"answer">>, "end") /\ First(StepsOf[c] \o <<"answer">>) = First(StepsOf[c])
        /\ StepsOf[c] \o <<"answer">> # <<>>
        /\ Second(StepsOf[c] \o <<"answer">>) = IF Len(StepsOf[c]) = 1 THEN "answer" ELSE Second(StepsOf[c])
    BY <1>5, <2>1, Linked
  <2>. QED
    BY <2>1, <2>2, <2>3, <2>4
<1>7. Second(StepsOf["attach"] \o <<"answer">>) = "attach"
  <2>1. "attach" \in DOMAIN StepsOf /\ Len(StepsOf["attach"]) # 1
    BY <1>2, <1>4
  <2>. HIDE DEF StepsOf
  <2>. QED
    BY <1>4, <1>6, <2>1
<1>8. "none" \notin DOMAIN StepsOf
  BY <1>2
<1>. HIDE DEF StepsOf
<1>. QED
  BY <1>2, <1>4, <1>6, <1>7, <1>8, Zenon

-----------------------------------------------------------------------------
(* The commands of the console keep the invariant of the window's. *)
LEMMA BeginKeeps ==
  ASSUME ShellInv, NEW c \in Commands, Begin(c)
  PROVE  ShellInv'
<1>. DEFINE steps == StepsOf[c] \o <<"answer">>
<1>1. c \in DOMAIN StepsOf /\ ~Refused(c) /\ Command(steps)
  BY DEF Begin
<1>2. Chain(steps, "end") /\ First(steps) = First(StepsOf[c])
  BY <1>1, ConsoleChains
<1>. HIDE DEF steps
<1>3. CASE c # "create"
  <2>1. \/ First(steps) = "askClose"
        \/ First(steps) = "askTerminate" /\ Second(steps) # "closeTarget"
        \/ First(steps) = "launch" /\ dbg = "loaded"
        \/ First(steps) = "stop" /\ dbg \in {"running", "stopped"}
        \/ First(steps) = "close" /\ dbg # "initial"
    <3>1. c = "attach" => First(steps) = "askTerminate" /\ Second(steps) = "attach"
      BY <1>2, ConsoleChains DEF steps
    <3>. QED
      BY <1>1, <1>2, <1>3, <3>1, ConsoleChains DEF Refused
  <2>. QED
    BY <1>1, <1>2, <2>1, CommandKeeps
<1>4. CASE c = "create"
  <2>1. First(steps) = "load" /\ dbg = "initial"
    BY <1>1, <1>2, <1>4, ConsoleChains DEF Refused
  <2>. QED
    BY <1>1, <1>2, <2>1, CommandKeeps
<1>. QED
  BY <1>3, <1>4

(* So does its answer, and the exception that is its answer. *)
LEMMA AnsweredKeeps ==
  ASSUME ShellInv, Answered
  PROVE  ShellInv'
<1>1. CASE Decline
  BY <1>1, StutterShell DEF Decline
<1>2. CASE Done \/ Catch
  <2>1. /\ todo \in {<<"answer">>, <<"error">>} /\ todo' = <<>> /\ open' = FALSE
        /\ box' = box /\ accepted' = accepted /\ quit' = quit /\ broken' = broken /\ lapses' = lapses
        /\ UNCHANGED debuggerVars
    BY <1>2 DEF Done, Catch, Thrown, ShellInv, Shell
  <2>2. Here \in {"answer", "error"} /\ Here' = "end" /\ Behind' = "end" /\ Chain(todo, "end")'
    <3>1. Chain(<<>>, "end") /\ First(<<>>) = "end" /\ Second(<<>>) = "end"
      BY CommandChains DEF Second
    <3>2. First(<<"answer">>) = "answer" /\ First(<<"error">>) = "error"
      BY DEF First
    <3>. QED
      BY <2>1, <3>1, <3>2 DEF Here, Behind
  <2>3. Progress \cap {"answer", "error"} = {} /\ accepted = FALSE
    <3>1. Progress \cap {"answer", "error"} = {}
      BY Waits DEF Progress
    <3>. QED
      BY <2>2, <3>1 DEF ShellInv, Shell
  <2>4. Shell'
    BY <2>1, <2>2, <2>3 DEF ShellInv, Shell
  <2>5. /\ dbg' = dbg /\ impl' = impl /\ proc' = proc /\ reply' = reply /\ stubThread' = stubThread
        /\ helpers' = helpers /\ stopAsked' = stopAsked /\ mishaps' = mishaps
    BY <2>1 DEF debuggerVars
  <2>6. Leaves'
    BY <2>1, <2>2, <2>5 DEF ShellInv, Leaves, Ordered
  <2>7. Found => Found'
    <3>1. Found => Resting /\ stopAsked = FALSE
      BY <2>2 DEF Found, Asking
    <3>2. Resting => Resting'
      BY <2>1, <2>5 DEF Resting, Process, Boxed
    <3>. QED
      BY <2>1, <2>2, <2>5, <3>1, <3>2 DEF Found, Asking, EndingProcess, Loading, LaunchingProgram
  <2>8. Orderly' => OrderlyInv'
    BY <2>1, <2>5, <2>7 DEF Orderly, OrderlyInv, ShellInv, Alive, Excuses
  <2>. QED
    BY <2>1, <2>2, <2>4, <2>6, <2>8 DEF ShellInv
<1>. QED
  BY <1>1, <1>2 DEF Answered

LEMMA ConsoleKeepsShell ==
  ASSUME ShellInv, [ConsoleNext]_allVars
  PROVE  ShellInv'
<1>1. CASE UNCHANGED vars
  BY <1>1, StutterShell
<1>2. CASE Type
  <2>1. PICK c \in Commands : Refuse(c) \/ Begin(c) \/ Act(c) \/ Edit(c) \/ Queue(c)
    BY <1>2 DEF Type
  <2>2. CASE Begin(c)
    BY <2>2, BeginKeeps
  <2>3. CASE Refuse(c) \/ Act(c) \/ Edit(c) \/ Queue(c)
    <3>1. UNCHANGED vars \/ Direct
      BY <2>3 DEF Refuse, Act, Edit, Queue
    <3>. QED
      BY <3>1, StutterShell, DirectKeeps
  <2>. QED
    BY <2>1, <2>2, <2>3
<1>3. CASE Answered
  BY <1>3, AnsweredKeeps
<1>4. CASE AnswerLate
  BY <1>4, StutterShell DEF AnswerLate
<1>5. CASE Window
  BY <1>5, UserKeeps, FlowKeeps, AnswerKeeps, ResumeKeeps, DeliverKeeps DEF Window
<1>6. UNCHANGED allVars => UNCHANGED vars
  BY DEF allVars
<1>. QED
  BY <1>1, <1>2, <1>3, <1>4, <1>5, <1>6 DEF ConsoleNext

-----------------------------------------------------------------------------
(* Where a command is, by the step that is taken. *)
LEMMA FlowAt ==
  ASSUME ShellInv, Flow
  PROVE  /\ Here = "ended" => Step("ended", dbg = "loaded", Nothing, Tail(todo))
         /\ Here = "closed" => Step("closed", dbg = "initial", Nothing, Tail(todo))
         /\ Here = "disconnect" => DisconnectStep
         /\ Here = "launched" => LaunchedStep
         /\ Here = "loaded" => LoadedStep
         /\ Here = "connected" => ConnectedStep
         /\ Here = "attached" => AttachedStep
         /\ Here = "terminate" => TerminateStep
         /\ Here \notin {"end", "answer", "error"} /\ todo # <<>>
<1>1. \A s : Running(s) => Here = s /\ todo # <<>>
  BY Finds DEF Running
<1>2. CASE StopStep \/ DetachStep \/ CloseStep \/ CloseTargetStep \/ ConnectStep \/ LoadStep \/ AttachStep
  BY <1>1, <1>2
     DEF StopStep, DetachStep, CloseStep, CloseTargetStep, ConnectStep, LoadStep, AttachStep, Step
<1>3. CASE TerminateStep \/ DisconnectStep
  BY <1>1, <1>3 DEF TerminateStep, DisconnectStep, Step
<1>4. CASE CheckStep
  <2>1. ASSUME Step("ended", dbg = "loaded", Nothing, Tail(todo))
        PROVE  Here = "ended" /\ todo # <<>>
    BY <1>1, <2>1 DEF Step
  <2>2. ASSUME Step("closed", dbg = "initial", Nothing, Tail(todo))
        PROVE  Here = "closed" /\ todo # <<>>
    BY <1>1, <2>2 DEF Step
  <2>. QED
    BY <1>4, <2>1, <2>2 DEF CheckStep
<1>5. CASE LaunchStep \/ LaunchedStep \/ ConnectedStep \/ LoadedStep \/ AttachedStep
  BY <1>1, <1>5 DEF LaunchStep, LaunchedStep, ConnectedStep, LoadedStep, AttachedStep
<1>6. CASE QuitStep
  <2>1. todo = <<"quit">> /\ First(<<"quit">>) = "quit"
    BY <1>6 DEF QuitStep, First
  <2>. QED
    BY <2>1 DEF Here
<1>7. CASE WaitStep \/ AskStep
  <2>1. \E d \in Progress \cup Questions : Running(d)
    BY <1>7 DEF WaitStep, AskStep
  <2>2. Here \in Progress \cup Questions /\ todo # <<>>
    BY <1>1, <2>1
  <2>. QED
    BY <2>2, Waits DEF Progress, Questions
<1>. QED
  BY <1>2, <1>3, <1>4, <1>5, <1>6, <1>7 DEF Flow

(* What a step of a command may leave of it. *)
LEMMA FlowMoves ==
  ASSUME ShellInv, Flow
  PROVE  /\ accepted' = FALSE
         /\ \/ todo' = todo /\ (broken' # "none" \/ Here \in Progress \cup Questions)
            \/ todo' = Tail(todo) /\ Here # "connecting"
            \/ todo' = <<"error">>
            \/ /\ Here = "terminate" /\ dbg = "loaded" /\ UNCHANGED debuggerVars
               /\ todo' = SubSeq(todo, 4, Len(todo))
<1>1. \A s : Running(s) => Here = s /\ accepted' = FALSE
  BY Finds
<1>2. \A s : Break(s) => todo' = todo /\ broken' = s
  BY DEF Break
<1>3. CASE StopStep \/ DetachStep \/ CloseStep \/ CloseTargetStep \/ ConnectStep \/ LoadStep \/ AttachStep
  BY <1>1, <1>2, <1>3
     DEF StopStep, DetachStep, CloseStep, CloseTargetStep, ConnectStep, LoadStep, AttachStep, Step, Go
<1>4. CASE TerminateStep
  <2>1. CASE dbg = "loaded"
    BY <1>1, <1>4, <2>1 DEF TerminateStep, Step, Go, Nothing
  <2>2. CASE dbg # "loaded"
    BY <1>1, <1>2, <1>4, <2>2 DEF TerminateStep, Step, Go
  <2>. QED
    BY <2>1, <2>2
<1>5. CASE DisconnectStep
  BY <1>1, <1>2, <1>5 DEF DisconnectStep, Step, Go
<1>6. CASE CheckStep
  <2>1. ASSUME Step("ended", dbg = "loaded", Nothing, Tail(todo))
        PROVE  accepted' = FALSE /\ Here = "ended" /\ (todo' = Tail(todo) \/ (todo' = todo /\ broken' # "none"))
    BY <1>1, <1>2, <2>1 DEF Step, Go
  <2>2. ASSUME Step("closed", dbg = "initial", Nothing, Tail(todo))
        PROVE  accepted' = FALSE /\ Here = "closed" /\ (todo' = Tail(todo) \/ (todo' = todo /\ broken' # "none"))
    BY <1>1, <1>2, <2>2 DEF Step, Go
  <2>. QED
    BY <1>6, <2>1, <2>2 DEF CheckStep
<1>7. CASE LaunchStep \/ LaunchedStep \/ ConnectedStep \/ LoadedStep \/ AttachedStep
  BY <1>1, <1>2, <1>7
     DEF LaunchStep, LaunchedStep, ConnectedStep, LoadedStep, AttachedStep, Go, Throw
<1>8. CASE QuitStep
  <2>1. todo = <<"quit">> /\ First(<<"quit">>) = "quit" /\ todo' = <<>> /\ accepted' = accepted
    BY <1>8 DEF QuitStep, First
  <2>2. Here = "quit" /\ todo' = Tail(todo)
    BY <2>1 DEF Here
  <2>3. "quit" \notin Progress
    BY Waits DEF Progress
  <2>. QED
    BY <2>1, <2>2, <2>3 DEF ShellInv, Shell
<1>9. CASE WaitStep
  <2>1. PICK d \in Progress : /\ Running(d)
                              /\ IF d \in DOMAIN WaitState /\ dbg # WaitState[d] THEN Go(Tail(todo)) ELSE Show
    BY <1>9 DEF WaitStep
  <2>2. Here = d /\ accepted' = FALSE /\ "connecting" \notin DOMAIN WaitState
    BY <1>1, <2>1, Waits
  <2>. QED
    BY <2>1, <2>2 DEF Go, Show
<1>10. CASE AskStep
  <2>1. PICK d \in Questions : Running(d) /\ (Go(Tail(todo)) \/ Show)
    BY <1>10 DEF AskStep
  <2>2. Here = d /\ accepted' = FALSE /\ d # "connecting"
    BY <1>1, <2>1 DEF Questions
  <2>. QED
    BY <2>1, <2>2 DEF Go, Show
<1>. QED
  BY <1>3, <1>4, <1>5, <1>6, <1>7, <1>8, <1>9, <1>10 DEF Flow

(* An answer, or a failure, is the only step left. *)
LEMMA Lone ==
  ASSUME NEW q, Chain(q, "end"), First(q) \in {"answer", "error"}
  PROVE  q = <<First(q)>>
<1>1. q \in Seq(Steps) /\ "end" \notin Steps
  BY DEF Chain, Steps
<1>2. q # <<>>
  BY <1>1 DEF First
<1>3. First(Tail(q)) = "end" /\ First(q) = Head(q)
  BY <1>2, Popped, Followers
<1>4. Tail(q) = <<>>
  BY <1>1, <1>2, <1>3 DEF First
<1>5. Len(q) = 1 /\ First(q) = q[1]
  <2>1. Len(Tail(q)) = Len(q) - 1 /\ Len(q) \in Nat
    BY <1>1, <1>2, HeadTailProperties
  <2>2. Len(Tail(q)) = 0
    BY <1>1, <1>2, <1>4, HeadTailProperties, EmptySeq, Zenon
  <2>3. Len(q) = 1
    BY <2>1, <2>2
  <2>. QED
    BY <2>3 DEF First
<1>. DEFINE t == <<q[1]>>
<1>6. q = t
  <2>1. q[1] \in Steps
    BY <1>1, <1>5
  <2>2. t \in Seq(Steps) /\ Len(t) = 1 /\ t[1] = q[1]
    BY <2>1
  <2>. HIDE DEF t
  <2>3. \A i \in 1 .. Len(q) : q[i] = t[i]
    BY <1>5, <2>2
  <2>. QED
    BY <1>1, <1>5, <2>2, <2>3, SeqEqual
<1>. QED
  BY <1>5, <1>6 DEF t

(* The commands of the main window end without an answer. *)
LEMMA UserEnds ==
  ASSUME User
  PROVE  Free /\ LastOf(todo') # "answer"
<1>1. LastOf(<<>>) = "end"
  BY DEF LastOf
<1>2. CASE Direct
  <2>1. todo' = todo /\ todo = <<>>
    BY <1>2 DEF Direct, shellVars, Free
  <2>. QED
    BY <1>1, <1>2, <2>1 DEF Direct
<1>3. \A steps : Command(steps) => Free /\ todo' = steps
  BY DEF Command
<1>4. /\ LastOf(LaunchSteps) = "launched" /\ LastOf(TerminateSteps) = "ended" /\ LastOf(DetachSteps) = "ended"
      /\ LastOf(CloseSteps) = "closed" /\ LastOf(ConnectSteps) = "connected"
      /\ LastOf(DisconnectSteps) = "disconnect" /\ LastOf(<<"quit">>) = "quit"
  BY DEF LastOf, LaunchSteps, TerminateSteps, DetachSteps, CloseSteps, ConnectSteps, DisconnectSteps
<1>5. LastOf(CloseSteps \o <<"quit">>) = "quit"
  <2>1. CloseSteps \in Seq(Steps) /\ <<"quit">> \in Seq(Steps) /\ CloseSteps # <<>> /\ <<"quit">> # <<>>
    BY DEF CloseSteps, Steps
  <2>. QED
    BY <1>4, <2>1, LastAppended
<1>6. ASSUME NEW p \in BOOLEAN
      PROVE  LastOf(LoadSteps(p)) = "loaded" /\ LastOf(AttachSteps(p)) = "attached"
  <2>. DEFINE load == <<"load", "loading", "loaded">>
              attach == <<"attach", "loading", "attaching", "attached">>
              middle == IF p THEN ConnectSteps ELSE <<>>
  <2>1. /\ load \in Seq(Steps) /\ attach \in Seq(Steps) /\ load # <<>> /\ attach # <<>>
        /\ LastOf(load) = "loaded" /\ LastOf(attach) = "attached"
        /\ <<"askClose">> \in Seq(Steps) /\ <<"askTerminate">> \in Seq(Steps)
        /\ Len(<<"askClose">>) = 1 /\ Len(<<"askTerminate">>) = 1
    BY DEF LastOf, Steps
  <2>2. middle \in Seq(Steps)
    <3>1. ConnectSteps \in Seq(Steps) /\ <<>> \in Seq(Steps)
      BY DEF ConnectSteps, Steps
    <3>. QED
      BY <3>1
  <2>3. LoadSteps(p) = (<<"askClose">> \o middle) \o load /\ AttachSteps(p) = (<<"askTerminate">> \o middle) \o attach
    BY DEF LoadSteps, AttachSteps
  <2>. HIDE DEF load, attach, middle
  <2>4. /\ <<"askClose">> \o middle \in Seq(Steps) /\ <<"askTerminate">> \o middle \in Seq(Steps)
        /\ <<"askClose">> \o middle # <<>> /\ <<"askTerminate">> \o middle # <<>>
    BY <2>1, <2>2
  <2>5. /\ LastOf((<<"askClose">> \o middle) \o load) = LastOf(load)
        /\ LastOf((<<"askTerminate">> \o middle) \o attach) = LastOf(attach)
    BY <2>1, <2>4, LastAppended, Zenon
  <2>. QED
    BY <2>1, <2>3, <2>5
<1>7. CASE User /\ ~Direct
  <2>1. \E steps : /\ Command(steps)
                   /\ \/ steps \in {LaunchSteps, TerminateSteps, DetachSteps, CloseSteps, ConnectSteps,
                                    DisconnectSteps, <<"quit">>, CloseSteps \o <<"quit">>}
                      \/ \E p \in BOOLEAN : steps \in {LoadSteps(p), AttachSteps(p)}
    BY <1>7 DEF User, Start, StopDebugging, DetachFromProcess, CloseExecutable, LoadExecutable,
                AttachToProcess, ConnectToPlatform, DisconnectFromPlatform, CloseWindow
  <2>. QED
    BY <1>3, <1>4, <1>5, <1>6, <2>1
<1>. QED
  BY <1>2, <1>7

-----------------------------------------------------------------------------
(* The answer that is outstanding, while the application goes on. *)
LEMMA WindowOutstanding ==
  ASSUME ShellInv, Outstanding, Window, UNCHANGED slips
  PROVE  Outstanding'
<1>1. call' = call /\ ~Declined /\ ~Thrown /\ (call = "none" \/ ~Free) /\ Chain(todo, "end")
  BY DEF Window, ShellInv, consoleVars
<1>2. LastOf(<<>>) = "end" /\ LastOf(<<"error">>) = "error" /\ First(<<"error">>) = "error"
  BY DEF LastOf, First
<1>3. ASSUME call # "none"
      PROVE  Awaits(todo, call) /\ todo # <<>> /\ Here # "error"
  <2>1. Here = "error" => todo = <<"error">>
    BY <1>1, Lone DEF Here
  <2>. QED
    BY <1>1, <1>3, <2>1 DEF Outstanding, Declined, Thrown
<1>4. ASSUME call = "none" => LastOf(todo') # "answer",
             call # "none" => Here' = "error" \/ Awaits(todo', call) \/ todo' = <<>>,
             call = "disconnect" /\ todo' = <<>> => "declines" \in slips
      PROVE  Outstanding'
  BY <1>1, <1>4 DEF Outstanding, Awaits, Here
<1>5. ASSUME todo' = todo
      PROVE  Outstanding'
  BY <1>3, <1>4, <1>5 DEF Outstanding
<1>6. ASSUME todo' = Tail(todo), todo # <<>>, Here # "answer"
      PROVE  Outstanding'
  <2>1. call = "none" => LastOf(todo') # "answer"
    BY <1>1, <1>2, <1>6, LastSteps DEF Outstanding
  <2>2. call # "none" => Awaits(todo', call) /\ todo' # <<>>
    BY <1>1, <1>3, <1>6, LastSteps DEF Here
  <2>. QED
    BY <1>4, <2>1, <2>2 DEF Outstanding, ConsoleChains
<1>7. CASE User
  <2>1. call = "none" /\ LastOf(todo') # "answer"
    BY <1>1, <1>7, UserEnds
  <2>. QED
    BY <1>4, <2>1
<1>8. CASE Flow
  <2>1. Here \notin {"end", "answer", "error"} /\ todo # <<>>
    BY <1>8, FlowAt
  <2>2. CASE todo' = todo \/ todo' = Tail(todo)
    BY <1>5, <1>6, <2>1, <2>2
  <2>3. CASE todo' = <<"error">>
    <3>1. Here' = "error" /\ LastOf(todo') = "error" /\ todo' # <<>>
      BY <1>2, <2>3 DEF Here
    <3>. QED
      BY <1>4, <3>1
  <2>4. CASE Here = "terminate" /\ todo' = SubSeq(todo, 4, Len(todo))
    <3>. DEFINE r == Tail(todo)
                s == Tail(r)
    <3>1. /\ todo' = Tail(s) /\ Chain(r, "end") /\ Chain(s, "end") /\ r # <<>> /\ s # <<>>
          /\ First(r) = "terminating" /\ First(s) = "ended"
      BY <1>1, <2>4, Skipped DEF Here
    <3>. HIDE DEF s
    <3>2. LastOf(Tail(s)) \in {LastOf(s), "end"} /\ LastOf(s) = LastOf(r) /\ LastOf(r) = LastOf(todo)
      BY <1>1, <1>2, <2>1, <3>1, LastSteps DEF s
    <3>3. call # "none" => Awaits(Tail(s), call) /\ Tail(s) # <<>>
      <4>1. call # "none" => Awaits(r, call)
        BY <1>1, <1>3, <2>4, LastSteps DEF Here
      <4>2. call # "none" => Awaits(s, call)
        BY <3>1, <4>1, LastSteps DEF s
      <4>. QED
        BY <3>1, <4>2, LastSteps
    <3>. QED
      BY <1>4, <3>1, <3>2, <3>3 DEF Outstanding
  <2>. QED
    BY <1>8, <2>2, <2>3, <2>4, FlowMoves
<1>9. CASE Answer /\ (call = "disconnect" /\ todo' = <<>> => "declines" \in slips)
  <2>1. /\ todo # <<>> /\ Here \in Questions \cup {"error"} /\ (call = "disconnect" /\ todo' = <<>> => "declines" \in slips)
        /\ \/ Here = "askTerminate" /\ todo' = TerminateSteps \o Tail(todo)
           \/ Here = "askClose" /\ todo' = CloseSteps \o Tail(todo)
           \/ todo' = <<>>
    <3>1. open = TRUE
      BY <1>9 DEF Answer, ShellInv, Shell
    <3>2. Here \in Dialogs
      BY <3>1 DEF ShellInv, Shell
    <3>3. "end" \notin Dialogs
      BY Waits DEF Dialogs, Progress, Questions
    <3>4. todo # <<>> /\ Here = Head(todo)
      BY <1>1, <3>2, <3>3, Underway
    <3>5. Questions = {"askTerminate", "askClose"}
      BY DEF Questions
    <3>. QED
      BY <1>9, <3>4 DEF Answer, Go, Window
  <2>2. CASE todo' = <<>>
    BY <1>2, <1>4, <2>1, <2>2
  <2>3. ASSUME NEW p, p \in {TerminateSteps, CloseSteps}, todo' = p \o Tail(todo)
        PROVE  Outstanding'
    <3>1. p \in Seq(Steps) /\ p # <<>> /\ LastOf(p) \in {"ended", "closed"}
      <4>1. TerminateSteps \in Seq(Steps) /\ TerminateSteps # <<>> /\ LastOf(TerminateSteps) = "ended"
        BY DEF TerminateSteps, Steps, LastOf
      <4>2. CloseSteps \in Seq(Steps) /\ CloseSteps # <<>> /\ LastOf(CloseSteps) = "closed"
        BY DEF CloseSteps, Steps, LastOf
      <4>. QED
        BY <2>3, <4>1, <4>2
    <3>2. Tail(todo) \in Seq(Steps) /\ Here # "answer"
      BY <1>1, <2>1 DEF Chain, Questions
    <3>3. LastOf(todo') = IF Tail(todo) = <<>> THEN LastOf(p) ELSE LastOf(Tail(todo))
      BY <2>3, <3>1, <3>2, LastAppended
    <3>4. call = "none" => LastOf(todo') # "answer"
      BY <1>1, <2>1, <3>1, <3>3, LastSteps DEF Outstanding
    <3>5. ASSUME call # "none"
          PROVE  Awaits(todo', call) /\ todo' # <<>>
      <4>1. Awaits(Tail(todo), call) /\ Tail(todo) # <<>> /\ (Behind = "answer" => Here = Final[call])
        BY <1>1, <1>3, <3>2, <3>5, LastSteps DEF Here, Behind
      <4>2. Behind # "answer"
        BY <1>1, <2>1, Underway, Followers DEF Questions, Window, Answer
      <4>3. Len(Tail(todo)) > 1
        <5>1. First(Tail(todo)) = Behind /\ Chain(Tail(todo), "end")
          BY <1>1, <2>1, Popped DEF Behind
        <5>2. Tail(todo)[1] = Behind
          BY <3>2, <4>1, <5>1 DEF First
        <5>. QED
          BY <3>2, <4>1, <4>2, <5>2 DEF Awaits
      <4>4. Awaits(p \o Tail(todo), call)
        BY <3>1, <3>2, <4>1, <4>3, LastAppended
      <4>5. p \o Tail(todo) # <<>>
        BY <3>1, <3>2
      <4>. QED
        BY <2>3, <4>4, <4>5
    <3>. QED
      BY <1>4, <3>4, <3>5 DEF Outstanding
  <2>. QED
    BY <2>1, <2>2, <2>3
<1>10. CASE Resume
  <2>1. todo' = Tail(todo) /\ accepted = TRUE
    BY <1>10 DEF Resume, Go, ShellInv, Shell
  <2>2. Here \in Progress
    BY <2>1 DEF ShellInv, Shell
  <2>3. Here \notin {"end", "answer"}
    BY <2>2, Waits DEF Progress
  <2>. QED
    BY <1>1, <1>6, <2>1, <2>3, Underway
<1>11. CASE Deliver \/ BoxClosed
  <2>1. todo' = todo
    BY <1>11 DEF Deliver, DeliverResult, DeliverStop, DeliverExit, DeliverKilled, WatchpointStop, BoxClosed, Handled
  <2>. QED
    BY <1>5, <2>1
<1>. QED
  BY <1>7, <1>8, <1>9, <1>10, <1>11 DEF Window

-----------------------------------------------------------------------------
(* The platform is one of two, whatever is asked and answered. *)
LEMMA PlatformKept ==
  ASSUME platform \in {"host", "remote"}
  PROVE  /\ D!UserAction => platform' \in {"host", "remote"}
         /\ D!Result => platform' \in {"host", "remote"}
         /\ D!AttachStop \/ D!ExecStop \/ D!ProgramStop \/ D!EarlyStop \/ D!Exit => platform' = platform
<1>. USE DEF D!platVars
<1>1. D!UserAction => platform' \in {"host", "remote"}
  BY DEF D!UserAction, D!Connect, D!Disconnect, D!Load, D!Attach, D!LaunchBuiltin, D!LaunchInTerminal,
         D!Run, D!Stop, D!EndProcess, D!CloseTarget
<1>2. D!Result => platform' \in {"host", "remote"}
  BY DEF D!Result, D!Connected, D!LoadFailed, D!LoadDone, D!LaunchDone, D!StubFailed, D!StubLaunched,
         D!AttachFailed, D!AttachDone, D!Closed
<1>3. D!AttachStop \/ D!ExecStop \/ D!ProgramStop \/ D!EarlyStop \/ D!Exit => platform' = platform
  BY DEF D!AttachStop, D!ExecStop, D!ProgramStop, D!EarlyStop, D!Exit, D!ReportStop
<1>. QED
  BY <1>1, <1>2, <1>3

(* A step of a command is a request, or none. *)
LEMMA FlowRequests ==
  ASSUME Flow
  PROVE  UNCHANGED debuggerVars \/ D!UserAction
<1>. USE DEF D!UserAction, Nothing
<1>1. \A s : Break(s) => UNCHANGED debuggerVars
  BY DEF Break
<1>2. CASE StopStep \/ CloseStep \/ CloseTargetStep \/ ConnectStep \/ DisconnectStep
  BY <1>1, <1>2 DEF StopStep, CloseStep, CloseTargetStep, ConnectStep, DisconnectStep, Step
<1>3. CASE TerminateStep \/ DetachStep
  BY <1>1, <1>3 DEF TerminateStep, DetachStep, Step
<1>4. CASE CheckStep
  BY <1>1, <1>4 DEF CheckStep, Step
<1>5. CASE LoadStep \/ AttachStep
  BY <1>1, <1>5 DEF LoadStep, AttachStep, Step
<1>6. CASE LaunchStep \/ LaunchedStep \/ ConnectedStep \/ LoadedStep \/ AttachedStep
  BY <1>1, <1>6 DEF LaunchStep, LaunchedStep, ConnectedStep, LoadedStep, AttachedStep
<1>7. CASE QuitStep \/ WaitStep \/ AskStep
  BY <1>1, <1>7 DEF QuitStep, WaitStep, AskStep
<1>. QED
  BY <1>2, <1>3, <1>4, <1>5, <1>6, <1>7 DEF Flow

(* Whether the latest request failed, a step only forgets. *)
LEMMA FlowForgets ==
  ASSUME Flow, failed \in BOOLEAN
  PROVE  failed' \in BOOLEAN
<1>1. CASE StopStep \/ CloseStep \/ CloseTargetStep \/ ConnectStep \/ DisconnectStep
  BY <1>1 DEF StopStep, CloseStep, CloseTargetStep, ConnectStep, DisconnectStep, Step
<1>2. CASE TerminateStep \/ DetachStep \/ LoadStep \/ AttachStep
  BY <1>2 DEF TerminateStep, DetachStep, LoadStep, AttachStep, Step
<1>3. CASE CheckStep
  BY <1>3 DEF CheckStep, Step
<1>4. CASE LaunchStep \/ LaunchedStep \/ ConnectedStep \/ LoadedStep \/ AttachedStep
  BY <1>4 DEF LaunchStep, LaunchedStep, ConnectedStep, LoadedStep, AttachedStep
<1>5. CASE QuitStep \/ WaitStep \/ AskStep
  BY <1>5 DEF QuitStep, WaitStep, AskStep
<1>. QED
  BY <1>1, <1>2, <1>3, <1>4, <1>5 DEF Flow

Kinds == failed \in BOOLEAN /\ platform \in {"host", "remote"}

LEMMA KindsKept ==
  ASSUME Kinds, [ConsoleNext]_allVars
  PROVE  Kinds'
<1>1. UNCHANGED debuggerVars => platform' = platform
  BY DEF debuggerVars
<1>2. CASE UNCHANGED vars
  BY <1>1, <1>2 DEF vars, shellVars, Kinds
<1>3. \A steps : Command(steps) => Kinds'
  BY <1>1 DEF Command, Kinds
<1>4. Direct => Kinds'
  BY <1>1, PlatformKept DEF Direct, shellVars, Kinds, D!UserAction
<1>5. CASE Type
  BY <1>2, <1>3, <1>4, <1>5 DEF Type, Refuse, Begin, Act, Edit, Queue
<1>6. CASE Answered \/ AnswerLate
  BY <1>1, <1>2, <1>6 DEF Answered, Done, Decline, Catch, AnswerLate, Kinds
<1>7. CASE User
  BY <1>3, <1>4, <1>7 DEF User, Start, StopDebugging, DetachFromProcess, CloseExecutable, LoadExecutable,
       AttachToProcess, ConnectToPlatform, DisconnectFromPlatform, CloseWindow
<1>8. CASE Flow
  BY <1>1, <1>8, FlowRequests, FlowForgets, PlatformKept DEF Kinds
<1>9. CASE Answer \/ Resume
  BY <1>1, <1>9 DEF Answer, Resume, Kinds
<1>10. CASE Deliver \/ BoxClosed
  <2>1. KeepResult => failed' \in BOOLEAN
    BY DEF KeepResult, Kinds
  <2>2. DeliverResult \/ DeliverStop \/ DeliverExit => Kinds'
    BY <2>1, PlatformKept DEF DeliverResult, DeliverStop, DeliverExit, Handled, Kinds
  <2>3. DeliverKilled \/ WatchpointStop \/ BoxClosed => Kinds'
    BY <2>1 DEF DeliverKilled, WatchpointStop, BoxClosed, Handled, Kinds
  <2>. QED
    BY <1>10, <2>2, <2>3 DEF Deliver
<1>11. UNCHANGED allVars => UNCHANGED vars
  BY DEF allVars
<1>. QED
  BY <1>2, <1>5, <1>6, <1>7, <1>8, <1>9, <1>10, <1>11 DEF ConsoleNext, Window

-----------------------------------------------------------------------------
(* A step of a command is taken only while the program goes on, and one whose
   assertion fails is not left. *)
LEMMA FlowAlive ==
  ASSUME ShellInv, Flow
  PROVE  Alive
BY DEF Flow, StopStep, TerminateStep, DetachStep, CheckStep, CloseStep, CloseTargetStep, ConnectStep,
       DisconnectStep, LoadStep, AttachStep, LaunchStep, LaunchedStep, ConnectedStep, LoadedStep,
       AttachedStep, QuitStep, WaitStep, AskStep, Step, Running

LEMMA Unbroken ==
  ASSUME ShellInv, todo # <<>>, todo' = Tail(todo)
  PROVE  \A s : ~Break(s)
<1>1. Tail(todo) # todo
  <2>1. todo \in Seq(Steps)
    BY DEF ShellInv, Chain
  <2>. DEFINE n == Len(todo)
              m == Len(Tail(todo))
  <2>2. m = n - 1 /\ n \in Nat
    BY <2>1, HeadTailProperties
  <2>3. Tail(todo) = todo => m = n
    OBVIOUS
  <2>. HIDE DEF m, n
  <2>4. m # n
    BY <2>2
  <2>. QED
    BY <2>3, <2>4
<1>. QED
  BY <1>1 DEF Break

(* The step before the answer leaves what the command is for. *)
LEMMA FlowAnswers ==
  ASSUME ShellInv, Outstanding, Outstanding', Kinds, Prepared, Results, Flow, UNCHANGED call,
         Here' = "answer", todo' # todo
  PROVE  So(call)'
<1>1. /\ call \in DOMAIN StepsOf /\ Awaits(todo, call) /\ Chain(todo, "end") /\ Chain(todo, "end")'
      /\ Here \notin {"end", "answer", "error"} /\ todo # <<>>
  <2>1. Chain(todo, "end") /\ Chain(todo, "end")' /\ Here \notin {"end", "answer", "error"} /\ todo # <<>>
    BY FlowAt, FlowKeeps DEF ShellInv
  <2>2. todo' = <<"answer">>
    BY <2>1, Lone DEF Here
  <2>3. LastOf(todo') = "answer"
    BY <2>2 DEF LastOf
  <2>4. call # "none" /\ call \in DOMAIN StepsOf
    BY <2>3 DEF Outstanding
  <2>. QED
    BY <2>1, <2>4 DEF Outstanding
<1>2. Found /\ "answersLate" \notin lapses
  <2>1. Alive
    BY <1>1, FlowAlive
  <2>. QED
    BY <2>1 DEF Prepared, ShellInv, OrderlyInv
<1>3. /\ UNCHANGED debuggerVars => /\ dbg' = dbg /\ impl' = impl /\ proc' = proc /\ platform' = platform
      /\ Nothing <=> UNCHANGED debuggerVars
  BY DEF debuggerVars, Nothing
<1>4. \A c \in DOMAIN StepsOf :
        /\ Final[c] = "ended" <=> c \in {"kill", "detach"}
        /\ Final[c] = "closed" <=> c = "delete"
        /\ Final[c] = "disconnect" <=> c = "disconnect"
        /\ Final[c] = "connected" <=> c = "connect"
        /\ Final[c] = "loaded" <=> c = "create"
        /\ Final[c] = "launched" <=> c = "launch"
        /\ Final[c] = "attached" <=> c = "attach"
        /\ Final[c] \in {"ended", "closed", "disconnect", "connected", "loaded", "launched", "attached"}
  BY ConsoleChains DEF Final
<1>. HIDE DEF Final, StepsOf
<1>5. ASSUME Here = "terminate", dbg = "loaded", UNCHANGED debuggerVars, todo' = SubSeq(todo, 4, Len(todo))
      PROVE  So(call)'
  <2>. DEFINE r == Tail(todo)
              s == Tail(r)
  <2>1. /\ todo' = Tail(s) /\ Chain(r, "end") /\ Chain(s, "end") /\ r # <<>> /\ s # <<>>
        /\ First(r) = "terminating" /\ First(s) = "ended"
    BY <1>1, <1>5, Skipped DEF Here
  <2>. HIDE DEF s
  <2>2. Awaits(r, call)
    BY <1>1, LastSteps DEF Here
  <2>3. Awaits(s, call)
    BY <2>1, <2>2, LastSteps DEF s
  <2>4. Second(s) = "answer"
    BY <2>1, Popped DEF Here
  <2>5. Final[call] = "ended"
    BY <2>1, <2>3, <2>4, LastSteps
  <2>6. Loaded
    BY <1>2, <1>5 DEF Found, EndingProcess
  <2>. QED
    BY <1>1, <1>3, <1>4, <1>5, <2>5, <2>6 DEF So
<1>6. ASSUME todo' = Tail(todo)
      PROVE  So(call)'
  <2>1. Behind = "answer"
    BY <1>1, <1>6, Popped DEF Here, Behind
  <2>2. Here = Final[call]
    BY <1>1, <2>1, LastSteps DEF Here, Behind
  <2>3. Here' # "error"
    OBVIOUS
  <2>4. Throw => FALSE
    BY <2>3 DEF Throw, Here, First
  <2>5. CASE Here = "ended"
    <3>1. Step("ended", dbg = "loaded", Nothing, Tail(todo)) /\ Loaded
      BY <1>2, <2>5, FlowAt DEF Found, EndingProcess
    <3>. QED
      BY <1>1, <1>3, <1>4, <2>2, <2>5, <3>1 DEF So, Step, Break
  <2>6. CASE Here = "closed"
    <3>1. Step("closed", dbg = "initial", Nothing, Tail(todo)) /\ Initial
      BY <1>2, <2>6, FlowAt DEF Found, Loading
    <3>. QED
      BY <1>1, <1>3, <1>4, <2>2, <2>6, <3>1 DEF So, Step, Break
  <2>7. CASE Here = "disconnect"
    <3>1. DisconnectStep /\ Initial /\ ~Break("disconnect")
      BY <1>2, <1>1, <1>6, <2>7, FlowAt, Unbroken DEF Found, Loading
    <3>2. D!Disconnect
      BY <3>1 DEF DisconnectStep, Step
    <3>. QED
      BY <1>1, <1>4, <2>2, <2>7, <3>1, <3>2 DEF So, D!Disconnect, D!targetVars
  <2>8. CASE Here = "connected"
    <3>1. ConnectedStep /\ Initial
      BY <1>2, <2>8, FlowAt DEF Found, Loading
    <3>2. UNCHANGED debuggerVars /\ failed = FALSE
      BY <2>4, <3>1, <1>3 DEF ConnectedStep, Kinds
    <3>3. platform = "remote"
      BY <2>8, <3>2 DEF Results
    <3>. QED
      BY <1>1, <1>3, <1>4, <2>2, <2>8, <3>1, <3>2, <3>3 DEF So
  <2>9. CASE Here = "loaded"
    <3>1. LoadedStep /\ ~Break("loaded")
      BY <1>1, <1>6, <2>9, FlowAt, Unbroken
    <3>2. UNCHANGED debuggerVars /\ dbg = "loaded"
      BY <2>4, <3>1, <1>3 DEF LoadedStep
    <3>. QED
      BY <1>1, <1>3, <1>4, <2>2, <2>9, <3>2 DEF So
  <2>10. CASE Here = "launched"
    <3>1. LaunchedStep /\ ~Break("launched")
      BY <1>1, <1>6, <2>10, FlowAt, Unbroken
    <3>2. UNCHANGED debuggerVars /\ dbg \in {"loaded", "running"}
      BY <3>1, <1>3 DEF LaunchedStep
    <3>. QED
      BY <1>1, <1>3, <1>4, <2>2, <2>10, <3>2 DEF So
  <2>11. CASE Here = "attached"
    <3>1. AttachedStep /\ (Initial \/ Loaded \/ Stops)
      BY <1>2, <2>11, FlowAt DEF Found, Loading
    <3>2. dbg = "stopped" /\ D!Run
      BY <2>4, <3>1 DEF AttachedStep
    <3>3. dbg' = "running" /\ proc' = "program"
      BY <3>1, <3>2 DEF D!Run, D!Notify
    <3>. QED
      BY <1>1, <1>4, <2>2, <2>11, <3>3 DEF So
  <2>. QED
    BY <1>1, <1>4, <2>2, <2>5, <2>6, <2>7, <2>8, <2>9, <2>10, <2>11
<1>7. todo' # <<"error">>
  BY DEF Here, First
<1>. QED
  BY <1>5, <1>6, <1>7, FlowMoves

-----------------------------------------------------------------------------
(* What goes wrong in a behaviour is settled from its start. *)
LEMMA ScenarioKept ==
  ASSUME [ConsoleNext]_allVars
  PROVE  mishaps' = mishaps /\ lapses' = lapses /\ slips' = slips
<1>1. UNCHANGED debuggerVars => mishaps' = mishaps
  BY DEF debuggerVars
<1>2. D!UserAction => mishaps' = mishaps
  BY DEF D!UserAction, D!Connect, D!Disconnect, D!Load, D!Attach, D!LaunchBuiltin, D!LaunchInTerminal,
         D!Run, D!Stop, D!EndProcess, D!CloseTarget
<1>3. D!Result => mishaps' = mishaps
  BY DEF D!Result, D!Connected, D!LoadFailed, D!LoadDone, D!LaunchDone, D!StubFailed, D!StubLaunched,
         D!AttachFailed, D!AttachDone, D!Closed
<1>4. D!AttachStop \/ D!ExecStop \/ D!ProgramStop \/ D!EarlyStop \/ D!Exit => mishaps' = mishaps
  BY DEF D!AttachStop, D!ExecStop, D!ProgramStop, D!EarlyStop, D!Exit
<1>. DEFINE Kept == mishaps' = mishaps /\ lapses' = lapses
<1>5. UNCHANGED vars => Kept
  BY <1>1 DEF vars, shellVars
<1>6. \A steps : Command(steps) => Kept
  BY <1>1 DEF Command
<1>7. Direct => Kept
  BY <1>1, <1>2 DEF Direct, shellVars, D!UserAction
<1>8. Type => Kept
  BY <1>5, <1>6, <1>7 DEF Type, Refuse, Begin, Act, Edit, Queue
<1>9. Answered \/ AnswerLate => Kept
  BY <1>1, <1>5 DEF Answered, Done, Decline, Catch, AnswerLate
<1>10. User => Kept
  BY <1>6, <1>7 DEF User, Start, StopDebugging, DetachFromProcess, CloseExecutable, LoadExecutable,
       AttachToProcess, ConnectToPlatform, DisconnectFromPlatform, CloseWindow
<1>11. Flow => lapses' = lapses
  BY DEF Flow, StopStep, TerminateStep, DetachStep, CheckStep, CloseStep, CloseTargetStep, ConnectStep,
       DisconnectStep, LoadStep, AttachStep, LaunchStep, LaunchedStep, ConnectedStep, LoadedStep,
       AttachedStep, QuitStep, WaitStep, AskStep, Step, Running
<1>12. Flow => Kept
  BY <1>1, <1>2, <1>11, FlowRequests
<1>13. Answer \/ Resume => Kept
  BY <1>1 DEF Answer, Resume
<1>14. Deliver \/ BoxClosed => Kept
  BY <1>3, <1>4 DEF Deliver, DeliverResult, DeliverStop, DeliverExit, DeliverKilled, WatchpointStop, BoxClosed, Handled
<1>15. ConsoleNext => slips' = slips
  BY DEF ConsoleNext, Terminal
<1>16. UNCHANGED allVars => slips' = slips /\ UNCHANGED vars
  BY DEF allVars
<1>. QED
  BY <1>5, <1>8, <1>9, <1>10, <1>12, <1>13, <1>14, <1>15, <1>16 DEF ConsoleNext, Window

(* Nothing moves the command while no event loop runs that could, and nothing
   when the program has ended. *)
LEMMA DeliverRuns ==
  ASSUME ShellInv, Deliver \/ BoxClosed
  PROVE  /\ Alive /\ todo' = todo /\ Here' = Here /\ Here \notin {"answer", "connected"}
         /\ Here = "connecting" => open = TRUE /\ Dialog = "connecting" /\ Looping
<1>1. Alive /\ todo' = todo /\ (open = TRUE \/ box = TRUE \/ todo = <<>>)
  BY DEF Deliver, DeliverResult, DeliverStop, DeliverExit, DeliverKilled, WatchpointStop, BoxClosed, Handled,
         Looping, ShellInv, Shell
<1>2. open = TRUE \/ Here = "end"
  BY <1>1, LoopRuns
<1>3. Here' = Here
  BY <1>1 DEF Here
<1>4. {"answer", "connected"} \cap (Dialogs \cup {"end"}) = {}
  BY Waits DEF Dialogs, Progress, Questions
<1>5. Here \in Dialogs \cup {"end"}
  BY <1>2 DEF ShellInv, Shell
<1>6. Here = "connecting" => open = TRUE /\ Dialog = "connecting"
  <2>1. Here = "connecting" => todo # <<>> /\ Here = Head(todo)
    BY Underway DEF ShellInv
  <2>. QED
    BY <1>2, <2>1 DEF Dialog
<1>7. open = TRUE /\ Alive => Looping
  BY DEF Looping
<1>. QED
  BY <1>1, <1>3, <1>4, <1>5, <1>6, <1>7

(* Connecting to a platform fails, or the platform is the remote one. *)
LEMMA ConnectResult ==
  ASSUME ShellInv, Orderly, Kinds, Kinds', Deliver \/ BoxClosed, Here = "connecting", accepted' = TRUE
  PROVE  failed' = TRUE \/ platform' = "remote"
<1>1. Alive /\ open = TRUE /\ Dialog = "connecting" /\ Looping
  BY DeliverRuns
<1>2. Found /\ Known /\ stopAsked = FALSE /\ box = FALSE
  BY <1>1, Located DEF Found, ShellInv, Shell
<1>3. Initial \/ Connecting
  BY <1>2 DEF Found, Loading
<1>4. DeliverResult
  <2>1. ~DeliverKilled /\ ~WatchpointStop /\ ~BoxClosed
    BY <1>2, <1>3 DEF DeliverKilled, WatchpointStop, BoxClosed
  <2>2. ~DeliverExit
    BY <1>2, <1>3, WhichExit DEF DeliverExit
  <2>3. ~DeliverStop
    BY <1>2, <1>3, WhichStop DEF DeliverStop
  <2>. QED
    BY <2>1, <2>2, <2>3 DEF Deliver
<1>5. Connecting /\ Initial'
  BY <1>2, <1>3, <1>4, WhichResult DEF DeliverResult
<1>6. KeepResult
  BY <1>4 DEF DeliverResult, Handled
<1>. QED
  BY <1>1, <1>5, <1>6 DEF KeepResult, Kinds

LEMMA ResultsKept ==
  ASSUME ShellInv, Outstanding, Outstanding', Kinds, Kinds', Prepared /\ Alive => Results,
         [ConsoleNext]_allVars, Prepared', Alive'
  PROVE  Results'
<1>1. Prepared
  BY ScenarioKept DEF Prepared, Orderly
<1>2. ASSUME Here' \notin {"answer", "connecting", "connected"}
      PROVE  Results'
  BY <1>2 DEF Results
<1>3. First(<<>>) = "end"
  BY DEF First
<1>4. CASE UNCHANGED vars /\ UNCHANGED call
  <2>1. /\ todo' = todo /\ accepted' = accepted /\ failed' = failed /\ platform' = platform /\ dbg' = dbg
        /\ proc' = proc /\ impl' = impl /\ broken' = broken /\ quit' = quit
    BY <1>4 DEF vars, shellVars, debuggerVars
  <2>2. Results
    BY <1>1, <2>1 DEF Alive
  <2>. QED
    BY <1>4, <2>1, <2>2 DEF Results, So, Here
<1>5. ASSUME NEW steps, Command(steps), First(steps) \notin {"answer", "connecting", "connected"}
      PROVE  Results'
  BY <1>2, <1>5 DEF Command, Here
<1>6. CASE Direct
  <2>1. todo' = <<>>
    BY <1>6 DEF Direct, Free, shellVars
  <2>. QED
    BY <1>2, <1>3, <2>1 DEF Here
<1>7. CASE Type
  <2>1. PICK c \in Commands : Refuse(c) \/ Begin(c) \/ Act(c) \/ Edit(c) \/ Queue(c)
    BY <1>7 DEF Type
  <2>2. CASE Begin(c)
    BY <1>5, <2>2, ConsoleChains DEF Begin
  <2>3. CASE Refuse(c) \/ Act(c) \/ Edit(c) \/ Queue(c)
    BY <1>4, <1>6, <2>3 DEF Refuse, Act, Edit, Queue, consoleVars
  <2>. QED
    BY <2>1, <2>2, <2>3
<1>8. CASE Answered
  <2>1. todo' = <<>>
    BY <1>8 DEF Answered, Done, Decline, Catch, Declined, vars, shellVars
  <2>. QED
    BY <1>2, <1>3, <2>1 DEF Here
<1>9. CASE AnswerLate
  BY <1>4, <1>9 DEF AnswerLate
<1>10. CASE User /\ ~Direct
  <2>1. \E steps : Command(steps) /\ First(steps) \notin {"answer", "connecting", "connected"}
    <3>1. /\ First(TerminateSteps) = "stop" /\ First(DetachSteps) = "stop" /\ First(CloseSteps) = "close"
          /\ First(ConnectSteps) = "askClose"
      BY DEF TerminateSteps, DetachSteps, CloseSteps, ConnectSteps, First
    <3>. QED
      BY <1>10, <3>1, CommandChains
         DEF User, Start, StopDebugging, DetachFromProcess, CloseExecutable, LoadExecutable,
             AttachToProcess, ConnectToPlatform, DisconnectFromPlatform, CloseWindow
  <2>. QED
    BY <1>5, <2>1
<1>11. CASE Flow /\ UNCHANGED call
  <2>1. Results
    BY <1>1, <1>11, FlowAlive
  <2>2. accepted' = FALSE
    BY <1>11, FlowMoves
  <2>3. Here' = "answer" => So(call)'
    <3>1. Here' = "answer" => todo' # todo
      BY <1>11, FlowAt DEF Here
    <3>. QED
      BY <1>1, <1>11, <2>1, <3>1, FlowAnswers
  <2>4. Here' # "connected"
    <3>1. Here \notin {"end", "answer", "error"} /\ todo # <<>>
      BY <1>11, FlowAt
    <3>2. CASE todo' = todo
      <4>1. Here' = Here
        BY <3>2 DEF Here
      <4>2. CASE Here = "connected"
        <5>1. ConnectedStep
          BY <1>11, <4>2, FlowAt
        <5>2. Go(Tail(todo)) \/ Throw
          BY <5>1 DEF ConnectedStep
        <5>3. ~Throw
          BY <4>1, <4>2 DEF Throw, Here, First
        <5>4. Here' = Behind
          BY <5>1, <5>2, <5>3, Finds DEF ConnectedStep
        <5>5. Behind # "connected"
          BY <3>1, <4>2, Underway, Followers DEF ShellInv
        <5>. QED
          BY <4>1, <4>2, <5>4, <5>5
      <4>. QED
        BY <4>1, <4>2
    <3>3. CASE todo' = Tail(todo) /\ Here # "connecting"
      <4>1. Here' = Behind /\ Behind \in After(Here) /\ Here \in Steps
        BY <3>1, <3>3, Popped, Underway DEF ShellInv, Here, Behind
      <4>2. \A s \in Steps \ {"connecting"} : "connected" \notin After(s)
        BY Followers DEF Steps, Over
      <4>. QED
        BY <3>3, <4>1, <4>2
    <3>4. CASE todo' = <<"error">>
      BY <3>4 DEF Here, First
    <3>5. CASE Here = "terminate" /\ todo' = SubSeq(todo, 4, Len(todo))
      <4>1. Here' \in After("ended")
        BY <3>5, Skipped DEF Here, ShellInv
      <4>. QED
        BY <4>1, Followers
    <3>. QED
      BY <1>11, <3>2, <3>3, <3>4, <3>5, FlowMoves
  <2>. QED
    BY <2>2, <2>3, <2>4 DEF Results
<1>12. CASE Answer
  <2>1. Here' \in {"stop", "close", "end"}
    <3>1. /\ First(TerminateSteps \o Tail(todo)) = "stop" /\ First(CloseSteps \o Tail(todo)) = "close"
      <4>1. open = TRUE /\ todo # <<>> /\ Tail(todo) \in Seq(Steps)
        <5>1. open = TRUE
          BY <1>12 DEF Answer, ShellInv, Shell
        <5>2. "end" \notin Dialogs
          BY Waits DEF Dialogs, Progress, Questions
        <5>. QED
          BY <5>1, <5>2, Underway, HeadTailProperties DEF ShellInv, Shell, Chain
      <4>. QED
        BY <4>1 DEF First, TerminateSteps, CloseSteps
    <3>. QED
      BY <1>3, <1>12, <3>1 DEF Answer, Go, Here
  <2>. QED
    BY <1>2, <2>1
<1>13. CASE Resume /\ UNCHANGED call
  <2>1. /\ todo' = Tail(todo) /\ accepted = TRUE /\ accepted' = FALSE /\ Alive /\ failed' = failed
        /\ UNCHANGED debuggerVars
    BY <1>13 DEF Resume, Go, ShellInv, Shell
  <2>2. Here \in Progress
    BY <2>1 DEF ShellInv, Shell
  <2>3. Here \in {"loading", "attaching", "stopping", "terminating", "detaching", "unloading", "launching", "connecting"}
    BY <2>2, Waits DEF Progress
  <2>4. Here' = Behind /\ Behind \in After(Here)
    BY <2>1, <2>3, Popped, Underway DEF ShellInv, Here, Behind
  <2>5. Here' # "answer" /\ (Here' = "connected" => Here = "connecting")
    BY <2>3, <2>4, Followers
  <2>6. Results
    BY <1>1, <2>1
  <2>7. platform' = platform
    BY <2>1 DEF debuggerVars
  <2>. QED
    BY <2>1, <2>5, <2>6, <2>7 DEF Results
<1>14. CASE Deliver \/ BoxClosed
  <2>1. Here' = Here /\ Here \notin {"answer", "connected"}
    BY <1>14, DeliverRuns
  <2>. QED
    BY <1>1, <1>14, <2>1, ConnectResult DEF Results, Prepared
<1>15. UNCHANGED allVars => UNCHANGED vars /\ UNCHANGED call
  BY DEF allVars, consoleVars
<1>16. Window => UNCHANGED call
  BY DEF Window, consoleVars
<1>. QED
  BY <1>4, <1>6, <1>7, <1>8, <1>9, <1>10, <1>11, <1>12, <1>13, <1>14, <1>15, <1>16 DEF ConsoleNext, Window

-----------------------------------------------------------------------------
LEMMA OutstandingKept ==
  ASSUME ShellInv, Outstanding, [ConsoleNext]_allVars
  PROVE  Outstanding'
<1>1. LastOf(<<>>) = "end" /\ slips' = slips
  BY ScenarioKept DEF LastOf
<1>2. CASE UNCHANGED vars /\ UNCHANGED call
  <2>1. todo' = todo
    BY <1>2 DEF vars, shellVars
  <2>. QED
    BY <1>1, <1>2, <2>1 DEF Outstanding, Here
<1>3. ASSUME call' = "none", todo' = <<>>
      PROVE  Outstanding'
  BY <1>1, <1>3 DEF Outstanding
<1>4. CASE Type
  <2>1. PICK c \in Commands : Refuse(c) \/ Begin(c) \/ Act(c) \/ Edit(c) \/ Queue(c)
    BY <1>4 DEF Type
  <2>2. CASE Begin(c)
    <3>1. c \in DOMAIN StepsOf /\ todo' = StepsOf[c] \o <<"answer">> /\ call' = c
      BY <2>2 DEF Begin, Command
    <3>2. Awaits(todo', c) /\ todo' # <<>> /\ c # "none"
      BY <3>1, ConsoleChains
    <3>. QED
      BY <3>1, <3>2 DEF Outstanding, Awaits
  <2>3. CASE Refuse(c) \/ Edit(c) \/ Queue(c) \/ (Act(c) /\ UNCHANGED vars)
    BY <1>2, <2>3 DEF Refuse, Act, Edit, Queue, consoleVars
  <2>4. CASE Act(c) /\ Direct
    <3>1. todo' = <<>> /\ call' = "none"
      BY <1>4, <2>4 DEF Act, Direct, Free, Type, consoleVars, shellVars
    <3>. QED
      BY <1>3, <3>1
  <2>. QED
    BY <2>1, <2>2, <2>3, <2>4 DEF Act
<1>5. CASE Answered
  <2>1. todo' = <<>> /\ call' = "none"
    BY <1>5 DEF Answered, Done, Decline, Catch, Declined, vars, shellVars
  <2>. QED
    BY <1>3, <2>1
<1>6. CASE AnswerLate
  BY <1>2, <1>6 DEF AnswerLate
<1>7. CASE Window
  BY <1>1, <1>7, WindowOutstanding
<1>8. UNCHANGED allVars => UNCHANGED vars /\ UNCHANGED call
  BY DEF allVars, consoleVars
<1>. QED
  BY <1>2, <1>4, <1>5, <1>6, <1>7, <1>8 DEF ConsoleNext

LateKinds == late \in Seq(ForLLDB \cup WatchCommands)

LEMMA LateKept ==
  ASSUME LateKinds, [ConsoleNext]_allVars
  PROVE  LateKinds'
<1>1. late' = late => LateKinds'
  BY DEF LateKinds
<1>2. CASE Type
  <2>1. PICK c \in Commands : Refuse(c) \/ Begin(c) \/ Act(c) \/ Edit(c) \/ Queue(c)
    BY <1>2 DEF Type
  <2>2. CASE Queue(c)
    BY <2>2 DEF Queue, LateKinds
  <2>. QED
    BY <1>1, <2>1, <2>2 DEF Refuse, Begin, Act, Edit, consoleVars
<1>3. CASE AnswerLate
  BY <1>3, HeadTailProperties DEF AnswerLate, LateKinds
<1>4. Answered \/ Window \/ UNCHANGED allVars => late' = late
  BY DEF Answered, Window, consoleVars, allVars
<1>. QED
  BY <1>1, <1>2, <1>3, <1>4 DEF ConsoleNext

ConsoleInv ==
  ShellInv /\ Outstanding /\ Kinds /\ LateKinds /\ (Prepared /\ Alive => Results)

LEMMA AlwaysConsole == ConsoleSpec => []ConsoleInv
<1>1. ConsoleInit => ConsoleInv
  <2>1. ASSUME ConsoleInit
        PROVE  ConsoleInv
    <3>1. ShellInv
      BY <2>1, InitShell DEF ConsoleInit
    <3>2. Init /\ call = "none" /\ late = <<>>
      BY <2>1 DEF ConsoleInit
    <3>3. todo = <<>> /\ failed = FALSE /\ D!Init
      BY <3>2 DEF Init
    <3>4. platform = "host"
      BY <3>3 DEF D!Init
    <3>5. Here = "end" /\ LastOf(todo) = "end"
      BY <3>3 DEF Here, First, LastOf
    <3>6. Outstanding
      BY <3>2, <3>5 DEF Outstanding
    <3>7. LateKinds
      BY <3>2 DEF LateKinds
    <3>. QED
      BY <3>1, <3>3, <3>4, <3>5, <3>6, <3>7 DEF ConsoleInv, Kinds, Results
  <2>. QED
    BY <2>1
<1>2. ConsoleInv /\ [ConsoleNext]_allVars => ConsoleInv'
  <2>1. ASSUME ConsoleInv, [ConsoleNext]_allVars
        PROVE  ConsoleInv'
    <3>1. ShellInv' /\ Outstanding' /\ Kinds' /\ LateKinds'
      BY <2>1, ConsoleKeepsShell, OutstandingKept, KindsKept, LateKept DEF ConsoleInv
    <3>2. Prepared' /\ Alive' => Results'
      BY <2>1, <3>1, ResultsKept DEF ConsoleInv
    <3>. QED
      BY <3>1, <3>2 DEF ConsoleInv
  <2>. QED
    BY <2>1
<1>. QED
  BY <1>1, <1>2, PTL DEF ConsoleSpec

(* Of the commands typed, those answered and those still to be are all. *)
Counted == Owed' + Len(out') = Owed + (IF typed' THEN 1 ELSE 0)

LEMMA AnswersAreCounted ==
  ASSUME ConsoleInv, ConsoleNext, slips \cap {"early", "both", "nowhere"} = {}
  PROVE  Counted
<1>1. Len(late) \in Nat /\ late \in Seq(ForLLDB \cup WatchCommands)
  BY DEF ConsoleInv, LateKinds
<1>2. \A c, r : Len(Says(c, r)) = 1
  BY DEF Says
<1>3. CASE Type /\ typed' = TRUE
  <2>1. PICK c \in Commands : Refuse(c) \/ Begin(c) \/ Act(c) \/ Edit(c) \/ Queue(c)
    BY <1>3 DEF Type
  <2>2. ASSUME UNCHANGED <<call, late>>, Len(out') = 1 PROVE Counted
    BY <1>1, <1>3, <2>2 DEF Counted, Owed
  <2>3. CASE Refuse(c) \/ Act(c)
    BY <1>2, <2>2, <2>3 DEF Refuse, Act, consoleVars
  <2>4. CASE Begin(c)
    <3>1. call = "none" /\ call' = c /\ c # "none" /\ late' = late /\ out' = <<>>
      BY <1>3, <2>4, ConsoleChains DEF Type, Begin
    <3>. QED
      BY <1>1, <1>3, <3>1 DEF Counted, Owed
  <2>5. CASE Edit(c)
    <3>1. /\ CheckPoint(c) = <<>> /\ c \in {"set", "modify"} /\ UNCHANGED <<call, late>>
          /\ \A r : Len(CheckPoint(c) \o Says(c, r)) = 1
      BY <2>5 DEF Edit, PointCommands, CheckPoint, Says
    <3>2. c = "set" => Len(out') = 1
      BY <1>2, <2>5, <3>1 DEF Edit, SetPoint
    <3>3. c = "modify" => Len(out') = 1
      BY <2>5, <3>1 DEF Edit, ModifyPoint
    <3>. QED
      BY <2>2, <3>1, <3>2, <3>3
  <2>6. CASE Queue(c)
    <3>1. late' = Append(late, c) /\ c \in ForLLDB \cup WatchCommands /\ out' = <<>> /\ call' = call
      BY <2>6 DEF Queue
    <3>2. Len(late') = Len(late) + 1
      BY <1>1, <3>1
    <3>. QED
      BY <1>1, <1>3, <3>1, <3>2 DEF Counted, Owed
  <2>. QED
    BY <2>1, <2>3, <2>4, <2>5, <2>6
<1>4. CASE Answered /\ typed' = FALSE
  <2>1. call # "none"
    <3>1. Done => LastOf(todo) = "answer"
      BY DEF Done, LastOf
    <3>. QED
      BY <1>4, <3>1 DEF Answered, Decline, Declined, Catch, Thrown, ConsoleInv, Outstanding
  <2>2. call' = "none" /\ late' = late /\ Len(out') = 1
    BY <1>2, <1>4 DEF Answered, Done, Decline, Catch
  <2>. QED
    BY <1>1, <1>4, <2>1, <2>2 DEF Counted, Owed
<1>5. CASE AnswerLate /\ typed' = FALSE
  <2>1. late # <<>> /\ late' = Tail(late) /\ call' = call /\ Len(out') = 1
    BY <1>2, <1>5 DEF AnswerLate
  <2>2. Len(late') = Len(late) - 1
    BY <1>1, <2>1
  <2>. QED
    BY <1>1, <1>5, <2>1, <2>2 DEF Counted, Owed
<1>6. CASE Window /\ typed' = FALSE
  BY <1>1, <1>6 DEF Window, consoleVars, Counted, Owed
<1>. QED
  BY <1>3, <1>4, <1>5, <1>6 DEF ConsoleNext

(* What is said in a step is true. *)
Sound ==
  slips \cap {"early", "both", "declines"} = {} =>
    \A i \in DOMAIN out' :
      /\ out'[i].result = "done" => IsSo(out'[i].of)
      /\ out'[i].result = "error" /\ call = "none" => UNCHANGED <<debuggerVars, points>>

LEMMA AnswersAreSo ==
  ASSUME ConsoleInv, Prepared, ConsoleNext
  PROVE  Sound
<1>. SUFFICES ASSUME slips \cap {"early", "both", "declines"} = {}
              PROVE  \A i \in DOMAIN out' :
                       /\ out'[i].result = "done" => IsSo(out'[i].of)
                       /\ out'[i].result = "error" /\ call = "none" => UNCHANGED <<debuggerVars, points>>
  BY DEF Sound
<1>1. ASSUME out' = <<>>
      PROVE  Sound
  <2>1. DOMAIN <<>> = {}
    OBVIOUS
  <2>. QED
    BY <1>1, <2>1 DEF Sound
<1>2. ASSUME NEW c, NEW r, out' = Says(c, r), r = "done" => IsSo(c),
             r = "error" /\ call = "none" => UNCHANGED <<debuggerVars, points>>
      PROVE  Sound
  <2>1. DOMAIN out' = {1} /\ out'[1].of = c /\ out'[1].result = r
    BY <1>2 DEF Says
  <2>. QED
    BY <1>2, <2>1 DEF Sound
<1>3. UNCHANGED vars => UNCHANGED debuggerVars
  BY DEF vars
<1>4. \A c : c \notin DOMAIN StepsOf => IsSo(c)
  BY ConsoleChains DEF IsSo
<1>5. CASE Type
  <2>1. PICK c \in Commands : Refuse(c) \/ Begin(c) \/ Act(c) \/ Edit(c) \/ Queue(c)
    BY <1>5 DEF Type
  <2>2. CASE Refuse(c)
    <3>1. out' = Says(c, "error") /\ UNCHANGED <<debuggerVars, points>>
      BY <1>3, <2>2 DEF Refuse, consoleVars
    <3>. QED
      BY <1>2, <3>1 DEF Sound
  <2>3. CASE Begin(c) \/ Queue(c)
    BY <1>1, <1>5, <2>3 DEF Begin, Queue, Type, Sound
  <2>4. CASE Act(c)
    <3>1. out' = Says(c, "done") /\ c \notin DOMAIN StepsOf
      BY <2>4, ConsoleChains DEF Act
    <3>. QED
      BY <1>2, <1>4, <3>1 DEF Sound
  <2>5. CASE Edit(c)
    <3>1. ~Refused(c) /\ c \in {"set", "modify"} /\ UNCHANGED vars
      BY <2>5 DEF Edit, PointCommands
    <3>2. CheckPoint(c) = <<>> /\ \A r : CheckPoint(c) \o Says(c, r) = Says(c, r)
      BY <3>1 DEF CheckPoint, Says
    <3>3. CASE c = "set"
      <4>1. /\ \/ out' = Says("set", "done") \/ out' = <<>>
               \/ out' = Says("set", "error") /\ points' = points
            /\ "set" \notin DOMAIN StepsOf
        BY <2>5, <3>2, <3>3, ConsoleChains DEF Edit, SetPoint
      <4>2. out' = Says("set", "error") /\ points' = points => Sound
        BY <1>2, <1>3, <3>1
      <4>3. out' = Says("set", "done") => Sound
        BY <1>2, <1>4, <4>1
      <4>. QED
        BY <1>1, <4>1, <4>2, <4>3 DEF Sound
    <3>4. CASE c = "modify"
      <4>1. /\ \/ out' = Says("modify", "error") /\ points' = points
               \/ out' = Says("modify", "done")
            /\ "modify" \notin DOMAIN StepsOf
        BY <2>5, <3>2, <3>4, ConsoleChains DEF Edit, ModifyPoint
      <4>2. out' = Says("modify", "error") /\ points' = points => Sound
        BY <1>2, <1>3, <3>1
      <4>3. out' = Says("modify", "done") => Sound
        BY <1>2, <1>4, <4>1
      <4>. QED
        BY <4>1, <4>2, <4>3 DEF Sound
    <3>. QED
      BY <3>1, <3>3, <3>4
  <2>. QED
    BY <2>1, <2>2, <2>3, <2>4, <2>5
<1>6. CASE Done
  <2>1. /\ todo = <<"answer">> /\ box = FALSE /\ Alive /\ out' = Says(call, "done") /\ UNCHANGED debuggerVars
    BY <1>6 DEF Done, ConsoleInv, ShellInv, Shell
  <2>2. Here = "answer"
    BY <2>1 DEF Here, First
  <2>3. So(call)
    BY <2>1, <2>2 DEF ConsoleInv, Results
  <2>4. reply = "none" /\ stubThread = FALSE /\ helpers = <<>>
    BY <2>1, <2>2 DEF ConsoleInv, ShellInv, Prepared, OrderlyInv, Found, Asking, Resting, Process
  <2>5. /\ dbg' = dbg /\ impl' = impl /\ proc' = proc /\ platform' = platform /\ reply' = reply
        /\ stubThread' = stubThread /\ helpers' = helpers
    BY <2>1 DEF debuggerVars
  <2>6. IsSo(call)
    BY <2>3, <2>4, <2>5 DEF IsSo, So
  <2>. QED
    BY <1>2, <2>1, <2>6 DEF Sound
<1>7. CASE Decline
  <2>1. call # "none" /\ todo = <<>> /\ call # "disconnect"
    BY <1>7 DEF Decline, Declined, ConsoleInv, Outstanding
  <2>2. out' = Says(call, "error")
    BY <1>7, <2>1 DEF Decline
  <2>. QED
    BY <1>2, <2>1, <2>2 DEF Sound
<1>8. CASE Catch
  <2>1. call # "none" /\ out' = Says(call, "error")
    BY <1>8 DEF Catch, Thrown
  <2>. QED
    BY <1>2, <2>1 DEF Sound
<1>9. CASE AnswerLate
  <2>1. Head(late) \in {"lldb", "watch"} /\ UNCHANGED <<debuggerVars, points>>
    BY <1>3, <1>9, HeadTailProperties DEF AnswerLate, ConsoleInv, LateKinds, ForLLDB, WatchCommands
  <2>2. PICK r \in {"done", "error"} : out' = Says(Head(late), r)
    BY <1>9 DEF AnswerLate
  <2>3. IsSo(Head(late))
    BY <1>4, <2>1, ConsoleChains
  <2>. QED
    BY <1>2, <2>1, <2>2, <2>3 DEF Sound
<1>10. CASE Window
  BY <1>1, <1>10 DEF Window, consoleVars, Sound
<1>. QED
  BY <1>5, <1>6, <1>7, <1>8, <1>9, <1>10 DEF ConsoleNext, Answered

(* No answer of the console is dropped or given twice, but for breakpoint    *)
(* commands given too early, for both exceptions or for no place; and what a *)
(* command is said to have done is done, but for those and for a declined    *)
(* disconnection, when nothing of an attach is left unanswered.              *)
THEOREM AnswersAreSound ==
  ConsoleSpec /\ Orderly /\ "answersLate" \notin lapses => AnswersSound
<1>. DEFINE Answers == (slips \cap {"early", "both", "nowhere"} = {} => Counted) /\ Sound
<1>1. ConsoleInv /\ Prepared /\ [ConsoleNext]_allVars => Prepared' /\ [Answers]_allVars
  <2>1. ASSUME ConsoleInv, Prepared, [ConsoleNext]_allVars
        PROVE  Prepared' /\ [Answers]_allVars
    BY <2>1, ScenarioKept, AnswersAreCounted, AnswersAreSo DEF Prepared, Orderly
  <2>. QED
    BY <2>1
<1>2. Orderly /\ "answersLate" \notin lapses => Prepared
  BY DEF Prepared
<1>3. [Answers]_allVars <=>
        [/\ slips \cap {"early", "both", "nowhere"} = {} =>
              Owed' + Len(out') = Owed + (IF typed' THEN 1 ELSE 0)
         /\ slips \cap {"early", "both", "declines"} = {} =>
              \A i \in DOMAIN out' :
                /\ out'[i].result = "done" => IsSo(out'[i].of)
                /\ out'[i].result = "error" /\ call = "none" => UNCHANGED <<debuggerVars, points>>]_allVars
  BY DEF Sound, Counted
<1>. HIDE DEF Answers
<1>. QED
  BY <1>1, <1>2, <1>3, AlwaysConsole, PTL DEF ConsoleSpec, AnswersSound

-----------------------------------------------------------------------------
(* What a step does to the target and to the request under way.            *)
Passed(i, r, s) == impl = i /\ reply = r /\ stubThread = s
Shift ==
  \/ impl' = impl /\ reply' = reply /\ proc' = proc /\ stubThread' = stubThread
  \/ /\ impl = "none" /\ proc = "none" /\ proc' = "none" /\ stubThread = FALSE /\ stubThread' = FALSE
     /\ \/ impl' = "none" /\ reply \notin {"launch", "attach", "attachStub"}
           /\ reply' \in {"none", "connect", "load", "attachNew"}
        \/ reply = "load" /\ Passed("loaded", "none", FALSE)'
  \/ /\ Passed("loaded", "none", FALSE) /\ proc = "none" /\ proc' = "none"
     /\ \/ Passed("unloading", "close", FALSE)'
        \/ Passed("launching", "attach", FALSE)'
        \/ Passed("launching", "launch", FALSE)'
        \/ Passed("loaded", "none", TRUE)'
  \/ /\ Passed("loaded", "none", TRUE) /\ proc = "none" /\ proc' = "none"
     /\ Passed("loaded", "none", FALSE)' \/ Passed("launching", "attachStub", FALSE)'
  \/ Passed("unloading", "close", FALSE) /\ proc = "none" /\ proc' = "none" /\ Passed("none", "none", FALSE)'
  \/ /\ Passed("launching", "launch", FALSE) /\ proc = "none"
     /\ \/ Passed("running", "none", FALSE)' /\ proc' = "program"
        \/ Passed("loaded", "none", FALSE)' /\ proc' = "none"
  \/ /\ impl = "launching" /\ reply \in {"attach", "attachStub"} /\ stubThread = FALSE
     /\ proc = "none" /\ proc' = "none" /\ Passed("loaded", "none", FALSE)'
  \/ /\ impl \in Ending \cup {"launching"} /\ reply \in {"attach", "attachStub"} /\ stubThread = FALSE
     /\ proc' # "none" /\ Passed(impl, "none", FALSE)'
  \/ /\ impl = "launching" /\ reply \in {"none", "attach", "attachStub"} /\ stubThread = FALSE
     /\ impl' \in Ending /\ reply' = reply /\ proc' # "none" /\ stubThread' = FALSE
  \/ /\ impl \in Ending /\ impl' \in Ending /\ reply' = reply /\ (proc' = proc \/ proc' # "none")
     /\ stubThread' = stubThread
  \/ /\ impl \in Ending /\ reply = "none" /\ stubThread = FALSE
     /\ proc' = "none" /\ Passed("loaded", "none", FALSE)'

LEMMA RequestShifts ==
  ASSUME Ordered,
         \/ D!Stop \/ D!CloseTarget \/ D!Connect \/ D!Disconnect \/ D!Load \/ D!Attach
         \/ D!LaunchBuiltin \/ D!LaunchInTerminal
         \/ (impl = "stopped" /\ (D!Run \/ D!EndProcess))
  PROVE  Shift
<1>. USE DEF Ordered, Ending, D!platVars, D!targetVars, Passed
<1>1. CASE D!Stop
  BY <1>1 DEF Shift, D!Stop
<1>2. CASE D!Connect \/ D!Disconnect \/ D!Load
  BY <1>2 DEF Shift, D!Connect, D!Disconnect, D!Load
<1>3. CASE D!CloseTarget
  BY <1>3 DEF Shift, D!CloseTarget, D!Notify
<1>4. CASE D!Attach
  BY <1>4 DEF Shift, D!Attach, D!Notify
<1>5. CASE D!LaunchBuiltin
  BY <1>5 DEF Shift, D!LaunchBuiltin, D!Notify
<1>6. CASE D!LaunchInTerminal
  BY <1>6 DEF Shift, D!LaunchInTerminal, D!Notify
<1>7. CASE impl = "stopped" /\ (D!Run \/ D!EndProcess)
  BY <1>7 DEF Shift, D!Run, D!EndProcess, D!Notify
<1>. QED
  BY <1>1, <1>2, <1>3, <1>4, <1>5, <1>6, <1>7

LEMMA ResultShifts ==
  ASSUME Ordered, reply # "attachNew", D!Result
  PROVE  Shift
<1>. USE DEF Ordered, Ending, D!platVars, D!targetVars, D!Answer, Passed
<1>1. CASE D!Connected
  BY <1>1 DEF Shift, D!Connected
<1>2. CASE D!LoadFailed
  BY <1>2 DEF Shift, D!LoadFailed
<1>3. CASE D!LoadDone
  BY <1>3 DEF Shift, D!LoadDone
<1>4. CASE D!LaunchDone
  BY <1>4 DEF Shift, D!LaunchDone, D!Notify
<1>5. CASE D!StubFailed
  BY <1>5 DEF Shift, D!StubFailed, D!Notify
<1>6. CASE D!StubLaunched
  BY <1>6 DEF Shift, D!StubLaunched, D!Notify
<1>7. CASE D!AttachFailed
  BY <1>7 DEF Shift, D!AttachFailed, D!Notify
<1>8. CASE D!AttachDone
  BY <1>8 DEF Shift, D!AttachDone
<1>9. CASE D!Closed
  BY <1>9 DEF Shift, D!Closed
<1>. QED
  BY <1>1, <1>2, <1>3, <1>4, <1>5, <1>6, <1>7, <1>8, <1>9 DEF D!Result

LEMMA EventShifts ==
  ASSUME Ordered, D!AttachStop \/ D!ExecStop \/ D!ProgramStop \/ D!EarlyStop \/ D!Exit
  PROVE  Shift
<1>. USE DEF Ordered, Ending, D!platVars, D!targetVars, Passed
<1>1. CASE D!AttachStop
  <2>1. /\ reply' = reply /\ stubThread' = stubThread /\ proc' # "none" /\ impl' \in {"stopped", "running"}
    BY <1>1 DEF D!AttachStop, D!ReportStop
  <2>. QED
    BY <1>1, <2>1 DEF Shift, D!AttachStop
<1>2. CASE D!ExecStop \/ D!ProgramStop \/ D!EarlyStop
  <2>1. /\ reply' = reply /\ stubThread' = stubThread /\ impl' \in {"stopped", "running"} /\ impl = "running"
        /\ proc' = "program" \/ proc' = proc
    BY <1>2 DEF D!ExecStop, D!ProgramStop, D!EarlyStop, D!ReportStop
  <2>. QED
    BY <2>1 DEF Shift
<1>3. CASE D!Exit
  BY <1>3 DEF Shift, D!Exit, D!Notify
<1>. QED
  BY <1>1, <1>2, <1>3

LEMMA FlowShifts ==
  ASSUME ShellInv, Orderly, Flow
  PROVE  Shift
<1>. USE DEF Nothing
<1>1. UNCHANGED debuggerVars => Shift
  BY DEF debuggerVars, Shift
<1>2. Ordered
  BY DEF ShellInv, Leaves
<1>3. \A s : Break(s) => Shift
  BY <1>1 DEF Break
<1>4. CASE StopStep \/ CloseStep \/ CloseTargetStep \/ ConnectStep \/ DisconnectStep
  BY <1>1, <1>2, <1>3, <1>4, RequestShifts
     DEF StopStep, CloseStep, CloseTargetStep, ConnectStep, DisconnectStep, Step
<1>5. CASE TerminateStep \/ DetachStep
  BY <1>1, <1>2, <1>3, <1>5, RequestShifts DEF TerminateStep, DetachStep, Step, Stopped
<1>6. CASE CheckStep
  BY <1>1, <1>3, <1>6 DEF CheckStep, Step
<1>7. CASE LoadStep \/ AttachStep
  BY <1>1, <1>2, <1>3, <1>7, RequestShifts DEF LoadStep, AttachStep, Step
<1>8. CASE LaunchStep
  BY <1>1, <1>2, <1>3, <1>8, RequestShifts DEF LaunchStep
<1>9. CASE LaunchedStep \/ ConnectedStep \/ LoadedStep
  BY <1>1, <1>3, <1>9 DEF LaunchedStep, ConnectedStep, LoadedStep
<1>10. CASE AttachedStep
  <2>1. Running("attached") /\ Here = "attached" /\ Found
    BY <1>10, Finds DEF AttachedStep
  <2>2. dbg = "stopped" => impl = "stopped"
    BY <2>1 DEF Found, Loading
  <2>. QED
    BY <1>1, <1>2, <1>10, <2>2, RequestShifts DEF AttachedStep
<1>11. CASE QuitStep \/ WaitStep \/ AskStep
  BY <1>1, <1>11 DEF QuitStep, WaitStep, AskStep
<1>. QED
  BY <1>4, <1>5, <1>6, <1>7, <1>8, <1>9, <1>10, <1>11 DEF Flow

LEMMA ConsoleShifts ==
  ASSUME ShellInv, Orderly, reply # "attachNew", ConsoleNext
  PROVE  Shift
<1>1. UNCHANGED debuggerVars => Shift
  BY DEF debuggerVars, Shift
<1>2. Ordered
  BY DEF ShellInv, Leaves
<1>3. UNCHANGED vars => Shift
  BY <1>1 DEF vars
<1>4. \A steps : Command(steps) => Shift
  BY <1>1 DEF Command
<1>5. Direct => Shift
  BY <1>1, <1>2, RequestShifts DEF Direct, Stopped
<1>6. Type => Shift
  BY <1>3, <1>4, <1>5 DEF Type, Refuse, Begin, Act, Edit, Queue
<1>7. Answered \/ AnswerLate => Shift
  BY <1>1, <1>3 DEF Answered, Done, Decline, Catch, AnswerLate
<1>8. User => Shift
  BY <1>4, <1>5 DEF User, Start, StopDebugging, DetachFromProcess, CloseExecutable, LoadExecutable,
       AttachToProcess, ConnectToPlatform, DisconnectFromPlatform, CloseWindow
<1>9. Answer \/ Resume => Shift
  BY <1>1 DEF Answer, Resume
<1>10. DeliverResult \/ DeliverStop \/ DeliverExit => Shift
  BY <1>2, ResultShifts, EventShifts DEF DeliverResult, DeliverStop, DeliverExit
<1>11. DeliverKilled => Shift
  <2>1. DeliverKilled => impl = "stopped" /\ reply = "none" /\ impl' = "loaded" /\ reply' = reply /\ proc' = "none"
                         /\ stubThread' = stubThread
    BY DEF DeliverKilled
  <2>. QED
    BY <1>2, <2>1 DEF Shift, Passed, Ordered, Ending
<1>12. WatchpointStop => Shift
  BY DEF WatchpointStop, Shift, Ending
<1>13. BoxClosed => Shift
  BY DEF BoxClosed, Shift
<1>. QED
  BY <1>6, <1>7, <1>8, <1>9, <1>10, <1>11, <1>12, <1>13, FlowShifts DEF ConsoleNext, Window, Deliver

-----------------------------------------------------------------------------
(* The terminal: a process is its own when it was launched built-in, and was
   attached to otherwise, in a target that knows so; and it remembers that a
   program runs exactly while there is one of its own.                     *)
Owned ==
  /\ inTerm \in BOOLEAN /\ ours \in BOOLEAN /\ (ours = TRUE => proc # "none")
  /\ ours = TRUE <=> impl \in Ending /\ inTerm = FALSE
  /\ reply # "attachNew" /\ (reply = "launch" => inTerm = FALSE)
  /\ reply \in {"attach", "attachStub"} => inTerm = TRUE
  /\ impl = "launching" => reply = "launch" \/ inTerm = TRUE

Remembers ==
  /\ termWasRunning \in BOOLEAN
  /\ impl \in Ending => termWasRunning = ours
  /\ impl \in {"loaded", "launching"} \/ reply = "load" => termWasRunning = FALSE

NoDetach(q) == \A k \in 1 .. Len(q) : q[k] \notin {"detach", "detaching"}

LEMMA TermLaunched ==
  ASSUME Shift, Owned, Ordered
  PROVE  LaunchedInTerm = IF impl = "none" THEN FALSE
                          ELSE IF reply = "none" /\ reply' = "launch" THEN FALSE
                          ELSE IF reply = "none" /\ reply' \in {"attach", "attachStub"} THEN TRUE ELSE inTerm
<1>1. impl = "none" => ~(reply = "none" /\ reply' \in {"launch", "attach", "attachStub"})
  BY DEF Shift, Ordered, Passed
<1>. QED
  BY <1>1 DEF LaunchedInTerm

LEMMA OwnedKept ==
  ASSUME Shift, Owned, Ordered, Terminal, "bareAttach" \notin slips
  PROVE  Owned'
<1>1. /\ inTerm' = IF impl = "none" THEN FALSE
                   ELSE IF reply = "none" /\ reply' = "launch" THEN FALSE
                   ELSE IF reply = "none" /\ reply' \in {"attach", "attachStub"} THEN TRUE ELSE inTerm
      /\ ours' = IF proc' = "none" THEN FALSE ELSE ours \/ reply = "launch"
      /\ reply' # "attachNew"
  BY TermLaunched DEF Terminal, Owner
<1>2. inTerm' \in BOOLEAN /\ ours' \in BOOLEAN
  BY <1>1 DEF Owned
<1>3. ours' = TRUE <=> proc' # "none" /\ (ours = TRUE \/ reply = "launch")
  BY <1>1 DEF Owned
<1>. QED
  BY <1>1, <1>2, <1>3 DEF Shift, Owned, Ordered, Ending, Passed

LEMMA RemembersKept ==
  ASSUME Shift, Owned, Ordered, Remembers, Terminal, slips \cap {"reload", "detach", "bareAttach"} = {}
  PROVE  Remembers' /\ exited' \in BOOLEAN /\ (exited' = TRUE <=> ours = TRUE /\ ours' = FALSE)
<1>. DEFINE here == IF impl = "none" THEN FALSE
                    ELSE IF reply = "none" /\ reply' = "launch" THEN FALSE
                    ELSE IF reply = "none" /\ reply' \in {"attach", "attachStub"} THEN TRUE ELSE inTerm
<1>1. /\ LaunchedInTerm = here /\ here \in BOOLEAN
      /\ ours' = IF proc' = "none" THEN FALSE ELSE ours \/ reply = "launch"
  BY TermLaunched DEF Terminal, Owner, Owned
<1>2. ours' = TRUE <=> proc' # "none" /\ (ours = TRUE \/ reply = "launch")
  BY <1>1 DEF Owned
<1>3. ours' \in BOOLEAN
  BY <1>1 DEF Owned
<1>4. impl = "none" /\ reply' = "load" => termWasRunning = FALSE
  BY DEF Terminal, Remembers
<1>5. CASE ~Notified \/ here = TRUE \/ NewState = "launching"
  <2>1. exited' = FALSE /\ termWasRunning' = termWasRunning
    BY <1>1, <1>5 DEF Terminal, Listen
  <2>. QED
    BY <1>2, <1>3, <1>4, <1>5, <2>1 DEF Shift, Owned, Ordered, Remembers, Ending, Passed, Notified, NewState
<1>6. CASE Notified /\ here = FALSE /\ NewState # "launching"
  <2>1. /\ exited' = (NewState = "loaded" /\ termWasRunning)
        /\ termWasRunning' = (NewState # "loaded")
    BY <1>1, <1>6 DEF Terminal, Listen
  <2>2. /\ exited' \in BOOLEAN /\ (exited' = TRUE <=> NewState = "loaded" /\ termWasRunning = TRUE)
        /\ termWasRunning' \in BOOLEAN /\ (termWasRunning' = TRUE <=> NewState # "loaded")
    BY <2>1 DEF Remembers
  <2>3. NewState = impl'
    BY <1>6 DEF NewState
  <2>. HIDE DEF NewState
  <2>. QED
    BY <1>2, <1>3, <1>6, <2>2, <2>3 DEF Shift, Owned, Ordered, Remembers, Ending, Passed, Notified
<1>. QED
  BY <1>1, <1>5, <1>6

-----------------------------------------------------------------------------
(* Without the slip, no command detaches from the process.                 *)
LEMMA TailDetaches ==
  ASSUME NEW q \in Seq(Steps), q # <<>>, NoDetach(q)
  PROVE  NoDetach(Tail(q)) /\ Tail(q) \in Seq(Steps)
<1>1. /\ Len(Tail(q)) = Len(q) - 1 /\ Len(q) \in Nat /\ Tail(q) \in Seq(Steps)
      /\ \A k \in 1 .. Len(Tail(q)) : Tail(q)[k] = q[k + 1]
  BY HeadTailProperties
<1>2. \A k \in 1 .. Len(q) - 1 : k + 1 \in 1 .. Len(q)
  BY <1>1
<1>. QED
  BY <1>1, <1>2 DEF NoDetach

LEMMA JoinDetaches ==
  ASSUME NEW p \in Seq(Steps), NEW q \in Seq(Steps), NoDetach(p), NoDetach(q)
  PROVE  NoDetach(p \o q)
<1>1. /\ Len(p \o q) = Len(p) + Len(q) /\ Len(p) \in Nat /\ Len(q) \in Nat
      /\ \A k \in 1 .. Len(p) : (p \o q)[k] = p[k]
      /\ \A k \in (Len(p) + 1) .. (Len(p) + Len(q)) : (p \o q)[k] = q[k - Len(p)]
  OBVIOUS
<1>2. \A k \in 1 .. Len(p) + Len(q) :
        \/ k \in 1 .. Len(p)
        \/ k \in (Len(p) + 1) .. (Len(p) + Len(q)) /\ k - Len(p) \in 1 .. Len(q)
  BY <1>1
<1>. QED
  BY <1>1, <1>2 DEF NoDetach

LEMMA NoDetaches ==
  /\ \A q \in {<<>>, TerminateSteps, CloseSteps, ConnectSteps, DisconnectSteps, LaunchSteps, <<"quit">>,
               <<"answer">>, <<"error">>, <<"askClose">>, <<"askTerminate">>, <<"load", "loading", "loaded">>,
               <<"attach", "loading", "attaching", "attached">>} :
       NoDetach(q) /\ q \in Seq(Steps)
  /\ DetachSteps # <<>> /\ First(DetachSteps) = "stop" /\ DetachSteps[3] = "detach" /\ Len(DetachSteps) = 5
<1>1. NoDetach(<<>>) /\ NoDetach(<<"quit">>) /\ NoDetach(<<"answer">>) /\ NoDetach(<<"error">>)
  BY DEF NoDetach
<1>2. NoDetach(TerminateSteps) /\ NoDetach(CloseSteps)
  BY DEF NoDetach, TerminateSteps, CloseSteps
<1>3. NoDetach(ConnectSteps) /\ NoDetach(DisconnectSteps) /\ NoDetach(LaunchSteps)
  BY DEF NoDetach, ConnectSteps, DisconnectSteps, LaunchSteps
<1>4. NoDetach(<<"askClose">>) /\ NoDetach(<<"askTerminate">>) /\ NoDetach(<<"load", "loading", "loaded">>)
  BY DEF NoDetach
<1>5. NoDetach(<<"attach", "loading", "attaching", "attached">>)
  BY DEF NoDetach
<1>6. /\ <<>> \in Seq(Steps) /\ <<"quit">> \in Seq(Steps) /\ <<"answer">> \in Seq(Steps) /\ <<"error">> \in Seq(Steps)
      /\ <<"askClose">> \in Seq(Steps) /\ <<"askTerminate">> \in Seq(Steps)
  BY DEF Steps
<1>7. /\ TerminateSteps \in Seq(Steps) /\ CloseSteps \in Seq(Steps) /\ ConnectSteps \in Seq(Steps)
      /\ DisconnectSteps \in Seq(Steps) /\ LaunchSteps \in Seq(Steps)
  BY DEF Steps, TerminateSteps, CloseSteps, ConnectSteps, DisconnectSteps, LaunchSteps
<1>8. /\ <<"load", "loading", "loaded">> \in Seq(Steps)
      /\ <<"attach", "loading", "attaching", "attached">> \in Seq(Steps)
  BY DEF Steps
<1>9. DetachSteps # <<>> /\ First(DetachSteps) = "stop" /\ DetachSteps[3] = "detach" /\ Len(DetachSteps) = 5
  BY DEF DetachSteps, First
<1>. QED
  BY <1>1, <1>2, <1>3, <1>4, <1>5, <1>6, <1>7, <1>8, <1>9

LEMMA CommandDetaches ==
  /\ \A p \in BOOLEAN : NoDetach(LoadSteps(p)) /\ NoDetach(AttachSteps(p))
  /\ NoDetach(CloseSteps \o <<"quit">>)
  /\ \A c \in DOMAIN StepsOf : c # "detach" => NoDetach(StepsOf[c] \o <<"answer">>)
<1>1. ASSUME NEW p \in BOOLEAN
      PROVE  NoDetach(LoadSteps(p)) /\ NoDetach(AttachSteps(p))
  <2>. DEFINE load == <<"load", "loading", "loaded">>
              attach == <<"attach", "loading", "attaching", "attached">>
              middle == IF p THEN ConnectSteps ELSE <<>>
  <2>1. /\ load \in Seq(Steps) /\ attach \in Seq(Steps) /\ NoDetach(load) /\ NoDetach(attach)
        /\ <<"askClose">> \in Seq(Steps) /\ <<"askTerminate">> \in Seq(Steps)
        /\ NoDetach(<<"askClose">>) /\ NoDetach(<<"askTerminate">>)
        /\ middle \in Seq(Steps) /\ NoDetach(middle)
    BY NoDetaches, Zenon
  <2>2. LoadSteps(p) = (<<"askClose">> \o middle) \o load /\ AttachSteps(p) = (<<"askTerminate">> \o middle) \o attach
    BY DEF LoadSteps, AttachSteps
  <2>. HIDE DEF load, attach, middle
  <2>3. /\ <<"askClose">> \o middle \in Seq(Steps) /\ <<"askTerminate">> \o middle \in Seq(Steps)
    BY <2>1
  <2>4. /\ NoDetach(<<"askClose">> \o middle) /\ NoDetach(<<"askTerminate">> \o middle)
    BY <2>1, JoinDetaches
  <2>5. /\ NoDetach((<<"askClose">> \o middle) \o load) /\ NoDetach((<<"askTerminate">> \o middle) \o attach)
    BY <2>1, <2>3, <2>4, JoinDetaches
  <2>. QED
    BY <2>2, <2>5
<1>2. NoDetach(CloseSteps \o <<"quit">>)
  <2>1. CloseSteps \in Seq(Steps) /\ NoDetach(CloseSteps) /\ <<"quit">> \in Seq(Steps) /\ NoDetach(<<"quit">>)
    BY NoDetaches, Zenon
  <2>. QED
    BY <2>1, JoinDetaches
<1>3. ASSUME NEW c \in DOMAIN StepsOf, c # "detach"
      PROVE  NoDetach(StepsOf[c] \o <<"answer">>)
  <2>1. StepsOf[c] \in Seq(Steps) /\ <<"answer">> \in Seq(Steps) /\ NoDetach(<<"answer">>)
    BY ConsoleChains, NoDetaches, Zenon
  <2>2. \/ StepsOf[c] = AttachSteps(FALSE)
        \/ StepsOf[c] \in {TerminateSteps, LaunchSteps, <<"load", "loading", "loaded">>, CloseSteps,
                           ConnectSteps, DisconnectSteps}
    <3>1. DOMAIN StepsOf = {"attach", "detach", "kill", "launch", "create", "delete", "connect", "disconnect"}
      BY ConsoleChains
    <3>2. /\ StepsOf["attach"] = AttachSteps(FALSE) /\ StepsOf["kill"] = TerminateSteps
          /\ StepsOf["launch"] = LaunchSteps /\ StepsOf["create"] = <<"load", "loading", "loaded">>
          /\ StepsOf["delete"] = CloseSteps /\ StepsOf["connect"] = ConnectSteps
          /\ StepsOf["disconnect"] = DisconnectSteps
      BY DEF StepsOf
    <3>. HIDE DEF StepsOf
    <3>. QED
      BY <1>3, <3>1, <3>2, Zenon
  <2>3. NoDetach(StepsOf[c])
    BY <1>1, <2>2, NoDetaches, Zenon
  <2>. HIDE DEF StepsOf
  <2>. QED
    BY <2>1, <2>3, JoinDetaches
<1>. QED
  BY <1>1, <1>2, <1>3

LEMMA DetachKept ==
  ASSUME ShellInv, NoDetach(todo), ConsoleNext, "detach" \notin slips
  PROVE  NoDetach(todo')
<1>1. Chain(todo, "end") /\ todo \in Seq(Steps)
  BY DEF ShellInv, Chain
<1>2. ASSUME UNCHANGED vars \/ Direct
      PROVE  NoDetach(todo')
  BY <1>2 DEF vars, shellVars, Direct
<1>3. NoDetach(<<>>) /\ NoDetach(<<"error">>)
  BY NoDetaches, Zenon
<1>4. CASE Type
  <2>1. PICK c \in Commands : Refuse(c) \/ Begin(c) \/ Act(c) \/ Edit(c) \/ Queue(c)
    BY <1>4 DEF Type
  <2>2. CASE Begin(c)
    BY <2>2, CommandDetaches DEF Begin, Command
  <2>. QED
    BY <1>2, <2>1, <2>2 DEF Refuse, Act, Edit, Queue
<1>5. CASE Answered \/ AnswerLate
  BY <1>2, <1>3, <1>5 DEF Answered, Done, Decline, Catch, AnswerLate
<1>6. CASE Window /\ User /\ ~Direct
  <2>1. PICK steps : /\ Command(steps)
                     /\ \/ steps \in {LaunchSteps, TerminateSteps, DetachSteps, CloseSteps, ConnectSteps,
                                      DisconnectSteps, <<"quit">>, CloseSteps \o <<"quit">>}
                        \/ \E p \in BOOLEAN : steps \in {LoadSteps(p), AttachSteps(p)}
    BY <1>6 DEF User, Start, StopDebugging, DetachFromProcess, CloseExecutable, LoadExecutable,
                AttachToProcess, ConnectToPlatform, DisconnectFromPlatform, CloseWindow
  <2>2. todo = <<>> /\ todo' = steps
    BY <2>1 DEF Command, Free
  <2>3. steps # DetachSteps
    BY <1>6, <2>2 DEF Window
  <2>4. NoDetach(steps)
    BY <2>1, <2>3, NoDetaches, CommandDetaches, Zenon
  <2>. QED
    BY <2>2, <2>4
<1>7. CASE Flow
  <2>1. todo # <<>>
    BY <1>7, FlowAt
  <2>2. Here = "terminate" /\ todo' = SubSeq(todo, 4, Len(todo)) => NoDetach(todo')
    <3>1. ASSUME Here = "terminate", todo' = SubSeq(todo, 4, Len(todo))
          PROVE  NoDetach(todo')
      <4>1. todo' = Tail(Tail(Tail(todo))) /\ Tail(todo) # <<>> /\ Tail(Tail(todo)) # <<>>
        BY <1>1, <3>1, Skipped DEF Here
      <4>2. NoDetach(Tail(todo)) /\ Tail(todo) \in Seq(Steps)
        BY <1>1, <2>1, TailDetaches
      <4>3. NoDetach(Tail(Tail(todo))) /\ Tail(Tail(todo)) \in Seq(Steps)
        BY <4>1, <4>2, TailDetaches
      <4>4. NoDetach(Tail(Tail(Tail(todo))))
        BY <4>1, <4>3, TailDetaches
      <4>. QED
        BY <4>1, <4>4
    <3>. QED
      BY <3>1
  <2>3. NoDetach(Tail(todo))
    BY <1>1, <2>1, TailDetaches
  <2>. QED
    BY <1>3, <1>7, <2>2, <2>3, FlowMoves
<1>8. CASE Answer \/ Resume
  <2>1. open = TRUE
    BY <1>8 DEF Answer, Resume, ShellInv, Shell
  <2>2. todo # <<>>
    <3>1. "end" \notin Dialogs
      BY Waits DEF Dialogs, Progress, Questions
    <3>. QED
      BY <2>1, <3>1, Underway DEF ShellInv, Shell
  <2>3. NoDetach(Tail(todo)) /\ Tail(todo) \in Seq(Steps)
    BY <1>1, <2>2, TailDetaches
  <2>4. TerminateSteps \in Seq(Steps) /\ NoDetach(TerminateSteps) /\ CloseSteps \in Seq(Steps) /\ NoDetach(CloseSteps)
    BY NoDetaches, Zenon
  <2>5. NoDetach(TerminateSteps \o Tail(todo)) /\ NoDetach(CloseSteps \o Tail(todo))
    BY <2>3, <2>4, JoinDetaches
  <2>. QED
    BY <1>3, <1>8, <2>3, <2>5 DEF Answer, Resume, Go
<1>9. CASE Deliver \/ BoxClosed
  BY <1>9, DeliverRuns
<1>. QED
  BY <1>2, <1>4, <1>5, <1>6, <1>7, <1>8, <1>9 DEF ConsoleNext, Window

(* A process of the terminal's own that goes was not detached from. *)
LEMMA NotDetached ==
  ASSUME ShellInv, Orderly, NoDetach(todo), ConsoleNext, Shift, Terminal, Owned, ours = TRUE, ours' = FALSE
  PROVE  dbg # "detaching"
<1>1. proc' = "none" /\ proc # "none"
  BY DEF Terminal, Owner, Owned
<1>2. D!UserAction \/ UNCHANGED debuggerVars => proc' = proc
  BY DEF D!UserAction, D!Connect, D!Disconnect, D!Load, D!Attach, D!LaunchBuiltin, D!LaunchInTerminal,
         D!Run, D!Stop, D!EndProcess, D!CloseTarget, debuggerVars
<1>3. UNCHANGED vars => UNCHANGED debuggerVars
  BY DEF vars
<1>4. \A steps : Command(steps) => UNCHANGED debuggerVars
  BY DEF Command
<1>5. Direct => D!UserAction \/ UNCHANGED debuggerVars
  BY DEF Direct, D!UserAction
<1>6. Type => D!UserAction \/ UNCHANGED debuggerVars
  BY <1>3, <1>4, <1>5 DEF Type, Refuse, Begin, Act, Edit, Queue
<1>7. Answered \/ AnswerLate \/ Answer \/ Resume => UNCHANGED debuggerVars
  BY <1>3 DEF Answered, Done, Decline, Catch, AnswerLate, Answer, Resume
<1>8. User => D!UserAction \/ UNCHANGED debuggerVars
  BY <1>4, <1>5 DEF User, Start, StopDebugging, DetachFromProcess, CloseExecutable, LoadExecutable,
       AttachToProcess, ConnectToPlatform, DisconnectFromPlatform, CloseWindow
<1>9. Deliver \/ BoxClosed
  BY <1>1, <1>2, <1>6, <1>7, <1>8, FlowRequests DEF ConsoleNext, Window
<1>10. Looping
  BY <1>9 DEF Deliver, DeliverResult, DeliverStop, DeliverExit, DeliverKilled, WatchpointStop, BoxClosed, Looping
<1>11. ASSUME dbg = "detaching"
       PROVE  FALSE
  <2>1. Known
    BY <1>10, Located
  <2>2. Ends("detaching")
    BY <1>11, <2>1 DEF Known
  <2>3. Here = "detaching"
    BY <1>10, <2>2, Located
  <2>4. todo \in Seq(Steps) /\ Len(todo) > 0 /\ todo[1] = "detaching"
    BY <2>3 DEF ShellInv, Chain, Here, First
  <2>. QED
    BY <2>4 DEF NoDetach
<1>. QED
  BY <1>11

-----------------------------------------------------------------------------
TerminalInv ==
  Orderly /\ "bareAttach" \notin slips =>
    Owned /\ (slips \cap {"reload", "detach"} = {} => Remembers /\ NoDetach(todo))

LEMMA InitTerminal == ConsoleInit => TerminalInv
<1>1. ASSUME ConsoleInit
      PROVE  TerminalInv
  <2>1. /\ Init /\ termWasRunning = FALSE /\ inTerm = FALSE /\ ours = FALSE
    BY <1>1 DEF ConsoleInit
  <2>2. todo = <<>> /\ D!Init
    BY <2>1 DEF Init
  <2>3. impl = "none" /\ reply = "none" /\ proc = "none"
    BY <2>2 DEF D!Init
  <2>4. NoDetach(todo)
    BY <2>2, NoDetaches, Zenon
  <2>. QED
    BY <2>1, <2>3, <2>4 DEF TerminalInv, Owned, Remembers, Ending
<1>. QED
  BY <1>1

LEMMA TerminalKept ==
  ASSUME ShellInv, TerminalInv, ConsoleNext
  PROVE  TerminalInv'
<1>1. slips' = slips /\ mishaps' = mishaps
  BY ScenarioKept
<1>. SUFFICES ASSUME Orderly, "bareAttach" \notin slips
              PROVE  Owned' /\ (slips \cap {"reload", "detach"} = {} => Remembers' /\ NoDetach(todo)')
  BY <1>1 DEF TerminalInv, Orderly
<1>2. Owned /\ Ordered /\ Terminal
  BY DEF TerminalInv, ShellInv, Leaves, ConsoleNext
<1>3. Shift
  BY <1>2, ConsoleShifts DEF Owned
<1>4. Owned'
  BY <1>2, <1>3, OwnedKept
<1>5. ASSUME slips \cap {"reload", "detach"} = {}
      PROVE  Remembers' /\ NoDetach(todo)'
  <2>1. Remembers /\ NoDetach(todo)
    BY <1>5 DEF TerminalInv
  <2>2. Remembers'
    BY <1>2, <1>3, <1>5, <2>1, RemembersKept
  <2>3. NoDetach(todo')
    BY <1>5, <2>1, DetachKept
  <2>. QED
    BY <2>2, <2>3 DEF NoDetach
<1>. QED
  BY <1>4, <1>5

Tells ==
  /\ slips \cap {"reload", "detach", "bareAttach"} = {} =>
       (exited' <=> ours /\ ~ours' /\ dbg # "detaching")
  /\ ("bareAttach" \notin slips => (CanSend => ours))'

LEMMA TerminalTells ==
  ASSUME ShellInv, TerminalInv, TerminalInv', Orderly, ConsoleNext
  PROVE  Tells
<1>1. slips' = slips /\ mishaps' = mishaps
  BY ScenarioKept
<1>2. ("bareAttach" \notin slips => (CanSend => ours))'
  <2>1. ASSUME "bareAttach" \notin slips'
        PROVE  CanSend' => ours'
    <3>1. Owned'
      BY <1>1, <2>1 DEF TerminalInv, Orderly
    <3>2. CanSend' => impl' \in Ending /\ inTerm' = FALSE
      BY <3>1 DEF CanSend, Owned, Ending
    <3>. QED
      BY <3>1, <3>2 DEF Owned
  <2>. QED
    BY <2>1
<1>3. ASSUME slips \cap {"reload", "detach", "bareAttach"} = {}
      PROVE  exited' <=> ours /\ ~ours' /\ dbg # "detaching"
  <2>1. Owned /\ Owned' /\ Remembers /\ NoDetach(todo) /\ Ordered /\ Terminal
    BY <1>1, <1>3 DEF TerminalInv, ShellInv, Leaves, ConsoleNext, Orderly
  <2>2. Shift
    BY <2>1, ConsoleShifts DEF Owned
  <2>3. exited' \in BOOLEAN /\ (exited' = TRUE <=> ours = TRUE /\ ours' = FALSE)
    BY <1>3, <2>1, <2>2, RemembersKept
  <2>4. ours = TRUE /\ ours' = FALSE => dbg # "detaching"
    BY <2>1, <2>2, NotDetached
  <2>5. ours \in BOOLEAN /\ ours' \in BOOLEAN
    BY <2>1 DEF Owned
  <2>. QED
    BY <2>3, <2>4, <2>5
<1>. QED
  BY <1>2, <1>3 DEF Tells

(* The terminal tells of the end of a program, and takes input for it, exactly
   when it is one that was launched here, whatever the commands and the target
   have done before: but for the slips. *)
THEOREM TerminalIsSound == ConsoleSpec /\ Orderly => TerminalSound
<1>1. ConsoleInit => TerminalInv
  BY InitTerminal
<1>2. ConsoleInv /\ TerminalInv /\ [ConsoleNext]_allVars => TerminalInv'
  <2>1. ASSUME ShellInv, TerminalInv, UNCHANGED allVars
        PROVE  TerminalInv'
    BY <2>1 DEF TerminalInv, Orderly, Owned, Remembers, allVars, vars, debuggerVars, shellVars,
                terminalVars, NoDetach
  <2>2. ASSUME ShellInv, TerminalInv, ConsoleNext
        PROVE  TerminalInv'
    BY <2>2, TerminalKept
  <2>. QED
    BY <2>1, <2>2 DEF ConsoleInv
<1>3. /\ ConsoleInv /\ TerminalInv /\ TerminalInv' /\ Orderly /\ [ConsoleNext]_allVars
      => Orderly' /\ [Tells]_allVars
  <2>1. ASSUME ShellInv, TerminalInv, TerminalInv', Orderly, [ConsoleNext]_allVars
        PROVE  Orderly' /\ [Tells]_allVars
    BY <2>1, ScenarioKept, TerminalTells DEF Orderly
  <2>. QED
    BY <2>1 DEF ConsoleInv
<1>4. [Tells]_allVars <=>
      [/\ slips \cap {"reload", "detach", "bareAttach"} = {} =>
            (exited' <=> ours /\ ~ours' /\ dbg # "detaching")
       /\ ("bareAttach" \notin slips => (CanSend => ours))']_allVars
  BY DEF Tells
<1>. QED
  BY <1>1, <1>2, <1>3, <1>4, AlwaysConsole, PTL DEF ConsoleSpec, TerminalSound
=============================================================================
