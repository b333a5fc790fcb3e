--------------------------- MODULE LaunchingProofs ---------------------------
(***************************************************************************)
(* Proofs about Launching.tla, for all bounds and scenarios: launches in a *)
(* terminal keep to their own processes, and a monitor tells of the end of *)
(* its process when it has told all else.                                  *)
(***************************************************************************)
EXTENDS Launching, Sequences, FiniteSetTheorems, TLAPS

-----------------------------------------------------------------------------
(* What a monitor's queue may hold, and the facts about taking the first    *)
(* closure, adding a last one and counting them.                           *)

(* Every closure in q is of S; or every one but one, which is m: those     *)
(* before it are of S, those behind it of T.                               *)
All(q, S) == \A i \in 1 .. Len(q) : q[i] \in S
One(q, S, m, T) == \E k \in 1 .. Len(q) :
  /\ q[k] = m
  /\ \A i \in 1 .. k - 1 : q[i] \in S
  /\ \A i \in k + 1 .. Len(q) : q[i] \in T

\* How many closures of q are e.
Places(q, e) == {i \in 1 .. Len(q) : q[i] = e}
Count(q, e) == Cardinality(Places(q, e))

(* An empty queue holds nothing. *)
LEMMA EmptyQueue ==
  /\ \A S : All(<<>>, S)
  /\ \A S, m, T : ~One(<<>>, S, m, T)
BY DEF All, One

(* The first closure, and what is left when it is taken. *)
LEMMA Taken ==
  ASSUME NEW U, NEW q \in Seq(U), q # <<>>
  PROVE  /\ \A S : All(q, S) => Head(q) \in S /\ All(Tail(q), S)
         /\ \A S, m, T : One(q, S, m, T) =>
              \/ Head(q) = m /\ All(Tail(q), T)
              \/ Head(q) \in S /\ One(Tail(q), S, m, T)
<1>1. /\ Tail(q) \in Seq(U) /\ Len(q) \in Nat /\ Len(q) > 0
      /\ Len(Tail(q)) = Len(q) - 1 /\ Head(q) = q[1]
      /\ \A i \in 1 .. Len(q) - 1 : Tail(q)[i] = q[i + 1]
  OBVIOUS
<1>2. ASSUME NEW S, All(q, S) PROVE Head(q) \in S /\ All(Tail(q), S)
  BY <1>1, <1>2 DEF All
<1>3. ASSUME NEW S, NEW m, NEW T, One(q, S, m, T)
      PROVE  \/ Head(q) = m /\ All(Tail(q), T)
             \/ Head(q) \in S /\ One(Tail(q), S, m, T)
  <2>1. PICK k \in 1 .. Len(q) :
           /\ q[k] = m
           /\ \A i \in 1 .. k - 1 : q[i] \in S
           /\ \A i \in k + 1 .. Len(q) : q[i] \in T
    BY <1>3 DEF One
  <2>2. CASE k = 1
    BY <1>1, <2>1, <2>2 DEF All
  <2>3. CASE k # 1
    <3>1. k - 1 \in 1 .. Len(Tail(q)) /\ Tail(q)[k - 1] = m /\ Head(q) \in S
      BY <1>1, <2>1, <2>3
    <3>2. \A i \in 1 .. (k - 1) - 1 : Tail(q)[i] \in S
      BY <1>1, <2>1, <2>3
    <3>3. \A i \in (k - 1) + 1 .. Len(Tail(q)) : Tail(q)[i] \in T
      BY <1>1, <2>1, <2>3
    <3> QED BY <3>1, <3>2, <3>3 DEF One
  <2> QED BY <2>2, <2>3
<1> QED BY <1>2, <1>3

(* Two queues read as one. *)
LEMMA Joined ==
  ASSUME NEW U, NEW q \in Seq(U), NEW r \in Seq(U)
  PROVE  /\ \A S : All(q \o r, S) <=> All(q, S) /\ All(r, S)
         /\ \A S, m, T : One(q \o r, S, m, T) <=>
              \/ One(q, S, m, T) /\ All(r, T)
              \/ All(q, S) /\ One(r, S, m, T)
<1>1. /\ Len(q) \in Nat /\ Len(r) \in Nat /\ Len(q \o r) = Len(q) + Len(r)
      /\ \A i \in 1 .. Len(q) : (q \o r)[i] = q[i]
      /\ \A i \in 1 .. Len(r) : (q \o r)[Len(q) + i] = r[i]
  OBVIOUS
<1>2. ASSUME NEW S PROVE All(q \o r, S) <=> All(q, S) /\ All(r, S)
  <2>1. All(q, S) /\ All(r, S) => All(q \o r, S)
    <3>1. \A i \in 1 .. Len(q) + Len(r) : i \notin 1 .. Len(q) => i - Len(q) \in 1 .. Len(r)
      BY <1>1
    <3> QED BY <1>1, <3>1 DEF All
  <2>2. All(q \o r, S) => All(q, S)
    BY <1>1 DEF All
  <2>3. ASSUME All(q \o r, S), NEW i \in 1 .. Len(r) PROVE r[i] \in S
    <3>1. Len(q) + i \in 1 .. Len(q \o r) /\ (q \o r)[Len(q) + i] = r[i]
      BY <1>1
    <3> QED BY <2>3, <3>1 DEF All
  <2> QED BY <2>1, <2>2, <2>3 DEF All
<1>3. ASSUME NEW S, NEW m, NEW T, One(q \o r, S, m, T)
      PROVE  \/ One(q, S, m, T) /\ All(r, T)
             \/ All(q, S) /\ One(r, S, m, T)
  <2>1. PICK k \in 1 .. Len(q \o r) :
           /\ (q \o r)[k] = m
           /\ \A i \in 1 .. k - 1 : (q \o r)[i] \in S
           /\ \A i \in k + 1 .. Len(q \o r) : (q \o r)[i] \in T
    BY <1>3 DEF One
  <2>2. CASE k <= Len(q)
    <3>1. One(q, S, m, T)
      BY <1>1, <2>1, <2>2 DEF One
    <3>2. All(r, T)
      BY <1>1, <2>1, <2>2 DEF All
    <3> QED BY <3>1, <3>2
  <2>3. CASE k > Len(q)
    <3>1. All(q, S)
      BY <1>1, <2>1, <2>3 DEF All
    <3>2. k - Len(q) \in 1 .. Len(r) /\ r[k - Len(q)] = m
      BY <1>1, <2>1, <2>3
    <3>3. ASSUME NEW i \in 1 .. (k - Len(q)) - 1 PROVE r[i] \in S
      <4>1. Len(q) + i \in 1 .. k - 1 /\ (q \o r)[Len(q) + i] = r[i]
        BY <1>1, <2>1, <2>3
      <4> QED BY <2>1, <4>1
    <3>4. ASSUME NEW i \in (k - Len(q)) + 1 .. Len(r) PROVE r[i] \in T
      <4>1. Len(q) + i \in k + 1 .. Len(q \o r) /\ (q \o r)[Len(q) + i] = r[i]
        BY <1>1, <2>1, <2>3
      <4> QED BY <2>1, <4>1
    <3> QED BY <3>1, <3>2, <3>3, <3>4 DEF One
  <2> QED BY <1>1, <2>2, <2>3
<1>4. ASSUME NEW S, NEW m, NEW T, One(q, S, m, T), All(r, T)
      PROVE  One(q \o r, S, m, T)
  <2>1. PICK k \in 1 .. Len(q) :
           /\ q[k] = m
           /\ \A i \in 1 .. k - 1 : q[i] \in S
           /\ \A i \in k + 1 .. Len(q) : q[i] \in T
    BY <1>4 DEF One
  <2>2. /\ k \in 1 .. Len(q \o r) /\ (q \o r)[k] = m
        /\ \A i \in 1 .. k - 1 : (q \o r)[i] \in S
    BY <1>1, <2>1
  <2>3. ASSUME NEW i \in k + 1 .. Len(q \o r) PROVE (q \o r)[i] \in T
    <3>1. CASE i <= Len(q)
      BY <1>1, <2>1, <3>1
    <3>2. CASE i > Len(q)
      <4>1. i - Len(q) \in 1 .. Len(r) /\ Len(q) + (i - Len(q)) = i
        BY <1>1, <2>1, <3>2
      <4> QED BY <1>1, <1>4, <4>1 DEF All
    <3> QED BY <1>1, <2>1, <3>1, <3>2
  <2> QED BY <2>2, <2>3 DEF One
<1>5. ASSUME NEW S, NEW m, NEW T, All(q, S), One(r, S, m, T)
      PROVE  One(q \o r, S, m, T)
  <2>1. PICK k \in 1 .. Len(r) :
           /\ r[k] = m
           /\ \A i \in 1 .. k - 1 : r[i] \in S
           /\ \A i \in k + 1 .. Len(r) : r[i] \in T
    BY <1>5 DEF One
  <2>2. Len(q) + k \in 1 .. Len(q \o r) /\ (q \o r)[Len(q) + k] = m
    BY <1>1, <2>1
  <2>3. ASSUME NEW i \in 1 .. (Len(q) + k) - 1 PROVE (q \o r)[i] \in S
    <3>1. CASE i <= Len(q)
      BY <1>1, <1>5, <3>1 DEF All
    <3>2. CASE i > Len(q)
      <4>1. i - Len(q) \in 1 .. k - 1 /\ Len(q) + (i - Len(q)) = i
        BY <1>1, <2>1, <3>2
      <4> QED BY <1>1, <2>1, <4>1
    <3> QED BY <1>1, <2>1, <3>1, <3>2
  <2>4. ASSUME NEW i \in (Len(q) + k) + 1 .. Len(q \o r) PROVE (q \o r)[i] \in T
    <3>1. i - Len(q) \in k + 1 .. Len(r) /\ Len(q) + (i - Len(q)) = i
      BY <1>1, <2>1
    <3> QED BY <1>1, <2>1, <3>1
  <2> QED BY <2>2, <2>3, <2>4 DEF One
<1> QED BY <1>2, <1>3, <1>4, <1>5

(* A queue of one closure. *)
LEMMA Single ==
  ASSUME NEW e
  PROVE  /\ \A S : All(<<e>>, S) <=> e \in S
         /\ \A S, m, T : One(<<e>>, S, m, T) <=> e = m
<1>1. Len(<<e>>) = 1 /\ <<e>>[1] = e
  OBVIOUS
<1> QED BY <1>1 DEF All, One

(* A closure is added at the end. *)
LEMMA Added ==
  ASSUME NEW U, NEW q \in Seq(U), NEW e \in U
  PROVE  /\ \A S : All(q, S) /\ e \in S => All(Append(q, e), S)
         /\ \A S, m, T : One(q, S, m, T) /\ e \in T => One(Append(q, e), S, m, T)
         /\ \A S, T : All(q, S) => One(Append(q, e), S, e, T)
<1>1. <<e>> \in Seq(U) /\ Append(q, e) = q \o <<e>>
  OBVIOUS
<1>2. /\ \A S : All(q \o <<e>>, S) <=> All(q, S) /\ All(<<e>>, S)
      /\ \A S, m, T : One(q \o <<e>>, S, m, T) <=>
           \/ One(q, S, m, T) /\ All(<<e>>, T)
           \/ All(q, S) /\ One(<<e>>, S, m, T)
  BY <1>1, Joined
<1> QED BY <1>1, <1>2, Single

(* Queues that are not empty. *)
LEMMA Filled ==
  ASSUME NEW U, NEW q \in Seq(U)
  PROVE  /\ \A e \in U : Append(q, e) \in Seq(U) /\ Append(q, e) # <<>>
         /\ Len(q) > 1 => Tail(q) \in Seq(U) /\ Tail(q) # <<>>
<1>1. Len(q) \in Nat /\ Len(<<>>) = 0
  OBVIOUS
<1>2. \A e \in U : Append(q, e) \in Seq(U) /\ Len(Append(q, e)) = Len(q) + 1
  OBVIOUS
<1>3. Len(q) > 1 => Tail(q) \in Seq(U) /\ Len(Tail(q)) = Len(q) - 1
  OBVIOUS
<1> QED BY <1>1, <1>2, <1>3

(* Sets of closures and larger ones. *)
LEMMA Wider ==
  ASSUME NEW q, NEW S, NEW R, S \subseteq R
  PROVE  /\ All(q, S) => All(q, R)
         /\ \A m, T : One(q, S, m, T) => One(q, R, m, T)
         /\ \A m, T : One(q, T, m, S) => One(q, T, m, R)
BY DEF All, One

(* The places of a queue are finitely many. *)
LEMMA FinitePlaces ==
  ASSUME NEW U, NEW q \in Seq(U), NEW e
  PROVE  IsFiniteSet(Places(q, e)) /\ Count(q, e) \in Nat
<1>1. Len(q) \in Nat /\ Places(q, e) \subseteq 1 .. Len(q)
  BY DEF Places
<1>2. IsFiniteSet(1 .. Len(q))
  BY <1>1, FS_Interval
<1>3. IsFiniteSet(Places(q, e))
  BY <1>1, <1>2, FS_Subset
<1> QED BY <1>3, FS_CardinalityType DEF Count

(* None is counted where none is. *)
LEMMA CountNone ==
  ASSUME NEW q, NEW e, NEW S, All(q, S), e \notin S
  PROVE  Count(q, e) = 0
<1>1. Places(q, e) = {}
  BY DEF All, Places
<1> QED BY <1>1, FS_EmptySet DEF Count

(* A closure added at the end counts. *)
LEMMA CountAdded ==
  ASSUME NEW U, NEW q \in Seq(U), NEW f \in U, NEW e
  PROVE  Count(Append(q, f), e) = IF f = e THEN Count(q, e) + 1 ELSE Count(q, e)
<1>1. /\ Len(q) \in Nat /\ Len(Append(q, f)) = Len(q) + 1 /\ Append(q, f)[Len(q) + 1] = f
      /\ \A i \in 1 .. Len(q) : Append(q, f)[i] = q[i]
  OBVIOUS
<1>2. IsFiniteSet(Places(q, e)) /\ Len(q) + 1 \notin Places(q, e)
  <2>1. IsFiniteSet(Places(q, e))
    BY FinitePlaces
  <2> QED BY <1>1, <2>1 DEF Places
<1>3. CASE f = e
  <2>1. Places(Append(q, f), e) = Places(q, e) \cup {Len(q) + 1}
    BY <1>1, <1>3 DEF Places
  <2> QED BY <1>2, <1>3, <2>1, FS_AddElement DEF Count
<1>4. CASE f # e
  <2>1. Places(Append(q, f), e) = Places(q, e)
    BY <1>1, <1>4 DEF Places
  <2> QED BY <1>4, <2>1 DEF Count
<1> QED BY <1>3, <1>4

(* The first closure, taken, no longer does. *)
LEMMA CountTaken ==
  ASSUME NEW U, NEW q \in Seq(U), q # <<>>, NEW e
  PROVE  Count(q, e) = IF Head(q) = e THEN Count(Tail(q), e) + 1 ELSE Count(Tail(q), e)
<1> DEFINE T == Places(Tail(q), e)
           R == Places(q, e) \ {1}
           f == [i \in T |-> i + 1]
<1>1. /\ Len(q) \in Nat /\ Len(q) > 0 /\ Len(Tail(q)) = Len(q) - 1 /\ Head(q) = q[1]
      /\ Tail(q) \in Seq(U) /\ \A i \in 1 .. Len(q) - 1 : Tail(q)[i] = q[i + 1]
  OBVIOUS
<1>2. IsFiniteSet(T) /\ IsFiniteSet(Places(q, e)) /\ Count(q, e) \in Nat
  BY <1>1, FinitePlaces
<1>3. f \in Bijection(T, R)
  <2>1. T \subseteq Nat /\ R \subseteq Nat
    BY <1>1 DEF Places
  <2>2. f \in [T -> R]
    BY <1>1 DEF Places
  <2>3. \A i, j \in T : f[i] = f[j] => i = j
    BY <2>1
  <2>4. ASSUME NEW j \in R PROVE \E i \in T : f[i] = j
    <3>1. j - 1 \in T
      BY <1>1 DEF Places
    <3> QED BY <2>1, <3>1
  <2> HIDE DEF f, T, R
  <2>5. f \in Injection(T, R)
    BY <2>2, <2>3 DEF Injection, IsInjective
  <2>6. f \in Surjection(T, R)
    BY <2>2, <2>4 DEF Surjection
  <2> QED BY <2>5, <2>6 DEF Bijection
<1>4. Cardinality(R) = Cardinality(T)
  <2> HIDE DEF f, T, R
  <2> QED BY <1>2, <1>3, FS_Bijection DEF ExistsBijection
<1>5. Cardinality(R) = IF 1 \in Places(q, e) THEN Count(q, e) - 1 ELSE Count(q, e)
  BY <1>2, FS_RemoveElement DEF Count
<1>6. 1 \in Places(q, e) <=> Head(q) = e
  BY <1>1 DEF Places
<1>7. Count(Tail(q), e) = Cardinality(T)
  BY DEF Count
<1> HIDE DEF R, T, f
<1> QED BY <1>2, <1>4, <1>5, <1>6, <1>7

-----------------------------------------------------------------------------
(***************************************************************************)
(* The exec stub. While the debugger waits or attaches, the shared name    *)
(* denotes the region of its latest launch; in a behaviour where all keep  *)
(* up, stub and child of a launch are through with the name by then, and   *)
(* no child is too early or late for its notification.                     *)
(***************************************************************************)
Busy == phase # "idle" => launch \in Launches /\ server = launch
FoundOne == phase = "attaching" => found \in Launches

\* Stub i has reported, or is still to report while the debugger waits.
Reports(i) ==
  /\ i > launch => parent[i] = "none" /\ child[i] = "none" /\ pid[i] = NoPid
  /\ i < launch \/ (i = launch /\ phase # "waiting") => parent[i] = "done"
  /\ i <= launch => terminal[i] = TRUE
  /\ pid[i] \in {NoPid, i} /\ (pid[i] # NoPid => parent[i] = "done")
  /\ parent[i] = "open" => parentShm[i] = i

\* Child i has its own launch's region, and the debugger runs it.
Follows(i) ==
  /\ child[i] \in {"forked", "open"} => i = launch /\ phase # "idle"
  /\ child[i] \in {"open", "waiting", "notified", "program"} => childShm[i] = i
  /\ child[i] \in {"notified", "program"} => i \in attached

KeepUp == found \in {NoPid, launch} /\ \A i \in Launches : Reports(i) /\ Follows(i)

StubInv == TypeOK /\ Busy /\ FoundOne /\ (InTime => KeepUp)

-----------------------------------------------------------------------------
(* The bounds are those of a range of naturals. *)
LEMMA Numbers == /\ MaxLaunches \in Nat /\ Launches = 1 .. MaxLaunches
                 /\ NoRegion = 0 /\ NoPid = 0 /\ 0 \notin Launches
BY BoundsAssumption DEF Launches, NoRegion, NoPid

(* The stub's invariant holds before the first launch. *)
LEMMA StubInit == Init => StubInv
<1> SUFFICES ASSUME Init PROVE StubInv
  OBVIOUS
<1>1. TypeOK
  BY Numbers, BoundsAssumption, ScenariosAssumption DEF Init, TypeOK
<1> QED BY <1>1, Numbers DEF Init, StubInv, Busy, FoundOne, KeepUp, Reports, Follows

(* Each step keeps the types, and the name that of the latest launch. *)
LEMMA StubTypes ==
  ASSUME StubInv, Next
  PROVE  TypeOK' /\ Busy' /\ FoundOne'
<1>. USE Numbers DEF StubInv, TypeOK, Busy, FoundOne, debuggerVars, parentVars, childVars
<1>1. CASE LaunchTerminal
  BY <1>1, BoundsAssumption DEF LaunchTerminal
<1>2. CASE Wait
  BY <1>2, BoundsAssumption DEF Wait
<1>3. CASE Attach
  BY <1>3 DEF Attach
<1>4. CASE CloseTarget
  BY <1>4 DEF CloseTarget
<1>5. ASSUME NEW i \in Launches, Parent(i) PROVE TypeOK' /\ Busy' /\ FoundOne'
  <2>1. CASE Fork(i)
    BY <2>1 DEF Fork
  <2>2. CASE ParentOpens(i)
    BY <2>2 DEF ParentOpens
  <2>3. CASE SendPid(i)
    BY <2>3 DEF SendPid
  <2> QED BY <1>5, <2>1, <2>2, <2>3 DEF Parent
<1>6. ASSUME NEW i \in Launches, Child(i) PROVE TypeOK' /\ Busy' /\ FoundOne'
  <2>1. CASE ChildOpens(i)
    BY <2>1 DEF ChildOpens
  <2>2. CASE ChildWaits(i)
    BY <2>2 DEF ChildWaits
  <2>3. CASE Exec(i)
    BY <2>3 DEF Exec
  <2> QED BY <1>6, <2>1, <2>2, <2>3 DEF Child
<1>7. ASSUME NEW i \in Launches, TerminalExits(i) PROVE TypeOK' /\ Busy' /\ FoundOne'
  BY <1>7 DEF TerminalExits
<1>8. CASE UNCHANGED vars
  BY <1>8 DEF vars
<1> QED BY <1>1, <1>2, <1>3, <1>4, <1>5, <1>6, <1>7 DEF Next, Debugger

(* Where all keep up, they still do. *)
LEMMA StubKeepsUp ==
  ASSUME StubInv, Next, InTime
  PROVE  KeepUp'
<1>. USE Numbers DEF StubInv, TypeOK, Busy, FoundOne, debuggerVars, parentVars, childVars
<1>0. KeepUp /\ {"timeOut", "terminalExits", "slowChild"} \cap mishaps = {}
  BY DEF InTime
<1>1. CASE LaunchTerminal
  <2>1. launch' = launch + 1 /\ launch' \in Launches /\ phase' = "waiting" /\ phase = "idle"
    BY <1>1 DEF LaunchTerminal
  <2>2. ASSUME NEW i \in Launches PROVE Reports(i)' /\ Follows(i)'
    BY <1>0, <1>1, <2>1, <2>2 DEF LaunchTerminal, KeepUp, Reports, Follows
  <2> QED BY <1>1, <2>2 DEF LaunchTerminal, KeepUp
<1>2. CASE Wait
  <2>1. /\ phase = "waiting" /\ terminal[launch] = TRUE /\ server = launch /\ launch \in Launches
        /\ \/ phase' = "attaching" /\ found' = launch /\ pid[launch] # NoPid
           \/ phase' = phase /\ found' = found
    BY <1>0, <1>2 DEF Wait, KeepUp, Reports
  <2>2. ASSUME NEW i \in Launches PROVE Reports(i)' /\ Follows(i)'
    BY <1>0, <1>2, <2>1, <2>2 DEF Wait, KeepUp, Reports, Follows
  <2> QED BY <1>0, <1>2, <2>1, <2>2 DEF Wait, KeepUp
<1>3. CASE Attach
  <2>1. /\ found = launch /\ server = launch /\ launch \in Launches /\ phase' = "idle"
        /\ child[launch] \notin {"forked", "open"} /\ phase = "attaching"
    BY <1>0, <1>3 DEF Attach, KeepUp
  <2>2. \/ attached' = attached /\ child' = child
        \/ /\ attached' = attached \cup {launch}
           /\ \A i \in Launches :
                child'[i] = IF child[i] = "waiting" /\ childShm[i] = launch THEN "notified" ELSE child[i]
    BY <1>3, <2>1 DEF Attach, Woken
  <2>3. ASSUME NEW i \in Launches PROVE Reports(i)' /\ Follows(i)'
    BY <1>0, <1>3, <2>1, <2>2, <2>3 DEF Attach, KeepUp, Reports, Follows
  <2> QED BY <1>0, <1>3, <2>3 DEF Attach, KeepUp
<1>4. CASE CloseTarget
  BY <1>0, <1>4 DEF CloseTarget, KeepUp, Reports, Follows
<1>5. ASSUME NEW j \in Launches, Parent(j) PROVE KeepUp'
  <2>1. j = launch /\ phase = "waiting" /\ server = launch /\ UNCHANGED <<found, launch, phase>>
    BY <1>0, <1>5 DEF KeepUp, Reports, Parent, Fork, ParentOpens, SendPid
  <2>2. ASSUME NEW i \in Launches PROVE Reports(i)' /\ Follows(i)'
    BY <1>0, <1>5, <2>1, <2>2 DEF KeepUp, Reports, Follows, Parent, Fork, ParentOpens, SendPid
  <2> QED BY <1>0, <2>1, <2>2 DEF KeepUp
<1>6. ASSUME NEW j \in Launches, Child(j) PROVE KeepUp'
  <2>1. UNCHANGED <<found, launch, phase>>
    BY <1>6 DEF Child, ChildOpens, ChildWaits, Exec
  <2>2. ASSUME NEW i \in Launches PROVE Reports(i)' /\ Follows(i)'
    BY <1>0, <1>6, <2>1, <2>2 DEF KeepUp, Reports, Follows, Child, ChildOpens, ChildWaits, Exec
  <2> QED BY <1>0, <2>1, <2>2 DEF KeepUp
<1>7. ASSUME NEW i \in Launches, TerminalExits(i) PROVE FALSE
  BY <1>0, <1>7 DEF TerminalExits
<1> QED BY <1>1, <1>2, <1>3, <1>4, <1>5, <1>6, <1>7 DEF Next, Debugger

(* What may go wrong does not change. *)
LEMMA SameMishaps == Next => mishaps' = mishaps
BY DEF Next, Debugger, LaunchTerminal, Wait, Attach, CloseTarget, Parent, Fork, ParentOpens, SendPid,
       Child, ChildOpens, ChildWaits, Exec, TerminalExits

(* The stub's invariant is one of the composed specification. *)
LEMMA AlwaysStub == LaunchingSpec => []StubInv
<1>1. StubInv /\ [LaunchingNext]_launchingVars => StubInv'
  <2>1. StubInv /\ Next => StubInv'
    BY StubTypes, StubKeepsUp, SameMishaps DEF StubInv, InTime
  <2>2. StubInv /\ UNCHANGED vars => StubInv'
    BY DEF vars, debuggerVars, parentVars, childVars, StubInv, TypeOK, Busy, FoundOne, InTime,
           KeepUp, Reports, Follows
  <2> QED BY <2>1, <2>2 DEF LaunchingNext, StubPart, ProcessPart, launchingVars
<1>2. LaunchingInit => StubInv
  BY StubInit DEF LaunchingInit
<1> QED BY <1>1, <1>2, PTL DEF LaunchingSpec

(* Launches under one name keep to their own processes: the debugger takes  *)
(* its own child's PID for the one to attach to, and no program runs that it *)
(* has not attached to (target::launch_terminal, exec_stub_server, do_exec). *)
THEOREM LaunchesKeepApart == LaunchingSpec => []LaunchesApart
<1>1. StubInv => LaunchesApart
  BY DEF StubInv, LaunchesApart, OwnPid, NoUnattendedProgram, KeepUp, Follows
<1> QED BY <1>1, AlwaysStub, PTL

-----------------------------------------------------------------------------
(***************************************************************************)
(* The monitors. What a process has written is told, on its way or unread; *)
(* a stream that is not read any more has nothing unread and gets nothing, *)
(* unless its terminal was closed. The end is posted behind everything     *)
(* else, and nothing follows it but, if a buffer comes late, itself.       *)
(***************************************************************************)
Happenings == {"out", "err", "exited"}
Input == [buffers : Seq({P!Data, P!Close}), writing : BOOLEAN, open : BOOLEAN]

ChildTypes ==
  /\ kind \in P!Kinds /\ process \in {"none", "running", "dead", "reaped"}
  /\ heir \in BOOLEAN /\ late \in BOOLEAN /\ pool \in {"free", "joining"}
  /\ written \in [P!Streams -> Nat] /\ unread \in [P!Streams -> Nat]
  /\ told \in [Happenings -> Nat] /\ events \in Seq(Happenings)
  /\ reading \subseteq P!StreamsOf(kind)
  /\ input \in Input /\ tasks \in Seq({P!Data, P!Close})
  /\ monitor \in {"none", "alive", "destroyed"}

\* Nothing is to be written, and nothing is being written.
Idle == input.buffers = <<>> /\ input.writing = FALSE

\* Without redirection, and before the launch, the pool has nothing to do;
\* it waits for the process when it has nothing left to do.
PoolKnows ==
  /\ ~P!Redirected \/ process = "none" =>
       reading = {} /\ tasks = <<>> /\ Idle /\ pool = "free"
  /\ process = "none" => heir = FALSE /\ (P!Redirected => monitor = "none")
  /\ pool = "joining" => reading = {} /\ Idle
  /\ input.writing = TRUE => input.buffers # <<>>
  /\ kind # "other" => request.state = "none"

\* Nobody can write to the stream any more.
StreamEnded(s) == s \in shut \/ (process \in {"dead", "reaped"} /\ heir = FALSE)
Closed == kind = "pty" /\ input.open = FALSE

StreamKept(s) ==
  /\ written[s] = told[s] + Count(events, s) + unread[s]
  /\ s \notin P!StreamsOf(kind) \/ process = "none" => written[s] = 0
  /\ s \in P!StreamsOf(kind) \ reading /\ process # "none" =>
       Closed \/ (unread[s] = 0 /\ StreamEnded(s))
Streaming == \A s \in P!Streams : StreamKept(s)

\* What may follow the end.
Again == IF late THEN {"exited"} ELSE {}
Over == process = "reaped" /\ reading = {} /\ (late = FALSE => pool = "free" /\ Idle)
Announced ==
  \/ told["exited"] = 0 /\ All(events, P!Streams) /\ late = FALSE
  \/ told["exited"] = 0 /\ One(events, P!Streams, "exited", Again) /\ Over
  \/ told["exited"] > 0 /\ All(events, Again) /\ Over /\ (late = FALSE => told["exited"] = 1)

Forgotten == monitor = "destroyed" => told["exited"] > 0 \/ kind = "other"

MonitorInv == ChildTypes /\ PoolKnows /\ Streaming /\ Announced /\ Forgotten

-----------------------------------------------------------------------------
(* The kinds and the events. *)
LEMMA Names ==
  /\ P!Streams = {"out", "err"} /\ P!Data = "data" /\ P!Close = "close"
  /\ P!Kinds = {"pipes", "pty", "child", "other"}
  /\ P!Redirected <=> kind \in {"pipes", "pty"}
  /\ kind \in P!Kinds => P!StreamsOf(kind) \subseteq P!Streams
  /\ kind \in {"child", "other"} => P!StreamsOf(kind) = {}
BY DEF P!Streams, P!Data, P!Close, P!Kinds, P!Redirected, P!StreamsOf

(* Whether the end has been announced can be seen in the queue. *)
LEMMA Seen ==
  ASSUME MonitorInv
  PROVE  /\ P!Unannounced <=> told["exited"] = 0 /\ All(events, P!Streams) /\ late = FALSE
         /\ ~P!Unannounced <=>
              ("exited" \in {events[i] : i \in DOMAIN events} \/ told["exited"] > 0)
<1>1. DOMAIN events = 1 .. Len(events) /\ told["exited"] \in Nat
  BY DEF MonitorInv, ChildTypes, Happenings
<1>2. All(events, P!Streams) => "exited" \notin {events[i] : i \in DOMAIN events}
  BY <1>1, Names DEF All
<1>3. \A T : One(events, P!Streams, "exited", T) => "exited" \in {events[i] : i \in DOMAIN events}
  BY <1>1 DEF One
<1> QED BY <1>1, <1>2, <1>3 DEF MonitorInv, Announced, P!Unannounced

(* The monitors' invariant holds before the launch. *)
LEMMA MonitorInit == P!ChildInit => MonitorInv
<1> SUFFICES ASSUME P!ChildInit PROVE MonitorInv
  OBVIOUS
<1>. USE DEF P!ChildInit
<1>1. input \in Input /\ tasks \in Seq({P!Data, P!Close}) /\ events \in Seq(Happenings)
  BY DEF Input
<1>2. /\ written \in [P!Streams -> Nat] /\ unread \in [P!Streams -> Nat]
      /\ told \in [Happenings -> Nat]
  BY Names DEF Happenings
<1>3. ChildTypes
  BY <1>1, <1>2 DEF ChildTypes
<1>4. PoolKnows
  BY DEF PoolKnows, Idle
<1>5. All(events, P!Streams)
  BY EmptyQueue
<1>6. ASSUME NEW s \in P!Streams PROVE StreamKept(s)
  <2>1. All(events, {}) /\ told[s] = 0
    BY EmptyQueue, Names
  <2>2. Count(events, s) = 0
    BY <2>1, CountNone
  <2> QED BY <2>1, <2>2 DEF StreamKept
<1>7. told["exited"] = 0
  BY Names
<1> QED BY <1>3, <1>4, <1>5, <1>6, <1>7 DEF MonitorInv, Streaming, Announced, Forgotten

-----------------------------------------------------------------------------
(* A launch: what is redirected is read from the start (launch_io). *)
LEMMA LaunchStep == MonitorInv /\ P!Launch => MonitorInv'
<1> SUFFICES ASSUME MonitorInv, P!Launch PROVE MonitorInv'
  OBVIOUS
<1>. USE DEF MonitorInv, P!Launch, P!outputVars
<1>1. input' \in Input /\ input'.buffers = input.buffers /\ input'.writing = input.writing
  <2>1. P!Redirected \in BOOLEAN
    BY DEF P!Redirected
  <2>2. input' = [input EXCEPT !.open = P!Redirected]
    OBVIOUS
  <2>3. input \in Input
    BY DEF ChildTypes
  <2> QED BY <2>1, <2>2, <2>3 DEF Input
<1>2. ChildTypes'
  BY <1>1, Names DEF ChildTypes, P!Redirected, P!StreamsOf
<1>3. PoolKnows'
  <2>1. kind' = kind /\ (P!Redirected' <=> P!Redirected) /\ process' # "none"
    BY DEF P!Redirected
  <2>2. /\ reading = {} /\ tasks = <<>> /\ Idle /\ pool = "free" /\ heir = FALSE
        /\ tasks' = tasks /\ pool' = pool /\ Idle'
    BY <1>1 DEF PoolKnows, Idle
  <2>3. ~P!Redirected => reading' = {}
    BY Names DEF ChildTypes
  <2> QED BY <1>1, <2>1, <2>2, <2>3 DEF PoolKnows, Idle
<1>4. Streaming'
  BY DEF Streaming, StreamKept, P!StreamsOf
<1>5. Announced'
  BY DEF Announced, Over, Again
<1>6. Forgotten'
  BY DEF Forgotten
<1> QED BY <1>2, <1>3, <1>4, <1>5, <1>6

(* A launch in a terminal without debugging, up to its monitor. *)
LEMMA RequestStep ==
  MonitorInv /\ (P!LaunchAsync \/ P!Fork \/ P!SendPid \/ P!TerminalAnswers \/ P!WaitPid)
    => MonitorInv'
<1> SUFFICES ASSUME MonitorInv,
                    P!LaunchAsync \/ P!Fork \/ P!SendPid \/ P!TerminalAnswers \/ P!WaitPid
             PROVE  MonitorInv'
  OBVIOUS
<1>. USE DEF MonitorInv, P!outputVars, P!ownerVars,
            P!LaunchAsync, P!Fork, P!SendPid, P!TerminalAnswers, P!WaitPid
<1>1. /\ kind = "other" /\ kind' = kind
      /\ P!StreamsOf(kind) = {} /\ ~P!Redirected /\ ~P!Redirected'
  BY DEF PoolKnows, P!Redirected, P!StreamsOf
<1>2. ChildTypes'
  BY <1>1 DEF ChildTypes
<1>3. PoolKnows'
  BY <1>1 DEF PoolKnows, Idle
<1>4. Streaming'
  BY <1>1 DEF Streaming, StreamKept
<1>5. Announced'
  BY <1>1 DEF Announced, Over, Again, Idle
<1>6. Forgotten'
  BY <1>1 DEF Forgotten
<1> QED BY <1>2, <1>3, <1>4, <1>5, <1>6

(* The process ends, by itself or not, and is waited for. *)
LEMMA ProcessEnds ==
  MonitorInv /\ (P!Terminate \/ P!Exit \/ P!Fail \/ P!Reap \/ P!Reuse) => MonitorInv'
<1> SUFFICES ASSUME MonitorInv, P!Terminate \/ P!Exit \/ P!Fail \/ P!Reap \/ P!Reuse
             PROVE  MonitorInv'
  OBVIOUS
<1>. USE DEF MonitorInv, P!outputVars, P!ownerVars,
            P!Terminate, P!Exit, P!Fail, P!Reap, P!Reuse
<1>1. /\ kind' = kind /\ (P!Redirected' <=> P!Redirected)
      /\ process # "none" /\ process' # "none" /\ process' \in {"dead", "reaped"}
      /\ process = "reaped" => process' = "reaped"
      /\ process # "running" => heir' = heir
      /\ UNCHANGED <<written, unread, shut, input, reading, tasks, pool, events, told, monitor,
                     late, request>>
  BY DEF P!Redirected
<1>2. heir' \in BOOLEAN
  <2>1. P!Redirected \in BOOLEAN /\ heir \in BOOLEAN
    BY DEF ChildTypes, P!Redirected
  <2>2. heir' = heir \/ heir' \in {FALSE, P!Redirected}
    OBVIOUS
  <2> QED BY <2>1, <2>2
<1>3. ChildTypes'
  BY <1>1, <1>2 DEF ChildTypes
<1>4. PoolKnows'
  BY <1>1 DEF PoolKnows, Idle
<1>5. Streaming'
  BY <1>1 DEF Streaming, StreamKept, StreamEnded, Closed
<1>6. Announced'
  BY <1>1 DEF Announced, Over, Again, Idle
<1>7. Forgotten'
  BY <1>1 DEF Forgotten
<1> QED BY <1>3, <1>4, <1>5, <1>6, <1>7

(* The process writes, or closes what it writes to. *)
LEMMA OutputStep ==
  ASSUME MonitorInv, NEW s \in P!Streams, P!Write(s) \/ P!Shut(s)
  PROVE  MonitorInv'
<1>. USE DEF MonitorInv, P!ownerVars, P!Write, P!Shut
<1>1. /\ kind' = kind /\ (P!Redirected' <=> P!Redirected) /\ process' = process /\ heir' = heir
      /\ UNCHANGED <<input, reading, tasks, pool, events, told, monitor, late, request>>
      /\ shut \subseteq shut'
  BY DEF P!Redirected
<1>2. ChildTypes'
  <2>1. written \in [P!Streams -> Nat] /\ unread \in [P!Streams -> Nat]
    BY DEF ChildTypes
  <2>2. \/ written' = written /\ unread' = unread
        \/ /\ written' = [written EXCEPT ![s] = @ + 1]
           /\ unread' = [unread EXCEPT ![s] = @ + 1]
    OBVIOUS
  <2>3. written' \in [P!Streams -> Nat] /\ unread' \in [P!Streams -> Nat]
    BY <2>1, <2>2
  <2> QED BY <1>1, <2>3 DEF ChildTypes
<1>3. PoolKnows'
  BY <1>1 DEF PoolKnows, Idle
<1>4. ASSUME NEW t \in P!Streams PROVE StreamKept(t)'
  <2>1. /\ written[t] \in Nat /\ unread[t] \in Nat /\ StreamKept(t)
        /\ told[t] \in Nat /\ Count(events, t) \in Nat
    BY FinitePlaces, Names DEF ChildTypes, Streaming, Happenings
  <2>2. CASE written'[t] = written[t] /\ unread'[t] = unread[t]
    BY <1>1, <2>1, <2>2 DEF StreamKept, StreamEnded, Closed
  <2>3. CASE P!Write(s) /\ t = s
    <3>1. /\ written'[t] = written[t] + 1 /\ unread'[t] = unread[t] + 1
          /\ t \in P!StreamsOf(kind) /\ t \notin shut
      BY <2>3 DEF ChildTypes
    <3>2. process # "none" /\ ~StreamEnded(t)
      BY <2>3 DEF PoolKnows, StreamEnded
    <3>3. t \notin reading => Closed /\ Closed'
      BY <1>1, <2>1, <3>1, <3>2 DEF StreamKept, Closed
    <3> QED BY <1>1, <2>1, <3>1, <3>2, <3>3 DEF StreamKept
  <2>4. CASE t # s \/ P!Shut(s)
    BY <2>2, <2>4 DEF ChildTypes
  <2> QED BY <2>3, <2>4
<1>5. Announced'
  BY <1>1 DEF Announced, Over, Again, Idle
<1>6. Forgotten'
  BY <1>1 DEF Forgotten
<1> QED BY <1>2, <1>3, <1>4, <1>5, <1>6 DEF Streaming

-----------------------------------------------------------------------------
(* A write that starts (start_write_stdin), or a last one that has ended:   *)
(* the sink is not opened again, what is written is a buffer, and the pool  *)
(* joins when nothing is left to read or to write.                          *)
Advanced ==
  /\ input' \in Input /\ pool' \in {"free", "joining"}
  /\ input'.open = TRUE => input.open = TRUE
  /\ input'.writing = TRUE => input'.buffers # <<>>
  /\ pool' = "joining" => reading = {} /\ Idle'

(* Writing starts with a buffer, or closes the sink with an empty one. *)
LEMMA Starts ==
  ASSUME input \in Input, pool = "free", NEW buffers \in Seq({P!Data, P!Close}),
         buffers # <<>>, P!StartWrite(buffers)
  PROVE  Advanced
<1>1. /\ input.buffers \in Seq({P!Data, P!Close}) /\ input.open \in BOOLEAN
      /\ Tail(buffers) \in Seq({P!Data, P!Close})
  BY DEF Input
<1>2. CASE Head(buffers) = P!Data
  <2>1. input' = [input EXCEPT !.buffers = buffers, !.writing = TRUE] /\ pool' = pool
    BY <1>2 DEF P!StartWrite
  <2>2. input' \in Input /\ input'.open = input.open /\ input'.buffers = buffers
    BY <2>1 DEF Input
  <2> QED BY <2>1, <2>2 DEF Advanced
<1>3. CASE Head(buffers) # P!Data
  <2>1. /\ input' = [buffers |-> Tail(buffers), writing |-> FALSE, open |-> FALSE]
        /\ pool' = IF Tail(buffers) = <<>> /\ reading = {} THEN "joining" ELSE "free"
    BY <1>3 DEF P!StartWrite, P!PoolAfter, P!Cleared
  <2>2. input' \in Input
    BY <1>1, <2>1 DEF Input
  <2> QED BY <2>1, <2>2 DEF Advanced, Idle
<1> QED BY <1>2, <1>3

(* The pool takes a buffer to write (do_send_stdin). *)
LEMMA TakeStep == MonitorInv /\ P!TakeTask => MonitorInv'
<1> SUFFICES ASSUME MonitorInv, P!TakeTask PROVE MonitorInv'
  OBVIOUS
<1>1. /\ kind' = kind /\ (P!Redirected' <=> P!Redirected) /\ pool = "free"
      /\ UNCHANGED <<process, heir, written, unread, shut, reading, events, told, monitor,
                     request>>
      /\ tasks # <<>> /\ tasks' = Tail(tasks)
      /\ late' = (late \/ "exited" \in {events[i] : i \in DOMAIN events} \/ told["exited"] > 0)
  BY DEF P!TakeTask, P!outputVars, P!ownerVars, P!Redirected
<1>2. ChildTypes /\ PoolKnows /\ Streaming /\ Announced /\ Forgotten
  BY DEF MonitorInv
<1>3. P!Redirected /\ process # "none"
  BY <1>1, <1>2 DEF PoolKnows
<1>4. /\ input \in Input /\ input.buffers \in Seq({P!Data, P!Close})
      /\ Head(tasks) \in {P!Data, P!Close} /\ Tail(tasks) \in Seq({P!Data, P!Close})
  BY <1>1, <1>2 DEF ChildTypes, Input
<1>5. Advanced
  <2>1. CASE input.buffers = <<>> /\ P!StartWrite(<<Head(tasks)>>)
    <3>1. <<Head(tasks)>> \in Seq({P!Data, P!Close}) /\ <<Head(tasks)>> # <<>>
      BY <1>4
    <3> QED BY <1>1, <1>4, <2>1, <3>1, Starts DEF P!StartWrite
  <2>2. CASE input' = [input EXCEPT !.buffers = Append(@, Head(tasks))] /\ pool' = pool
    <3>1. /\ Append(input.buffers, Head(tasks)) \in Seq({P!Data, P!Close})
          /\ Append(input.buffers, Head(tasks)) # <<>>
      BY <1>4, Filled
    <3>2. input' \in Input /\ input'.open = input.open /\ input'.buffers # <<>>
      BY <1>4, <2>2, <3>1 DEF Input
    <3> QED BY <1>1, <2>2, <3>2 DEF Advanced
  <2> QED BY <2>1, <2>2 DEF P!TakeTask
<1>6. /\ late' \in BOOLEAN /\ (late = TRUE => late' = TRUE)
      /\ ~P!Unannounced => late' = TRUE
  <2>1. late \in BOOLEAN /\ told["exited"] \in Nat
    BY <1>2 DEF ChildTypes, Happenings
  <2>2. ~P!Unannounced =>
          "exited" \in {events[i] : i \in DOMAIN events} \/ told["exited"] > 0
    BY Seen
  <2> QED BY <1>1, <2>1, <2>2
<1>7. P!Unannounced => late' = FALSE
  <2>1. P!Unannounced => late = FALSE
    BY Seen
  <2>2. P!Unannounced => "exited" \notin {events[i] : i \in DOMAIN events} /\ ~(told["exited"] > 0)
    BY DEF P!Unannounced
  <2> QED BY <1>1, <2>1, <2>2
<1>8. ChildTypes'
  BY <1>1, <1>2, <1>4, <1>5, <1>6 DEF ChildTypes, Advanced
<1>9. PoolKnows'
  BY <1>1, <1>2, <1>3, <1>5 DEF PoolKnows, Advanced, Idle
<1>10. Streaming'
  <2>1. Closed => Closed'
    BY <1>1, <1>4, <1>5 DEF Closed, Advanced, Input
  <2> QED BY <1>1, <1>2, <2>1 DEF Streaming, StreamKept, StreamEnded
<1>11. Announced'
  <2>1. CASE P!Unannounced
    BY <1>1, <1>7, <2>1, Seen DEF Announced
  <2>2. CASE ~P!Unannounced
    <3>1. late' = TRUE /\ Again' = {"exited"} /\ Again \subseteq {"exited"} /\ (Over => Over')
      BY <1>1, <1>6, <2>2 DEF Again, Over
    <3>2. ~(told["exited"] = 0 /\ All(events, P!Streams) /\ late = FALSE)
      BY <2>2, Seen
    <3>3. CASE /\ told["exited"] = 0
               /\ One(events, P!Streams, "exited", Again) /\ Over
      <4>1. One(events, P!Streams, "exited", {"exited"})
        BY <3>1, <3>3, Wider
      <4> QED BY <1>1, <3>1, <3>3, <4>1 DEF Announced
    <3>4. CASE told["exited"] > 0 /\ All(events, Again) /\ Over
      <4>1. All(events, {"exited"})
        BY <3>1, <3>4, Wider
      <4> QED BY <1>1, <3>1, <3>4, <4>1 DEF Announced
    <3> QED BY <1>2, <3>2, <3>3, <3>4 DEF Announced
  <2> QED BY <2>1, <2>2
<1>12. Forgotten'
  BY <1>1, <1>2 DEF Forgotten
<1> QED BY <1>8, <1>9, <1>10, <1>11, <1>12 DEF MonitorInv

(* A write to the input ends (the handler of async_write). *)
LEMMA WriteStep == MonitorInv /\ P!WriteEnds => MonitorInv'
<1> SUFFICES ASSUME MonitorInv, P!WriteEnds PROVE MonitorInv'
  OBVIOUS
<1>1. /\ kind' = kind /\ (P!Redirected' <=> P!Redirected)
      /\ pool = "free" /\ input.writing = TRUE
      /\ UNCHANGED <<process, heir, written, unread, shut, reading, tasks, events, told,
                     monitor, late, request>>
  <2>1. /\ kind' = kind /\ pool = "free" /\ input.writing
        /\ UNCHANGED <<process, heir, written, unread, shut, reading, tasks, events, told,
                       monitor, late, request>>
    BY DEF P!WriteEnds, P!outputVars, P!ownerVars
  <2>2. input.writing \in BOOLEAN
    BY DEF MonitorInv, ChildTypes, Input
  <2> QED BY <2>1, <2>2 DEF P!Redirected
<1>2. ChildTypes /\ PoolKnows /\ Streaming /\ Announced /\ Forgotten
  BY DEF MonitorInv
<1>3. P!Redirected /\ process # "none"
  BY <1>1, <1>2 DEF PoolKnows, Idle
<1>4. input \in Input /\ input.buffers \in Seq({P!Data, P!Close})
  BY <1>2 DEF ChildTypes, Input
<1>5. Advanced
  <2>1. CASE Len(input.buffers) > 1 /\ P!StartWrite(Tail(input.buffers))
    <3>1. Tail(input.buffers) \in Seq({P!Data, P!Close}) /\ Tail(input.buffers) # <<>>
      BY <1>4, <2>1, Filled
    <3> QED BY <1>1, <1>4, <2>1, <3>1, Starts DEF P!StartWrite
  <2>2. CASE /\ input' = [input EXCEPT !.buffers = <<>>, !.writing = FALSE]
             /\ pool' = P!PoolAfter(<<>>, reading)
    <3>1. /\ input' \in Input /\ input'.open = input.open
          /\ input'.buffers = <<>> /\ input'.writing = FALSE
      <4>1. input' = [input EXCEPT !.buffers = <<>>, !.writing = FALSE]
        BY <2>2
      <4>2. <<>> \in Seq({P!Data, P!Close})
        OBVIOUS
      <4> QED BY <1>4, <4>1, <4>2 DEF Input
    <3>2. pool' = IF reading = {} THEN "joining" ELSE "free"
      BY <2>2 DEF P!PoolAfter, P!Cleared
    <3> QED BY <3>1, <3>2 DEF Advanced, Idle
  <2> QED BY <2>1, <2>2 DEF P!WriteEnds
<1>6. ChildTypes'
  BY <1>1, <1>2, <1>5 DEF ChildTypes, Advanced
<1>7. PoolKnows'
  BY <1>1, <1>2, <1>3, <1>5 DEF PoolKnows, Advanced, Idle
<1>8. Streaming'
  <2>1. Closed => Closed'
    BY <1>1, <1>4, <1>5 DEF Closed, Advanced, Input
  <2> QED BY <1>1, <1>2, <2>1 DEF Streaming, StreamKept, StreamEnded
<1>9. Announced'
  <2>1. Over => Over' /\ late = TRUE
    BY <1>1, <1>2 DEF Over, Idle, ChildTypes
  <2>2. Again' = Again
    BY <1>1 DEF Again
  <2> QED BY <1>1, <1>2, <2>1, <2>2 DEF Announced
<1>10. Forgotten'
  BY <1>1, <1>2 DEF Forgotten
<1> QED BY <1>6, <1>7, <1>8, <1>9, <1>10 DEF MonitorInv

(* A read ends (the handlers of async_read_some). *)
LEMMA ReadStep ==
  ASSUME MonitorInv, NEW s \in P!Streams, P!ReadEnds(s)
  PROVE  MonitorInv'
<1>1. /\ kind' = kind /\ (P!Redirected' <=> P!Redirected) /\ pool = "free" /\ s \in reading
      /\ UNCHANGED <<process, heir, written, shut, input, tasks, told, monitor, late, request>>
  BY DEF P!ReadEnds, P!ownerVars, P!Redirected
<1>2. ChildTypes /\ PoolKnows /\ Streaming /\ Announced /\ Forgotten
  BY DEF MonitorInv
<1>3. /\ P!Redirected /\ process # "none" /\ ~Over
      /\ told["exited"] = 0 /\ All(events, P!Streams) /\ late = FALSE
  BY <1>1, <1>2 DEF PoolKnows, Over, Announced
<1>4. /\ events \in Seq(Happenings) /\ unread \in [P!Streams -> Nat]
      /\ s \in Happenings /\ input.writing \in BOOLEAN
      /\ \A t \in P!Streams : /\ written[t] \in Nat /\ unread[t] \in Nat
                              /\ told[t] \in Nat /\ Count(events, t) \in Nat
  BY <1>2, Names, FinitePlaces DEF ChildTypes, Happenings, Input
<1>5. CASE /\ unread[s] > 0
           /\ unread' = [unread EXCEPT ![s] = @ - 1] /\ events' = Append(events, s)
           /\ UNCHANGED <<reading, pool>>
  <2>1. events' \in Seq(Happenings) /\ unread' \in [P!Streams -> Nat]
    BY <1>4, <1>5
  <2>2. ChildTypes' /\ PoolKnows' /\ Forgotten'
    BY <1>1, <1>2, <1>5, <2>1 DEF ChildTypes, PoolKnows, Idle, Forgotten
  <2>3. ASSUME NEW t \in P!Streams PROVE StreamKept(t)'
    <3>1. StreamKept(t) /\ (StreamEnded(t)' <=> StreamEnded(t)) /\ (Closed' <=> Closed)
      BY <1>1, <1>2 DEF Streaming, StreamEnded, Closed
    <3>2. Count(events', t) = IF s = t THEN Count(events, t) + 1 ELSE Count(events, t)
      BY <1>4, <1>5, CountAdded
    <3>3. unread'[t] = IF s = t THEN unread[t] - 1 ELSE unread[t]
      BY <1>4, <1>5
    <3>4. written'[t] = told'[t] + Count(events', t) + unread'[t]
      <4>1. /\ written'[t] = written[t] /\ told'[t] = told[t]
            /\ written[t] = told[t] + Count(events, t) + unread[t]
        BY <1>1, <3>1 DEF StreamKept
      <4>2. CASE s = t
        <5>1. Count(events', t) = Count(events, t) + 1 /\ unread'[t] = unread[t] - 1
          BY <3>2, <3>3, <4>2
        <5>2. /\ told[t] \in Nat /\ Count(events, t) \in Nat /\ unread[t] \in Nat
          BY <1>4
        <5> QED BY <4>1, <5>1, <5>2
      <4>3. CASE s # t
        BY <1>4, <3>2, <3>3, <4>1, <4>3
      <4> QED BY <4>2, <4>3
    <3> QED BY <1>1, <1>3, <1>5, <3>1, <3>3, <3>4 DEF StreamKept
  <2>4. Announced'
    <3>1. All(events', P!Streams)
      BY <1>3, <1>4, <1>5, Added
    <3> QED BY <1>1, <1>3, <3>1 DEF Announced
  <2> QED BY <2>2, <2>3, <2>4 DEF MonitorInv, Streaming
<1>6. CASE /\ \/ unread[s] = 0 /\ (s \in shut \/ (process # "running" /\ ~heir))
              \/ kind = "pty" /\ ~input.open
           /\ reading' = reading \ {s} /\ pool' = P!PoolAfter(input.buffers, reading \ {s})
           /\ UNCHANGED <<unread, events>>
  <2>1. pool' = IF input.buffers = <<>> /\ reading' = {} THEN "joining" ELSE "free"
    BY <1>6 DEF P!PoolAfter, P!Cleared
  <2>2. ChildTypes' /\ Forgotten'
    BY <1>1, <1>2, <1>6, <2>1 DEF ChildTypes, Forgotten
  <2>3. PoolKnows'
    <3>1. input.buffers = <<>> => Idle
      BY <1>2, <1>4 DEF PoolKnows, Idle
    <3> QED BY <1>1, <1>2, <1>3, <1>6, <2>1, <3>1 DEF PoolKnows, Idle
  <2>4. ASSUME NEW t \in P!Streams PROVE StreamKept(t)'
    <3>1. StreamKept(t) /\ (StreamEnded(t)' <=> StreamEnded(t)) /\ (Closed' <=> Closed)
      BY <1>1, <1>2 DEF Streaming, StreamEnded, Closed
    <3>2. Closed \/ (unread[s] = 0 /\ StreamEnded(s))
      <4>1. heir \in BOOLEAN /\ input.open \in BOOLEAN /\ process \in {"none", "running", "dead", "reaped"}
        BY <1>2 DEF ChildTypes, Input
      <4> QED BY <1>3, <1>6, <4>1 DEF Closed, StreamEnded
    <3> QED BY <1>1, <1>6, <3>1, <3>2 DEF StreamKept
  <2>5. Announced'
    BY <1>1, <1>3, <1>6 DEF Announced
  <2> QED BY <2>2, <2>3, <2>4, <2>5 DEF MonitorInv, Streaming
<1> QED BY <1>5, <1>6 DEF P!ReadEnds

(* The end of the process is announced: when the pool has joined, and by    *)
(* the threads of the monitors without streams, once.                       *)
LEMMA AnnounceStep == MonitorInv /\ (P!Joined \/ P!Watch) => MonitorInv'
<1> SUFFICES ASSUME MonitorInv, P!Joined \/ P!Watch PROVE MonitorInv'
  OBVIOUS
<1>1. /\ kind' = kind /\ (P!Redirected' <=> P!Redirected)
      /\ process \in {"dead", "reaped"} /\ process' = "reaped"
      /\ events' = Append(events, "exited") /\ pool' \in {"free", pool}
      /\ UNCHANGED <<heir, written, unread, shut, input, reading, tasks, told, monitor, late,
                     request>>
  BY DEF P!Joined, P!Watch, P!outputVars, P!ownerVars, P!Redirected
<1>2. ChildTypes /\ PoolKnows /\ Streaming /\ Announced /\ Forgotten
  BY DEF MonitorInv
<1>3. "exited" \in Happenings /\ events \in Seq(Happenings)
  BY <1>2 DEF ChildTypes, Happenings
<1>4. reading = {} /\ Idle /\ pool' = "free"
  <2>1. CASE P!Joined
    BY <1>2, <2>1 DEF PoolKnows, P!Joined
  <2>2. CASE P!Watch
    BY <1>2, <2>2 DEF PoolKnows, P!Watch, P!Redirected
  <2> QED BY <2>1, <2>2
<1>5. ChildTypes'
  <2>1. events' \in Seq(Happenings)
    BY <1>1, <1>3
  <2> QED BY <1>1, <1>2, <1>4, <2>1 DEF ChildTypes
<1>6. PoolKnows'
  BY <1>1, <1>2, <1>4 DEF PoolKnows, Idle
<1>7. ASSUME NEW t \in P!Streams PROVE StreamKept(t)'
  <2>1. Count(events', t) = Count(events, t)
    BY <1>1, <1>3, CountAdded, Names
  <2>2. StreamKept(t)
    BY <1>2 DEF Streaming
  <2> QED BY <1>1, <2>1, <2>2 DEF StreamKept, StreamEnded, Closed
<1>8. Announced'
  <2>1. Over' /\ Again' = Again
    BY <1>1, <1>4 DEF Over, Again, Idle
  <2>2. CASE told["exited"] = 0 /\ All(events, P!Streams) /\ late = FALSE
    <3>1. One(events', P!Streams, "exited", Again)
      BY <1>1, <1>3, <2>2, Added
    <3> QED BY <1>1, <2>1, <2>2, <3>1 DEF Announced
  <2>3. CASE P!Unannounced
    BY <2>2, <2>3, Seen
  <2>4. CASE ~P!Unannounced /\ P!Joined /\ Over
    <3>1. late = TRUE /\ Again = {"exited"}
      BY <1>2, <2>4 DEF Over, Again, ChildTypes, P!Joined
    <3>2. /\ One(events, P!Streams, "exited", Again) => One(events', P!Streams, "exited", Again)
          /\ All(events, Again) => All(events', Again)
      BY <1>1, <1>3, <3>1, Added
    <3>3. ~(told["exited"] = 0 /\ All(events, P!Streams) /\ late = FALSE)
      BY <2>4, Seen
    <3> QED BY <1>1, <1>2, <2>1, <3>1, <3>2, <3>3 DEF Announced
  <2>5. P!Unannounced \/ (P!Joined /\ Over)
    BY <1>2, <2>2, Seen DEF P!Watch, Announced
  <2> QED BY <2>3, <2>4, <2>5
<1>9. Forgotten'
  BY <1>1, <1>2 DEF Forgotten
<1> QED BY <1>5, <1>6, <1>7, <1>8, <1>9 DEF MonitorInv, Streaming

(* The owner sends input, and destroys the monitor it needs no more. *)
LEMMA OwnerStep ==
  MonitorInv /\ (P!Destroy \/ \E b \in {P!Data, P!Close} : P!SendStdin(b)) => MonitorInv'
<1> SUFFICES ASSUME MonitorInv,
                    P!Destroy \/ \E b \in {P!Data, P!Close} : P!SendStdin(b)
             PROVE  MonitorInv'
  OBVIOUS
<1>1. /\ kind' = kind /\ (P!Redirected' <=> P!Redirected)
      /\ UNCHANGED <<process, heir, written, unread, shut, input, reading, pool, events, told,
                     late, request>>
      /\ \/ /\ tasks' = tasks /\ monitor' = "destroyed" /\ told["exited"] > 0
            /\ monitor = "alive"
         \/ /\ P!Redirected /\ monitor = "alive" /\ monitor' = monitor
            /\ \E b \in {P!Data, P!Close} : tasks' = Append(tasks, b)
  BY DEF P!Destroy, P!SendStdin, P!outputVars, P!Redirected
<1>2. ChildTypes /\ PoolKnows /\ Streaming /\ Announced /\ Forgotten
  BY DEF MonitorInv
<1>3. tasks' \in Seq({P!Data, P!Close})
  <2>1. tasks \in Seq({P!Data, P!Close})
    BY <1>2 DEF ChildTypes
  <2>2. CASE \E b \in {P!Data, P!Close} : tasks' = Append(tasks, b)
    <3>1. PICK b \in {P!Data, P!Close} : tasks' = Append(tasks, b)
      BY <2>2
    <3> QED BY <2>1, <3>1, Filled
  <2> QED BY <1>1, <2>1, <2>2
<1>4. ChildTypes'
  BY <1>1, <1>2, <1>3 DEF ChildTypes
<1>5. PoolKnows'
  BY <1>1, <1>2 DEF PoolKnows, Idle
<1>6. Streaming'
  BY <1>1, <1>2 DEF Streaming, StreamKept, StreamEnded, Closed
<1>7. Announced' /\ Forgotten'
  BY <1>1, <1>2 DEF Announced, Over, Again, Idle, Forgotten
<1> QED BY <1>4, <1>5, <1>6, <1>7 DEF MonitorInv

(* The owner is told of the first event that was posted. *)
LEMMA HandleStep == MonitorInv /\ P!HandleEvent => MonitorInv'
<1> SUFFICES ASSUME MonitorInv, P!HandleEvent PROVE MonitorInv'
  OBVIOUS
<1>1. /\ kind' = kind /\ (P!Redirected' <=> P!Redirected)
      /\ UNCHANGED <<process, heir, written, unread, shut, input, reading, tasks, pool,
                     late, request>>
      /\ events # <<>> /\ events' = Tail(events)
      /\ told' = [told EXCEPT ![Head(events)] = @ + 1]
      /\ monitor' = IF kind = "other" THEN "destroyed" ELSE monitor
  BY DEF P!HandleEvent, P!outputVars, P!Redirected
<1>2. ChildTypes /\ PoolKnows /\ Streaming /\ Announced /\ Forgotten
  BY DEF MonitorInv
<1>3. /\ events \in Seq(Happenings) /\ Head(events) \in Happenings
      /\ Tail(events) \in Seq(Happenings) /\ told \in [Happenings -> Nat]
  BY <1>1, <1>2 DEF ChildTypes
<1>4. /\ told' \in [Happenings -> Nat]
      /\ \A e \in Happenings : told'[e] = IF Head(events) = e THEN told[e] + 1 ELSE told[e]
  BY <1>1, <1>3
<1>5. ChildTypes'
  BY <1>1, <1>2, <1>3, <1>4 DEF ChildTypes
<1>6. PoolKnows'
  BY <1>1, <1>2, Names DEF PoolKnows, Idle, ChildTypes
<1>7. ASSUME NEW t \in P!Streams PROVE StreamKept(t)'
  <2>1. t \in Happenings /\ StreamKept(t) /\ told[t] \in Nat /\ unread[t] \in Nat
    BY <1>2, Names DEF Streaming, Happenings, ChildTypes
  <2>2. Count(events', t) \in Nat
    BY <1>1, <1>3, FinitePlaces
  <2>3. Count(events, t) = IF Head(events) = t THEN Count(events', t) + 1 ELSE Count(events', t)
    BY <1>1, <1>3, CountTaken
  <2>4. told'[t] = IF Head(events) = t THEN told[t] + 1 ELSE told[t]
    BY <1>4, <2>1
  <2>5. written[t] = told'[t] + Count(events', t) + unread[t]
    <3>1. written[t] = told[t] + Count(events, t) + unread[t]
      BY <2>1 DEF StreamKept
    <3>2. CASE Head(events) = t
      BY <2>1, <2>2, <2>3, <2>4, <3>1, <3>2
    <3>3. CASE Head(events) # t
      BY <2>3, <2>4, <3>1, <3>3
    <3> QED BY <3>2, <3>3
  <2> QED BY <1>1, <2>1, <2>5 DEF StreamKept, StreamEnded, Closed
<1>8. Announced'
  <2>1. (Over' <=> Over) /\ Again' = Again /\ late' = late /\ told["exited"] \in Nat
    BY <1>1, <1>2 DEF Over, Again, Idle, ChildTypes, Happenings
  <2>2. told'["exited"] = IF Head(events) = "exited" THEN told["exited"] + 1 ELSE told["exited"]
    BY <1>4 DEF Happenings
  <2>3. CASE told["exited"] = 0 /\ All(events, P!Streams) /\ late = FALSE
    <3>1. Head(events) \in P!Streams /\ All(events', P!Streams)
      BY <1>1, <1>3, <2>3, Taken
    <3>2. told'["exited"] = 0
      BY <2>2, <2>3, <3>1, Names
    <3> QED BY <2>1, <2>3, <3>1, <3>2 DEF Announced
  <2>4. CASE told["exited"] = 0 /\ One(events, P!Streams, "exited", Again) /\ Over
    <3>1. \/ Head(events) = "exited" /\ All(events', Again)
          \/ Head(events) \in P!Streams /\ One(events', P!Streams, "exited", Again)
      BY <1>1, <1>3, <2>4, Taken
    <3>2. CASE Head(events) = "exited" /\ All(events', Again)
      BY <2>1, <2>2, <2>4, <3>2 DEF Announced
    <3>3. CASE Head(events) \in P!Streams /\ One(events', P!Streams, "exited", Again)
      <4>1. told'["exited"] = 0
        BY <2>2, <2>4, <3>3, Names
      <4> QED BY <2>1, <2>4, <3>3, <4>1 DEF Announced
    <3> QED BY <3>1, <3>2, <3>3
  <2>5. CASE told["exited"] > 0 /\ All(events, Again) /\ Over
    <3>1. Head(events) \in Again /\ All(events', Again)
      BY <1>1, <1>3, <2>5, Taken
    <3>2. late = TRUE
      BY <1>2, <3>1 DEF Again, ChildTypes
    <3>3. told'["exited"] > 0
      BY <2>1, <2>2, <2>5
    <3> QED BY <2>1, <2>5, <3>1, <3>2, <3>3 DEF Announced
  <2> QED BY <1>2, <2>3, <2>4, <2>5 DEF Announced
<1>9. Forgotten'
  <2>1. told'["exited"] > 0 \/ told["exited"] = 0
    BY <1>2, <1>4 DEF ChildTypes, Happenings
  <2> QED BY <1>1, <1>2, <2>1 DEF Forgotten
<1> QED BY <1>5, <1>6, <1>7, <1>8, <1>9 DEF MonitorInv, Streaming

-----------------------------------------------------------------------------
(* Every step of a process and its monitor keeps the monitors' invariant. *)
LEMMA ChildStep == MonitorInv /\ P!ChildNext => MonitorInv'
<1> SUFFICES ASSUME MonitorInv, P!ChildNext PROVE MonitorInv'
  OBVIOUS
<1>1. CASE P!Launch
  BY <1>1, LaunchStep
<1>2. CASE P!LaunchAsync \/ P!Fork \/ P!SendPid \/ P!TerminalAnswers \/ P!WaitPid
  BY <1>2, RequestStep
<1>3. CASE P!Terminate \/ P!Exit \/ P!Fail \/ P!Reap \/ P!Reuse
  BY <1>3, ProcessEnds
<1>4. ASSUME NEW s \in P!Streams, P!Write(s) \/ P!Shut(s) PROVE MonitorInv'
  BY <1>4, OutputStep
<1>5. CASE P!TakeTask
  BY <1>5, TakeStep
<1>6. CASE P!WriteEnds
  BY <1>6, WriteStep
<1>7. ASSUME NEW s \in P!Streams, P!ReadEnds(s) PROVE MonitorInv'
  BY <1>7, ReadStep
<1>8. CASE P!Joined \/ P!Watch
  BY <1>8, AnnounceStep
<1>9. CASE P!Destroy \/ \E b \in {P!Data, P!Close} : P!SendStdin(b)
  BY <1>9, OwnerStep
<1>10. CASE P!HandleEvent
  BY <1>10, HandleStep
<1> QED
  BY <1>1, <1>2, <1>3, <1>4, <1>5, <1>6, <1>7, <1>8, <1>9, <1>10
  DEF P!ChildNext, P!Owner, P!Pool, P!System

(* The other part's steps leave the process alone. *)
LEMMA AlwaysMonitor == LaunchingSpec => []MonitorInv
<1>1. MonitorInv /\ [LaunchingNext]_launchingVars => MonitorInv'
  <2> SUFFICES ASSUME MonitorInv, [LaunchingNext]_launchingVars PROVE MonitorInv'
    OBVIOUS
  <2>1. CASE ProcessPart(P!ChildNext)
    BY <2>1, ChildStep DEF ProcessPart
  <2>2. CASE UNCHANGED processVars
    <3>1. UNCHANGED <<kind, process, heir, written, unread, shut, input, reading, tasks, pool,
                      events, told, monitor, late, request>>
      BY <2>2 DEF processVars
    <3>2. P!Redirected' <=> P!Redirected
      BY <3>1 DEF P!Redirected
    <3>3. ChildTypes' /\ PoolKnows' /\ Forgotten'
      BY <3>1, <3>2 DEF MonitorInv, ChildTypes, PoolKnows, Idle, Forgotten
    <3>4. Streaming' /\ Announced'
      BY <3>1 DEF MonitorInv, Streaming, StreamKept, StreamEnded, Closed, Announced, Over, Again,
                  Idle
    <3> QED BY <3>3, <3>4 DEF MonitorInv
  <2> QED BY <2>1, <2>2 DEF LaunchingNext, StubPart, launchingVars
<1>2. LaunchingInit => MonitorInv
  BY MonitorInit DEF LaunchingInit
<1> QED BY <1>1, <1>2, PTL DEF LaunchingSpec

(* An owner is told of the end of its process only when the process has     *)
(* been waited for, and after all its output, but for output of a terminal  *)
(* closed under it. It is told once, no read is handled after, and a        *)
(* monitor destroyed then is not used any more, unless a buffer of input    *)
(* was handled late, after the end: that announces the end again (bp_io_    *)
(* child_monitor, bp_child_monitor, posix_monitor).                         *)
THEOREM TellsInTime == LaunchingSpec => []MonitorsSound
<1>1. MonitorInv => MonitorsSound
  <2> SUFFICES ASSUME MonitorInv PROVE P!ToldSound
    BY DEF MonitorsSound
  <2>1. /\ ChildTypes /\ Streaming /\ Announced /\ Forgotten
        /\ told["exited"] \in Nat /\ events \in Seq(Happenings)
        /\ late \in BOOLEAN /\ input.open \in BOOLEAN
    BY DEF MonitorInv, ChildTypes, Happenings, Input
  <2>2. ASSUME told["exited"] > 0
        PROVE  /\ process = "reaped" /\ Over /\ (late \/ told["exited"] = 1)
               /\ All(events, Again)
    BY <2>1, <2>2 DEF Announced, Over
  <2>3. ASSUME told["exited"] > 0, late = FALSE PROVE events = <<>>
    <3>1. All(events, {})
      BY <2>2, <2>3 DEF Again
    <3>2. events # <<>> => Head(events) \in {}
      BY <2>1, <3>1, Taken
    <3> QED BY <3>2
  <2>4. ASSUME told["exited"] > 0, NEW s \in P!Streams
        PROVE  told[s] = written[s] \/ (kind = "pty" /\ ~input.open)
    <3>1. StreamKept(s) /\ told[s] \in Nat /\ unread[s] \in Nat
      BY <2>1, Names DEF Streaming, ChildTypes, Happenings
    <3>2. Count(events, s) = 0
      <4>1. s \notin Again
        BY Names DEF Again
      <4> QED BY <2>2, <2>4, <4>1, CountNone
    <3>3. reading = {} /\ process # "none"
      BY <2>2, <2>4 DEF Over
    <3>4. CASE s \in P!StreamsOf(kind)
      BY <3>1, <3>2, <3>3, <3>4 DEF StreamKept, Closed
    <3>5. CASE s \notin P!StreamsOf(kind)
      BY <3>1, <3>2, <3>5 DEF StreamKept
    <3> QED BY <3>4, <3>5
  <2>5. ASSUME monitor = "destroyed" PROVE late \/ (pool = "free" /\ input.buffers = <<>>)
    <3>1. CASE told["exited"] > 0
      BY <2>1, <2>2, <3>1 DEF Over, Idle
    <3>2. CASE kind = "other"
      BY <3>2, Names DEF MonitorInv, PoolKnows, Idle
    <3> QED BY <2>1, <2>5, <3>1, <3>2 DEF Forgotten
  <2> QED BY <2>1, <2>2, <2>3, <2>4, <2>5 DEF P!ToldSound
<1> QED BY <1>1, AlwaysMonitor, PTL
=============================================================================
