---------------------------- MODULE TargetProofs ----------------------------
(***************************************************************************)
(* Proofs about Target.tla, for every value of its constants: the types,   *)
(* the assertions of its threads, the states and lists it shows, and that  *)
(* it implements TargetContract.                                           *)
(***************************************************************************)
EXTENDS Target, TLAPS

-----------------------------------------------------------------------------
(* What the queues of the two threads may hold, and the facts about taking *)
(* the first closure and adding a last one.                                *)

(* Every closure in q is of S; or every one but one, which is m: those     *)
(* before it are of S, those behind it of T.                               *)
All(q, S) == \A i \in 1 .. Len(q) : q[i] \in S
One(q, S, m, T) == \E k \in 1 .. Len(q) :
  /\ q[k] = m
  /\ \A i \in 1 .. k - 1 : q[i] \in S
  /\ \A i \in k + 1 .. Len(q) : q[i] \in T

\* What is before and behind the closure at place k.
Upto(q, k) == SubSeq(q, 1, k - 1)
Beyond(q, k) == SubSeq(q, k + 1, Len(q))

(* An empty queue holds nothing. *)
LEMMA EmptyQueue ==
  /\ \A S : All(<<>>, S)
  /\ \A S, m, T : ~One(<<>>, S, m, T)
BY DEF All, One

(* The first closure, and what is left when it is taken. *)
LEMMA Taken ==
  ASSUME NEW U, NEW q \in Seq(U), q # <<>>
  PROVE  /\ \A S : All(q, S) => Head(q) \in S /\ All(Tail(q), S)
         /\ \A S, m, T : One(q, S, m, T) =>
              \/ Head(q) = m /\ All(Tail(q), T)
              \/ Head(q) \in S /\ One(Tail(q), S, m, T)
<1>1. /\ Tail(q) \in Seq(U) /\ Len(q) \in Nat /\ Len(q) > 0
      /\ Len(Tail(q)) = Len(q) - 1 /\ Head(q) = q[1]
      /\ \A i \in 1 .. Len(q) - 1 : Tail(q)[i] = q[i + 1]
  OBVIOUS
<1>2. ASSUME NEW S, All(q, S) PROVE Head(q) \in S /\ All(Tail(q), S)
  BY <1>1, <1>2 DEF All
<1>3. ASSUME NEW S, NEW m, NEW T, One(q, S, m, T)
      PROVE  \/ Head(q) = m /\ All(Tail(q), T)
             \/ Head(q) \in S /\ One(Tail(q), S, m, T)
  <2>1. PICK k \in 1 .. Len(q) :
           /\ q[k] = m
           /\ \A i \in 1 .. k - 1 : q[i] \in S
           /\ \A i \in k + 1 .. Len(q) : q[i] \in T
    BY <1>3 DEF One
  <2>2. CASE k = 1
    BY <1>1, <2>1, <2>2 DEF All
  <2>3. CASE k # 1
    <3>1. k - 1 \in 1 .. Len(Tail(q)) /\ Tail(q)[k - 1] = m /\ Head(q) \in S
      BY <1>1, <2>1, <2>3
    <3>2. \A i \in 1 .. (k - 1) - 1 : Tail(q)[i] \in S
      BY <1>1, <2>1, <2>3
    <3>3. \A i \in (k - 1) + 1 .. Len(Tail(q)) : Tail(q)[i] \in T
      BY <1>1, <2>1, <2>3
    <3> QED BY <3>1, <3>2, <3>3 DEF One
  <2> QED BY <2>2, <2>3
<1> QED BY <1>2, <1>3

(* Two queues read as one. *)
LEMMA Joined ==
  ASSUME NEW U, NEW q \in Seq(U), NEW r \in Seq(U)
  PROVE  /\ \A S : All(q \o r, S) <=> All(q, S) /\ All(r, S)
         /\ \A S, m, T : One(q \o r, S, m, T) <=>
              \/ One(q, S, m, T) /\ All(r, T)
              \/ All(q, S) /\ One(r, S, m, T)
<1>1. /\ Len(q) \in Nat /\ Len(r) \in Nat /\ Len(q \o r) = Len(q) + Len(r)
      /\ \A i \in 1 .. Len(q) : (q \o r)[i] = q[i]
      /\ \A i \in 1 .. Len(r) : (q \o r)[Len(q) + i] = r[i]
  OBVIOUS
<1>2. ASSUME NEW S PROVE All(q \o r, S) <=> All(q, S) /\ All(r, S)
  <2>1. All(q, S) /\ All(r, S) => All(q \o r, S)
    <3>1. \A i \in 1 .. Len(q) + Len(r) : i \notin 1 .. Len(q) => i - Len(q) \in 1 .. Len(r)
      BY <1>1
    <3> QED BY <1>1, <3>1 DEF All
  <2>2. All(q \o r, S) => All(q, S)
    BY <1>1 DEF All
  <2>3. ASSUME All(q \o r, S), NEW i \in 1 .. Len(r) PROVE r[i] \in S
    <3>1. Len(q) + i \in 1 .. Len(q \o r) /\ (q \o r)[Len(q) + i] = r[i]
      BY <1>1
    <3> QED BY <2>3, <3>1 DEF All
  <2> QED BY <2>1, <2>2, <2>3 DEF All
<1>3. ASSUME NEW S, NEW m, NEW T, One(q \o r, S, m, T)
      PROVE  \/ One(q, S, m, T) /\ All(r, T)
             \/ All(q, S) /\ One(r, S, m, T)
  <2>1. PICK k \in 1 .. Len(q \o r) :
           /\ (q \o r)[k] = m
           /\ \A i \in 1 .. k - 1 : (q \o r)[i] \in S
           /\ \A i \in k + 1 .. Len(q \o r) : (q \o r)[i] \in T
    BY <1>3 DEF One
  <2>2. CASE k <= Len(q)
    <3>1. One(q, S, m, T)
      BY <1>1, <2>1, <2>2 DEF One
    <3>2. All(r, T)
      BY <1>1, <2>1, <2>2 DEF All
    <3> QED BY <3>1, <3>2
  <2>3. CASE k > Len(q)
    <3>1. All(q, S)
      BY <1>1, <2>1, <2>3 DEF All
    <3>2. k - Len(q) \in 1 .. Len(r) /\ r[k - Len(q)] = m
      BY <1>1, <2>1, <2>3
    <3>3. ASSUME NEW i \in 1 .. (k - Len(q)) - 1 PROVE r[i] \in S
      <4>1. Len(q) + i \in 1 .. k - 1 /\ (q \o r)[Len(q) + i] = r[i]
        BY <1>1, <2>1, <2>3
      <4> QED BY <2>1, <4>1
    <3>4. ASSUME NEW i \in (k - Len(q)) + 1 .. Len(r) PROVE r[i] \in T
      <4>1. Len(q) + i \in k + 1 .. Len(q \o r) /\ (q \o r)[Len(q) + i] = r[i]
        BY <1>1, <2>1, <2>3
      <4> QED BY <2>1, <4>1
    <3> QED BY <3>1, <3>2, <3>3, <3>4 DEF One
  <2> QED BY <1>1, <2>2, <2>3
<1>4. ASSUME NEW S, NEW m, NEW T, One(q, S, m, T), All(r, T)
      PROVE  One(q \o r, S, m, T)
  <2>1. PICK k \in 1 .. Len(q) :
           /\ q[k] = m
           /\ \A i \in 1 .. k - 1 : q[i] \in S
           /\ \A i \in k + 1 .. Len(q) : q[i] \in T
    BY <1>4 DEF One
  <2>2. /\ k \in 1 .. Len(q \o r) /\ (q \o r)[k] = m
        /\ \A i \in 1 .. k - 1 : (q \o r)[i] \in S
    BY <1>1, <2>1
  <2>3. ASSUME NEW i \in k + 1 .. Len(q \o r) PROVE (q \o r)[i] \in T
    <3>1. CASE i <= Len(q)
      BY <1>1, <2>1, <3>1
    <3>2. CASE i > Len(q)
      <4>1. i - Len(q) \in 1 .. Len(r) /\ Len(q) + (i - Len(q)) = i
        BY <1>1, <2>1, <3>2
      <4> QED BY <1>1, <1>4, <4>1 DEF All
    <3> QED BY <1>1, <2>1, <3>1, <3>2
  <2> QED BY <2>2, <2>3 DEF One
<1>5. ASSUME NEW S, NEW m, NEW T, All(q, S), One(r, S, m, T)
      PROVE  One(q \o r, S, m, T)
  <2>1. PICK k \in 1 .. Len(r) :
           /\ r[k] = m
           /\ \A i \in 1 .. k - 1 : r[i] \in S
           /\ \A i \in k + 1 .. Len(r) : r[i] \in T
    BY <1>5 DEF One
  <2>2. Len(q) + k \in 1 .. Len(q \o r) /\ (q \o r)[Len(q) + k] = m
    BY <1>1, <2>1
  <2>3. ASSUME NEW i \in 1 .. (Len(q) + k) - 1 PROVE (q \o r)[i] \in S
    <3>1. CASE i <= Len(q)
      BY <1>1, <1>5, <3>1 DEF All
    <3>2. CASE i > Len(q)
      <4>1. i - Len(q) \in 1 .. k - 1 /\ Len(q) + (i - Len(q)) = i
        BY <1>1, <2>1, <3>2
      <4> QED BY <1>1, <2>1, <4>1
    <3> QED BY <1>1, <2>1, <3>1, <3>2
  <2>4. ASSUME NEW i \in (Len(q) + k) + 1 .. Len(q \o r) PROVE (q \o r)[i] \in T
    <3>1. i - Len(q) \in k + 1 .. Len(r) /\ Len(q) + (i - Len(q)) = i
      BY <1>1, <2>1
    <3> QED BY <1>1, <2>1, <3>1
  <2> QED BY <2>2, <2>3, <2>4 DEF One
<1> QED BY <1>2, <1>3, <1>4, <1>5

(* A queue of one closure. *)
LEMMA Single ==
  ASSUME NEW e
  PROVE  /\ \A S : All(<<e>>, S) <=> e \in S
         /\ \A S, m, T : One(<<e>>, S, m, T) <=> e = m
<1>1. Len(<<e>>) = 1 /\ <<e>>[1] = e
  OBVIOUS
<1> QED BY <1>1 DEF All, One

(* A closure is added at the end. *)
LEMMA Added ==
  ASSUME NEW U, NEW q \in Seq(U), NEW e \in U
  PROVE  /\ \A S : All(q, S) /\ e \in S => All(Append(q, e), S)
         /\ \A S, m, T : One(q, S, m, T) /\ e \in T => One(Append(q, e), S, m, T)
         /\ \A S, T : All(q, S) => One(Append(q, e), S, e, T)
<1>1. <<e>> \in Seq(U) /\ Append(q, e) = q \o <<e>>
  OBVIOUS
<1>2. /\ \A S : All(q \o <<e>>, S) <=> All(q, S) /\ All(<<e>>, S)
      /\ \A S, m, T : One(q \o <<e>>, S, m, T) <=>
           \/ One(q, S, m, T) /\ All(<<e>>, T)
           \/ All(q, S) /\ One(<<e>>, S, m, T)
  BY <1>1, Joined
<1> QED BY <1>1, <1>2, Single

(* A stop is asked for: it comes before what LLDB has still to forward. *)
LEMMA Inserted ==
  ASSUME NEW U, NEW c \in Seq(U), NEW l \in Seq(U), NEW e \in U
  PROVE  /\ \A S : All(c \o l, S) /\ e \in S => All(Append(c, e) \o l, S)
         /\ \A S, m, T : One(c \o l, S, m, T) /\ e \in S /\ e \in T
                           => One(Append(c, e) \o l, S, m, T)
         /\ \A S, T : All(c \o l, S) /\ All(l, T) => One(Append(c, e) \o l, S, e, T)
<1>1. Append(c, e) \in Seq(U)
  OBVIOUS
<1>2. /\ \A S : All(c, S) /\ e \in S => All(Append(c, e), S)
      /\ \A S, m, T : One(c, S, m, T) /\ e \in T => One(Append(c, e), S, m, T)
      /\ \A S, T : All(c, S) => One(Append(c, e), S, e, T)
  BY Added
<1>3. /\ \A S : All(c \o l, S) <=> All(c, S) /\ All(l, S)
      /\ \A S, m, T : One(c \o l, S, m, T) <=>
           \/ One(c, S, m, T) /\ All(l, T)
           \/ All(c, S) /\ One(l, S, m, T)
  BY Joined
<1>4. /\ \A S : All(Append(c, e) \o l, S) <=> All(Append(c, e), S) /\ All(l, S)
      /\ \A S, m, T : One(Append(c, e) \o l, S, m, T) <=>
           \/ One(Append(c, e), S, m, T) /\ All(l, T)
           \/ All(Append(c, e), S) /\ One(l, S, m, T)
  BY <1>1, Joined
<1> QED BY <1>2, <1>3, <1>4

(* The parts of a queue before and behind a place. *)
LEMMA Parts ==
  ASSUME NEW U, NEW q \in Seq(U), NEW k \in 1 .. Len(q)
  PROVE  /\ Upto(q, k) \in Seq(U) /\ Beyond(q, k) \in Seq(U)
         /\ \A e \in U : /\ Append(q, e)[k] = q[k]
                         /\ Upto(Append(q, e), k) = Upto(q, k)
                         /\ Beyond(Append(q, e), k) = Append(Beyond(q, k), e)
         /\ k = 1 => Head(q) = q[k] /\ Upto(q, k) = <<>> /\ Beyond(q, k) = Tail(q)
         /\ k # 1 => /\ k - 1 \in 1 .. Len(Tail(q)) /\ Tail(q)[k - 1] = q[k]
                     /\ Upto(q, k) # <<>> /\ Head(Upto(q, k)) = Head(q)
                     /\ Upto(Tail(q), k - 1) = Tail(Upto(q, k))
                     /\ Beyond(Tail(q), k - 1) = Beyond(q, k)
<1>1. Len(q) \in Nat /\ Upto(q, k) \in Seq(U) /\ Beyond(q, k) \in Seq(U)
  BY DEF Upto, Beyond
<1>2. ASSUME NEW e \in U
      PROVE  /\ Append(q, e)[k] = q[k]
             /\ Upto(Append(q, e), k) = Upto(q, k)
             /\ Beyond(Append(q, e), k) = Append(Beyond(q, k), e)
  <2>1. Append(q, e)[k] = q[k]
    BY <1>1
  <2>2. Upto(Append(q, e), k) = Upto(q, k)
    BY <1>1 DEF Upto
  <2>3. Beyond(Append(q, e), k) = Append(Beyond(q, k), e)
    <3> DEFINE a == Beyond(Append(q, e), k)
               b == Append(Beyond(q, k), e)
    <3>1. a \in Seq(U) /\ Len(a) = Len(q) + 1 - k
      BY <1>1 DEF Beyond
    <3>2. b \in Seq(U) /\ Len(b) = Len(q) + 1 - k
      BY <1>1 DEF Beyond
    <3>3. \A i \in 1 .. Len(q) + 1 - k : a[i] = b[i]
      BY <1>1 DEF Beyond
    <3> HIDE DEF a, b
    <3>4. a = b
      BY <3>1, <3>2, <3>3
    <3> QED BY <3>4 DEF a, b
  <2> QED BY <2>1, <2>2, <2>3
<1>3. k = 1 => Head(q) = q[k] /\ Upto(q, k) = <<>> /\ Beyond(q, k) = Tail(q)
  BY <1>1 DEF Upto, Beyond
<1>4. ASSUME k # 1
      PROVE  /\ k - 1 \in 1 .. Len(Tail(q)) /\ Tail(q)[k - 1] = q[k]
             /\ Upto(q, k) # <<>> /\ Head(Upto(q, k)) = Head(q)
             /\ Upto(Tail(q), k - 1) = Tail(Upto(q, k))
             /\ Beyond(Tail(q), k - 1) = Beyond(q, k)
  <2>1. k - 1 \in 1 .. Len(Tail(q)) /\ Tail(q)[k - 1] = q[k]
    BY <1>1, <1>4
  <2>2. Upto(q, k) # <<>> /\ Head(Upto(q, k)) = Head(q)
    BY <1>1, <1>4 DEF Upto
  <2>3. Upto(Tail(q), k - 1) = Tail(Upto(q, k))
    BY <1>1, <1>4 DEF Upto
  <2>4. Beyond(Tail(q), k - 1) = Beyond(q, k)
    BY <1>1, <1>4 DEF Beyond
  <2> QED BY <2>1, <2>2, <2>3, <2>4
<1> QED BY <1>1, <1>2, <1>3, <1>4

(* The place behind the last closure, taken by a new one. *)
LEMMA PartsNew ==
  ASSUME NEW U, NEW q \in Seq(U), NEW e \in U
  PROVE  LET k == Len(q) + 1 IN
         /\ k \in 1 .. Len(Append(q, e)) /\ Append(q, e)[k] = e
         /\ Upto(Append(q, e), k) = q /\ Beyond(Append(q, e), k) = <<>>
<1>1. Len(q) \in Nat /\ Len(Append(q, e)) = Len(q) + 1
  OBVIOUS
<1>2. Upto(Append(q, e), Len(q) + 1) = q
  BY <1>1 DEF Upto
<1>3. Beyond(Append(q, e), Len(q) + 1) = <<>>
  BY <1>1 DEF Beyond
<1> QED BY <1>1, <1>2, <1>3

(* Two sequences of one length that agree at every place are equal. *)
LEMMA Extensional ==
  ASSUME NEW S, NEW a \in Seq(S), NEW b \in Seq(S), Len(a) = Len(b),
         \A i \in 1 .. Len(a) : a[i] = b[i]
  PROVE  a = b
OBVIOUS

(* Nothing is added to a queue. *)
LEMMA ChainedNone ==
  ASSUME NEW S, NEW q \in Seq(S)
  PROVE  q \o <<>> = q
<1> DEFINE a == q \o <<>>
<1>1. a \in Seq(S) /\ Len(a) = Len(q) /\ \A i \in 1 .. Len(a) : a[i] = q[i]
  OBVIOUS
<1> HIDE DEF a
<1>2. a = q
  BY <1>1, Extensional
<1> QED BY <1>2 DEF a

(* One closure added to the second of two queues read as one. *)
LEMMA ChainedOne ==
  ASSUME NEW S, NEW q \in Seq(S), NEW r \in Seq(S), NEW e \in S
  PROVE  q \o (r \o <<e>>) = Append(q \o r, e)
<1> DEFINE a == q \o (r \o <<e>>)
           b == Append(q \o r, e)
<1>1. <<e>> \in Seq(S) /\ q \o r \in Seq(S)
  OBVIOUS
<1>2. a \in Seq(S) /\ Len(a) = Len(q) + Len(r) + 1
  BY <1>1
<1>3. b \in Seq(S) /\ Len(b) = Len(q) + Len(r) + 1
  BY <1>1
<1>4. \A i \in 1 .. Len(a) : a[i] = b[i]
  BY <1>1
<1> HIDE DEF a, b
<1>5. a = b
  BY <1>2, <1>3, <1>4, Extensional
<1> QED BY <1>5 DEF a, b

(* Two closures added to the second of two queues read as one. *)
LEMMA ChainedTwo ==
  ASSUME NEW S, NEW q \in Seq(S), NEW r \in Seq(S), NEW e \in S, NEW f \in S
  PROVE  q \o (r \o <<e, f>>) = Append(Append(q \o r, e), f)
<1> DEFINE a == q \o (r \o <<e, f>>)
           b == Append(Append(q \o r, e), f)
<1>1. <<e, f>> \in Seq(S) /\ q \o r \in Seq(S)
  OBVIOUS
<1>2. a \in Seq(S) /\ Len(a) = Len(q) + Len(r) + 2
  BY <1>1
<1>3. b \in Seq(S) /\ Len(b) = Len(q) + Len(r) + 2
  BY <1>1
<1>4. \A i \in 1 .. Len(a) : a[i] = b[i]
  BY <1>1
<1> HIDE DEF a, b
<1>5. a = b
  BY <1>2, <1>3, <1>4, Extensional
<1> QED BY <1>5 DEF a, b

(* Forwarding the first closure of one queue to the other. *)
LEMMA Forwarded ==
  ASSUME NEW S, NEW q \in Seq(S), NEW r \in Seq(S), r # <<>>
  PROVE  Append(q, Head(r)) \o Tail(r) = q \o r
<1> DEFINE a == Append(q, Head(r)) \o Tail(r)
           b == q \o r
<1>1. Head(r) \in S /\ Tail(r) \in Seq(S) /\ Len(Tail(r)) = Len(r) - 1
  OBVIOUS
<1>2. a \in Seq(S) /\ Len(a) = Len(q) + Len(r)
  BY <1>1
<1>3. b \in Seq(S) /\ Len(b) = Len(q) + Len(r)
  OBVIOUS
<1>4. \A i \in 1 .. Len(a) : a[i] = b[i]
  BY <1>1
<1> HIDE DEF a, b
<1>5. a = b
  BY <1>2, <1>3, <1>4, Extensional
<1> QED BY <1>5 DEF a, b

-----------------------------------------------------------------------------

(* A state that is set, with the lists it refreshes, keeps the types. *)
LEMMA SetStateType ==
  ASSUME TypeOK, NEW s \in States, NEW c \in BOOLEAN, SetState(s, c)
  PROVE  /\ state' \in States /\ threads' \in BOOLEAN
         /\ locals' \in BOOLEAN /\ watch' \in BOOLEAN
BY DEF TypeOK, SetState, States, Clearing

(* A queue stays one when its first closure is taken. *)
LEMMA TailType ==
  ASSUME NEW S, NEW q \in Seq(S), q # <<>>
  PROVE  Head(q) \in S /\ Tail(q) \in Seq(S)
OBVIOUS

(* Two queues make one. *)
LEMMA ConcatType ==
  ASSUME NEW S, NEW q \in Seq(S), NEW r \in Seq(S)
  PROVE  q \o r \in Seq(S)
OBVIOUS

(* A step adds no closure, one or two. *)
LEMMA OneTwoType ==
  ASSUME NEW S, NEW a \in S, NEW b \in S
  PROVE  <<>> \in Seq(S) /\ <<a>> \in Seq(S) /\ <<a, b>> \in Seq(S)
OBVIOUS

(* Replies and emitted events keep the queues' types. *)
LEMMA ReplyType ==
  ASSUME TypeOK, NEW a \in Results, NEW b \in Results,
         Reply(<<>>) \/ Reply(<<a>>) \/ Reply(<<a, b>>)
  PROVE  mainQ' \in Seq(Results)
BY ConcatType, OneTwoType DEF TypeOK, Reply

(* What LLDB adds to its queue is an event or a completion. *)
LEMMA EmitType ==
  ASSUME TypeOK, NEW a \in Events \cup Completions, NEW b \in Events \cup Completions,
         Emit(<<>>) \/ Emit(<<a>>) \/ Emit(<<a, b>>)
  PROVE  lldbQ' \in Seq(Events \cup Completions)
BY ConcatType, OneTwoType DEF TypeOK, Emit

(* What every closure of the core thread leaves in its own queue. *)
LEMMA CoreTakesType ==
  ASSUME TypeOK, NEW msg, CoreTakes(msg)
  PROVE  coreQ' \in Seq(Commands \cup Events \cup Completions)
BY TailType DEF TypeOK, CoreTakes

(* What every closure of the main thread leaves in its own queue. *)
LEMMA MainTakesType ==
  ASSUME TypeOK, NEW msg, MainTakes(msg)
  PROVE  mainQ' \in Seq(Results)
BY TailType DEF TypeOK, MainTakes

(* Every step keeps the kinds of closures each thread expects. *)
LEMMA TypeNext ==
  ASSUME TypeOK, [Next]_vars
  PROVE  TypeOK'
<1> USE DEF mainVars, coreVars
<1>1. CASE UserAction
  <2>1. PICK cmd \in Commands : Post(cmd)
    BY <1>1 DEF UserAction, Launch, Attach, Run, Step, Stop, Terminate, Detach,
                Close, SelectFrame, FetchFrames, Commands
  <2>2. \/ \E s \in States : SetState(s, FALSE)
        \/ UNCHANGED mainVars
    BY <1>1 DEF UserAction, Launch, Attach, Run, Step, Stop, Terminate, Detach,
                Close, SelectFrame, FetchFrames, States
  <2>3. /\ state' \in States /\ threads' \in BOOLEAN
        /\ locals' \in BOOLEAN /\ watch' \in BOOLEAN
    BY <2>2, SetStateType DEF TypeOK
  <2> QED BY <2>1, <2>3 DEF Post, TypeOK
<1>2. CASE CoreThread
  <2>0. mishaps' = mishaps
    BY <1>2 DEF CoreThread, CoreLaunch, CoreAttach, CoreRun, CoreStep, CoreStop, CoreEnd,
                CoreClose, CoreRead, CoreEvent, CoreLaunchDone, CoreTakes
  <2> USE <2>0, CoreTakesType, ReplyType, EmitType DEF Results, Events, Completions, ProcStates
  <2>1. CASE CoreLaunch
    <3>1. coreQ' \in Seq(Commands \cup Events \cup Completions)
      BY <2>1 DEF CoreLaunch
    <3>2. Reply(<<"launchOk">>) \/ Reply(<<"launchErr">>)
      BY <2>1 DEF CoreLaunch
    <3>3. \/ Emit(<<"evRunning">>) \/ Emit(<<"evStopped", "evRunning">>)
          \/ Emit(<<>>) \/ Emit(<<"evExited">>)
      BY <2>1 DEF CoreLaunch
    <3>4. mainQ' \in Seq(Results) /\ lldbQ' \in Seq(Events \cup Completions)
      BY <3>2, <3>3
    <3> QED BY <2>1, <3>1, <3>4 DEF CoreLaunch, TypeOK
  <2>2. CASE CoreAttach
    BY <2>2 DEF CoreAttach, TypeOK
  <2>3. CASE CoreRun \/ CoreStep
    BY <2>3 DEF CoreRun, CoreStep, CoreResume, TypeOK
  <2>4. CASE CoreStop
    BY <2>4 DEF CoreStop, TypeOK
  <2>5. CASE CoreEnd("terminate") \/ CoreEnd("detach")
    BY <2>5 DEF CoreEnd, TypeOK
  <2>6. CASE CoreClose \/ CoreRead
    BY <2>6 DEF CoreClose, CoreRead, TypeOK
  <2>7. CASE CoreEvent
    <3>1. Reply(<<>>) \/ Reply(<<"stopped">>) \/ Reply(<<"exited">>)
      BY <2>7 DEF CoreEvent
    <3> QED BY <2>7, <3>1 DEF CoreEvent, TypeOK
  <2>8. CASE CoreLaunchDone
    <3>1. Reply(<<"finishErr">>) \/ Reply(<<"finishStopped">>) \/ Reply(<<"finishRunning">>)
      BY <2>8 DEF CoreLaunchDone
    <3> QED BY <2>8, <3>1 DEF CoreLaunchDone, TypeOK
  <2> QED BY <1>2, <2>1, <2>2, <2>3, <2>4, <2>5, <2>6, <2>7, <2>8 DEF CoreThread
<1>3. CASE EventThread
  BY <1>3, TailType DEF EventThread, TypeOK
<1>4. CASE MainThread
  <2>0. mishaps' = mishaps
    BY <1>4 DEF MainThread, MainLaunchResult, MainLaunchDone, MainStopped, MainExited,
                MainClosed, MainAttachFailed, MainResumeFailed, MainSets, MainFrameLists,
                MainOther, MainTakes
  <2> USE <2>0, MainTakesType, SetStateType DEF Completions, States
  <2>1. CASE MainLaunchResult
    BY <2>1, EmitType DEF MainLaunchResult, TypeOK
  <2>2. CASE MainLaunchDone
    <3>1. coreQ' \in Seq(Commands \cup Events \cup Completions)
      <4>1. "collect" \in Commands \cup Events \cup Completions
        BY DEF Commands
      <4>2. coreQ' = coreQ \/ coreQ' = Append(coreQ, "collect")
        BY <2>2 DEF MainLaunchDone
      <4> QED BY <4>1, <4>2 DEF TypeOK
    <3>2. mainQ' \in Seq(Results) /\ \E s \in States : SetState(s, FALSE)
      BY <2>2 DEF MainLaunchDone
    <3> QED BY <2>2, <3>1, <3>2 DEF MainLaunchDone, TypeOK
  <2>3. CASE \/ MainStopped \/ MainExited \/ MainClosed
             \/ MainAttachFailed \/ MainResumeFailed
    <3>1. PICK msg \in Results, s \in States, c \in BOOLEAN : MainSets(msg, s, c)
      BY <2>3 DEF MainStopped, MainExited, MainClosed, MainAttachFailed,
                  MainResumeFailed, Results
    <3> QED BY <3>1 DEF MainSets, TypeOK
  <2>4. CASE MainFrameLists \/ MainOther
    BY <2>4 DEF MainFrameLists, MainOther, TypeOK
  <2> QED BY <1>4, <2>1, <2>2, <2>3, <2>4 DEF MainThread
<1>5. CASE Process
  <2>1. PICK st \in ProcStates, ev \in Events : ProcEvent(st, ev)
    BY <1>5 DEF Process, ProcStop, ProcRestart, ProcExit, Events, ProcStates
  <2> QED BY <2>1 DEF ProcEvent, TypeOK
<1>6. CASE Over \/ UNCHANGED vars
  BY <1>6 DEF Over, vars, TypeOK
<1> QED BY <1>1, <1>2, <1>3, <1>4, <1>5, <1>6 DEF Next

(* The first state has them too. *)
LEMMA InitType == Init => TypeOK
<1>1. /\ <<>> \in Seq(Events \cup Completions) /\ <<"evStopped">> \in Seq(Events \cup Completions)
      /\ <<>> \in Seq(Results) /\ <<>> \in Seq(Commands \cup Events \cup Completions)
  BY OneTwoType DEF Events, Results, Commands
<1> QED BY <1>1, ScenariosAssumption DEF Init, TypeOK, States, ProcStates

(* The variables always hold the kinds of closures their thread expects. *)
THEOREM TypeCorrect == Spec => []TypeOK
BY InitType, TypeNext, PTL DEF Spec

-----------------------------------------------------------------------------
(***************************************************************************)
(* The inductive invariant: what the queues may hold in each phase of the  *)
(* target. The core thread's queue and LLDB's, which feeds it, are read as *)
(* one: what is forwarded does not change it.                              *)
(***************************************************************************)
Work == coreQ \o lldbQ

\* Results that change nothing, or only lists; events that change nothing for
\* the target, with stops asked for at any time; what a stopped process serves.
Quiet == {"ok", "err", "attachOk", "frames"}
Lists == Quiet \cup {"frameLists"}
Echo == {"evRunning", "evRestarted"}
Noise == Echo \cup {"stop"}
Reads == Noise \cup {"selectFrame", "fetchFrames"}
Mute == {"evRestarted", "evExited"}

\* A process in state p that the target takes to run: it does, or its end or
\* its stop is on its way, in queue w of the core thread or m of the main one.
Reported(p, ms, m, w) ==
  \/ p = "running" /\ All(m, Lists) /\ All(w, Noise)
  \/ /\ p = "stopped"
     /\ \/ All(m, Lists) /\ \E e \in {"evStopped", "collect"} : One(w, Noise, e, Noise)
        \/ One(m, Lists, "stopped", Quiet) /\ All(w, Noise)
  \/ /\ p = "none"
     /\ \/ All(m, Lists) /\ One(w, Noise, "evExited", Noise)
        \/ One(m, Lists, "exited", Quiet) /\ All(w, Noise)
  \/ /\ \/ p = "none" /\ "earlyExit" \in ms
        \/ p = "stopped" /\ "stepIgnored" \in ms
     /\ All(m, Lists) /\ All(w, Noise)

\* The events h that a launch hides leave the process stopped or not, as the
\* core thread will know when it has taken them.
Ends(early, h, stopped) ==
  \/ One(h, Events, IF stopped THEN "evStopped" ELSE "evRunning", Mute)
  \/ early = stopped /\ All(h, Mute)

\* A launch whose completion has the hidden events h before it and r behind.
Hidden(p, ms, early, h, r) ==
  /\ All(h, Events)
  /\ \/ Ends(early, h, TRUE) /\ p = "stopped" /\ All(r, Noise)
     \/ Ends(early, h, FALSE) /\ Reported(p, ms, <<>>, r)

-----------------------------------------------------------------------------
(* The phases of the target: what may wait for its threads in each state it *)
(* shows. A process that has just been born stopped shows its threads late. *)
HasThreads == threads \/ "bornStopped" \in mishaps

\* Nothing is under way: before a launch, after an exit, when closed.
WithoutProcess ==
  state \in {"loaded", "invalid"} /\ proc = "none" /\ All(mainQ, Quiet) /\ All(Work, Noise)

Unloading ==
  /\ state = "unloading" /\ proc = "none"
  /\ \/ All(mainQ, Quiet) /\ One(Work, Noise, "close", Noise)
     \/ One(mainQ, Quiet, "closed", Quiet) /\ All(Work, Noise)

Stopped ==
  state = "stopped" /\ proc = "stopped" /\ HasThreads /\ All(mainQ, Lists) /\ All(Work, Reads)

\* The command to go on is still to be taken, or was refused.
Resuming ==
  /\ state = "running" /\ proc = "stopped" /\ HasThreads
  /\ \/ All(mainQ, Lists) /\ \E cmd \in {"run", "step"} : One(Work, Reads, cmd, Noise)
     \/ One(mainQ, Lists, "resumeErr", Quiet) /\ All(Work, Noise)

Running == state = "running" /\ Reported(proc, mishaps, mainQ, Work)

\* The process is to end, or has ended and its exit is on its way.
Ending ==
  /\ state \in {"terminating", "detaching"}
  /\ \/ /\ proc = "stopped" /\ All(mainQ, Lists)
        /\ \/ \E cmd \in {"terminate", "detach"} : One(Work, Reads, cmd, Noise)
           \/ "commandFails" \in mishaps /\ All(Work, Noise)
     \/ /\ proc = "none"
        /\ \/ All(mainQ, Lists) /\ One(Work, Noise, "evExited", Noise)
           \/ One(mainQ, Lists, "exited", Quiet) /\ All(Work, Noise)

\* No launch is unfinished: the command is still to be taken, has failed, or
\* the process is there and the result, or the stop, on its way.
Starting ==
  /\ state = "launching"
  /\ \/ /\ proc = "none"
        /\ \/ All(mainQ, Quiet) /\ \E cmd \in {"launch", "attach"} : One(Work, Noise, cmd, Echo)
           \/ All(Work, Noise) /\ \E msg \in {"attachErr", "finishErr"} : One(mainQ, Quiet, msg, Quiet)
     \/ /\ proc = "stopped"
        /\ \/ All(mainQ, Quiet) /\ One(Work, Noise, "evStopped", Noise)
           \/ All(Work, Noise) /\ \E msg \in {"stopped", "finishStopped"} : One(mainQ, Quiet, msg, Quiet)
     \/ \E k \in 1 .. Len(mainQ) :
          /\ mainQ[k] = "finishRunning" /\ All(Upto(mainQ, k), Quiet)
          /\ Reported(proc, mishaps, Beyond(mainQ, k), Work)

\* The core thread hides the events of a launch until the main thread has
\* sent the completion of it back: what they say is remembered.
LaunchUnfinished ==
  /\ state = "launching"
  /\ \/ One(mainQ, Quiet, "launchOk", Quiet) /\ Hidden(proc, mishaps, stoppedEarly, Work, <<>>)
     \/ /\ All(mainQ, Quiet)
        /\ \E k \in 1 .. Len(Work) :
             /\ Work[k] = "doneOk"
             /\ Hidden(proc, mishaps, stoppedEarly, Upto(Work, k), Beyond(Work, k))
     \/ /\ proc = "none"
        /\ \/ One(mainQ, Quiet, "launchErr", Quiet) /\ All(Work, Events)
           \/ All(mainQ, Quiet) /\ One(Work, Events, "doneErr", Noise)

Phase ==
  IF isLaunching THEN LaunchUnfinished
  ELSE /\ stoppedEarly = FALSE
       /\ \/ WithoutProcess \/ Unloading \/ Stopped \/ Resuming \/ Running \/ Ending \/ Starting

\* Inductive, unlike the properties it implies.
IInv == TypeOK /\ Phase /\ NoGhostValues /\ (state \notin {"stopped", "running"} => ~threads)

\* What the two queues read as one may hold.
Closures == Commands \cup Events \cup Completions

-----------------------------------------------------------------------------
(* The kinds of closures. *)
LEMMA Kinds ==
  /\ \A x : x \in Quiet <=> x \in {"ok", "err", "attachOk", "frames"}
  /\ \A x : x \in Lists <=> x \in Quiet \/ x = "frameLists"
  /\ \A x : x \in Noise <=> x \in {"evRunning", "evRestarted", "stop"}
  /\ \A x : x \in Echo <=> x \in {"evRunning", "evRestarted"}
  /\ \A x : x \in Reads <=> x \in Noise \/ x \in {"selectFrame", "fetchFrames"}
  /\ \A x : x \in Mute <=> x \in {"evRestarted", "evExited"}
BY DEF Quiet, Lists, Noise, Echo, Reads, Mute

(* What is said of a kind holds for the wider kind. *)
LEMMA Widen ==
  /\ \A q : All(q, Quiet) => All(q, Lists)
  /\ \A q : All(q, Echo) => All(q, Noise)
  /\ \A q : All(q, Noise) => All(q, Reads)
  /\ \A q, m, T : One(q, Quiet, m, T) => One(q, Lists, m, T)
  /\ \A q, m, T : One(q, Noise, m, T) => One(q, Reads, m, T)
  /\ \A q, m, S : One(q, S, m, Echo) => One(q, S, m, Noise)
BY DEF All, One, Quiet, Lists, Noise, Echo, Reads

(* A running process stops, restarts or exits. *)
LEMMA ReportedProcess ==
  ASSUME NEW U, NEW w \in Seq(U), NEW m, NEW ms, Reported("running", ms, m, w),
         {"evStopped", "evRestarted", "evExited"} \subseteq U
  PROVE  /\ Reported("stopped", ms, m, Append(w, "evStopped"))
         /\ Reported("running", ms, m, Append(w, "evRestarted"))
         /\ Reported("none", ms, m, Append(w, "evExited"))
<1>1. All(m, Lists) /\ All(w, Noise)
  BY DEF Reported
<1>2. /\ One(Append(w, "evStopped"), Noise, "evStopped", Noise)
      /\ All(Append(w, "evRestarted"), Noise)
      /\ One(Append(w, "evExited"), Noise, "evExited", Noise)
  BY <1>1, Added, Kinds
<1> QED BY <1>1, <1>2 DEF Reported

(* The core thread takes the first closure and, where it does, replies. *)
LEMMA ReportedCore ==
  ASSUME NEW U, NEW w \in Seq(U), w # <<>>, NEW m \in Seq(Results), NEW p, NEW ms,
         Reported(p, ms, m, w), "evStopped" \in U
  PROVE  \/ Head(w) \in Echo /\ Reported(p, ms, m, Tail(w))
         \/ /\ Head(w) = "stop" /\ Reported(p, ms, Append(m, "err"), Tail(w))
            /\ p = "running" =>
                 Reported("stopped", ms, Append(m, "ok"), Append(Tail(w), "evStopped"))
         \/ /\ Head(w) \in {"evStopped", "collect"} /\ p = "stopped"
            /\ Reported(p, ms, Append(m, "stopped"), Tail(w))
         \/ /\ Head(w) = "evExited" /\ p = "none"
            /\ Reported(p, ms, Append(m, "exited"), Tail(w))
<1>1. Tail(w) \in Seq(U)
  OBVIOUS
<1>2. /\ All(m, Lists) => All(Append(m, "err"), Lists) /\ All(Append(m, "ok"), Lists)
      /\ \A x : One(m, Lists, x, Quiet) => One(Append(m, "err"), Lists, x, Quiet)
  BY Added, Kinds DEF Results
<1>3. /\ All(m, Lists) => One(Append(m, "stopped"), Lists, "stopped", Quiet)
      /\ All(m, Lists) => One(Append(m, "exited"), Lists, "exited", Quiet)
  BY Added DEF Results
<1>4. All(Tail(w), Noise) => One(Append(Tail(w), "evStopped"), Noise, "evStopped", Noise)
  BY <1>1, Added
<1>5. CASE p = "running" /\ All(m, Lists) /\ All(w, Noise)
  <2>1. Head(w) \in Noise /\ All(Tail(w), Noise)
    BY <1>5, Taken
  <2> QED BY <1>2, <1>4, <1>5, <2>1, Kinds DEF Reported
<1>6. CASE p = "stopped" /\ All(m, Lists) /\ \E e \in {"evStopped", "collect"} : One(w, Noise, e, Noise)
  <2>1. PICK e \in {"evStopped", "collect"} : One(w, Noise, e, Noise)
    BY <1>6
  <2>2. \/ Head(w) = e /\ All(Tail(w), Noise)
        \/ Head(w) \in Noise /\ One(Tail(w), Noise, e, Noise)
    BY <2>1, Taken
  <2> QED BY <1>2, <1>3, <1>6, <2>2, Kinds DEF Reported
<1>7. CASE /\ p = "stopped" \/ p = "none"
           /\ One(m, Lists, IF p = "stopped" THEN "stopped" ELSE "exited", Quiet) /\ All(w, Noise)
  <2>1. Head(w) \in Noise /\ All(Tail(w), Noise)
    BY <1>7, Taken
  <2> QED BY <1>2, <1>7, <2>1, Kinds DEF Reported
<1>8. CASE p = "none" /\ All(m, Lists) /\ One(w, Noise, "evExited", Noise)
  <2>1. \/ Head(w) = "evExited" /\ All(Tail(w), Noise)
        \/ Head(w) \in Noise /\ One(Tail(w), Noise, "evExited", Noise)
    BY <1>8, Taken
  <2> QED BY <1>2, <1>3, <1>8, <2>1, Kinds DEF Reported
<1>9. CASE /\ \/ p = "none" /\ "earlyExit" \in ms
              \/ p = "stopped" /\ "stepIgnored" \in ms
           /\ All(m, Lists) /\ All(w, Noise)
  <2>1. Head(w) \in Noise /\ All(Tail(w), Noise)
    BY <1>9, Taken
  <2> QED BY <1>2, <1>9, <2>1, Kinds DEF Reported
<1> QED BY <1>5, <1>6, <1>7, <1>8, <1>9 DEF Reported

(* The main thread takes the first closure. *)
LEMMA ReportedMain ==
  ASSUME NEW m \in Seq(Results), m # <<>>, NEW w, NEW p, NEW ms, Reported(p, ms, m, w)
  PROVE  \/ Head(m) \in Lists /\ Reported(p, ms, Tail(m), w)
         \/ Head(m) = "stopped" /\ p = "stopped" /\ All(Tail(m), Quiet) /\ All(w, Noise)
         \/ Head(m) = "exited" /\ p = "none" /\ All(Tail(m), Quiet) /\ All(w, Noise)
<1>1. /\ All(m, Lists) => Head(m) \in Lists /\ All(Tail(m), Lists)
      /\ \A x : One(m, Lists, x, Quiet) =>
           \/ Head(m) = x /\ All(Tail(m), Quiet)
           \/ Head(m) \in Lists /\ One(Tail(m), Lists, x, Quiet)
  BY Taken
<1> QED BY <1>1 DEF Reported

(* A stop that the user asks for keeps what is reported. *)
LEMMA ReportedStop ==
  ASSUME NEW U, NEW c \in Seq(U), NEW l \in Seq(U), "stop" \in U,
         NEW m, NEW p, NEW ms, Reported(p, ms, m, c \o l)
  PROVE  Reported(p, ms, m, Append(c, "stop") \o l)
<1>1. /\ All(c \o l, Noise) => All(Append(c, "stop") \o l, Noise)
      /\ \A x : One(c \o l, Noise, x, Noise) => One(Append(c, "stop") \o l, Noise, x, Noise)
  BY Inserted, Kinds
<1> QED BY <1>1 DEF Reported

-----------------------------------------------------------------------------
(* A report of the process is added to the events that a launch hides. *)
LEMMA EndsProcess ==
  ASSUME NEW U, NEW h \in Seq(U), NEW early, Events \subseteq U, Ends(early, h, FALSE)
  PROVE  /\ All(h, Events) => Ends(early, Append(h, "evStopped"), TRUE)
         /\ Ends(early, Append(h, "evRestarted"), FALSE)
         /\ Ends(early, Append(h, "evExited"), FALSE)
<1>1. /\ All(h, Events) => One(Append(h, "evStopped"), Events, "evStopped", Mute)
      /\ \A e \in Mute : \A x : One(h, Events, x, Mute) => One(Append(h, e), Events, x, Mute)
      /\ \A e \in Mute : All(h, Mute) => All(Append(h, e), Mute)
  BY Added, Kinds DEF Events
<1> QED BY <1>1, Kinds DEF Ends

-----------------------------------------------------------------------------
(* The process reports while the completion is not yet among the closures. *)
LEMMA HiddenProcess ==
  ASSUME NEW U, NEW h \in Seq(U), NEW early, NEW ms, Events \subseteq U,
         Hidden("running", ms, early, h, <<>>)
  PROVE  /\ Hidden("stopped", ms, early, Append(h, "evStopped"), <<>>)
         /\ Hidden("running", ms, early, Append(h, "evRestarted"), <<>>)
         /\ "earlyExit" \in ms => Hidden("none", ms, early, Append(h, "evExited"), <<>>)
<1>1. All(h, Events) /\ Ends(early, h, FALSE)
  BY DEF Hidden
<1>2. \A e \in Events : All(Append(h, e), Events)
  BY <1>1, Added
<1>3. All(<<>>, Lists) /\ All(<<>>, Noise)
  BY EmptyQueue
<1> QED BY <1>1, <1>2, <1>3, EndsProcess DEF Hidden, Reported, Events

(* The process reports behind the completion. *)
LEMMA HiddenProcessLate ==
  ASSUME NEW U, NEW h, NEW r \in Seq(U), NEW early, NEW ms, Events \subseteq U,
         Hidden("running", ms, early, h, r)
  PROVE  /\ Hidden("stopped", ms, early, h, Append(r, "evStopped"))
         /\ Hidden("running", ms, early, h, Append(r, "evRestarted"))
         /\ Hidden("none", ms, early, h, Append(r, "evExited"))
<1>1. All(h, Events) /\ Ends(early, h, FALSE) /\ Reported("running", ms, <<>>, r)
  BY DEF Hidden
<1> QED BY <1>1, ReportedProcess DEF Hidden, Events

(* The core thread takes a hidden event and remembers what it says. *)
LEMMA HiddenCore ==
  ASSUME NEW U, NEW h \in Seq(U), h # <<>>, NEW early \in BOOLEAN, NEW r, NEW p, NEW ms,
         Hidden(p, ms, early, h, r)
  PROVE  /\ Head(h) \in Events
         /\ Hidden(p, ms, IF Head(h) \in {"evStopped", "evRunning"} THEN Head(h) = "evStopped"
                          ELSE early, Tail(h), r)
<1> DEFINE now == IF Head(h) \in {"evStopped", "evRunning"} THEN Head(h) = "evStopped" ELSE early
<1>1. Head(h) \in Events /\ All(Tail(h), Events)
  BY Taken DEF Hidden
<1>2. ASSUME NEW s \in BOOLEAN, Ends(early, h, s) PROVE Ends(now, Tail(h), s)
  <2> DEFINE x == IF s THEN "evStopped" ELSE "evRunning"
  <2>1. \/ Head(h) = x /\ All(Tail(h), Mute)
        \/ One(Tail(h), Events, x, Mute)
        \/ early = s /\ Head(h) \in Mute /\ All(Tail(h), Mute)
    <3> HIDE DEF x
    <3>1. One(h, Events, x, Mute) \/ (early = s /\ All(h, Mute))
      BY <1>2 DEF Ends, x
    <3> QED BY <3>1, Taken
  <2>2. Head(h) = x => now = s
    BY DEF x
  <2>3. Head(h) \in Mute => now = early
    BY Kinds
  <2> QED BY <2>1, <2>2, <2>3 DEF Ends
<1> QED BY <1>1, <1>2 DEF Hidden

(* The completion is next: what was remembered is what the process does. *)
LEMMA HiddenOver ==
  ASSUME NEW early \in BOOLEAN, NEW r, NEW p, NEW ms, Hidden(p, ms, early, <<>>, r)
  PROVE  IF early THEN p = "stopped" /\ All(r, Noise) ELSE Reported(p, ms, <<>>, r)
BY EmptyQueue DEF Hidden, Ends

-----------------------------------------------------------------------------
(* The two queues read as one hold closures of the core thread and LLDB. *)
LEMMA WorkType == TypeOK => Work \in Seq(Closures)
BY DEF TypeOK, Work, Closures

(* A command is posted in front of what LLDB has still to forward. *)
LEMMA Posted ==
  ASSUME TypeOK, NEW cmd \in Commands, Post(cmd)
  PROVE  /\ \A S : All(Work, S) /\ cmd \in S => All(Work, S)'
         /\ \A S, m, T : One(Work, S, m, T) /\ cmd \in S /\ cmd \in T => One(Work', S, m, T)
         /\ All(Work, Noise) => One(Work', Noise, cmd, Echo)
         /\ All(Work, Reads) => One(Work', Reads, cmd, Noise)
         /\ cmd = "stop" => \A m : Reported(proc, mishaps, m, Work) =>
                              Reported(proc', mishaps', m, Work')
<1>1. /\ coreQ \in Seq(Closures) /\ lldbQ \in Seq(Closures) /\ cmd \in Closures
      /\ Work = coreQ \o lldbQ /\ Work' = Append(coreQ, cmd) \o lldbQ
      /\ UNCHANGED <<proc, mishaps>>
  BY DEF TypeOK, Closures, Post, Work
<1>2. All(lldbQ, Events \cup Completions)
  BY DEF TypeOK, All
<1>3. \A S : All(Work, S) => All(lldbQ, S)
  BY <1>1, Joined
<1>4. /\ All(Work, Noise) => All(lldbQ, Echo)
      /\ All(Work, Reads) => All(lldbQ, Noise)
  BY <1>2, <1>3, Kinds DEF All, Events, Completions
<1> QED BY <1>1, <1>4, Inserted, ReportedStop

(* The core thread's first closure is that of the two queues read as one. *)
LEMMA WorkHead ==
  ASSUME TypeOK, coreQ # <<>>
  PROVE  Work \in Seq(Closures) /\ Work # <<>> /\ Head(Work) = Head(coreQ) /\ Tail(Work) \in Seq(Closures)
<1>1. coreQ \in Seq(Closures) /\ lldbQ \in Seq(Closures)
  BY DEF TypeOK, Closures
<1> QED BY <1>1 DEF Work

(* The core thread takes a closure, and LLDB adds none, one or two. *)
LEMMA CoreTaken ==
  ASSUME TypeOK, NEW msg, CoreTakes(msg)
  PROVE  /\ Work \in Seq(Closures) /\ Work # <<>> /\ Head(Work) = msg /\ Tail(Work) \in Seq(Closures)
         /\ lldbQ' = lldbQ => Work' = Tail(Work)
         /\ Emit(<<>>) => Work' = Tail(Work)
         /\ \A e \in Events : Emit(<<e>>) => Work' = Append(Tail(Work), e)
         /\ \A e, f \in Events : Emit(<<e, f>>) => Work' = Append(Append(Tail(Work), e), f)
<1>1. /\ coreQ \in Seq(Closures) /\ lldbQ \in Seq(Closures) /\ coreQ # <<>> /\ Events \subseteq Closures
      /\ Head(coreQ) = msg /\ coreQ' = Tail(coreQ)
  BY DEF TypeOK, Closures, CoreTakes
<1>2. Head(Work) = msg /\ Work # <<>> /\ Tail(Work) = Tail(coreQ) \o lldbQ /\ Tail(Work) \in Seq(Closures)
  BY <1>1 DEF Work
<1>3. Work' = Tail(coreQ) \o lldbQ' /\ Tail(coreQ) \in Seq(Closures)
  BY <1>1 DEF Work
<1>4. lldbQ' = lldbQ \/ Emit(<<>>) => Work' = Tail(Work)
  <2>1. Emit(<<>>) => lldbQ' = lldbQ
    BY <1>1, ChainedNone DEF Emit
  <2> QED BY <1>2, <1>3, <2>1
<1>5. ASSUME NEW e \in Events, Emit(<<e>>) PROVE Work' = Append(Tail(Work), e)
  <2>1. e \in Closures /\ lldbQ' = lldbQ \o <<e>>
    BY <1>1, <1>5 DEF Emit
  <2>2. Tail(coreQ) \o (lldbQ \o <<e>>) = Append(Tail(coreQ) \o lldbQ, e)
    BY <1>1, <1>3, <2>1, ChainedOne
  <2> QED BY <1>2, <1>3, <2>1, <2>2, Zenon
<1>6. ASSUME NEW e \in Events, NEW f \in Events, Emit(<<e, f>>)
      PROVE  Work' = Append(Append(Tail(Work), e), f)
  <2>1. e \in Closures /\ f \in Closures /\ lldbQ' = lldbQ \o <<e, f>>
    BY <1>1, <1>6 DEF Emit
  <2>2. Tail(coreQ) \o (lldbQ \o <<e, f>>) = Append(Append(Tail(coreQ) \o lldbQ, e), f)
    <3> DEFINE q == Tail(coreQ)
               r == lldbQ
    <3>1. q \in Seq(Closures) /\ r \in Seq(Closures)
      BY <1>1, <1>3
    <3> HIDE DEF q, r
    <3>2. q \o (r \o <<e, f>>) = Append(Append(q \o r, e), f)
      BY <2>1, <3>1, ChainedTwo
    <3> QED BY <3>2 DEF q, r
  <2> QED BY <1>2, <1>3, <2>1, <2>2, Zenon
<1> QED BY <1>1, <1>2, <1>4, <1>5, <1>6, WorkType

(* A reply is added to what the main thread has to do. *)
LEMMA Replied ==
  ASSUME TypeOK, NEW msg \in Results, Reply(<<msg>>)
  PROVE  mainQ \in Seq(Results) /\ mainQ' = Append(mainQ, msg)
BY DEF TypeOK, Reply

-----------------------------------------------------------------------------
(* A request of the user keeps the phase, or starts the next one. *)
LEMMA UserActionPhase ==
  ASSUME IInv, UserAction
  PROVE  Phase'
<1>. USE DEF IInv, mainVars, coreVars
<1>1. CASE Launch \/ Attach
  <2>1. PICK cmd \in {"launch", "attach"} : Post(cmd)
    BY <1>1 DEF Launch, Attach
  <2>2. WithoutProcess /\ ~isLaunching /\ stoppedEarly = FALSE
    BY <1>1 DEF Launch, Attach, Phase, LaunchUnfinished, WithoutProcess, Unloading, Stopped,
                Resuming, Running, Ending, Starting
  <2>3. One(Work', Noise, cmd, Echo)
    BY <2>1, <2>2, Posted DEF WithoutProcess, Commands
  <2> QED BY <1>1, <2>1, <2>2, <2>3 DEF Launch, Attach, SetState, Post, WithoutProcess, Phase, Starting
<1>2. CASE Close
  <2>1. WithoutProcess /\ ~isLaunching /\ stoppedEarly = FALSE
    BY <1>2 DEF Close, Phase, LaunchUnfinished, WithoutProcess, Unloading, Stopped,
                Resuming, Running, Ending, Starting
  <2>2. One(Work', Noise, "close", Noise)
    BY <1>2, <2>1, Posted, Widen DEF Close, WithoutProcess, Commands
  <2> QED BY <1>2, <2>1, <2>2 DEF Close, SetState, Post, WithoutProcess, Phase, Unloading
<1>3. CASE Run \/ Step \/ Terminate \/ Detach \/ SelectFrame \/ FetchFrames
  <2>1. Stopped /\ ~isLaunching /\ stoppedEarly = FALSE
    BY <1>3 DEF Run, Step, Terminate, Detach, SelectFrame, FetchFrames, Phase, LaunchUnfinished,
                WithoutProcess, Unloading, Stopped, Resuming, Running, Ending, Starting
  <2>2. CASE Run \/ Step
    <3>1. PICK cmd \in {"run", "step"} : Post(cmd)
      BY <2>2 DEF Run, Step
    <3>2. One(Work', Reads, cmd, Noise)
      BY <2>1, <3>1, Posted DEF Stopped, Commands
    <3> QED BY <2>1, <2>2, <3>1, <3>2 DEF Run, Step, SetState, Post, Stopped, HasThreads, Phase, Resuming
  <2>3. CASE Terminate \/ Detach
    <3>1. PICK cmd \in {"terminate", "detach"} : Post(cmd)
      BY <2>3 DEF Terminate, Detach
    <3>2. One(Work', Reads, cmd, Noise)
      BY <2>1, <3>1, Posted DEF Stopped, Commands
    <3> QED BY <2>1, <2>3, <3>1, <3>2 DEF Terminate, Detach, SetState, Post, Stopped, Phase, Ending
  <2>4. CASE SelectFrame \/ FetchFrames
    <3>1. PICK cmd \in {"selectFrame", "fetchFrames"} : Post(cmd)
      BY <2>4 DEF SelectFrame, FetchFrames
    <3>2. All(Work', Reads)
      BY <2>1, <3>1, Posted, Kinds DEF Stopped, Commands
    <3> QED BY <2>1, <2>4, <3>1, <3>2 DEF SelectFrame, FetchFrames, Post, Stopped, HasThreads, Phase
  <2> QED BY <1>3, <2>2, <2>3, <2>4
<1>4. CASE Stop
  <2>1. /\ Post("stop") /\ "stop" \in Commands /\ UNCHANGED mainVars /\ state \in {"running", "stopped"}
        /\ UNCHANGED <<mainQ, coreVars, proc, mishaps>>
    BY <1>4 DEF Stop, Post, Commands
  <2>2. ~isLaunching /\ stoppedEarly = FALSE /\ (Stopped \/ Resuming \/ Running)
    BY <2>1 DEF Phase, LaunchUnfinished, WithoutProcess, Unloading, Ending, Starting
  <2>3. /\ All(Work, Noise) => All(Work', Noise)
        /\ All(Work, Reads) => All(Work', Reads)
        /\ \A cmd : One(Work, Reads, cmd, Noise) => One(Work', Reads, cmd, Noise)
        /\ Reported(proc, mishaps, mainQ, Work) => Reported(proc', mishaps', mainQ', Work')
    BY <2>1, Posted, Kinds
  <2>4. CASE Stopped
    BY <2>1, <2>2, <2>3, <2>4 DEF Stopped, HasThreads, Phase
  <2>5. CASE Resuming
    BY <2>1, <2>2, <2>3, <2>5 DEF Resuming, HasThreads, Phase
  <2>6. CASE Running
    BY <2>1, <2>2, <2>3, <2>6 DEF Running, Phase
  <2> QED BY <2>2, <2>4, <2>5, <2>6
<1> QED BY <1>1, <1>2, <1>3, <1>4 DEF UserAction

(* A reply that changes no phase leaves what is known of the results. *)
LEMMA ReplyAdds ==
  ASSUME TypeOK, NEW msg \in Results, Reply(<<msg>>)
  PROVE  /\ \A S : All(mainQ, S) /\ msg \in S => All(mainQ', S)
         /\ \A S, m, T : One(mainQ, S, m, T) /\ msg \in T => One(mainQ', S, m, T)
         /\ \A S, T : All(mainQ, S) => One(mainQ', S, msg, T)
         /\ \A k \in 1 .. Len(mainQ) :
              /\ k \in 1 .. Len(mainQ') /\ mainQ'[k] = mainQ[k] /\ Upto(mainQ', k) = Upto(mainQ, k)
              /\ Beyond(mainQ, k) \in Seq(Results)
              /\ Beyond(mainQ', k) = Append(Beyond(mainQ, k), msg)
<1>1. mainQ \in Seq(Results) /\ mainQ' = Append(mainQ, msg)
  BY Replied
<1>2. \A k \in 1 .. Len(mainQ) : k \in 1 .. Len(mainQ')
  BY <1>1
<1> QED BY <1>1, <1>2, Added, Parts

(* The core thread takes the first of the two queues read as one. *)
LEMMA WorkTaken ==
  ASSUME TypeOK, coreQ # <<>>, NEW msg, Head(coreQ) = msg
  PROVE  /\ \A S : All(Work, S) => msg \in S /\ All(Tail(Work), S)
         /\ \A S, m, T : One(Work, S, m, T) =>
              \/ msg = m /\ All(Tail(Work), T)
              \/ msg \in S /\ One(Tail(Work), S, m, T)
BY WorkHead, Taken

(* What the core thread finds where no launch is unfinished. *)
LEMMA Served ==
  ASSUME TypeOK, ~isLaunching, Phase, coreQ # <<>>, NEW msg, Head(coreQ) = msg, msg \notin Noise
  PROVE  \/ state = "unloading" /\ msg = "close" /\ proc = "none" /\ All(mainQ, Quiet)
            /\ All(Tail(Work), Noise)
         \/ Stopped /\ msg \in {"selectFrame", "fetchFrames"} /\ All(Tail(Work), Reads)
         \/ /\ state = "running" /\ proc = "stopped" /\ HasThreads /\ All(mainQ, Lists)
            /\ \/ msg \in {"run", "step"} /\ All(Tail(Work), Noise)
               \/ /\ msg \in {"selectFrame", "fetchFrames"}
                  /\ \E cmd \in {"run", "step"} : One(Tail(Work), Reads, cmd, Noise)
         \/ Running /\ msg \in {"evStopped", "evExited", "collect"}
         \/ /\ state \in {"terminating", "detaching"} /\ proc = "stopped" /\ All(mainQ, Lists)
            /\ \/ msg \in {"terminate", "detach"} /\ All(Tail(Work), Noise)
               \/ /\ msg \in {"selectFrame", "fetchFrames"}
                  /\ \E cmd \in {"terminate", "detach"} : One(Tail(Work), Reads, cmd, Noise)
         \/ /\ state \in {"terminating", "detaching"} /\ proc = "none" /\ All(mainQ, Lists)
            /\ msg = "evExited" /\ All(Tail(Work), Noise)
         \/ /\ state = "launching" /\ proc = "none" /\ All(mainQ, Quiet)
            /\ msg \in {"launch", "attach"} /\ All(Tail(Work), Echo)
         \/ /\ state = "launching" /\ proc = "stopped" /\ All(mainQ, Quiet)
            /\ msg = "evStopped" /\ All(Tail(Work), Noise)
         \/ /\ state = "launching" /\ msg \in {"evStopped", "evExited", "collect"}
            /\ \E k \in 1 .. Len(mainQ) :
                 /\ mainQ[k] = "finishRunning" /\ All(Upto(mainQ, k), Quiet)
                 /\ Reported(proc, mishaps, Beyond(mainQ, k), Work)
<1>. USE DEF HasThreads
<1>1. CASE WithoutProcess
  BY <1>1, WorkTaken DEF WithoutProcess
<1>2. CASE Unloading
  BY <1>2, WorkTaken DEF Unloading
<1>3. CASE Stopped
  BY <1>3, WorkTaken, Kinds DEF Stopped
<1>4. CASE Resuming
  BY <1>4, WorkTaken, Kinds DEF Resuming
<1>5. ASSUME NEW m \in Seq(Results), Reported(proc, mishaps, m, Work)
      PROVE  msg \in {"evStopped", "evExited", "collect"}
  <2>1. Work \in Seq(Closures) /\ Work # <<>> /\ Head(Work) = msg
    BY WorkHead
  <2>2. "evStopped" \in Closures
    BY DEF Closures, Events
  <2>3. Head(Work) \in Echo \cup {"stop", "evStopped", "collect", "evExited"}
    BY <1>5, <2>1, <2>2, ReportedCore
  <2> QED BY <2>1, <2>3, Kinds
<1>6. CASE Running
  BY <1>5, <1>6 DEF Running, TypeOK
<1>7. CASE Ending
  BY <1>7, WorkTaken, Kinds DEF Ending
<1>8. CASE Starting
  <2>1. CASE proc = "none" /\ All(mainQ, Quiet) /\ \E cmd \in {"launch", "attach"} : One(Work, Noise, cmd, Echo)
    BY <1>8, <2>1, WorkTaken DEF Starting
  <2>2. CASE proc = "stopped" /\ All(mainQ, Quiet) /\ One(Work, Noise, "evStopped", Noise)
    BY <1>8, <2>2, WorkTaken DEF Starting
  <2>3. ASSUME NEW k \in 1 .. Len(mainQ), Reported(proc, mishaps, Beyond(mainQ, k), Work)
        PROVE  msg \in {"evStopped", "evExited", "collect"}
    BY <1>5, <2>3, Parts DEF TypeOK
  <2> QED BY <1>8, <2>1, <2>2, <2>3, WorkTaken DEF Starting
<1> QED BY <1>1, <1>2, <1>3, <1>4, <1>6, <1>7, <1>8 DEF Phase

(* What it finds while one is. *)
LEMMA ServedHidden ==
  ASSUME TypeOK, isLaunching, Phase, coreQ # <<>>, NEW msg, Head(coreQ) = msg
  PROVE  /\ state = "launching"
         /\ \/ /\ One(mainQ, Quiet, "launchOk", Quiet) /\ msg \in Events
               /\ Hidden(proc, mishaps,
                         IF msg \in {"evStopped", "evRunning"} THEN msg = "evStopped"
                         ELSE stoppedEarly, Tail(Work), <<>>)
            \/ /\ All(mainQ, Quiet) /\ msg \in Events
               /\ \E k \in 1 .. Len(Tail(Work)) :
                    /\ Tail(Work)[k] = "doneOk"
                    /\ Hidden(proc, mishaps,
                              IF msg \in {"evStopped", "evRunning"} THEN msg = "evStopped"
                              ELSE stoppedEarly, Upto(Tail(Work), k), Beyond(Tail(Work), k))
            \/ /\ All(mainQ, Quiet) /\ msg = "doneOk"
               /\ IF stoppedEarly THEN proc = "stopped" /\ All(Tail(Work), Noise)
                                  ELSE Reported(proc, mishaps, <<>>, Tail(Work))
            \/ /\ proc = "none" /\ msg \in Events
               /\ \/ One(mainQ, Quiet, "launchErr", Quiet) /\ All(Tail(Work), Events)
                  \/ All(mainQ, Quiet) /\ One(Tail(Work), Events, "doneErr", Noise)
            \/ proc = "none" /\ msg = "doneErr" /\ All(mainQ, Quiet) /\ All(Tail(Work), Noise)
<1>1. /\ Work \in Seq(Closures) /\ Work # <<>> /\ Head(Work) = msg /\ stoppedEarly \in BOOLEAN
      /\ LaunchUnfinished
  BY WorkHead DEF Phase, TypeOK
<1>2. CASE One(mainQ, Quiet, "launchOk", Quiet) /\ Hidden(proc, mishaps, stoppedEarly, Work, <<>>)
  BY <1>1, <1>2, HiddenCore DEF LaunchUnfinished
<1>3. ASSUME All(mainQ, Quiet), NEW k \in 1 .. Len(Work), Work[k] = "doneOk",
             Hidden(proc, mishaps, stoppedEarly, Upto(Work, k), Beyond(Work, k))
      PROVE  \/ /\ msg \in Events
                /\ \E i \in 1 .. Len(Tail(Work)) :
                     /\ Tail(Work)[i] = "doneOk"
                     /\ Hidden(proc, mishaps,
                               IF msg \in {"evStopped", "evRunning"} THEN msg = "evStopped"
                               ELSE stoppedEarly, Upto(Tail(Work), i), Beyond(Tail(Work), i))
             \/ /\ msg = "doneOk"
                /\ IF stoppedEarly THEN proc = "stopped" /\ All(Tail(Work), Noise)
                                   ELSE Reported(proc, mishaps, <<>>, Tail(Work))
  <2>1. CASE k = 1
    <3>1. Head(Work) = Work[k] /\ Upto(Work, k) = <<>> /\ Beyond(Work, k) = Tail(Work)
      BY <1>1, <2>1, Parts
    <3> QED BY <1>1, <1>3, <3>1, HiddenOver
  <2>2. CASE k # 1
    <3>1. /\ Upto(Work, k) \in Seq(Closures)
          /\ k - 1 \in 1 .. Len(Tail(Work)) /\ Tail(Work)[k - 1] = Work[k]
          /\ Upto(Work, k) # <<>> /\ Head(Upto(Work, k)) = Head(Work)
          /\ Upto(Tail(Work), k - 1) = Tail(Upto(Work, k))
          /\ Beyond(Tail(Work), k - 1) = Beyond(Work, k)
      BY <1>1, <2>2, Parts
    <3>2. /\ Head(Upto(Work, k)) \in Events
          /\ Hidden(proc, mishaps,
                    IF Head(Upto(Work, k)) \in {"evStopped", "evRunning"}
                    THEN Head(Upto(Work, k)) = "evStopped" ELSE stoppedEarly,
                    Tail(Upto(Work, k)), Beyond(Work, k))
      BY <1>1, <1>3, <3>1, HiddenCore
    <3> QED BY <1>1, <1>3, <3>1, <3>2
  <2> QED BY <2>1, <2>2
<1>4. CASE proc = "none" /\ One(mainQ, Quiet, "launchErr", Quiet) /\ All(Work, Events)
  BY <1>1, <1>4, WorkTaken DEF LaunchUnfinished
<1>5. CASE proc = "none" /\ All(mainQ, Quiet) /\ One(Work, Events, "doneErr", Noise)
  BY <1>1, <1>5, WorkTaken DEF LaunchUnfinished
<1> QED BY <1>1, <1>2, <1>3, <1>4, <1>5 DEF LaunchUnfinished

(* A closure the target takes no notice of, an error answered or none. *)
LEMMA NoiseKeepsPhase ==
  ASSUME TypeOK, ~isLaunching, Phase, NEW msg \in Noise, CoreTakes(msg), Work' = Tail(Work),
         UNCHANGED <<mainVars, coreVars, proc>>,
         \/ msg = "stop" /\ Reply(<<"err">>)
         \/ msg # "stop" /\ UNCHANGED mainQ
  PROVE  Phase'
<1>. USE DEF mainVars, coreVars, HasThreads
<1>1. /\ All(mainQ, Quiet) => All(mainQ', Quiet)
      /\ All(mainQ, Lists) => All(mainQ', Lists)
      /\ \A m : One(mainQ, Quiet, m, Quiet) => One(mainQ', Quiet, m, Quiet)
      /\ \A m : One(mainQ, Lists, m, Quiet) => One(mainQ', Lists, m, Quiet)
      /\ UNCHANGED <<state, threads, isLaunching, stoppedEarly, proc, mishaps>>
  <2>1. CASE Reply(<<"err">>)
    BY <2>1, ReplyAdds, Kinds DEF Results, CoreTakes
  <2>2. CASE UNCHANGED mainQ
    BY <2>2 DEF CoreTakes
  <2> QED BY <2>1, <2>2
<1>2. /\ All(Work, Noise) => All(Work', Noise)
      /\ All(Work, Reads) => All(Work', Reads)
      /\ \A S, T : \A m \in {"close", "run", "step", "terminate", "detach", "launch", "attach",
                            "evExited", "evStopped"} :
                    One(Work, S, m, T) => One(Work', S, m, T)
  BY WorkTaken, Kinds DEF CoreTakes
<1>3. ASSUME NEW m \in Seq(Results), Reported(proc, mishaps, m, Work)
      PROVE  /\ msg = "stop" => Reported(proc', mishaps', Append(m, "err"), Work')
             /\ msg # "stop" => Reported(proc', mishaps', m, Work')
  <2>1. /\ Work \in Seq(Closures) /\ Work # <<>> /\ Head(Work) = msg /\ "evStopped" \in Closures
        /\ msg \in {"evRunning", "evRestarted", "stop"}
    BY CoreTaken, Kinds DEF Closures, Events
  <2>2. \/ msg \in Echo /\ Reported(proc, mishaps, m, Tail(Work))
        \/ msg = "stop" /\ Reported(proc, mishaps, Append(m, "err"), Tail(Work))
    BY <1>3, <2>1, ReportedCore
  <2> QED BY <1>1, <2>1, <2>2, Kinds
<1>4. ASSUME WithoutProcess PROVE WithoutProcess'
  BY <1>1, <1>2, <1>4 DEF WithoutProcess
<1>5. ASSUME Unloading PROVE Unloading'
  BY <1>1, <1>2, <1>5 DEF Unloading
<1>6. ASSUME Stopped PROVE Stopped'
  BY <1>1, <1>2, <1>6 DEF Stopped
<1>7. ASSUME Resuming PROVE Resuming'
  BY <1>1, <1>2, <1>7 DEF Resuming
<1>8. ASSUME Running PROVE Running'
  <2>1. Reported(proc', mishaps', mainQ', Work')
    BY <1>3, <1>8, Replied DEF Running, TypeOK, Results
  <2> QED BY <1>1, <1>8, <2>1 DEF Running
<1>9. ASSUME Ending PROVE Ending'
  BY <1>1, <1>2, <1>9 DEF Ending
<1>10. ASSUME Starting PROVE Starting'
  <2>1. CASE \/ proc = "none"
                /\ \/ All(mainQ, Quiet) /\ \E cmd \in {"launch", "attach"} : One(Work, Noise, cmd, Echo)
                   \/ /\ All(Work, Noise)
                      /\ \E m \in {"attachErr", "finishErr"} : One(mainQ, Quiet, m, Quiet)
             \/ proc = "stopped"
                /\ \/ All(mainQ, Quiet) /\ One(Work, Noise, "evStopped", Noise)
                   \/ /\ All(Work, Noise)
                      /\ \E m \in {"stopped", "finishStopped"} : One(mainQ, Quiet, m, Quiet)
    BY <1>1, <1>2, <1>10, <2>1 DEF Starting
  <2>2. ASSUME NEW k \in 1 .. Len(mainQ), mainQ[k] = "finishRunning", All(Upto(mainQ, k), Quiet),
               Reported(proc, mishaps, Beyond(mainQ, k), Work)
        PROVE  Starting'
    <3>1. /\ k \in 1 .. Len(mainQ') /\ mainQ'[k] = "finishRunning" /\ All(Upto(mainQ', k), Quiet)
          /\ Beyond(mainQ, k) \in Seq(Results)
          /\ msg = "stop" => Beyond(mainQ', k) = Append(Beyond(mainQ, k), "err")
          /\ msg # "stop" => Beyond(mainQ', k) = Beyond(mainQ, k)
      BY <2>2, ReplyAdds, Parts DEF Results, TypeOK
    <3>2. Reported(proc', mishaps', Beyond(mainQ', k), Work')
      BY <1>3, <2>2, <3>1
    <3> QED BY <1>1, <1>10, <3>1, <3>2 DEF Starting
  <2> QED BY <1>10, <2>1, <2>2 DEF Starting
<1> QED BY <1>1, <1>4, <1>5, <1>6, <1>7, <1>8, <1>9, <1>10 DEF Phase

-----------------------------------------------------------------------------
(* A launch, finished at once, failed or left to a completion, keeps the invariant. *)
LEMMA CoreLaunchPhase ==
  ASSUME IInv, CoreLaunch
  PROVE  Phase'
<1>. USE DEF IInv, mainVars
<1>1. /\ CoreTakes("launch") /\ "launch" \notin Noise /\ "launch" \notin Events
      /\ "launch" \notin {"doneOk", "doneErr"}
  BY Kinds DEF CoreLaunch, Events
<1>2. ~isLaunching
  BY <1>1, ServedHidden DEF CoreTakes
<1>3. state = "launching" /\ proc = "none" /\ All(mainQ, Quiet) /\ All(Tail(Work), Echo)
  BY <1>1, <1>2, Served DEF Stopped, Running, CoreTakes
<1>4. /\ stoppedEarly' = FALSE /\ isLaunching' = TRUE /\ state' = "launching"
      /\ Tail(Work) \in Seq(Closures) /\ mishaps' = mishaps
      /\ "evStopped" \in Events /\ "evRunning" \in Events /\ "evExited" \in Events
      /\ "evStopped" \in Closures /\ "evRunning" \in Closures /\ "evExited" \in Closures
  BY <1>1, <1>2, <1>3, CoreTaken DEF CoreLaunch, Phase, Closures, CoreTakes, Events
<1>5. All(Tail(Work), Events)
  BY <1>3, Kinds DEF All, Events
<1>6. ASSUME Reply(<<"launchErr">>), proc' = "none", Emit(<<>>) \/ Emit(<<"evExited">>)
      PROVE  Phase'
  <2>1. One(mainQ', Quiet, "launchErr", Quiet)
    BY <1>3, <1>6, ReplyAdds DEF Results
  <2>2. Work' = Tail(Work) \/ Work' = Append(Tail(Work), "evExited")
    BY <1>1, <1>6, CoreTaken DEF Events
  <2>3. All(Append(Tail(Work), "evExited"), Events)
    BY <1>4, <1>5, Added
  <2> QED BY <1>4, <1>5, <1>6, <2>1, <2>2, <2>3 DEF Phase, LaunchUnfinished
<1>7. ASSUME Reply(<<"launchOk">>), proc' = "running",
             Emit(<<"evRunning">>) \/ Emit(<<"evStopped", "evRunning">>)
      PROVE  Phase'
  <2>1. One(mainQ', Quiet, "launchOk", Quiet)
    BY <1>3, <1>7, ReplyAdds DEF Results
  <2>2. \E q \in Seq(Closures) : All(q, Events) /\ Work' = Append(q, "evRunning")
    <3>1. CASE Emit(<<"evRunning">>)
      <4>1. Work' = Append(Tail(Work), "evRunning")
        BY <1>1, <3>1, CoreTaken DEF Events
      <4> QED BY <1>4, <1>5, <4>1
    <3>2. CASE Emit(<<"evStopped", "evRunning">>)
      <4>1. Work' = Append(Append(Tail(Work), "evStopped"), "evRunning")
        BY <1>1, <3>2, CoreTaken DEF Events
      <4>2. All(Append(Tail(Work), "evStopped"), Events)
        BY <1>4, <1>5, Added
      <4>3. Append(Tail(Work), "evStopped") \in Seq(Closures)
        BY <1>4
      <4> QED BY <4>1, <4>2, <4>3
    <3> QED BY <1>7, <3>1, <3>2
  <2>3. All(Work', Events) /\ One(Work', Events, "evRunning", Mute)
    BY <1>4, <2>2, Added
  <2>4. Hidden("running", mishaps, FALSE, Work', <<>>)
    BY <2>3, EmptyQueue DEF Hidden, Ends, Reported
  <2> QED BY <1>4, <1>7, <2>1, <2>4 DEF Phase, LaunchUnfinished
<1> QED BY <1>6, <1>7 DEF CoreLaunch

(* An attach, granted or refused, keeps the invariant. *)
LEMMA CoreAttachPhase ==
  ASSUME IInv, CoreAttach
  PROVE  Phase'
<1>. USE DEF IInv, mainVars, coreVars
<1>1. /\ CoreTakes("attach") /\ "attach" \notin Noise /\ "attach" \notin Events
  BY Kinds DEF CoreAttach, Events
<1>2. ~isLaunching
  BY <1>1, ServedHidden DEF CoreTakes
<1>3. state = "launching" /\ proc = "none" /\ All(mainQ, Quiet) /\ All(Tail(Work), Noise)
  BY <1>1, <1>2, Served, Widen DEF Stopped, Running, CoreTakes
<1>4. /\ stoppedEarly' = FALSE /\ ~isLaunching' /\ state' = "launching" /\ Work' = Tail(Work)
  BY <1>1, <1>2, <1>3, CoreTaken DEF CoreAttach, Phase
<1>5. CASE proc' = "stopped" /\ Reply(<<"stopped", "attachOk">>)
  <2>1. mainQ \in Seq(Results) /\ mainQ' = Append(Append(mainQ, "stopped"), "attachOk")
    <3>1. mainQ \in Seq(Results) /\ mainQ' = mainQ \o <<"stopped", "attachOk">>
      BY <1>5 DEF TypeOK, Reply
    <3>2. <<>> \o (mainQ \o <<"stopped", "attachOk">>) = Append(Append(<<>> \o mainQ, "stopped"), "attachOk")
      BY <3>1, ChainedTwo DEF Results
    <3> QED BY <3>1, <3>2
  <2>2. One(Append(mainQ, "stopped"), Quiet, "stopped", Quiet) /\ Append(mainQ, "stopped") \in Seq(Results)
    BY <1>3, <2>1, Added DEF Results
  <2>3. One(mainQ', Quiet, "stopped", Quiet)
    <3>1. "attachOk" \in Results /\ "attachOk" \in Quiet
      BY Kinds DEF Results
    <3> QED BY <2>1, <2>2, <3>1, Added
  <2> QED BY <1>3, <1>4, <1>5, <2>3 DEF Phase, Starting
<1>6. CASE proc' = "none" /\ Reply(<<"attachErr">>)
  <2>1. One(mainQ', Quiet, "attachErr", Quiet)
    BY <1>3, <1>6, ReplyAdds DEF Results
  <2> QED BY <1>3, <1>4, <1>6, <2>1 DEF Phase, Starting
<1> QED BY <1>5, <1>6 DEF CoreAttach

(* So does a resume or a step, a step LLDB ignores among them. *)
LEMMA CoreResumePhase ==
  ASSUME IInv, CoreRun \/ CoreStep
  PROVE  Phase'
<1>. USE DEF IInv, mainVars, coreVars
<1>1. PICK cmd \in {"run", "step"} : CoreTakes(cmd) /\ cmd \notin Noise /\ cmd \notin Events
  BY Kinds DEF CoreRun, CoreStep, Events
<1>2. ~isLaunching
  BY <1>1, ServedHidden DEF CoreTakes
<1>3. /\ state = "running" /\ proc = "stopped" /\ HasThreads /\ All(mainQ, Lists)
      /\ All(Tail(Work), Noise) /\ Tail(Work) \in Seq(Closures)
  BY <1>1, <1>2, Served, CoreTaken DEF Stopped, Running, CoreTakes
<1>4. /\ stoppedEarly' = FALSE /\ ~isLaunching' /\ state' = "running" /\ threads' = threads
      /\ mishaps' = mishaps
  BY <1>1, <1>2, <1>3 DEF CoreRun, CoreStep, Phase, CoreTakes
<1>5. \/ proc' = "running" /\ Emit(<<"evRunning">>) /\ Reply(<<"ok">>)
      \/ UNCHANGED <<proc, lldbQ>> /\ Reply(<<"resumeErr">>)
      \/ "stepIgnored" \in mishaps /\ UNCHANGED <<proc, lldbQ>> /\ Reply(<<"ok">>)
  BY DEF CoreRun, CoreStep, CoreResume
<1>6. CASE proc' = "running" /\ Emit(<<"evRunning">>) /\ Reply(<<"ok">>)
  <2>1. Work' = Append(Tail(Work), "evRunning") /\ "evRunning" \in Closures
    BY <1>1, <1>6, CoreTaken DEF Events, Closures
  <2>2. All(Work', Noise) /\ All(mainQ', Lists)
    BY <1>3, <1>6, <2>1, Added, ReplyAdds, Kinds DEF Results
  <2> QED BY <1>4, <1>6, <2>2 DEF Phase, Running, Reported
<1>7. CASE UNCHANGED <<proc, lldbQ>> /\ Reply(<<"resumeErr">>)
  <2>1. Work' = Tail(Work) /\ One(mainQ', Lists, "resumeErr", Quiet)
    BY <1>1, <1>3, <1>7, CoreTaken, ReplyAdds DEF Results
  <2> QED BY <1>3, <1>4, <1>7, <2>1 DEF Phase, Resuming, HasThreads
<1>8. CASE "stepIgnored" \in mishaps /\ UNCHANGED <<proc, lldbQ>> /\ Reply(<<"ok">>)
  <2>1. Work' = Tail(Work) /\ All(mainQ', Lists)
    BY <1>1, <1>3, <1>8, CoreTaken, ReplyAdds, Kinds DEF Results
  <2> QED BY <1>3, <1>4, <1>8, <2>1 DEF Phase, Running, Reported
<1> QED BY <1>5, <1>6, <1>7, <1>8

(* So does a stop, in time or too late. *)
LEMMA CoreStopPhase ==
  ASSUME IInv, CoreStop
  PROVE  Phase'
<1>. USE DEF IInv, mainVars, coreVars
<1>1. CoreTakes("stop") /\ "stop" \in Noise /\ "stop" \notin Events
  BY Kinds DEF CoreStop, Events
<1>2. ~isLaunching
  BY <1>1, ServedHidden DEF CoreTakes
<1>3. CASE UNCHANGED <<proc, lldbQ>> /\ Reply(<<"err">>)
  <2>1. Work' = Tail(Work)
    BY <1>1, <1>3, CoreTaken
  <2> QED BY <1>1, <1>2, <1>3, <2>1, NoiseKeepsPhase DEF CoreStop
<1>4. CASE proc = "running" /\ proc' = "stopped" /\ Emit(<<"evStopped">>) /\ Reply(<<"ok">>)
  <2>1. /\ Work' = Append(Tail(Work), "evStopped") /\ "evStopped" \in Closures
        /\ Work \in Seq(Closures) /\ Work # <<>> /\ Head(Work) = "stop"
    BY <1>1, <1>4, CoreTaken DEF Events, Closures
  <2>2. ASSUME NEW m \in Seq(Results), Reported(proc, mishaps, m, Work)
        PROVE  Reported(proc', mishaps', Append(m, "ok"), Work')
    BY <1>1, <1>4, <2>1, <2>2, ReportedCore, Kinds DEF CoreTakes
  <2>3. stoppedEarly' = FALSE /\ ~isLaunching' /\ UNCHANGED state
    BY <1>2 DEF CoreStop, Phase
  <2>4. CASE Running
    BY <1>4, <2>2, <2>3, <2>4, Replied DEF Running, Phase, TypeOK, Results
  <2>5. ASSUME state = "launching", NEW k \in 1 .. Len(mainQ), mainQ[k] = "finishRunning",
               All(Upto(mainQ, k), Quiet), Reported(proc, mishaps, Beyond(mainQ, k), Work)
        PROVE  Phase'
    <3>1. /\ k \in 1 .. Len(mainQ') /\ mainQ'[k] = "finishRunning" /\ All(Upto(mainQ', k), Quiet)
          /\ Beyond(mainQ, k) \in Seq(Results) /\ Beyond(mainQ', k) = Append(Beyond(mainQ, k), "ok")
      BY <1>4, <2>5, ReplyAdds DEF Results
    <3>2. Reported(proc', mishaps', Beyond(mainQ', k), Work')
      BY <2>2, <2>5, <3>1
    <3> QED BY <2>3, <2>5, <3>1, <3>2 DEF Phase, Starting
  <2>6. \/ Running
        \/ state = "launching" /\ \E k \in 1 .. Len(mainQ) :
             /\ mainQ[k] = "finishRunning" /\ All(Upto(mainQ, k), Quiet)
             /\ Reported(proc, mishaps, Beyond(mainQ, k), Work)
    BY <1>2, <1>4 DEF Phase, WithoutProcess, Unloading, Stopped, Resuming, Ending, Starting
  <2> QED BY <2>4, <2>5, <2>6
<1> QED BY <1>3, <1>4 DEF CoreStop

(* So does a terminate or a detach. *)
LEMMA CoreEndPhase ==
  ASSUME IInv, NEW cmd \in {"terminate", "detach"}, CoreEnd(cmd)
  PROVE  Phase'
<1>. USE DEF IInv, mainVars, coreVars
<1>1. CoreTakes(cmd) /\ cmd \notin Noise /\ cmd \notin Events
  BY Kinds DEF CoreEnd, Events
<1>2. ~isLaunching
  BY <1>1, ServedHidden DEF CoreTakes
<1>3. /\ state \in {"terminating", "detaching"} /\ proc = "stopped" /\ All(mainQ, Lists)
      /\ All(Tail(Work), Noise) /\ Tail(Work) \in Seq(Closures)
  BY <1>1, <1>2, Served, CoreTaken DEF Stopped, Running, CoreTakes
<1>4. stoppedEarly' = FALSE /\ ~isLaunching' /\ UNCHANGED <<state, mishaps>>
  BY <1>1, <1>2 DEF CoreEnd, Phase, CoreTakes
<1>5. CASE proc' = "none" /\ Emit(<<"evExited">>) /\ Reply(<<"ok">>)
  <2>1. Work' = Append(Tail(Work), "evExited") /\ "evExited" \in Closures
    BY <1>1, <1>5, CoreTaken DEF Events, Closures
  <2>2. One(Work', Noise, "evExited", Noise) /\ All(mainQ', Lists)
    BY <1>3, <1>5, <2>1, Added, ReplyAdds, Kinds DEF Results
  <2> QED BY <1>3, <1>4, <1>5, <2>2 DEF Phase, Ending
<1>6. CASE "commandFails" \in mishaps /\ UNCHANGED <<proc, lldbQ>> /\ Reply(<<"err">>)
  <2>1. Work' = Tail(Work) /\ All(mainQ', Lists)
    BY <1>1, <1>3, <1>6, CoreTaken, ReplyAdds, Kinds DEF Results
  <2> QED BY <1>3, <1>4, <1>6, <2>1 DEF Phase, Ending
<1> QED BY <1>5, <1>6 DEF CoreEnd

(* So does the unloading. *)
LEMMA CoreClosePhase ==
  ASSUME IInv, CoreClose
  PROVE  Phase'
<1>. USE DEF IInv, mainVars, coreVars
<1>1. CoreTakes("close") /\ "close" \notin Noise /\ "close" \notin Events
  BY Kinds DEF CoreClose, Events
<1>2. ~isLaunching
  BY <1>1, ServedHidden DEF CoreTakes
<1>3. state = "unloading" /\ proc = "none" /\ All(mainQ, Quiet) /\ All(Tail(Work), Noise)
  BY <1>1, <1>2, Served DEF Stopped, Running, CoreTakes
<1>4. /\ stoppedEarly' = FALSE /\ ~isLaunching' /\ UNCHANGED <<state, proc>> /\ Work' = Tail(Work)
  BY <1>1, <1>2, CoreTaken DEF CoreClose, Phase
<1>5. One(mainQ', Quiet, "closed", Quiet)
  BY <1>3, ReplyAdds DEF CoreClose, Results
<1> QED BY <1>3, <1>4, <1>5 DEF Phase, Unloading

(* A stop or an exit is passed on, where the process was taken to run. *)
LEMMA PassedOnPhase ==
  ASSUME IInv, ~isLaunching, NEW ev \in {"evStopped", "evExited", "collect"}, CoreTakes(ev),
         UNCHANGED <<mainVars, lldbQ, coreVars, proc>>,
         Reply(<<IF ev = "evExited" THEN "exited" ELSE "stopped">>)
  PROVE  Phase'
<1>. USE DEF IInv, mainVars, coreVars
<1> DEFINE msg == IF ev = "evExited" THEN "exited" ELSE "stopped"
<1>1. ev \notin Noise /\ Work' = Tail(Work) /\ Work \in Seq(Closures) /\ Work # <<>> /\ Head(Work) = ev
  BY CoreTaken, Kinds
<1>2. /\ stoppedEarly' = FALSE /\ ~isLaunching' /\ UNCHANGED <<state, threads, proc, mishaps>>
      /\ msg \in Results
  BY DEF Phase, CoreTakes, Results
<1>3. ASSUME NEW m \in Seq(Results), Reported(proc, mishaps, m, Work)
      PROVE  Reported(proc', mishaps', Append(m, msg), Work')
  <2>1. "evStopped" \in Closures
    BY DEF Closures, Events
  <2> QED BY <1>1, <1>2, <1>3, <2>1, ReportedCore, Kinds
<1>4. /\ \A S, T : All(mainQ, S) => One(mainQ', S, msg, T)
      /\ mainQ \in Seq(Results) /\ mainQ' = Append(mainQ, msg)
  BY <1>2, ReplyAdds, Replied
<1>5. CASE Running
  BY <1>2, <1>3, <1>4, <1>5 DEF Running, Phase
<1>6. CASE /\ state \in {"terminating", "detaching"} /\ proc = "none" /\ All(mainQ, Lists)
           /\ ev = "evExited" /\ All(Tail(Work), Noise)
  BY <1>1, <1>2, <1>4, <1>6 DEF Ending, Phase
<1>7. CASE /\ state = "launching" /\ proc = "stopped" /\ All(mainQ, Quiet)
           /\ ev = "evStopped" /\ All(Tail(Work), Noise)
  BY <1>1, <1>2, <1>4, <1>7 DEF Starting, Phase
<1>8. ASSUME state = "launching", NEW k \in 1 .. Len(mainQ), mainQ[k] = "finishRunning",
             All(Upto(mainQ, k), Quiet), Reported(proc, mishaps, Beyond(mainQ, k), Work)
      PROVE  Phase'
  <2>1. /\ k \in 1 .. Len(mainQ') /\ mainQ'[k] = "finishRunning" /\ All(Upto(mainQ', k), Quiet)
        /\ Beyond(mainQ, k) \in Seq(Results) /\ Beyond(mainQ', k) = Append(Beyond(mainQ, k), msg)
    BY <1>2, <1>8, ReplyAdds
  <2>2. Reported(proc', mishaps', Beyond(mainQ', k), Work')
    BY <1>3, <1>8, <2>1
  <2> QED BY <1>2, <1>8, <2>1, <2>2 DEF Phase, Starting
<1>9. \/ Running
      \/ /\ state \in {"terminating", "detaching"} /\ proc = "none" /\ All(mainQ, Lists)
         /\ ev = "evExited" /\ All(Tail(Work), Noise)
      \/ /\ state = "launching" /\ proc = "stopped" /\ All(mainQ, Quiet)
         /\ ev = "evStopped" /\ All(Tail(Work), Noise)
      \/ state = "launching" /\ \E k \in 1 .. Len(mainQ) :
           /\ mainQ[k] = "finishRunning" /\ All(Upto(mainQ, k), Quiet)
           /\ Reported(proc, mishaps, Beyond(mainQ, k), Work)
  BY <1>1, Served DEF CoreTakes
<1> QED BY <1>5, <1>6, <1>7, <1>8, <1>9

(* So do the requests for frames. *)
LEMMA CoreReadPhase ==
  ASSUME IInv, CoreRead
  PROVE  Phase'
<1>. USE DEF IInv, mainVars, coreVars
<1>1. PICK cmd \in {"selectFrame", "fetchFrames", "collect"} : CoreTakes(cmd)
  BY DEF CoreRead
<1>2. cmd \notin Noise /\ cmd \notin Events /\ ~isLaunching
  BY <1>1, Kinds, ServedHidden DEF Events, CoreTakes
<1>3. CASE cmd = "collect"
  <2>1. Reply(<<"stopped">>)
    BY <1>1, <1>3 DEF CoreRead, CoreTakes
  <2> QED BY <1>1, <1>2, <1>3, <2>1, PassedOnPhase DEF CoreRead
<1>4. CASE cmd \in {"selectFrame", "fetchFrames"}
  <2>1. Reply(<<"frameLists">>) \/ Reply(<<"frames">>)
    BY <1>1, <1>4 DEF CoreRead, CoreTakes
  <2>2. All(mainQ, Lists) => All(mainQ', Lists)
    BY <2>1, ReplyAdds, Kinds DEF Results
  <2>3. /\ stoppedEarly' = FALSE /\ ~isLaunching' /\ UNCHANGED <<state, threads, proc, mishaps>>
        /\ Work' = Tail(Work)
    BY <1>1, <1>2, CoreTaken DEF CoreRead, Phase, CoreTakes
  <2>4. \/ Stopped /\ All(Tail(Work), Reads)
        \/ /\ state = "running" /\ proc = "stopped" /\ HasThreads /\ All(mainQ, Lists)
           /\ \E c \in {"run", "step"} : One(Tail(Work), Reads, c, Noise)
        \/ /\ state \in {"terminating", "detaching"} /\ proc = "stopped" /\ All(mainQ, Lists)
           /\ \E c \in {"terminate", "detach"} : One(Tail(Work), Reads, c, Noise)
    BY <1>1, <1>2, <1>4, Served DEF CoreTakes
  <2> QED BY <2>2, <2>3, <2>4 DEF Phase, Stopped, Resuming, Ending, HasThreads
<1> QED BY <1>1, <1>3, <1>4

(* So does an event of the process, hidden while a launch is unfinished. *)
LEMMA CoreEventPhase ==
  ASSUME IInv, CoreEvent
  PROVE  Phase'
<1>. USE DEF IInv, mainVars, coreVars
<1>1. PICK ev \in Events :
         /\ CoreTakes(ev)
         /\ Reply(IF isLaunching THEN <<>>
                  ELSE CASE ev = "evStopped" -> <<"stopped">>
                         [] ev = "evExited" -> <<"exited">>
                         [] OTHER -> <<>>)
         /\ stoppedEarly' = IF isLaunching /\ ev \in {"evStopped", "evRunning"}
                            THEN ev = "evStopped" ELSE stoppedEarly
  BY DEF CoreEvent
<1>2. UNCHANGED <<mainVars, lldbQ, isLaunching, proc, mishaps>> /\ Work' = Tail(Work)
  BY <1>1, CoreTaken DEF CoreEvent, CoreTakes
<1>3. Reply(<<>>) => UNCHANGED mainQ
  BY ChainedNone DEF Reply, TypeOK
<1>4. CASE isLaunching
  <2>1. /\ UNCHANGED mainQ /\ ev \notin {"doneOk", "doneErr"}
        /\ stoppedEarly' = IF ev \in {"evStopped", "evRunning"} THEN ev = "evStopped" ELSE stoppedEarly
    BY <1>1, <1>3, <1>4 DEF Events
  <2>2. /\ state = "launching"
        /\ \/ /\ One(mainQ, Quiet, "launchOk", Quiet)
              /\ Hidden(proc, mishaps, stoppedEarly', Tail(Work), <<>>)
           \/ /\ All(mainQ, Quiet)
              /\ \E k \in 1 .. Len(Tail(Work)) :
                   /\ Tail(Work)[k] = "doneOk"
                   /\ Hidden(proc, mishaps, stoppedEarly', Upto(Tail(Work), k), Beyond(Tail(Work), k))
           \/ /\ proc = "none"
              /\ \/ One(mainQ, Quiet, "launchErr", Quiet) /\ All(Tail(Work), Events)
                 \/ All(mainQ, Quiet) /\ One(Tail(Work), Events, "doneErr", Noise)
    BY <1>1, <1>4, <2>1, ServedHidden DEF CoreTakes
  <2>3. LaunchUnfinished'
    BY <1>2, <2>1, <2>2 DEF LaunchUnfinished
  <2> QED BY <1>2, <1>4, <2>3 DEF Phase
<1>5. CASE ~isLaunching /\ ev \in {"evStopped", "evExited"}
  BY <1>1, <1>2, <1>5, PassedOnPhase
<1>6. CASE ~isLaunching /\ ev \in {"evRunning", "evRestarted"}
  BY <1>1, <1>2, <1>3, <1>6, NoiseKeepsPhase, Kinds
<1> QED BY <1>4, <1>5, <1>6 DEF Events

(* So does the completion of a launch. *)
LEMMA CoreLaunchDonePhase ==
  ASSUME IInv, CoreLaunchDone
  PROVE  Phase'
<1>. USE DEF IInv, mainVars, coreVars
<1>1. PICK msg \in {"doneOk", "doneErr"} : CoreTakes(msg)
  BY DEF CoreLaunchDone
<1>2. msg \notin Noise /\ msg \notin Events
  BY Kinds DEF Events
<1>3. isLaunching
  <2>1. CASE ~isLaunching
    BY <1>1, <1>2, <2>1, Served DEF CoreTakes
  <2> QED BY <2>1
<1>4. /\ state = "launching" /\ All(mainQ, Quiet)
      /\ msg = "doneErr" => proc = "none" /\ All(Tail(Work), Noise)
      /\ msg = "doneOk" => IF stoppedEarly THEN proc = "stopped" /\ All(Tail(Work), Noise)
                                           ELSE Reported(proc, mishaps, <<>>, Tail(Work))
  BY <1>1, <1>2, <1>3, ServedHidden DEF CoreTakes
<1>5. /\ isLaunching' = FALSE /\ stoppedEarly' = FALSE /\ UNCHANGED <<state, proc, mishaps>>
      /\ Work' = Tail(Work)
      /\ msg = "doneErr" => Reply(<<"finishErr">>)
      /\ msg = "doneOk" => Reply(<<IF stoppedEarly THEN "finishStopped" ELSE "finishRunning">>)
  BY <1>1, CoreTaken DEF CoreLaunchDone, CoreTakes
<1>6. CASE msg = "doneErr"
  <2>1. One(mainQ', Quiet, "finishErr", Quiet)
    BY <1>4, <1>5, <1>6, ReplyAdds DEF Results
  <2> QED BY <1>4, <1>5, <1>6, <2>1 DEF Phase, Starting
<1>7. CASE msg = "doneOk" /\ stoppedEarly
  <2>1. One(mainQ', Quiet, "finishStopped", Quiet)
    BY <1>4, <1>5, <1>7, ReplyAdds DEF Results
  <2> QED BY <1>4, <1>5, <1>7, <2>1 DEF Phase, Starting
<1>8. CASE msg = "doneOk" /\ ~stoppedEarly
  <2>1. mainQ \in Seq(Results) /\ mainQ' = Append(mainQ, "finishRunning") /\ "finishRunning" \in Results
    BY <1>5, <1>8, Replied DEF Results
  <2>2. /\ Len(mainQ) + 1 \in 1 .. Len(mainQ') /\ mainQ'[Len(mainQ) + 1] = "finishRunning"
        /\ Upto(mainQ', Len(mainQ) + 1) = mainQ /\ Beyond(mainQ', Len(mainQ) + 1) = <<>>
    BY <2>1, PartsNew
  <2> QED BY <1>4, <1>5, <1>8, <2>2 DEF Phase, Starting
<1> QED BY <1>6, <1>7, <1>8

(* Forwarding an event of LLDB's keeps the two queues read as one. *)
LEMMA EventThreadPhase ==
  ASSUME IInv, EventThread
  PROVE  Phase'
<1>. USE DEF IInv, mainVars, coreVars
<1>1. Work' = Work
  <2>1. coreQ \in Seq(Closures) /\ lldbQ \in Seq(Closures) /\ lldbQ # <<>>
    BY DEF EventThread, TypeOK, Closures
  <2>2. Append(coreQ, Head(lldbQ)) \o Tail(lldbQ) = coreQ \o lldbQ
    BY <2>1, Forwarded
  <2> QED BY <2>2 DEF EventThread, Work
<1>2. UNCHANGED <<state, threads, mainQ, isLaunching, stoppedEarly, proc, mishaps>>
  BY DEF EventThread
<1> QED BY <1>1, <1>2 DEF Phase, LaunchUnfinished, WithoutProcess, Unloading, Stopped, Resuming,
                           Running, Ending, Starting, HasThreads

-----------------------------------------------------------------------------
(* The main thread takes the first result. *)
LEMMA MainTaken ==
  ASSUME TypeOK, NEW msg, MainTakes(msg)
  PROVE  /\ mainQ \in Seq(Results) /\ mainQ # <<>> /\ Head(mainQ) = msg /\ mainQ' = Tail(mainQ)
         /\ mishaps' = mishaps
         /\ \A S : All(mainQ, S) => msg \in S /\ All(mainQ', S)
         /\ \A S, m, T : One(mainQ, S, m, T) =>
              \/ msg = m /\ All(mainQ', T)
              \/ msg \in S /\ One(mainQ', S, m, T)
<1>1. mainQ \in Seq(Results) /\ mainQ # <<>> /\ Head(mainQ) = msg /\ mainQ' = Tail(mainQ) /\ mishaps' = mishaps
  BY DEF TypeOK, MainTakes
<1> QED BY <1>1, Taken

(* A result that changes nothing, or only the lists. *)
LEMMA ListsKeepPhase ==
  ASSUME TypeOK, Phase, NEW msg \in Lists, MainTakes(msg),
         UNCHANGED <<state, threads, coreQ, lldbQ, coreVars, proc>>
  PROVE  /\ Phase'
         /\ state \in {"loaded", "launching", "unloading", "invalid"} => msg \in Quiet
<1>. USE DEF coreVars
<1>1. UNCHANGED <<state, threads, isLaunching, stoppedEarly, proc, mishaps>> /\ Work' = Work
  BY DEF MainTakes, Work
<1>2. /\ All(mainQ, Quiet) => msg \in Quiet /\ All(mainQ', Quiet)
      /\ All(mainQ, Lists) => All(mainQ', Lists)
      /\ \A m \in {"closed", "attachErr", "finishErr", "stopped", "finishStopped", "launchOk",
                   "launchErr"} :
           One(mainQ, Quiet, m, Quiet) => msg \in Quiet /\ One(mainQ', Quiet, m, Quiet)
      /\ \A m \in {"resumeErr", "exited", "stopped"} :
           One(mainQ, Lists, m, Quiet) => One(mainQ', Lists, m, Quiet)
  BY MainTaken, Kinds
<1>3. ASSUME WithoutProcess PROVE WithoutProcess' /\ msg \in Quiet
  BY <1>1, <1>2, <1>3 DEF WithoutProcess
<1>4. ASSUME Unloading PROVE Unloading' /\ msg \in Quiet
  BY <1>1, <1>2, <1>4 DEF Unloading
<1>5. ASSUME Stopped PROVE Stopped' /\ state = "stopped"
  BY <1>1, <1>2, <1>5 DEF Stopped, HasThreads
<1>6. ASSUME Resuming PROVE Resuming' /\ state = "running"
  BY <1>1, <1>2, <1>6 DEF Resuming, HasThreads
<1>7. ASSUME Running PROVE Running' /\ state = "running"
  <2>1. Reported(proc, mishaps, mainQ', Work)
    <3>1. mainQ \in Seq(Results) /\ mainQ # <<>> /\ Head(mainQ) = msg /\ mainQ' = Tail(mainQ)
      BY MainTaken
    <3>2. msg # "stopped" /\ msg # "exited"
      BY Kinds
    <3> QED BY <1>7, <3>1, <3>2, ReportedMain DEF Running
  <2> QED BY <1>1, <1>7, <2>1 DEF Running
<1>8. ASSUME Ending PROVE Ending' /\ state \in {"terminating", "detaching"}
  BY <1>1, <1>2, <1>8 DEF Ending
<1>9. ASSUME Starting PROVE Starting' /\ msg \in Quiet
  <2>1. CASE \/ proc = "none"
                /\ \/ All(mainQ, Quiet) /\ \E cmd \in {"launch", "attach"} : One(Work, Noise, cmd, Echo)
                   \/ /\ All(Work, Noise)
                      /\ \E m \in {"attachErr", "finishErr"} : One(mainQ, Quiet, m, Quiet)
             \/ proc = "stopped"
                /\ \/ All(mainQ, Quiet) /\ One(Work, Noise, "evStopped", Noise)
                   \/ /\ All(Work, Noise)
                      /\ \E m \in {"stopped", "finishStopped"} : One(mainQ, Quiet, m, Quiet)
    BY <1>1, <1>2, <1>9, <2>1 DEF Starting
  <2>2. ASSUME NEW k \in 1 .. Len(mainQ), mainQ[k] = "finishRunning", All(Upto(mainQ, k), Quiet),
               Reported(proc, mishaps, Beyond(mainQ, k), Work)
        PROVE  Starting' /\ msg \in Quiet
    <3>0. mainQ \in Seq(Results) /\ mainQ # <<>> /\ Head(mainQ) = msg /\ mainQ' = Tail(mainQ)
      BY MainTaken
    <3>1. k # 1
      BY <2>2, <3>0, Parts, Kinds
    <3>2. /\ k - 1 \in 1 .. Len(mainQ') /\ mainQ'[k - 1] = "finishRunning"
          /\ Upto(mainQ, k) # <<>> /\ Head(Upto(mainQ, k)) = msg /\ Upto(mainQ, k) \in Seq(Results)
          /\ Upto(mainQ', k - 1) = Tail(Upto(mainQ, k)) /\ Beyond(mainQ', k - 1) = Beyond(mainQ, k)
      BY <2>2, <3>0, <3>1, Parts
    <3>3. msg \in Quiet /\ All(Upto(mainQ', k - 1), Quiet)
      BY <2>2, <3>2, Taken
    <3> QED BY <1>1, <1>9, <2>2, <3>2, <3>3 DEF Starting
  <2> QED BY <1>9, <2>1, <2>2 DEF Starting
<1>10. ASSUME LaunchUnfinished PROVE LaunchUnfinished' /\ msg \in Quiet
  BY <1>1, <1>2, <1>10 DEF LaunchUnfinished
<1> QED BY <1>1, <1>3, <1>4, <1>5, <1>6, <1>7, <1>8, <1>9, <1>10 DEF Phase

(* What the main thread finds otherwise. *)
LEMMA Told ==
  ASSUME TypeOK, Phase, mainQ # <<>>, NEW msg, Head(mainQ) = msg, msg \notin Lists
  PROVE  IF isLaunching
         THEN /\ state = "launching" /\ All(Tail(mainQ), Quiet)
              /\ \/ msg = "launchOk" /\ Hidden(proc, mishaps, stoppedEarly, Work, <<>>)
                 \/ msg = "launchErr" /\ proc = "none" /\ All(Work, Events)
         ELSE /\ stoppedEarly = FALSE
              /\ \/ /\ All(Tail(mainQ), Quiet) /\ All(Work, Noise)
                    /\ \/ state = "unloading" /\ msg = "closed" /\ proc = "none"
                       \/ state = "running" /\ msg = "resumeErr" /\ proc = "stopped" /\ HasThreads
                       \/ state = "running" /\ msg = "stopped" /\ proc = "stopped"
                       \/ /\ state \in {"running", "terminating", "detaching"}
                          /\ msg = "exited" /\ proc = "none"
                       \/ state = "launching" /\ msg \in {"attachErr", "finishErr"} /\ proc = "none"
                       \/ state = "launching" /\ msg \in {"stopped", "finishStopped"} /\ proc = "stopped"
                 \/ /\ state = "launching" /\ msg = "finishRunning"
                    /\ Reported(proc, mishaps, Tail(mainQ), Work)
<1>1. /\ \A m : One(mainQ, Quiet, m, Quiet) => msg = m /\ All(Tail(mainQ), Quiet)
      /\ \A m : One(mainQ, Lists, m, Quiet) => msg = m /\ All(Tail(mainQ), Quiet)
      /\ ~All(mainQ, Quiet) /\ ~All(mainQ, Lists)
  BY Taken, Kinds DEF TypeOK
<1>2. CASE isLaunching
  BY <1>1, <1>2 DEF Phase, LaunchUnfinished
<1>3. CASE WithoutProcess
  BY <1>1, <1>3 DEF WithoutProcess
<1>4. ASSUME Unloading PROVE /\ All(Tail(mainQ), Quiet) /\ All(Work, Noise)
                             /\ state = "unloading" /\ msg = "closed" /\ proc = "none"
  BY <1>1, <1>4 DEF Unloading
<1>5. CASE Stopped
  BY <1>1, <1>5 DEF Stopped
<1>6. ASSUME Resuming PROVE /\ All(Tail(mainQ), Quiet) /\ All(Work, Noise)
                            /\ state = "running" /\ msg = "resumeErr" /\ proc = "stopped" /\ HasThreads
  BY <1>1, <1>6 DEF Resuming
<1>7. ASSUME Running PROVE /\ All(Tail(mainQ), Quiet) /\ All(Work, Noise) /\ state = "running"
                           /\ \/ msg = "stopped" /\ proc = "stopped"
                              \/ msg = "exited" /\ proc = "none"
  BY <1>1, <1>7, ReportedMain DEF Running, TypeOK
<1>8. ASSUME Ending PROVE /\ All(Tail(mainQ), Quiet) /\ All(Work, Noise)
                          /\ state \in {"terminating", "detaching"} /\ msg = "exited" /\ proc = "none"
  BY <1>1, <1>8 DEF Ending
<1>9. ASSUME Starting
      PROVE  /\ state = "launching"
             /\ \/ /\ All(Tail(mainQ), Quiet) /\ All(Work, Noise)
                   /\ \/ msg \in {"attachErr", "finishErr"} /\ proc = "none"
                      \/ msg \in {"stopped", "finishStopped"} /\ proc = "stopped"
                \/ msg = "finishRunning" /\ Reported(proc, mishaps, Tail(mainQ), Work)
  <2>1. ASSUME NEW k \in 1 .. Len(mainQ), mainQ[k] = "finishRunning", All(Upto(mainQ, k), Quiet),
               Reported(proc, mishaps, Beyond(mainQ, k), Work)
        PROVE  msg = "finishRunning" /\ Reported(proc, mishaps, Tail(mainQ), Work)
    <3>0. mainQ \in Seq(Results) /\ mainQ # <<>> /\ Head(mainQ) = msg
      BY DEF TypeOK
    <3>1. CASE k = 1
      BY <2>1, <3>0, <3>1, Parts
    <3>2. CASE k # 1
      <4>1. Upto(mainQ, k) # <<>> /\ Head(Upto(mainQ, k)) = msg /\ Upto(mainQ, k) \in Seq(Results)
        BY <2>1, <3>0, <3>2, Parts
      <4>2. msg \in Quiet
        BY <2>1, <4>1, Taken
      <4> QED BY <4>2, Kinds
    <3> QED BY <3>1, <3>2
  <2> QED BY <1>1, <1>9, <2>1 DEF Starting
<1> QED BY <1>2, <1>3, <1>4, <1>5, <1>6, <1>7, <1>8, <1>9 DEF Phase

(* Every step of the main thread keeps the invariant's phase. *)
LEMMA MainThreadPhase ==
  ASSUME IInv, MainThread
  PROVE  Phase'
<1>. USE DEF IInv, mainVars, coreVars
<1>1. CASE MainFrameLists \/ MainOther
  <2>1. PICK msg \in {"frameLists", "frames", "attachOk", "ok", "err"} : MainTakes(msg)
    BY <1>1 DEF MainFrameLists, MainOther
  <2>2. msg \in Lists /\ UNCHANGED <<state, threads, coreQ, lldbQ, coreVars, proc>>
    BY <1>1, Kinds DEF MainFrameLists, MainOther
  <2> QED BY <2>1, <2>2, ListsKeepPhase
<1>2. CASE MainLaunchResult
  <2>1. PICK msg \in {"launchOk", "launchErr"} :
           MainTakes(msg) /\ Emit(<<IF msg = "launchOk" THEN "doneOk" ELSE "doneErr">>)
    BY <1>2 DEF MainLaunchResult
  <2> DEFINE done == IF msg = "launchOk" THEN "doneOk" ELSE "doneErr"
  <2>2. /\ isLaunching /\ state = "launching" /\ All(mainQ', Quiet)
        /\ \/ msg = "launchOk" /\ Hidden(proc, mishaps, stoppedEarly, Work, <<>>)
           \/ msg = "launchErr" /\ proc = "none" /\ All(Work, Events)
    BY <2>1, Told, Kinds DEF MainTakes
  <2>3. /\ UNCHANGED <<state, isLaunching, stoppedEarly, proc, mishaps>>
        /\ Work \in Seq(Closures) /\ done \in Closures /\ Work' = Append(Work, done)
    <3>1. coreQ \in Seq(Closures) /\ lldbQ \in Seq(Closures) /\ done \in Closures
      BY DEF TypeOK, Closures, Completions
    <3>2. Work' = coreQ \o (lldbQ \o <<done>>)
      BY <1>2, <2>1 DEF MainLaunchResult, Work, Emit
    <3>3. coreQ \o (lldbQ \o <<done>>) = Append(coreQ \o lldbQ, done)
      BY <3>1, ChainedOne
    <3> QED BY <1>2, <2>1, <3>1, <3>2, <3>3, WorkType DEF MainLaunchResult, MainTakes, Work
  <2>4. CASE msg = "launchOk"
    <3>1. /\ Len(Work) + 1 \in 1 .. Len(Work') /\ Work'[Len(Work) + 1] = "doneOk"
          /\ Upto(Work', Len(Work) + 1) = Work /\ Beyond(Work', Len(Work) + 1) = <<>>
      BY <2>3, <2>4, PartsNew
    <3> QED BY <2>2, <2>3, <2>4, <3>1 DEF Phase, LaunchUnfinished
  <2>5. CASE msg = "launchErr"
    <3>1. One(Work', Events, "doneErr", Noise)
      BY <2>2, <2>3, <2>5, Added
    <3> QED BY <2>2, <2>3, <2>5, <3>1 DEF Phase, LaunchUnfinished
  <2> QED BY <2>4, <2>5
<1>3. CASE MainLaunchDone
  <2>1. PICK msg \in {"finishErr", "finishRunning", "finishStopped"} :
           /\ MainTakes(msg)
           /\ SetState(IF msg = "finishErr" THEN "loaded" ELSE "running", FALSE)
           /\ coreQ' = IF msg = "finishStopped" THEN Append(coreQ, "collect") ELSE coreQ
    BY <1>3 DEF MainLaunchDone
  <2>2. /\ ~isLaunching /\ stoppedEarly = FALSE /\ state = "launching"
        /\ \/ /\ All(mainQ', Quiet) /\ All(Work, Noise)
              /\ \/ msg = "finishErr" /\ proc = "none"
                 \/ msg = "finishStopped" /\ proc = "stopped"
           \/ msg = "finishRunning" /\ Reported(proc, mishaps, mainQ', Work)
    BY <2>1, Told, Kinds DEF MainTakes
  <2>3. /\ UNCHANGED <<lldbQ, isLaunching, stoppedEarly, proc, mishaps>>
        /\ state' = IF msg = "finishErr" THEN "loaded" ELSE "running"
    BY <1>3, <2>1 DEF MainLaunchDone, MainTakes, SetState
  <2>4. CASE msg = "finishErr"
    BY <2>1, <2>2, <2>3, <2>4 DEF Phase, WithoutProcess, Work
  <2>5. CASE msg = "finishRunning"
    BY <2>1, <2>2, <2>3, <2>5 DEF Phase, Running, Work
  <2>6. CASE msg = "finishStopped"
    <3>1. /\ coreQ \in Seq(Closures) /\ lldbQ \in Seq(Closures) /\ "collect" \in Closures
          /\ Work = coreQ \o lldbQ /\ Work' = Append(coreQ, "collect") \o lldbQ
      BY <2>1, <2>3, <2>6 DEF TypeOK, Closures, Work, Commands
    <3>2. All(lldbQ, Noise)
      BY <2>2, <2>6, <3>1, Joined
    <3>3. One(Work', Noise, "collect", Noise)
      BY <2>2, <2>6, <3>1, <3>2, Inserted
    <3>4. All(mainQ', Lists)
      BY <2>2, <2>6, Widen
    <3> QED BY <2>2, <2>3, <2>6, <3>3, <3>4 DEF Phase, Running, Reported
  <2> QED BY <2>4, <2>5, <2>6
<1>4. CASE MainStopped \/ MainExited \/ MainClosed \/ MainAttachFailed \/ MainResumeFailed
  <2>1. PICK msg \in {"stopped", "exited", "closed", "attachErr", "resumeErr"} :
           MainSets(msg, CASE msg = "stopped" -> "stopped" [] msg = "exited" -> "loaded"
                           [] msg = "closed" -> "invalid" [] msg = "attachErr" -> "loaded"
                           [] OTHER -> "stopped", msg = "stopped")
    BY <1>4 DEF MainStopped, MainExited, MainClosed, MainAttachFailed, MainResumeFailed
  <2>2. MainTakes(msg) /\ msg \notin Lists
    BY <2>1, Kinds DEF MainSets
  <2>3. /\ ~isLaunching /\ stoppedEarly = FALSE /\ All(mainQ', Quiet) /\ All(Work, Noise)
        /\ \/ msg = "closed" /\ proc = "none"
           \/ msg = "resumeErr" /\ proc = "stopped" /\ state = "running" /\ HasThreads
           \/ msg = "stopped" /\ proc = "stopped"
           \/ msg = "exited" /\ proc = "none"
           \/ msg = "attachErr" /\ proc = "none"
    BY <2>2, Told DEF MainTakes
  <2>4. UNCHANGED <<coreQ, lldbQ, isLaunching, stoppedEarly, proc, mishaps>> /\ Work' = Work
    BY <2>1, <2>2 DEF MainSets, MainTakes, Work
  <2>5. CASE msg \in {"closed", "exited", "attachErr"}
    <3>1. state' \in {"loaded", "invalid"}
      BY <2>1, <2>5 DEF MainSets, SetState
    <3> QED BY <2>3, <2>4, <2>5, <3>1 DEF Phase, WithoutProcess
  <2>6. CASE msg \in {"stopped", "resumeErr"}
    <3>1. state' = "stopped" /\ threads' = (msg = "stopped" \/ threads)
      BY <2>1, <2>6 DEF MainSets, SetState, TypeOK
    <3>2. All(mainQ', Lists) /\ All(Work', Reads)
      BY <2>3, <2>4, Widen
    <3> QED BY <2>3, <2>4, <2>6, <3>1, <3>2 DEF Phase, Stopped, HasThreads
  <2> QED BY <2>5, <2>6
<1> QED BY <1>1, <1>2, <1>3, <1>4 DEF MainThread

-----------------------------------------------------------------------------
(* So does every step of the process. *)
LEMMA ProcessPhase ==
  ASSUME IInv, Process
  PROVE  Phase'
<1>. USE DEF IInv, mainVars, coreVars
<1>1. PICK ev \in {"evStopped", "evRestarted", "evExited"} :
         /\ ProcEvent(CASE ev = "evStopped" -> "stopped" [] ev = "evRestarted" -> "running"
                        [] OTHER -> "none", ev)
         /\ ev = "evExited" /\ isLaunching => "earlyExit" \in mishaps
  BY DEF Process, ProcStop, ProcRestart, ProcExit
<1>2. /\ proc = "running" /\ UNCHANGED <<state, threads, mainQ, isLaunching, stoppedEarly, mishaps>>
      /\ Work \in Seq(Closures) /\ ev \in Closures /\ Events \subseteq Closures /\ Work' = Append(Work, ev)
      /\ proc' = CASE ev = "evStopped" -> "stopped" [] ev = "evRestarted" -> "running" [] OTHER -> "none"
  <2>1. coreQ \in Seq(Closures) /\ lldbQ \in Seq(Closures) /\ ev \in Closures /\ Events \subseteq Closures
    BY DEF TypeOK, Closures, Events
  <2>2. coreQ \o Append(lldbQ, ev) = Append(coreQ \o lldbQ, ev)
    <3>1. Append(lldbQ, ev) = lldbQ \o <<ev>>
      BY <2>1
    <3> QED BY <2>1, <3>1, ChainedOne
  <2> QED BY <1>1, <2>1, <2>2, WorkType DEF ProcEvent, Work
<1>3. ASSUME NEW m, Reported(proc, mishaps, m, Work)
      PROVE  Reported(proc', mishaps', m, Work')
  <2>1. {"evStopped", "evRestarted", "evExited"} \subseteq Closures
    BY <1>2 DEF Events
  <2> QED BY <1>2, <1>3, <2>1, ReportedProcess
<1>4. CASE LaunchUnfinished /\ isLaunching
  <2>1. CASE One(mainQ, Quiet, "launchOk", Quiet) /\ Hidden(proc, mishaps, stoppedEarly, Work, <<>>)
    <3>1. Hidden(proc', mishaps', stoppedEarly', Work', <<>>)
      BY <1>1, <1>2, <1>4, <2>1, HiddenProcess
    <3> QED BY <1>2, <1>4, <2>1, <3>1 DEF Phase, LaunchUnfinished
  <2>2. ASSUME All(mainQ, Quiet), NEW k \in 1 .. Len(Work), Work[k] = "doneOk",
               Hidden(proc, mishaps, stoppedEarly, Upto(Work, k), Beyond(Work, k))
        PROVE  Phase'
    <3>1. /\ k \in 1 .. Len(Work') /\ Work'[k] = "doneOk" /\ Upto(Work', k) = Upto(Work, k)
          /\ Beyond(Work', k) = Append(Beyond(Work, k), ev) /\ Beyond(Work, k) \in Seq(Closures)
      <4>1. k \in 1 .. Len(Work')
        BY <1>2, <2>2
      <4> QED BY <1>2, <2>2, <4>1, Parts
    <3>2. Hidden(proc', mishaps', stoppedEarly', Upto(Work', k), Beyond(Work', k))
      BY <1>2, <2>2, <3>1, HiddenProcessLate
    <3> QED BY <1>2, <1>4, <2>2, <3>1, <3>2 DEF Phase, LaunchUnfinished
  <2> QED BY <1>2, <1>4, <2>1, <2>2 DEF LaunchUnfinished
<1>5. CASE Running /\ ~isLaunching
  BY <1>2, <1>3, <1>5 DEF Running, Phase
<1>6. CASE Starting /\ ~isLaunching
  <2>1. PICK k \in 1 .. Len(mainQ) :
           /\ mainQ[k] = "finishRunning" /\ All(Upto(mainQ, k), Quiet)
           /\ Reported(proc, mishaps, Beyond(mainQ, k), Work)
    BY <1>2, <1>6 DEF Starting
  <2>2. Reported(proc', mishaps', Beyond(mainQ', k), Work')
    BY <1>2, <1>3, <2>1
  <2> QED BY <1>2, <1>6, <2>1, <2>2 DEF Starting, Phase
<1> QED BY <1>2, <1>4, <1>5, <1>6 DEF Phase, WithoutProcess, Unloading, Stopped, Resuming, Ending

(* So does every step of the target. *)
LEMMA PhaseNext ==
  ASSUME IInv, [Next]_vars
  PROVE  Phase'
<1>1. CASE CoreThread
  BY <1>1, CoreLaunchPhase, CoreAttachPhase, CoreResumePhase, CoreStopPhase, CoreEndPhase,
     CoreClosePhase, CoreReadPhase, CoreEventPhase, CoreLaunchDonePhase DEF CoreThread
<1>2. CASE UNCHANGED vars
  BY <1>2 DEF IInv, vars, mainVars, coreVars, Phase, LaunchUnfinished, WithoutProcess, Unloading,
              Stopped, Resuming, Running, Ending, Starting, HasThreads, Work
<1> QED BY <1>1, <1>2, UserActionPhase, EventThreadPhase, MainThreadPhase, ProcessPhase DEF Next, Over

(* The states the lists are cleared in are entered without a process. *)
LEMMA NoGhostsNext ==
  ASSUME IInv, [Next]_vars
  PROVE  /\ NoGhostValues'
         /\ (state \notin {"stopped", "running"} => ~threads)'
<1>. USE DEF IInv, mainVars, coreVars, NoGhostValues
<1>1. ASSUME NEW s \in States, NEW c \in BOOLEAN, SetState(s, c),
             s \in {"loaded", "launching", "unloading"} => ~c /\ proc # "stopped",
             s = "invalid" => ~c /\ state = "unloading"
      PROVE  /\ NoGhostValues'
             /\ (state \notin {"stopped", "running"} => ~threads)'
  BY <1>1 DEF SetState, Clearing
<1>2. CASE UserAction
  <2>1. CASE Launch \/ Attach \/ Close
    <3>1. proc = "none"
      BY <2>1 DEF Launch, Attach, Close, Phase, LaunchUnfinished, WithoutProcess, Unloading, Stopped,
                  Resuming, Running, Ending, Starting
    <3> QED BY <1>1, <2>1, <3>1 DEF Launch, Attach, Close, States
  <2>2. CASE Run \/ Step \/ Terminate \/ Detach
    BY <1>1, <2>2 DEF Run, Step, Terminate, Detach, States
  <2>3. CASE Stop \/ SelectFrame \/ FetchFrames
    BY <2>3 DEF Stop, SelectFrame, FetchFrames
  <2> QED BY <1>2, <2>1, <2>2, <2>3 DEF UserAction
<1>3. CASE CoreThread
  BY <1>3 DEF CoreThread, CoreLaunch, CoreAttach, CoreRun, CoreStep, CoreStop, CoreEnd, CoreClose,
              CoreRead, CoreEvent, CoreLaunchDone
<1>4. CASE EventThread \/ Process \/ Over \/ UNCHANGED vars
  BY <1>4 DEF EventThread, Process, ProcStop, ProcRestart, ProcExit, ProcEvent, Over, vars
<1>5. CASE MainThread
  <2>1. CASE MainLaunchResult \/ MainOther
    BY <2>1 DEF MainLaunchResult, MainOther
  <2>2. CASE MainFrameLists
    <3>1. MainTakes("frameLists") /\ "frameLists" \in Lists /\ "frameLists" \notin Quiet
      BY <2>2, Kinds DEF MainFrameLists
    <3>2. state \notin {"loaded", "launching", "unloading", "invalid"}
      BY <2>2, <3>1, ListsKeepPhase DEF MainFrameLists
    <3> QED BY <2>2, <3>2 DEF MainFrameLists
  <2>3. CASE MainLaunchDone
    <3>1. PICK msg \in {"finishErr", "finishRunning", "finishStopped"} :
             MainTakes(msg) /\ SetState(IF msg = "finishErr" THEN "loaded" ELSE "running", FALSE)
      BY <2>3 DEF MainLaunchDone
    <3>2. msg = "finishErr" => proc # "stopped"
      BY <3>1, Told, Kinds DEF MainTakes
    <3> QED BY <1>1, <3>1, <3>2 DEF States
  <2>4. CASE MainStopped \/ MainResumeFailed
    BY <1>1, <2>4 DEF MainStopped, MainResumeFailed, MainSets, States
  <2>5. CASE MainExited \/ MainAttachFailed
    <3>1. PICK msg \in {"exited", "attachErr"} : MainTakes(msg) /\ SetState("loaded", FALSE)
      BY <2>5 DEF MainExited, MainAttachFailed, MainSets
    <3>2. proc # "stopped"
      BY <3>1, Told, Kinds DEF MainTakes
    <3> QED BY <1>1, <3>1, <3>2 DEF States
  <2>6. CASE MainClosed
    <3>1. PICK msg \in {"closed"} : MainTakes(msg) /\ SetState("invalid", FALSE)
      BY <2>6 DEF MainClosed, MainSets
    <3>2. state = "unloading"
      BY <3>1, Told, Kinds DEF MainTakes
    <3> QED BY <1>1, <3>1, <3>2 DEF States
  <2> QED BY <1>5, <2>1, <2>2, <2>3, <2>4, <2>5, <2>6 DEF MainThread
<1> QED BY <1>2, <1>3, <1>4, <1>5 DEF Next

-----------------------------------------------------------------------------
(* IInv is inductive. *)
LEMMA InitIInv == Init => IInv
<1>. SUFFICES ASSUME Init PROVE IInv
  OBVIOUS
<1>1. TypeOK
  BY InitType
<1>2. mainQ = <<>> /\ coreQ = <<>> /\ Work = lldbQ /\ ~isLaunching /\ stoppedEarly = FALSE
  BY ChainedNone DEF Init, Work
<1>3. ASSUME state = "loaded", proc = "none", lldbQ = <<>>
      PROVE  Phase
  BY <1>2, <1>3, EmptyQueue DEF Phase, WithoutProcess
<1>4. ASSUME state = "launching", proc = "stopped", lldbQ = <<"evStopped">>
      PROVE  Phase
  BY <1>2, <1>4, EmptyQueue, Single DEF Phase, Starting
<1>5. ASSUME "bornStopped" \in mishaps, state = "stopped", proc = "stopped", lldbQ = <<>>
      PROVE  Phase
  BY <1>2, <1>5, EmptyQueue DEF Phase, Stopped, HasThreads
<1> QED BY <1>1, <1>3, <1>4, <1>5 DEF Init, IInv, NoGhostValues

(* IInv holds in every state the target reaches. *)
LEMMA Invariance == Spec => []IInv
<1>1. IInv /\ [Next]_vars => IInv'
  BY TypeNext, PhaseNext, NoGhostsNext DEF IInv
<1> QED BY <1>1, InitIInv, PTL DEF Spec

(* What waits in front of the main thread is expected in the state it finds. *)
LEMMA MainAssertsHold ==
  ASSUME IInv
  PROVE  MainAsserts
<1>. USE DEF IInv
<1>1. ASSUME mainQ # <<>>, NEW msg \in {"stopped", "exited", "closed"}, Head(mainQ) = msg
      PROVE  /\ msg = "stopped" => state \in {"running", "launching"}
             /\ msg = "exited" => state \in {"running", "terminating", "detaching"}
             /\ msg = "closed" => state = "unloading"
  BY <1>1, Told, Kinds
<1> QED BY <1>1 DEF MainAsserts

(* A stop that finds no process comes after its exit, which is on its way to *)
(* the main thread or has been taken there.                                  *)
LEMMA StopOvertaken ==
  ASSUME IInv, ~isLaunching, proc = "none"
  PROVE  \/ ExitUnderWay \/ state \in {"loaded", "launching", "unloading", "invalid"}
         \/ "earlyExit" \in mishaps
<1>. USE DEF IInv
<1>1. ASSUME NEW S, NEW T, One(Work, S, "evExited", T) PROVE ExitUnderWay
  <2>1. PICK k \in 1 .. Len(Work) : Work[k] = "evExited"
    BY <1>1 DEF One
  <2>2. coreQ \in Seq(Closures) /\ lldbQ \in Seq(Closures)
    BY DEF TypeOK, Closures
  <2>3. CASE k <= Len(coreQ)
    BY <2>1, <2>2, <2>3 DEF Work, ExitUnderWay
  <2>4. CASE k > Len(coreQ)
    <3>1. k - Len(coreQ) \in 1 .. Len(lldbQ) /\ lldbQ[k - Len(coreQ)] = "evExited"
      BY <2>1, <2>2, <2>4 DEF Work
    <3> QED BY <3>1 DEF ExitUnderWay
  <2> QED BY <2>1, <2>2, <2>3, <2>4
<1>2. ASSUME NEW S, NEW T, One(mainQ, S, "exited", T) PROVE ExitUnderWay
  BY <1>2 DEF One, ExitUnderWay
<1>3. CASE Running
  BY <1>1, <1>2, <1>3 DEF Running, Reported
<1>4. CASE Ending
  BY <1>1, <1>2, <1>4 DEF Ending
<1> QED BY <1>3, <1>4 DEF Phase, WithoutProcess, Unloading, Stopped, Resuming, Starting

(* What waits in front of the core thread finds the process it expects. *)
LEMMA CoreAssertsHold ==
  ASSUME IInv
  PROVE  CoreAsserts
<1>. USE DEF IInv
<1>1. SUFFICES ASSUME coreQ # <<>>, NEW msg, Head(coreQ) = msg
               PROVE  /\ msg \in NeedStopped \cup {"collect"} => proc = "stopped"
                      /\ msg = "evStopped" /\ ~isLaunching => proc = "stopped"
                      /\ msg = "evExited" /\ ~isLaunching => proc = "none"
                      /\ msg \in {"launch", "attach"} => proc = "none"
                      /\ msg = "stop" /\ proc = "none" =>
                           \/ ExitUnderWay \/ state \in {"loaded", "launching", "unloading", "invalid"}
                           \/ "earlyExit" \in mishaps
  BY DEF CoreAsserts
<1>2. CASE isLaunching
  <2>1. msg \in Events \cup {"doneOk", "doneErr"}
    BY <1>1, <1>2, ServedHidden
  <2>2. state = "launching"
    BY <1>2 DEF Phase, LaunchUnfinished
  <2> QED BY <1>2, <2>1, <2>2 DEF Events, NeedStopped
<1>3. CASE ~isLaunching /\ msg \notin Noise
  <2>1. Work \in Seq(Closures) /\ Work # <<>> /\ Head(Work) = msg /\ "evStopped" \in Closures
    BY <1>1, WorkHead DEF Closures, Events
  <2>2. ASSUME NEW m \in Seq(Results), Reported(proc, mishaps, m, Work)
        PROVE  \/ msg \in {"evStopped", "collect"} /\ proc = "stopped"
               \/ msg = "evExited" /\ proc = "none"
    BY <1>3, <2>1, <2>2, ReportedCore, Kinds
  <2>3. ASSUME NEW k \in 1 .. Len(mainQ) PROVE Beyond(mainQ, k) \in Seq(Results)
    BY Parts DEF TypeOK
  <2>4. msg # "stop"
    BY <1>3, Kinds
  <2> QED BY <1>1, <1>3, <2>2, <2>3, <2>4, Served DEF Running, Stopped, NeedStopped, TypeOK
<1>4. CASE ~isLaunching /\ msg \in Noise
  BY <1>4, Kinds, StopOvertaken DEF NeedStopped
<1> QED BY <1>2, <1>3, <1>4

-----------------------------------------------------------------------------
(* No assertion of core_target_impl's main-thread closures or of target_base *)
(* in the core thread fails, whatever was queued before the closure that     *)
(* makes it, for any set of mishaps and any bounds, but for the one of stop, *)
(* which fails only where the exit of the process has overtaken it or came   *)
(* before the launch was over.                                               *)
THEOREM TargetAsserts == Spec => []Asserts
<1>1. IInv => Asserts
  BY MainAssertsHold, CoreAssertsHold DEF Asserts
<1> QED BY <1>1, Invariance, PTL

(* The stopped state that core_target_impl shows is the process's own: no    *)
(* command or event on its way has let the process run or go.                *)
THEOREM StoppedTruly == Spec => []StoppedIsStopped
<1>1. IInv => StoppedIsStopped
  BY DEF IInv, Phase, LaunchUnfinished, WithoutProcess, Unloading, Stopped, Resuming, Running,
         Ending, Starting, StoppedIsStopped
<1> QED BY <1>1, Invariance, PTL

(* The threads, locals and watch values belong to the state that             *)
(* target::on_impl_state_changed was last told of.                           *)
THEOREM ListsFollowState == Spec => []ListsMatchState
<1>1. IInv => ListsMatchState
  BY DEF IInv, Phase, LaunchUnfinished, WithoutProcess, Unloading, Stopped, Resuming, Running,
         Ending, Starting, HasThreads, ListsMatchState, ThreadsMatchState
<1> QED BY <1>1, Invariance, PTL

(* With all queues empty the state shown is that of the process, unless one  *)
(* of the mishaps that keep them apart may happen: no closure or event that  *)
(* would have changed it was dropped on the way (core_target_impl).          *)
THEOREM QuietAgreement == Spec => []Agreement
<1>1. ASSUME IInv PROVE Agreement
  <2>1. SUFFICES ASSUME Idle, mishaps \subseteq {"bornStopped"}
                 PROVE  CASE proc = "none" -> state \in {"loaded", "invalid"}
                          [] proc = "running" -> state = "running"
                          [] OTHER -> state = "stopped"
    BY DEF Agreement
  <2>2. mainQ = <<>> /\ Work = <<>>
    BY <2>1, ChainedNone DEF Idle, Work
  <2>3. "earlyExit" \notin mishaps /\ "stepIgnored" \notin mishaps /\ "commandFails" \notin mishaps
    BY <2>1
  <2>4. /\ \A S, m, T : ~One(mainQ, S, m, T) /\ ~One(Work, S, m, T)
        /\ 1 .. Len(mainQ) = {} /\ 1 .. Len(Work) = {}
    BY <2>2, EmptyQueue
  <2>5. Running => proc = "running"
    BY <2>3, <2>4 DEF Running, Reported
  <2>6. ~Unloading /\ ~Resuming /\ ~Ending /\ ~Starting /\ ~LaunchUnfinished
    BY <2>3, <2>4 DEF Unloading, Resuming, Ending, Starting, LaunchUnfinished
  <2>7. (WithoutProcess \/ Stopped \/ Running) /\ ~isLaunching
    BY <1>1, <2>6 DEF IInv, Phase
  <2> QED BY <2>5, <2>7 DEF WithoutProcess, Stopped, Running
<1> QED BY <1>1, Invariance, PTL

-----------------------------------------------------------------------------
(* Every step of the threads is one of the contract's, or leaves the state. *)
LEMMA ContractNext ==
  ASSUME IInv, [Next]_vars
  PROVE  [Contract!Next]_state
<1>. USE DEF Contract!Next, mainVars
<1>1. CASE UserAction
  BY <1>1 DEF UserAction, Launch, Attach, Run, Step, Stop, Terminate, Detach, Close, SelectFrame,
              FetchFrames, SetState, Contract!StartProcess, Contract!Resume, Contract!EndProcess,
              Contract!Unload
<1>2. CASE CoreThread
  BY <1>2 DEF CoreThread, CoreLaunch, CoreAttach, CoreRun, CoreStep, CoreStop, CoreEnd, CoreClose,
              CoreRead, CoreEvent, CoreLaunchDone
<1>3. CASE EventThread \/ Process \/ Over \/ UNCHANGED vars
  BY <1>3 DEF EventThread, Process, ProcStop, ProcRestart, ProcExit, ProcEvent, Over, vars
<1>4. CASE MainThread
  <2>1. CASE MainLaunchResult \/ MainFrameLists \/ MainOther
    BY <2>1 DEF MainLaunchResult, MainFrameLists, MainOther
  <2>2. CASE MainLaunchDone
    <3>1. PICK msg \in {"finishErr", "finishRunning", "finishStopped"} :
             MainTakes(msg) /\ state' = IF msg = "finishErr" THEN "loaded" ELSE "running"
      BY <2>2 DEF MainLaunchDone, SetState
    <3>2. state = "launching"
      BY <3>1, Told, Kinds DEF IInv, MainTakes
    <3> QED BY <3>1, <3>2 DEF Contract!EndLaunching
  <2>3. CASE MainStopped \/ MainExited \/ MainClosed \/ MainAttachFailed \/ MainResumeFailed
    <3>1. PICK msg \in {"stopped", "exited", "closed", "attachErr", "resumeErr"} :
             /\ MainTakes(msg)
             /\ state' = CASE msg = "stopped" -> "stopped" [] msg = "exited" -> "loaded"
                           [] msg = "closed" -> "invalid" [] msg = "attachErr" -> "loaded"
                           [] OTHER -> "stopped"
      BY <2>3 DEF MainStopped, MainExited, MainClosed, MainAttachFailed, MainResumeFailed, MainSets,
                  SetState
    <3>2. \/ msg = "closed" /\ state = "unloading"
          \/ msg = "resumeErr" /\ state = "running"
          \/ msg = "stopped" /\ state \in {"running", "launching"}
          \/ msg = "exited" /\ state \in {"running", "terminating", "detaching"}
          \/ msg = "attachErr" /\ state = "launching"
      BY <3>1, Told, Kinds DEF IInv, MainTakes
    <3> QED BY <3>1, <3>2 DEF Contract!EndLaunching, Contract!StopReported, Contract!ExitReported,
                              Contract!Unloaded
  <2> QED BY <1>4, <2>1, <2>2, <2>3 DEF MainThread
<1> QED BY <1>1, <1>2, <1>3, <1>4 DEF Next

(* The three threads of a core_target_impl take the state the debugger sees  *)
(* only through the transitions of the contract, from an initial state of    *)
(* its own: the safety part of ImplementsContract.                           *)
THEOREM TargetImplements == Spec => Contract!Spec
<1>1. Init => Contract!Init
  BY DEF Init, Contract!Init
<1> QED BY <1>1, ContractNext, Invariance, PTL DEF Spec, Contract!Spec
=============================================================================
