------------------------- MODULE BreakpointsSteps -------------------------
(***************************************************************************)
(* The inductive invariant of Breakpoints, its steps told breakpoint by    *)
(* breakpoint, and the parts of the invariant that hold of any target:     *)
(* the shape of the state, what is being installed, the phases of a target *)
(* and the numbers that are given. BreakpointsProofs has the rest.         *)
(***************************************************************************)
EXTENDS Breakpoints, FiniteSetTheorems, TLAPS

-----------------------------------------------------------------------------
(* The inductive invariant                                                 *)

Kind(q, ops) == {k \in DOMAIN q : q[k].op \in ops}
On(q, ops, i) == {k \in Kind(q, ops) : q[k].id = i}
Unique(K) == \A j, k \in K : j = k

EditOps == {"remove", "enable", "condition", "ignore"}
Code == {"code"} \X (1..MaxNum)
Watches == {"watch"} \X (1..MaxNum)

Cmds ==
  [op : {"install"}, id : Code, line : {0} \cup Lines, on : BOOLEAN, cond : BOOLEAN, ignore : 0..1]
  \cup [op : EditOps, id : Ids, line : {0} \cup Lines, on : BOOLEAN, cond : BOOLEAN, ignore : 0..1]
  \cup [op : {"watch", "run", "resume", "close"}]
Snapshots == UNION {[D -> CoreBreakpoint] : D \in SUBSET Ids}
Answers ==
  [op : {"installed"}, id : Code, num : 1..MaxNum, locs : SUBSET Lines]
  \cup [op : {"watched"}, id : Watches]
  \cup [op : {"refused", "exited", "closed"}]
  \cup [op : {"stopped"}, why : Ids \cup {<<>>}, bps : Snapshots]

Typed == commands \in Seq(Cmds) /\ answers \in Seq(Answers)

Resumes == Kind(commands, {"run", "resume"})
Closes == Kind(commands, {"close"})
Installs == Kind(commands, {"install"})
Editing == Kind(commands, EditOps)
Removals == Kind(commands, {"remove"})
Ends == Kind(answers, {"stopped", "exited"})
Stops == Kind(answers, {"stopped"})
Closed == Kind(answers, {"closed"})
Watched == Kind(answers, {"watched"})
Told == Kind(answers, {"installed"})

\* A watchpoint has no locations.
Nowhere ==
  /\ \A i \in DOMAIN list : i[1] = "watch" => list[i].locs = {}
  /\ \A i \in DOMAIN core : i[1] = "watch" => core[i].line = 0 /\ core[i].locs = {}
  /\ \A k \in Stops : \A i \in DOMAIN answers[k].bps : i[1] = "watch" => answers[k].bps[i].locs = {}

\* What holds even after a fault.
Shape ==
  /\ TypeOK
  /\ Typed
  /\ IsFiniteSet(DOMAIN list)
  /\ core \in [DOMAIN core -> CoreBreakpoint]
  /\ \A i \in DOMAIN list : i[1] = "code" => i[2] < nextNum
  /\ RowsMatchList /\ Nowhere
\* What is being installed is not installed yet, and only once.
Fresh ==
  /\ \A k \in Installs : commands[k].id \in DOMAIN list => list[commands[k].id].impl = 0
  /\ \A k \in Told : answers[k].id \in DOMAIN list => list[answers[k].id].impl = 0
  /\ \A j, k \in Installs : commands[j].id = commands[k].id => j = k
  /\ \A j, k \in Told : answers[j].id = answers[k].id => j = k
  /\ \A j \in Installs, k \in Told : commands[j].id # answers[k].id
  /\ \A k \in Installs : commands[k].id[2] < nextNum
  /\ \A k \in Told : answers[k].id[2] < nextNum

Phase ==
  /\ target \in {"none", "loading"} => answers = <<>> /\ ~coreUp
                                        /\ \A i \in DOMAIN list : list[i].impl = 0
  /\ target \in {"loaded", "running", "stopped"} => coreUp
  /\ Closes # {} => target = "unloading" /\ coreUp
  /\ Unique(Closes)
  /\ \A k \in Closed : k = Len(answers) /\ target = "unloading" /\ ~coreUp
  /\ target # "running" => Resumes = {} /\ ~moving /\ Ends = {}
  /\ moving \/ Ends # {} => Resumes = {}
  /\ moving => Ends = {}
  /\ Unique(Resumes) /\ Unique(Ends)

\* The dialog waits for the one answer to the one watchpoint asked for.
Asked == Kind(commands, {"watch"})
Replied == Kind(answers, {"watched", "refused"})
Waiting ==
  "cancelWait" \notin mishaps =>
    /\ Asked # {} \/ Replied # {} => dialog = "waiting"
    /\ Unique(Asked) /\ Unique(Replied) /\ (Asked = {} \/ Replied = {})

Closing ==
  "editClosing" \notin mishaps =>
    /\ ~coreUp => commands = <<>>
    /\ \A k \in Closes : k = Len(commands)

Early == targets = 0 \/ target = "loading"
WatchNumbers ==
  /\ \A i \in DOMAIN list : i[1] = "watch" => i[2] < coreNext["watch"]
  /\ \A k \in Watched : /\ answers[k].id[2] < coreNext["watch"] /\ answers[k].id \notin DOMAIN list
                        /\ \A j \in Watched : answers[j].id = answers[k].id => j = k
Numbers ==
  "renumber" \notin mishaps =>
    /\ targets \in Nat /\ (targets = 0 => target = "none")
    /\ Early => /\ DOMAIN list = {"code"} \X (1..(nextNum - 1))
                /\ \A i \in DOMAIN list : list[i].curr = 0 /\ list[i].locs = {}
    /\ WatchNumbers

InstallsInOrder ==
  /\ \A j, k \in Installs : j < k => commands[j].id[2] < commands[k].id[2]
  /\ \A k \in Installs : commands[k].id[2] >= coreNext["code"]
  /\ \A n \in coreNext["code"] .. nextNum - 1 : \E k \in Installs : commands[k].id = <<"code", n>>
  /\ \A i \in DOMAIN core : i[2] < coreNext[i[1]]
  /\ coreNext["code"] <= nextNum

\* An edit finds its breakpoint, and the last edit of a breakpoint removes it.
EditsFind ==
  \A k \in Editing : \/ commands[k].id \in DOMAIN core
                     \/ \E j \in Installs : j < k /\ commands[j].id = commands[k].id
RemovedLast ==
  \A k \in Editing, j \in Removals : commands[j].id = commands[k].id => j >= k
\* What is listed is there or being installed; what is there is listed, or
\* being removed, or about to be listed.
ListKnown ==
  \A i \in DOMAIN list : /\ i \in DOMAIN core \/ \E j \in Installs : commands[j].id = i
                         /\ \A j \in Removals : commands[j].id # i
WatchesKnown ==
  \A k \in Watched : LET i == answers[k].id IN
    /\ i \in DOMAIN core
    /\ core[i].on = TRUE /\ core[i].cond = FALSE /\ core[i].ignore = 0
    /\ \A j \in Editing : commands[j].id # i
CoreKnown ==
  \A i \in DOMAIN core : \/ i \in DOMAIN list
                         \/ \E j \in Removals : commands[j].id = i
                         \/ \E k \in Watched : answers[k].id = i
InstallsKnown ==
  \A k \in Installs : \/ commands[k].id \in DOMAIN list
                      \/ \E j \in Removals : commands[j].id = commands[k].id
Matched == EditsFind /\ RemovedLast /\ ListKnown /\ WatchesKnown /\ CoreKnown /\ InstallsKnown

\* The last command of K settles the field.
Last(K, k) == k \in K /\ \A j \in K : j <= k
OnAgrees ==
  \A i \in DOMAIN list :
    LET K == On(commands, {"install", "enable"}, i) IN
    /\ K = {} => core[i].on = list[i].on
    /\ \A k \in K : Last(K, k) => commands[k].on = list[i].on
CondAgrees ==
  \A i \in DOMAIN list :
    LET K == On(commands, {"install", "condition"}, i) IN
    /\ K = {} => core[i].cond = list[i].cond
    /\ \A k \in K : Last(K, k) => commands[k].cond = list[i].cond

Following == InstallsInOrder /\ Matched /\ OnAgrees /\ CondAgrees

\* Watchpoints are set before the program runs on.
AskedStill ==
  /\ \A k \in Asked : ~moving /\ Ends = {} /\ \A j \in Resumes : k < j
  /\ \A k \in Watched, j \in Ends : k < j

\* Watchpoints are removed before the program runs on, unless that goes wrong.
RemovedStill ==
  \A k \in Removals : commands[k].id[1] = "watch" => ~moving /\ \A j \in Resumes : k < j
StopsListed ==
  \A k \in Stops : LET w == answers[k].why IN
    w # <<>> /\ w[1] = "watch" =>
      w \in DOMAIN list \/ \E j \in Watched : j < k /\ answers[j].id = w
WatchStops == "removeWatch" \notin mishaps => RemovedStill /\ StopsListed

Ignoring(hits, curr) == IF curr >= hits THEN 0 ELSE hits - curr - 1
\* The hits LLDB counts on from.
Rerun == \E k \in Resumes : commands[k].op = "run"
Ran(i) == IF Rerun THEN 0 ELSE core[i].hits
Snapped ==
  \A k \in Stops : LET bps == answers[k].bps IN
    /\ \A i \in DOMAIN bps : i[2] < coreNext[i[1]]
    /\ \A i \in DOMAIN bps \cap DOMAIN core : bps[i].hits = core[i].hits /\ bps[i].locs = core[i].locs
    /\ \A i \in DOMAIN core \ DOMAIN bps : core[i].hits = 0 /\ i[1] = "code"
                                           /\ (i \in DOMAIN list => list[i].curr = 0)
NotYet ==
  \A k \in Installs : commands[k].id \in DOMAIN list =>
     list[commands[k].id].curr = 0 /\ list[commands[k].id].locs = {}

\* Hit counts are changed before the program runs on.
Counting == Kind(commands, {"ignore"})
CountsStill == target = "running" => \A k \in Counting : \E j \in Resumes : k < j
Counts == target = "stopped" \/ Resumes # {}
CurrAgrees == Counts => \A i \in DOMAIN list \cap DOMAIN core : list[i].curr = Ran(i)
WatchedZero == Counts /\ Ends = {} => \A k \in Watched : Ran(answers[k].id) = 0
\* What the commands on their way make of LLDB's ignore count.
Settled(i) ==
  LET K == On(commands, {"ignore"}, i) IN
  /\ \A k \in K : Last(K, k) => commands[k].ignore = Ignoring(list[i].hits, list[i].curr)
  /\ K = {} => IF i \in DOMAIN core THEN core[i].ignore = Ignoring(list[i].hits, Ran(i))
               ELSE list[i].hits = 0
IgnoreAgrees == target \in {"running", "stopped"} => \A i \in DOMAIN list : Settled(i)
HitsAgree == "staleHits" \notin mishaps => CountsStill /\ CurrAgrees /\ WatchedZero /\ IgnoreAgrees

\* Where LLDB has put a breakpoint is known, or about to be told.
Installed(i) == On(answers, {"installed"}, i)
StopSites ==
  \A i \in DOMAIN list \cap DOMAIN core : i[1] = "code" =>
    \A k \in Stops :
      IF i \in DOMAIN answers[k].bps THEN \A j \in Installed(i) : j < k
      ELSE list[i].locs = {} /\ \E j \in Installed(i) : j > k /\ answers[j].locs = core[i].locs
StoppedSites ==
  target = "stopped" =>
    \A i \in DOMAIN list \cap DOMAIN core : i[1] = "code" =>
      /\ Installed(i) = {} => list[i].locs = core[i].locs
      /\ \A j \in Installed(i) : answers[j].locs = core[i].locs /\ list[i].locs = {}
Sites == StopSites /\ StoppedSites

Deep ==
  /\ Phase /\ Waiting /\ Closing /\ Numbers
  /\ "renumber" \notin mishaps /\ coreUp =>
       Following /\ AskedStill /\ WatchStops /\ Snapped /\ NotYet /\ HitsAgree /\ Sites
IInv == Shape /\ OnlyKnownFaults /\ Fresh /\ (fault = "none" => Deep)

-----------------------------------------------------------------------------
(* The order of the map                                                    *)

(* Breakpoints are ordered strictly, and any two of them. *)
LEMMA BeforeIsStrict ==
  /\ \A i \in Ids : ~Before(i, i)
  /\ \A i, j \in Ids : Before(i, j) => ~Before(j, i)
  /\ \A i, j \in Ids : i # j => Before(i, j) \/ Before(j, i)
  /\ \A i, j, k \in Ids : Before(i, j) /\ Before(j, k) => Before(i, k)
<1> DEFINE B(a, m, b, n) == IF a = b THEN m < n ELSE a = "code"
<1>1. \A i \in Ids : /\ i[1] \in {"code", "watch"} /\ i[2] \in Nat
                     /\ i = <<i[1], i[2]>>
  BY DEF Ids
<1>2. \A i, j \in Ids : Before(i, j) <=> B(i[1], i[2], j[1], j[2])
  BY DEF Before
<1>3. \A i, j \in Ids : i # j => i[1] # j[1] \/ i[2] # j[2]
  BY <1>1
<1> HIDE DEF Ids
<1>4. \A i \in Ids : ~Before(i, i)
  BY <1>1, <1>2
<1>5. \A i, j \in Ids : Before(i, j) => ~Before(j, i)
  BY <1>1, <1>2
<1>6. \A i, j \in Ids : i # j => Before(i, j) \/ Before(j, i)
  BY <1>1, <1>2, <1>3
<1>7. \A i, j, k \in Ids : Before(i, j) /\ Before(j, k) => Before(i, k)
  BY <1>1, <1>2
<1> QED BY <1>4, <1>5, <1>6, <1>7

(* InOrder lists every breakpoint of a set once, the earlier ones first. *)
LEMMA InOrderSorts ==
  ASSUME NEW S \in SUBSET Ids, IsFiniteSet(S)
  PROVE  /\ Cardinality(S) \in Nat
         /\ InOrder(S) \in [1..Cardinality(S) -> S]
         /\ \A j, k \in 1..Cardinality(S) : j < k => Before(InOrder(S)[j], InOrder(S)[k])
         /\ \A i \in S : \E k \in 1..Cardinality(S) : InOrder(S)[k] = i
<1> DEFINE n == Cardinality(S)
           L(i) == {j \in S : Before(j, i)}
           r == [i \in S |-> Cardinality(L(i)) + 1]
           f == [k \in 1..n |-> CHOOSE i \in S : r[i] = k]
           Sorted(g) == \A j, k \in DOMAIN g : j < k => Before(g[j], g[k])
<1>1. n \in Nat /\ Cardinality(1..n) = n /\ IsFiniteSet(1..n)
  BY FS_CardinalityType, FS_Interval
<1>2. ASSUME NEW i \in S
      PROVE  /\ IsFiniteSet(L(i)) /\ Cardinality(L(i)) \in Nat
             /\ Cardinality(L(i)) + 1 \in 1..n
  <2>1. L(i) \subseteq S \ {i}
    BY BeforeIsStrict
  <2>2. IsFiniteSet(S \ {i}) /\ Cardinality(S \ {i}) = n - 1
    BY FS_RemoveElement
  <2>3. IsFiniteSet(L(i)) /\ Cardinality(L(i)) <= n - 1
    BY <2>1, <2>2, FS_Subset
  <2>4. Cardinality(L(i)) \in Nat
    BY <2>3, FS_CardinalityType
  <2> HIDE DEF L, n
  <2> QED BY <1>1, <2>3, <2>4
<1>3. ASSUME NEW i \in S, NEW j \in S, Before(i, j) PROVE r[i] < r[j]
  <2>1. L(i) \subseteq L(j) /\ i \in L(j) /\ i \notin L(i)
    BY <1>3, BeforeIsStrict
  <2>2. Cardinality(L(i)) <= Cardinality(L(j)) /\ Cardinality(L(i)) # Cardinality(L(j))
    <3>1. L(i) # L(j)
      BY <2>1
    <3> HIDE DEF L
    <3> QED BY <1>2, <2>1, <3>1, FS_Subset
  <2> HIDE DEF L
  <2> QED BY <1>2, <2>2
<1>4. r \in [S -> 1..n]
  <2> HIDE DEF L, n
  <2> QED BY <1>2
<1>5. \A i, j \in S : i # j => r[i] # r[j]
  <2> SUFFICES ASSUME NEW i \in S, NEW j \in S, i # j PROVE r[i] # r[j]
    OBVIOUS
  <2>1. Before(i, j) \/ Before(j, i)
    BY BeforeIsStrict
  <2>2. r[i] < r[j] \/ r[j] < r[i]
    BY <1>3, <2>1
  <2>3. r[i] \in Nat /\ r[j] \in Nat
    BY <1>1, <1>4
  <2> HIDE DEF r
  <2> QED BY <2>2, <2>3
<1> HIDE DEF r
<1>6. \A k \in 1..n : \E i \in S : r[i] = k
  <2>1. r \in Injection(S, 1..n)
    BY <1>4, <1>5 DEF Injection, IsInjective
  <2>2. r \in Surjection(S, 1..n)
    BY <1>1, <2>1, FS_Injection
  <2> QED BY <2>2 DEF Surjection
<1>7. \A k \in 1..n : f[k] \in S /\ r[f[k]] = k
  BY <1>6
<1>8. f \in [1..n -> S]
  BY <1>7
<1> HIDE DEF f
<1>9. Sorted(f)
  <2> SUFFICES ASSUME NEW j \in 1..n, NEW k \in 1..n, j < k PROVE Before(f[j], f[k])
    BY <1>8
  <2>1. f[j] \in S /\ f[k] \in S /\ r[f[j]] = j /\ r[f[k]] = k
    BY <1>7
  <2>2. f[j] # f[k] /\ ~Before(f[k], f[j])
    BY <1>1, <1>3, <2>1
  <2> QED BY <2>1, <2>2, BeforeIsStrict
<1>10. InOrder(S) \in [1..n -> S] /\ Sorted(InOrder(S))
  <2>1. InOrder(S) = CHOOSE g \in [1..n -> S] : Sorted(g)
    BY DEF InOrder
  <2> HIDE DEF Sorted, n
  <2> QED BY <1>8, <1>9, <2>1
<1>11. \A i \in S : \E k \in 1..n : InOrder(S)[k] = i
  <2> DEFINE g == InOrder(S)
  <2> HIDE DEF g
  <2>1. g \in [1..n -> S] /\ Sorted(g)
    BY <1>10 DEF g
  <2>2. \A j, k \in 1..n : j # k => g[j] # g[k]
    <3> SUFFICES ASSUME NEW j \in 1..n, NEW k \in 1..n, j < k PROVE g[j] # g[k]
      BY <1>1
    <3> QED BY <2>1, BeforeIsStrict
  <2>3. g \in Injection(1..n, S)
    BY <2>1, <2>2 DEF Injection, IsInjective
  <2>4. g \in Surjection(1..n, S)
    BY <1>1, <2>3, FS_Injection
  <2> QED BY <2>4 DEF Surjection, g
<1> QED BY <1>1, <1>10, <1>11

-----------------------------------------------------------------------------
(* The queues                                                              *)

\* p is q and what r adds at its end; p is q without its first entry.
Grown(q, r, p) ==
  /\ Len(q) \in Nat /\ Len(r) \in Nat /\ Len(p) = Len(q) + Len(r)
  /\ DOMAIN q = 1..Len(q) /\ DOMAIN r = 1..Len(r) /\ DOMAIN p = 1..Len(q) + Len(r)
  /\ \A k \in 1..Len(q) : p[k] = q[k]
  /\ \A k \in 1..Len(r) : p[Len(q) + k] = r[k]
  /\ \A k \in 1..Len(q) + Len(r) : k > Len(q) => k - Len(q) \in 1..Len(r) /\ p[k] = r[k - Len(q)]
Shrunk(q, p) ==
  /\ Len(q) \in Nat \ {0} /\ Len(p) = Len(q) - 1 /\ Head(q) = q[1]
  /\ DOMAIN q = 1..Len(q) /\ DOMAIN p = 1..Len(q) - 1
  /\ \A k \in 1..Len(q) - 1 : k + 1 \in 1..Len(q) /\ p[k] = q[k + 1]
  /\ \A k \in 1..Len(q) : k # 1 => k - 1 \in 1..Len(q) - 1 /\ q[k] = p[k - 1]

(* What is queued stays where it is, and the rest moves up when the first is taken. *)
LEMMA QueuesChange ==
  ASSUME NEW U, NEW q \in Seq(U)
  PROVE  /\ \A r \in Seq(U) : q \o r \in Seq(U) /\ Grown(q, r, q \o r)
         /\ \A e \in U : Append(q, e) \in Seq(U) /\ <<e>> \in Seq(U) /\ Grown(q, <<e>>, Append(q, e))
         /\ Grown(q, <<>>, q) /\ <<>> \in Seq(U)
         /\ q # <<>> => Tail(q) \in Seq(U) /\ Head(q) \in U /\ Shrunk(q, Tail(q))
<1>1. ASSUME NEW r \in Seq(U) PROVE q \o r \in Seq(U) /\ Grown(q, r, q \o r)
  <2>1. \A k \in 1..Len(q) + Len(r) : k > Len(q) => k - Len(q) \in 1..Len(r)
    OBVIOUS
  <2> QED BY <2>1 DEF Grown
<1>2. ASSUME NEW e \in U
      PROVE  Append(q, e) \in Seq(U) /\ <<e>> \in Seq(U) /\ Grown(q, <<e>>, Append(q, e))
  <2>1. Len(<<e>>) = 1 /\ <<e>>[1] = e /\ DOMAIN <<e>> = 1..1
    OBVIOUS
  <2>2. \A k \in 1..Len(q) + 1 : k > Len(q) => k = Len(q) + 1
    OBVIOUS
  <2> QED BY <2>1, <2>2 DEF Grown
<1>3. Grown(q, <<>>, q) /\ <<>> \in Seq(U)
  BY DEF Grown
<1>4. q # <<>> => Tail(q) \in Seq(U) /\ Head(q) \in U /\ Shrunk(q, Tail(q))
  <2>1. q # <<>> => Len(q) # 0
    OBVIOUS
  <2> QED BY <2>1 DEF Shrunk
<1> QED BY <1>1, <1>2, <1>3, <1>4

(* What the fields of a command and of an answer may hold. *)
LEMMA CommandFields ==
  ASSUME NEW c \in Cmds
  PROVE  /\ c.op \in {"install", "remove", "enable", "condition", "ignore", "watch", "run", "resume", "close"}
         /\ c.op = "install" => c.id \in Code
         /\ c.op \in EditOps => c.id \in Ids
         /\ c.op \in EditOps \cup {"install"} =>
              /\ c.line \in {0} \cup Lines /\ c.on \in BOOLEAN /\ c.cond \in BOOLEAN
              /\ c.ignore \in 0..1
<1> DEFINE A == [op : {"install"}, id : Code, line : {0} \cup Lines, on : BOOLEAN, cond : BOOLEAN, ignore : 0..1]
           B == [op : EditOps, id : Ids, line : {0} \cup Lines, on : BOOLEAN, cond : BOOLEAN, ignore : 0..1]
           C == [op : {"watch", "run", "resume", "close"}]
<1>1. c \in A \/ c \in B \/ c \in C
  BY DEF Cmds
<1>2. CASE c \in A
  BY <1>2 DEF EditOps
<1>3. CASE c \in B
  BY <1>3 DEF EditOps
<1>4. CASE c \in C
  BY <1>4 DEF EditOps
<1> QED BY <1>1, <1>2, <1>3, <1>4

(* The fields of an answer. *)
LEMMA AnswerFields ==
  ASSUME NEW a \in Answers
  PROVE  /\ a.op \in {"installed", "watched", "refused", "exited", "closed", "stopped"}
         /\ a.op = "installed" => a.id \in Code /\ a.num \in 1..MaxNum /\ a.locs \in SUBSET Lines
         /\ a.op = "watched" => a.id \in Watches
         /\ a.op = "stopped" =>
              /\ a.why \in Ids \cup {<<>>} /\ DOMAIN a.bps \subseteq Ids
              /\ a.bps \in [DOMAIN a.bps -> CoreBreakpoint]
<1> DEFINE A == [op : {"installed"}, id : Code, num : 1..MaxNum, locs : SUBSET Lines]
           B == [op : {"watched"}, id : Watches]
           C == [op : {"refused", "exited", "closed"}]
           D == [op : {"stopped"}, why : Ids \cup {<<>>}, bps : Snapshots]
<1>1. a \in A \/ a \in B \/ a \in C \/ a \in D
  BY DEF Answers
<1>2. CASE a \in A
  BY <1>2
<1>3. CASE a \in B
  BY <1>3
<1>4. CASE a \in C
  BY <1>4
<1>5. CASE a \in D
  <2>1. a.bps \in Snapshots /\ a.op = "stopped" /\ a.why \in Ids \cup {<<>>}
    BY <1>5
  <2>2. PICK E \in SUBSET Ids : a.bps \in [E -> CoreBreakpoint]
    BY <2>1 DEF Snapshots
  <2> QED BY <2>1, <2>2
<1> QED BY <1>1, <1>2, <1>3, <1>4, <1>5

\* r holds a command op for each breakpoint of S, with what to says of it, in
\* the order of the map.
Orders(r, op, S, to) ==
  /\ r \in Seq(Cmds) /\ DOMAIN r = 1..Len(r)
  /\ \A k \in 1..Len(r) :
       /\ r[k].op = op /\ r[k].id \in S
       /\ r[k].on = to[r[k].id].on /\ r[k].cond = to[r[k].id].cond
       /\ r[k].ignore = IgnoreCount(to[r[k].id])
  /\ \A j, k \in 1..Len(r) : j < k => Before(r[j].id, r[k].id)
  /\ \A i \in S : \E k \in 1..Len(r) : r[k].id = i

(* At most one hit is ignored. *)
LEMMA IgnoreCountType ==
  ASSUME NEW bp \in Breakpoint
  PROVE  IgnoreCount(bp) \in 0..1
BY DEF Breakpoint, IgnoreCount

(* A command for a breakpoint is one of the commands. *)
LEMMA CommandType ==
  ASSUME NEW op, NEW i \in Ids, NEW bp \in Breakpoint,
         op \in EditOps \/ (op = "install" /\ i[1] = "code")
  PROVE  Command(op, i, bp) \in Cmds
<1>1. /\ bp.line \in {0} \cup Lines /\ bp.on \in BOOLEAN /\ bp.cond \in BOOLEAN
      /\ IgnoreCount(bp) \in 0..1
  BY IgnoreCountType DEF Breakpoint
<1>2. op = "install" => i \in Code
  BY DEF Ids, Code, EditOps
<1> QED BY <1>1, <1>2 DEF Command, Cmds

(* ForEach sends one command for each breakpoint of S, in the order of the map. *)
LEMMA ForEachOrders ==
  ASSUME NEW op, NEW S, NEW to, S \subseteq Ids, IsFiniteSet(S), S \subseteq DOMAIN to,
         \A i \in S : to[i] \in Breakpoint,
         op \in EditOps \/ (op = "install" /\ S \subseteq Code)
  PROVE  Orders(ForEach(op, S, to), op, S, to)
<1> DEFINE n == Cardinality(S)
           o == InOrder(S)
           r == [k \in 1..n |-> Command(op, o[k], to[o[k]])]
<1>1. /\ n \in Nat /\ o \in [1..n -> S]
      /\ \A j, k \in 1..n : j < k => Before(o[j], o[k])
      /\ \A i \in S : \E k \in 1..n : o[k] = i
  BY InOrderSorts
<1>2. ForEach(op, S, to) = r
  BY <1>1 DEF ForEach
<1> HIDE DEF o, n
<1>3. \A k \in 1..n : Command(op, o[k], to[o[k]]) \in Cmds
  <2> SUFFICES ASSUME NEW k \in 1..n PROVE Command(op, o[k], to[o[k]]) \in Cmds
    OBVIOUS
  <2>1. o[k] \in S /\ o[k] \in Ids /\ to[o[k]] \in Breakpoint
    BY <1>1
  <2>2. op \in EditOps \/ (op = "install" /\ o[k][1] = "code")
    BY <2>1 DEF Code
  <2> QED BY <2>1, <2>2, CommandType
<1>4. r \in Seq(Cmds) /\ Len(r) = n
  BY <1>1, <1>3
<1>5. \A k \in 1..n : /\ r[k].op = op /\ r[k].id = o[k] /\ r[k].on = to[o[k]].on
                      /\ r[k].cond = to[o[k]].cond /\ r[k].ignore = IgnoreCount(to[o[k]])
  BY DEF Command
<1> HIDE DEF r
<1>6. Orders(r, op, S, to)
  BY <1>1, <1>4, <1>5 DEF Orders
<1> QED BY <1>2, <1>6

-----------------------------------------------------------------------------
(* The steps, breakpoint by breakpoint                                     *)

\* p is q and e at its end.
Added(q, e, p) ==
  /\ Len(q) \in Nat /\ Len(p) = Len(q) + 1 /\ DOMAIN q = 1..Len(q) /\ DOMAIN p = 1..Len(q) + 1
  /\ \A k \in 1..Len(q) : p[k] = q[k]
  /\ p[Len(q) + 1] = e

\* f is g outside S.
Same(f, g, D) == \A j \in D : f[j] = g[j]

\* f is a function, and nothing else.
IsMap(f) == f = [i \in DOMAIN f |-> f[i]]

\* A command op for each breakpoint of S is sent if there is a target.
Edited(op, S, to, r) ==
  /\ fault = "none" /\ (target = "unloading" => "editClosing" \in mishaps)
  /\ r \in Seq(Cmds) /\ commands' \in Seq(Cmds) /\ Grown(commands, r, commands')
  /\ HasImpl => Orders(r, op, S, to)
  /\ ~HasImpl => r = <<>>
  /\ dialog = "closed"
  /\ UNCHANGED <<dialog, target, coreVars, answers, fault, runs, targets, mishaps>>
Adding(i, r) ==
  /\ i = <<"code", nextNum>> /\ i \in Ids \ DOMAIN list /\ nextNum' = nextNum + 1
  /\ DOMAIN list' = DOMAIN list \cup {i} /\ Same(list', list, DOMAIN list)
  /\ list'[i] \in Breakpoint
  /\ list'[i].on = TRUE /\ list'[i].cond = FALSE /\ list'[i].hits = 0 /\ list'[i].curr = 0
  /\ list'[i].impl = 0 /\ list'[i].locs = {}
  /\ RowsMatchList'
  /\ Edited("install", {i}, list', r)
Removing(S, r) ==
  /\ HasImpl \/ "renumber" \in mishaps
  /\ (target = "running" /\ S # Codes(S)) => "removeWatch" \in mishaps
  /\ S \subseteq DOMAIN list
  /\ DOMAIN list' = DOMAIN list \ S /\ Same(list', list, DOMAIN list \ S)
  /\ nextNum' = nextNum /\ RowsMatchList'
  /\ Edited("remove", S, list, r)
Changing(op, S, r) ==
  /\ op \in {"enable", "condition", "ignore"} /\ S \subseteq DOMAIN list
  /\ DOMAIN list' = DOMAIN list /\ nextNum' = nextNum
  /\ \A j \in DOMAIN list :
       /\ list'[j] \in Breakpoint
       /\ list'[j].line = list[j].line /\ list'[j].impl = list[j].impl /\ list'[j].locs = list[j].locs
       /\ list'[j].curr \in {0, list[j].curr}
       /\ op # "enable" \/ j \notin S => list'[j].on = list[j].on
       /\ op # "condition" \/ j \notin S => list'[j].cond = list[j].cond
       /\ op # "ignore" \/ j \notin S => list'[j].hits = list[j].hits /\ list'[j].curr = list[j].curr
       /\ "staleHits" \notin mishaps =>
            list'[j].curr = list[j].curr /\ ~(op = "ignore" /\ target = "running")
  /\ RowsMatchList'
  /\ Edited(op, S, list', r)

Asking == AddWatchpoint /\ commands' \in Seq(Cmds) /\ Added(commands, Plain("watch"), commands')
Loading(r) ==
  /\ fault = "none" /\ target = "loading" /\ target' = "loaded" /\ commands = <<>>
  /\ core' = <<>> /\ coreUp' = TRUE /\ coreNext' = [t \in {"code", "watch"} |-> 1]
  /\ commands' = r /\ Orders(r, "install", Codes(DOMAIN list), list)
  /\ UNCHANGED <<listVars, dialog, moving, answers, fault, counts, mishaps>>
Launching(r) ==
  /\ fault = "none" /\ dialog = "closed" /\ target = "loaded" /\ target' = "running"
  /\ DOMAIN list' = DOMAIN list
  /\ \A j \in DOMAIN list :
       /\ list'[j] \in Breakpoint /\ list'[j].curr = 0
       /\ list'[j].line = list[j].line /\ list'[j].impl = list[j].impl /\ list'[j].locs = list[j].locs
       /\ list'[j].on = list[j].on /\ list'[j].cond = list[j].cond /\ list'[j].hits = list[j].hits
  /\ RowsMatchList' /\ Orders(r, "ignore", DOMAIN list, list')
  /\ commands' \in Seq(Cmds) /\ Len(commands) \in Nat /\ Len(r) \in Nat
  /\ DOMAIN commands = 1..Len(commands) /\ DOMAIN commands' = 1..Len(commands) + Len(r) + 1
  /\ Len(commands') = Len(commands) + Len(r) + 1
  /\ \A k \in 1..Len(commands) : commands'[k] = commands[k]
  /\ \A k \in 1..Len(r) : commands'[Len(commands) + k] = r[k]
  /\ \A k \in 1..Len(commands) + Len(r) + 1 :
       \/ k \in 1..Len(commands)
       \/ k - Len(commands) \in 1..Len(r) /\ commands'[k] = r[k - Len(commands)]
       \/ k = Len(commands) + Len(r) + 1
  /\ commands'[Len(commands) + Len(r) + 1] = Plain("run")
  /\ UNCHANGED <<nextNum, dialog, coreVars, answers, fault, edits, targets, mishaps>>
Continuing == Continue /\ commands' \in Seq(Cmds) /\ Added(commands, Plain("resume"), commands')
Shutting == Close /\ commands' \in Seq(Cmds) /\ Added(commands, Plain("close"), commands')

\* The core thread takes a command: op is what it is.
Taking(op) ==
  /\ fault = "none" /\ Shrunk(commands, commands') /\ commands' \in Seq(Cmds)
  /\ commands[1] \in Cmds /\ commands[1].op = op
  /\ UNCHANGED <<listVars, dialog, target, counts, mishaps>>
Up(op) == coreUp /\ fault' = fault /\ Taking(op)
Telling(a) == answers' \in Seq(Answers) /\ a \in Answers /\ Added(answers, a, answers')

Broken(op) ==
  /\ Taking(op) /\ UNCHANGED <<coreVars, answers>>
  /\ \/ ~coreUp /\ fault' = "noTarget"
     \/ "checked" \in mishaps /\ fault' = "initialProps"
Installing(n, locs) ==
  /\ Up("install") /\ n = coreNext["code"] /\ n \in 1..MaxNum /\ locs \in SUBSET Lines
  /\ coreNext' = [t \in {"code", "watch"} |-> IF t = "code" THEN n + 1 ELSE coreNext[t]]
  /\ DOMAIN core' = DOMAIN core \cup {<<"code", n>>}
  /\ Same(core', core, DOMAIN core \ {<<"code", n>>})
  /\ IsMap(core') /\ core'[<<"code", n>>] \in CoreBreakpoint
  /\ core'[<<"code", n>>].on = commands[1].on /\ core'[<<"code", n>>].cond = commands[1].cond
  /\ core'[<<"code", n>>].ignore = 0 /\ core'[<<"code", n>>].hits = 0
  /\ core'[<<"code", n>>].locs = locs
  /\ Telling([op |-> "installed", id |-> commands[1].id, num |-> n, locs |-> locs])
  /\ UNCHANGED <<coreUp, moving>>
Watching(n) ==
  /\ Up("watch") /\ n = coreNext["watch"] /\ n \in 1..MaxNum
  /\ coreNext' = [t \in {"code", "watch"} |-> IF t = "watch" THEN n + 1 ELSE coreNext[t]]
  /\ DOMAIN core' = DOMAIN core \cup {<<"watch", n>>}
  /\ Same(core', core, DOMAIN core \ {<<"watch", n>>})
  /\ IsMap(core') /\ core'[<<"watch", n>>] \in CoreBreakpoint
  /\ core'[<<"watch", n>>].line = 0
  /\ core'[<<"watch", n>>].on = TRUE /\ core'[<<"watch", n>>].cond = FALSE
  /\ core'[<<"watch", n>>].ignore = 0 /\ core'[<<"watch", n>>].hits = 0
  /\ core'[<<"watch", n>>].locs = {}
  /\ Telling([op |-> "watched", id |-> <<"watch", n>>])
  /\ UNCHANGED <<coreUp, moving>>
Refusing == Up("watch") /\ Telling([op |-> "refused"]) /\ UNCHANGED coreVars
Starting ==
  /\ Up("run") /\ moving' = TRUE /\ IsMap(core')
  /\ DOMAIN core' = DOMAIN core
  /\ \A i \in DOMAIN core :
       /\ core'[i] \in CoreBreakpoint /\ core'[i].hits = 0
       /\ core'[i].line = core[i].line /\ core'[i].on = core[i].on
       /\ core'[i].cond = core[i].cond /\ core'[i].ignore = core[i].ignore
       /\ core[i].line = 0 => core'[i].locs = core[i].locs
  /\ UNCHANGED <<coreUp, coreNext, answers>>
Resuming == Up("resume") /\ moving' = TRUE /\ UNCHANGED <<core, coreUp, coreNext, answers>>
Ending ==
  /\ Up("close") /\ core' = <<>> /\ coreUp' = FALSE /\ Telling([op |-> "closed"])
  /\ UNCHANGED <<coreNext, moving>>
NoBreakpoint(op) ==
  /\ op \in EditOps /\ coreUp /\ Taking(op) /\ commands[1].id \notin DOMAIN core
  /\ fault' = "noBreakpoint" /\ UNCHANGED <<coreVars, answers>>
Dropping ==
  /\ Up("remove") /\ commands[1].id \in DOMAIN core
  /\ DOMAIN core' = DOMAIN core \ {commands[1].id} /\ IsMap(core')
  /\ Same(core', core, DOMAIN core \ {commands[1].id})
  /\ UNCHANGED <<coreUp, coreNext, moving, answers>>
Setting(op) ==
  /\ op \in {"enable", "condition", "ignore"} /\ Up(op) /\ commands[1].id \in DOMAIN core
  /\ DOMAIN core' = DOMAIN core /\ IsMap(core')
  /\ Same(core', core, DOMAIN core \ {commands[1].id})
  /\ LET was == core[commands[1].id]
         is == core'[commands[1].id]
     IN  /\ is \in CoreBreakpoint
         /\ is.line = was.line /\ is.locs = was.locs /\ is.hits = was.hits
         /\ is.on = IF op = "enable" THEN commands[1].on ELSE was.on
         /\ is.cond = IF op = "condition" THEN commands[1].cond ELSE was.cond
         /\ is.ignore = IF op = "ignore" THEN commands[1].ignore ELSE was.ignore
  /\ UNCHANGED <<coreUp, coreNext, moving, answers>>

\* The program runs.
Moving ==
  /\ fault = "none" /\ moving
  /\ UNCHANGED <<listVars, dialog, target, coreUp, coreNext, commands, fault, counts, mishaps>>
Counted(i) ==
  /\ i \in DOMAIN core /\ DOMAIN core' = DOMAIN core /\ IsMap(core')
  /\ Same(core', core, DOMAIN core \ {i})
  /\ core'[i] \in CoreBreakpoint
  /\ core'[i].line = core[i].line /\ core'[i].locs = core[i].locs
  /\ core'[i].on = core[i].on /\ core'[i].cond = core[i].cond
  /\ core'[i].hits = (IF core[i].hits < 2 THEN core[i].hits + 1 ELSE core[i].hits)
  /\ core'[i].ignore = (IF core[i].ignore > 0 THEN core[i].ignore - 1 ELSE 0)
Ignored(i) ==
  /\ Moving /\ Counted(i) /\ core[i].on /\ core[i].ignore > 0
  /\ UNCHANGED <<moving, answers>>
Stopping(i) ==
  /\ Moving /\ Counted(i) /\ core[i].on /\ core[i].ignore = 0
  /\ moving' = FALSE /\ Telling([op |-> "stopped", why |-> i, bps |-> core'])
Pausing ==
  /\ Moving /\ core' = core
  /\ moving' = FALSE /\ Telling([op |-> "stopped", why |-> <<>>, bps |-> core])
Exiting == Moving /\ core' = core /\ moving' = FALSE /\ Telling([op |-> "exited"])

\* The main thread takes an answer.
Hearing(op) ==
  /\ fault = "none" /\ Shrunk(answers, answers') /\ answers' \in Seq(Answers)
  /\ answers[1] \in Answers /\ answers[1].op = op
  /\ UNCHANGED <<coreVars, commands, counts, mishaps>>
Outdated ==
  /\ Hearing("installed") /\ answers[1].id \notin DOMAIN list
  /\ UNCHANGED <<listVars, dialog, target, fault>>
Connecting ==
  /\ Hearing("installed") /\ answers[1].id \in DOMAIN list
  /\ RowsMatchList'
  /\ DOMAIN list' = DOMAIN list /\ Same(list', list, DOMAIN list \ {answers[1].id})
  /\ LET was == list[answers[1].id]
         is == list'[answers[1].id]
     IN  /\ is \in Breakpoint
         /\ is.line = was.line /\ is.on = was.on /\ is.cond = was.cond
         /\ is.hits = was.hits /\ is.curr = was.curr
         /\ is.impl = answers[1].num /\ is.locs = was.locs \cup answers[1].locs
  /\ UNCHANGED <<nextNum, dialog, target, fault>>
Listing ==
  /\ Hearing("watched") /\ dialog' = "closed" /\ RowsMatchList'
  /\ DOMAIN list' = DOMAIN list \cup {answers[1].id}
  /\ Same(list', list, DOMAIN list \ {answers[1].id})
  /\ list'[answers[1].id] \in Breakpoint
  /\ LET is == list'[answers[1].id]
     IN  /\ is.line = 0 /\ is.on = TRUE /\ is.cond = FALSE /\ is.hits = 0 /\ is.curr = 0
         /\ is.impl = 0 /\ is.locs = {}
  /\ fault' = IF answers[1].id \in DOMAIN list THEN "unlisted"
              ELSE IF dialog = "closed" THEN "noDialog" ELSE fault
  /\ UNCHANGED <<nextNum, target>>
Reopening ==
  /\ Hearing("refused")
  /\ dialog = "closed" => fault' = "noDialog" /\ dialog' = dialog
  /\ dialog # "closed" => fault' = fault /\ dialog' = "open"
  /\ UNCHANGED <<listVars, target>>
Updating ==
  /\ Hearing("stopped") /\ target' = "stopped" /\ RowsMatchList'
  /\ DOMAIN list' = DOMAIN list
  /\ \A i \in DOMAIN list :
       /\ list'[i] \in Breakpoint
       /\ list'[i].line = list[i].line /\ list'[i].impl = list[i].impl
       /\ list'[i].on = list[i].on /\ list'[i].cond = list[i].cond /\ list'[i].hits = list[i].hits
       /\ i \in DOMAIN answers[1].bps =>
            list'[i].curr = answers[1].bps[i].hits /\ list'[i].locs = answers[1].bps[i].locs
       /\ i \notin DOMAIN answers[1].bps => list'[i].curr = list[i].curr /\ list'[i].locs = list[i].locs
  /\ fault' = IF answers[1].why # <<>> /\ answers[1].why[1] = "watch" /\ answers[1].why \notin DOMAIN list
              THEN "noWatchpoint" ELSE fault
  /\ UNCHANGED <<nextNum, dialog>>
Leaving == Hearing("exited") /\ target' = "loaded" /\ UNCHANGED <<listVars, dialog, fault>>
Disconnecting ==
  /\ Hearing("closed") /\ target' = "none" /\ RowsMatchList'
  /\ DOMAIN list' = DOMAIN list
  /\ \A i \in DOMAIN list :
       /\ list'[i] \in Breakpoint
       /\ list'[i].line = list[i].line /\ list'[i].on = list[i].on /\ list'[i].cond = list[i].cond
       /\ list'[i].hits = list[i].hits /\ list'[i].curr = list[i].curr
       /\ list'[i].impl = 0 /\ list'[i].locs = {}
  /\ UNCHANGED <<nextNum, dialog, fault>>

AnEdit ==
  \/ \E i, r : Adding(i, r)
  \/ \E S, r : Removing(S, r)
  \/ \E op, S, r : Changing(op, S, r)
ARequest ==
  \/ Asking \/ CancelDialog \/ Load \/ AttachFirst \/ Continuing \/ Shutting
  \/ \E r : Loading(r)
  \/ \E r : Launching(r)
ACoreStep ==
  \/ \E op : Broken(op) \/ NoBreakpoint(op) \/ Setting(op)
  \/ \E n, locs : Installing(n, locs)
  \/ \E n : Watching(n)
  \/ Refusing \/ Starting \/ Resuming \/ Ending \/ Dropping
AStop == Pausing \/ Exiting \/ \E i : Ignored(i) \/ Stopping(i)
AnAnswer == Outdated \/ Connecting \/ Listing \/ Reopening \/ Updating \/ Leaving \/ Disconnecting
Step == AnEdit \/ ARequest \/ ACoreStep \/ AStop \/ AnAnswer

(* What is listed is a breakpoint with an id. *)
LEMMA ListFields ==
  ASSUME Shape, NEW i \in DOMAIN list
  PROVE  i \in Ids /\ list[i] \in Breakpoint
BY DEF Shape, TypeOK

(* The rows of the breakpoints that have changed are made anew. *)
LEMMA RowsUpdated ==
  ASSUME Shape, NEW S, NEW to, list' = to, rows' = Updated(S, to), DOMAIN to = DOMAIN list,
         \A i \in DOMAIN list : i \notin S => to[i].locs = list[i].locs
  PROVE  RowsMatchList'
<1>1. rows = [j \in DOMAIN list |-> list[j].locs]
  BY DEF Shape, RowsMatchList
<1>2. rows' = [i \in DOMAIN list |-> IF i \in S THEN to[i].locs ELSE rows[i]]
  BY <1>1 DEF Updated
<1>3. \A i \in DOMAIN list : (IF i \in S THEN to[i].locs ELSE rows[i]) = to[i].locs
  BY <1>1
<1>4. rows' = [i \in DOMAIN to |-> to[i].locs]
  BY <1>2, <1>3
<1> QED BY <1>4 DEF RowsMatchList

(* What is sent for an edit. *)
LEMMA SendEdits ==
  ASSUME Shape, NEW cmds, NEW op, NEW S, NEW to, Orders(cmds, op, S, to), Send(cmds)
  PROVE  \E r \in Seq(Cmds) :
           /\ commands' \in Seq(Cmds) /\ Grown(commands, r, commands')
           /\ HasImpl => Orders(r, op, S, to)
           /\ ~HasImpl => r = <<>>
<1>1. commands \in Seq(Cmds) /\ cmds \in Seq(Cmds)
  BY DEF Shape, Typed, Orders
<1>2. CASE HasImpl
  <2>1. commands' = commands \o cmds
    BY <1>2 DEF Send
  <2> QED BY <1>1, <1>2, <2>1, QueuesChange
<1>3. CASE ~HasImpl
  <2>1. commands' = commands
    BY <1>3 DEF Send
  <2> QED BY <1>1, <1>3, <2>1, QueuesChange
<1> QED BY <1>2, <1>3

(* Add and Toggle add a breakpoint as Adding says. *)
LEMMA AddSteps ==
  ASSUME Shape, NEW line \in {0} \cup Lines, MayEdit, AddAt(line)
  PROVE  \E i, r : Adding(i, r)
<1> DEFINE i == <<"code", nextNum>>
           bp == [line |-> line, on |-> TRUE, cond |-> FALSE, hits |-> 0, curr |-> 0, impl |-> 0, locs |-> {}]
           c == Command("install", i, bp)
<1>1. /\ nextNum <= MaxNum /\ nextNum' = nextNum + 1
      /\ list' = With(list, i, bp) /\ rows' = With(rows, i, {}) /\ Send(<<c>>)
  BY DEF AddAt
<1>2. nextNum \in 1..(MaxNum + 1) /\ MaxNum \in Nat
  BY BoundsAssumption DEF Shape, TypeOK
<1>3. i \in Ids \ DOMAIN list /\ i[1] = "code"
  BY <1>1, <1>2 DEF Shape, Ids
<1>4. bp \in Breakpoint
  BY <1>2 DEF Breakpoint, Lines
<1>5. /\ DOMAIN list' = DOMAIN list \cup {i} /\ Same(list', list, DOMAIN list)
      /\ list'[i] = bp
  BY <1>1, <1>3 DEF With, Same
<1>10. RowsMatchList'
  <2>1. rows = [j \in DOMAIN list |-> list[j].locs]
    BY DEF Shape, RowsMatchList
  <2>2. bp.locs = {}
    OBVIOUS
  <2> HIDE DEF bp, i
  <2>3. DOMAIN rows' = DOMAIN list' /\ \A j \in DOMAIN list' : rows'[j] = list'[j].locs
    BY <1>1, <1>3, <1>5, <2>1, <2>2 DEF With, Same
  <2>4. rows' = [j \in DOMAIN rows' |-> rows'[j]]
    BY <1>1 DEF With
  <2> QED BY <2>3, <2>4 DEF RowsMatchList
<1>6. Orders(<<c>>, "install", {i}, list')
  <2>1. c \in Cmds
    BY <1>3, <1>4, CommandType
  <2>2. c.op = "install" /\ c.id = i /\ c.on = bp.on /\ c.cond = bp.cond /\ c.ignore = IgnoreCount(bp)
    BY DEF Command
  <2> HIDE DEF c, bp
  <2> QED BY <1>5, <2>1, <2>2 DEF Orders
<1>7. PICK r \in Seq(Cmds) :
        /\ commands' \in Seq(Cmds) /\ Grown(commands, r, commands')
        /\ HasImpl => Orders(r, "install", {i}, list')
        /\ ~HasImpl => r = <<>>
  BY <1>1, <1>6, SendEdits
<1>8. Edited("install", {i}, list', r)
  BY <1>7 DEF Edited, MayEdit, coreVars
<1>9. Adding(i, r)
  <2>1. /\ bp.on = TRUE /\ bp.cond = FALSE /\ bp.hits = 0 /\ bp.curr = 0 /\ bp.impl = 0 /\ bp.locs = {}
    OBVIOUS
  <2> HIDE DEF bp, i
  <2>2. i = <<"code", nextNum>>
    BY DEF i
  <2> QED BY <1>1, <1>3, <1>4, <1>5, <1>8, <1>10, <2>1, <2>2 DEF Adding
<1> QED BY <1>9

(* What removes the breakpoints of S is Removing. *)
LEMMA RemoveSteps ==
  ASSUME Shape, NEW S \in SUBSET DOMAIN list, MayEdit, RemoveAll(S),
         (target = "running" /\ S # Codes(S)) => "removeWatch" \in mishaps
  PROVE  \E r : Removing(S, r)
<1>1. /\ HasImpl \/ "renumber" \in mishaps
      /\ list' = Restrict(list, DOMAIN list \ S) /\ nextNum' = nextNum
      /\ Send(ForEach("remove", S, list))
  BY DEF RemoveAll
<1>2. S \subseteq Ids /\ IsFiniteSet(S) /\ \A i \in S : list[i] \in Breakpoint
  BY FS_Subset DEF Shape, TypeOK
<1>3. Orders(ForEach("remove", S, list), "remove", S, list)
  BY <1>2, ForEachOrders DEF EditOps
<1>4. PICK r \in Seq(Cmds) :
        /\ commands' \in Seq(Cmds) /\ Grown(commands, r, commands')
        /\ HasImpl => Orders(r, "remove", S, list)
        /\ ~HasImpl => r = <<>>
  BY <1>1, <1>3, SendEdits
<1>5. Edited("remove", S, list, r)
  BY <1>4 DEF Edited, MayEdit, coreVars
<1>6. DOMAIN list' = DOMAIN list \ S /\ Same(list', list, DOMAIN list \ S)
  BY <1>1 DEF Restrict, Same
<1>7. RowsMatchList'
  <2>1. rows = [j \in DOMAIN list |-> list[j].locs]
    BY DEF Shape, RowsMatchList
  <2>2. rows' = Restrict(rows, DOMAIN rows \ S)
    BY DEF RemoveAll
  <2>3. DOMAIN rows' = DOMAIN list' /\ \A j \in DOMAIN list' : rows'[j] = list'[j].locs
    BY <1>6, <2>1, <2>2 DEF Restrict, Same
  <2>4. rows' = [j \in DOMAIN rows' |-> rows'[j]]
    BY <2>2 DEF Restrict
  <2> QED BY <2>3, <2>4 DEF RowsMatchList
<1> QED BY <1>1, <1>5, <1>6, <1>7 DEF Removing

(* What changes one field of the breakpoints of S is Changing. *)
LEMMA ChangeSteps ==
  ASSUME Shape, MayEdit, NEW op \in {"enable", "condition", "ignore"},
         NEW S \in SUBSET DOMAIN list, NEW to, Change(op, S, to),
         DOMAIN to = DOMAIN list,
         \A j \in DOMAIN list :
           /\ to[j] \in Breakpoint
           /\ to[j].line = list[j].line /\ to[j].impl = list[j].impl /\ to[j].locs = list[j].locs
           /\ to[j].curr \in {0, list[j].curr}
           /\ op # "enable" \/ j \notin S => to[j].on = list[j].on
           /\ op # "condition" \/ j \notin S => to[j].cond = list[j].cond
           /\ op # "ignore" \/ j \notin S => to[j].hits = list[j].hits /\ to[j].curr = list[j].curr
           /\ "staleHits" \notin mishaps =>
                to[j].curr = list[j].curr /\ ~(op = "ignore" /\ target = "running")
  PROVE  \E r : Changing(op, S, r)
<1>1. list' = to /\ nextNum' = nextNum /\ Send(ForEach(op, S, to))
  BY DEF Change
<1>2. S \subseteq Ids /\ IsFiniteSet(S) /\ S \subseteq DOMAIN to
  BY FS_Subset DEF Shape, TypeOK
<1>3. Orders(ForEach(op, S, to), op, S, to)
  BY <1>2, ForEachOrders DEF EditOps
<1>4. PICK r \in Seq(Cmds) :
        /\ commands' \in Seq(Cmds) /\ Grown(commands, r, commands')
        /\ HasImpl => Orders(r, op, S, to)
        /\ ~HasImpl => r = <<>>
  BY <1>1, <1>3, SendEdits
<1>5. Edited(op, S, list', r)
  BY <1>1, <1>4 DEF Edited, MayEdit, coreVars
<1>6. RowsMatchList'
  <2>1. rows' = Updated(S, to)
    BY DEF Change
  <2> QED BY <1>1, <2>1, RowsUpdated
<1> QED BY <1>1, <1>5, <1>6 DEF Changing

(* Enabling or disabling is a change. *)
LEMMA SetEnabledSteps ==
  ASSUME Shape, NEW S \in SUBSET DOMAIN list, NEW on \in BOOLEAN, SetEnabled(S, on)
  PROVE  \E r : Changing("enable", S, r)
<1> DEFINE to == [i \in DOMAIN list |-> IF i \in S THEN [list[i] EXCEPT !.on = on] ELSE list[i]]
<1>1. MayEdit /\ Change("enable", S, to)
  BY DEF SetEnabled
<1>2. ASSUME NEW j \in DOMAIN list
      PROVE  /\ to[j] \in Breakpoint
             /\ to[j].line = list[j].line /\ to[j].impl = list[j].impl /\ to[j].locs = list[j].locs
             /\ j \notin S => to[j].on = list[j].on
             /\ to[j].cond = list[j].cond
             /\ to[j].hits = list[j].hits /\ to[j].curr = list[j].curr
  BY ListFields DEF Breakpoint
<1>3. DOMAIN to = DOMAIN list
  OBVIOUS
<1> HIDE DEF to
<1> QED BY <1>1, <1>2, <1>3, ChangeSteps

(* Setting a condition is a change. *)
LEMMA SetConditionSteps ==
  ASSUME Shape, NEW i \in DOMAIN list, NEW cond \in BOOLEAN, SetCondition(i, cond)
  PROVE  \E r : Changing("condition", {i}, r)
<1> DEFINE to == [list EXCEPT ![i].cond = cond]
<1>1. MayEdit /\ Change("condition", {i}, to)
  BY DEF SetCondition
<1>2. ASSUME NEW j \in DOMAIN list
      PROVE  /\ to[j] \in Breakpoint
             /\ to[j].line = list[j].line /\ to[j].impl = list[j].impl /\ to[j].locs = list[j].locs
             /\ to[j].on = list[j].on
             /\ j \notin {i} => to[j].cond = list[j].cond
             /\ to[j].hits = list[j].hits /\ to[j].curr = list[j].curr
  BY ListFields DEF Breakpoint
<1>3. DOMAIN to = DOMAIN list /\ {i} \subseteq DOMAIN list
  OBVIOUS
<1> HIDE DEF to
<1> QED BY <1>1, <1>2, <1>3, ChangeSteps

(* Setting a hit count is a change, of the ignore count. *)
LEMMA SetHitCountSteps ==
  ASSUME Shape, NEW i \in DOMAIN list, NEW hits \in {0, 2}, NEW reset \in BOOLEAN,
         SetHitCount(i, hits, reset)
  PROVE  \E r : Changing("ignore", {i}, r)
<1> DEFINE to == [list EXCEPT ![i].hits = hits, ![i].curr = IF reset THEN 0 ELSE @]
<1>1. MayEdit /\ Change("ignore", {i}, to) /\ ((reset \/ target = "running") => "staleHits" \in mishaps)
  BY DEF SetHitCount
<1>2. ASSUME NEW j \in DOMAIN list
      PROVE  /\ to[j] \in Breakpoint
             /\ to[j].line = list[j].line /\ to[j].impl = list[j].impl /\ to[j].locs = list[j].locs
             /\ to[j].on = list[j].on
             /\ to[j].cond = list[j].cond
             /\ j \notin {i} => to[j].hits = list[j].hits /\ to[j].curr = list[j].curr
             /\ ~reset => to[j].curr = list[j].curr
             /\ to[j].curr \in {0, list[j].curr}
  <2>1. list[j] \in Breakpoint
    BY ListFields
  <2>2. j # i => to[j] = list[j]
    BY <2>1
  <2>3. to[i] = [list[i] EXCEPT !.hits = hits, !.curr = IF reset THEN 0 ELSE list[i].curr]
    BY <2>1
  <2> HIDE DEF to
  <2>4. CASE j = i
    <3>1. PICK c \in 0..2 : c = (IF reset THEN 0 ELSE list[i].curr) /\ (~reset => c = list[i].curr) /\ c \in {0, list[i].curr}
      BY <2>1, <2>4 DEF Breakpoint
    <3>2. to[i] = [list[i] EXCEPT !.hits = hits, !.curr = c]
      BY <2>3, <3>1
    <3>3. /\ to[i] \in Breakpoint /\ to[i].line = list[i].line /\ to[i].impl = list[i].impl
          /\ to[i].locs = list[i].locs /\ to[i].on = list[i].on /\ to[i].cond = list[i].cond
          /\ to[i].curr = c
      BY <2>1, <2>4, <3>2 DEF Breakpoint
    <3> QED BY <2>4, <3>1, <3>3
  <2> QED BY <2>1, <2>2, <2>4
<1>3. DOMAIN to = DOMAIN list /\ {i} \subseteq DOMAIN list
  OBVIOUS
<1> HIDE DEF to
<1>4. "staleHits" \notin mishaps => \A j \in DOMAIN list : to[j].curr = list[j].curr /\ target # "running"
  BY <1>1, <1>2
<1> QED BY <1>1, <1>2, <1>3, <1>4, ChangeSteps

(* The requests of the main thread. *)
LEMMA PlainType == \A op \in {"watch", "run", "resume", "close"} : Plain(op) \in Cmds
BY DEF Plain, Cmds

(* Append adds one element. *)
LEMMA AddedOne ==
  ASSUME NEW U, NEW q \in Seq(U), NEW e \in U
  PROVE  Append(q, e) \in Seq(U) /\ Added(q, e, Append(q, e))
BY DEF Added

(* A command without a breakpoint is added to the core thread's queue. *)
LEMMA SentPlain ==
  ASSUME Shape, NEW op \in {"watch", "run", "resume", "close"}, commands' = Append(commands, Plain(op))
  PROVE  commands' \in Seq(Cmds) /\ Added(commands, Plain(op), commands')
<1>1. commands \in Seq(Cmds) /\ Plain(op) \in Cmds
  BY PlainType DEF Shape, Typed
<1> QED BY <1>1, AddedOne

(* Loaded sends the installs as Loading says. *)
LEMMA LoadedSteps ==
  ASSUME Shape, Loaded
  PROVE  \E r : Loading(r)
<1> DEFINE S == Codes(DOMAIN list)
           r == ForEach("install", S, list)
<1>1. S \subseteq DOMAIN list /\ S \subseteq Ids /\ \A i \in S : i[1] = "code" /\ list[i] \in Breakpoint
  BY DEF Shape, TypeOK, Codes
<1>2. IsFiniteSet(S) /\ S \subseteq Code
  <2>1. IsFiniteSet(S)
    BY <1>1, FS_Subset DEF Shape
  <2>2. S \subseteq Code
    BY <1>1 DEF Ids, Code
  <2> QED BY <2>1, <2>2
<1>3. Orders(r, "install", S, list)
  <2> HIDE DEF S
  <2> QED BY <1>1, <1>2, ForEachOrders
<1>4. commands' = r
  BY DEF Loaded
<1> HIDE DEF r
<1>5. Loading(r)
  BY <1>3, <1>4 DEF Loading, Loaded
<1> QED BY <1>5

(* Launch sends the ignore counts and the run as Launching says. *)
LEMMA LaunchSteps ==
  ASSUME Shape, Launch
  PROVE  \E r : Launching(r)
<1> DEFINE S == DOMAIN list
           r == ForEach("ignore", S, Started)
           q == commands \o r
<1>1. S \subseteq Ids /\ IsFiniteSet(S) /\ DOMAIN Started = S
  BY DEF Shape, TypeOK, Started
<1>2. ASSUME NEW j \in S
      PROVE  /\ Started[j] \in Breakpoint /\ Started[j].curr = 0
             /\ Started[j].line = list[j].line /\ Started[j].impl = list[j].impl /\ Started[j].locs = list[j].locs
             /\ Started[j].on = list[j].on /\ Started[j].cond = list[j].cond /\ Started[j].hits = list[j].hits
  BY ListFields DEF Started, Breakpoint
<1>3. Orders(r, "ignore", S, Started)
  BY <1>1, <1>2, ForEachOrders DEF EditOps
<1>4. /\ fault = "none" /\ dialog = "closed" /\ target = "loaded" /\ target' = "running"
      /\ list' = Started /\ rows' = Updated(S, Started) /\ commands' = q \o <<Plain("run")>>
      /\ UNCHANGED <<nextNum, dialog, coreVars, answers, fault, edits, targets, mishaps>>
  BY DEF Launch
<1>5. commands \in Seq(Cmds) /\ r \in Seq(Cmds) /\ Plain("run") \in Cmds /\ <<Plain("run")>> \in Seq(Cmds)
  BY <1>3, PlainType DEF Shape, Typed, Orders
<1> HIDE DEF r
<1>6. q \in Seq(Cmds) /\ Grown(commands, r, q)
  BY <1>5, QueuesChange
<1> HIDE DEF q
<1>7. commands' \in Seq(Cmds) /\ Grown(q, <<Plain("run")>>, commands')
  BY <1>4, <1>5, <1>6, QueuesChange
<1>8. Len(<<Plain("run")>>) = 1 /\ <<Plain("run")>>[1] = Plain("run")
  OBVIOUS
<1>9. /\ Len(commands) \in Nat /\ Len(r) \in Nat
      /\ DOMAIN commands = 1..Len(commands) /\ DOMAIN commands' = 1..Len(commands) + Len(r) + 1
      /\ Len(commands') = Len(commands) + Len(r) + 1
      /\ \A k \in 1..Len(commands) : commands'[k] = commands[k]
      /\ \A k \in 1..Len(r) : commands'[Len(commands) + k] = r[k]
      /\ \A k \in 1..Len(commands) + Len(r) + 1 :
           \/ k \in 1..Len(commands)
           \/ k - Len(commands) \in 1..Len(r) /\ commands'[k] = r[k - Len(commands)]
           \/ k = Len(commands) + Len(r) + 1
      /\ commands'[Len(commands) + Len(r) + 1] = Plain("run")
  <2>1. /\ Len(commands) \in Nat /\ Len(r) \in Nat /\ Len(q) = Len(commands) + Len(r)
        /\ DOMAIN commands = 1..Len(commands) /\ DOMAIN commands' = 1..Len(q) + 1
        /\ Len(commands') = Len(q) + 1
        /\ \A k \in 1..Len(q) : commands'[k] = q[k]
        /\ commands'[Len(q) + 1] = Plain("run")
    BY <1>6, <1>7, <1>8 DEF Grown
  <2>2. /\ \A k \in 1..Len(commands) : q[k] = commands[k]
        /\ \A k \in 1..Len(r) : q[Len(commands) + k] = r[k]
        /\ \A k \in 1..Len(q) : k > Len(commands) => k - Len(commands) \in 1..Len(r) /\ q[k] = r[k - Len(commands)]
    BY <1>6, <2>1 DEF Grown
  <2>3. \A k \in 1..Len(commands) : commands'[k] = commands[k]
    BY <2>1, <2>2
  <2>4. \A k \in 1..Len(r) : commands'[Len(commands) + k] = r[k]
    BY <2>1, <2>2
  <2>5. ASSUME NEW k \in 1..Len(commands) + Len(r) + 1
        PROVE  \/ k \in 1..Len(commands)
               \/ k - Len(commands) \in 1..Len(r) /\ commands'[k] = r[k - Len(commands)]
               \/ k = Len(commands) + Len(r) + 1
    BY <2>1, <2>2
  <2> QED BY <2>1, <2>3, <2>4, <2>5
<1>10. RowsMatchList'
  BY <1>1, <1>4, RowsUpdated
<1>11. Launching(r)
  BY <1>1, <1>10, <1>2, <1>3, <1>4, <1>7, <1>9 DEF Launching
<1> QED BY <1>11

(* The core thread. *)
LEMMA TakingSteps ==
  ASSUME Shape, CoreStep
  PROVE  /\ Taking(commands[1].op) /\ Execute(commands[1]) /\ commands[1] \in Cmds
<1>1. commands \in Seq(Cmds) /\ commands # <<>> /\ commands' = Tail(commands)
  BY DEF Shape, Typed, CoreStep
<1>2. commands' \in Seq(Cmds) /\ Head(commands) \in Cmds /\ Shrunk(commands, commands')
  BY <1>1, QueuesChange
<1>3. Head(commands) = commands[1]
  BY <1>2 DEF Shrunk
<1> QED BY <1>2, <1>3 DEF CoreStep, Taking

(* A reply is one more answer. *)
LEMMA Tells ==
  ASSUME Shape, NEW a \in Answers, Reply(a)
  PROVE  Telling(a)
<1>1. answers \in Seq(Answers) /\ answers' = Append(answers, a)
  BY DEF Shape, Typed, Reply
<1> QED BY <1>1, AddedOne DEF Telling

(* Executing an install is Installing. *)
LEMMA InstallSteps ==
  ASSUME Shape, Up("install"), Install(commands[1])
  PROVE  \E n, locs : Installing(n, locs)
<1> DEFINE n == coreNext["code"]
           c == commands[1]
<1>1. /\ c \in Cmds /\ c.op = "install" /\ c.id \in Code /\ c.line \in {0} \cup Lines
      /\ c.on \in BOOLEAN /\ c.cond \in BOOLEAN
  BY CommandFields DEF Up, Taking, EditOps
<1>2. n <= MaxNum /\ n \in 1..MaxNum /\ coreNext \in [{"code", "watch"} -> 1..(MaxNum + 1)]
  BY BoundsAssumption DEF Install, Shape, TypeOK
<1>3. coreNext' = [t \in {"code", "watch"} |-> IF t = "code" THEN n + 1 ELSE coreNext[t]]
  <2>1. coreNext' = [coreNext EXCEPT !["code"] = n + 1]
    BY DEF Install
  <2> QED BY <1>2, <2>1
<1>4. PICK locs \in Resolutions(c.line) :
        /\ core' = With(core, <<"code", n>>,
             [line |-> c.line, on |-> c.on, cond |-> c.cond, ignore |-> 0, hits |-> 0, locs |-> locs])
        /\ Reply([op |-> "installed", id |-> c.id, num |-> n, locs |-> locs])
  BY DEF Install
<1>5. locs \in SUBSET Lines
  BY <1>1 DEF Resolutions, Lines
<1>6. [op |-> "installed", id |-> c.id, num |-> n, locs |-> locs] \in Answers
  BY <1>1, <1>2, <1>5 DEF Answers
<1>7. Telling([op |-> "installed", id |-> c.id, num |-> n, locs |-> locs])
  BY <1>4, <1>6, Tells
<1>8. /\ DOMAIN core' = DOMAIN core \cup {<<"code", n>>}
      /\ Same(core', core, DOMAIN core \ {<<"code", n>>})
      /\ core'[<<"code", n>>] = [line |-> c.line, on |-> c.on, cond |-> c.cond, ignore |-> 0, hits |-> 0, locs |-> locs]
      /\ IsMap(core')
  <2> DEFINE new == [line |-> c.line, on |-> c.on, cond |-> c.cond, ignore |-> 0, hits |-> 0, locs |-> locs]
             i == <<"code", n>>
  <2> HIDE DEF new, i
  <2>1. core' = With(core, i, new)
    BY <1>4 DEF new, i
  <2>2. /\ DOMAIN core' = DOMAIN core \cup {i}
        /\ Same(core', core, DOMAIN core \ {i})
        /\ core'[i] = new /\ IsMap(core')
    BY <2>1 DEF With, Same, IsMap
  <2> QED BY <2>2 DEF new, i
<1>9. core'[<<"code", n>>] \in CoreBreakpoint
  BY <1>1, <1>5, <1>8 DEF CoreBreakpoint
<1>10. UNCHANGED <<coreUp, moving>>
  BY DEF Install
<1>11. Installing(n, locs)
  <2> HIDE DEF n, c
  <2>1. /\ core'[<<"code", n>>].on = c.on /\ core'[<<"code", n>>].cond = c.cond
        /\ core'[<<"code", n>>].ignore = 0 /\ core'[<<"code", n>>].hits = 0
        /\ core'[<<"code", n>>].locs = locs
    BY <1>8
  <2>2. n = coreNext["code"] /\ c = commands[1]
    BY DEF n, c
  <2> QED BY <1>2, <1>3, <1>5, <1>7, <1>8, <1>9, <1>10, <2>1, <2>2 DEF Installing
<1> QED BY <1>11

(* Executing a request for a watchpoint sets it or refuses it. *)
LEMMA WatchSteps ==
  ASSUME Shape, Up("watch"), Watch
  PROVE  Refusing \/ \E n : Watching(n)
<1>1. CASE Reply([op |-> "refused"]) /\ UNCHANGED <<coreVars, fault>>
  <2>1. [op |-> "refused"] \in Answers
    BY DEF Answers
  <2> QED BY <1>1, <2>1, Tells DEF Refusing
<1>2. CASE ~(Reply([op |-> "refused"]) /\ UNCHANGED <<coreVars, fault>>)
  <2> DEFINE n == coreNext["watch"]
             i == <<"watch", n>>
             new == [line |-> 0, on |-> TRUE, cond |-> FALSE, ignore |-> 0, hits |-> 0, locs |-> {}]
  <2>1. /\ n <= MaxNum /\ coreNext' = [coreNext EXCEPT !["watch"] = n + 1]
        /\ core' = With(core, i, new) /\ Reply([op |-> "watched", id |-> i])
        /\ UNCHANGED <<coreUp, moving, fault>>
    BY <1>2 DEF Watch
  <2>2. n \in 1..MaxNum /\ coreNext \in [{"code", "watch"} -> 1..(MaxNum + 1)]
    BY <2>1, BoundsAssumption DEF Shape, TypeOK
  <2>3. coreNext' = [t \in {"code", "watch"} |-> IF t = "watch" THEN n + 1 ELSE coreNext[t]]
    BY <2>1, <2>2
  <2>4. i \in Watches
    BY <2>2 DEF Watches
  <2>5. [op |-> "watched", id |-> i] \in Answers
    BY <2>4 DEF Answers
  <2>6. Telling([op |-> "watched", id |-> i])
    BY <2>1, <2>5, Tells
  <2>7. /\ new \in CoreBreakpoint /\ new.line = 0 /\ new.on = TRUE /\ new.cond = FALSE
        /\ new.ignore = 0 /\ new.hits = 0 /\ new.locs = {}
    BY DEF CoreBreakpoint
  <2> HIDE DEF new
  <2>8. /\ DOMAIN core' = DOMAIN core \cup {i}
        /\ Same(core', core, DOMAIN core \ {i})
        /\ core'[i] = new /\ IsMap(core')
    BY <2>1 DEF With, Same, IsMap
  <2>9. Watching(n)
    BY <2>1, <2>2, <2>3, <2>6, <2>7, <2>8 DEF Watching
  <2> QED BY <2>9
<1> QED BY <1>1, <1>2

(* What LLDB has is a breakpoint with an id. *)
LEMMA CoreFields ==
  ASSUME Shape, NEW i \in DOMAIN core
  PROVE  i \in Ids /\ core[i] \in CoreBreakpoint
BY DEF Shape, TypeOK

(* Executing a run is Starting. *)
LEMMA RunSteps ==
  ASSUME Shape, Up("run"), Run
  PROVE  Starting
<1>1. PICK loads \in BOOLEAN :
        core' = [i \in DOMAIN core |->
                   [core[i] EXCEPT !.hits = 0,
                                   !.locs = IF loads /\ @ = {} THEN {core[i].line} \cap Lines ELSE @]]
  BY DEF Run
<1>2. DOMAIN core' = DOMAIN core /\ IsMap(core')
  BY <1>1 DEF IsMap
<1>3. ASSUME NEW i \in DOMAIN core
      PROVE  /\ core'[i] \in CoreBreakpoint /\ core'[i].hits = 0
             /\ core'[i].line = core[i].line /\ core'[i].on = core[i].on
             /\ core'[i].cond = core[i].cond /\ core'[i].ignore = core[i].ignore
             /\ core[i].line = 0 => core'[i].locs = core[i].locs
  <2>1. core[i] \in CoreBreakpoint
    BY CoreFields
  <2>2. PICK L \in SUBSET Lines : /\ L = (IF loads /\ core[i].locs = {} THEN {core[i].line} \cap Lines ELSE core[i].locs)
                                  /\ core[i].line = 0 => L = core[i].locs
    <3>1. core[i].locs \in SUBSET Lines
      BY <2>1 DEF CoreBreakpoint
    <3>2. core[i].line = 0 => {core[i].line} \cap Lines = {}
      BY DEF Lines
    <3>3. CASE loads /\ core[i].locs = {}
      BY <3>2, <3>3
    <3>4. CASE ~(loads /\ core[i].locs = {})
      BY <3>1, <3>4
    <3> QED BY <3>3, <3>4
  <2>3. core'[i] = [core[i] EXCEPT !.hits = 0, !.locs = L]
    BY <1>1, <2>1, <2>2
  <2>4. /\ core'[i] \in CoreBreakpoint /\ core'[i].hits = 0
        /\ core'[i].line = core[i].line /\ core'[i].on = core[i].on
        /\ core'[i].cond = core[i].cond /\ core'[i].ignore = core[i].ignore
        /\ core'[i].locs = L
    <3> DEFINE w == [core[i] EXCEPT !.hits = 0]
    <3>1. /\ w \in CoreBreakpoint /\ w.hits = 0 /\ w.line = core[i].line /\ w.on = core[i].on
          /\ w.cond = core[i].cond /\ w.ignore = core[i].ignore
      BY <2>1 DEF CoreBreakpoint
    <3>2. core'[i] = [w EXCEPT !.locs = L]
      BY <2>3
    <3> HIDE DEF w
    <3> QED BY <3>1, <3>2 DEF CoreBreakpoint
  <2> QED BY <2>2, <2>4
<1>4. moving' = TRUE /\ UNCHANGED <<coreUp, coreNext, answers>>
  BY DEF Run
<1> QED BY <1>2, <1>3, <1>4 DEF Starting

(* Executing an edit finds no breakpoint, sets a field of it, or drops it. *)
LEMMA EditSteps ==
  ASSUME Shape, coreUp, NEW op \in EditOps, Taking(op), EditCore(commands[1])
  PROVE  NoBreakpoint(op) \/ Setting(op) \/ Dropping
<1> DEFINE c == commands[1]
           i == c.id
<1>1. /\ c \in Cmds /\ c.op = op /\ i \in Ids /\ c.on \in BOOLEAN /\ c.cond \in BOOLEAN
      /\ c.ignore \in 0..1
  BY CommandFields DEF Taking
<1>2. UNCHANGED <<coreUp, coreNext, moving, answers>>
  BY DEF EditCore
<1>3. CASE i \notin DOMAIN core
  BY <1>2, <1>3 DEF EditCore, NoBreakpoint, coreVars
<1>4. CASE i \in DOMAIN core
  <2>1. /\ fault' = fault
        /\ core' = CASE c.op = "remove" -> Restrict(core, DOMAIN core \ {c.id})
                     [] c.op = "enable" -> [core EXCEPT ![c.id].on = c.on]
                     [] c.op = "condition" -> [core EXCEPT ![c.id].cond = c.cond]
                     [] c.op = "ignore" -> [core EXCEPT ![c.id].ignore = c.ignore]
    BY <1>4 DEF EditCore
  <2>2. core[i] \in CoreBreakpoint /\ core \in [DOMAIN core -> CoreBreakpoint]
    BY <1>4, CoreFields DEF Shape
  <2>3. Up(op)
    BY <2>1 DEF Up
  <2> HIDE DEF c
  <2>4. CASE op = "remove"
    <3>1. core' = Restrict(core, DOMAIN core \ {i})
      BY <1>1, <2>1, <2>4
    <3>2. DOMAIN core' = DOMAIN core \ {i} /\ Same(core', core, DOMAIN core \ {i}) /\ IsMap(core')
      BY <3>1 DEF Restrict, Same, IsMap
    <3> QED BY <1>2, <1>4, <2>3, <2>4, <3>2 DEF Dropping, c
  <2>5. CASE op # "remove"
    <3>1. PICK new \in CoreBreakpoint :
            /\ core' = [core EXCEPT ![i] = new]
            /\ new.line = core[i].line /\ new.locs = core[i].locs /\ new.hits = core[i].hits
            /\ new.on = IF op = "enable" THEN c.on ELSE core[i].on
            /\ new.cond = IF op = "condition" THEN c.cond ELSE core[i].cond
            /\ new.ignore = IF op = "ignore" THEN c.ignore ELSE core[i].ignore
      <4>1. CASE op = "enable"
        <5> DEFINE w == [core[i] EXCEPT !.on = c.on]
        <5>1. core' = [core EXCEPT ![i] = w]
          BY <1>1, <2>1, <4>1
        <5>2. /\ w \in CoreBreakpoint /\ w.line = core[i].line /\ w.locs = core[i].locs /\ w.hits = core[i].hits
              /\ w.on = (IF op = "enable" THEN c.on ELSE core[i].on)
              /\ w.cond = (IF op = "condition" THEN c.cond ELSE core[i].cond)
              /\ w.ignore = (IF op = "ignore" THEN c.ignore ELSE core[i].ignore)
          BY <1>1, <2>2, <4>1 DEF CoreBreakpoint
        <5> HIDE DEF w
        <5> QED BY <5>1, <5>2
      <4>2. CASE op = "condition"
        <5> DEFINE w == [core[i] EXCEPT !.cond = c.cond]
        <5>1. core' = [core EXCEPT ![i] = w]
          BY <1>1, <2>1, <4>2
        <5>2. /\ w \in CoreBreakpoint /\ w.line = core[i].line /\ w.locs = core[i].locs /\ w.hits = core[i].hits
              /\ w.on = (IF op = "enable" THEN c.on ELSE core[i].on)
              /\ w.cond = (IF op = "condition" THEN c.cond ELSE core[i].cond)
              /\ w.ignore = (IF op = "ignore" THEN c.ignore ELSE core[i].ignore)
          BY <1>1, <2>2, <4>2 DEF CoreBreakpoint
        <5> HIDE DEF w
        <5> QED BY <5>1, <5>2
      <4>3. CASE op = "ignore"
        <5> DEFINE w == [core[i] EXCEPT !.ignore = c.ignore]
        <5>1. core' = [core EXCEPT ![i] = w]
          BY <1>1, <2>1, <4>3
        <5>2. /\ w \in CoreBreakpoint /\ w.line = core[i].line /\ w.locs = core[i].locs /\ w.hits = core[i].hits
              /\ w.on = (IF op = "enable" THEN c.on ELSE core[i].on)
              /\ w.cond = (IF op = "condition" THEN c.cond ELSE core[i].cond)
              /\ w.ignore = (IF op = "ignore" THEN c.ignore ELSE core[i].ignore)
          BY <1>1, <2>2, <4>3 DEF CoreBreakpoint
        <5> HIDE DEF w
        <5> QED BY <5>1, <5>2
      <4> QED BY <2>5, <4>1, <4>2, <4>3 DEF EditOps
    <3>2. DOMAIN core' = DOMAIN core /\ Same(core', core, DOMAIN core \ {i}) /\ core'[i] = new /\ IsMap(core')
      BY <1>4, <2>2, <3>1 DEF Same, IsMap
    <3>3. op \in {"enable", "condition", "ignore"}
      BY <2>5 DEF EditOps
    <3> QED BY <1>2, <1>4, <2>3, <3>1, <3>2, <3>3 DEF Setting, c
  <2> QED BY <2>4, <2>5
<1> QED BY <1>3, <1>4

(* Every step of the core thread is one of ACoreStep. *)
LEMMA CoreSteps ==
  ASSUME Shape, CoreStep
  PROVE  ACoreStep
<1> DEFINE c == commands[1]
<1>1. Taking(c.op) /\ Execute(c) /\ c \in Cmds
  BY TakingSteps
<1>2. c.op \in {"install", "remove", "enable", "condition", "ignore", "watch", "run", "resume", "close"}
  BY <1>1, CommandFields
<1> HIDE DEF c
<1>3. CASE ~coreUp
  <2>1. Broken(c.op)
    BY <1>1, <1>3 DEF Execute, Broken
  <2> QED BY <2>1 DEF ACoreStep
<1>4. CASE coreUp
  <2>1. CASE c.op = "install"
    <3>1. CASE Unexpected(c)
      <4>1. CheckFails /\ "checked" \in mishaps
        BY <1>1, <1>4, <2>1, <3>1 DEF Execute, Unexpected
      <4>2. Broken(c.op)
        BY <1>1, <4>1 DEF CheckFails, Broken
      <4> QED BY <4>2 DEF ACoreStep
    <3>2. CASE ~Unexpected(c)
      <4>1. Install(c)
        BY <1>1, <1>4, <2>1, <3>2 DEF Execute
      <4>2. fault' = fault
        BY <4>1 DEF Install
      <4>3. Up("install")
        BY <1>1, <1>4, <2>1, <4>2 DEF Up
      <4> QED BY <4>1, <4>3, InstallSteps DEF c, ACoreStep
    <3> QED BY <3>1, <3>2
  <2>2. CASE c.op = "watch"
    <3>1. Watch
      BY <1>1, <1>4, <2>2 DEF Execute
    <3>2. Up("watch")
      <4>1. fault' = fault
        BY <3>1 DEF Watch
      <4> QED BY <1>1, <1>4, <2>2, <4>1 DEF Up
    <3> QED BY <3>1, <3>2, WatchSteps DEF ACoreStep
  <2>3. CASE c.op = "run"
    <3>1. Run
      BY <1>1, <1>4, <2>3 DEF Execute
    <3>2. Up("run")
      <4>1. fault' = fault
        BY <3>1 DEF Run
      <4> QED BY <1>1, <1>4, <2>3, <4>1 DEF Up
    <3> QED BY <3>1, <3>2, RunSteps DEF ACoreStep
  <2>4. CASE c.op = "resume"
    <3>1. moving' = TRUE /\ UNCHANGED <<core, coreUp, coreNext, answers, fault>>
      BY <1>1, <1>4, <2>4 DEF Execute
    <3>2. Resuming
      BY <1>1, <1>4, <2>4, <3>1 DEF Up, Resuming
    <3> QED BY <3>2 DEF ACoreStep
  <2>5. CASE c.op = "close"
    <3>1. /\ core' = <<>> /\ coreUp' = FALSE /\ Reply([op |-> "closed"])
          /\ UNCHANGED <<coreNext, moving, fault>>
      BY <1>1, <1>4, <2>5 DEF Execute
    <3>2. [op |-> "closed"] \in Answers
      BY DEF Answers
    <3>3. Ending
      BY <1>1, <1>4, <2>5, <3>1, <3>2, Tells DEF Up, Ending
    <3> QED BY <3>3 DEF ACoreStep
  <2>6. CASE c.op \in EditOps
    <3>1. EditCore(c)
      BY <1>1, <1>4, <2>6 DEF Execute, EditOps
    <3> QED BY <1>1, <1>4, <2>6, <3>1, EditSteps DEF c, ACoreStep
  <2> QED BY <1>2, <2>1, <2>2, <2>3, <2>4, <2>5, <2>6 DEF EditOps
<1> QED BY <1>3, <1>4

(* The program runs. *)
LEMMA CoreIsSnapshot ==
  ASSUME NEW f, f \in [DOMAIN f -> CoreBreakpoint], DOMAIN f \subseteq Ids, NEW why \in Ids \cup {<<>>}
  PROVE  [op |-> "stopped", why |-> why, bps |-> f] \in Answers
<1>1. f \in Snapshots
  BY DEF Snapshots
<1> HIDE DEF Snapshots
<1> QED BY <1>1 DEF Answers

(* A hit is ignored, or stops the program. *)
LEMMA HitSteps ==
  ASSUME Shape, NEW i \in DOMAIN core, Hit(i)
  PROVE  Ignored(i) \/ Stopping(i)
<1> DEFINE w == [core[i] EXCEPT !.hits = IF @ < 2 THEN @ + 1 ELSE @,
                                !.ignore = IF @ > 0 THEN @ - 1 ELSE 0]
           now == [core EXCEPT ![i].hits = IF @ < 2 THEN @ + 1 ELSE @,
                               ![i].ignore = IF @ > 0 THEN @ - 1 ELSE 0]
<1>1. core[i] \in CoreBreakpoint /\ core \in [DOMAIN core -> CoreBreakpoint] /\ i \in Ids
  BY CoreFields DEF Shape
<1>2. /\ w \in CoreBreakpoint /\ w.line = core[i].line /\ w.locs = core[i].locs
      /\ w.on = core[i].on /\ w.cond = core[i].cond
      /\ w.hits = (IF core[i].hits < 2 THEN core[i].hits + 1 ELSE core[i].hits)
      /\ w.ignore = (IF core[i].ignore > 0 THEN core[i].ignore - 1 ELSE 0)
  <2> DEFINE h == IF core[i].hits < 2 THEN core[i].hits + 1 ELSE core[i].hits
             g == IF core[i].ignore > 0 THEN core[i].ignore - 1 ELSE 0
             v == [core[i] EXCEPT !.hits = h]
  <2>1. h \in 0..2 /\ g \in 0..1
    BY <1>1 DEF CoreBreakpoint
  <2> HIDE DEF h
  <2>2. /\ v \in CoreBreakpoint /\ v.line = core[i].line /\ v.locs = core[i].locs
        /\ v.on = core[i].on /\ v.cond = core[i].cond /\ v.hits = h /\ v.ignore = core[i].ignore
    BY <1>1, <2>1 DEF CoreBreakpoint
  <2> HIDE DEF v
  <2>3. w = [v EXCEPT !.ignore = IF v.ignore > 0 THEN v.ignore - 1 ELSE 0]
    BY DEF v, h
  <2>4. w = [v EXCEPT !.ignore = g]
    BY <2>2, <2>3
  <2> HIDE DEF g, w
  <2>5. /\ w \in CoreBreakpoint /\ w.line = v.line /\ w.locs = v.locs
        /\ w.on = v.on /\ w.cond = v.cond /\ w.hits = v.hits /\ w.ignore = g
    BY <2>1, <2>2, <2>4 DEF CoreBreakpoint
  <2> QED BY <2>2, <2>5 DEF h, g
<1>3. now = [core EXCEPT ![i] = w]
  BY <1>1
<1>4. /\ fault = "none" /\ moving /\ core[i].on
      /\ IF core[i].ignore > 0 THEN core' = now /\ UNCHANGED <<moving, answers>> ELSE Stop(i, now)
      /\ UNCHANGED <<listVars, dialog, target, coreUp, coreNext, commands, fault, counts, mishaps>>
  BY DEF Hit
<1> HIDE DEF w, now
<1>5. core' = now
  BY <1>4 DEF Stop
<1>6. Counted(i)
  BY <1>1, <1>2, <1>3, <1>5 DEF Counted, Same, IsMap
<1>7. Moving
  BY <1>4 DEF Moving
<1>8. CASE core[i].ignore > 0
  BY <1>4, <1>6, <1>7, <1>8 DEF Ignored
<1>9. CASE ~(core[i].ignore > 0)
  <2>1. moving' = FALSE /\ Reply([op |-> "stopped", why |-> i, bps |-> now])
    BY <1>4, <1>9 DEF Stop
  <2>2. now \in [DOMAIN now -> CoreBreakpoint] /\ DOMAIN now \subseteq Ids
    BY <1>1, <1>2, <1>3 DEF Shape, TypeOK
  <2>3. [op |-> "stopped", why |-> i, bps |-> now] \in Answers
    BY <1>1, <2>2, CoreIsSnapshot
  <2>4. Telling([op |-> "stopped", why |-> i, bps |-> core'])
    BY <1>5, <2>1, <2>3, Tells
  <2>5. core[i].ignore = 0
    BY <1>1, <1>9 DEF CoreBreakpoint
  <2> QED BY <1>4, <1>6, <1>7, <2>1, <2>4, <2>5 DEF Stopping
<1> QED BY <1>8, <1>9

(* An interrupt is Pausing. *)
LEMMA PauseSteps ==
  ASSUME Shape, Interrupt
  PROVE  Pausing
<1>1. core \in [DOMAIN core -> CoreBreakpoint] /\ DOMAIN core \subseteq Ids
  BY DEF Shape, TypeOK
<1>2. [op |-> "stopped", why |-> <<>>, bps |-> core] \in Answers
  BY <1>1, CoreIsSnapshot
<1>3. /\ fault = "none" /\ moving /\ moving' = FALSE /\ core' = core
      /\ Reply([op |-> "stopped", why |-> <<>>, bps |-> core])
  BY DEF Interrupt, Stop
<1>4. Telling([op |-> "stopped", why |-> <<>>, bps |-> core])
  BY <1>2, <1>3, Tells
<1> QED BY <1>3, <1>4 DEF Pausing, Moving, Interrupt

(* An exit is Exiting. *)
LEMMA ExitSteps ==
  ASSUME Shape, Exit
  PROVE  Exiting
<1>1. [op |-> "exited"] \in Answers
  BY DEF Answers
<1>2. Telling([op |-> "exited"])
  BY <1>1, Tells DEF Exit
<1> QED BY <1>2 DEF Exiting, Moving, Exit

(* The main thread takes an answer. *)
LEMMA UpdateSteps ==
  ASSUME Shape, Hearing("stopped"), OnStopped(answers[1])
  PROVE  Updating
<1> DEFINE a == answers[1]
           to == [i \in DOMAIN list |->
                    IF i \notin DOMAIN a.bps THEN list[i]
                    ELSE [list[i] EXCEPT !.curr = a.bps[i].hits, !.locs = a.bps[i].locs]]
<1>1. /\ list' = to /\ rows' = Updated(DOMAIN list, to) /\ target' = "stopped" /\ UNCHANGED <<nextNum, dialog>>
      /\ fault' = IF a.why # <<>> /\ a.why[1] = "watch" /\ a.why \notin DOMAIN list
                  THEN "noWatchpoint" ELSE fault
  BY DEF OnStopped
<1>2. a \in Answers /\ a.op = "stopped" /\ a.bps \in [DOMAIN a.bps -> CoreBreakpoint]
  BY AnswerFields DEF Hearing
<1>3. ASSUME NEW i \in DOMAIN list
      PROVE  /\ to[i] \in Breakpoint
             /\ to[i].line = list[i].line /\ to[i].impl = list[i].impl
             /\ to[i].on = list[i].on /\ to[i].cond = list[i].cond /\ to[i].hits = list[i].hits
             /\ i \in DOMAIN a.bps => to[i].curr = a.bps[i].hits /\ to[i].locs = a.bps[i].locs
             /\ i \notin DOMAIN a.bps => to[i].curr = list[i].curr /\ to[i].locs = list[i].locs
  <2>1. list[i] \in Breakpoint
    BY ListFields
  <2>2. CASE i \notin DOMAIN a.bps
    BY <2>1, <2>2 DEF Breakpoint
  <2>3. CASE i \in DOMAIN a.bps
    <3> DEFINE w == [list[i] EXCEPT !.curr = a.bps[i].hits]
    <3>1. a.bps[i].hits \in 0..2 /\ a.bps[i].locs \in SUBSET Lines
      BY <1>2, <2>3 DEF CoreBreakpoint
    <3> HIDE DEF a
    <3>2. /\ w \in Breakpoint /\ w.line = list[i].line /\ w.impl = list[i].impl
          /\ w.on = list[i].on /\ w.cond = list[i].cond /\ w.hits = list[i].hits
          /\ w.curr = a.bps[i].hits
      BY <2>1, <3>1 DEF Breakpoint
    <3>3. to[i] = [w EXCEPT !.locs = a.bps[i].locs]
      BY <2>3
    <3> HIDE DEF w, to
    <3> QED BY <2>3, <3>1, <3>2, <3>3 DEF Breakpoint
  <2> QED BY <2>2, <2>3
<1>4. DOMAIN to = DOMAIN list
  OBVIOUS
<1> HIDE DEF to
<1>5. RowsMatchList'
  BY <1>1, <1>4, RowsUpdated
<1> QED BY <1>1, <1>3, <1>4, <1>5 DEF Updating

(* The answer to a close is Disconnecting. *)
LEMMA DisconnectSteps ==
  ASSUME Shape, Hearing("closed"), OnClosed
  PROVE  Disconnecting
<1> DEFINE to == [i \in DOMAIN list |-> [list[i] EXCEPT !.impl = 0, !.locs = {}]]
<1>1. list' = to /\ rows' = Updated(Codes(DOMAIN list), to) /\ target' = "none" /\ UNCHANGED <<nextNum, dialog, fault>>
  BY DEF OnClosed
<1>2. ASSUME NEW i \in DOMAIN list
      PROVE  /\ to[i] \in Breakpoint
             /\ to[i].line = list[i].line /\ to[i].on = list[i].on /\ to[i].cond = list[i].cond
             /\ to[i].hits = list[i].hits /\ to[i].curr = list[i].curr
             /\ to[i].impl = 0 /\ to[i].locs = {}
  <2> DEFINE w == [list[i] EXCEPT !.impl = 0]
  <2>1. list[i] \in Breakpoint /\ MaxNum \in Nat
    BY ListFields, BoundsAssumption
  <2>2. /\ w \in Breakpoint /\ w.line = list[i].line /\ w.on = list[i].on /\ w.cond = list[i].cond
        /\ w.hits = list[i].hits /\ w.curr = list[i].curr /\ w.impl = 0
    BY <2>1 DEF Breakpoint
  <2>3. to[i] = [w EXCEPT !.locs = {}]
    OBVIOUS
  <2> HIDE DEF w, to
  <2> QED BY <2>2, <2>3 DEF Breakpoint
<1>3. DOMAIN to = DOMAIN list
  OBVIOUS
<1> HIDE DEF to
<1>4. RowsMatchList'
  <2>1. ASSUME NEW i \in DOMAIN list, i \notin Codes(DOMAIN list) PROVE to[i].locs = list[i].locs
    <3>1. i[1] = "watch"
      BY <2>1 DEF Codes, Shape, TypeOK, Ids
    <3> QED BY <1>2, <3>1 DEF Shape, Nowhere
  <2> QED BY <1>1, <1>3, <2>1, RowsUpdated
<1> QED BY <1>1, <1>2, <1>3, <1>4 DEF Disconnecting

(* The answer to an install is Outdated or Connecting. *)
LEMMA InstalledSteps ==
  ASSUME Shape, Hearing("installed"), OnInstalled(answers[1])
  PROVE  Outdated \/ Connecting
<1> DEFINE a == answers[1]
<1>1. a \in Answers /\ a.id \in Code /\ a.num \in 1..MaxNum /\ a.locs \in SUBSET Lines
  BY AnswerFields DEF Hearing
<1>2. UNCHANGED <<nextNum, dialog, target, fault>>
  BY DEF OnInstalled
<1>3. CASE a.id \notin DOMAIN list
  BY <1>2, <1>3 DEF OnInstalled, Outdated, listVars
<1>4. CASE a.id \in DOMAIN list
  <2> DEFINE to == [list EXCEPT ![a.id].impl = a.num, ![a.id].locs = @ \cup a.locs]
             v == [list[a.id] EXCEPT !.impl = a.num]
             w == [v EXCEPT !.locs = v.locs \cup a.locs]
  <2>1. list' = to /\ rows' = Updated({a.id}, to)
    BY <1>4 DEF OnInstalled
  <2>2. list[a.id] \in Breakpoint
    BY <1>4, ListFields
  <2>3. to = [list EXCEPT ![a.id] = w]
    BY <1>4, <2>2
  <2> HIDE DEF to, a
  <2>4. /\ v \in Breakpoint /\ v.line = list[a.id].line /\ v.on = list[a.id].on
        /\ v.cond = list[a.id].cond /\ v.hits = list[a.id].hits /\ v.curr = list[a.id].curr
        /\ v.impl = a.num /\ v.locs = list[a.id].locs /\ v.locs \in SUBSET Lines
    BY <1>1, <2>2, BoundsAssumption DEF Breakpoint
  <2> HIDE DEF v
  <2>5. /\ w \in Breakpoint /\ w.line = v.line /\ w.on = v.on
        /\ w.cond = v.cond /\ w.hits = v.hits /\ w.curr = v.curr
        /\ w.impl = v.impl /\ w.locs = v.locs \cup a.locs
    <3>1. v.locs \cup a.locs \in SUBSET Lines
      BY <1>1, <2>4
    <3> QED BY <2>4, <3>1 DEF Breakpoint
  <2> HIDE DEF w
  <2>6. DOMAIN list' = DOMAIN list /\ Same(list', list, DOMAIN list \ {a.id}) /\ list'[a.id] = w
    BY <1>4, <2>1, <2>2, <2>3 DEF Same
  <2>7. RowsMatchList'
    BY <2>1, <2>6, RowsUpdated DEF Same
  <2>8. Connecting
    BY <1>2, <1>4, <2>4, <2>5, <2>6, <2>7 DEF Connecting, a
  <2> QED BY <2>8
<1> QED BY <1>3, <1>4

(* The answer to a request for a watchpoint is Listing. *)
LEMMA ListingSteps ==
  ASSUME Shape, Hearing("watched"), OnWatched(answers[1])
  PROVE  Listing
<1> DEFINE i == answers[1].id
           bp == [line |-> 0, on |-> TRUE, cond |-> FALSE, hits |-> 0, curr |-> 0, impl |-> 0, locs |-> {}]
<1>1. list' = With(list, i, bp) /\ rows' = With(rows, i, {}) /\ dialog' = "closed" /\ UNCHANGED <<nextNum, target>>
  BY DEF OnWatched
<1>2. fault' = IF i \in DOMAIN list THEN "unlisted" ELSE IF dialog = "closed" THEN "noDialog" ELSE fault
  BY DEF OnWatched
<1>3. /\ bp \in Breakpoint /\ bp.line = 0 /\ bp.on = TRUE /\ bp.cond = FALSE /\ bp.hits = 0
      /\ bp.curr = 0 /\ bp.impl = 0 /\ bp.locs = {}
  BY BoundsAssumption DEF Breakpoint
<1> HIDE DEF bp, i
<1>4. DOMAIN list' = DOMAIN list \cup {i} /\ Same(list', list, DOMAIN list \ {i}) /\ list'[i] = bp
  BY <1>1 DEF With, Same
<1>5. RowsMatchList'
  <2>1. rows = [j \in DOMAIN list |-> list[j].locs]
    BY DEF Shape, RowsMatchList
  <2>2. DOMAIN rows' = DOMAIN list' /\ \A j \in DOMAIN list' : rows'[j] = list'[j].locs
    BY <1>1, <1>3, <1>4, <2>1 DEF With, Same
  <2>3. rows' = [j \in DOMAIN rows' |-> rows'[j]]
    BY <1>1 DEF With
  <2> QED BY <2>2, <2>3 DEF RowsMatchList
<1> QED BY <1>1, <1>2, <1>3, <1>4, <1>5 DEF Listing, i

(* Every answer the main thread takes is one of AnAnswer. *)
LEMMA MainSteps ==
  ASSUME Shape, MainStep
  PROVE  AnAnswer
<1> DEFINE a == answers[1]
<1>1. answers \in Seq(Answers) /\ answers # <<>> /\ answers' = Tail(answers)
  BY DEF Shape, Typed, MainStep
<1>2. answers' \in Seq(Answers) /\ Head(answers) \in Answers /\ Shrunk(answers, answers')
  BY <1>1, QueuesChange
<1>3. Head(answers) = a /\ a \in Answers
  BY <1>2 DEF Shrunk
<1> HIDE DEF a
<1>4. Hearing(a.op)
  BY <1>2, <1>3 DEF MainStep, Hearing, a
<1>5. (CASE a.op = "installed" -> OnInstalled(a)
        [] a.op = "watched" -> OnWatched(a)
        [] a.op = "refused" -> OnRefused
        [] a.op = "stopped" -> OnStopped(a)
        [] a.op = "exited" -> target' = "loaded" /\ UNCHANGED <<listVars, dialog, fault>>
        [] a.op = "closed" -> OnClosed)
  BY <1>3 DEF MainStep
<1>6. a.op \in {"installed", "watched", "refused", "exited", "closed", "stopped"}
  BY <1>3, AnswerFields
<1>7. CASE a.op = "installed"
  BY <1>4, <1>5, <1>7, InstalledSteps DEF a, AnAnswer
<1>8. CASE a.op = "watched"
  BY <1>4, <1>5, <1>8, ListingSteps DEF a, AnAnswer
<1>9. CASE a.op = "refused"
  <2>1. OnRefused
    BY <1>5, <1>9
  <2> QED BY <1>4, <1>9, <2>1 DEF OnRefused, Reopening, AnAnswer
<1>10. CASE a.op = "stopped"
  BY <1>4, <1>5, <1>10, UpdateSteps DEF a, AnAnswer
<1>11. CASE a.op = "exited"
  <2>1. target' = "loaded" /\ UNCHANGED <<listVars, dialog, fault>>
    BY <1>5, <1>11
  <2> QED BY <1>4, <1>11, <2>1 DEF Leaving, AnAnswer
<1>12. CASE a.op = "closed"
  BY <1>4, <1>5, <1>12, DisconnectSteps DEF AnAnswer
<1> QED BY <1>6, <1>7, <1>8, <1>9, <1>10, <1>11, <1>12

(* Every step of Next is one of these. *)
LEMMA Steps ==
  ASSUME Shape, Next
  PROVE  Step
<1>1. ASSUME NEW line \in {0} \cup Lines, Add(line) PROVE Step
  BY <1>1, AddSteps DEF Add, AnEdit, Step
<1>2. ASSUME NEW l \in Lines, Toggle(l) PROVE Step
  <2>1. MayEdit
    BY <1>2 DEF Toggle
  <2>2. CASE AtLine(l) # {}
    <3>1. RemoveAll(AtLine(l))
      BY <1>2, <2>2 DEF Toggle
    <3>2. AtLine(l) \subseteq DOMAIN list /\ AtLine(l) = Codes(AtLine(l))
      BY DEF AtLine, Codes
    <3> QED BY <2>1, <3>1, <3>2, RemoveSteps DEF AnEdit, Step
  <2>3. CASE AtLine(l) = {}
    <3>1. AddAt(l)
      BY <1>2, <2>3 DEF Toggle
    <3> QED BY <2>1, <3>1, AddSteps DEF AnEdit, Step
  <2> QED BY <2>2, <2>3
<1>3. ASSUME NEW S \in Selections, RemoveBreakpoints(S) PROVE Step
  <2>1. S \in SUBSET DOMAIN list
    BY DEF Selections
  <2> QED BY <1>3, <2>1, RemoveSteps DEF RemoveBreakpoints, AnEdit, Step
<1>4. ASSUME NEW S \in Selections, NEW on \in BOOLEAN, SetEnabled(S, on) PROVE Step
  <2>1. S \in SUBSET DOMAIN list
    BY DEF Selections
  <2> QED BY <1>4, <2>1, SetEnabledSteps DEF AnEdit, Step
<1>5. ASSUME NEW i \in DOMAIN list, NEW cond \in BOOLEAN, SetCondition(i, cond) PROVE Step
  BY <1>5, SetConditionSteps DEF AnEdit, Step
<1>6. ASSUME NEW i \in DOMAIN list, NEW hits \in {0, 2}, NEW reset \in BOOLEAN, SetHitCount(i, hits, reset)
      PROVE  Step
  BY <1>6, SetHitCountSteps DEF AnEdit, Step
<1>7. ASSUME AddWatchpoint PROVE Step
  <2>1. commands' = Append(commands, Plain("watch"))
    BY <1>7 DEF AddWatchpoint
  <2> QED BY <1>7, <2>1, SentPlain DEF Asking, ARequest, Step
<1>8. ASSUME Continue PROVE Step
  <2>1. commands' = Append(commands, Plain("resume"))
    BY <1>8 DEF Continue
  <2> QED BY <1>8, <2>1, SentPlain DEF Continuing, ARequest, Step
<1>9. ASSUME Close PROVE Step
  <2>1. commands' = Append(commands, Plain("close"))
    BY <1>9 DEF Close
  <2> QED BY <1>9, <2>1, SentPlain DEF Shutting, ARequest, Step
<1>10. ASSUME Loaded PROVE Step
  BY <1>10, LoadedSteps DEF ARequest, Step
<1>11. ASSUME Launch PROVE Step
  BY <1>11, LaunchSteps DEF ARequest, Step
<1>12. ASSUME CancelDialog \/ Load \/ AttachFirst PROVE Step
  BY <1>12 DEF ARequest, Step
<1>13. ASSUME CoreStep PROVE Step
  BY <1>13, CoreSteps DEF Step
<1>14. ASSUME NEW i \in DOMAIN core, Hit(i) PROVE Step
  BY <1>14, HitSteps DEF AStop, Step
<1>15. ASSUME Interrupt PROVE Step
  BY <1>15, PauseSteps DEF AStop, Step
<1>16. ASSUME Exit PROVE Step
  BY <1>16, ExitSteps DEF AStop, Step
<1>17. ASSUME MainStep PROVE Step
  BY <1>17, MainSteps DEF Step
<1> QED BY <1>1, <1>2, <1>3, <1>4, <1>5, <1>6, <1>7, <1>8, <1>9, <1>10, <1>11, <1>12, <1>13, <1>14,
           <1>15, <1>16, <1>17 DEF Next

-----------------------------------------------------------------------------
(* What holds even after a fault                                           *)

\* The parts of Shape, by what they are about.
ListTyped ==
  /\ DOMAIN list \subseteq Ids /\ \A i \in DOMAIN list : list[i] \in Breakpoint
  /\ IsFiniteSet(DOMAIN list) /\ nextNum \in 1..(MaxNum + 1)
  /\ \A i \in DOMAIN list : i[1] = "code" => i[2] < nextNum
  /\ \A i \in DOMAIN list : i[1] = "watch" => list[i].locs = {}
  /\ RowsMatchList
CoreTyped ==
  /\ DOMAIN core \subseteq Ids /\ \A i \in DOMAIN core : core[i] \in CoreBreakpoint
  /\ core \in [DOMAIN core -> CoreBreakpoint]
  /\ coreUp \in BOOLEAN /\ moving \in BOOLEAN
  /\ coreNext \in [{"code", "watch"} -> 1..(MaxNum + 1)]
  /\ \A i \in DOMAIN core : i[1] = "watch" => core[i].line = 0 /\ core[i].locs = {}
QueuesTyped ==
  /\ Typed
  /\ \A k \in Stops : \A i \in DOMAIN answers[k].bps : i[1] = "watch" => answers[k].bps[i].locs = {}

(* The list keeps its shape. *)
LEMMA ListShape ==
  ASSUME Shape,
         Step
  PROVE  ListTyped'
<1>1. ASSUME NEW i, NEW r, Adding(i, r) PROVE ListTyped'
  <2>1. /\ i = <<"code", nextNum>> /\ i \in Ids \ DOMAIN list /\ nextNum' = nextNum + 1 /\ nextNum \in Nat
        /\ DOMAIN list' = DOMAIN list \cup {i} /\ \A j \in DOMAIN list : list'[j] = list[j]
        /\ list'[i] \in Breakpoint /\ list'[i].locs = {} /\ RowsMatchList'
    BY <1>1 DEF Adding, Same, Shape, TypeOK
  <2>2. nextNum' \in 1..(MaxNum + 1)
    BY <2>1, BoundsAssumption DEF Ids, Shape, TypeOK
  <2>3. IsFiniteSet(DOMAIN list')
    BY <2>1, FS_AddElement DEF Shape
  <2>4. \A j \in DOMAIN list' : j[1] = "code" => j[2] < nextNum'
    BY <2>1 DEF Shape, TypeOK, Ids
  <2> QED BY <2>1, <2>2, <2>3, <2>4 DEF ListTyped, Shape, TypeOK, Nowhere
<1>2. ASSUME NEW S, NEW r, Removing(S, r) PROVE ListTyped'
  <2>1. /\ DOMAIN list' = DOMAIN list \ S /\ \A j \in DOMAIN list \ S : list'[j] = list[j]
        /\ nextNum' = nextNum /\ RowsMatchList'
    BY <1>2 DEF Removing, Same
  <2>2. IsFiniteSet(DOMAIN list')
    BY <2>1, FS_Subset DEF Shape
  <2> QED BY <2>1, <2>2 DEF ListTyped, Shape, TypeOK, Nowhere
<1>3. ASSUME NEW op, NEW S, NEW r, Changing(op, S, r) PROVE ListTyped'
  BY <1>3 DEF Changing, ListTyped, Shape, TypeOK, Nowhere
<1>4. ASSUME NEW r, Launching(r) PROVE ListTyped'
  BY <1>4 DEF Launching, ListTyped, Shape, TypeOK, Nowhere
<1>5. ASSUME Connecting PROVE ListTyped'
  <2>1. answers[1].id \in Code
    BY <1>5, AnswerFields DEF Connecting, Hearing
  <2>2. answers[1].id[1] = "code"
    BY <2>1 DEF Code
  <2> QED BY <1>5, <2>2 DEF Connecting, Same, ListTyped, Shape, TypeOK, Nowhere
<1>6. ASSUME Listing PROVE ListTyped'
  <2> DEFINE i == answers[1].id
  <2>1. i \in Watches
    BY <1>6, AnswerFields DEF Listing, Hearing
  <2>2. i[1] = "watch" /\ i \in Ids
    BY <2>1 DEF Watches, Ids
  <2> HIDE DEF i
  <2>3. /\ DOMAIN list' = DOMAIN list \cup {i} /\ \A j \in DOMAIN list \ {i} : list'[j] = list[j]
        /\ list'[i] \in Breakpoint /\ list'[i].locs = {} /\ RowsMatchList' /\ nextNum' = nextNum
    BY <1>6 DEF Listing, Same, i
  <2>4. IsFiniteSet(DOMAIN list')
    BY <2>3, FS_AddElement DEF Shape
  <2> QED BY <2>2, <2>3, <2>4 DEF ListTyped, Shape, TypeOK, Nowhere
<1>7. ASSUME Updating PROVE ListTyped'
  <2>1. Shrunk(answers, answers') /\ answers[1].op = "stopped"
    BY <1>7 DEF Updating, Hearing
  <2>2. \A i \in DOMAIN answers[1].bps : i[1] = "watch" => answers[1].bps[i].locs = {}
    BY <2>1 DEF Shrunk, Shape, Nowhere, Stops, Kind
  <2> QED BY <1>7, <2>2 DEF Updating, ListTyped, Shape, TypeOK, Nowhere
<1>8. ASSUME Disconnecting PROVE ListTyped'
  BY <1>8 DEF Disconnecting, ListTyped, Shape, TypeOK, Nowhere
<1>9. ASSUME \/ Asking
             \/ CancelDialog
             \/ Load
             \/ AttachFirst
             \/ Continuing
             \/ Shutting
             \/ \E r : Loading(r)
      PROVE  ListTyped'
  <2>1. UNCHANGED <<list, rows, nextNum>>
    BY <1>9 DEF Asking, AddWatchpoint, CancelDialog, Load, AttachFirst, Continuing, Continue,
       Shutting, Close, Loading, listVars, coreVars, counts
  <2> QED BY <2>1 DEF ListTyped, Shape, TypeOK, Nowhere, RowsMatchList
<1>10. ASSUME ACoreStep PROVE ListTyped'
  <2>1. UNCHANGED <<list, rows, nextNum>>
    BY <1>10 DEF ACoreStep, Broken, Taking, NoBreakpoint, Setting, Up, Installing, Watching,
       Refusing, Starting, Resuming, Ending, Dropping, listVars, coreVars, counts
  <2> QED BY <2>1 DEF ListTyped, Shape, TypeOK, Nowhere, RowsMatchList
<1>11. ASSUME AStop PROVE ListTyped'
  <2>1. UNCHANGED <<list, rows, nextNum>>
    BY <1>11 DEF AStop, Pausing, Moving, Exiting, Ignored, Stopping, listVars, coreVars, counts
  <2> QED BY <2>1 DEF ListTyped, Shape, TypeOK, Nowhere, RowsMatchList
<1>12. ASSUME \/ Outdated
              \/ Reopening
              \/ Leaving
      PROVE  ListTyped'
  <2>1. UNCHANGED <<list, rows, nextNum>>
    BY <1>12 DEF Outdated, Hearing, Reopening, Leaving, listVars, coreVars, counts
  <2> QED BY <2>1 DEF ListTyped, Shape, TypeOK, Nowhere, RowsMatchList
<1> QED BY <1>1, <1>2, <1>3, <1>4, <1>5, <1>6, <1>7, <1>8, <1>9, <1>10, <1>11, <1>12
       DEF Step, AnEdit, ARequest, ACoreStep, AStop, AnAnswer

(* A map of LLDB breakpoints. *)
LEMMA BreakpointMap ==
  ASSUME NEW f, IsMap(f), \A i \in DOMAIN f : f[i] \in CoreBreakpoint
  PROVE  f \in [DOMAIN f -> CoreBreakpoint]
BY DEF IsMap

(* LLDB's breakpoints keep theirs. *)
LEMMA CoreShape ==
  ASSUME Shape,
         Step
  PROVE  CoreTyped'
<1>1. ASSUME NEW r, Loading(r) PROVE CoreTyped'
  <2>1. core' = <<>> /\ coreUp' = TRUE /\ coreNext' = [t \in {"code", "watch"} |-> 1] /\ moving' = moving
    BY <1>1 DEF Loading
  <2>2. DOMAIN core' = {} /\ core' \in [DOMAIN core' -> CoreBreakpoint]
    BY <2>1
  <2>3. coreNext' \in [{"code", "watch"} -> 1..(MaxNum + 1)]
    BY <2>1, BoundsAssumption
  <2> QED BY <2>1, <2>2, <2>3 DEF CoreTyped, Shape, TypeOK
<1>2. ASSUME NEW n, NEW locs, Installing(n, locs) PROVE CoreTyped'
  <2> DEFINE i == <<"code", n>>
  <2>1. /\ n \in 1..MaxNum /\ i \in Ids /\ i[1] = "code" /\ MaxNum \in Nat
        /\ coreNext' = [t \in {"code", "watch"} |-> IF t = "code" THEN n + 1 ELSE coreNext[t]]
    BY <1>2, BoundsAssumption DEF Installing, Ids
  <2> HIDE DEF i
  <2>2. /\ DOMAIN core' = DOMAIN core \cup {i} /\ \A j \in DOMAIN core \ {i} : core'[j] = core[j]
        /\ core'[i] \in CoreBreakpoint /\ IsMap(core') /\ UNCHANGED <<coreUp, moving>>
    BY <1>2 DEF Installing, Same, i
  <2>3. coreNext' \in [{"code", "watch"} -> 1..(MaxNum + 1)]
    BY <2>1 DEF Shape, TypeOK
  <2>4. \A j \in DOMAIN core' : j \in Ids /\ core'[j] \in CoreBreakpoint
    BY <2>1, <2>2 DEF Shape, TypeOK
  <2>5. core' \in [DOMAIN core' -> CoreBreakpoint]
    BY <2>2, <2>4 DEF IsMap
  <2> QED BY <2>1, <2>2, <2>3, <2>4, <2>5 DEF CoreTyped, Shape, TypeOK, Nowhere
<1>3. ASSUME NEW n, Watching(n) PROVE CoreTyped'
  <2> DEFINE i == <<"watch", n>>
  <2>1. /\ n \in 1..MaxNum /\ i \in Ids /\ MaxNum \in Nat
        /\ coreNext' = [t \in {"code", "watch"} |-> IF t = "watch" THEN n + 1 ELSE coreNext[t]]
    BY <1>3, BoundsAssumption DEF Watching, Ids
  <2> HIDE DEF i
  <2>2. /\ DOMAIN core' = DOMAIN core \cup {i} /\ \A j \in DOMAIN core \ {i} : core'[j] = core[j]
        /\ core'[i] \in CoreBreakpoint /\ core'[i].line = 0 /\ core'[i].locs = {}
        /\ IsMap(core') /\ UNCHANGED <<coreUp, moving>>
    BY <1>3 DEF Watching, Same, i
  <2>3. coreNext' \in [{"code", "watch"} -> 1..(MaxNum + 1)]
    BY <2>1 DEF Shape, TypeOK
  <2>4. \A j \in DOMAIN core' : j \in Ids /\ core'[j] \in CoreBreakpoint
    BY <2>1, <2>2 DEF Shape, TypeOK
  <2>5. core' \in [DOMAIN core' -> CoreBreakpoint]
    BY <2>2, <2>4 DEF IsMap
  <2> QED BY <2>2, <2>3, <2>4, <2>5 DEF CoreTyped, Shape, TypeOK, Nowhere
<1>4. ASSUME Starting PROVE CoreTyped'
  <2>1. core' \in [DOMAIN core' -> CoreBreakpoint]
    BY <1>4 DEF Starting, IsMap
  <2> QED BY <1>4, <2>1 DEF Starting, CoreTyped, Shape, TypeOK, Nowhere
<1>5. ASSUME Resuming PROVE CoreTyped'
  BY <1>5 DEF Resuming, CoreTyped, Shape, TypeOK, Nowhere
<1>6. ASSUME Ending PROVE CoreTyped'
  <2>1. core' = <<>> /\ coreUp' = FALSE /\ UNCHANGED <<coreNext, moving>>
    BY <1>6 DEF Ending
  <2>2. DOMAIN core' = {} /\ core' \in [DOMAIN core' -> CoreBreakpoint]
    BY <2>1
  <2> QED BY <2>1, <2>2 DEF CoreTyped, Shape, TypeOK
<1>7. ASSUME Dropping PROVE CoreTyped'
  <2>1. core' \in [DOMAIN core' -> CoreBreakpoint]
    BY <1>7 DEF Dropping, Same, IsMap, Shape, TypeOK
  <2> QED BY <1>7, <2>1 DEF Dropping, Same, CoreTyped, Shape, TypeOK, Nowhere
<1>8. ASSUME NEW op, Setting(op) PROVE CoreTyped'
  <2>1. core' \in [DOMAIN core' -> CoreBreakpoint]
    BY <1>8 DEF Setting, Same, IsMap, Shape, TypeOK
  <2> QED BY <1>8, <2>1 DEF Setting, Same, CoreTyped, Shape, TypeOK, Nowhere
<1>9. ASSUME NEW i, Ignored(i) PROVE CoreTyped'
  <2>1. core' \in [DOMAIN core' -> CoreBreakpoint]
    <3>1. Counted(i)
      BY <1>9 DEF Ignored
    <3>2. IsMap(core') /\ \A j \in DOMAIN core' : j \in DOMAIN core /\ (j = i \/ core'[j] = core[j])
      BY <3>1 DEF Counted, Same
    <3>3. core'[i] \in CoreBreakpoint
      BY <3>1 DEF Counted
    <3>4. \A j \in DOMAIN core' : core'[j] \in CoreBreakpoint
      BY <3>2, <3>3, CoreFields
    <3> QED BY <3>2, <3>4, BreakpointMap
  <2>2. UNCHANGED <<coreUp, coreNext>> /\ moving' \in {moving, FALSE} /\ Counted(i)
    BY <1>9 DEF Ignored, Moving
  <2>3. DOMAIN core' = DOMAIN core /\ \A j \in DOMAIN core : j = i \/ core'[j] = core[j]
    BY <2>2 DEF Counted, Same
  <2>4. core'[i].line = core[i].line /\ core'[i].locs = core[i].locs
    BY <2>2 DEF Counted
  <2>5. \A j \in DOMAIN core' : core'[j].line = core[j].line /\ core'[j].locs = core[j].locs
    BY <2>3, <2>4
  <2>6. \A j \in DOMAIN core' : core'[j] \in CoreBreakpoint
    BY <2>1
  <2> QED BY <2>1, <2>2, <2>3, <2>5, <2>6 DEF CoreTyped, Shape, TypeOK, Nowhere
<1>10. ASSUME NEW i, Stopping(i) PROVE CoreTyped'
  <2>1. core' \in [DOMAIN core' -> CoreBreakpoint]
    <3>1. Counted(i)
      BY <1>10 DEF Stopping
    <3>2. IsMap(core') /\ \A j \in DOMAIN core' : j \in DOMAIN core /\ (j = i \/ core'[j] = core[j])
      BY <3>1 DEF Counted, Same
    <3>3. core'[i] \in CoreBreakpoint
      BY <3>1 DEF Counted
    <3>4. \A j \in DOMAIN core' : core'[j] \in CoreBreakpoint
      BY <3>2, <3>3, CoreFields
    <3> QED BY <3>2, <3>4, BreakpointMap
  <2>2. UNCHANGED <<coreUp, coreNext>> /\ moving' \in {moving, FALSE} /\ Counted(i)
    BY <1>10 DEF Stopping, Moving
  <2>3. DOMAIN core' = DOMAIN core /\ \A j \in DOMAIN core : j = i \/ core'[j] = core[j]
    BY <2>2 DEF Counted, Same
  <2>4. core'[i].line = core[i].line /\ core'[i].locs = core[i].locs
    BY <2>2 DEF Counted
  <2>5. \A j \in DOMAIN core' : core'[j].line = core[j].line /\ core'[j].locs = core[j].locs
    BY <2>3, <2>4
  <2>6. \A j \in DOMAIN core' : core'[j] \in CoreBreakpoint
    BY <2>1
  <2> QED BY <2>1, <2>2, <2>3, <2>5, <2>6 DEF CoreTyped, Shape, TypeOK, Nowhere
<1>11. ASSUME Pausing \/ Exiting
      PROVE  CoreTyped'
  BY <1>11 DEF Pausing, Exiting, Moving, CoreTyped, Shape, TypeOK, Nowhere
<1>12. ASSUME AnEdit PROVE CoreTyped'
  <2>1. UNCHANGED <<core, coreNext, coreUp, moving>>
    BY <1>12 DEF AnEdit, Adding, Edited, Removing, Changing, listVars, coreVars, counts
  <2> QED BY <2>1 DEF CoreTyped, Shape, TypeOK, Nowhere
<1>13. ASSUME \/ Asking
              \/ CancelDialog
              \/ Load
              \/ AttachFirst
              \/ Continuing
              \/ Shutting
              \/ \E r : Launching(r)
      PROVE  CoreTyped'
  <2>1. UNCHANGED <<core, coreNext, coreUp, moving>>
    BY <1>13 DEF Asking, AddWatchpoint, CancelDialog, Load, AttachFirst, Continuing, Continue,
       Shutting, Close, Launching, listVars, coreVars, counts
  <2> QED BY <2>1 DEF CoreTyped, Shape, TypeOK, Nowhere
<1>14. ASSUME \/ \E op : Broken(op)
              \/ \E op : NoBreakpoint(op)
              \/ Refusing
      PROVE  CoreTyped'
  <2>1. UNCHANGED <<core, coreNext, coreUp, moving>>
    BY <1>14 DEF Broken, Taking, NoBreakpoint, Refusing, Up, listVars, coreVars, counts
  <2> QED BY <2>1 DEF CoreTyped, Shape, TypeOK, Nowhere
<1>15. ASSUME AnAnswer PROVE CoreTyped'
  <2>1. UNCHANGED <<core, coreNext, coreUp, moving>>
    BY <1>15 DEF AnAnswer, Outdated, Hearing, Connecting, Listing, Reopening, Updating, Leaving,
       Disconnecting, listVars, coreVars, counts
  <2> QED BY <2>1 DEF CoreTyped, Shape, TypeOK, Nowhere
<1> QED BY <1>1, <1>2, <1>3, <1>4, <1>5, <1>6, <1>7, <1>8, <1>9, <1>10, <1>11, <1>12, <1>13,
          <1>14, <1>15
       DEF Step, AnEdit, ARequest, ACoreStep, AStop, AnAnswer

(* The queues keep theirs. *)
LEMMA QueueShape ==
  ASSUME Shape,
         CoreTyped',
         Step
  PROVE  QueuesTyped'
<1>1. ASSUME NEW i, NEW r, Adding(i, r) PROVE QueuesTyped'
  BY <1>1 DEF Adding, Edited, QueuesTyped, Shape, Typed, Nowhere, Stops
<1>2. ASSUME NEW S, NEW r, Removing(S, r) PROVE QueuesTyped'
  BY <1>2 DEF Removing, Edited, QueuesTyped, Shape, Typed, Nowhere, Stops
<1>3. ASSUME NEW op, NEW S, NEW r, Changing(op, S, r) PROVE QueuesTyped'
  BY <1>3 DEF Changing, Edited, QueuesTyped, Shape, Typed, Nowhere, Stops
<1>4. ASSUME Asking PROVE QueuesTyped'
  BY <1>4 DEF Asking, AddWatchpoint, QueuesTyped, Shape, Typed, Nowhere, Stops
<1>5. ASSUME Continuing PROVE QueuesTyped'
  BY <1>5 DEF Continuing, Continue, QueuesTyped, Shape, Typed, Nowhere, Stops
<1>6. ASSUME Shutting PROVE QueuesTyped'
  BY <1>6 DEF Shutting, Close, QueuesTyped, Shape, Typed, Nowhere, Stops
<1>7. ASSUME NEW r, Launching(r) PROVE QueuesTyped'
  BY <1>7 DEF Launching, QueuesTyped, Shape, Typed, Nowhere, Stops
<1>8. ASSUME NEW r, Loading(r) PROVE QueuesTyped'
  BY <1>8 DEF Loading, Orders, QueuesTyped, Shape, Typed, Nowhere, Stops
<1>9. ASSUME NEW op, Broken(op) PROVE QueuesTyped'
  BY <1>9 DEF Broken, Taking, coreVars, QueuesTyped, Shape, Typed, Nowhere, Stops
<1>10. ASSUME NEW op, NoBreakpoint(op) PROVE QueuesTyped'
  BY <1>10 DEF NoBreakpoint, Taking, coreVars, QueuesTyped, Shape, Typed, Nowhere, Stops
<1>11. ASSUME NEW op, Setting(op) PROVE QueuesTyped'
  BY <1>11 DEF Setting, Up, Taking, coreVars, QueuesTyped, Shape, Typed, Nowhere, Stops
<1>12. ASSUME Starting PROVE QueuesTyped'
  BY <1>12 DEF Starting, Up, Taking, coreVars, QueuesTyped, Shape, Typed, Nowhere, Stops
<1>13. ASSUME Resuming PROVE QueuesTyped'
  BY <1>13 DEF Resuming, Up, Taking, coreVars, QueuesTyped, Shape, Typed, Nowhere, Stops
<1>14. ASSUME Dropping PROVE QueuesTyped'
  BY <1>14 DEF Dropping, Up, Taking, coreVars, QueuesTyped, Shape, Typed, Nowhere, Stops
<1>15. ASSUME NEW n, NEW locs, Installing(n, locs) PROVE QueuesTyped'
  <2>1. PICK a \in Answers : Telling(a) /\ a.op # "stopped"
    BY <1>15 DEF Installing, Telling
  <2>2. commands' \in Seq(Cmds)
    BY <1>15 DEF Installing, Up, Taking, Shape, Typed
  <2>3. \A k \in Kind(answers', {"stopped"}) : k \in Stops /\ answers'[k] = answers[k]
    BY <2>1 DEF Telling, Added, Kind, Stops
  <2> QED BY <2>1, <2>2, <2>3 DEF Telling, QueuesTyped, Shape, Typed, Nowhere, Stops
<1>16. ASSUME NEW n, Watching(n) PROVE QueuesTyped'
  <2>1. PICK a \in Answers : Telling(a) /\ a.op # "stopped"
    BY <1>16 DEF Watching, Telling
  <2>2. commands' \in Seq(Cmds)
    BY <1>16 DEF Watching, Up, Taking, Shape, Typed
  <2>3. \A k \in Kind(answers', {"stopped"}) : k \in Stops /\ answers'[k] = answers[k]
    BY <2>1 DEF Telling, Added, Kind, Stops
  <2> QED BY <2>1, <2>2, <2>3 DEF Telling, QueuesTyped, Shape, Typed, Nowhere, Stops
<1>17. ASSUME Refusing PROVE QueuesTyped'
  <2>1. PICK a \in Answers : Telling(a) /\ a.op # "stopped"
    BY <1>17 DEF Refusing, Telling
  <2>2. commands' \in Seq(Cmds)
    BY <1>17 DEF Refusing, Up, Taking, Shape, Typed
  <2>3. \A k \in Kind(answers', {"stopped"}) : k \in Stops /\ answers'[k] = answers[k]
    BY <2>1 DEF Telling, Added, Kind, Stops
  <2> QED BY <2>1, <2>2, <2>3 DEF Telling, QueuesTyped, Shape, Typed, Nowhere, Stops
<1>18. ASSUME Ending PROVE QueuesTyped'
  <2>1. PICK a \in Answers : Telling(a) /\ a.op # "stopped"
    BY <1>18 DEF Ending, Telling
  <2>2. commands' \in Seq(Cmds)
    BY <1>18 DEF Ending, Up, Taking, Shape, Typed
  <2>3. \A k \in Kind(answers', {"stopped"}) : k \in Stops /\ answers'[k] = answers[k]
    BY <2>1 DEF Telling, Added, Kind, Stops
  <2> QED BY <2>1, <2>2, <2>3 DEF Telling, QueuesTyped, Shape, Typed, Nowhere, Stops
<1>19. ASSUME Exiting PROVE QueuesTyped'
  <2>1. PICK a \in Answers : Telling(a) /\ a.op # "stopped"
    BY <1>19 DEF Exiting, Telling
  <2>2. commands' \in Seq(Cmds)
    BY <1>19 DEF Exiting, Moving, Shape, Typed
  <2>3. \A k \in Kind(answers', {"stopped"}) : k \in Stops /\ answers'[k] = answers[k]
    BY <2>1 DEF Telling, Added, Kind, Stops
  <2> QED BY <2>1, <2>2, <2>3 DEF Telling, QueuesTyped, Shape, Typed, Nowhere, Stops
<1>20. ASSUME NEW i, Stopping(i) PROVE QueuesTyped'
  <2>1. PICK a \in Answers : Telling(a) /\ a.op = "stopped" /\ a.bps = core'
    BY <1>20 DEF Stopping, Telling
  <2>2. commands' \in Seq(Cmds)
    BY <1>20 DEF Stopping, Moving, Shape, Typed
  <2>3. \A k \in Kind(answers', {"stopped"}) : (k \in Stops /\ answers'[k] = answers[k]) \/ answers'[k] = a
    BY <2>1 DEF Telling, Added, Kind, Stops
  <2>4. \A j \in DOMAIN core' : j[1] = "watch" => core'[j].locs = {}
    BY DEF CoreTyped
  <2> QED BY <2>1, <2>2, <2>3, <2>4 DEF Telling, QueuesTyped, Shape, Typed, Nowhere, Stops
<1>21. ASSUME Pausing PROVE QueuesTyped'
  <2>1. PICK a \in Answers : Telling(a) /\ a.op = "stopped" /\ a.bps = core'
    BY <1>21 DEF Pausing, Telling
  <2>2. commands' \in Seq(Cmds)
    BY <1>21 DEF Pausing, Moving, Shape, Typed
  <2>3. \A k \in Kind(answers', {"stopped"}) : (k \in Stops /\ answers'[k] = answers[k]) \/ answers'[k] = a
    BY <2>1 DEF Telling, Added, Kind, Stops
  <2>4. \A i \in DOMAIN core' : i[1] = "watch" => core'[i].locs = {}
    BY DEF CoreTyped
  <2> QED BY <2>1, <2>2, <2>3, <2>4 DEF Telling, QueuesTyped, Shape, Typed, Nowhere, Stops
<1>22. ASSUME \/ Outdated
              \/ Connecting
              \/ Listing
              \/ Reopening
              \/ Updating
              \/ Leaving
              \/ Disconnecting
      PROVE  QueuesTyped'
  <2>1. Shrunk(answers, answers') /\ answers' \in Seq(Answers) /\ commands' = commands
    BY <1>22 DEF Outdated, Connecting, Listing, Reopening, Updating, Leaving, Disconnecting, Hearing
  <2>2. \A k \in Kind(answers', {"stopped"}) : k + 1 \in Stops /\ answers'[k] = answers[k + 1]
    BY <2>1 DEF Shrunk, Kind, Stops
  <2> QED BY <2>1, <2>2 DEF QueuesTyped, Shape, Typed, Nowhere, Stops
<1>23. ASSUME \/ CancelDialog
              \/ Load
              \/ AttachFirst
      PROVE  QueuesTyped'
  <2>1. UNCHANGED <<commands, answers>>
    BY <1>23 DEF CancelDialog, Load, AttachFirst, listVars, coreVars, counts
  <2> QED BY <2>1 DEF QueuesTyped, Shape, Typed, Nowhere, Stops
<1>24. ASSUME \E i : Ignored(i)
      PROVE  QueuesTyped'
  <2>1. UNCHANGED <<commands, answers>>
    BY <1>24 DEF Ignored, Moving, listVars, coreVars, counts
  <2> QED BY <2>1 DEF QueuesTyped, Shape, Typed, Nowhere, Stops
<1> QED BY <1>1, <1>2, <1>3, <1>4, <1>5, <1>6, <1>7, <1>8, <1>9, <1>10, <1>11, <1>12, <1>13,
          <1>14, <1>15, <1>16, <1>17, <1>18, <1>19, <1>20, <1>21, <1>22, <1>23, <1>24
       DEF Step, AnEdit, ARequest, ACoreStep, AStop, AnAnswer

(* What holds even after a fault is kept by every step. *)
LEMMA ShapeStep ==
  ASSUME Shape, Step
  PROVE  Shape'
<1>1. ListTyped' /\ CoreTyped'
  BY ListShape, CoreShape
<1>2. QueuesTyped'
  BY <1>1, QueueShape
<1>3. /\ dialog' \in {"closed", "open", "waiting"}
      /\ target' \in {"none", "loading", "loaded", "running", "stopped", "unloading"}
      /\ fault' \in {"none", "noImpl", "noTarget", "noBreakpoint", "noWatchpoint", "noDialog", "unlisted",
                    "initialProps"}
      /\ mishaps' \subseteq MishapKinds
  <2>1. CASE AnEdit
    <3>1. \E op, S, to, r : Edited(op, S, to, r)
      BY <2>1 DEF AnEdit, Adding, Removing, Changing
    <3> QED BY <3>1 DEF Edited, Shape, TypeOK
  <2>2. CASE ARequest
    <3>1. CASE Asking \/ CancelDialog \/ Load \/ AttachFirst
      BY <3>1 DEF Asking, AddWatchpoint, CancelDialog, Load, AttachFirst, Shape, TypeOK
    <3>2. CASE Continuing \/ Shutting
      BY <3>2 DEF Continuing, Continue, Shutting, Close, Shape, TypeOK
    <3>3. CASE \E r : Loading(r)
      BY <3>3 DEF Loading, Shape, TypeOK
    <3>4. CASE \E r : Launching(r)
      BY <3>4 DEF Launching, Shape, TypeOK
    <3> QED BY <2>2, <3>1, <3>2, <3>3, <3>4 DEF ARequest
  <2>3. CASE ACoreStep
    BY <2>3 DEF ACoreStep, Broken, NoBreakpoint, Setting, Installing, Watching, Refusing, Starting,
           Resuming, Ending, Dropping, Up, Taking, Shape, TypeOK
  <2>4. CASE AStop
    BY <2>4 DEF AStop, Pausing, Exiting, Ignored, Stopping, Moving, Shape, TypeOK
  <2>5. CASE AnAnswer
    BY <2>5 DEF AnAnswer, Outdated, Connecting, Listing, Reopening, Updating, Leaving, Disconnecting,
           Hearing, Shape, TypeOK
  <2> QED BY <2>1, <2>2, <2>3, <2>4, <2>5 DEF Step
<1>4. rows' \in [DOMAIN rows' -> SUBSET Lines]
  <2>1. rows' = [i \in DOMAIN list' |-> list'[i].locs] /\ \A i \in DOMAIN list' : list'[i] \in Breakpoint
    BY <1>1 DEF ListTyped, RowsMatchList
  <2> QED BY <2>1 DEF Breakpoint
<1> QED BY <1>1, <1>2, <1>3, <1>4 DEF ListTyped, CoreTyped, QueuesTyped, Shape, TypeOK, Nowhere

-----------------------------------------------------------------------------
(* What the steps do to the queues                                         *)

(* One install is sent for a breakpoint that is added. *)
LEMMA AddingSends ==
  ASSUME Shape, NEW i, NEW r, Adding(i, r)
  PROVE  \A k \in 1..Len(r) :
           r[k].op = "install" /\ r[k].id = i /\ r[k].on = list'[i].on /\ r[k].cond = list'[i].cond /\ k = 1
<1>1. i = <<"code", nextNum>> /\ nextNum \in Nat /\ Edited("install", {i}, list', r)
  BY DEF Adding, Shape, TypeOK
<1>2. i \in Ids \ DOMAIN list
  BY DEF Adding
<1>3. Grown(commands, r, commands') /\ Len(r) \in Nat
  BY <1>1 DEF Edited, Grown
<1>4. CASE HasImpl
  <2>1. Orders(r, "install", {i}, list')
    BY <1>1, <1>4 DEF Edited
  <2>2. /\ \A k \in 1..Len(r) : r[k].op = "install" /\ r[k].id = i /\ r[k].on = list'[i].on /\ r[k].cond = list'[i].cond
        /\ \A j, k \in 1..Len(r) : j < k => Before(r[j].id, r[k].id)
    BY <1>2, <2>1 DEF Orders
  <2>3. ~Before(i, i)
    BY <1>2, BeforeIsStrict
  <2>4. \A j, k \in 1..Len(r) : ~(j < k)
    BY <2>2, <2>3
  <2>5. \A k \in 1..Len(r) : k = 1
    <3>1. \A k \in 1..Len(r) : 1 \in 1..Len(r) /\ k \in Int /\ (k = 1 \/ 1 < k)
      BY <1>3
    <3> QED BY <2>4, <3>1
  <2> QED BY <2>2, <2>5
<1>5. CASE ~HasImpl
  BY <1>1, <1>3, <1>5 DEF Edited
<1> QED BY <1>4, <1>5

(* While there is a target, a new breakpoint is sent to be installed. *)
LEMMA AddingSends1 ==
  ASSUME Shape, NEW i, NEW r, Adding(i, r), HasImpl
  PROVE  1 \in 1..Len(r) /\ Len(r) = 1
<1>1. Grown(commands, r, commands') /\ Len(r) \in Nat /\ Orders(r, "install", {i}, list')
  BY DEF Adding, Edited, Grown
<1>2. \E k \in 1..Len(r) : r[k].id = i
  BY <1>1 DEF Orders
<1>3. \A k \in 1..Len(r) : k = 1
  BY AddingSends
<1>4. Len(r) \in 1..Len(r)
  BY <1>1, <1>2
<1> QED BY <1>1, <1>3, <1>4

(* What adding a breakpoint does to the list. *)
LEMMA AddingLists ==
  ASSUME Shape, NEW i, NEW r, Adding(i, r)
  PROVE  /\ Grown(commands, r, commands') /\ nextNum' = nextNum + 1 /\ nextNum \in Nat
         /\ i = <<"code", nextNum>> /\ i \in Ids /\ i \notin DOMAIN list
         /\ DOMAIN list' = DOMAIN list \cup {i} /\ \A j \in DOMAIN list : list'[j] = list[j]
         /\ list'[i].hits = 0 /\ list'[i].curr = 0
         /\ list'[i].impl = 0 /\ list'[i].locs = {} /\ answers' = answers
<1>1. i = <<"code", nextNum>> /\ nextNum \in Nat /\ Edited("install", {i}, list', r)
  BY DEF Adding, Shape, TypeOK
<1>2. Grown(commands, r, commands') /\ answers' = answers
  BY <1>1 DEF Edited
<1> QED BY <1>1, <1>2 DEF Adding, Same

(* An edit sends one command for each breakpoint it is for. *)
LEMMA EditSends ==
  ASSUME Shape, NEW op, NEW S, NEW to, NEW r, Edited(op, S, to, r), S \subseteq Ids
  PROVE  /\ Grown(commands, r, commands')
         /\ \A k \in 1..Len(r) :
              /\ r[k].op = op /\ r[k].id \in S
              /\ r[k].on = to[r[k].id].on /\ r[k].cond = to[r[k].id].cond
              /\ r[k].ignore = IgnoreCount(to[r[k].id])
         /\ \A j, k \in 1..Len(r) : r[j].id = r[k].id => j = k
         /\ HasImpl => \A i \in S : \E k \in 1..Len(r) : r[k].id = i
<1>1. Grown(commands, r, commands') /\ Len(r) \in Nat
  BY DEF Edited, Grown
<1>2. CASE HasImpl
  <2>1. Orders(r, op, S, to)
    BY <1>2 DEF Edited
  <2>2. ASSUME NEW j \in 1..Len(r), NEW k \in 1..Len(r), j # k PROVE r[j].id # r[k].id
    <3>1. j < k \/ k < j
      BY <1>1, <2>2
    <3>2. Before(r[j].id, r[k].id) \/ Before(r[k].id, r[j].id)
      BY <2>1, <3>1 DEF Orders
    <3>3. r[j].id \in Ids
      BY <2>1 DEF Orders
    <3> QED BY <3>2, <3>3, BeforeIsStrict
  <2> QED BY <1>1, <2>1, <2>2 DEF Orders
<1>3. CASE ~HasImpl
  BY <1>1, <1>3 DEF Edited
<1> QED BY <1>2, <1>3

(* What removing sends: one removal for each of the breakpoints. *)
LEMMA RemovingSends ==
  ASSUME Shape, NEW S, NEW r, Removing(S, r)
  PROVE  /\ Grown(commands, r, commands') /\ nextNum' = nextNum
         /\ S \subseteq DOMAIN list /\ DOMAIN list' = DOMAIN list \ S
         /\ \A j \in DOMAIN list' : list'[j] = list[j]
         /\ \A k \in 1..Len(r) : r[k].op = "remove" /\ r[k].id \in S
         /\ \A j, k \in 1..Len(r) : r[j].id = r[k].id => j = k
         /\ HasImpl => \A i \in S : \E k \in 1..Len(r) : r[k].id = i
<1>1. /\ Edited("remove", S, list, r) /\ S \subseteq DOMAIN list /\ nextNum' = nextNum
      /\ DOMAIN list' = DOMAIN list \ S /\ \A j \in DOMAIN list' : list'[j] = list[j]
  BY DEF Removing, Same
<1>2. S \subseteq Ids
  BY <1>1 DEF Shape, TypeOK
<1> QED BY <1>1, <1>2, EditSends

(* What a change sends: one command for each of the breakpoints. *)
LEMMA ChangingSends ==
  ASSUME Shape, NEW op, NEW S, NEW r, Changing(op, S, r)
  PROVE  /\ op \in {"enable", "condition", "ignore"} /\ Grown(commands, r, commands') /\ nextNum' = nextNum
         /\ S \subseteq DOMAIN list /\ DOMAIN list' = DOMAIN list
         /\ \A k \in 1..Len(r) :
              /\ r[k].op = op /\ r[k].id \in S
              /\ r[k].on = list'[r[k].id].on /\ r[k].cond = list'[r[k].id].cond
              /\ r[k].ignore = IgnoreCount(list'[r[k].id])
         /\ \A j, k \in 1..Len(r) : r[j].id = r[k].id => j = k
         /\ HasImpl => \A i \in S : \E k \in 1..Len(r) : r[k].id = i
<1>1. /\ Edited(op, S, list', r) /\ S \subseteq DOMAIN list /\ nextNum' = nextNum
      /\ DOMAIN list' = DOMAIN list /\ op \in {"enable", "condition", "ignore"}
  BY DEF Changing
<1>2. S \subseteq Ids
  BY <1>1 DEF Shape, TypeOK
<1> QED BY <1>1, <1>2, EditSends

(* A launch sends the ignore counts, then runs the program. *)
LEMMA LaunchingSends ==
  ASSUME Shape, NEW r, Launching(r)
  PROVE  LET n == Len(commands)
             m == Len(commands')
         IN  /\ n \in Nat /\ m \in Nat /\ n < m
             /\ DOMAIN commands = 1..n /\ DOMAIN commands' = 1..m
             /\ \A k \in 1..n : k \in 1..m /\ commands'[k] = commands[k]
             /\ \A k \in 1..m :
                  \/ k \in 1..n
                  \/ k > n /\ k < m /\ commands'[k].op = "ignore" /\ commands'[k].id \in DOMAIN list
                     /\ commands'[k].ignore = IgnoreCount(list'[commands'[k].id])
                  \/ k = m /\ commands'[k] = Plain("run")
             /\ commands'[m] = Plain("run")
             /\ \A i \in DOMAIN list : \E k \in 1..m : k > n /\ k < m /\ commands'[k].id = i
                                                       /\ commands'[k].op = "ignore"
<1> DEFINE n == Len(commands)
           m == Len(commands')
<1>1. /\ n \in Nat /\ Len(r) \in Nat /\ m = n + Len(r) + 1
      /\ DOMAIN commands = 1..n /\ DOMAIN commands' = 1..m
      /\ \A k \in 1..n : commands'[k] = commands[k]
      /\ \A k \in 1..Len(r) : commands'[n + k] = r[k]
      /\ commands'[m] = Plain("run")
      /\ Orders(r, "ignore", DOMAIN list, list')
  BY DEF Launching
<1>2. \A k \in 1..m : \/ k \in 1..n
                      \/ k - n \in 1..Len(r) /\ commands'[k] = r[k - n]
                      \/ k = m
  BY DEF Launching
<1> HIDE DEF n, m
<1>3. ASSUME NEW k \in 1..m
      PROVE  \/ k \in 1..n
             \/ k > n /\ k < m /\ commands'[k].op = "ignore" /\ commands'[k].id \in DOMAIN list
                /\ commands'[k].ignore = IgnoreCount(list'[commands'[k].id])
             \/ k = m /\ commands'[k] = Plain("run")
  <2>1. CASE k - n \in 1..Len(r) /\ commands'[k] = r[k - n]
    <3>1. r[k - n].op = "ignore" /\ r[k - n].id \in DOMAIN list /\ r[k - n].ignore = IgnoreCount(list'[r[k - n].id])
      BY <1>1, <2>1 DEF Orders
    <3>2. k > n /\ k < m
      BY <1>1, <2>1
    <3> QED BY <2>1, <3>1, <3>2
  <2> QED BY <1>1, <1>2, <2>1
<1>4. ASSUME NEW i \in DOMAIN list
      PROVE  \E k \in 1..m : k > n /\ k < m /\ commands'[k].id = i /\ commands'[k].op = "ignore"
  <2>1. PICK k \in 1..Len(r) : r[k].id = i
    BY <1>1 DEF Orders
  <2>2. n + k \in 1..m /\ n + k > n /\ n + k < m /\ commands'[n + k] = r[k] /\ r[k].op = "ignore"
    BY <1>1 DEF Orders
  <2> QED BY <2>1, <2>2
<1>5. n < m /\ m \in Nat /\ \A k \in 1..n : k \in 1..m
  BY <1>1
<1> QED BY <1>1, <1>3, <1>4, <1>5 DEF n, m

(* A plain request is sent at the end. *)
LEMMA AskingSends ==
  ASSUME Asking \/ Continuing \/ Shutting
  PROVE  /\ \E op \in {"watch", "resume", "close"} : Added(commands, Plain(op), commands')
         /\ UNCHANGED <<list, rows, nextNum, answers, core, coreUp, coreNext, moving, mishaps, fault>>
<1>1. CASE Asking
  BY <1>1 DEF Asking, AddWatchpoint, listVars, coreVars
<1>2. CASE Continuing
  BY <1>2 DEF Continuing, Continue, listVars, coreVars
<1>3. CASE Shutting
  BY <1>3 DEF Shutting, Close, listVars, coreVars
<1> QED BY <1>1, <1>2, <1>3

(* The core thread takes one command at a time, and leaves the list alone. *)
LEMMA CorePops ==
  ASSUME ACoreStep
  PROVE  /\ fault = "none" /\ Shrunk(commands, commands') /\ commands[1] \in Cmds
         /\ UNCHANGED <<list, rows, nextNum, dialog, target, targets, mishaps>>
<1>1. \E op : Taking(op)
  BY DEF ACoreStep, Broken, NoBreakpoint, Setting, Installing, Watching, Refusing, Starting, Resuming,
         Ending, Dropping, Up
<1> QED BY <1>1 DEF Taking, listVars, counts

(* What a stop, a hit or an exit leaves alone. *)
LEMMA StopKeeps ==
  ASSUME AStop
  PROVE  /\ fault = "none" /\ moving
         /\ UNCHANGED <<list, rows, nextNum, dialog, target, targets, mishaps, commands, coreUp, coreNext, fault>>
<1>1. Moving
  BY DEF AStop, Pausing, Exiting, Ignored, Stopping
<1> QED BY <1>1 DEF Moving, listVars, counts

(* The main thread takes one answer at a time, and leaves LLDB alone. *)
LEMMA MainPops ==
  ASSUME AnAnswer
  PROVE  /\ fault = "none" /\ Shrunk(answers, answers') /\ answers[1] \in Answers
         /\ UNCHANGED <<core, coreUp, coreNext, moving, commands, targets, mishaps, nextNum>>
<1>1. \E op : Hearing(op)
  BY DEF AnAnswer, Outdated, Connecting, Listing, Reopening, Updating, Leaving, Disconnecting
<1>2. nextNum' = nextNum
  BY DEF AnAnswer, Outdated, Connecting, Listing, Reopening, Updating, Leaving, Disconnecting, listVars
<1> QED BY <1>1, <1>2 DEF Hearing, coreVars, counts

-----------------------------------------------------------------------------
(* Nothing is installed twice                                              *)

(* The numbers of what is being installed. *)
LEMMA PendingIds ==
  ASSUME Shape
  PROVE  /\ \A k \in Installs : commands[k].id \in Code /\ commands[k].id[2] \in Nat
         /\ \A k \in Told : answers[k].id \in Code /\ answers[k].id[2] \in Nat
<1>1. ASSUME NEW k \in Installs PROVE commands[k].id \in Code /\ commands[k].id[2] \in Nat
  <2>1. commands[k] \in Cmds /\ commands[k].op = "install"
    BY DEF Shape, Typed, Installs, Kind
  <2> QED BY <2>1, CommandFields DEF Code
<1>2. ASSUME NEW k \in Told PROVE answers[k].id \in Code /\ answers[k].id[2] \in Nat
  <2>1. answers[k] \in Answers /\ answers[k].op = "installed"
    BY DEF Shape, Typed, Told, Kind
  <2> QED BY <2>1, AnswerFields DEF Code
<1> QED BY <1>1, <1>2

(* A step installs nothing twice. *)
LEMMA FreshStep ==
  ASSUME Shape,
         Fresh,
         Phase,
         Step
  PROVE  Fresh'
<1>1. ASSUME NEW i, NEW r, Adding(i, r) PROVE Fresh'
  <2>1. /\ Grown(commands, r, commands') /\ answers' = answers /\ nextNum' = nextNum + 1 /\ nextNum \in Nat
        /\ \A k \in 1..Len(r) : k = 1 /\ r[k].op = "install" /\ r[k].id = i
        /\ i[2] = nextNum /\ DOMAIN list' = DOMAIN list \cup {i} /\ list'[i].impl = 0
        /\ \A j \in DOMAIN list : list'[j] = list[j]
    <3>1. \A k \in 1..Len(r) : r[k].op = "install" /\ r[k].id = i /\ k = 1
      BY <1>1, AddingSends
    <3>2. /\ Grown(commands, r, commands') /\ answers' = answers /\ nextNum' = nextNum + 1 /\ nextNum \in Nat
          /\ DOMAIN list' = DOMAIN list \cup {i} /\ list'[i].impl = 0
          /\ \A j \in DOMAIN list : list'[j] = list[j]
      BY <1>1, AddingLists
    <3>3. i = <<"code", nextNum>>
      BY <1>1, AddingLists
    <3> QED BY <3>1, <3>2, <3>3
  <2>2. /\ \A k \in Installs : commands[k].id[2] \in Nat
        /\ \A k \in Told : answers[k].id[2] \in Nat
    BY PendingIds
  <2>3. \A k \in Installs' : \/ k \in Installs /\ commands'[k] = commands[k]
                             \/ commands'[k].id = i /\ k - Len(commands) = 1 /\ k \in Int /\ Len(commands) \in Int
    BY <2>1 DEF Installs, Kind, Grown
  <2>4. Told' = Told
    BY <2>1 DEF Told
  <2>5. \A k \in Installs : commands[k].id # i
    BY <2>1, <2>2 DEF Fresh
  <2>6. \A j, k \in Installs' : commands'[j].id = i /\ commands'[k].id = i => j = k
    BY <2>3, <2>5
  <2>7. \A j, k \in Installs' : commands'[j].id = commands'[k].id => j = k
    BY <2>3, <2>5, <2>6 DEF Fresh
  <2>8. \A k \in Told : answers[k].id # i
    BY <2>1, <2>2 DEF Fresh
  <2>9. \A j \in Installs', k \in Told : commands'[j].id # answers[k].id
    BY <2>3, <2>8 DEF Fresh
  <2>10. \A k \in Installs' : commands'[k].id[2] < nextNum'
    BY <2>1, <2>2, <2>3 DEF Fresh
  <2>11. \A k \in Told : answers[k].id[2] < nextNum'
    BY <2>1, <2>2 DEF Fresh
  <2>12. \A k \in Installs' : commands'[k].id \in DOMAIN list' => list'[commands'[k].id].impl = 0
    BY <2>1, <2>3 DEF Fresh
  <2>13. \A k \in Told : answers[k].id \in DOMAIN list' => list'[answers[k].id].impl = 0
    BY <2>1, <2>8 DEF Fresh
  <2> QED BY <2>1, <2>4, <2>7, <2>9, <2>10, <2>11, <2>12, <2>13 DEF Fresh
<1>2. ASSUME (\E S, r : Removing(S, r)) \/ (\E op, S, r : Changing(op, S, r))
      PROVE  Fresh'
  <2>1. PICK op, S, to, r : op \in EditOps /\ Edited(op, S, to, r)
    <3>1. "remove" \in EditOps /\ {"enable", "condition", "ignore"} \subseteq EditOps
      BY DEF EditOps
    <3>2. ASSUME NEW S, NEW r, Removing(S, r) PROVE Edited("remove", S, list, r)
      BY <3>2 DEF Removing
    <3>3. ASSUME NEW op, NEW S, NEW r, Changing(op, S, r) PROVE op \in EditOps /\ Edited(op, S, list', r)
      BY <3>1, <3>3 DEF Changing
    <3> QED BY <1>2, <3>1, <3>2, <3>3
  <2>2. /\ Grown(commands, r, commands') /\ answers' = answers
        /\ \A k \in 1..Len(r) : r[k].op # "install"
    <3>1. CASE HasImpl
      BY <2>1, <3>1 DEF Edited, Orders, EditOps
    <3>2. CASE ~HasImpl
      BY <2>1, <3>2 DEF Edited
    <3> QED BY <3>1, <3>2
  <2>3. \A k \in Installs' : k \in Installs /\ commands'[k] = commands[k]
    BY <2>2 DEF Installs, Kind, Grown
  <2>4. Told' = Told
    BY <2>2 DEF Told
  <2>5. /\ nextNum' = nextNum
        /\ \A j \in DOMAIN list' : j \in DOMAIN list /\ list'[j].impl = list[j].impl
    BY <1>2 DEF Removing, Changing, Same
  <2> QED BY <2>2, <2>3, <2>4, <2>5 DEF Fresh
<1>3. ASSUME Asking \/ Continuing \/ Shutting
      PROVE  Fresh'
  <2>1. PICK op \in {"watch", "resume", "close"} : Added(commands, Plain(op), commands')
    BY <1>3 DEF Asking, Continuing, Shutting
  <2>2. UNCHANGED <<list, nextNum, answers>>
    BY <1>3 DEF Asking, AddWatchpoint, Continuing, Continue, Shutting, Close, listVars
  <2>3. \A k \in Installs' : k \in Installs /\ commands'[k] = commands[k]
    BY <2>1 DEF Installs, Kind, Added, Plain
  <2>4. Told' = Told
    BY <2>2 DEF Told
  <2> QED BY <2>2, <2>3, <2>4 DEF Fresh
<1>4. ASSUME NEW r, Loading(r) PROVE Fresh'
  <2>1. /\ commands' = r /\ UNCHANGED <<list, nextNum, answers>> /\ Orders(r, "install", Codes(DOMAIN list), list)
        /\ target = "loading"
    BY <1>4 DEF Loading, listVars
  <2>2. Told' = {}
    BY <2>1 DEF Told, Kind, Phase
  <2>3. \A i \in DOMAIN list : list[i].impl = 0
    BY <2>1 DEF Phase
  <2>4. \A k \in Installs' : k \in Nat /\ commands'[k].id \in DOMAIN list /\ commands'[k].id[1] = "code"
    BY <2>1 DEF Installs, Kind, Orders, Codes
  <2>5. \A j, k \in Installs' : j < k => Before(commands'[j].id, commands'[k].id)
    BY <2>1 DEF Installs, Kind, Orders
  <2>6. \A i \in DOMAIN list : ~Before(i, i)
    BY BeforeIsStrict, ListFields
  <2>7. \A j, k \in Installs' : commands'[j].id = commands'[k].id => j = k
    BY <2>4, <2>5, <2>6
  <2> QED BY <2>1, <2>2, <2>3, <2>4, <2>7 DEF Fresh, Shape
<1>5. ASSUME NEW r, Launching(r) PROVE Fresh'
  <2>1. /\ UNCHANGED <<nextNum, answers>>
        /\ \A j \in DOMAIN list' : j \in DOMAIN list /\ list'[j].impl = list[j].impl
    BY <1>5 DEF Launching
  <2>2. \A k \in Installs' : k \in Installs /\ commands'[k] = commands[k]
    <3>1. LET m == Len(commands')
          IN  /\ DOMAIN commands' = 1..m /\ DOMAIN commands = 1..Len(commands)
              /\ \A k \in 1..m : \/ k \in 1..Len(commands) /\ commands'[k] = commands[k]
                                \/ commands'[k].op \in {"ignore", "run"}
      BY <1>5, LaunchingSends DEF Plain
    <3> QED BY <3>1 DEF Installs, Kind
  <2>3. Told' = Told
    BY <2>1 DEF Told
  <2> QED BY <2>1, <2>2, <2>3 DEF Fresh
<1>6. ASSUME \/ \E op : Broken(op)
             \/ \E op : NoBreakpoint(op)
             \/ \E op : Setting(op)
             \/ Refusing
             \/ Starting
             \/ Resuming
             \/ Ending
             \/ Dropping
             \/ \E n : Watching(n)
      PROVE  Fresh'
  <2> ACoreStep
    BY <1>6 DEF ACoreStep
  <2>1. Shrunk(commands, commands') /\ list' = list /\ nextNum' = nextNum
    BY CorePops
  <2>2. answers' = answers \/ \E a : Added(answers, a, answers') /\ a.op # "installed"
    <3>1. CASE (\E op : Broken(op) \/ NoBreakpoint(op) \/ Setting(op)) \/ Starting \/ Resuming \/ Dropping
      BY <3>1 DEF Broken, NoBreakpoint, Setting, Starting, Resuming, Dropping
    <3>2. CASE Refusing
      BY <3>2 DEF Refusing, Telling
    <3>3. CASE Ending
      BY <3>3 DEF Ending, Telling
    <3>4. CASE \E n : Watching(n)
      BY <3>4 DEF Watching, Telling
    <3> QED BY <1>6, <3>1, <3>2, <3>3, <3>4
  <2>3. \A k \in Installs' : k \in Int /\ k + 1 \in Installs /\ commands'[k] = commands[k + 1]
    BY <2>1 DEF Installs, Kind, Shrunk
  <2>4. \A k \in Told' : k \in Told /\ answers'[k] = answers[k]
    BY <2>2 DEF Told, Kind, Added
  <2> QED BY <2>1, <2>3, <2>4 DEF Fresh
<1>7. ASSUME NEW n, NEW locs, Installing(n, locs) PROVE Fresh'
  <2> DEFINE i == commands[1].id
  <2>1. Shrunk(commands, commands') /\ commands[1].op = "install" /\ list' = list /\ nextNum' = nextNum
    BY <1>7 DEF Installing, Up, Taking, listVars
  <2>2. PICK a : Added(answers, a, answers') /\ a.op = "installed" /\ a.id = i
    BY <1>7 DEF Installing, Telling
  <2>3. 1 \in Installs
    BY <2>1 DEF Installs, Kind, Shrunk
  <2>4. \A k \in Installs' : k \in Int /\ k >= 1 /\ k + 1 \in Installs /\ commands'[k] = commands[k + 1]
    BY <2>1 DEF Installs, Kind, Shrunk
  <2>5. \A k \in Told' : \/ k \in Told /\ answers'[k] = answers[k] /\ k # Len(answers) + 1
                         \/ k = Len(answers) + 1 /\ answers'[k].id = i
    BY <2>2 DEF Told, Kind, Added
  <2>6. \A k \in Told : answers[k].id # i
    BY <2>3 DEF Fresh
  <2>7. \A k \in Installs' : commands'[k].id # i
    BY <2>3, <2>4 DEF Fresh
  <2> HIDE DEF i
  <2>8. \A j, k \in Told' : answers'[j].id = answers'[k].id => j = k
    BY <2>5, <2>6 DEF Fresh
  <2>9. \A j, k \in Installs' : commands'[j].id = commands'[k].id => j = k
    BY <2>4 DEF Fresh
  <2>10. (i \in DOMAIN list => list[i].impl = 0) /\ i[2] < nextNum
    BY <2>3 DEF Fresh, i
  <2> QED BY <2>1, <2>4, <2>5, <2>7, <2>8, <2>9, <2>10 DEF Fresh
<1>8. ASSUME Pausing \/ Exiting
      PROVE  Fresh'
  <2>1. UNCHANGED <<list, nextNum, commands>>
    BY <1>8 DEF Pausing, Exiting, Moving, listVars
  <2>2. \E a : Added(answers, a, answers') /\ a.op # "installed"
    BY <1>8 DEF Pausing, Exiting, Telling
  <2>3. \A k \in Told' : k \in Told /\ answers'[k] = answers[k]
    BY <2>2 DEF Told, Kind, Added
  <2>4. Installs' = Installs
    BY <2>1 DEF Installs
  <2> QED BY <2>1, <2>3, <2>4 DEF Fresh
<1>9. ASSUME NEW i, Stopping(i) PROVE Fresh'
  <2>1. UNCHANGED <<list, nextNum, commands>>
    BY <1>9 DEF Stopping, Moving, listVars
  <2>2. \E a : Added(answers, a, answers') /\ a.op # "installed"
    BY <1>9 DEF Stopping, Telling
  <2>3. \A k \in Told' : k \in Told /\ answers'[k] = answers[k]
    BY <2>2 DEF Told, Kind, Added
  <2>4. Installs' = Installs
    BY <2>1 DEF Installs
  <2> QED BY <2>1, <2>3, <2>4 DEF Fresh
<1>10. ASSUME \/ Outdated
              \/ Reopening
              \/ Leaving
              \/ Updating
              \/ Disconnecting
      PROVE  Fresh'
  <2>1. /\ Shrunk(answers, answers') /\ nextNum' = nextNum /\ commands' = commands
        /\ DOMAIN list' = DOMAIN list
        /\ \A j \in DOMAIN list : list'[j].impl \in {0, list[j].impl}
    BY <1>10 DEF Outdated, Reopening, Leaving, Updating, Disconnecting, Hearing, listVars
  <2>2. \A k \in Told' : k \in Int /\ k + 1 \in Told /\ answers'[k] = answers[k + 1]
    BY <2>1 DEF Told, Kind, Shrunk
  <2>3. Installs' = Installs
    BY <2>1 DEF Installs
  <2> QED BY <2>1, <2>2, <2>3 DEF Fresh
<1>11. ASSUME Listing PROVE Fresh'
  <2>1. /\ Shrunk(answers, answers') /\ nextNum' = nextNum /\ commands' = commands
        /\ \A j \in DOMAIN list' : list'[j].impl = 0 \/ (j \in DOMAIN list /\ list'[j] = list[j])
    BY <1>11 DEF Listing, Hearing, Same
  <2>2. \A k \in Told' : k \in Int /\ k + 1 \in Told /\ answers'[k] = answers[k + 1]
    BY <2>1 DEF Told, Kind, Shrunk
  <2>3. Installs' = Installs
    BY <2>1 DEF Installs
  <2> QED BY <2>1, <2>2, <2>3 DEF Fresh
<1>12. ASSUME Connecting PROVE Fresh'
  <2> DEFINE i == answers[1].id
  <2>1. /\ Shrunk(answers, answers') /\ nextNum' = nextNum /\ commands' = commands
        /\ answers[1].op = "installed" /\ DOMAIN list' = DOMAIN list
        /\ \A j \in DOMAIN list : j # i => list'[j] = list[j]
    BY <1>12 DEF Connecting, Hearing, Same
  <2>2. 1 \in Told
    BY <2>1 DEF Told, Kind, Shrunk
  <2>3. \A k \in Told' : k \in Int /\ k >= 1 /\ k + 1 \in Told /\ answers'[k] = answers[k + 1]
    BY <2>1 DEF Told, Kind, Shrunk
  <2>4. Installs' = Installs
    BY <2>1 DEF Installs
  <2>5. \A k \in Told' : answers'[k].id # i
    BY <2>2, <2>3 DEF Fresh
  <2>6. \A k \in Installs : commands[k].id # i
    BY <2>2 DEF Fresh
  <2> HIDE DEF i
  <2>7. \A j, k \in Told' : answers'[j].id = answers'[k].id => j = k
    BY <2>3 DEF Fresh
  <2> QED BY <2>1, <2>3, <2>4, <2>5, <2>6, <2>7 DEF Fresh
<1>13. ASSUME \/ CancelDialog
              \/ Load
              \/ AttachFirst
      PROVE  Fresh'
  <2>1. UNCHANGED <<commands, answers, list, nextNum>>
    BY <1>13 DEF CancelDialog, Load, AttachFirst, listVars, coreVars, counts
  <2> QED BY <2>1 DEF Fresh, Installs, Told
<1>14. ASSUME \E i : Ignored(i)
      PROVE  Fresh'
  <2>1. UNCHANGED <<commands, answers, list, nextNum>>
    BY <1>14 DEF Ignored, Moving, listVars, coreVars, counts
  <2> QED BY <2>1 DEF Fresh, Installs, Told
<1> QED BY <1>1, <1>2, <1>3, <1>4, <1>5, <1>6, <1>7, <1>8, <1>9, <1>10, <1>11, <1>12, <1>13,
          <1>14
       DEF Step, AnEdit, ARequest, ACoreStep, AStop, AnAnswer

(* What the code asserts when an answer comes. *)
LEMMA FreshInstalls ==
  ASSUME Shape, Fresh
  PROVE  InstalledOnce
<1> DEFINE queue == commands \o answers
           pending == {k \in DOMAIN queue : queue[k].op \in {"install", "installed"}}
<1>1. /\ Len(commands) \in Nat /\ Len(answers) \in Nat /\ DOMAIN queue = 1..Len(commands) + Len(answers)
      /\ \A k \in 1..Len(commands) : queue[k] = commands[k]
      /\ \A k \in 1..Len(commands) + Len(answers) : k > Len(commands) =>
           k - Len(commands) \in 1..Len(answers) /\ queue[k] = answers[k - Len(commands)]
  BY DEF Shape, Typed
<1>2. \A k \in 1..Len(commands) : commands[k].op # "installed"
  <2> SUFFICES ASSUME NEW k \in 1..Len(commands) PROVE commands[k].op # "installed"
    OBVIOUS
  <2>1. commands[k] \in Cmds
    BY DEF Shape, Typed
  <2> QED BY <2>1, CommandFields
<1>3. \A k \in 1..Len(answers) : answers[k].op # "install"
  <2> SUFFICES ASSUME NEW k \in 1..Len(answers) PROVE answers[k].op # "install"
    OBVIOUS
  <2>1. answers[k] \in Answers
    BY DEF Shape, Typed
  <2> QED BY <2>1, AnswerFields
<1>4. \A k \in pending : \/ k \in Installs /\ queue[k] = commands[k] /\ k <= Len(commands)
                         \/ k - Len(commands) \in Told /\ queue[k] = answers[k - Len(commands)] /\ k > Len(commands)
  BY <1>1, <1>2, <1>3 DEF Shape, Typed, Installs, Told, Kind
<1>5. pending \subseteq Int
  BY <1>1
<1> HIDE DEF queue, pending
<1>6. \A k \in pending : queue[k].id \in DOMAIN list => list[queue[k].id].impl = 0
  BY <1>4 DEF Fresh
<1>7. ASSUME NEW j \in pending, NEW k \in pending, queue[j].id = queue[k].id PROVE j = k
  <2>1. j \in Int /\ k \in Int /\ Len(commands) \in Int
    BY <1>1, <1>5
  <2>2. CASE j \in Installs /\ queue[j] = commands[j]
    BY <1>4, <1>7, <2>1, <2>2 DEF Fresh
  <2>3. CASE j - Len(commands) \in Told /\ queue[j] = answers[j - Len(commands)]
    BY <1>4, <1>7, <2>1, <2>3 DEF Fresh
  <2> QED BY <1>4, <2>2, <2>3
<1> QED BY <1>6, <1>7 DEF InstalledOnce, queue, pending

-----------------------------------------------------------------------------
(* The commands and answers of a kind                                      *)

(* The elements of a kind when the first of the queue is taken. *)
LEMMA KindShrunk ==
  ASSUME NEW q, NEW p, NEW ops, Shrunk(q, p)
  PROVE  /\ Kind(q, ops) \subseteq Int /\ Kind(p, ops) \subseteq Int /\ Len(q) \in Int /\ Len(p) = Len(q) - 1
         /\ \A k \in Kind(p, ops) : k + 1 \in Kind(q, ops) /\ p[k] = q[k + 1] /\ k >= 1
         /\ \A k \in Kind(q, ops) : k = 1 \/ (k - 1 \in Kind(p, ops) /\ p[k - 1] = q[k] /\ k > 1)
         /\ q[1].op \in ops <=> 1 \in Kind(q, ops)
  BY DEF Shrunk, Kind

(* The elements of a kind when one is added. *)
LEMMA KindAdded ==
  ASSUME NEW q, NEW p, NEW e, NEW ops, Added(q, e, p)
  PROVE  /\ Kind(q, ops) \subseteq Int /\ Kind(p, ops) \subseteq Int /\ Len(q) \in Int /\ Len(p) = Len(q) + 1
         /\ \A k \in Kind(q, ops) : k \in Kind(p, ops) /\ p[k] = q[k] /\ k <= Len(q)
         /\ \A k \in Kind(p, ops) : \/ k \in Kind(q, ops) /\ p[k] = q[k] /\ k <= Len(q)
                                    \/ k = Len(q) + 1 /\ p[k] = e /\ e.op \in ops
         /\ e.op \in ops => Len(q) + 1 \in Kind(p, ops)
         /\ p[Len(q) + 1] = e
  BY DEF Added, Kind

(* The elements of a kind when several are added. *)
LEMMA KindGrown ==
  ASSUME NEW q, NEW p, NEW r, NEW ops, Grown(q, r, p)
  PROVE  /\ Kind(q, ops) \subseteq Int /\ Kind(p, ops) \subseteq Int /\ Kind(r, ops) \subseteq Int
         /\ Len(q) \in Int /\ Len(r) \in Int
         /\ \A k \in Kind(q, ops) : k \in Kind(p, ops) /\ p[k] = q[k] /\ k <= Len(q)
         /\ \A k \in Kind(r, ops) : Len(q) + k \in Kind(p, ops) /\ p[Len(q) + k] = r[k] /\ k >= 1
         /\ \A k \in Kind(p, ops) : \/ k \in Kind(q, ops) /\ p[k] = q[k] /\ k <= Len(q)
                                    \/ k - Len(q) \in Kind(r, ops) /\ p[k] = r[k - Len(q)] /\ k > Len(q)
  BY DEF Grown, Kind

(* The commands that no edit sends stay as they are. *)
LEMMA EditKinds ==
  ASSUME Shape, AnEdit, NEW ops, ops \cap (EditOps \cup {"install"}) = {}
  PROVE  Kind(commands', ops) = Kind(commands, ops)
<1>1. PICK op, S, to, r : op \in EditOps \cup {"install"} /\ Edited(op, S, to, r)
  <2>1. {"install", "remove", "enable", "condition", "ignore"} = EditOps \cup {"install"}
    BY DEF EditOps
  <2>2. ASSUME NEW i, NEW r, Adding(i, r)
        PROVE  \E S, to : Edited("install", S, to, r)
    BY <2>2 DEF Adding
  <2>3. ASSUME NEW S, NEW r, Removing(S, r) PROVE Edited("remove", S, list, r)
    BY <2>3 DEF Removing
  <2>4. ASSUME NEW op, NEW S, NEW r, Changing(op, S, r)
        PROVE  op \in {"enable", "condition", "ignore"} /\ Edited(op, S, list', r)
    BY <2>4 DEF Changing
  <2> QED BY <2>1, <2>2, <2>3, <2>4 DEF AnEdit
<1>2. Grown(commands, r, commands')
  BY <1>1 DEF Edited
<1>3. \A k \in 1..Len(r) : r[k].op = op
  <2>1. CASE HasImpl
    BY <1>1, <2>1 DEF Edited, Orders
  <2>2. CASE ~HasImpl
    BY <1>1, <2>2 DEF Edited
  <2> QED BY <2>1, <2>2
<1>4. Kind(r, ops) = {}
  BY <1>1, <1>2, <1>3 DEF Kind, Grown
<1>5. \A k \in Kind(commands', ops) : k \in Kind(commands, ops)
  BY <1>2, <1>4, KindGrown
<1>6. \A k \in Kind(commands, ops) : k \in Kind(commands', ops)
  BY <1>2, KindGrown
<1> QED BY <1>5, <1>6

(* What an edit leaves alone; it connects no breakpoint. *)
LEMMA EditKeeps ==
  ASSUME AnEdit
  PROVE  /\ UNCHANGED <<dialog, target, core, coreUp, coreNext, moving, answers, fault, targets, mishaps>>
         /\ fault = "none" /\ dialog = "closed"
         /\ \A j \in DOMAIN list' : list'[j].impl = 0 \/ (j \in DOMAIN list /\ list'[j].impl = list[j].impl)
<1>1. PICK op, S, to, r : Edited(op, S, to, r)
  BY DEF AnEdit, Adding, Removing, Changing
<1>2. \A j \in DOMAIN list' : list'[j].impl = 0 \/ (j \in DOMAIN list /\ list'[j].impl = list[j].impl)
  BY DEF AnEdit, Adding, Removing, Changing, Same
<1> QED BY <1>1, <1>2 DEF Edited, coreVars

(* A launch adds what it sends. *)
LEMMA LaunchKinds ==
  ASSUME Shape, NEW r, Launching(r), NEW ops
  PROVE  /\ Kind(commands, ops) \subseteq Int /\ Kind(commands', ops) \subseteq Int
         /\ Len(commands) \in Int /\ Len(commands') \in Int /\ Len(commands) < Len(commands')
         /\ \A k \in Kind(commands, ops) : k \in Kind(commands', ops) /\ commands'[k] = commands[k]
                                           /\ k <= Len(commands)
         /\ \A k \in Kind(commands', ops) :
              \/ k \in Kind(commands, ops) /\ commands'[k] = commands[k] /\ k <= Len(commands)
              \/ "ignore" \in ops /\ commands'[k].op = "ignore" /\ k > Len(commands) /\ k < Len(commands')
                 /\ commands'[k].id \in DOMAIN list
                 /\ commands'[k].ignore = IgnoreCount(list'[commands'[k].id])
              \/ "run" \in ops /\ k = Len(commands') /\ commands'[k] = Plain("run")
         /\ "run" \in ops => Len(commands') \in Kind(commands', ops)
         /\ "ignore" \in ops => \A i \in DOMAIN list : \E k \in Kind(commands', ops) :
              k > Len(commands) /\ k < Len(commands') /\ commands'[k].id = i /\ commands'[k].op = "ignore"
<1> DEFINE n == Len(commands)
           m == Len(commands')
<1>1. /\ n \in Nat /\ m \in Nat /\ n < m /\ DOMAIN commands = 1..n /\ DOMAIN commands' = 1..m
      /\ \A k \in 1..n : k \in 1..m /\ commands'[k] = commands[k]
  BY LaunchingSends
<1>2. \A k \in 1..m :
                  \/ k \in 1..n
                  \/ k > n /\ k < m /\ commands'[k].op = "ignore" /\ commands'[k].id \in DOMAIN list
                     /\ commands'[k].ignore = IgnoreCount(list'[commands'[k].id])
                  \/ k = m /\ commands'[k] = Plain("run")
  BY LaunchingSends
<1>3. /\ commands'[m] = Plain("run")
      /\ \A i \in DOMAIN list : \E k \in 1..m : k > n /\ k < m /\ commands'[k].id = i
                                                       /\ commands'[k].op = "ignore"
  BY LaunchingSends
<1>4. Plain("run").op = "run" /\ m \in 1..m
  BY <1>1 DEF Plain
<1> HIDE DEF n, m
<1>5. \A k \in Kind(commands, ops) : k \in Kind(commands', ops) /\ commands'[k] = commands[k] /\ k <= n /\ k \in Int
  BY <1>1 DEF Kind
<1>6. \A k \in Kind(commands', ops) :
              \/ k \in Kind(commands, ops) /\ commands'[k] = commands[k] /\ k <= n
              \/ "ignore" \in ops /\ commands'[k].op = "ignore" /\ k > n /\ k < m
                 /\ commands'[k].id \in DOMAIN list
                 /\ commands'[k].ignore = IgnoreCount(list'[commands'[k].id])
              \/ "run" \in ops /\ k = m /\ commands'[k] = Plain("run")
  <2> SUFFICES ASSUME NEW k \in Kind(commands', ops)
      PROVE   \/ k \in Kind(commands, ops) /\ commands'[k] = commands[k] /\ k <= n
              \/ "ignore" \in ops /\ commands'[k].op = "ignore" /\ k > n /\ k < m
                 /\ commands'[k].id \in DOMAIN list
                 /\ commands'[k].ignore = IgnoreCount(list'[commands'[k].id])
              \/ "run" \in ops /\ k = m /\ commands'[k] = Plain("run")
    OBVIOUS
  <2>1. k \in 1..m /\ commands'[k].op \in ops
    BY <1>1 DEF Kind
  <2>2. CASE k \in 1..n
    BY <1>1, <2>1, <2>2 DEF Kind
  <2>3. CASE k > n /\ k < m /\ commands'[k].op = "ignore" /\ commands'[k].id \in DOMAIN list
                     /\ commands'[k].ignore = IgnoreCount(list'[commands'[k].id])
    BY <2>1, <2>3
  <2>4. CASE k = m /\ commands'[k] = Plain("run")
    BY <1>4, <2>1, <2>4
  <2> QED BY <1>2, <2>1, <2>2, <2>3, <2>4
<1>7. "ignore" \in ops => \A i \in DOMAIN list : \E k \in Kind(commands', ops) :
              k > n /\ k < m /\ commands'[k].id = i /\ commands'[k].op = "ignore"
  BY <1>1, <1>3 DEF Kind
<1>8. Kind(commands', ops) \subseteq Int /\ ("run" \in ops => m \in Kind(commands', ops))
  BY <1>1, <1>3, <1>4 DEF Kind
<1>9. Kind(commands, ops) \subseteq Int /\ n \in Int /\ m \in Int /\ n < m
  BY <1>1, <1>5
<1> QED BY <1>5, <1>6, <1>7, <1>8, <1>9 DEF n, m

(* An element of another kind makes no difference. *)
LEMMA KindSame ==
  ASSUME NEW q, NEW p, NEW e, NEW ops, Added(q, e, p), e.op \notin ops
  PROVE  Kind(p, ops) = Kind(q, ops)
<1>1. \A k \in Kind(p, ops) : k \in Kind(q, ops)
  BY KindAdded
<1>2. \A k \in Kind(q, ops) : k \in Kind(p, ops)
  BY KindAdded
<1> QED BY <1>1, <1>2

(* Taking an element of another kind moves them up, no more. *)
LEMMA KindPops ==
  ASSUME NEW q, NEW p, NEW ops, Shrunk(q, p), q[1].op \notin ops
  PROVE  /\ Kind(q, ops) \subseteq Int /\ Kind(p, ops) \subseteq Int
         /\ \A k \in Kind(p, ops) : k + 1 \in Kind(q, ops) /\ p[k] = q[k + 1] /\ k >= 1
         /\ \A k \in Kind(q, ops) : k - 1 \in Kind(p, ops) /\ p[k - 1] = q[k] /\ k > 1
<1>1. 1 \notin Kind(q, ops)
  BY DEF Kind
<1> QED BY <1>1, KindShrunk

-----------------------------------------------------------------------------
(* Where the target is                                                     *)

(* The phases of the target follow one another. *)
LEMMA PhaseStep ==
  ASSUME Shape,
         Phase,
         Step,
         fault' = "none"
  PROVE  Phase'
<1>1. ASSUME (\E i, r : Adding(i, r)) \/ (\E S, r : Removing(S, r)) \/ (\E op, S, r : Changing(op, S, r))
      PROVE  Phase'
  <2> AnEdit
    BY <1>1 DEF AnEdit
  <2>1. Resumes' = Resumes /\ Closes' = Closes
    BY EditKinds DEF Resumes, Closes, EditOps
  <2>2. UNCHANGED <<target, coreUp, moving, answers>> /\ Closed' = Closed /\ Ends' = Ends
    BY EditKeeps DEF Closed, Ends
  <2>3. \A j \in DOMAIN list' : list'[j].impl = 0 \/ (j \in DOMAIN list /\ list'[j].impl = list[j].impl)
    BY EditKeeps
  <2> QED BY <2>1, <2>2, <2>3 DEF Phase
<1>2. ASSUME Asking PROVE Phase'
  <2>1. Added(commands, Plain("watch"), commands') /\ Plain("watch").op = "watch"
    BY <1>2 DEF Asking, Plain
  <2>2. Resumes' = Resumes /\ Closes' = Closes
    BY <2>1, KindSame DEF Resumes, Closes
  <2>3. UNCHANGED <<target, coreUp, moving, answers, list>> /\ Closed' = Closed /\ Ends' = Ends
    BY <1>2 DEF Asking, AddWatchpoint, Closed, Ends, listVars, coreVars
  <2> QED BY <2>2, <2>3 DEF Phase
<1>3. ASSUME Load PROVE Phase'
  <2>1. UNCHANGED <<coreUp, moving, answers, commands, list>> /\ target = "none" /\ target' = "loading"
    BY <1>3 DEF Load, listVars, coreVars
  <2>2. Resumes' = Resumes /\ Closes' = Closes /\ Closed' = Closed /\ Ends' = Ends
    BY <2>1 DEF Resumes, Closes, Closed, Ends
  <2> QED BY <2>1, <2>2 DEF Phase
<1>4. ASSUME NEW r, Loading(r) PROVE Phase'
  <2>1. /\ UNCHANGED <<moving, answers, list>> /\ target = "loading" /\ target' = "loaded" /\ coreUp' = TRUE
        /\ Closed' = Closed /\ Ends' = Ends
    BY <1>4 DEF Loading, listVars, coreVars, Closed, Ends
  <2>2. \A k \in DOMAIN commands' : commands'[k].op = "install"
    BY <1>4 DEF Loading, Orders
  <2>3. Resumes' = {} /\ Closes' = {}
    BY <2>2 DEF Resumes, Closes, Kind
  <2> QED BY <2>1, <2>3 DEF Phase
<1>5. ASSUME NEW r, Launching(r) PROVE Phase'
  <2>1. /\ UNCHANGED <<moving, answers, coreUp>> /\ target = "loaded" /\ target' = "running"
        /\ Closed' = Closed /\ Ends' = Ends
    BY <1>5 DEF Launching, coreVars, Closed, Ends
  <2>2. Resumes = {} /\ Closes = {} /\ Ends = {} /\ ~moving /\ coreUp /\ Closed = {}
    BY <2>1 DEF Phase
  <2>3. Closes' = {}
    BY <1>5, <2>2, LaunchKinds DEF Closes
  <2>4. \A k \in Resumes' : k = Len(commands')
    BY <1>5, <2>2, LaunchKinds DEF Resumes
  <2> QED BY <2>1, <2>2, <2>3, <2>4 DEF Phase, Unique
<1>6. ASSUME Continuing PROVE Phase'
  <2>1. Added(commands, Plain("resume"), commands') /\ Plain("resume").op = "resume"
    BY <1>6 DEF Continuing, Plain
  <2>2. /\ UNCHANGED <<coreUp, moving, answers, list>> /\ Closed' = Closed /\ Ends' = Ends
        /\ target = "stopped" /\ target' = "running"
    BY <1>6 DEF Continuing, Continue, Closed, Ends, listVars, coreVars
  <2>3. Resumes = {} /\ Closes = {} /\ Ends = {} /\ ~moving /\ coreUp /\ Closed = {}
    BY <2>2 DEF Phase
  <2>4. Closes' = {}
    BY <2>1, <2>3, KindAdded DEF Closes
  <2>5. \A k \in Resumes' : k = Len(commands) + 1
    BY <2>1, <2>3, KindAdded DEF Resumes
  <2> QED BY <2>2, <2>3, <2>4, <2>5 DEF Phase, Unique
<1>7. ASSUME Shutting PROVE Phase'
  <2>1. Added(commands, Plain("close"), commands') /\ Plain("close").op = "close"
    BY <1>7 DEF Shutting, Plain
  <2>2. /\ UNCHANGED <<coreUp, moving, answers, list>> /\ Closed' = Closed /\ Ends' = Ends
        /\ target = "loaded" /\ target' = "unloading"
    BY <1>7 DEF Shutting, Close, Closed, Ends, listVars, coreVars
  <2>3. Resumes = {} /\ Closes = {} /\ Ends = {} /\ ~moving /\ coreUp /\ Closed = {}
    BY <2>2 DEF Phase
  <2>4. Resumes' = {}
    BY <2>1, <2>3, KindAdded DEF Resumes
  <2>5. \A k \in Closes' : k = Len(commands) + 1
    BY <2>1, <2>3, KindAdded DEF Closes
  <2> QED BY <2>2, <2>3, <2>4, <2>5 DEF Phase, Unique
<1>8. ASSUME (\E op : Broken(op)) \/ (\E op : NoBreakpoint(op))
      PROVE  Phase'
  <2> QED BY <1>8 DEF Broken, NoBreakpoint
<1>9. ASSUME \/ \E n, locs : Installing(n, locs)
             \/ \E n : Watching(n)
             \/ Refusing
             \/ Dropping
             \/ \E op : Setting(op)
      PROVE  Phase'
  <2> ACoreStep
    BY <1>9 DEF ACoreStep
  <2>1. Shrunk(commands, commands') /\ UNCHANGED <<target, list>>
    BY CorePops
  <2>2. coreUp /\ coreUp' = coreUp /\ moving' = moving
    BY <1>9 DEF Installing, Watching, Refusing, Dropping, Setting, Up, coreVars
  <2>3. answers' = answers \/ \E a : Added(answers, a, answers') /\ a.op \in {"installed", "watched", "refused"}
    <3>1. CASE Dropping \/ \E op : Setting(op)
      BY <3>1 DEF Dropping, Setting
    <3>2. CASE Refusing
      BY <3>2 DEF Refusing, Telling
    <3>3. CASE \E n : Watching(n)
      BY <3>3 DEF Watching, Telling
    <3>4. CASE \E n, locs : Installing(n, locs)
      BY <3>4 DEF Installing, Telling
    <3> QED BY <1>9, <3>1, <3>2, <3>3, <3>4
  <2>4. Ends' = Ends /\ Closed' = Closed
    BY <2>3, KindSame DEF Ends, Closed
  <2>5. Closed = {} /\ target \notin {"none", "loading"}
    BY <2>2 DEF Phase
  <2>6. /\ \A k \in Resumes' : k + 1 \in Resumes /\ k \in Int
        /\ \A k \in Closes' : k + 1 \in Closes /\ k \in Int
    BY <2>1, KindShrunk DEF Resumes, Closes
  <2> QED BY <2>1, <2>2, <2>4, <2>5, <2>6 DEF Phase, Unique
<1>10. ASSUME Starting \/ Resuming
      PROVE  Phase'
  <2> ACoreStep
    BY <1>10 DEF ACoreStep
  <2>1. Shrunk(commands, commands') /\ UNCHANGED <<target, list>>
    BY CorePops
  <2>2. /\ coreUp /\ coreUp' = coreUp /\ moving' = TRUE /\ answers' = answers /\ commands[1].op \in {"run", "resume"}
        /\ Ends' = Ends /\ Closed' = Closed
    BY <1>10 DEF Starting, Resuming, Up, Taking, Ends, Closed
  <2>3. 1 \in Resumes
    BY <2>1, <2>2, KindShrunk DEF Resumes
  <2>4. /\ \A k \in Resumes' : k + 1 \in Resumes /\ k \in Int /\ k >= 1
        /\ \A k \in Closes' : k + 1 \in Closes /\ k \in Int
    BY <2>1, KindShrunk DEF Resumes, Closes
  <2>5. Resumes' = {}
    BY <2>3, <2>4 DEF Phase, Unique
  <2>6. target = "running" /\ Ends = {} /\ Closes = {} /\ Closed = {}
    BY <2>2, <2>3 DEF Phase
  <2>7. Closes' = {}
    BY <2>4, <2>6
  <2> QED BY <2>1, <2>2, <2>5, <2>6, <2>7 DEF Phase, Unique
<1>11. ASSUME Ending PROVE Phase'
  <2> ACoreStep
    BY <1>11 DEF ACoreStep
  <2>1. Shrunk(commands, commands') /\ UNCHANGED <<target, list>>
    BY CorePops
  <2>2. /\ coreUp /\ coreUp' = FALSE /\ moving' = moving /\ commands[1].op = "close"
        /\ Added(answers, [op |-> "closed"], answers')
    BY <1>11 DEF Ending, Up, Taking, Telling
  <2>3. 1 \in Closes
    BY <2>1, <2>2, KindShrunk DEF Closes
  <2>4. /\ \A k \in Resumes' : k + 1 \in Resumes /\ k \in Int
        /\ \A k \in Closes' : k + 1 \in Closes /\ k \in Int /\ k >= 1
    BY <2>1, KindShrunk DEF Resumes, Closes
  <2>5. Closes' = {}
    BY <2>3, <2>4 DEF Phase, Unique
  <2>6. target = "unloading" /\ Ends = {} /\ Resumes = {} /\ ~moving /\ Closed = {}
    BY <2>2, <2>3 DEF Phase
  <2>7. Resumes' = {}
    BY <2>4, <2>6
  <2>8. Ends' = {} /\ \A k \in Closed' : k = Len(answers')
    BY <2>2, <2>6, KindAdded DEF Ends, Closed
  <2> QED BY <2>1, <2>2, <2>5, <2>6, <2>7, <2>8 DEF Phase, Unique
<1>12. ASSUME Pausing \/ Exiting \/ (\E i : Stopping(i))
      PROVE  Phase'
  <2> AStop
    BY <1>12 DEF AStop
  <2>1. moving /\ UNCHANGED <<list, target, commands, coreUp>> /\ Resumes' = Resumes /\ Closes' = Closes
    BY StopKeeps DEF Resumes, Closes
  <2>2. target = "running" /\ Ends = {} /\ Closed = {} /\ coreUp /\ Closes = {} /\ Resumes = {}
    BY <2>1 DEF Phase
  <2>3. moving' = FALSE /\ \E a : Added(answers, a, answers') /\ a.op \in {"stopped", "exited"}
    <3>1. CASE Pausing
      BY <3>1 DEF Pausing, Telling
    <3>2. CASE Exiting
      BY <3>2 DEF Exiting, Telling
    <3>3. CASE \E i : Stopping(i)
      BY <3>3 DEF Stopping, Telling
    <3> QED BY <1>12, <3>1, <3>2, <3>3
  <2>4. /\ \A k \in Ends' : k = Len(answers) + 1
        /\ Closed' = {}
    BY <2>2, <2>3, KindAdded DEF Ends, Closed
  <2> QED BY <2>1, <2>2, <2>3, <2>4 DEF Phase, Unique
<1>13. ASSUME \/ Outdated
              \/ Connecting
              \/ Listing
              \/ Reopening
      PROVE  Phase'
  <2> AnAnswer
    BY <1>13 DEF AnAnswer
  <2>1. /\ Shrunk(answers, answers') /\ UNCHANGED <<coreUp, moving, commands>>
        /\ Resumes' = Resumes /\ Closes' = Closes
    BY MainPops DEF Resumes, Closes
  <2>2. target' = target
    BY <1>13 DEF Outdated, Connecting, Listing, Reopening
  <2>3. /\ \A k \in Ends' : k + 1 \in Ends /\ k \in Int
        /\ \A k \in Closed' : k + 1 \in Closed /\ k \in Int
        /\ Len(answers') = Len(answers) - 1 /\ Len(answers) \in Int
    BY <2>1, KindShrunk DEF Ends, Closed
  <2>4. target \notin {"none", "loading"}
    <3>1. answers # <<>>
      BY <2>1 DEF Shrunk
    <3> QED BY <3>1 DEF Phase
  <2> QED BY <2>1, <2>2, <2>3, <2>4 DEF Phase, Unique
<1>14. ASSUME Updating \/ Leaving
      PROVE  Phase'
  <2> AnAnswer
    BY <1>14 DEF AnAnswer
  <2>1. /\ Shrunk(answers, answers') /\ UNCHANGED <<coreUp, moving, commands>>
        /\ Resumes' = Resumes /\ Closes' = Closes
    BY MainPops DEF Resumes, Closes
  <2>2. target' \in {"stopped", "loaded"} /\ answers[1].op \in {"stopped", "exited"}
    BY <1>14 DEF Updating, Leaving, Hearing
  <2>3. /\ \A k \in Ends' : k + 1 \in Ends /\ k \in Int /\ k >= 1
        /\ \A k \in Closed' : k + 1 \in Closed /\ k \in Int
        /\ 1 \in Ends
    BY <2>1, <2>2, KindShrunk DEF Ends, Closed
  <2>4. target = "running" /\ coreUp /\ ~moving /\ Resumes = {} /\ Closes = {} /\ Closed = {}
    BY <2>3 DEF Phase
  <2>5. Ends' = {}
    BY <2>3 DEF Phase, Unique
  <2>6. Closed' = {}
    BY <2>3, <2>4
  <2> QED BY <2>1, <2>2, <2>4, <2>5, <2>6 DEF Phase, Unique
<1>15. ASSUME Disconnecting PROVE Phase'
  <2> AnAnswer
    BY <1>15 DEF AnAnswer
  <2>1. /\ Shrunk(answers, answers') /\ UNCHANGED <<coreUp, moving, commands>>
        /\ Resumes' = Resumes /\ Closes' = Closes
    BY MainPops DEF Resumes, Closes
  <2>2. target' = "none" /\ answers[1].op = "closed" /\ answers' \in Seq(Answers)
    BY <1>15 DEF Disconnecting, Hearing
  <2>3. 1 \in Closed
    BY <2>1, <2>2, KindShrunk DEF Closed
  <2>4. Len(answers) = 1 /\ target = "unloading" /\ ~coreUp
    BY <2>3 DEF Phase
  <2>5. answers' = <<>>
    <3>1. Len(answers') = 0
      BY <2>1, <2>4 DEF Shrunk
    <3> QED BY <2>2, <3>1
  <2>6. Resumes = {} /\ Closes = {} /\ ~moving
    BY <2>4 DEF Phase
  <2>7. Ends' = {} /\ Closed' = {}
    BY <2>5 DEF Ends, Closed, Kind
  <2>8. \A i \in DOMAIN list' : list'[i].impl = 0
    BY <1>15 DEF Disconnecting
  <2> QED BY <2>1, <2>2, <2>4, <2>5, <2>6, <2>7, <2>8 DEF Phase, Unique
<1>16. ASSUME \/ CancelDialog
              \/ AttachFirst
      PROVE  Phase'
  <2>1. UNCHANGED <<target, list, coreUp, commands, answers, moving>>
    BY <1>16 DEF CancelDialog, AttachFirst, listVars, coreVars, counts
  <2> QED BY <2>1 DEF Phase, Resumes, Closes, Closed, Ends
<1>17. ASSUME \E i : Ignored(i)
      PROVE  Phase'
  <2>1. UNCHANGED <<target, list, coreUp, commands, answers, moving>>
    BY <1>17 DEF Ignored, Moving, listVars, coreVars, counts
  <2> QED BY <2>1 DEF Phase, Resumes, Closes, Closed, Ends
<1> QED BY <1>1, <1>2, <1>3, <1>4, <1>5, <1>6, <1>7, <1>8, <1>9, <1>10, <1>11, <1>12, <1>13,
          <1>14, <1>15, <1>16, <1>17
       DEF Step, AnEdit, ARequest, ACoreStep, AStop, AnAnswer

-----------------------------------------------------------------------------
(* The dialog, and the end of the target                                   *)

(* The dialog stays open until its answer comes. *)
LEMMA WaitingStep ==
  ASSUME Shape,
         Waiting,
         Step,
         fault' = "none"
  PROVE  Waiting'
<1>1. ASSUME (\E i, r : Adding(i, r)) \/ (\E S, r : Removing(S, r)) \/ (\E op, S, r : Changing(op, S, r))
      PROVE  Waiting'
  <2> AnEdit
    BY <1>1 DEF AnEdit
  <2>1. Asked' = Asked
    BY EditKinds DEF Asked, EditOps
  <2>2. UNCHANGED <<dialog, mishaps>> /\ Replied' = Replied
    BY EditKeeps DEF Replied
  <2> QED BY <2>1, <2>2 DEF Waiting
<1>2. ASSUME Asking PROVE Waiting'
  <2>1. Added(commands, Plain("watch"), commands') /\ Plain("watch").op = "watch"
    BY <1>2 DEF Asking, Plain
  <2>2. dialog # "waiting" /\ dialog' = "waiting" /\ UNCHANGED <<mishaps>> /\ Replied' = Replied
    BY <1>2 DEF Asking, AddWatchpoint, Replied
  <2>3. \A k \in Asked' : k \in Asked \/ k = Len(commands) + 1
    BY <2>1, KindAdded DEF Asked
  <2> QED BY <2>2, <2>3 DEF Waiting, Unique
<1>3. ASSUME CancelDialog PROVE Waiting'
  <2>1. UNCHANGED <<mishaps>> /\ Replied' = Replied /\ Asked' = Asked /\ (dialog = "waiting" => "cancelWait" \in mishaps)
    BY <1>3 DEF CancelDialog, Asked, Replied
  <2> QED BY <2>1 DEF Waiting, Unique
<1>4. ASSUME Continuing \/ Shutting
      PROVE  Waiting'
  <2>1. \E op \in {"resume", "close"} : Added(commands, Plain(op), commands')
    BY <1>4 DEF Continuing, Shutting
  <2>2. Asked' = Asked
    BY <2>1, KindSame DEF Asked, Plain
  <2>3. UNCHANGED <<dialog, mishaps>> /\ Replied' = Replied
    BY <1>4 DEF Continuing, Shutting, Continue, Close, Replied
  <2> QED BY <2>2, <2>3 DEF Waiting
<1>5. ASSUME NEW r, Loading(r) PROVE Waiting'
  <2>1. UNCHANGED <<dialog, mishaps>> /\ Replied' = Replied
    BY <1>5 DEF Loading, Replied
  <2>2. \A k \in DOMAIN commands' : commands'[k].op = "install"
    BY <1>5 DEF Loading, Orders
  <2>3. Asked' = {}
    BY <2>2 DEF Asked, Kind
  <2> QED BY <2>1, <2>3 DEF Waiting, Unique
<1>6. ASSUME NEW r, Launching(r) PROVE Waiting'
  <2>1. UNCHANGED <<dialog, mishaps>> /\ Replied' = Replied
    BY <1>6 DEF Launching, Replied
  <2>2. \A k \in Asked' : k \in Asked
    BY <1>6, LaunchKinds DEF Asked
  <2> QED BY <2>1, <2>2 DEF Waiting, Unique
<1>7. ASSUME (\E op : Broken(op)) \/ (\E op : NoBreakpoint(op))
      PROVE  Waiting'
  <2> QED BY <1>7 DEF Broken, NoBreakpoint
<1>8. ASSUME \/ \E n, locs : Installing(n, locs)
             \/ Dropping
             \/ \E op : Setting(op)
             \/ Starting
             \/ Resuming
             \/ Ending
      PROVE  Waiting'
  <2> ACoreStep
    BY <1>8 DEF ACoreStep
  <2>1. Shrunk(commands, commands') /\ UNCHANGED <<dialog, mishaps>>
    BY CorePops
  <2>2. \A k \in Asked' : k + 1 \in Asked /\ k \in Int
    BY <2>1, KindShrunk DEF Asked
  <2>3. answers' = answers \/ \E a : Added(answers, a, answers') /\ a.op \in {"installed", "closed"}
    <3>1. CASE Dropping \/ (\E op : Setting(op)) \/ Starting \/ Resuming
      BY <3>1 DEF Dropping, Setting, Starting, Resuming
    <3>2. CASE Ending
      BY <3>2 DEF Ending, Telling
    <3>3. CASE \E n, locs : Installing(n, locs)
      BY <3>3 DEF Installing, Telling
    <3> QED BY <1>8, <3>1, <3>2, <3>3
  <2>4. Replied' = Replied
    BY <2>3, KindSame DEF Replied
  <2> QED BY <2>1, <2>2, <2>4 DEF Waiting, Unique
<1>9. ASSUME (\E n : Watching(n)) \/ Refusing
      PROVE  Waiting'
  <2> ACoreStep
    BY <1>9 DEF ACoreStep
  <2>1. Shrunk(commands, commands') /\ UNCHANGED <<dialog, mishaps>>
    BY CorePops
  <2>2. \E a : Added(answers, a, answers')
    BY <1>9 DEF Watching, Refusing, Telling
  <2>3. commands[1].op = "watch"
    BY <1>9 DEF Watching, Refusing, Up, Taking
  <2>4. /\ 1 \in Asked /\ \A k \in Asked' : k + 1 \in Asked /\ k \in Int /\ k >= 1
    BY <2>1, <2>3, KindShrunk DEF Asked
  <2>5. \A k \in Replied' : k \in Replied \/ k = Len(answers) + 1
    BY <2>2, KindAdded DEF Replied
  <2> QED BY <2>1, <2>4, <2>5 DEF Waiting, Unique
<1>10. ASSUME Pausing \/ Exiting \/ (\E i : Stopping(i))
      PROVE  Waiting'
  <2> AStop
    BY <1>10 DEF AStop
  <2>1. UNCHANGED <<dialog, mishaps>> /\ Asked' = Asked
    BY StopKeeps DEF Asked
  <2>2. \E a : Added(answers, a, answers') /\ a.op \in {"stopped", "exited"}
    <3>1. CASE Pausing
      BY <3>1 DEF Pausing, Telling
    <3>2. CASE Exiting
      BY <3>2 DEF Exiting, Telling
    <3>3. CASE \E i : Stopping(i)
      BY <3>3 DEF Stopping, Telling
    <3> QED BY <1>10, <3>1, <3>2, <3>3
  <2>3. Replied' = Replied
    BY <2>2, KindSame DEF Replied
  <2> QED BY <2>1, <2>3 DEF Waiting
<1>11. ASSUME Listing \/ Reopening
      PROVE  Waiting'
  <2> AnAnswer
    BY <1>11 DEF AnAnswer
  <2>1. Shrunk(answers, answers') /\ mishaps' = mishaps /\ Asked' = Asked
    BY MainPops DEF Asked
  <2>2. answers[1].op \in {"watched", "refused"}
    BY <1>11 DEF Listing, Reopening, Hearing
  <2>3. 1 \in Replied /\ \A k \in Replied' : k + 1 \in Replied /\ k \in Int /\ k >= 1
    BY <2>1, <2>2, KindShrunk DEF Replied
  <2> QED BY <2>1, <2>3 DEF Waiting, Unique
<1>12. ASSUME \/ Outdated
              \/ Connecting
              \/ Updating
              \/ Leaving
              \/ Disconnecting
      PROVE  Waiting'
  <2> AnAnswer
    BY <1>12 DEF AnAnswer
  <2>1. Shrunk(answers, answers') /\ mishaps' = mishaps /\ Asked' = Asked
    BY MainPops DEF Asked
  <2>2. dialog' = dialog
    BY <1>12 DEF Outdated, Connecting, Updating, Leaving, Disconnecting
  <2>3. \A k \in Replied' : k + 1 \in Replied /\ k \in Int
    BY <2>1, KindShrunk DEF Replied
  <2> QED BY <2>1, <2>2, <2>3 DEF Waiting, Unique
<1>13. ASSUME \/ Load
              \/ AttachFirst
      PROVE  Waiting'
  <2>1. UNCHANGED <<dialog, commands, answers, mishaps>>
    BY <1>13 DEF Load, AttachFirst, listVars, coreVars, counts
  <2> QED BY <2>1 DEF Waiting, Asked, Replied
<1>14. ASSUME \E i : Ignored(i)
      PROVE  Waiting'
  <2>1. UNCHANGED <<dialog, commands, answers, mishaps>>
    BY <1>14 DEF Ignored, Moving, listVars, coreVars, counts
  <2> QED BY <2>1 DEF Waiting, Asked, Replied
<1> QED BY <1>1, <1>2, <1>3, <1>4, <1>5, <1>6, <1>7, <1>8, <1>9, <1>10, <1>11, <1>12, <1>13,
          <1>14
       DEF Step, AnEdit, ARequest, ACoreStep, AStop, AnAnswer

(* Nothing is sent once the target is asked to close. *)
LEMMA ClosingStep ==
  ASSUME Shape,
         Phase,
         Closing,
         Step,
         fault' = "none"
  PROVE  Closing'
<1>1. ASSUME (\E i, r : Adding(i, r)) \/ (\E S, r : Removing(S, r)) \/ (\E op, S, r : Changing(op, S, r))
      PROVE  Closing'
  <2>1. PICK op, S, to, r : Edited(op, S, to, r)
    BY <1>1 DEF Adding, Removing, Changing
  <2> AnEdit
    BY <1>1 DEF AnEdit
  <2>2. Closes' = Closes
    BY EditKinds DEF Closes, EditOps
  <2>3. UNCHANGED <<coreUp, mishaps>>
    BY EditKeeps
  <2>4. /\ target = "unloading" => "editClosing" \in mishaps
        /\ Grown(commands, r, commands') /\ commands' \in Seq(Cmds) /\ (~HasImpl => r = <<>>)
    BY <2>1 DEF Edited
  <2>5. "editClosing" \notin mishaps => Closes = {}
    BY <2>4 DEF Phase
  <2>6. "editClosing" \notin mishaps /\ ~coreUp => r = <<>>
    BY <2>4 DEF Phase, HasImpl
  <2>7. commands = <<>> /\ r = <<>> => commands' = <<>>
    <3>1. commands = <<>> /\ r = <<>> => Len(commands') = 0
      BY <2>4 DEF Grown
    <3> QED BY <2>4, <3>1
  <2> QED BY <2>2, <2>3, <2>5, <2>6, <2>7 DEF Closing
<1>2. ASSUME Asking \/ Continuing
      PROVE  Closing'
  <2>1. /\ \E op \in {"watch", "resume"} : Added(commands, Plain(op), commands')
        /\ target = "stopped"
    BY <1>2 DEF Asking, Continuing, AddWatchpoint, Continue
  <2>2. Closes' = Closes
    BY <2>1, KindSame DEF Closes, Plain
  <2>3. UNCHANGED <<coreUp, mishaps>>
    BY <1>2, AskingSends
  <2>4. coreUp /\ Closes = {}
    BY <2>1 DEF Phase
  <2> QED BY <2>2, <2>3, <2>4 DEF Closing
<1>3. ASSUME Shutting PROVE Closing'
  <2>1. /\ Added(commands, Plain("close"), commands')
        /\ target = "loaded"
    BY <1>3 DEF Shutting, Close
  <2>2. coreUp /\ Closes = {}
    BY <2>1 DEF Phase
  <2>3. \A k \in Closes' : k = Len(commands')
    BY <2>1, <2>2, KindAdded DEF Closes
  <2>4. UNCHANGED <<coreUp, mishaps>>
    BY <1>3, AskingSends
  <2> QED BY <2>2, <2>3, <2>4 DEF Closing
<1>4. ASSUME NEW r, Loading(r) PROVE Closing'
  <2>1. coreUp' = TRUE
    BY <1>4 DEF Loading
  <2>2. \A k \in DOMAIN commands' : commands'[k].op = "install"
    BY <1>4 DEF Loading, Orders
  <2>3. Closes' = {}
    BY <2>2 DEF Closes, Kind
  <2> QED BY <2>1, <2>3 DEF Closing
<1>5. ASSUME NEW r, Launching(r) PROVE Closing'
  <2>1. target = "loaded" /\ coreUp' = coreUp
    BY <1>5 DEF Launching, coreVars
  <2>2. coreUp /\ Closes = {}
    BY <2>1 DEF Phase
  <2>3. Closes' = {}
    BY <1>5, <2>2, LaunchKinds DEF Closes
  <2> QED BY <2>1, <2>2, <2>3 DEF Closing
<1>6. ASSUME (\E op : Broken(op)) \/ (\E op : NoBreakpoint(op))
      PROVE  Closing'
  <2> QED BY <1>6 DEF Broken, NoBreakpoint
<1>7. ASSUME \/ \E n, locs : Installing(n, locs)
             \/ Dropping
             \/ \E op : Setting(op)
             \/ Starting
             \/ Resuming
             \/ \E n : Watching(n)
             \/ Refusing
      PROVE  Closing'
  <2> ACoreStep
    BY <1>7 DEF ACoreStep
  <2>1. Shrunk(commands, commands') /\ UNCHANGED <<mishaps>>
    BY CorePops
  <2>2. coreUp /\ coreUp' = coreUp
    BY <1>7 DEF Installing, Dropping, Setting, Starting, Resuming, Watching, Refusing, Up, coreVars
  <2>3. /\ \A k \in Closes' : k + 1 \in Closes /\ k \in Int
        /\ Len(commands') = Len(commands) - 1 /\ Len(commands) \in Int
    BY <2>1, KindShrunk DEF Closes
  <2> QED BY <2>1, <2>2, <2>3 DEF Closing
<1>8. ASSUME Ending PROVE Closing'
  <2>1. /\ Shrunk(commands, commands') /\ UNCHANGED <<mishaps>> /\ commands[1].op = "close"
        /\ commands' \in Seq(Cmds)
    BY <1>8 DEF Ending, Up, Taking
  <2>2. 1 \in Closes /\ Len(commands') = Len(commands) - 1 /\ Len(commands) \in Int
    BY <2>1, KindShrunk DEF Closes
  <2>3. "editClosing" \notin mishaps => commands' = <<>>
    <3>1. "editClosing" \notin mishaps => Len(commands') = 0
      BY <2>2 DEF Closing
    <3> QED BY <2>1, <3>1
  <2>4. commands' = <<>> => Closes' = {}
    BY DEF Closes, Kind
  <2> QED BY <2>1, <2>3, <2>4 DEF Closing
<1>9. ASSUME \/ CancelDialog
             \/ Load
             \/ AttachFirst
      PROVE  Closing'
  <2>1. UNCHANGED <<coreUp, commands, mishaps>>
    BY <1>9 DEF CancelDialog, Load, AttachFirst, listVars, coreVars, counts
  <2> QED BY <2>1 DEF Closing, Closes
<1>10. ASSUME AStop PROVE Closing'
  <2>1. UNCHANGED <<coreUp, commands, mishaps>>
    BY <1>10 DEF AStop, Pausing, Moving, Exiting, Ignored, Stopping, listVars, coreVars, counts
  <2> QED BY <2>1 DEF Closing, Closes
<1>11. ASSUME AnAnswer PROVE Closing'
  <2>1. UNCHANGED <<coreUp, commands, mishaps>>
    BY <1>11 DEF AnAnswer, Outdated, Hearing, Connecting, Listing, Reopening, Updating, Leaving,
       Disconnecting, listVars, coreVars, counts
  <2> QED BY <2>1 DEF Closing, Closes
<1> QED BY <1>1, <1>2, <1>3, <1>4, <1>5, <1>6, <1>7, <1>8, <1>9, <1>10, <1>11
       DEF Step, AnEdit, ARequest, ACoreStep, AStop, AnAnswer

-----------------------------------------------------------------------------
(* The numbers of the list, while they are LLDB's                          *)

(* The ids of the watchpoints that are about to be listed. *)
LEMMA WatchedIds ==
  ASSUME Shape
  PROVE  \A k \in Watched : answers[k].id \in Watches /\ answers[k].id[1] = "watch" /\ answers[k].id[2] \in 1..MaxNum
                            /\ answers[k].id = <<"watch", answers[k].id[2]>>
<1> SUFFICES ASSUME NEW k \in Watched
    PROVE  answers[k].id \in Watches /\ answers[k].id[1] = "watch" /\ answers[k].id[2] \in 1..MaxNum
           /\ answers[k].id = <<"watch", answers[k].id[2]>>
  OBVIOUS
<1>1. answers[k] \in Answers /\ answers[k].op = "watched"
  BY DEF Shape, Typed, Watched, Kind
<1>2. answers[k].id \in Watches
  BY <1>1, AnswerFields
<1> QED BY <1>2 DEF Watches

(* The numbers that are given next, and the ids they are compared with. *)
LEMMA NextFields ==
  ASSUME Shape
  PROVE  /\ coreNext["code"] \in Nat /\ coreNext["watch"] \in Nat /\ nextNum \in Nat /\ nextNum >= 1
         /\ \A i \in DOMAIN list : i \in Ids /\ i[1] \in {"code", "watch"} /\ i[2] \in Nat /\ i = <<i[1], i[2]>>
         /\ \A i \in DOMAIN core : i \in Ids /\ i[1] \in {"code", "watch"} /\ i[2] \in Nat /\ i = <<i[1], i[2]>>
<1>1. coreNext["code"] \in Nat /\ coreNext["watch"] \in Nat /\ nextNum \in Nat /\ nextNum >= 1
  BY DEF Shape, TypeOK
<1>2. DOMAIN list \subseteq Ids /\ DOMAIN core \subseteq Ids
  BY DEF Shape, TypeOK
<1>3. \A i \in Ids : i[1] \in {"code", "watch"} /\ i[2] \in Nat /\ i = <<i[1], i[2]>>
  BY DEF Ids
<1> QED BY <1>1, <1>2, <1>3

(* With its target, the list's numbers are no longer what they were at first. *)
LEMMA NotEarly ==
  ASSUME Numbers, "renumber" \notin mishaps, target \notin {"none", "loading"}
  PROVE  ~Early /\ targets # 0
BY DEF Numbers, Early

(* The numbers the list gives stay those LLDB gives. *)
LEMMA NumbersStep ==
  ASSUME Shape,
         Phase,
         Numbers,
         Step,
         fault' = "none"
  PROVE  Numbers'
<1>1. ASSUME NEW i, NEW r, Adding(i, r) PROVE Numbers'
  <2>1. UNCHANGED <<target, targets, coreNext, answers, mishaps>> /\ Watched' = Watched
    <3> AnEdit
      BY <1>1 DEF AnEdit
    <3> QED BY EditKeeps DEF Watched
  <2>2. /\ nextNum' = nextNum + 1 /\ nextNum \in Nat /\ DOMAIN list' = DOMAIN list \cup {i}
        /\ list'[i].curr = 0 /\ list'[i].locs = {} /\ \A j \in DOMAIN list : list'[j] = list[j]
    BY <1>1, AddingLists
  <2>3. i = <<"code", nextNum>>
    BY <1>1, AddingLists
  <2> SUFFICES ASSUME "renumber" \notin mishaps PROVE Numbers'
    BY <2>1 DEF Numbers
  <2>4. Early' = Early
    BY <2>1 DEF Early
  <2>5. Early => DOMAIN list' = {"code"} \X (1..(nextNum' - 1))
    <3>1. Early => DOMAIN list = {"code"} \X (1..(nextNum - 1))
      BY DEF Numbers
    <3>2. 1..(nextNum' - 1) = (1..(nextNum - 1)) \cup {nextNum}
      BY <2>2, NextFields
    <3> QED BY <2>2, <2>3, <3>1, <3>2
  <2>6. Early => \A j \in DOMAIN list' : list'[j].curr = 0 /\ list'[j].locs = {}
    BY <2>2 DEF Numbers
  <2>7. \A k \in Watched : answers[k].id # i
    BY <2>3, WatchedIds
  <2>8. i[1] = "code"
    BY <2>3
  <2>9. WatchNumbers'
    BY <2>1, <2>2, <2>7, <2>8 DEF Numbers, WatchNumbers
  <2> QED BY <2>1, <2>4, <2>5, <2>6, <2>9 DEF Numbers
<1>2. ASSUME (\E S, r : Removing(S, r)) \/ (\E op, S, r : Changing(op, S, r))
      PROVE  Numbers'
  <2> AnEdit
    BY <1>2 DEF AnEdit
  <2>1. UNCHANGED <<target, targets, coreNext, answers, mishaps>> /\ Watched' = Watched
    BY EditKeeps DEF Watched
  <2>2. /\ nextNum' = nextNum /\ DOMAIN list' \subseteq DOMAIN list
        /\ \A j \in DOMAIN list' : list'[j].curr \in {0, list[j].curr} /\ list'[j].locs = list[j].locs
    BY <1>2 DEF Removing, Changing, Same
  <2> SUFFICES ASSUME "renumber" \notin mishaps PROVE Numbers'
    BY <2>1 DEF Numbers
  <2>3. Early' = Early
    BY <2>1 DEF Early
  <2>4. Early => DOMAIN list' = DOMAIN list
    <3>1. CASE \E S, r : Removing(S, r)
      <4>1. HasImpl
        BY <3>1 DEF Removing
      <4> QED BY <4>1, NotEarly DEF HasImpl
    <3>2. CASE \E op, S, r : Changing(op, S, r)
      BY <3>2 DEF Changing
    <3> QED BY <1>2, <3>1, <3>2
  <2>5. WatchNumbers'
    BY <2>1, <2>2 DEF Numbers, WatchNumbers
  <2> QED BY <2>1, <2>2, <2>3, <2>4, <2>5 DEF Numbers
<1>3. ASSUME Load PROVE Numbers'
  <2>1. /\ UNCHANGED <<list, nextNum, coreNext, answers, mishaps>> /\ Watched' = Watched
        /\ target' = "loading" /\ targets' = targets + 1 /\ (targets > 0 => "renumber" \in mishaps)
    BY <1>3 DEF Load, Watched, listVars, coreVars
  <2> SUFFICES ASSUME "renumber" \notin mishaps PROVE Numbers'
    BY <2>1 DEF Numbers
  <2>2. targets = 0 /\ Early
    BY <2>1 DEF Numbers, Early
  <2>3. WatchNumbers'
    BY <2>1 DEF Numbers, WatchNumbers
  <2> QED BY <2>1, <2>2, <2>3 DEF Numbers
<1>4. ASSUME NEW r, Loading(r) PROVE Numbers'
  <2>1. /\ UNCHANGED <<list, nextNum, answers, targets, mishaps>> /\ Watched' = Watched
        /\ target' = "loaded" /\ target = "loading"
    BY <1>4 DEF Loading, Watched, listVars, counts
  <2> SUFFICES ASSUME "renumber" \notin mishaps PROVE Numbers'
    BY <2>1 DEF Numbers
  <2>2. Early /\ targets \in Nat /\ targets # 0
    BY <2>1 DEF Numbers, Early
  <2>3. ~Early'
    BY <2>1, <2>2 DEF Early
  <2>4. Watched = {}
    <3>1. answers = <<>>
      BY <2>1 DEF Phase
    <3> QED BY <3>1 DEF Watched, Kind
  <2>5. \A i \in DOMAIN list : i[1] # "watch"
    BY <2>2 DEF Numbers
  <2>6. WatchNumbers'
    BY <2>1, <2>4, <2>5 DEF WatchNumbers
  <2> QED BY <2>1, <2>2, <2>3, <2>6 DEF Numbers
<1>5. ASSUME (\E r : Launching(r)) \/ Continuing \/ Shutting
      PROVE  Numbers'
  <2>1. /\ UNCHANGED <<nextNum, coreNext, answers, targets, mishaps>> /\ Watched' = Watched
        /\ DOMAIN list' = DOMAIN list /\ target \in {"loaded", "stopped"} /\ target' \in {"running", "unloading"}
    BY <1>5 DEF Launching, Continuing, Shutting, Continue, Close, Watched, listVars, coreVars, counts
  <2> SUFFICES ASSUME "renumber" \notin mishaps PROVE Numbers'
    BY <2>1 DEF Numbers
  <2>2. ~Early /\ targets # 0
    BY <2>1, NotEarly
  <2>3. ~Early'
    BY <2>1, <2>2 DEF Early
  <2>4. WatchNumbers'
    BY <2>1 DEF Numbers, WatchNumbers
  <2> QED BY <2>1, <2>2, <2>3, <2>4 DEF Numbers
<1>6. ASSUME (\E n, locs : Installing(n, locs)) \/ Refusing \/ Ending
      PROVE  Numbers'
  <2> ACoreStep
    BY <1>6 DEF ACoreStep
  <2>1. UNCHANGED <<list, nextNum, target, targets, mishaps>>
    BY CorePops
  <2>2. coreNext'["watch"] = coreNext["watch"]
    BY <1>6 DEF Installing, Refusing, Ending, coreVars
  <2>3. \E a : Added(answers, a, answers') /\ a.op \in {"installed", "refused", "closed"}
    <3>1. CASE Refusing
      BY <3>1 DEF Refusing, Telling
    <3>2. CASE Ending
      BY <3>2 DEF Ending, Telling
    <3>3. CASE \E n, locs : Installing(n, locs)
      BY <3>3 DEF Installing, Telling
    <3> QED BY <1>6, <3>1, <3>2, <3>3
  <2>4. /\ \A k \in Watched' : k \in Watched /\ answers'[k] = answers[k]
    BY <2>3, KindAdded DEF Watched
  <2> SUFFICES ASSUME "renumber" \notin mishaps PROVE Numbers'
    BY <2>1 DEF Numbers
  <2>5. WatchNumbers'
    BY <2>1, <2>2, <2>4 DEF Numbers, WatchNumbers
  <2> QED BY <2>1, <2>5 DEF Numbers, Early
<1>7. ASSUME NEW n, Watching(n) PROVE Numbers'
  <2> DEFINE w == <<"watch", n>>
  <2>1. UNCHANGED <<list, nextNum, target, targets, mishaps>>
    BY <1>7, CorePops DEF ACoreStep
  <2>2. /\ n = coreNext["watch"] /\ coreNext'["watch"] = n + 1 /\ n \in Nat
        /\ Added(answers, [op |-> "watched", id |-> w], answers')
    BY <1>7 DEF Watching, Telling
  <2>3. w[1] = "watch" /\ w[2] = n /\ [op |-> "watched", id |-> w].id = w
    OBVIOUS
  <2> HIDE DEF w
  <2>4. \A k \in Watched' : \/ k \in Watched /\ answers'[k] = answers[k]
                            \/ k = Len(answers) + 1 /\ answers'[k].id = w
    BY <2>2, <2>3, KindAdded DEF Watched
  <2> SUFFICES ASSUME "renumber" \notin mishaps PROVE Numbers'
    BY <2>1 DEF Numbers
  <2>5. w \notin DOMAIN list
    BY <2>2, <2>3 DEF Numbers, WatchNumbers
  <2>6. \A k \in Watched : answers[k].id # w /\ answers[k].id[2] < n /\ answers[k].id[2] \in Nat
    BY <2>2, <2>3, WatchedIds DEF Numbers, WatchNumbers
  <2>7. \A k \in Watched' : answers'[k].id[2] < n + 1 /\ answers'[k].id \notin DOMAIN list
    BY <2>2, <2>3, <2>4, <2>5, <2>6 DEF Numbers, WatchNumbers
  <2>8. \A j, k \in Watched' : answers'[j].id = answers'[k].id => j = k
    BY <2>4, <2>6 DEF Numbers, WatchNumbers
  <2>9. \A i \in DOMAIN list : i[1] = "watch" => i[2] < n + 1
    BY <2>2, NextFields DEF Numbers, WatchNumbers
  <2>10. WatchNumbers'
    BY <2>1, <2>2, <2>7, <2>8, <2>9 DEF WatchNumbers
  <2> QED BY <2>1, <2>10 DEF Numbers, Early
<1>8. ASSUME Pausing \/ Exiting \/ (\E i : Stopping(i))
      PROVE  Numbers'
  <2> AStop
    BY <1>8 DEF AStop
  <2>1. UNCHANGED <<list, nextNum, target, targets, mishaps, coreNext>>
    BY StopKeeps
  <2>2. \E a : Added(answers, a, answers') /\ a.op \in {"stopped", "exited"}
    <3>1. CASE Pausing
      BY <3>1 DEF Pausing, Telling
    <3>2. CASE Exiting
      BY <3>2 DEF Exiting, Telling
    <3>3. CASE \E i : Stopping(i)
      BY <3>3 DEF Stopping, Telling
    <3> QED BY <1>8, <3>1, <3>2, <3>3
  <2>3. /\ \A k \in Watched' : k \in Watched /\ answers'[k] = answers[k]
    BY <2>2, KindAdded DEF Watched
  <2>4. "renumber" \notin mishaps => WatchNumbers'
    BY <2>1, <2>3 DEF Numbers, WatchNumbers
  <2> QED BY <2>1, <2>4 DEF Numbers, Early
<1>9. ASSUME Outdated \/ Connecting \/ Reopening
      PROVE  Numbers'
  <2> AnAnswer
    BY <1>9 DEF AnAnswer
  <2>1. Shrunk(answers, answers') /\ UNCHANGED <<mishaps, targets, nextNum, coreNext>>
    BY MainPops
  <2>2. target \notin {"none", "loading"}
    <3>1. answers # <<>>
      BY <2>1 DEF Shrunk
    <3> QED BY <3>1 DEF Phase
  <2> SUFFICES ASSUME "renumber" \notin mishaps PROVE Numbers'
    BY <2>1 DEF Numbers
  <2>3. ~Early /\ targets # 0
    BY <2>2, NotEarly
  <2>4. \A k \in Watched' : k + 1 \in Watched /\ answers'[k] = answers[k + 1] /\ k \in Int /\ k >= 1
    BY <2>1, KindShrunk DEF Watched

  <2>5. target' = target /\ DOMAIN list' = DOMAIN list
    BY <1>9 DEF Outdated, Connecting, Reopening, listVars
  <2>6. WatchNumbers'
    BY <2>1, <2>4, <2>5 DEF Numbers, WatchNumbers
  <2> QED BY <2>1, <2>3, <2>5, <2>6 DEF Numbers, Early
<1>10. ASSUME Listing PROVE Numbers'
  <2> AnAnswer
    BY <1>10 DEF AnAnswer
  <2>1. Shrunk(answers, answers') /\ UNCHANGED <<mishaps, targets, nextNum, coreNext>>
    BY MainPops
  <2>2. target \notin {"none", "loading"}
    <3>1. answers # <<>>
      BY <2>1 DEF Shrunk
    <3> QED BY <3>1 DEF Phase
  <2> SUFFICES ASSUME "renumber" \notin mishaps PROVE Numbers'
    BY <2>1 DEF Numbers
  <2>3. ~Early /\ targets # 0
    BY <2>2, NotEarly
  <2>4. \A k \in Watched' : k + 1 \in Watched /\ answers'[k] = answers[k + 1] /\ k \in Int /\ k >= 1
    BY <2>1, KindShrunk DEF Watched

  <2>5. target' = target /\ DOMAIN list' = DOMAIN list \cup {answers[1].id} /\ answers[1].op = "watched"
    BY <1>10 DEF Listing, Hearing
  <2>6. 1 \in Watched
    BY <2>1, <2>5, KindShrunk DEF Watched
  <2>7. \A k \in Watched' : answers'[k].id # answers[1].id
    BY <2>4, <2>6 DEF Numbers, WatchNumbers
  <2>8. answers[1].id[2] < coreNext["watch"]
    BY <2>6 DEF Numbers, WatchNumbers
  <2>9. WatchNumbers'
    BY <2>1, <2>4, <2>5, <2>7, <2>8 DEF Numbers, WatchNumbers
  <2> QED BY <2>1, <2>3, <2>5, <2>9 DEF Numbers, Early
<1>11. ASSUME Updating \/ Leaving \/ Disconnecting
      PROVE  Numbers'
  <2> AnAnswer
    BY <1>11 DEF AnAnswer
  <2>1. Shrunk(answers, answers') /\ UNCHANGED <<mishaps, targets, nextNum, coreNext>>
    BY MainPops
  <2>2. target \notin {"none", "loading"}
    <3>1. answers # <<>>
      BY <2>1 DEF Shrunk
    <3> QED BY <3>1 DEF Phase
  <2> SUFFICES ASSUME "renumber" \notin mishaps PROVE Numbers'
    BY <2>1 DEF Numbers
  <2>3. ~Early /\ targets # 0
    BY <2>2, NotEarly
  <2>4. \A k \in Watched' : k + 1 \in Watched /\ answers'[k] = answers[k + 1] /\ k \in Int /\ k >= 1
    BY <2>1, KindShrunk DEF Watched

  <2>5. target' \in {"stopped", "loaded", "none"} /\ DOMAIN list' = DOMAIN list
    BY <1>11 DEF Updating, Leaving, Disconnecting, listVars
  <2>6. WatchNumbers'
    BY <2>1, <2>4, <2>5 DEF Numbers, WatchNumbers
  <2> QED BY <2>1, <2>3, <2>5, <2>6 DEF Numbers, Early
<1>12. ASSUME \/ Asking
              \/ CancelDialog
              \/ AttachFirst
      PROVE  Numbers'
  <2>1. UNCHANGED <<target, targets, list, nextNum, coreNext, answers, mishaps>>
    BY <1>12 DEF Asking, AddWatchpoint, CancelDialog, AttachFirst, listVars, coreVars, counts
  <2> QED BY <2>1 DEF Numbers, Early, WatchNumbers, Watched
<1>13. ASSUME \/ \E op : Broken(op)
              \/ \E op : NoBreakpoint(op)
              \/ \E op : Setting(op)
              \/ Starting
              \/ Resuming
              \/ Dropping
      PROVE  Numbers'
  <2>1. UNCHANGED <<target, targets, list, nextNum, coreNext, answers, mishaps>>
    BY <1>13 DEF Broken, Taking, NoBreakpoint, Setting, Up, Starting, Resuming, Dropping, listVars,
       coreVars, counts
  <2> QED BY <2>1 DEF Numbers, Early, WatchNumbers, Watched
<1>14. ASSUME \E i : Ignored(i)
      PROVE  Numbers'
  <2>1. UNCHANGED <<target, targets, list, nextNum, coreNext, answers, mishaps>>
    BY <1>14 DEF Ignored, Moving, listVars, coreVars, counts
  <2> QED BY <2>1 DEF Numbers, Early, WatchNumbers, Watched
<1> QED BY <1>1, <1>2, <1>3, <1>4, <1>5, <1>6, <1>7, <1>8, <1>9, <1>10, <1>11, <1>12, <1>13,
          <1>14
       DEF Step, AnEdit, ARequest, ACoreStep, AStop, AnAnswer

-----------------------------------------------------------------------------
(* The commands follow the list                                            *)

(* What a step cannot be while LLDB's target is there, before and after it. *)
LEMMA Impossible ==
  ASSUME Shape, Phase, coreUp, coreUp', fault' = "none",
         \/ \E op : Broken(op)
         \/ \E op : NoBreakpoint(op)
         \/ \E r : Loading(r)
         \/ Ending
         \/ Load
         \/ Disconnecting
  PROVE  FALSE
<1>1. CASE (\E op : Broken(op)) \/ (\E op : NoBreakpoint(op))
  BY <1>1 DEF Broken, NoBreakpoint
<1>2. CASE (\E r : Loading(r)) \/ Load
  <2>1. target \in {"none", "loading"}
    BY <1>2 DEF Loading, Load
  <2> QED BY <2>1 DEF Phase
<1>3. CASE Ending
  BY <1>3 DEF Ending
<1>4. CASE Disconnecting
  <2>1. Shrunk(answers, answers') /\ answers[1].op = "closed"
    BY <1>4 DEF Disconnecting, Hearing
  <2>2. 1 \in Closed
    BY <2>1, KindShrunk DEF Closed
  <2> QED BY <2>2 DEF Phase
<1> QED BY <1>1, <1>2, <1>3, <1>4

(* While there is a target, edits are sent to it. *)
LEMMA UpHasImpl ==
  ASSUME Phase, coreUp, Shape
  PROVE  HasImpl /\ target \notin {"none", "loading"}
BY DEF Phase, HasImpl, Shape, TypeOK

(* LLDB gives a breakpoint the number the list gave it. *)
LEMMA InstallNumber ==
  ASSUME Shape, Fresh, InstallsInOrder, NEW n, NEW locs, Installing(n, locs)
  PROVE  /\ commands[1].id = <<"code", n>> /\ n \in Nat /\ n < nextNum /\ n = coreNext["code"] /\ 1 \in Installs
         /\ \A k \in Installs : commands[k].id = <<"code", n>> => k = 1
<1>1. Shrunk(commands, commands') /\ commands[1].op = "install" /\ n = coreNext["code"] /\ n \in Nat
  BY DEF Installing, Up, Taking
<1>2. 1 \in Installs /\ Installs \subseteq Int /\ \A k \in Installs : k >= 1
  BY <1>1 DEF Installs, Shrunk, Kind
<1>3. commands[1].id[2] < nextNum /\ commands[1].id[2] \in Nat /\ commands[1].id[2] >= n /\ nextNum \in Nat
  BY <1>1, <1>2, PendingIds, NextFields DEF Fresh, InstallsInOrder
<1>4. n \in coreNext["code"] .. nextNum - 1
  BY <1>1, <1>3
<1>5. PICK k \in Installs : commands[k].id = <<"code", n>>
  BY <1>4 DEF InstallsInOrder
<1>6. commands[k].id[2] = n
  BY <1>5
<1>7. k = 1
  <2>1. ~(1 < k)
    BY <1>1, <1>2, <1>3, <1>6 DEF InstallsInOrder
  <2> QED BY <1>2, <2>1
<1>8. \A j \in Installs : commands[j].id = <<"code", n>> => j = 1
  BY <1>2, <1>5, <1>7 DEF Fresh
<1>9. commands[1].id = <<"code", n>>
  BY <1>5, <1>7
<1>10. n < nextNum
  BY <1>1, <1>3
<1> QED BY <1>1, <1>2, <1>8, <1>9, <1>10

(* The installs stay in the order of their numbers. *)
LEMMA InOrderStep ==
  ASSUME Shape,
         Phase,
         "renumber" \notin mishaps,
         coreUp,
         coreUp',
         Step,
         fault' = "none",
         Fresh,
         InstallsInOrder
  PROVE  InstallsInOrder'
<1>1. ASSUME \/ \E op : Broken(op)
             \/ \E op : NoBreakpoint(op)
             \/ \E r : Loading(r)
             \/ Ending
             \/ Load
             \/ Disconnecting
      PROVE  InstallsInOrder'
  <2> QED BY <1>1, Impossible
<1>2. ASSUME NEW i, NEW r, Adding(i, r) PROVE InstallsInOrder'
  <2>1. UNCHANGED <<core, coreNext>>
    <3> AnEdit
      BY <1>2 DEF AnEdit
    <3> QED BY EditKeeps
  <2>2. Grown(commands, r, commands') /\ nextNum' = nextNum + 1 /\ nextNum \in Nat
    BY <1>2, AddingLists
  <2>3. i = <<"code", nextNum>>
    BY <1>2, AddingLists
  <2>4. Len(r) = 1 /\ r[1].op = "install" /\ r[1].id = i
    BY <1>2, AddingSends, AddingSends1, UpHasImpl
  <2>5. 1 \in Kind(r, {"install"}) /\ \A k \in Kind(r, {"install"}) : k = 1
    BY <2>2, <2>4 DEF Kind, Grown
  <2>6. /\ \A k \in Installs : k \in Installs' /\ commands'[k] = commands[k] /\ k \in Int /\ k <= Len(commands)
        /\ Len(commands) + 1 \in Installs' /\ commands'[Len(commands) + 1].id = i /\ Len(commands) \in Int
        /\ \A k \in Installs' : \/ k \in Installs /\ commands'[k] = commands[k] /\ k <= Len(commands)
                                \/ k = Len(commands) + 1
    <3>1. /\ \A k \in Installs : k \in Installs' /\ commands'[k] = commands[k] /\ k \in Int /\ k <= Len(commands)
          /\ Len(commands) + 1 \in Installs' /\ commands'[Len(commands) + 1] = r[1] /\ Len(commands) \in Int
      BY <2>2, <2>5, KindGrown DEF Installs
    <3>2. \A k \in Installs' : \/ k \in Installs /\ commands'[k] = commands[k] /\ k <= Len(commands)
                               \/ k \in Int /\ k - Len(commands) = 1
      BY <2>2, <2>5, KindGrown DEF Installs
    <3> QED BY <2>4, <3>1, <3>2
  <2>7. \A k \in Installs : commands[k].id[2] < nextNum /\ commands[k].id[2] \in Nat
    BY PendingIds DEF Fresh
  <2>8. i[2] = nextNum
    BY <2>3
  <2>9. \A j, k \in Installs' : j < k => commands'[j].id[2] < commands'[k].id[2]
    BY <2>6, <2>7, <2>8 DEF InstallsInOrder
  <2>10. coreNext["code"] \in Nat
    BY NextFields
  <2>11. \A m \in coreNext["code"] .. nextNum' - 1 : \E k \in Installs' : commands'[k].id = <<"code", m>>
    <3>1. \A m \in coreNext["code"] .. nextNum' - 1 : m \in coreNext["code"] .. nextNum - 1 \/ m = nextNum
      BY <2>2, <2>10
    <3> SUFFICES ASSUME NEW m \in coreNext["code"] .. nextNum' - 1
        PROVE  \E k \in Installs' : commands'[k].id = <<"code", m>>
      OBVIOUS
    <3>2. CASE m = nextNum
      BY <2>3, <2>6, <3>2
    <3>3. CASE m \in coreNext["code"] .. nextNum - 1
      <4>1. PICK k \in Installs : commands[k].id = <<"code", m>>
        BY <3>3 DEF InstallsInOrder
      <4> QED BY <2>6, <4>1
    <3> QED BY <3>1, <3>2, <3>3
  <2>12. \A k \in Installs' : commands'[k].id[2] >= coreNext["code"]
    BY <2>6, <2>8 DEF InstallsInOrder
  <2>13. coreNext["code"] <= nextNum'
    BY <2>2, <2>10 DEF InstallsInOrder
  <2>14. \A j \in DOMAIN core' : j[2] < coreNext'[j[1]]
    BY <2>1 DEF InstallsInOrder
  <2> QED BY <2>1, <2>9, <2>11, <2>12, <2>13, <2>14 DEF InstallsInOrder
<1>3. ASSUME (\E S, r : Removing(S, r)) \/ (\E op, S, r : Changing(op, S, r))
      PROVE  InstallsInOrder'
  <2> AnEdit
    BY <1>3 DEF AnEdit
  <2>1. UNCHANGED <<core, coreNext, nextNum>>
    BY <1>3, EditKeeps DEF Removing, Changing
  <2>2. PICK r : Grown(commands, r, commands') /\ \A k \in 1..Len(r) : r[k].op # "install"
    <3>1. CASE \E S, r : Removing(S, r)
      <4>1. PICK S, r : Removing(S, r)
        BY <3>1
      <4>2. Grown(commands, r, commands') /\ \A k \in 1..Len(r) : r[k].op = "remove"
        BY <4>1, RemovingSends
      <4> QED BY <4>2
    <3>2. CASE \E op, S, r : Changing(op, S, r)
      <4>1. PICK op, S, r : Changing(op, S, r)
        BY <3>2
      <4>2. op # "install" /\ Grown(commands, r, commands') /\ \A k \in 1..Len(r) : r[k].op = op
        BY <4>1, ChangingSends
      <4> QED BY <4>2
    <3> QED BY <1>3, <3>1, <3>2
  <2>3. Kind(r, {"install"}) = {}
    BY <2>2 DEF Kind, Grown
  <2>4. /\ \A k \in Installs : k \in Installs' /\ commands'[k] = commands[k]
        /\ \A k \in Installs' : k \in Installs /\ commands'[k] = commands[k]
    BY <2>2, <2>3, KindGrown DEF Installs
  <2> QED BY <2>1, <2>4 DEF InstallsInOrder
<1>4. ASSUME Asking \/ Continuing \/ Shutting
      PROVE  InstallsInOrder'
  <2>1. UNCHANGED <<core, coreNext, nextNum>>
    BY <1>4, AskingSends
  <2>2. \E op \in {"watch", "resume", "close"} : Added(commands, Plain(op), commands')
    BY <1>4, AskingSends
  <2>3. /\ \A k \in Installs : k \in Installs' /\ commands'[k] = commands[k]
        /\ \A k \in Installs' : k \in Installs /\ commands'[k] = commands[k]
    BY <2>2, KindAdded DEF Installs, Plain
  <2> QED BY <2>1, <2>3 DEF InstallsInOrder
<1>5. ASSUME NEW r, Launching(r) PROVE InstallsInOrder'
  <2>1. UNCHANGED <<core, coreNext, nextNum>>
    BY <1>5 DEF Launching, coreVars
  <2>2. /\ \A k \in Installs : k \in Installs' /\ commands'[k] = commands[k]
        /\ \A k \in Installs' : k \in Installs /\ commands'[k] = commands[k]
    BY <1>5, LaunchKinds DEF Installs
  <2> QED BY <2>1, <2>2 DEF InstallsInOrder
<1>6. ASSUME NEW n, NEW locs, Installing(n, locs) PROVE InstallsInOrder'
  <2> DEFINE i == <<"code", n>>
  <2>1. Shrunk(commands, commands') /\ UNCHANGED nextNum
    BY <1>6, CorePops DEF ACoreStep
  <2>2. /\ commands[1].id = i /\ n \in Nat /\ n < nextNum /\ n = coreNext["code"] /\ 1 \in Installs
        /\ \A k \in Installs : commands[k].id = i => k = 1
    BY <1>6, InstallNumber
  <2>3. /\ coreNext'["code"] = n + 1 /\ coreNext'["watch"] = coreNext["watch"]
        /\ DOMAIN core' = DOMAIN core \cup {i}
    BY <1>6 DEF Installing
  <2>4. i[1] = "code" /\ i[2] = n /\ \A m : <<"code", m>> = i => m = n
    OBVIOUS
  <2> HIDE DEF i
  <2>5. /\ \A k \in Installs' : k \in Int /\ k + 1 \in Installs /\ commands'[k] = commands[k + 1] /\ 1 < k + 1
        /\ \A k \in Installs : k = 1 \/ (k - 1 \in Installs' /\ commands'[k - 1] = commands[k])
    BY <2>1, KindShrunk DEF Installs
  <2>6. \A k \in Installs' : commands'[k].id[2] >= n + 1
    <3> SUFFICES ASSUME NEW k \in Installs' PROVE commands'[k].id[2] >= n + 1
      OBVIOUS
    <3>1. commands[1].id[2] < commands[k + 1].id[2] /\ commands[k + 1].id[2] \in Nat
      BY <2>2, <2>5, PendingIds DEF InstallsInOrder
    <3> QED BY <2>2, <2>4, <2>5, <3>1
  <2>7. \A j, k \in Installs' : j < k => commands'[j].id[2] < commands'[k].id[2]
    <3> SUFFICES ASSUME NEW j \in Installs', NEW k \in Installs', j < k
        PROVE  commands'[j].id[2] < commands'[k].id[2]
      OBVIOUS
    <3>1. j + 1 < k + 1
      BY <2>5
    <3> QED BY <2>5, <3>1 DEF InstallsInOrder
  <2>8. \A m \in n + 1 .. nextNum - 1 : \E k \in Installs' : commands'[k].id = <<"code", m>>
    <3> SUFFICES ASSUME NEW m \in n + 1 .. nextNum - 1
        PROVE  \E k \in Installs' : commands'[k].id = <<"code", m>>
      OBVIOUS
    <3>1. m \in coreNext["code"] .. nextNum - 1 /\ m # n
      BY <2>2, NextFields
    <3>2. PICK k \in Installs : commands[k].id = <<"code", m>>
      BY <3>1 DEF InstallsInOrder
    <3>3. k # 1
      BY <2>2, <2>4, <3>1, <3>2
    <3> QED BY <2>5, <3>2, <3>3
  <2>9. \A j \in DOMAIN core' : j[2] < coreNext'[j[1]]
    <3> SUFFICES ASSUME NEW j \in DOMAIN core' PROVE j[2] < coreNext'[j[1]]
      OBVIOUS
    <3>1. CASE j = i
      BY <2>2, <2>3, <2>4, <3>1
    <3>2. CASE j \in DOMAIN core
      <4>1. j[2] \in Nat /\ j[1] \in {"code", "watch"} /\ j[2] < coreNext[j[1]]
        BY <3>2, NextFields DEF InstallsInOrder
      <4> QED BY <2>2, <2>3, <4>1
    <3> QED BY <2>3, <3>1, <3>2
  <2>10. n + 1 <= nextNum
    BY <2>2, NextFields
  <2> QED BY <2>1, <2>3, <2>6, <2>7, <2>8, <2>9, <2>10 DEF InstallsInOrder
<1>7. ASSUME \/ \E n : Watching(n)
             \/ Refusing
             \/ \E op : Setting(op)
             \/ Dropping
             \/ Starting
             \/ Resuming
      PROVE  InstallsInOrder'
  <2> ACoreStep
    BY <1>7 DEF ACoreStep
  <2>1. Shrunk(commands, commands') /\ UNCHANGED nextNum
    BY CorePops
  <2>2. commands[1].op \notin {"install"}
    BY <1>7 DEF Watching, Refusing, Setting, Dropping, Starting, Resuming, Up, Taking
  <2>3. /\ \A k \in Installs' : k \in Int /\ k + 1 \in Installs /\ commands'[k] = commands[k + 1]
        /\ \A k \in Installs : k - 1 \in Installs' /\ commands'[k - 1] = commands[k]
    <3>1. 1 \notin Installs
      BY <2>2 DEF Installs, Kind
    <3> QED BY <2>1, <3>1, KindShrunk DEF Installs
  <2>4. coreNext'["code"] = coreNext["code"]
    BY <1>7 DEF Watching, Refusing, Setting, Dropping, Starting, Resuming, coreVars
  <2>5. \A j \in DOMAIN core' : j[2] < coreNext'[j[1]]
    <3>1. CASE \E n : Watching(n)
      <4>1. PICK n : Watching(n)
        BY <3>1
      <4>2. DOMAIN core' = DOMAIN core \cup {<<"watch", n>>} /\ n \in Nat
            /\ coreNext'["watch"] = n + 1 /\ n = coreNext["watch"] /\ coreNext'["code"] = coreNext["code"]
        BY <4>1 DEF Watching
      <4>3. \A j \in DOMAIN core : j[2] < coreNext'[j[1]]
        <5> SUFFICES ASSUME NEW j \in DOMAIN core PROVE j[2] < coreNext'[j[1]]
          OBVIOUS
        <5>1. j[2] \in Nat /\ j[1] \in {"code", "watch"} /\ j[2] < coreNext[j[1]]
          BY NextFields DEF InstallsInOrder
        <5> QED BY <4>2, <5>1
      <4> QED BY <4>2, <4>3
    <3>2. CASE Refusing \/ (\E op : Setting(op)) \/ Dropping \/ Starting \/ Resuming
      <4>1. DOMAIN core' \subseteq DOMAIN core /\ coreNext' = coreNext
        BY <3>2 DEF Refusing, Setting, Dropping, Starting, Resuming, coreVars
      <4> QED BY <4>1 DEF InstallsInOrder
    <3> QED BY <1>7, <3>1, <3>2
  <2>6. \A j, k \in Installs' : j < k => commands'[j].id[2] < commands'[k].id[2]
    <3> SUFFICES ASSUME NEW j \in Installs', NEW k \in Installs', j < k
        PROVE  commands'[j].id[2] < commands'[k].id[2]
      OBVIOUS
    <3>1. j + 1 < k + 1
      BY <2>3
    <3> QED BY <2>3, <3>1 DEF InstallsInOrder
  <2> QED BY <2>1, <2>3, <2>4, <2>5, <2>6 DEF InstallsInOrder
<1>8. ASSUME \/ Pausing
             \/ Exiting
             \/ \E i : Ignored(i)
             \/ \E i : Stopping(i)
      PROVE  InstallsInOrder'
  <2> AStop
    BY <1>8 DEF AStop
  <2>1. UNCHANGED <<commands, nextNum, coreNext>> /\ Installs' = Installs
    BY StopKeeps DEF Installs
  <2>2. DOMAIN core' = DOMAIN core
    BY <1>8 DEF Pausing, Exiting, Ignored, Stopping, Counted
  <2> QED BY <2>1, <2>2 DEF InstallsInOrder
<1>9. ASSUME \/ CancelDialog
             \/ AttachFirst
      PROVE  InstallsInOrder'
  <2>1. UNCHANGED <<commands, nextNum, core, coreNext>>
    BY <1>9 DEF CancelDialog, AttachFirst, listVars, coreVars, counts
  <2> QED BY <2>1 DEF InstallsInOrder, Installs
<1>10. ASSUME \/ Outdated
              \/ Connecting
              \/ Listing
              \/ Reopening
              \/ Updating
              \/ Leaving
      PROVE  InstallsInOrder'
  <2>1. UNCHANGED <<commands, nextNum, core, coreNext>>
    BY <1>10 DEF Outdated, Hearing, Connecting, Listing, Reopening, Updating, Leaving, listVars,
       coreVars, counts
  <2> QED BY <2>1 DEF InstallsInOrder, Installs
<1> QED BY <1>1, <1>2, <1>3, <1>4, <1>5, <1>6, <1>7, <1>8, <1>9, <1>10
       DEF Step, AnEdit, ARequest, ACoreStep, AStop, AnAnswer

-----------------------------------------------------------------------------
(* What each step does to the commands of a kind                           *)

(* The commands of a kind when the core thread takes one. *)
LEMMA CoreKinds ==
  ASSUME ACoreStep, NEW ops
  PROVE  /\ Kind(commands, ops) \subseteq Int /\ Kind(commands', ops) \subseteq Int
         /\ \A k \in Kind(commands', ops) : k + 1 \in Kind(commands, ops) /\ commands'[k] = commands[k + 1] /\ k >= 1
         /\ \A k \in Kind(commands, ops) :
              k = 1 \/ (k - 1 \in Kind(commands', ops) /\ commands'[k - 1] = commands[k] /\ k > 1)
<1>1. Shrunk(commands, commands')
  BY CorePops
<1> QED BY <1>1, KindShrunk

(* A request adds no command but its own. *)
LEMMA AskKinds ==
  ASSUME Asking \/ Continuing \/ Shutting, NEW ops, ops \cap {"watch", "resume", "close"} = {}
  PROVE  Kind(commands', ops) = Kind(commands, ops) /\ \A k \in Kind(commands, ops) : commands'[k] = commands[k]
<1>1. PICK op \in {"watch", "resume", "close"} : Added(commands, Plain(op), commands')
  BY AskingSends
<1>2. Plain(op).op = op /\ op \notin ops
  BY DEF Plain
<1>3. Kind(commands', ops) = Kind(commands, ops)
  BY <1>1, <1>2, KindSame
<1> QED BY <1>1, <1>3, KindAdded

(* The commands of a kind when a breakpoint is added. *)
LEMMA AddKinds ==
  ASSUME Shape, NEW i, NEW r, Adding(i, r), NEW ops
  PROVE  /\ Kind(commands, ops) \subseteq Int /\ Kind(commands', ops) \subseteq Int /\ Len(commands) \in Int
         /\ \A k \in Kind(commands, ops) : k \in Kind(commands', ops) /\ commands'[k] = commands[k]
                                           /\ k <= Len(commands)
         /\ \A k \in Kind(commands', ops) :
              \/ k \in Kind(commands, ops) /\ commands'[k] = commands[k] /\ k <= Len(commands)
              \/ "install" \in ops /\ k = Len(commands) + 1 /\ commands'[k].op = "install" /\ commands'[k].id = i
                 /\ commands'[k].on = list'[i].on /\ commands'[k].cond = list'[i].cond
         /\ HasImpl /\ "install" \in ops => Len(commands) + 1 \in Kind(commands', ops)
                                            /\ commands'[Len(commands) + 1].id = i
<1>1. Grown(commands, r, commands')
  BY AddingLists
<1>2. \A k \in 1..Len(r) : r[k].op = "install" /\ r[k].id = i /\ r[k].on = list'[i].on /\ r[k].cond = list'[i].cond /\ k = 1
  BY AddingSends
<1>3. \A k \in Kind(r, ops) : "install" \in ops /\ k \in 1..Len(r)
  BY <1>1, <1>2 DEF Kind, Grown
<1>4. HasImpl /\ "install" \in ops => 1 \in Kind(r, ops) /\ 1 \in 1..Len(r)
  BY <1>1, <1>2, AddingSends1 DEF Kind, Grown
<1>5. /\ Kind(commands, ops) \subseteq Int /\ Kind(commands', ops) \subseteq Int /\ Len(commands) \in Int
      /\ \A k \in Kind(commands, ops) : k \in Kind(commands', ops) /\ commands'[k] = commands[k] /\ k <= Len(commands)
  BY <1>1, KindGrown
<1>6. \A k \in Kind(commands', ops) : \/ k \in Kind(commands, ops) /\ commands'[k] = commands[k] /\ k <= Len(commands)
                                      \/ k - Len(commands) \in Kind(r, ops) /\ commands'[k] = r[k - Len(commands)]
  BY <1>1, KindGrown
<1>7. \A k \in Kind(r, ops) : Len(commands) + k \in Kind(commands', ops) /\ commands'[Len(commands) + k] = r[k]
  BY <1>1 DEF Kind, Grown
<1>8. ASSUME NEW k \in Kind(commands', ops)
      PROVE  \/ k \in Kind(commands, ops) /\ commands'[k] = commands[k] /\ k <= Len(commands)
             \/ "install" \in ops /\ k = Len(commands) + 1 /\ commands'[k].op = "install" /\ commands'[k].id = i
                 /\ commands'[k].on = list'[i].on /\ commands'[k].cond = list'[i].cond
  <2>1. CASE k - Len(commands) \in Kind(r, ops) /\ commands'[k] = r[k - Len(commands)]
    <3>1. k - Len(commands) \in 1..Len(r) /\ "install" \in ops
      BY <1>3, <2>1
    <3>2. k - Len(commands) = 1
      BY <1>2, <3>1
    <3>3. k = Len(commands) + 1
      BY <1>5, <3>2
    <3>4. LET c == r[k - Len(commands)] IN
          c.op = "install" /\ c.id = i /\ c.on = list'[i].on /\ c.cond = list'[i].cond
      BY <1>2, <3>1
    <3> QED BY <2>1, <3>1, <3>3, <3>4
  <2> QED BY <1>6, <2>1
<1>9. HasImpl /\ "install" \in ops => Len(commands) + 1 \in Kind(commands', ops)
                                            /\ commands'[Len(commands) + 1].id = i
  BY <1>2, <1>4, <1>7
<1> QED BY <1>5, <1>8, <1>9

\* r has a command op for each breakpoint of S.
Sends(op, S, r) ==
  /\ Grown(commands, r, commands')
  /\ \A k \in 1..Len(r) : r[k].op = op /\ r[k].id \in S
  /\ \A j, k \in 1..Len(r) : r[j].id = r[k].id => j = k
  /\ HasImpl => \A i \in S : \E k \in 1..Len(r) : r[k].id = i

(* The commands of a kind when one is sent for each breakpoint of S. *)
LEMMA SendKinds ==
  ASSUME NEW op, NEW S, NEW r, NEW ops, Sends(op, S, r)
  PROVE  /\ Kind(commands, ops) \subseteq Int /\ Kind(commands', ops) \subseteq Int /\ Len(commands) \in Int
         /\ \A k \in Kind(commands, ops) : k \in Kind(commands', ops) /\ commands'[k] = commands[k]
                                           /\ k <= Len(commands)
         /\ \A k \in Kind(commands', ops) :
              \/ k \in Kind(commands, ops) /\ commands'[k] = commands[k] /\ k <= Len(commands)
              \/ op \in ops /\ k > Len(commands) /\ commands'[k].op = op /\ commands'[k].id \in S
                 /\ k - Len(commands) \in 1..Len(r) /\ commands'[k] = r[k - Len(commands)]
         /\ \A j, k \in Kind(commands', ops) :
              j > Len(commands) /\ k > Len(commands) /\ commands'[j].id = commands'[k].id => j = k
         /\ HasImpl /\ op \in ops => \A i \in S : \E k \in Kind(commands', ops) :
              k > Len(commands) /\ commands'[k].op = op /\ commands'[k].id = i
<1>1. \A k \in Kind(r, ops) : op \in ops /\ k \in 1..Len(r)
  BY DEF Kind, Grown, Sends
<1>2. op \in ops => \A k \in 1..Len(r) : k \in Kind(r, ops)
  BY DEF Kind, Grown, Sends
<1>3. /\ Kind(commands, ops) \subseteq Int /\ Kind(commands', ops) \subseteq Int /\ Len(commands) \in Int
      /\ \A k \in Kind(commands, ops) : k \in Kind(commands', ops) /\ commands'[k] = commands[k] /\ k <= Len(commands)
  BY KindGrown DEF Sends
<1>4. \A k \in Kind(commands', ops) :
         \/ k \in Kind(commands, ops) /\ commands'[k] = commands[k] /\ k <= Len(commands)
         \/ k - Len(commands) \in Kind(r, ops) /\ commands'[k] = r[k - Len(commands)] /\ k > Len(commands)
  BY KindGrown DEF Sends
<1>5. \A k \in Kind(r, ops) : Len(commands) + k \in Kind(commands', ops) /\ commands'[Len(commands) + k] = r[k]
                              /\ k >= 1 /\ k \in Int
  BY DEF Kind, Grown, Sends
<1>6. \A k \in Kind(commands', ops) :
              \/ k \in Kind(commands, ops) /\ commands'[k] = commands[k] /\ k <= Len(commands)
              \/ op \in ops /\ k > Len(commands) /\ commands'[k].op = op /\ commands'[k].id \in S
                 /\ k - Len(commands) \in 1..Len(r) /\ commands'[k] = r[k - Len(commands)]
  BY <1>1, <1>4 DEF Sends
<1>7. ASSUME NEW j \in Kind(commands', ops), NEW k \in Kind(commands', ops),
             j > Len(commands), k > Len(commands), commands'[j].id = commands'[k].id
      PROVE  j = k
  <2>1. j \in Int /\ k \in Int
    BY <1>3
  <2>2. /\ j - Len(commands) \in 1..Len(r) /\ commands'[j] = r[j - Len(commands)]
        /\ k - Len(commands) \in 1..Len(r) /\ commands'[k] = r[k - Len(commands)]
    BY <1>3, <1>6, <1>7, <2>1
  <2>3. j - Len(commands) = k - Len(commands)
    BY <1>7, <2>2 DEF Sends
  <2> QED BY <1>3, <2>1, <2>3
<1>8. ASSUME HasImpl, op \in ops, NEW i \in S
      PROVE  \E k \in Kind(commands', ops) : k > Len(commands) /\ commands'[k].op = op /\ commands'[k].id = i
  <2>1. PICK k \in 1..Len(r) : r[k].id = i
    BY <1>8 DEF Sends
  <2>2. k \in Kind(r, ops) /\ r[k].op = op
    BY <1>2, <1>8 DEF Sends
  <2>3. Len(commands) + k \in Kind(commands', ops) /\ commands'[Len(commands) + k] = r[k] /\ Len(commands) + k > Len(commands)
    BY <1>3, <1>5, <2>2
  <2> QED BY <2>1, <2>2, <2>3
<1> QED BY <1>3, <1>6, <1>7, <1>8

(* The commands of a kind when breakpoints are removed. *)
LEMMA RemoveKinds ==
  ASSUME Shape, NEW S, NEW r, Removing(S, r), NEW ops
  PROVE  /\ Kind(commands, ops) \subseteq Int /\ Kind(commands', ops) \subseteq Int /\ Len(commands) \in Int
         /\ \A k \in Kind(commands, ops) : k \in Kind(commands', ops) /\ commands'[k] = commands[k]
                                           /\ k <= Len(commands)
         /\ \A k \in Kind(commands', ops) :
              \/ k \in Kind(commands, ops) /\ commands'[k] = commands[k] /\ k <= Len(commands)
              \/ "remove" \in ops /\ k > Len(commands) /\ commands'[k].op = "remove" /\ commands'[k].id \in S
         /\ \A j, k \in Kind(commands', ops) :
              j > Len(commands) /\ k > Len(commands) /\ commands'[j].id = commands'[k].id => j = k
         /\ HasImpl /\ "remove" \in ops => \A i \in S : \E k \in Kind(commands', ops) :
              k > Len(commands) /\ commands'[k].op = "remove" /\ commands'[k].id = i
<1> DEFINE op == "remove"
<1>1. Sends(op, S, r)
  BY RemovingSends DEF Sends
<1> HIDE DEF op
<1>2. /\ Kind(commands, ops) \subseteq Int /\ Kind(commands', ops) \subseteq Int /\ Len(commands) \in Int
      /\ \A k \in Kind(commands, ops) : k \in Kind(commands', ops) /\ commands'[k] = commands[k]
                                           /\ k <= Len(commands)
      /\ \A k \in Kind(commands', ops) :
              \/ k \in Kind(commands, ops) /\ commands'[k] = commands[k] /\ k <= Len(commands)
              \/ op \in ops /\ k > Len(commands) /\ commands'[k].op = op /\ commands'[k].id \in S
                 /\ k - Len(commands) \in 1..Len(r) /\ commands'[k] = r[k - Len(commands)]
      /\ \A j, k \in Kind(commands', ops) :
              j > Len(commands) /\ k > Len(commands) /\ commands'[j].id = commands'[k].id => j = k
      /\ HasImpl /\ op \in ops => \A i \in S : \E k \in Kind(commands', ops) :
              k > Len(commands) /\ commands'[k].op = op /\ commands'[k].id = i
  BY <1>1, SendKinds
<1> QED BY <1>2 DEF op

(* The commands of a kind when breakpoints are changed. *)
LEMMA ChangeKinds ==
  ASSUME Shape, NEW op, NEW S, NEW r, Changing(op, S, r), NEW ops
  PROVE  /\ Kind(commands, ops) \subseteq Int /\ Kind(commands', ops) \subseteq Int /\ Len(commands) \in Int
         /\ \A k \in Kind(commands, ops) : k \in Kind(commands', ops) /\ commands'[k] = commands[k]
                                           /\ k <= Len(commands)
         /\ \A k \in Kind(commands', ops) :
              \/ k \in Kind(commands, ops) /\ commands'[k] = commands[k] /\ k <= Len(commands)
              \/ op \in ops /\ k > Len(commands) /\ commands'[k].op = op /\ commands'[k].id \in S
                 /\ commands'[k].on = list'[commands'[k].id].on /\ commands'[k].cond = list'[commands'[k].id].cond
                 /\ commands'[k].ignore = IgnoreCount(list'[commands'[k].id])
         /\ \A j, k \in Kind(commands', ops) :
              j > Len(commands) /\ k > Len(commands) /\ commands'[j].id = commands'[k].id => j = k
         /\ HasImpl /\ op \in ops => \A i \in S : \E k \in Kind(commands', ops) :
              k > Len(commands) /\ commands'[k].op = op /\ commands'[k].id = i
<1>1. Sends(op, S, r)
  BY ChangingSends DEF Sends
<1>2. /\ Kind(commands, ops) \subseteq Int /\ Kind(commands', ops) \subseteq Int /\ Len(commands) \in Int
      /\ \A k \in Kind(commands, ops) : k \in Kind(commands', ops) /\ commands'[k] = commands[k]
                                           /\ k <= Len(commands)
      /\ \A k \in Kind(commands', ops) :
              \/ k \in Kind(commands, ops) /\ commands'[k] = commands[k] /\ k <= Len(commands)
              \/ op \in ops /\ k > Len(commands) /\ commands'[k].op = op /\ commands'[k].id \in S
                 /\ k - Len(commands) \in 1..Len(r) /\ commands'[k] = r[k - Len(commands)]
      /\ \A j, k \in Kind(commands', ops) :
              j > Len(commands) /\ k > Len(commands) /\ commands'[j].id = commands'[k].id => j = k
      /\ HasImpl /\ op \in ops => \A i \in S : \E k \in Kind(commands', ops) :
              k > Len(commands) /\ commands'[k].op = op /\ commands'[k].id = i
  BY <1>1, SendKinds
<1>3. \A k \in 1..Len(r) : /\ r[k].on = list'[r[k].id].on /\ r[k].cond = list'[r[k].id].cond
                           /\ r[k].ignore = IgnoreCount(list'[r[k].id])
  BY ChangingSends
<1>4. ASSUME NEW k \in Kind(commands', ops)
      PROVE  \/ k \in Kind(commands, ops) /\ commands'[k] = commands[k] /\ k <= Len(commands)
             \/ op \in ops /\ k > Len(commands) /\ commands'[k].op = op /\ commands'[k].id \in S
                 /\ commands'[k].on = list'[commands'[k].id].on /\ commands'[k].cond = list'[commands'[k].id].cond
                 /\ commands'[k].ignore = IgnoreCount(list'[commands'[k].id])
  BY <1>2, <1>3
<1> QED BY <1>2, <1>4

=============================================================================
