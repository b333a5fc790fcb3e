------------------------ MODULE BreakpointsProofs ------------------------
(***************************************************************************)
(* What the list holds, what the view shows and what is on its way between *)
(* the list and LLDB agree, whatever the bounds and the mishaps: ListSound *)
(* is an invariant of Breakpoints. Here are the parts of the invariant     *)
(* that relate the list to the target that is there.                       *)
(***************************************************************************)
EXTENDS BreakpointsSteps

-----------------------------------------------------------------------------
(* The breakpoints the commands are for                                    *)

(* The breakpoints the commands are about. *)
LEMMA CommandIds ==
  ASSUME Shape
  PROVE  /\ \A k \in Installs : commands[k].id[1] = "code" /\ commands[k].op = "install"
         /\ \A k \in Editing : commands[k].id \in Ids /\ commands[k].op \in EditOps
         /\ \A k \in Removals : k \in Editing /\ commands[k].op = "remove"
<1>1. ASSUME NEW k \in Installs PROVE commands[k].id[1] = "code" /\ commands[k].op = "install"
  BY PendingIds DEF Installs, Kind, Code
<1>2. ASSUME NEW k \in Editing PROVE commands[k].id \in Ids /\ commands[k].op \in EditOps
  <2>1. commands[k] \in Cmds /\ commands[k].op \in EditOps
    BY DEF Shape, Typed, Editing, Kind
  <2> QED BY <2>1, CommandFields
<1>3. ASSUME NEW k \in Removals PROVE k \in Editing /\ commands[k].op = "remove"
  BY DEF Removals, Editing, Kind, EditOps
<1> QED BY <1>1, <1>2, <1>3

(* What an install that is waiting is for is not there. *)
LEMMA NotThere ==
  ASSUME Shape, InstallsInOrder
  PROVE  \A k \in Installs : commands[k].id \notin DOMAIN core
<1> SUFFICES ASSUME NEW k \in Installs, commands[k].id \in DOMAIN core PROVE FALSE
  OBVIOUS
<1>1. commands[k].id[1] = "code" /\ commands[k].id[2] \in Nat
  BY CommandIds, PendingIds
<1>2. commands[k].id[2] >= coreNext["code"] /\ commands[k].id[2] < coreNext["code"]
  BY <1>1 DEF InstallsInOrder
<1> QED BY <1>1, <1>2, NextFields

(* An edit finds its breakpoint when it is its turn. *)
LEMMA EditsFindStep ==
  ASSUME Shape,
         Phase,
         "renumber" \notin mishaps,
         coreUp,
         coreUp',
         Step,
         fault' = "none",
         Fresh,
         Numbers,
         InstallsInOrder,
         Matched
  PROVE  EditsFind'
<1>1. ASSUME \/ \E op : Broken(op)
             \/ \E op : NoBreakpoint(op)
             \/ \E r : Loading(r)
             \/ Ending
             \/ Load
             \/ Disconnecting
      PROVE  EditsFind'
  <2> QED BY <1>1, Impossible
<1>2. ASSUME NEW i, NEW r, Adding(i, r) PROVE EditsFind'
  <2>1. UNCHANGED <<core>>
    <3> AnEdit
      BY <1>2 DEF AnEdit
    <3> QED BY EditKeeps
  <2>2. /\ \A k \in Editing' : k \in Editing /\ commands'[k] = commands[k]
        /\ \A k \in Installs : k \in Installs' /\ commands'[k] = commands[k]
    BY <1>2, AddKinds DEF Editing, Installs, EditOps
  <2> QED BY <2>1, <2>2 DEF EditsFind, Matched
<1>3. ASSUME NEW S, NEW r, Removing(S, r) PROVE EditsFind'
  <2>1. UNCHANGED <<core>> /\ S \subseteq DOMAIN list
    <3> AnEdit
      BY <1>3 DEF AnEdit
    <3> QED BY <1>3, EditKeeps DEF Removing
  <2>2. /\ \A k \in Editing' : \/ k \in Editing /\ commands'[k] = commands[k]
                               \/ commands'[k].id \in S /\ k > Len(commands)
        /\ \A k \in Installs : k \in Installs' /\ commands'[k] = commands[k] /\ k <= Len(commands)
        /\ Installs \subseteq Int /\ Editing' \subseteq Int /\ Len(commands) \in Int
    BY <1>3, RemoveKinds DEF Editing, Installs, EditOps
  <2>3. \A i \in S : i \in DOMAIN core \/ \E j \in Installs : commands[j].id = i
    BY <2>1 DEF Matched, ListKnown
  <2> QED BY <2>1, <2>2, <2>3 DEF EditsFind, Matched
<1>4. ASSUME NEW op, NEW S, NEW r, Changing(op, S, r) PROVE EditsFind'
  <2>1. UNCHANGED <<core>> /\ S \subseteq DOMAIN list
    <3> AnEdit
      BY <1>4 DEF AnEdit
    <3> QED BY <1>4, EditKeeps DEF Changing
  <2>2. /\ \A k \in Editing' : \/ k \in Editing /\ commands'[k] = commands[k]
                               \/ commands'[k].id \in S /\ k > Len(commands)
        /\ \A k \in Installs : k \in Installs' /\ commands'[k] = commands[k] /\ k <= Len(commands)
        /\ Installs \subseteq Int /\ Editing' \subseteq Int /\ Len(commands) \in Int
    BY <1>4, ChangeKinds DEF Editing, Installs, EditOps
  <2>3. \A i \in S : i \in DOMAIN core \/ \E j \in Installs : commands[j].id = i
    BY <2>1 DEF Matched, ListKnown
  <2> QED BY <2>1, <2>2, <2>3 DEF EditsFind, Matched
<1>5. ASSUME Asking \/ Continuing \/ Shutting
      PROVE  EditsFind'
  <2>1. core' = core
    BY <1>5, AskingSends
  <2>2. Editing' = Editing /\ Installs' = Installs
    BY <1>5, AskKinds DEF Editing, Installs, EditOps
  <2>3. \A k \in Editing \cup Installs : commands'[k] = commands[k]
    BY <1>5, AskKinds DEF Editing, Installs, EditOps
  <2> QED BY <2>1, <2>2, <2>3 DEF EditsFind, Matched
<1>6. ASSUME NEW r, Launching(r) PROVE EditsFind'
  <2>1. core' = core
    BY <1>6 DEF Launching, coreVars
  <2>2. /\ \A k \in Editing' : \/ k \in Editing /\ commands'[k] = commands[k]
                               \/ commands'[k].id \in DOMAIN list /\ k > Len(commands)
        /\ \A k \in Installs : k \in Installs' /\ commands'[k] = commands[k] /\ k <= Len(commands)
        /\ Installs \subseteq Int /\ Editing' \subseteq Int /\ Len(commands) \in Int
    BY <1>6, LaunchKinds DEF Editing, Installs, EditOps
  <2>3. \A i \in DOMAIN list : i \in DOMAIN core \/ \E j \in Installs : commands[j].id = i
    BY DEF Matched, ListKnown
  <2> QED BY <2>1, <2>2, <2>3 DEF EditsFind, Matched
<1>7. ASSUME NEW n, NEW locs, Installing(n, locs) PROVE EditsFind'
  <2> ACoreStep
    BY <1>7 DEF ACoreStep
  <2>0. /\ UNCHANGED list
        /\ Editing \subseteq Int /\ Installs \subseteq Int /\ Removals \subseteq Int
        /\ \A k \in Editing' : k \in Int /\ k >= 1 /\ k + 1 \in Editing /\ commands'[k] = commands[k + 1]
        /\ \A k \in Removals' : k \in Int /\ k >= 1 /\ k + 1 \in Removals /\ commands'[k] = commands[k + 1]
        /\ \A k \in Installs' : k \in Int /\ k >= 1 /\ k + 1 \in Installs /\ commands'[k] = commands[k + 1]
    BY CoreKinds, CorePops DEF Editing, Removals, Installs

  <2>1. commands[1].id = <<"code", n>>
    BY <1>7, InstallNumber
  <2>2. DOMAIN core' = DOMAIN core \cup {commands[1].id}
    BY <1>7, <2>1 DEF Installing
  <2>3. \A k \in Installs : k = 1 \/ (k - 1 \in Installs' /\ commands'[k - 1] = commands[k])
    BY CoreKinds DEF Installs
  <2> SUFFICES ASSUME NEW k \in Editing'
      PROVE  \/ commands'[k].id \in DOMAIN core'
             \/ \E j \in Installs' : j < k /\ commands'[j].id = commands'[k].id
    BY DEF EditsFind
  <2>4. CASE commands[k + 1].id \in DOMAIN core
    BY <2>0, <2>2, <2>4
  <2>5. CASE \E j \in Installs : j < k + 1 /\ commands[j].id = commands[k + 1].id
    <3>1. PICK j \in Installs : j < k + 1 /\ commands[j].id = commands[k + 1].id
      BY <2>5
    <3>2. CASE j = 1
      BY <2>0, <2>2, <3>1, <3>2
    <3>3. CASE j # 1
      <4>1. j - 1 \in Installs' /\ commands'[j - 1] = commands[j] /\ j - 1 < k
        BY <2>0, <2>3, <3>1, <3>3
      <4> QED BY <2>0, <3>1, <4>1
    <3> QED BY <3>2, <3>3
  <2> QED BY <2>0, <2>4, <2>5 DEF EditsFind, Matched
<1>8. ASSUME \/ \E n : Watching(n)
             \/ Refusing
             \/ \E op : Setting(op)
             \/ Starting
             \/ Resuming
             \/ Dropping
      PROVE  EditsFind'
  <2> ACoreStep
    BY <1>8 DEF ACoreStep
  <2>0. /\ UNCHANGED list
        /\ Editing \subseteq Int /\ Installs \subseteq Int /\ Removals \subseteq Int
        /\ \A k \in Editing' : k \in Int /\ k >= 1 /\ k + 1 \in Editing /\ commands'[k] = commands[k + 1]
        /\ \A k \in Removals' : k \in Int /\ k >= 1 /\ k + 1 \in Removals /\ commands'[k] = commands[k + 1]
        /\ \A k \in Installs' : k \in Int /\ k >= 1 /\ k + 1 \in Installs /\ commands'[k] = commands[k + 1]
    BY CoreKinds, CorePops DEF Editing, Removals, Installs

  <2>9. commands[1].op # "install"
    BY <1>8 DEF Watching, Refusing, Setting, Starting, Resuming, Dropping, Up, Taking
  <2>1. \A k \in Installs : k - 1 \in Installs' /\ commands'[k - 1] = commands[k]
    <3>1. 1 \notin Installs
      BY <2>9 DEF Installs, Kind, EditOps
    <3> QED BY <3>1, CoreKinds DEF Installs

  <2>2. \A k \in Editing : 1 < k /\ commands[k].id \in DOMAIN core => commands[k].id \in DOMAIN core'
    <3>1. CASE Dropping
      <4>1. commands[1].op = "remove" /\ DOMAIN core' = DOMAIN core \ {commands[1].id} /\ Shrunk(commands, commands')
        BY <3>1 DEF Dropping, Up, Taking
      <4>2. 1 \in Removals
        BY <4>1 DEF Removals, Kind, Shrunk
      <4>3. \A k \in Editing : 1 < k => commands[k].id # commands[1].id
        BY <2>0, <4>2 DEF RemovedLast, Matched
      <4> QED BY <4>1, <4>3
    <3>2. CASE (\E m : Watching(m)) \/ Refusing \/ (\E op : Setting(op)) \/ Starting \/ Resuming
      <4>1. DOMAIN core \subseteq DOMAIN core'
        BY <3>2 DEF Watching, Refusing, Setting, Starting, Resuming, coreVars
      <4> QED BY <4>1
    <3> QED BY <1>8, <3>1, <3>2
  <2> SUFFICES ASSUME NEW k \in Editing'
      PROVE  \/ commands'[k].id \in DOMAIN core'
             \/ \E j \in Installs' : j < k /\ commands'[j].id = commands'[k].id
    BY DEF EditsFind
  <2>3. 1 < k + 1 /\ k + 1 \in Editing /\ commands'[k] = commands[k + 1] /\ k \in Int
    BY <2>0
  <2>4. CASE commands[k + 1].id \in DOMAIN core
    BY <2>2, <2>3, <2>4
  <2>5. CASE \E j \in Installs : j < k + 1 /\ commands[j].id = commands[k + 1].id
    <3>1. PICK j \in Installs : j < k + 1 /\ commands[j].id = commands[k + 1].id
      BY <2>5
    <3>2. j - 1 \in Installs' /\ commands'[j - 1] = commands[j] /\ j - 1 < k
      BY <2>0, <2>1, <2>3, <3>1
    <3> QED BY <2>3, <3>1, <3>2
  <2> QED BY <2>3, <2>4, <2>5 DEF EditsFind, Matched
<1>9. ASSUME \/ Pausing
             \/ Exiting
             \/ \E i : Ignored(i)
             \/ \E i : Stopping(i)
      PROVE  EditsFind'
  <2> AStop
    BY <1>9 DEF AStop
  <2>1. UNCHANGED <<commands>> /\ Installs' = Installs /\ Editing' = Editing
    BY StopKeeps DEF Installs, Editing
  <2>2. DOMAIN core' = DOMAIN core
    BY <1>9 DEF Pausing, Exiting, Ignored, Stopping, Counted
  <2> QED BY <2>1, <2>2 DEF EditsFind, Matched
<1>10. ASSUME \/ CancelDialog
              \/ AttachFirst
      PROVE  EditsFind'
  <2>1. UNCHANGED <<commands, core>>
    BY <1>10 DEF CancelDialog, AttachFirst, listVars, coreVars, counts
  <2> QED BY <2>1 DEF EditsFind, Editing, Installs, Matched
<1>11. ASSUME \/ Outdated
              \/ Connecting
              \/ Listing
              \/ Reopening
              \/ Updating
              \/ Leaving
      PROVE  EditsFind'
  <2>1. UNCHANGED <<commands, core>>
    BY <1>11 DEF Outdated, Hearing, Connecting, Listing, Reopening, Updating, Leaving, listVars,
       coreVars, counts
  <2> QED BY <2>1 DEF EditsFind, Editing, Installs, Matched
<1> QED BY <1>1, <1>2, <1>3, <1>4, <1>5, <1>6, <1>7, <1>8, <1>9, <1>10, <1>11
       DEF Step, AnEdit, ARequest, ACoreStep, AStop, AnAnswer

(* Nothing is sent for a breakpoint that was removed. *)
LEMMA RemovedLastStep ==
  ASSUME Shape,
         Phase,
         "renumber" \notin mishaps,
         coreUp,
         coreUp',
         Step,
         fault' = "none",
         Fresh,
         Numbers,
         InstallsInOrder,
         Matched
  PROVE  RemovedLast'
<1>1. ASSUME \/ \E op : Broken(op)
             \/ \E op : NoBreakpoint(op)
             \/ \E r : Loading(r)
             \/ Ending
      PROVE  RemovedLast'
  <2> QED BY <1>1, Impossible
<1>2. ASSUME NEW i, NEW r, Adding(i, r) PROVE RemovedLast'
  <2>1. /\ \A k \in Editing' : k \in Editing /\ commands'[k] = commands[k]
        /\ \A k \in Removals' : k \in Removals /\ commands'[k] = commands[k]
    BY <1>2, AddKinds DEF Editing, Removals, EditOps
  <2> QED BY <2>1 DEF RemovedLast, Matched
<1>3. ASSUME NEW S, NEW r, Removing(S, r) PROVE RemovedLast'
  <2>1. S \subseteq DOMAIN list
    BY <1>3 DEF Removing
  <2>20. Editing \subseteq Int /\ Editing' \subseteq Int /\ Len(commands) \in Int
    BY <1>3, RemoveKinds DEF Editing, EditOps
  <2>21. \A k \in Editing' : \/ k \in Editing /\ commands'[k] = commands[k] /\ k <= Len(commands)
                             \/ commands'[k].id \in S /\ k > Len(commands)
    BY <1>3, RemoveKinds DEF Editing, EditOps
  <2>22. \A k \in Removals' : \/ k \in Removals /\ commands'[k] = commands[k] /\ k <= Len(commands)
                              \/ commands'[k].id \in S /\ k > Len(commands)
    BY <1>3, RemoveKinds DEF Removals
  <2>23. \A j, k \in Editing' : j > Len(commands) /\ k > Len(commands) /\ commands'[j].id = commands'[k].id => j = k
    BY <1>3, RemoveKinds DEF Editing, EditOps
  <2>3. \A k \in Removals' : k \in Editing'
    BY DEF Editing, Removals, Kind, EditOps
  <2>4. \A j \in Removals : commands[j].id \notin S
    BY <2>1 DEF ListKnown, Matched
  <2> SUFFICES ASSUME NEW k \in Editing', NEW j \in Removals', commands'[j].id = commands'[k].id PROVE j >= k
    BY DEF RemovedLast
  <2>5. CASE j > Len(commands)
    <3>1. j \in Int /\ k \in Int /\ j \in Editing'
      BY <2>20, <2>3
    <3>2. CASE k > Len(commands)
      <4>1. j = k
        BY <2>23, <2>5, <3>1, <3>2
      <4> QED BY <3>1, <4>1
    <3>3. CASE ~(k > Len(commands))
      BY <2>20, <2>5, <3>1, <3>3
    <3> QED BY <3>2, <3>3
  <2>6. CASE j \in Removals /\ commands'[j] = commands[j]
    <3>1. commands'[k].id \notin S
      BY <2>4, <2>6
    <3>2. k \in Editing /\ commands'[k] = commands[k]
      BY <2>21, <3>1
    <3> QED BY <2>6, <3>2 DEF RemovedLast, Matched
  <2> QED BY <2>22, <2>5, <2>6
<1>4. ASSUME NEW op, NEW S, NEW r, Changing(op, S, r) PROVE RemovedLast'
  <2>1. S \subseteq DOMAIN list /\ op # "remove"
    BY <1>4 DEF Changing
  <2>2. /\ \A k \in Editing' : \/ k \in Editing /\ commands'[k] = commands[k]
                               \/ commands'[k].id \in S
        /\ \A k \in Removals' : k \in Removals /\ commands'[k] = commands[k]
    BY <1>4, <2>1, ChangeKinds DEF Editing, Removals
  <2>3. \A j \in Removals : commands[j].id \notin S
    BY <2>1 DEF ListKnown, Matched
  <2> QED BY <2>2, <2>3 DEF RemovedLast, Matched
<1>5. ASSUME Asking \/ Continuing \/ Shutting
      PROVE  RemovedLast'
  <2>1. Editing' = Editing /\ Removals' = Removals
    BY <1>5, AskKinds DEF Editing, Removals, EditOps
  <2>2. \A k \in Editing \cup Removals : commands'[k] = commands[k]
    BY <1>5, AskKinds DEF Editing, Removals, EditOps
  <2> QED BY <2>1, <2>2 DEF RemovedLast, Matched
<1>6. ASSUME NEW r, Launching(r) PROVE RemovedLast'
  <2>1. /\ \A k \in Editing' : \/ k \in Editing /\ commands'[k] = commands[k]
                               \/ commands'[k].id \in DOMAIN list
        /\ \A k \in Removals' : k \in Removals /\ commands'[k] = commands[k]
    BY <1>6, LaunchKinds DEF Editing, Removals, EditOps
  <2>2. \A j \in Removals : commands[j].id \notin DOMAIN list
    BY DEF ListKnown, Matched
  <2> QED BY <2>1, <2>2 DEF RemovedLast, Matched
<1>7. ASSUME \/ \E n : Watching(n)
             \/ Refusing
             \/ \E op : Setting(op)
             \/ Starting
             \/ Resuming
             \/ Dropping
             \/ \E n, locs : Installing(n, locs)
      PROVE  RemovedLast'
  <2> ACoreStep
    BY <1>7 DEF ACoreStep
  <2>0. /\ UNCHANGED list
        /\ Editing \subseteq Int /\ Installs \subseteq Int /\ Removals \subseteq Int
        /\ \A k \in Editing' : k \in Int /\ k >= 1 /\ k + 1 \in Editing /\ commands'[k] = commands[k + 1]
        /\ \A k \in Removals' : k \in Int /\ k >= 1 /\ k + 1 \in Removals /\ commands'[k] = commands[k + 1]
        /\ \A k \in Installs' : k \in Int /\ k >= 1 /\ k + 1 \in Installs /\ commands'[k] = commands[k + 1]
    BY CoreKinds, CorePops DEF Editing, Removals, Installs

  <2> SUFFICES ASSUME NEW k \in Editing', NEW j \in Removals', commands'[j].id = commands'[k].id PROVE j >= k
    BY DEF RemovedLast
  <2>1. j + 1 >= k + 1
    BY <2>0 DEF RemovedLast, Matched
  <2> QED BY <2>0, <2>1
<1>8. ASSUME \/ CancelDialog
             \/ Load
             \/ AttachFirst
      PROVE  RemovedLast'
  <2>1. UNCHANGED <<commands>>
    BY <1>8 DEF CancelDialog, Load, AttachFirst, listVars, coreVars, counts
  <2> QED BY <2>1 DEF RemovedLast, Editing, Removals, Matched
<1>9. ASSUME AStop PROVE RemovedLast'
  <2>1. UNCHANGED <<commands>>
    BY <1>9 DEF AStop, Pausing, Moving, Exiting, Ignored, Stopping, listVars, coreVars, counts
  <2> QED BY <2>1 DEF RemovedLast, Editing, Removals, Matched
<1>10. ASSUME AnAnswer PROVE RemovedLast'
  <2>1. UNCHANGED <<commands>>
    BY <1>10 DEF AnAnswer, Outdated, Hearing, Connecting, Listing, Reopening, Updating, Leaving,
       Disconnecting, listVars, coreVars, counts
  <2> QED BY <2>1 DEF RemovedLast, Editing, Removals, Matched
<1> QED BY <1>1, <1>2, <1>3, <1>4, <1>5, <1>6, <1>7, <1>8, <1>9, <1>10
       DEF Step, AnEdit, ARequest, ACoreStep, AStop, AnAnswer

-----------------------------------------------------------------------------
(* What is listed, what is there and what is on its way                    *)

(* What is told to the main thread adds to the answers of its kind only. *)
LEMMA TellingKinds ==
  ASSUME NEW a, Telling(a), NEW ops
  PROVE  /\ \A k \in Kind(answers, ops) : k \in Kind(answers', ops) /\ answers'[k] = answers[k]
         /\ a.op \notin ops => Kind(answers', ops) = Kind(answers, ops)
         /\ \A k \in Kind(answers', ops) : \/ k \in Kind(answers, ops) /\ answers'[k] = answers[k]
                                           \/ k = Len(answers) + 1 /\ answers'[k] = a /\ a.op \in ops
         /\ a.op \in ops => Len(answers) + 1 \in Kind(answers', ops) /\ answers'[Len(answers) + 1] = a
<1>1. Added(answers, a, answers')
  BY DEF Telling
<1>2. a.op \notin ops => Kind(answers', ops) = Kind(answers, ops)
  BY <1>1, KindSame
<1>3. \A k \in Kind(answers, ops) : k \in Kind(answers', ops) /\ answers'[k] = answers[k]
  BY <1>1, KindAdded
<1>4. \A k \in Kind(answers', ops) : \/ k \in Kind(answers, ops) /\ answers'[k] = answers[k]
                                     \/ k = Len(answers) + 1 /\ answers'[k] = a /\ a.op \in ops
  BY <1>1, KindAdded
<1>5. a.op \in ops => Len(answers) + 1 \in Kind(answers', ops) /\ answers'[Len(answers) + 1] = a
  BY <1>1, KindAdded
<1> QED BY <1>2, <1>3, <1>4, <1>5

(* Only a watchpoint that was set is told of as one. *)
LEMMA WatchedKept ==
  ASSUME \/ \E n, locs : Installing(n, locs)
         \/ Refusing
         \/ \E op : Setting(op)
         \/ Starting \/ Resuming \/ Dropping \/ Pausing \/ Exiting
         \/ \E i : Ignored(i)
         \/ \E i : Stopping(i)
  PROVE  Watched' = Watched /\ \A k \in Watched : answers'[k] = answers[k]
<1>1. ASSUME NEW a, Telling(a), a.op # "watched"
      PROVE  Watched' = Watched /\ \A k \in Watched : answers'[k] = answers[k]
  BY <1>1, TellingKinds DEF Watched
<1>2. ASSUME NEW n, NEW locs, Installing(n, locs)
      PROVE  Watched' = Watched /\ \A k \in Watched : answers'[k] = answers[k]
  <2> DEFINE a == [op |-> "installed", id |-> commands[1].id, num |-> n, locs |-> locs]
  <2>1. Telling(a) /\ a.op # "watched"
    BY <1>2 DEF Installing
  <2> HIDE DEF a
  <2> QED BY <2>1, <1>1
<1>3. CASE Refusing \/ Exiting
  <2>1. Telling([op |-> "refused"]) \/ Telling([op |-> "exited"])
    BY <1>3 DEF Refusing, Exiting
  <2>2. [op |-> "refused"].op # "watched" /\ [op |-> "exited"].op # "watched"
    OBVIOUS
  <2> QED BY <2>1, <2>2, <1>1
<1>4. CASE Pausing \/ \E i : Stopping(i)
  <2>1. \E why, bps : Telling([op |-> "stopped", why |-> why, bps |-> bps])
    BY <1>4 DEF Pausing, Stopping
  <2>2. PICK why, bps : Telling([op |-> "stopped", why |-> why, bps |-> bps])
    BY <2>1
  <2>3. [op |-> "stopped", why |-> why, bps |-> bps].op # "watched"
    OBVIOUS
  <2> QED BY <2>2, <2>3, <1>1
<1>5. CASE (\E op : Setting(op)) \/ Starting \/ Resuming \/ Dropping \/ (\E i : Ignored(i))
  <2>1. UNCHANGED answers
    BY <1>5 DEF Setting, Starting, Resuming, Dropping, Ignored
  <2> QED BY <2>1 DEF Watched
<1> QED BY <1>2, <1>3, <1>4, <1>5

(* The number the list gives next is one LLDB has not heard of. *)
LEMMA NewUnknown ==
  ASSUME Shape, Fresh, InstallsInOrder, Matched
  PROVE  /\ <<"code", nextNum>> \notin DOMAIN core
         /\ \A k \in Editing : commands[k].id # <<"code", nextNum>>
<1> DEFINE i == <<"code", nextNum>>
<1>1. i[1] = "code" /\ i[2] = nextNum
  OBVIOUS
<1> HIDE DEF i
<1>2. i \notin DOMAIN core
  <2> SUFFICES ASSUME i \in DOMAIN core PROVE FALSE
    OBVIOUS
  <2>1. i[2] < coreNext["code"] /\ coreNext["code"] <= nextNum
    BY <1>1 DEF InstallsInOrder
  <2> QED BY <1>1, <2>1, NextFields
<1>3. \A j \in Installs : commands[j].id # i
  <2> SUFFICES ASSUME NEW j \in Installs, commands[j].id = i PROVE FALSE
    OBVIOUS
  <2>1. commands[j].id[2] < nextNum
    BY DEF Fresh
  <2> QED BY <1>1, <2>1, NextFields
<1>4. \A k \in Editing : commands[k].id # i
  BY <1>2, <1>3 DEF Matched, EditsFind
<1> QED BY <1>2, <1>4 DEF i

(* A new watchpoint's number is one no command is for. *)
LEMMA NewWatch ==
  ASSUME Shape, InstallsInOrder, Matched
  PROVE  \A k \in Editing : commands[k].id # <<"watch", coreNext["watch"]>>
<1> DEFINE i == <<"watch", coreNext["watch"]>>
<1>1. i[1] = "watch" /\ i[2] = coreNext["watch"]
  OBVIOUS
<1> HIDE DEF i
<1>2. i \notin DOMAIN core
  <2> SUFFICES ASSUME i \in DOMAIN core PROVE FALSE
    OBVIOUS
  <2>1. i[2] < coreNext["watch"]
    BY <1>1 DEF InstallsInOrder
  <2> QED BY <1>1, <2>1, NextFields
<1>3. \A j \in Installs : commands[j].id # i
  BY <1>1, CommandIds
<1>4. \A k \in Editing : commands[k].id # i
  BY <1>2, <1>3 DEF Matched, EditsFind
<1> QED BY <1>4 DEF i

(* What is listed is LLDB's or is being installed. *)
LEMMA ListKnownStep ==
  ASSUME Shape,
         Phase,
         "renumber" \notin mishaps,
         coreUp,
         coreUp',
         Step,
         fault' = "none",
         Fresh,
         Numbers,
         InstallsInOrder,
         Matched
  PROVE  ListKnown'
<1>1. ASSUME \/ \E op : Broken(op)
             \/ \E op : NoBreakpoint(op)
             \/ \E r : Loading(r)
             \/ Ending
             \/ Load
             \/ Disconnecting
      PROVE  ListKnown'
  <2> QED BY <1>1, Impossible
<1>2. ASSUME NEW i, NEW r, Adding(i, r) PROVE ListKnown'
  <2> AnEdit
    BY <1>2 DEF AnEdit
  <2>9. UNCHANGED <<core, answers>> /\ HasImpl
    BY EditKeeps, UpHasImpl
  <2>11. \A k \in Removals : k \in Removals' /\ commands'[k] = commands[k]
    BY <1>2, AddKinds DEF Removals
  <2>12. \A k \in Installs : k \in Installs' /\ commands'[k] = commands[k]
    BY <1>2, AddKinds DEF Installs
  <2>1. DOMAIN list' = DOMAIN list \cup {i} /\ i = <<"code", nextNum>>
    BY <1>2, AddingLists
  <2>2. \A k \in Removals' : k \in Removals /\ commands'[k] = commands[k]
    BY <1>2, AddKinds DEF Removals
  <2>3. \E k \in Installs' : commands'[k].id = i
    BY <1>2, <2>9, AddKinds DEF Installs
  <2>4. \A j \in Removals : commands[j].id # i
    BY <2>1, NewUnknown, CommandIds
  <2> QED BY <2>9, <2>11, <2>12, <2>1, <2>2, <2>3, <2>4 DEF ListKnown, Matched
<1>3. ASSUME NEW S, NEW r, Removing(S, r) PROVE ListKnown'
  <2> AnEdit
    BY <1>3 DEF AnEdit
  <2>9. UNCHANGED <<core, answers>> /\ HasImpl
    BY EditKeeps, UpHasImpl
  <2>11. \A k \in Removals : k \in Removals' /\ commands'[k] = commands[k]
    BY <1>3, RemoveKinds DEF Removals
  <2>12. \A k \in Installs : k \in Installs' /\ commands'[k] = commands[k]
    BY <1>3, RemoveKinds DEF Installs
  <2>1. DOMAIN list' = DOMAIN list \ S
    BY <1>3 DEF Removing
  <2>2. \A k \in Removals' : (k \in Removals /\ commands'[k] = commands[k]) \/ commands'[k].id \in S
    BY <1>3, RemoveKinds DEF Removals
  <2> QED BY <2>9, <2>12, <2>1, <2>2 DEF ListKnown, Matched
<1>4. ASSUME NEW op, NEW S, NEW r, Changing(op, S, r) PROVE ListKnown'
  <2> AnEdit
    BY <1>4 DEF AnEdit
  <2>9. UNCHANGED <<core, answers>> /\ HasImpl
    BY EditKeeps, UpHasImpl
  <2>11. \A k \in Removals : k \in Removals' /\ commands'[k] = commands[k]
    BY <1>4, ChangeKinds DEF Removals
  <2>12. \A k \in Installs : k \in Installs' /\ commands'[k] = commands[k]
    BY <1>4, ChangeKinds DEF Installs
  <2>1. DOMAIN list' = DOMAIN list /\ op # "remove"
    BY <1>4 DEF Changing
  <2>2. \A k \in Removals' : k \in Removals /\ commands'[k] = commands[k]
    BY <1>4, <2>1, ChangeKinds DEF Removals
  <2> QED BY <2>9, <2>12, <2>1, <2>2 DEF ListKnown, Matched
<1>5. ASSUME Asking \/ Continuing \/ Shutting
      PROVE  ListKnown'
  <2>1. core' = core /\ UNCHANGED <<list, answers>>
    BY <1>5, AskingSends
  <2>2. Editing' = Editing /\ \A k \in Editing : commands'[k] = commands[k]
    BY <1>5, AskKinds DEF Editing, EditOps
  <2>3. Installs' = Installs /\ \A k \in Installs : commands'[k] = commands[k]
    BY <1>5, AskKinds DEF Installs
  <2>4. Removals' = Removals /\ \A k \in Removals : commands'[k] = commands[k]
    BY <1>5, AskKinds DEF Removals
  <2> QED BY <2>1, <2>3, <2>4 DEF ListKnown, Matched
<1>6. ASSUME NEW r, Launching(r) PROVE ListKnown'
  <2>1. core' = core /\ answers' = answers /\ DOMAIN list' = DOMAIN list
    BY <1>6 DEF Launching, coreVars
  <2>2. \A k \in Editing' : \/ k \in Editing /\ commands'[k] = commands[k]
                            \/ commands'[k].id \in DOMAIN list
    BY <1>6, LaunchKinds DEF Editing, EditOps
  <2>3. \A k \in Removals' : k \in Removals /\ commands'[k] = commands[k]
    BY <1>6, LaunchKinds DEF Removals
  <2>4. \A k \in Installs' : k \in Installs /\ commands'[k] = commands[k]
    BY <1>6, LaunchKinds DEF Installs
  <2>5. \A k \in Removals : k \in Removals' /\ commands'[k] = commands[k]
    BY <1>6, LaunchKinds DEF Removals
  <2>6. \A k \in Installs : k \in Installs' /\ commands'[k] = commands[k]
    BY <1>6, LaunchKinds DEF Installs
  <2> QED BY <2>1, <2>3, <2>6 DEF ListKnown, Matched
<1>7. ASSUME NEW n, NEW locs, Installing(n, locs) PROVE ListKnown'
  <2> ACoreStep
    BY <1>7 DEF ACoreStep
  <2>10. UNCHANGED list
    BY CorePops
  <2>11. \A k \in Editing' : k + 1 \in Editing /\ commands'[k] = commands[k + 1]
    BY CoreKinds DEF Editing
  <2>12. \A k \in Installs' : k + 1 \in Installs /\ commands'[k] = commands[k + 1]
    BY CoreKinds DEF Installs
  <2>13. \A k \in Removals' : k + 1 \in Removals /\ commands'[k] = commands[k + 1]
    BY CoreKinds DEF Removals
  <2>14. \A k \in Installs : k = 1 \/ (k - 1 \in Installs' /\ commands'[k - 1] = commands[k])
    BY CoreKinds DEF Installs
  <2>15. \A k \in Removals : k = 1 \/ (k - 1 \in Removals' /\ commands'[k - 1] = commands[k])
    BY CoreKinds DEF Removals
  <2>1. commands[1].id = <<"code", n>> /\ 1 \in Installs
    BY <1>7, InstallNumber
  <2>2. DOMAIN core' = DOMAIN core \cup {commands[1].id}
    BY <1>7, <2>1 DEF Installing
  <2> QED BY <2>10, <2>13, <2>14, <2>2 DEF ListKnown, Matched
<1>8. ASSUME Dropping PROVE ListKnown'
  <2> ACoreStep
    BY <1>8 DEF ACoreStep
  <2>10. UNCHANGED list
    BY CorePops
  <2>11. \A k \in Editing' : k + 1 \in Editing /\ commands'[k] = commands[k + 1]
    BY CoreKinds DEF Editing
  <2>12. \A k \in Installs' : k + 1 \in Installs /\ commands'[k] = commands[k + 1]
    BY CoreKinds DEF Installs
  <2>13. \A k \in Removals' : k + 1 \in Removals /\ commands'[k] = commands[k + 1]
    BY CoreKinds DEF Removals
  <2>14. \A k \in Installs : k = 1 \/ (k - 1 \in Installs' /\ commands'[k - 1] = commands[k])
    BY CoreKinds DEF Installs
  <2>15. \A k \in Removals : k = 1 \/ (k - 1 \in Removals' /\ commands'[k - 1] = commands[k])
    BY CoreKinds DEF Removals
  <2>1. /\ commands[1].id \in DOMAIN core /\ DOMAIN core' = DOMAIN core \ {commands[1].id}
        /\ Same(core', core, DOMAIN core \ {commands[1].id})
        /\ commands[1].op = "remove" /\ Shrunk(commands, commands')
    BY <1>8 DEF Dropping, Up, Taking
  <2>2. 1 \in Removals /\ 1 \in Editing
    BY <2>1 DEF Removals, Editing, Kind, Shrunk, EditOps
  <2>3. 1 \notin Installs
    BY <1>8 DEF Installs, Kind, EditOps, Installing, Watching, Refusing, Setting, Starting, Resuming, Dropping,
       Up, Taking
  <2>4. commands[1].id \notin DOMAIN list
    BY <2>2 DEF ListKnown, Matched
  <2> QED BY <2>10, <2>13, <2>14, <2>1, <2>3, <2>4 DEF ListKnown, Matched
<1>9. ASSUME \/ \E n : Watching(n)
             \/ Refusing
             \/ \E op : Setting(op)
             \/ Starting
             \/ Resuming
      PROVE  ListKnown'
  <2> ACoreStep
    BY <1>9 DEF ACoreStep
  <2>10. UNCHANGED list
    BY CorePops
  <2>11. \A k \in Editing' : k + 1 \in Editing /\ commands'[k] = commands[k + 1]
    BY CoreKinds DEF Editing
  <2>12. \A k \in Installs' : k + 1 \in Installs /\ commands'[k] = commands[k + 1]
    BY CoreKinds DEF Installs
  <2>13. \A k \in Removals' : k + 1 \in Removals /\ commands'[k] = commands[k + 1]
    BY CoreKinds DEF Removals
  <2>14. \A k \in Installs : k = 1 \/ (k - 1 \in Installs' /\ commands'[k - 1] = commands[k])
    BY CoreKinds DEF Installs
  <2>15. \A k \in Removals : k = 1 \/ (k - 1 \in Removals' /\ commands'[k - 1] = commands[k])
    BY CoreKinds DEF Removals
  <2>3. 1 \notin Installs
    BY <1>9 DEF Installs, Kind, EditOps, Installing, Watching, Refusing, Setting, Starting, Resuming, Dropping,
       Up, Taking
  <2>4. DOMAIN core \subseteq DOMAIN core'
    BY <1>9 DEF Watching, Refusing, Setting, Starting, Resuming, coreVars
  <2> QED BY <2>10, <2>13, <2>14, <2>3, <2>4 DEF ListKnown, Matched
<1>10. ASSUME \/ Pausing
              \/ Exiting
              \/ \E i : Ignored(i)
              \/ \E i : Stopping(i)
      PROVE  ListKnown'
  <2> AStop
    BY <1>10 DEF AStop
  <2>1. UNCHANGED <<commands, list>> /\ Installs' = Installs /\ Editing' = Editing /\ Removals' = Removals
    BY StopKeeps DEF Installs, Editing, Removals
  <2>2. DOMAIN core' = DOMAIN core
    BY <1>10 DEF Pausing, Exiting, Ignored, Stopping, Counted
  <2> QED BY <2>1, <2>2 DEF ListKnown, Matched
<1>11. ASSUME \/ Outdated
              \/ Connecting
              \/ Reopening
              \/ Updating
              \/ Leaving
      PROVE  ListKnown'
  <2> AnAnswer
    BY <1>11 DEF AnAnswer
  <2>1. UNCHANGED <<core, commands>> /\ Shrunk(answers, answers')
    BY MainPops
  <2>2. DOMAIN list' = DOMAIN list
    BY <1>11 DEF Outdated, Connecting, Reopening, Updating, Leaving, listVars
  <2>3. Editing' = Editing /\ Installs' = Installs /\ Removals' = Removals
    BY <2>1 DEF Editing, Installs, Removals
  <2> QED BY <2>1, <2>2, <2>3 DEF ListKnown, Matched
<1>12. ASSUME Listing PROVE ListKnown'
  <2> AnAnswer
    BY <1>12 DEF AnAnswer
  <2>1. UNCHANGED <<core, commands>> /\ Shrunk(answers, answers')
    BY MainPops
  <2>2. DOMAIN list' = DOMAIN list \cup {answers[1].id} /\ answers[1].op = "watched"
    BY <1>12 DEF Listing, Hearing
  <2>3. Editing' = Editing /\ Installs' = Installs /\ Removals' = Removals
    BY <2>1 DEF Editing, Installs, Removals
  <2>4. 1 \in Watched
    BY <2>1, <2>2 DEF Watched, Kind, Shrunk
  <2>5. answers[1].id \in DOMAIN core /\ \A j \in Editing : commands[j].id # answers[1].id
    BY <2>4 DEF WatchesKnown, Matched
  <2>6. Removals \subseteq Editing
    BY CommandIds
  <2> QED BY <2>1, <2>2, <2>3, <2>5, <2>6 DEF ListKnown, Matched
<1>13. ASSUME \/ CancelDialog
              \/ AttachFirst
      PROVE  ListKnown'
  <2>1. UNCHANGED <<commands, core, list>>
    BY <1>13 DEF CancelDialog, AttachFirst, listVars, coreVars, counts
  <2> QED BY <2>1 DEF ListKnown, Installs, Removals, Matched
<1> QED BY <1>1, <1>2, <1>3, <1>4, <1>5, <1>6, <1>7, <1>8, <1>9, <1>10, <1>11, <1>12, <1>13
       DEF Step, AnEdit, ARequest, ACoreStep, AStop, AnAnswer

(* A watchpoint LLDB has set is as it was set until it is listed. *)
LEMMA WatchesKnownStep ==
  ASSUME Shape,
         Phase,
         "renumber" \notin mishaps,
         coreUp,
         coreUp',
         Step,
         fault' = "none",
         Fresh,
         Numbers,
         InstallsInOrder,
         Matched
  PROVE  WatchesKnown'
<1>1. ASSUME \/ \E op : Broken(op)
             \/ \E op : NoBreakpoint(op)
             \/ \E r : Loading(r)
             \/ Ending
             \/ Load
             \/ Disconnecting
      PROVE  WatchesKnown'
  <2> QED BY <1>1, Impossible
<1>2. ASSUME NEW i, NEW r, Adding(i, r) PROVE WatchesKnown'
  <2> AnEdit
    BY <1>2 DEF AnEdit
  <2>9. UNCHANGED <<core, answers>> /\ HasImpl
    BY EditKeeps, UpHasImpl
  <2>1. \A k \in Editing' : (k \in Editing /\ commands'[k] = commands[k]) \/ commands'[k].id \in DOMAIN list
    BY <1>2, AddKinds DEF Editing, EditOps
  <2>2. Watched' = Watched /\ \A k \in Watched : answers[k].id \notin DOMAIN list
    BY <2>9 DEF Numbers, WatchNumbers, Watched
  <2> QED BY <2>9, <2>1, <2>2 DEF WatchesKnown, Matched
<1>3. ASSUME NEW S, NEW r, Removing(S, r) PROVE WatchesKnown'
  <2> AnEdit
    BY <1>3 DEF AnEdit
  <2>9. UNCHANGED <<core, answers>> /\ HasImpl
    BY EditKeeps, UpHasImpl
  <2>0. S \subseteq DOMAIN list
    BY <1>3 DEF Removing, Changing
  <2>1. \A k \in Editing' : (k \in Editing /\ commands'[k] = commands[k]) \/ commands'[k].id \in DOMAIN list
    BY <1>3, <2>0, RemoveKinds DEF Editing, EditOps
  <2>2. Watched' = Watched /\ \A k \in Watched : answers[k].id \notin DOMAIN list
    BY <2>9 DEF Numbers, WatchNumbers, Watched
  <2> QED BY <2>9, <2>1, <2>2 DEF WatchesKnown, Matched
<1>4. ASSUME NEW op, NEW S, NEW r, Changing(op, S, r) PROVE WatchesKnown'
  <2> AnEdit
    BY <1>4 DEF AnEdit
  <2>9. UNCHANGED <<core, answers>> /\ HasImpl
    BY EditKeeps, UpHasImpl
  <2>0. S \subseteq DOMAIN list
    BY <1>4 DEF Removing, Changing
  <2>1. \A k \in Editing' : (k \in Editing /\ commands'[k] = commands[k]) \/ commands'[k].id \in DOMAIN list
    BY <1>4, <2>0, ChangeKinds DEF Editing, EditOps
  <2>2. Watched' = Watched /\ \A k \in Watched : answers[k].id \notin DOMAIN list
    BY <2>9 DEF Numbers, WatchNumbers, Watched
  <2> QED BY <2>9, <2>1, <2>2 DEF WatchesKnown, Matched
<1>5. ASSUME Asking \/ Continuing \/ Shutting
      PROVE  WatchesKnown'
  <2>1. core' = core /\ UNCHANGED <<list, answers>>
    BY <1>5, AskingSends
  <2>2. Editing' = Editing /\ \A k \in Editing : commands'[k] = commands[k]
    BY <1>5, AskKinds DEF Editing, EditOps
  <2>3. Installs' = Installs /\ \A k \in Installs : commands'[k] = commands[k]
    BY <1>5, AskKinds DEF Installs
  <2>4. Removals' = Removals /\ \A k \in Removals : commands'[k] = commands[k]
    BY <1>5, AskKinds DEF Removals
  <2>5. Watched' = Watched
    BY <2>1 DEF Watched
  <2> QED BY <2>1, <2>2, <2>5 DEF WatchesKnown, Matched
<1>6. ASSUME NEW r, Launching(r) PROVE WatchesKnown'
  <2>1. core' = core /\ answers' = answers /\ DOMAIN list' = DOMAIN list
    BY <1>6 DEF Launching, coreVars
  <2>2. \A k \in Editing' : \/ k \in Editing /\ commands'[k] = commands[k]
                            \/ commands'[k].id \in DOMAIN list
    BY <1>6, LaunchKinds DEF Editing, EditOps
  <2>3. \A k \in Removals' : k \in Removals /\ commands'[k] = commands[k]
    BY <1>6, LaunchKinds DEF Removals
  <2>4. \A k \in Installs' : k \in Installs /\ commands'[k] = commands[k]
    BY <1>6, LaunchKinds DEF Installs
  <2>5. \A k \in Removals : k \in Removals' /\ commands'[k] = commands[k]
    BY <1>6, LaunchKinds DEF Removals
  <2>6. \A k \in Installs : k \in Installs' /\ commands'[k] = commands[k]
    BY <1>6, LaunchKinds DEF Installs
  <2>7. Watched' = Watched /\ \A k \in Watched : answers[k].id \notin DOMAIN list
    BY <2>1 DEF Numbers, WatchNumbers, Watched
  <2> QED BY <2>1, <2>2, <2>7 DEF WatchesKnown, Matched
<1>7. ASSUME NEW n, NEW locs, Installing(n, locs) PROVE WatchesKnown'
  <2> ACoreStep
    BY <1>7 DEF ACoreStep
  <2>10. UNCHANGED list
    BY CorePops
  <2>11. \A k \in Editing' : k + 1 \in Editing /\ commands'[k] = commands[k + 1]
    BY CoreKinds DEF Editing
  <2>12. \A k \in Installs' : k + 1 \in Installs /\ commands'[k] = commands[k + 1]
    BY CoreKinds DEF Installs
  <2>13. \A k \in Removals' : k + 1 \in Removals /\ commands'[k] = commands[k + 1]
    BY CoreKinds DEF Removals
  <2>14. \A k \in Installs : k = 1 \/ (k - 1 \in Installs' /\ commands'[k - 1] = commands[k])
    BY CoreKinds DEF Installs
  <2>15. \A k \in Removals : k = 1 \/ (k - 1 \in Removals' /\ commands'[k - 1] = commands[k])
    BY CoreKinds DEF Removals
  <2>1. commands[1].id = <<"code", n>> /\ 1 \in Installs
    BY <1>7, InstallNumber
  <2>2. DOMAIN core' = DOMAIN core \cup {commands[1].id}
    BY <1>7, <2>1 DEF Installing
  <2>3. Watched' = Watched /\ \A k \in Watched : answers'[k] = answers[k]
    BY <1>7, WatchedKept
  <2>4. \A k \in Watched : answers[k].id # commands[1].id
    BY <2>1, WatchedIds
  <2>5. Same(core', core, DOMAIN core \ {commands[1].id})
    BY <1>7, <2>1 DEF Installing
  <2> QED BY <2>11, <2>2, <2>3, <2>4, <2>5 DEF WatchesKnown, Matched, Same
<1>8. ASSUME NEW n, Watching(n) PROVE WatchesKnown'
  <2> ACoreStep
    BY <1>8 DEF ACoreStep
  <2>10. UNCHANGED list
    BY CorePops
  <2>11. \A k \in Editing' : k + 1 \in Editing /\ commands'[k] = commands[k + 1]
    BY CoreKinds DEF Editing
  <2>12. \A k \in Installs' : k + 1 \in Installs /\ commands'[k] = commands[k + 1]
    BY CoreKinds DEF Installs
  <2>13. \A k \in Removals' : k + 1 \in Removals /\ commands'[k] = commands[k + 1]
    BY CoreKinds DEF Removals
  <2>14. \A k \in Installs : k = 1 \/ (k - 1 \in Installs' /\ commands'[k - 1] = commands[k])
    BY CoreKinds DEF Installs
  <2>15. \A k \in Removals : k = 1 \/ (k - 1 \in Removals' /\ commands'[k - 1] = commands[k])
    BY CoreKinds DEF Removals
  <2>1. n = coreNext["watch"] /\ n \in Nat
    BY <1>8, NextFields DEF Watching
  <2> DEFINE w == <<"watch", n>>
             a == [op |-> "watched", id |-> w]
  <2>2. a.op = "watched" /\ a.id = w /\ w[2] = n
    OBVIOUS
  <2>3. /\ Telling(a) /\ DOMAIN core' = DOMAIN core \cup {w} /\ Same(core', core, DOMAIN core \ {w})
        /\ core'[w].on = TRUE /\ core'[w].cond = FALSE /\ core'[w].ignore = 0
    BY <1>8 DEF Watching
  <2>4. \A j \in Editing : commands[j].id # w
    BY <2>1, NewWatch
  <2> HIDE DEF a, w
  <2>5. \A k \in Watched' : (k \in Watched /\ answers'[k] = answers[k]) \/ answers'[k] = a
    BY <2>3, TellingKinds DEF Watched
  <2>6. \A k \in Watched : answers[k].id # w
    <3> SUFFICES ASSUME NEW k \in Watched, answers[k].id = w PROVE FALSE
      OBVIOUS
    <3>1. answers[k].id[2] < coreNext["watch"]
      BY DEF Numbers, WatchNumbers
    <3> QED BY <2>1, <2>2, <3>1
  <2> QED BY <2>11, <2>2, <2>3, <2>4, <2>5, <2>6 DEF WatchesKnown, Matched, Same
<1>9. ASSUME Refusing \/ Starting \/ Resuming
      PROVE  WatchesKnown'
  <2> ACoreStep
    BY <1>9 DEF ACoreStep
  <2>10. UNCHANGED list
    BY CorePops
  <2>11. \A k \in Editing' : k + 1 \in Editing /\ commands'[k] = commands[k + 1]
    BY CoreKinds DEF Editing
  <2>12. \A k \in Installs' : k + 1 \in Installs /\ commands'[k] = commands[k + 1]
    BY CoreKinds DEF Installs
  <2>13. \A k \in Removals' : k + 1 \in Removals /\ commands'[k] = commands[k + 1]
    BY CoreKinds DEF Removals
  <2>14. \A k \in Installs : k = 1 \/ (k - 1 \in Installs' /\ commands'[k - 1] = commands[k])
    BY CoreKinds DEF Installs
  <2>15. \A k \in Removals : k = 1 \/ (k - 1 \in Removals' /\ commands'[k - 1] = commands[k])
    BY CoreKinds DEF Removals
  <2>1. Watched' = Watched /\ \A k \in Watched : answers'[k] = answers[k]
    BY <1>9, WatchedKept
  <2>2. /\ DOMAIN core' = DOMAIN core
        /\ \A i \in DOMAIN core : /\ core'[i].on = core[i].on /\ core'[i].cond = core[i].cond
                                  /\ core'[i].ignore = core[i].ignore
    BY <1>9 DEF Refusing, Starting, Resuming, coreVars
  <2> QED BY <2>11, <2>1, <2>2 DEF WatchesKnown, Matched
<1>10. ASSUME (\E op : Setting(op)) \/ Dropping
      PROVE  WatchesKnown'
  <2> ACoreStep
    BY <1>10 DEF ACoreStep
  <2>10. UNCHANGED list
    BY CorePops
  <2>11. \A k \in Editing' : k + 1 \in Editing /\ commands'[k] = commands[k + 1]
    BY CoreKinds DEF Editing
  <2>12. \A k \in Installs' : k + 1 \in Installs /\ commands'[k] = commands[k + 1]
    BY CoreKinds DEF Installs
  <2>13. \A k \in Removals' : k + 1 \in Removals /\ commands'[k] = commands[k + 1]
    BY CoreKinds DEF Removals
  <2>14. \A k \in Installs : k = 1 \/ (k - 1 \in Installs' /\ commands'[k - 1] = commands[k])
    BY CoreKinds DEF Installs
  <2>15. \A k \in Removals : k = 1 \/ (k - 1 \in Removals' /\ commands'[k - 1] = commands[k])
    BY CoreKinds DEF Removals
  <2>1. Watched' = Watched /\ \A k \in Watched : answers'[k] = answers[k]
    BY <1>10, WatchedKept
  <2>2. /\ DOMAIN core \ {commands[1].id} \subseteq DOMAIN core'
        /\ Same(core', core, DOMAIN core \ {commands[1].id})
    BY <1>10 DEF Setting, Dropping
  <2>3. 1 \in Editing
    <3>1. commands[1].op \in EditOps /\ Shrunk(commands, commands')
      BY <1>10 DEF Setting, Dropping, Up, Taking, EditOps
    <3> QED BY <3>1 DEF Editing, Kind, Shrunk
  <2>4. \A k \in Watched : answers[k].id # commands[1].id
    BY <2>3 DEF WatchesKnown, Matched
  <2> QED BY <2>11, <2>1, <2>2, <2>4 DEF WatchesKnown, Matched, Same
<1>11. ASSUME \/ Pausing
              \/ Exiting
              \/ \E i : Ignored(i)
              \/ \E i : Stopping(i)
      PROVE  WatchesKnown'
  <2> AStop
    BY <1>11 DEF AStop
  <2>1. UNCHANGED <<commands, list>> /\ Installs' = Installs /\ Editing' = Editing /\ Removals' = Removals
    BY StopKeeps DEF Installs, Editing, Removals
  <2>2. DOMAIN core' = DOMAIN core
    BY <1>11 DEF Pausing, Exiting, Ignored, Stopping, Counted
  <2>3. Watched' = Watched /\ \A k \in Watched : answers'[k] = answers[k]
    BY <1>11, WatchedKept
  <2>4. \A i \in DOMAIN core : /\ core'[i].on = core[i].on /\ core'[i].cond = core[i].cond
                               /\ core[i].ignore = 0 => core'[i].ignore = 0
    <3>1. CASE Pausing \/ Exiting
      BY <3>1 DEF Pausing, Exiting
    <3>2. ASSUME NEW i, Ignored(i) \/ Stopping(i)
          PROVE  \A j \in DOMAIN core : /\ core'[j].on = core[j].on /\ core'[j].cond = core[j].cond
                                        /\ core[j].ignore = 0 => core'[j].ignore = 0
      <4>1. Counted(i)
        BY <3>2 DEF Ignored, Stopping
      <4>2. \A j \in DOMAIN core : j = i \/ core'[j] = core[j]
        BY <4>1 DEF Counted, Same
      <4>3. core'[i].on = core[i].on /\ core'[i].cond = core[i].cond
        BY <4>1 DEF Counted
      <4>4. core[i].ignore = 0 => core'[i].ignore = 0
        BY <4>1 DEF Counted
      <4> QED BY <4>2, <4>3, <4>4
    <3> QED BY <1>11, <3>1, <3>2
  <2> QED BY <2>1, <2>2, <2>3, <2>4 DEF WatchesKnown, Matched
<1>12. ASSUME \/ Outdated
              \/ Connecting
              \/ Reopening
              \/ Updating
              \/ Leaving
              \/ Listing
      PROVE  WatchesKnown'
  <2> AnAnswer
    BY <1>12 DEF AnAnswer
  <2>1. UNCHANGED <<core, commands>> /\ Shrunk(answers, answers')
    BY MainPops
  <2>3. Editing' = Editing
    BY <2>1 DEF Editing
  <2>5. \A k \in Watched' : k + 1 \in Watched /\ answers'[k] = answers[k + 1]
    BY <2>1, KindShrunk DEF Watched
  <2> QED BY <2>1, <2>3, <2>5 DEF WatchesKnown, Matched
<1>13. ASSUME \/ CancelDialog
              \/ AttachFirst
      PROVE  WatchesKnown'
  <2>1. UNCHANGED <<commands, core, answers>>
    BY <1>13 DEF CancelDialog, AttachFirst, listVars, coreVars, counts
  <2> QED BY <2>1 DEF WatchesKnown, Watched, Editing, Matched
<1> QED BY <1>1, <1>2, <1>3, <1>4, <1>5, <1>6, <1>7, <1>8, <1>9, <1>10, <1>11, <1>12, <1>13
       DEF Step, AnEdit, ARequest, ACoreStep, AStop, AnAnswer

(* What LLDB has is listed, or about to be listed or removed. *)
LEMMA CoreKnownStep ==
  ASSUME Shape,
         Phase,
         "renumber" \notin mishaps,
         coreUp,
         coreUp',
         Step,
         fault' = "none",
         Fresh,
         Numbers,
         InstallsInOrder,
         Matched
  PROVE  CoreKnown'
<1>1. ASSUME \/ \E op : Broken(op)
             \/ \E op : NoBreakpoint(op)
             \/ \E r : Loading(r)
             \/ Ending
             \/ Load
             \/ Disconnecting
      PROVE  CoreKnown'
  <2> QED BY <1>1, Impossible
<1>2. ASSUME NEW i, NEW r, Adding(i, r) PROVE CoreKnown'
  <2> AnEdit
    BY <1>2 DEF AnEdit
  <2>9. UNCHANGED <<core, answers>> /\ HasImpl
    BY EditKeeps, UpHasImpl
  <2>11. \A k \in Removals : k \in Removals' /\ commands'[k] = commands[k]
    BY <1>2, AddKinds DEF Removals
  <2>12. \A k \in Installs : k \in Installs' /\ commands'[k] = commands[k]
    BY <1>2, AddKinds DEF Installs
  <2>1. DOMAIN list' = DOMAIN list \cup {i} /\ Watched' = Watched
    BY <1>2, <2>9, AddingLists DEF Watched
  <2> QED BY <2>9, <2>11, <2>1 DEF CoreKnown, Matched
<1>3. ASSUME NEW S, NEW r, Removing(S, r) PROVE CoreKnown'
  <2> AnEdit
    BY <1>3 DEF AnEdit
  <2>9. UNCHANGED <<core, answers>> /\ HasImpl
    BY EditKeeps, UpHasImpl
  <2>11. \A k \in Removals : k \in Removals' /\ commands'[k] = commands[k]
    BY <1>3, RemoveKinds DEF Removals
  <2>12. \A k \in Installs : k \in Installs' /\ commands'[k] = commands[k]
    BY <1>3, RemoveKinds DEF Installs
  <2>1. DOMAIN list' = DOMAIN list \ S /\ Watched' = Watched
    BY <1>3, <2>9 DEF Removing, Watched
  <2>2. \A i \in S : \E k \in Removals' : commands'[k].id = i
    BY <1>3, <2>9, RemoveKinds DEF Removals
  <2> QED BY <2>9, <2>11, <2>1, <2>2 DEF CoreKnown, Matched
<1>4. ASSUME NEW op, NEW S, NEW r, Changing(op, S, r) PROVE CoreKnown'
  <2> AnEdit
    BY <1>4 DEF AnEdit
  <2>9. UNCHANGED <<core, answers>> /\ HasImpl
    BY EditKeeps, UpHasImpl
  <2>11. \A k \in Removals : k \in Removals' /\ commands'[k] = commands[k]
    BY <1>4, ChangeKinds DEF Removals
  <2>12. \A k \in Installs : k \in Installs' /\ commands'[k] = commands[k]
    BY <1>4, ChangeKinds DEF Installs
  <2>1. DOMAIN list' = DOMAIN list /\ Watched' = Watched
    BY <1>4, <2>9 DEF Changing, Watched
  <2> QED BY <2>9, <2>11, <2>1 DEF CoreKnown, Matched
<1>5. ASSUME Asking \/ Continuing \/ Shutting
      PROVE  CoreKnown'
  <2>1. core' = core /\ UNCHANGED <<list, answers>>
    BY <1>5, AskingSends
  <2>2. Editing' = Editing /\ \A k \in Editing : commands'[k] = commands[k]
    BY <1>5, AskKinds DEF Editing, EditOps
  <2>3. Installs' = Installs /\ \A k \in Installs : commands'[k] = commands[k]
    BY <1>5, AskKinds DEF Installs
  <2>4. Removals' = Removals /\ \A k \in Removals : commands'[k] = commands[k]
    BY <1>5, AskKinds DEF Removals
  <2>5. Watched' = Watched
    BY <2>1 DEF Watched
  <2> QED BY <2>1, <2>4, <2>5 DEF CoreKnown, Matched
<1>6. ASSUME NEW r, Launching(r) PROVE CoreKnown'
  <2>1. core' = core /\ answers' = answers /\ DOMAIN list' = DOMAIN list
    BY <1>6 DEF Launching, coreVars
  <2>2. \A k \in Editing' : \/ k \in Editing /\ commands'[k] = commands[k]
                            \/ commands'[k].id \in DOMAIN list
    BY <1>6, LaunchKinds DEF Editing, EditOps
  <2>3. \A k \in Removals' : k \in Removals /\ commands'[k] = commands[k]
    BY <1>6, LaunchKinds DEF Removals
  <2>4. \A k \in Installs' : k \in Installs /\ commands'[k] = commands[k]
    BY <1>6, LaunchKinds DEF Installs
  <2>5. \A k \in Removals : k \in Removals' /\ commands'[k] = commands[k]
    BY <1>6, LaunchKinds DEF Removals
  <2>6. \A k \in Installs : k \in Installs' /\ commands'[k] = commands[k]
    BY <1>6, LaunchKinds DEF Installs
  <2>7. Watched' = Watched
    BY <2>1 DEF Watched
  <2> QED BY <2>1, <2>5, <2>7 DEF CoreKnown, Matched
<1>7. ASSUME NEW n, NEW locs, Installing(n, locs) PROVE CoreKnown'
  <2> ACoreStep
    BY <1>7 DEF ACoreStep
  <2>10. UNCHANGED list
    BY CorePops
  <2>11. \A k \in Editing' : k + 1 \in Editing /\ commands'[k] = commands[k + 1]
    BY CoreKinds DEF Editing
  <2>12. \A k \in Installs' : k + 1 \in Installs /\ commands'[k] = commands[k + 1]
    BY CoreKinds DEF Installs
  <2>13. \A k \in Removals' : k + 1 \in Removals /\ commands'[k] = commands[k + 1]
    BY CoreKinds DEF Removals
  <2>14. \A k \in Installs : k = 1 \/ (k - 1 \in Installs' /\ commands'[k - 1] = commands[k])
    BY CoreKinds DEF Installs
  <2>15. \A k \in Removals : k = 1 \/ (k - 1 \in Removals' /\ commands'[k - 1] = commands[k])
    BY CoreKinds DEF Removals
  <2>1. commands[1].id = <<"code", n>> /\ 1 \in Installs
    BY <1>7, InstallNumber
  <2>2. DOMAIN core' = DOMAIN core \cup {commands[1].id}
    BY <1>7, <2>1 DEF Installing
  <2>3. 1 \notin Removals
    BY <1>7 DEF Removals, Kind, EditOps, Installing, Watching, Refusing, Setting, Starting, Resuming, Dropping,
       Up, Taking
  <2>4. Watched' = Watched /\ \A k \in Watched : answers'[k] = answers[k]
    BY <1>7, WatchedKept
  <2>5. commands[1].id \in DOMAIN list \/ \E j \in Removals : commands[j].id = commands[1].id
    BY <2>1 DEF InstallsKnown, Matched
  <2> QED BY <2>10, <2>15, <2>2, <2>3, <2>4, <2>5 DEF CoreKnown, Matched
<1>8. ASSUME NEW n, Watching(n) PROVE CoreKnown'
  <2> ACoreStep
    BY <1>8 DEF ACoreStep
  <2>10. UNCHANGED list
    BY CorePops
  <2>11. \A k \in Editing' : k + 1 \in Editing /\ commands'[k] = commands[k + 1]
    BY CoreKinds DEF Editing
  <2>12. \A k \in Installs' : k + 1 \in Installs /\ commands'[k] = commands[k + 1]
    BY CoreKinds DEF Installs
  <2>13. \A k \in Removals' : k + 1 \in Removals /\ commands'[k] = commands[k + 1]
    BY CoreKinds DEF Removals
  <2>14. \A k \in Installs : k = 1 \/ (k - 1 \in Installs' /\ commands'[k - 1] = commands[k])
    BY CoreKinds DEF Installs
  <2>15. \A k \in Removals : k = 1 \/ (k - 1 \in Removals' /\ commands'[k - 1] = commands[k])
    BY CoreKinds DEF Removals
  <2>3. 1 \notin Removals
    BY <1>8 DEF Removals, Kind, EditOps, Installing, Watching, Refusing, Setting, Starting, Resuming, Dropping,
       Up, Taking
  <2> DEFINE w == <<"watch", n>>
             a == [op |-> "watched", id |-> w]
  <2>2. a.op = "watched" /\ a.id = w
    OBVIOUS
  <2>4. Telling(a) /\ DOMAIN core' = DOMAIN core \cup {w}
    BY <1>8 DEF Watching
  <2> HIDE DEF a, w
  <2>5. /\ \A k \in Watched : k \in Watched' /\ answers'[k] = answers[k]
        /\ \E k \in Watched' : answers'[k] = a
    BY <2>2, <2>4, TellingKinds DEF Watched
  <2> QED BY <2>10, <2>15, <2>2, <2>3, <2>4, <2>5 DEF CoreKnown, Matched
<1>9. ASSUME \/ Refusing
             \/ \E op : Setting(op)
             \/ Starting
             \/ Resuming
      PROVE  CoreKnown'
  <2> ACoreStep
    BY <1>9 DEF ACoreStep
  <2>10. UNCHANGED list
    BY CorePops
  <2>11. \A k \in Editing' : k + 1 \in Editing /\ commands'[k] = commands[k + 1]
    BY CoreKinds DEF Editing
  <2>12. \A k \in Installs' : k + 1 \in Installs /\ commands'[k] = commands[k + 1]
    BY CoreKinds DEF Installs
  <2>13. \A k \in Removals' : k + 1 \in Removals /\ commands'[k] = commands[k + 1]
    BY CoreKinds DEF Removals
  <2>14. \A k \in Installs : k = 1 \/ (k - 1 \in Installs' /\ commands'[k - 1] = commands[k])
    BY CoreKinds DEF Installs
  <2>15. \A k \in Removals : k = 1 \/ (k - 1 \in Removals' /\ commands'[k - 1] = commands[k])
    BY CoreKinds DEF Removals
  <2>3. 1 \notin Removals
    BY <1>9 DEF Removals, Kind, EditOps, Installing, Watching, Refusing, Setting, Starting, Resuming, Dropping,
       Up, Taking
  <2>4. Watched' = Watched /\ \A k \in Watched : answers'[k] = answers[k]
    BY <1>9, WatchedKept
  <2>5. DOMAIN core' = DOMAIN core
    BY <1>9 DEF Refusing, Setting, Starting, Resuming, coreVars
  <2> QED BY <2>10, <2>15, <2>3, <2>4, <2>5 DEF CoreKnown, Matched
<1>10. ASSUME Dropping PROVE CoreKnown'
  <2> ACoreStep
    BY <1>10 DEF ACoreStep
  <2>10. UNCHANGED list
    BY CorePops
  <2>11. \A k \in Editing' : k + 1 \in Editing /\ commands'[k] = commands[k + 1]
    BY CoreKinds DEF Editing
  <2>12. \A k \in Installs' : k + 1 \in Installs /\ commands'[k] = commands[k + 1]
    BY CoreKinds DEF Installs
  <2>13. \A k \in Removals' : k + 1 \in Removals /\ commands'[k] = commands[k + 1]
    BY CoreKinds DEF Removals
  <2>14. \A k \in Installs : k = 1 \/ (k - 1 \in Installs' /\ commands'[k - 1] = commands[k])
    BY CoreKinds DEF Installs
  <2>15. \A k \in Removals : k = 1 \/ (k - 1 \in Removals' /\ commands'[k - 1] = commands[k])
    BY CoreKinds DEF Removals
  <2>1. /\ commands[1].id \in DOMAIN core /\ DOMAIN core' = DOMAIN core \ {commands[1].id}
        /\ Same(core', core, DOMAIN core \ {commands[1].id})
        /\ commands[1].op = "remove" /\ Shrunk(commands, commands')
    BY <1>10 DEF Dropping, Up, Taking
  <2>2. 1 \in Removals /\ 1 \in Editing
    BY <2>1 DEF Removals, Editing, Kind, Shrunk, EditOps
  <2>4. Watched' = Watched /\ \A k \in Watched : answers'[k] = answers[k]
    BY <1>10, WatchedKept
  <2> QED BY <2>10, <2>15, <2>1, <2>4 DEF CoreKnown, Matched
<1>11. ASSUME \/ Pausing
              \/ Exiting
              \/ \E i : Ignored(i)
              \/ \E i : Stopping(i)
      PROVE  CoreKnown'
  <2> AStop
    BY <1>11 DEF AStop
  <2>1. UNCHANGED <<commands, list>> /\ Installs' = Installs /\ Editing' = Editing /\ Removals' = Removals
    BY StopKeeps DEF Installs, Editing, Removals
  <2>2. DOMAIN core' = DOMAIN core
    BY <1>11 DEF Pausing, Exiting, Ignored, Stopping, Counted
  <2>3. Watched' = Watched /\ \A k \in Watched : answers'[k] = answers[k]
    BY <1>11, WatchedKept
  <2> QED BY <2>1, <2>2, <2>3 DEF CoreKnown, Matched
<1>12. ASSUME \/ Outdated
              \/ Connecting
              \/ Reopening
              \/ Updating
              \/ Leaving
      PROVE  CoreKnown'
  <2> AnAnswer
    BY <1>12 DEF AnAnswer
  <2>1. UNCHANGED <<core, commands>> /\ Shrunk(answers, answers')
    BY MainPops
  <2>2. DOMAIN list' = DOMAIN list
    BY <1>12 DEF Outdated, Connecting, Reopening, Updating, Leaving, listVars
  <2>3. Editing' = Editing /\ Installs' = Installs /\ Removals' = Removals
    BY <2>1 DEF Editing, Installs, Removals
  <2>4. answers[1].op # "watched"
    BY <1>12 DEF Outdated, Connecting, Reopening, Updating, Leaving, Hearing
  <2>5. \A k \in Watched : k - 1 \in Watched' /\ answers'[k - 1] = answers[k]
    BY <2>1, <2>4, KindPops DEF Watched
  <2> QED BY <2>1, <2>2, <2>3, <2>5 DEF CoreKnown, Matched
<1>13. ASSUME Listing PROVE CoreKnown'
  <2> AnAnswer
    BY <1>13 DEF AnAnswer
  <2>1. UNCHANGED <<core, commands>> /\ Shrunk(answers, answers')
    BY MainPops
  <2>2. DOMAIN list' = DOMAIN list \cup {answers[1].id} /\ answers[1].op = "watched"
    BY <1>13 DEF Listing, Hearing
  <2>3. Editing' = Editing /\ Installs' = Installs /\ Removals' = Removals
    BY <2>1 DEF Editing, Installs, Removals
  <2>4. 1 \in Watched
    BY <2>1, <2>2 DEF Watched, Kind, Shrunk
  <2>5. \A k \in Watched : k = 1 \/ (k - 1 \in Watched' /\ answers'[k - 1] = answers[k])
    BY <2>1, KindShrunk DEF Watched
  <2> QED BY <2>1, <2>2, <2>3, <2>5 DEF CoreKnown, Matched
<1>14. ASSUME \/ CancelDialog
              \/ AttachFirst
      PROVE  CoreKnown'
  <2>1. UNCHANGED <<commands, core, list, answers>>
    BY <1>14 DEF CancelDialog, AttachFirst, listVars, coreVars, counts
  <2> QED BY <2>1 DEF CoreKnown, Watched, Removals, Matched
<1> QED BY <1>1, <1>2, <1>3, <1>4, <1>5, <1>6, <1>7, <1>8, <1>9, <1>10, <1>11, <1>12, <1>13,
          <1>14
       DEF Step, AnEdit, ARequest, ACoreStep, AStop, AnAnswer

(* What is being installed is listed, or about to be removed. *)
LEMMA InstallsKnownStep ==
  ASSUME Shape,
         Phase,
         "renumber" \notin mishaps,
         coreUp,
         coreUp',
         Step,
         fault' = "none",
         Fresh,
         Numbers,
         InstallsInOrder,
         Matched
  PROVE  InstallsKnown'
<1>1. ASSUME \/ \E op : Broken(op)
             \/ \E op : NoBreakpoint(op)
             \/ \E r : Loading(r)
             \/ Ending
      PROVE  InstallsKnown'
  <2> QED BY <1>1, Impossible
<1>2. ASSUME Disconnecting PROVE InstallsKnown'
  <2> QED BY <1>2, Impossible
<1>3. ASSUME NEW i, NEW r, Adding(i, r) PROVE InstallsKnown'
  <2> AnEdit
    BY <1>3 DEF AnEdit
  <2>9. UNCHANGED <<core, answers>> /\ HasImpl
    BY EditKeeps, UpHasImpl
  <2>11. \A k \in Removals : k \in Removals' /\ commands'[k] = commands[k]
    BY <1>3, AddKinds DEF Removals
  <2>12. \A k \in Installs : k \in Installs' /\ commands'[k] = commands[k]
    BY <1>3, AddKinds DEF Installs
  <2>1. DOMAIN list' = DOMAIN list \cup {i}
    BY <1>3, AddingLists
  <2>2. \A k \in Installs' : (k \in Installs /\ commands'[k] = commands[k]) \/ commands'[k].id = i
    BY <1>3, AddKinds DEF Installs
  <2> QED BY <2>11, <2>1, <2>2 DEF InstallsKnown, Matched
<1>4. ASSUME NEW S, NEW r, Removing(S, r) PROVE InstallsKnown'
  <2> AnEdit
    BY <1>4 DEF AnEdit
  <2>9. UNCHANGED <<core, answers>> /\ HasImpl
    BY EditKeeps, UpHasImpl
  <2>11. \A k \in Removals : k \in Removals' /\ commands'[k] = commands[k]
    BY <1>4, RemoveKinds DEF Removals
  <2>12. \A k \in Installs : k \in Installs' /\ commands'[k] = commands[k]
    BY <1>4, RemoveKinds DEF Installs
  <2>1. DOMAIN list' = DOMAIN list \ S
    BY <1>4 DEF Removing
  <2>2. \A i \in S : \E k \in Removals' : commands'[k].id = i
    BY <1>4, <2>9, RemoveKinds DEF Removals
  <2>3. \A k \in Installs' : k \in Installs /\ commands'[k] = commands[k]
    BY <1>4, RemoveKinds DEF Installs
  <2> QED BY <2>11, <2>1, <2>2, <2>3 DEF InstallsKnown, Matched
<1>5. ASSUME NEW op, NEW S, NEW r, Changing(op, S, r) PROVE InstallsKnown'
  <2> AnEdit
    BY <1>5 DEF AnEdit
  <2>9. UNCHANGED <<core, answers>> /\ HasImpl
    BY EditKeeps, UpHasImpl
  <2>11. \A k \in Removals : k \in Removals' /\ commands'[k] = commands[k]
    BY <1>5, ChangeKinds DEF Removals
  <2>12. \A k \in Installs : k \in Installs' /\ commands'[k] = commands[k]
    BY <1>5, ChangeKinds DEF Installs
  <2>1. DOMAIN list' = DOMAIN list /\ op # "install"
    BY <1>5 DEF Changing
  <2>3. \A k \in Installs' : k \in Installs /\ commands'[k] = commands[k]
    BY <1>5, <2>1, ChangeKinds DEF Installs
  <2> QED BY <2>11, <2>1, <2>3 DEF InstallsKnown, Matched
<1>6. ASSUME Asking \/ Continuing \/ Shutting
      PROVE  InstallsKnown'
  <2>1. core' = core /\ UNCHANGED <<list, answers>>
    BY <1>6, AskingSends
  <2>2. Editing' = Editing /\ \A k \in Editing : commands'[k] = commands[k]
    BY <1>6, AskKinds DEF Editing, EditOps
  <2>3. Installs' = Installs /\ \A k \in Installs : commands'[k] = commands[k]
    BY <1>6, AskKinds DEF Installs
  <2>4. Removals' = Removals /\ \A k \in Removals : commands'[k] = commands[k]
    BY <1>6, AskKinds DEF Removals
  <2> QED BY <2>1, <2>3, <2>4 DEF InstallsKnown, Matched
<1>7. ASSUME NEW r, Launching(r) PROVE InstallsKnown'
  <2>1. core' = core /\ answers' = answers /\ DOMAIN list' = DOMAIN list
    BY <1>7 DEF Launching, coreVars
  <2>2. \A k \in Editing' : \/ k \in Editing /\ commands'[k] = commands[k]
                            \/ commands'[k].id \in DOMAIN list
    BY <1>7, LaunchKinds DEF Editing, EditOps
  <2>3. \A k \in Removals' : k \in Removals /\ commands'[k] = commands[k]
    BY <1>7, LaunchKinds DEF Removals
  <2>4. \A k \in Installs' : k \in Installs /\ commands'[k] = commands[k]
    BY <1>7, LaunchKinds DEF Installs
  <2>5. \A k \in Removals : k \in Removals' /\ commands'[k] = commands[k]
    BY <1>7, LaunchKinds DEF Removals
  <2>6. \A k \in Installs : k \in Installs' /\ commands'[k] = commands[k]
    BY <1>7, LaunchKinds DEF Installs
  <2> QED BY <2>1, <2>4, <2>5 DEF InstallsKnown, Matched
<1>8. ASSUME \/ \E n, locs : Installing(n, locs)
             \/ \E n : Watching(n)
             \/ Refusing
             \/ \E op : Setting(op)
             \/ Starting
             \/ Resuming
      PROVE  InstallsKnown'
  <2> ACoreStep
    BY <1>8 DEF ACoreStep
  <2>10. UNCHANGED list
    BY CorePops
  <2>11. \A k \in Editing' : k + 1 \in Editing /\ commands'[k] = commands[k + 1]
    BY CoreKinds DEF Editing
  <2>12. \A k \in Installs' : k + 1 \in Installs /\ commands'[k] = commands[k + 1]
    BY CoreKinds DEF Installs
  <2>13. \A k \in Removals' : k + 1 \in Removals /\ commands'[k] = commands[k + 1]
    BY CoreKinds DEF Removals
  <2>14. \A k \in Installs : k = 1 \/ (k - 1 \in Installs' /\ commands'[k - 1] = commands[k])
    BY CoreKinds DEF Installs
  <2>15. \A k \in Removals : k = 1 \/ (k - 1 \in Removals' /\ commands'[k - 1] = commands[k])
    BY CoreKinds DEF Removals
  <2>3. 1 \notin Removals
    BY <1>8 DEF Removals, Kind, EditOps, Installing, Watching, Refusing, Setting, Starting, Resuming, Dropping,
       Up, Taking
  <2> QED BY <2>10, <2>12, <2>15, <2>3 DEF InstallsKnown, Matched
<1>9. ASSUME Dropping PROVE InstallsKnown'
  <2> ACoreStep
    BY <1>9 DEF ACoreStep
  <2>10. UNCHANGED list
    BY CorePops
  <2>11. \A k \in Editing' : k + 1 \in Editing /\ commands'[k] = commands[k + 1]
    BY CoreKinds DEF Editing
  <2>12. \A k \in Installs' : k + 1 \in Installs /\ commands'[k] = commands[k + 1]
    BY CoreKinds DEF Installs
  <2>13. \A k \in Removals' : k + 1 \in Removals /\ commands'[k] = commands[k + 1]
    BY CoreKinds DEF Removals
  <2>14. \A k \in Installs : k = 1 \/ (k - 1 \in Installs' /\ commands'[k - 1] = commands[k])
    BY CoreKinds DEF Installs
  <2>15. \A k \in Removals : k = 1 \/ (k - 1 \in Removals' /\ commands'[k - 1] = commands[k])
    BY CoreKinds DEF Removals
  <2>1. /\ commands[1].id \in DOMAIN core /\ DOMAIN core' = DOMAIN core \ {commands[1].id}
        /\ Same(core', core, DOMAIN core \ {commands[1].id})
        /\ commands[1].op = "remove" /\ Shrunk(commands, commands')
    BY <1>9 DEF Dropping, Up, Taking
  <2>2. 1 \in Removals /\ 1 \in Editing
    BY <2>1 DEF Removals, Editing, Kind, Shrunk, EditOps
  <2>3. \A k \in Installs : commands[k].id # commands[1].id
    BY <2>1, NotThere
  <2> QED BY <2>10, <2>12, <2>15, <2>3 DEF InstallsKnown, Matched
<1>10. ASSUME \/ Listing
              \/ Outdated
              \/ Connecting
              \/ Reopening
              \/ Updating
              \/ Leaving
      PROVE  InstallsKnown'
  <2> AnAnswer
    BY <1>10 DEF AnAnswer
  <2>1. UNCHANGED <<core, commands>>
    BY MainPops
  <2>2. DOMAIN list \subseteq DOMAIN list'
    BY <1>10 DEF Outdated, Connecting, Listing, Reopening, Updating, Leaving, listVars
  <2>3. Installs' = Installs /\ Removals' = Removals
    BY <2>1 DEF Installs, Removals
  <2> QED BY <2>1, <2>2, <2>3 DEF InstallsKnown, Matched
<1>11. ASSUME \/ CancelDialog
              \/ Load
              \/ AttachFirst
      PROVE  InstallsKnown'
  <2>1. UNCHANGED <<commands, list>>
    BY <1>11 DEF CancelDialog, Load, AttachFirst, listVars, coreVars, counts
  <2> QED BY <2>1 DEF InstallsKnown, Installs, Removals, Matched
<1>12. ASSUME AStop PROVE InstallsKnown'
  <2>1. UNCHANGED <<commands, list>>
    BY <1>12 DEF AStop, Pausing, Moving, Exiting, Ignored, Stopping, listVars, coreVars, counts
  <2> QED BY <2>1 DEF InstallsKnown, Installs, Removals, Matched
<1> QED BY <1>1, <1>2, <1>3, <1>4, <1>5, <1>6, <1>7, <1>8, <1>9, <1>10, <1>11, <1>12
       DEF Step, AnEdit, ARequest, ACoreStep, AStop, AnAnswer

-----------------------------------------------------------------------------
(* The last command for a breakpoint                                       *)

(* When the first command is taken, the last one for a breakpoint stays the *)
(* last, or it was that one.                                               *)
LEMMA PopLast ==
  ASSUME ACoreStep, NEW ops, NEW i
  PROVE  LET K == On(commands, ops, i)
             L == On(commands', ops, i)
         IN  /\ \A k \in L : k + 1 \in K /\ commands'[k] = commands[k + 1] /\ (Last(L, k) => Last(K, k + 1))
             /\ L = {} => K = {} \/ Last(K, 1)
             /\ 1 \in K <=> commands[1].op \in ops /\ commands[1].id = i
<1> DEFINE K == On(commands, ops, i)
           L == On(commands', ops, i)
<1>1. K \subseteq Int /\ L \subseteq Int
  BY CoreKinds DEF On
<1>2. \A k \in L : k + 1 \in K /\ commands'[k] = commands[k + 1]
  BY CoreKinds DEF On
<1>3. \A k \in K : k = 1 \/ (k - 1 \in L /\ k > 1)
  BY CoreKinds DEF On
<1>4. 1 \in K <=> commands[1].op \in ops /\ commands[1].id = i
  <2>1. Shrunk(commands, commands')
    BY CorePops
  <2>2. commands[1].op \in ops <=> 1 \in Kind(commands, ops)
    BY <2>1, KindShrunk
  <2> QED BY <2>2 DEF On
<1> HIDE DEF K, L
<1>5. ASSUME NEW k \in L, Last(L, k) PROVE Last(K, k + 1)
  <2>1. ASSUME NEW j \in K PROVE j <= k + 1
    <3>1. CASE j = 1
      <4>1. k + 1 = 1 \/ k + 1 > 1
        BY <1>1, <1>2, <1>3
      <4> QED BY <1>1, <3>1, <4>1
    <3>2. CASE j # 1
      <4>1. j - 1 \in L
        BY <1>3, <2>1, <3>2
      <4>2. j - 1 <= k
        BY <1>5, <4>1 DEF Last
      <4> QED BY <1>1, <4>2
    <3> QED BY <3>1, <3>2
  <2> QED BY <1>2, <2>1 DEF Last
<1>6. L = {} => K = {} \/ Last(K, 1)
  <2> SUFFICES ASSUME L = {}, K # {} PROVE Last(K, 1)
    OBVIOUS
  <2>1. \A k \in K : k = 1
    BY <1>3
  <2> QED BY <2>1 DEF Last
<1> QED BY <1>2, <1>4, <1>5, <1>6 DEF K, L

(* The commands for a breakpoint no new command is for. *)
LEMMA OnSame ==
  ASSUME NEW ops, NEW i,
         \A k \in Kind(commands, ops) : k \in Kind(commands', ops) /\ commands'[k] = commands[k],
         \A k \in Kind(commands', ops) : (k \in Kind(commands, ops) /\ commands'[k] = commands[k])
                                         \/ commands'[k].id # i
  PROVE  /\ On(commands', ops, i) = On(commands, ops, i)
         /\ \A k \in On(commands, ops, i) : commands'[k] = commands[k]
<1>1. \A k \in On(commands', ops, i) : k \in On(commands, ops, i)
  BY DEF On
<1>2. \A k \in On(commands, ops, i) : k \in On(commands', ops, i) /\ commands'[k] = commands[k]
  BY DEF On
<1> QED BY <1>1, <1>2

(* What is listed and is not being installed is there. *)
LEMMA Uninstalled ==
  ASSUME Matched, NEW i \in DOMAIN list, NEW ops, "install" \in ops, On(commands, ops, i) = {}
  PROVE  i \in DOMAIN core
<1>1. \A j \in Installs : commands[j].id # i
  BY DEF On, Installs, Kind
<1> QED BY <1>1 DEF Matched, ListKnown

(* LLDB's on is the list's, once the commands are done. *)
LEMMA OnAgreesStep ==
  ASSUME Shape,
         Phase,
         "renumber" \notin mishaps,
         coreUp,
         coreUp',
         Step,
         fault' = "none",
         Fresh,
         Numbers,
         InstallsInOrder,
         Matched,
         OnAgrees
  PROVE  OnAgrees'
<1>1. ASSUME \/ \E op : Broken(op)
             \/ \E op : NoBreakpoint(op)
             \/ \E r : Loading(r)
             \/ Ending
             \/ Load
             \/ Disconnecting
      PROVE  OnAgrees'
  <2> QED BY <1>1, Impossible
<1>2. ASSUME NEW i, NEW r, Adding(i, r) PROVE OnAgrees'
  <2> AnEdit
    BY <1>2 DEF AnEdit
  <2>9. UNCHANGED <<core, answers>> /\ HasImpl
    BY EditKeeps, UpHasImpl
  <2>1. DOMAIN list' = DOMAIN list \cup {i} /\ \A j \in DOMAIN list : list'[j] = list[j]
    BY <1>2, AddingLists
  <2>2. i = <<"code", nextNum>> /\ i \notin DOMAIN list
    BY <1>2, AddingLists
  <2>3. \A k \in Kind(commands, {"install", "enable"}) : k \in Kind(commands', {"install", "enable"}) /\ commands'[k] = commands[k]
    BY <1>2, AddKinds
  <2>4. \A k \in Kind(commands', {"install", "enable"}) : (k \in Kind(commands, {"install", "enable"}) /\ commands'[k] = commands[k]) \/ (commands'[k].id = i /\ commands'[k].on = list'[i].on)
    BY <1>2, AddKinds
  <2>5. \E k \in Kind(commands', {"install", "enable"}) : commands'[k].id = i
    BY <1>2, <2>9, AddKinds
  <2>6. \A k \in Kind(commands, {"install", "enable"}) : commands[k].id # i
    <3> SUFFICES ASSUME NEW k \in Kind(commands, {"install", "enable"}), commands[k].id = i PROVE FALSE
      OBVIOUS
    <3>1. k \in Installs \/ k \in Editing
      BY DEF Installs, Editing, Kind, EditOps
    <3>2. CASE k \in Installs
      BY <2>2, <3>2, NextFields DEF Fresh
    <3>3. CASE k \in Editing
      BY <2>2, <3>3, NewUnknown
    <3> QED BY <3>1, <3>2, <3>3
  <2> SUFFICES ASSUME NEW j \in DOMAIN list'
      PROVE  LET K == On(commands', {"install", "enable"}, j) IN
             /\ K = {} => core'[j].on = list'[j].on
             /\ \A k \in K : Last(K, k) => commands'[k].on = list'[j].on
    BY DEF OnAgrees
  <2>7. CASE j = i
    <3>1. \A k \in On(commands', {"install", "enable"}, i) : commands'[k].on = list'[i].on
      BY <2>4, <2>6 DEF On
    <3>2. On(commands', {"install", "enable"}, i) # {}
      BY <2>5 DEF On
    <3> QED BY <2>7, <3>1, <3>2
  <2>8. CASE j \in DOMAIN list
    <3>1. On(commands', {"install", "enable"}, j) = On(commands, {"install", "enable"}, j) /\ \A k \in On(commands, {"install", "enable"}, j) : commands'[k] = commands[k]
      <4>1. j # i
        BY <2>2, <2>8
      <4>2. \A k \in Kind(commands', {"install", "enable"}) : (k \in Kind(commands, {"install", "enable"}) /\ commands'[k] = commands[k])
                                          \/ commands'[k].id # j
        BY <2>4, <4>1
      <4> QED BY <2>3, <4>2, OnSame
    <3> QED BY <2>1, <2>8, <2>9, <3>1 DEF OnAgrees
  <2> QED BY <2>1, <2>7, <2>8
<1>3. ASSUME NEW S, NEW r, Removing(S, r) PROVE OnAgrees'
  <2> AnEdit
    BY <1>3 DEF AnEdit
  <2>9. UNCHANGED <<core, answers>> /\ HasImpl
    BY EditKeeps, UpHasImpl
  <2>1. DOMAIN list' = DOMAIN list \ S /\ \A j \in DOMAIN list' : list'[j] = list[j]
    BY <1>3 DEF Removing, Same
  <2>2. \A k \in Kind(commands, {"install", "enable"}) : k \in Kind(commands', {"install", "enable"}) /\ commands'[k] = commands[k]
    BY <1>3, RemoveKinds
  <2>3. \A k \in Kind(commands', {"install", "enable"}) : (k \in Kind(commands, {"install", "enable"}) /\ commands'[k] = commands[k])
    BY <1>3, RemoveKinds
  <2> SUFFICES ASSUME NEW i \in DOMAIN list'
      PROVE  LET K == On(commands', {"install", "enable"}, i) IN
             /\ K = {} => core'[i].on = list'[i].on
             /\ \A k \in K : Last(K, k) => commands'[k].on = list'[i].on
    BY DEF OnAgrees
  <2>4. On(commands', {"install", "enable"}, i) = On(commands, {"install", "enable"}, i) /\ \A k \in On(commands, {"install", "enable"}, i) : commands'[k] = commands[k]
    BY <2>2, <2>3, OnSame
  <2> QED BY <2>1, <2>4, <2>9 DEF OnAgrees
<1>4. ASSUME NEW op, NEW S, NEW r, Changing(op, S, r) PROVE OnAgrees'
  <2> AnEdit
    BY <1>4 DEF AnEdit
  <2>9. UNCHANGED <<core, answers>> /\ HasImpl
    BY EditKeeps, UpHasImpl
  <2>1. /\ DOMAIN list' = DOMAIN list /\ op # "install" /\ S \subseteq DOMAIN list
        /\ \A j \in DOMAIN list : op # "enable" \/ j \notin S => list'[j].on = list[j].on
    BY <1>4 DEF Changing
  <2>2. \A k \in Kind(commands, {"install", "enable"}) : k \in Kind(commands', {"install", "enable"}) /\ commands'[k] = commands[k] /\ k <= Len(commands)
    BY <1>4, ChangeKinds
  <2>3. \A k \in Kind(commands', {"install", "enable"}) :
           \/ k \in Kind(commands, {"install", "enable"}) /\ commands'[k] = commands[k] /\ k <= Len(commands)
           \/ op = "enable" /\ k > Len(commands) /\ commands'[k].id \in S
              /\ commands'[k].on = list'[commands'[k].id].on
    BY <1>4, <2>1, ChangeKinds
  <2>4. op = "enable" => \A i \in S : \E k \in Kind(commands', {"install", "enable"}) : k > Len(commands) /\ commands'[k].id = i
    BY <1>4, <2>9, ChangeKinds
  <2>5. Kind(commands, {"install", "enable"}) \subseteq Int /\ Kind(commands', {"install", "enable"}) \subseteq Int /\ Len(commands) \in Int
    BY <1>4, ChangeKinds
  <2> SUFFICES ASSUME NEW i \in DOMAIN list'
      PROVE  LET K == On(commands', {"install", "enable"}, i) IN
             /\ K = {} => core'[i].on = list'[i].on
             /\ \A k \in K : Last(K, k) => commands'[k].on = list'[i].on
    BY DEF OnAgrees
  <2>6. CASE op = "enable" /\ i \in S
    <3>1. PICK m \in Kind(commands', {"install", "enable"}) : m > Len(commands) /\ commands'[m].id = i
      BY <2>4, <2>6
    <3>2. m \in On(commands', {"install", "enable"}, i)
      BY <3>1 DEF On
    <3>3. ASSUME NEW k \in On(commands', {"install", "enable"}, i), Last(On(commands', {"install", "enable"}, i), k)
          PROVE  commands'[k].on = list'[i].on
      <4>1. k \in Kind(commands', {"install", "enable"}) /\ commands'[k].id = i
        BY DEF On
      <4>2. m <= k
        BY <3>2, <3>3 DEF Last
      <4>3. k > Len(commands) /\ ~(k <= Len(commands))
        BY <2>5, <3>1, <4>1, <4>2
      <4> QED BY <2>3, <4>1, <4>3
    <3> QED BY <3>2, <3>3
  <2>7. CASE ~(op = "enable" /\ i \in S)
    <3>1. list'[i].on = list[i].on
      BY <2>1, <2>7
    <3>2. \A k \in Kind(commands', {"install", "enable"}) : (k \in Kind(commands, {"install", "enable"}) /\ commands'[k] = commands[k])
                                        \/ commands'[k].id # i
      BY <2>3, <2>7
    <3>3. On(commands', {"install", "enable"}, i) = On(commands, {"install", "enable"}, i) /\ \A k \in On(commands, {"install", "enable"}, i) : commands'[k] = commands[k]
      BY <2>2, <3>2, OnSame
    <3> QED BY <2>1, <2>9, <3>1, <3>3 DEF OnAgrees
  <2> QED BY <2>6, <2>7
<1>5. ASSUME Asking \/ Continuing \/ Shutting
      PROVE  OnAgrees'
  <2>1. UNCHANGED <<list, core>>
    BY <1>5, AskingSends
  <2>2. \A k \in Kind(commands, {"install", "enable"}) : k \in Kind(commands', {"install", "enable"}) /\ commands'[k] = commands[k]
    BY <1>5, AskKinds
  <2>3. \A k \in Kind(commands', {"install", "enable"}) : (k \in Kind(commands, {"install", "enable"}) /\ commands'[k] = commands[k])
    BY <1>5, AskKinds
  <2> SUFFICES ASSUME NEW i \in DOMAIN list'
      PROVE  LET K == On(commands', {"install", "enable"}, i) IN
             /\ K = {} => core'[i].on = list'[i].on
             /\ \A k \in K : Last(K, k) => commands'[k].on = list'[i].on
    BY DEF OnAgrees
  <2>4. On(commands', {"install", "enable"}, i) = On(commands, {"install", "enable"}, i) /\ \A k \in On(commands, {"install", "enable"}, i) : commands'[k] = commands[k]
    BY <2>2, <2>3, OnSame
  <2> QED BY <2>1, <2>4 DEF OnAgrees
<1>6. ASSUME NEW r, Launching(r) PROVE OnAgrees'
  <2>1. core' = core /\ DOMAIN list' = DOMAIN list /\ \A j \in DOMAIN list : list'[j].on = list[j].on
    BY <1>6 DEF Launching, coreVars
  <2>2. \A k \in Kind(commands, {"install", "enable"}) : k \in Kind(commands', {"install", "enable"}) /\ commands'[k] = commands[k]
    BY <1>6, LaunchKinds
  <2>3. \A k \in Kind(commands', {"install", "enable"}) : (k \in Kind(commands, {"install", "enable"}) /\ commands'[k] = commands[k])
    BY <1>6, LaunchKinds
  <2> SUFFICES ASSUME NEW i \in DOMAIN list'
      PROVE  LET K == On(commands', {"install", "enable"}, i) IN
             /\ K = {} => core'[i].on = list'[i].on
             /\ \A k \in K : Last(K, k) => commands'[k].on = list'[i].on
    BY DEF OnAgrees
  <2>4. On(commands', {"install", "enable"}, i) = On(commands, {"install", "enable"}, i) /\ \A k \in On(commands, {"install", "enable"}, i) : commands'[k] = commands[k]
    BY <2>2, <2>3, OnSame
  <2> QED BY <2>1, <2>4 DEF OnAgrees
<1>7. ASSUME NEW n, NEW locs, Installing(n, locs) PROVE OnAgrees'
  <2> ACoreStep
    BY <1>7 DEF ACoreStep
  <2>1. UNCHANGED list
    BY CorePops
  <2> SUFFICES ASSUME NEW i \in DOMAIN list'
      PROVE  LET K == On(commands', {"install", "enable"}, i) IN
             /\ K = {} => core'[i].on = list'[i].on
             /\ \A k \in K : Last(K, k) => commands'[k].on = list'[i].on
    BY DEF OnAgrees
  <2>2. i \in DOMAIN list
    BY <2>1
  <2> DEFINE K == On(commands, {"install", "enable"}, i)
             L == On(commands', {"install", "enable"}, i)
  <2>3. /\ \A k \in L : commands'[k] = commands[k + 1] /\ (Last(L, k) => Last(K, k + 1))
        /\ L = {} => K = {} \/ Last(K, 1)
    BY PopLast
  <2>4. 1 \in K <=> commands[1].op \in {"install", "enable"} /\ commands[1].id = i
    BY PopLast
  <2>5. /\ K = {} => core[i].on = list[i].on
        /\ \A k \in K : Last(K, k) => commands[k].on = list[i].on
    BY <2>2 DEF OnAgrees
  <2>6. K = {} => i \in DOMAIN core
    BY <2>2, Uninstalled
  <2> HIDE DEF K, L
  <2>70. commands[1].id = <<"code", n>> /\ commands[1].op = "install"
    BY <1>7, InstallNumber DEF Installing, Up, Taking
  <2>71. /\ core'[commands[1].id].on = commands[1].on /\ Same(core', core, DOMAIN core \ {commands[1].id})
    BY <1>7, <2>70 DEF Installing
  <2>7. 1 \in K => core'[i].on = commands[1].on
    BY <2>4, <2>71
  <2>8. 1 \notin K /\ i \in DOMAIN core => core'[i].on = core[i].on
    BY <2>4, <2>70, <2>71 DEF Same
  <2>9. L = {} => core'[i].on = list[i].on
    BY <2>3, <2>5, <2>6, <2>7, <2>8 DEF Last
  <2>10. \A k \in L : Last(L, k) => commands'[k].on = list[i].on
    BY <2>3, <2>5 DEF Last
  <2> QED BY <2>1, <2>9, <2>10 DEF K, L
<1>8. ASSUME NEW n, Watching(n) PROVE OnAgrees'
  <2> ACoreStep
    BY <1>8 DEF ACoreStep
  <2>1. UNCHANGED list
    BY CorePops
  <2> SUFFICES ASSUME NEW i \in DOMAIN list'
      PROVE  LET K == On(commands', {"install", "enable"}, i) IN
             /\ K = {} => core'[i].on = list'[i].on
             /\ \A k \in K : Last(K, k) => commands'[k].on = list'[i].on
    BY DEF OnAgrees
  <2>2. i \in DOMAIN list
    BY <2>1
  <2> DEFINE K == On(commands, {"install", "enable"}, i)
             L == On(commands', {"install", "enable"}, i)
  <2>3. /\ \A k \in L : commands'[k] = commands[k + 1] /\ (Last(L, k) => Last(K, k + 1))
        /\ L = {} => K = {} \/ Last(K, 1)
    BY PopLast
  <2>4. 1 \in K <=> commands[1].op \in {"install", "enable"} /\ commands[1].id = i
    BY PopLast
  <2>5. /\ K = {} => core[i].on = list[i].on
        /\ \A k \in K : Last(K, k) => commands[k].on = list[i].on
    BY <2>2 DEF OnAgrees
  <2>6. K = {} => i \in DOMAIN core
    BY <2>2, Uninstalled
  <2> HIDE DEF K, L
  <2>70. commands[1].op = "watch" /\ n = coreNext["watch"] /\ Same(core', core, DOMAIN core \ {<<"watch", n>>})
    BY <1>8 DEF Watching, Up, Taking
  <2>7. 1 \in K => core'[i].on = commands[1].on
    BY <2>4, <2>70
  <2>71. i # <<"watch", n>>
    <3> SUFFICES ASSUME i = <<"watch", n>> PROVE FALSE
      OBVIOUS
    <3>1. i[1] = "watch" /\ i[2] = n
      OBVIOUS
    <3>2. i[2] < coreNext["watch"]
      BY <2>2, <3>1 DEF Numbers, WatchNumbers
    <3> QED BY <2>70, <3>1, <3>2, NextFields
  <2>8. 1 \notin K /\ i \in DOMAIN core => core'[i].on = core[i].on
    BY <2>70, <2>71 DEF Same
  <2>9. L = {} => core'[i].on = list[i].on
    BY <2>3, <2>5, <2>6, <2>7, <2>8 DEF Last
  <2>10. \A k \in L : Last(L, k) => commands'[k].on = list[i].on
    BY <2>3, <2>5 DEF Last
  <2> QED BY <2>1, <2>9, <2>10 DEF K, L
<1>9. ASSUME Refusing \/ Starting \/ Resuming
      PROVE  OnAgrees'
  <2> ACoreStep
    BY <1>9 DEF ACoreStep
  <2>1. UNCHANGED list
    BY CorePops
  <2> SUFFICES ASSUME NEW i \in DOMAIN list'
      PROVE  LET K == On(commands', {"install", "enable"}, i) IN
             /\ K = {} => core'[i].on = list'[i].on
             /\ \A k \in K : Last(K, k) => commands'[k].on = list'[i].on
    BY DEF OnAgrees
  <2>2. i \in DOMAIN list
    BY <2>1
  <2> DEFINE K == On(commands, {"install", "enable"}, i)
             L == On(commands', {"install", "enable"}, i)
  <2>3. /\ \A k \in L : commands'[k] = commands[k + 1] /\ (Last(L, k) => Last(K, k + 1))
        /\ L = {} => K = {} \/ Last(K, 1)
    BY PopLast
  <2>4. 1 \in K <=> commands[1].op \in {"install", "enable"} /\ commands[1].id = i
    BY PopLast
  <2>5. /\ K = {} => core[i].on = list[i].on
        /\ \A k \in K : Last(K, k) => commands[k].on = list[i].on
    BY <2>2 DEF OnAgrees
  <2>6. K = {} => i \in DOMAIN core
    BY <2>2, Uninstalled
  <2> HIDE DEF K, L
  <2>70. commands[1].op \in {"watch", "run", "resume"} /\ \A j \in DOMAIN core : core'[j].on = core[j].on
    BY <1>9 DEF Refusing, Starting, Resuming, Up, Taking, coreVars
  <2>7. 1 \in K => core'[i].on = commands[1].on
    BY <2>4, <2>70
  <2>8. 1 \notin K /\ i \in DOMAIN core => core'[i].on = core[i].on
    BY <2>70
  <2>9. L = {} => core'[i].on = list[i].on
    BY <2>3, <2>5, <2>6, <2>7, <2>8 DEF Last
  <2>10. \A k \in L : Last(L, k) => commands'[k].on = list[i].on
    BY <2>3, <2>5 DEF Last
  <2> QED BY <2>1, <2>9, <2>10 DEF K, L
<1>10. ASSUME Dropping PROVE OnAgrees'
  <2> ACoreStep
    BY <1>10 DEF ACoreStep
  <2>1. UNCHANGED list
    BY CorePops
  <2> SUFFICES ASSUME NEW i \in DOMAIN list'
      PROVE  LET K == On(commands', {"install", "enable"}, i) IN
             /\ K = {} => core'[i].on = list'[i].on
             /\ \A k \in K : Last(K, k) => commands'[k].on = list'[i].on
    BY DEF OnAgrees
  <2>2. i \in DOMAIN list
    BY <2>1
  <2> DEFINE K == On(commands, {"install", "enable"}, i)
             L == On(commands', {"install", "enable"}, i)
  <2>3. /\ \A k \in L : commands'[k] = commands[k + 1] /\ (Last(L, k) => Last(K, k + 1))
        /\ L = {} => K = {} \/ Last(K, 1)
    BY PopLast
  <2>4. 1 \in K <=> commands[1].op \in {"install", "enable"} /\ commands[1].id = i
    BY PopLast
  <2>5. /\ K = {} => core[i].on = list[i].on
        /\ \A k \in K : Last(K, k) => commands[k].on = list[i].on
    BY <2>2 DEF OnAgrees
  <2>6. K = {} => i \in DOMAIN core
    BY <2>2, Uninstalled
  <2> HIDE DEF K, L
  <2>70. commands[1].op = "remove" /\ Same(core', core, DOMAIN core \ {commands[1].id})
    BY <1>10 DEF Dropping, Up, Taking
  <2>7. 1 \in K => core'[i].on = commands[1].on
    BY <2>4, <2>70
  <2>71. i # commands[1].id
    <3>1. 1 \in Removals
      BY <2>70, CorePops DEF Removals, Kind, Shrunk
    <3> QED BY <2>2, <3>1 DEF Matched, ListKnown
  <2>8. 1 \notin K /\ i \in DOMAIN core => core'[i].on = core[i].on
    BY <2>70, <2>71 DEF Same
  <2>9. L = {} => core'[i].on = list[i].on
    BY <2>3, <2>5, <2>6, <2>7, <2>8 DEF Last
  <2>10. \A k \in L : Last(L, k) => commands'[k].on = list[i].on
    BY <2>3, <2>5 DEF Last
  <2> QED BY <2>1, <2>9, <2>10 DEF K, L
<1>11. ASSUME NEW op, Setting(op) PROVE OnAgrees'
  <2> ACoreStep
    BY <1>11 DEF ACoreStep
  <2>1. UNCHANGED list
    BY CorePops
  <2> SUFFICES ASSUME NEW i \in DOMAIN list'
      PROVE  LET K == On(commands', {"install", "enable"}, i) IN
             /\ K = {} => core'[i].on = list'[i].on
             /\ \A k \in K : Last(K, k) => commands'[k].on = list'[i].on
    BY DEF OnAgrees
  <2>2. i \in DOMAIN list
    BY <2>1
  <2> DEFINE K == On(commands, {"install", "enable"}, i)
             L == On(commands', {"install", "enable"}, i)
  <2>3. /\ \A k \in L : commands'[k] = commands[k + 1] /\ (Last(L, k) => Last(K, k + 1))
        /\ L = {} => K = {} \/ Last(K, 1)
    BY PopLast
  <2>4. 1 \in K <=> commands[1].op \in {"install", "enable"} /\ commands[1].id = i
    BY PopLast
  <2>5. /\ K = {} => core[i].on = list[i].on
        /\ \A k \in K : Last(K, k) => commands[k].on = list[i].on
    BY <2>2 DEF OnAgrees
  <2>6. K = {} => i \in DOMAIN core
    BY <2>2, Uninstalled
  <2> HIDE DEF K, L
  <2>70. commands[1].op = op /\ Same(core', core, DOMAIN core \ {commands[1].id}) /\ op # "install"
    BY <1>11 DEF Setting, Up, Taking
  <2>71. core'[commands[1].id].on = IF op = "enable" THEN commands[1].on ELSE core[commands[1].id].on
    BY <1>11 DEF Setting
  <2>7. 1 \in K => core'[i].on = commands[1].on
    BY <2>4, <2>70, <2>71
  <2>8. 1 \notin K /\ i \in DOMAIN core => core'[i].on = core[i].on
    <3>1. CASE i = commands[1].id
      BY <2>4, <2>70, <2>71, <3>1
    <3>2. CASE i # commands[1].id
      BY <2>70, <3>2 DEF Same
    <3> QED BY <3>1, <3>2
  <2>9. L = {} => core'[i].on = list[i].on
    BY <2>3, <2>5, <2>6, <2>7, <2>8 DEF Last
  <2>10. \A k \in L : Last(L, k) => commands'[k].on = list[i].on
    BY <2>3, <2>5 DEF Last
  <2> QED BY <2>1, <2>9, <2>10 DEF K, L
<1>12. ASSUME \/ Pausing
              \/ Exiting
              \/ \E i : Ignored(i)
              \/ \E i : Stopping(i)
      PROVE  OnAgrees'
  <2> AStop
    BY <1>12 DEF AStop
  <2>1. UNCHANGED <<commands, list>>
    BY StopKeeps
  <2>2. \A j \in DOMAIN core : core'[j].on = core[j].on
    <3>1. CASE Pausing \/ Exiting
      BY <3>1 DEF Pausing, Exiting
    <3>2. ASSUME NEW i, Ignored(i) \/ Stopping(i)
          PROVE  \A j \in DOMAIN core : core'[j].on = core[j].on
      <4>1. Counted(i)
        BY <3>2 DEF Ignored, Stopping
      <4>2. \A j \in DOMAIN core : j = i \/ core'[j] = core[j]
        BY <4>1 DEF Counted, Same
      <4>3. core'[i].on = core[i].on
        BY <4>1 DEF Counted
      <4> QED BY <4>2, <4>3
    <3> QED BY <1>12, <3>1, <3>2
  <2> SUFFICES ASSUME NEW i \in DOMAIN list'
      PROVE  LET K == On(commands', {"install", "enable"}, i) IN
             /\ K = {} => core'[i].on = list'[i].on
             /\ \A k \in K : Last(K, k) => commands'[k].on = list'[i].on
    BY DEF OnAgrees
  <2>3. On(commands, {"install", "enable"}, i) = {} => i \in DOMAIN core
    BY <2>1, Uninstalled
  <2> QED BY <2>1, <2>2, <2>3 DEF OnAgrees
<1>13. ASSUME \/ Outdated
              \/ Connecting
              \/ Reopening
              \/ Updating
              \/ Leaving
      PROVE  OnAgrees'
  <2> AnAnswer
    BY <1>13 DEF AnAnswer
  <2>1. UNCHANGED <<core, commands>>
    BY MainPops
  <2>2. DOMAIN list' = DOMAIN list /\ \A j \in DOMAIN list : list'[j].on = list[j].on
    BY <1>13 DEF Outdated, Connecting, Reopening, Updating, Leaving, listVars, Same
  <2> QED BY <2>1, <2>2 DEF OnAgrees
<1>14. ASSUME Listing PROVE OnAgrees'
  <2> AnAnswer
    BY <1>14 DEF AnAnswer
  <2>1. UNCHANGED <<core, commands>> /\ Shrunk(answers, answers')
    BY MainPops
  <2>2. /\ DOMAIN list' = DOMAIN list \cup {answers[1].id} /\ answers[1].op = "watched"
        /\ Same(list', list, DOMAIN list \ {answers[1].id})
    BY <1>14 DEF Listing, Hearing
  <2>3. 1 \in Watched
    BY <2>1, <2>2 DEF Watched, Kind, Shrunk
  <2>4. list'[answers[1].id].on = core[answers[1].id].on
    <3>1. list'[answers[1].id].on = TRUE
      BY <1>14 DEF Listing
    <3>2. core[answers[1].id].on = TRUE
      BY <2>3 DEF WatchesKnown, Matched
    <3> QED BY <3>1, <3>2
  <2>5. \A k \in Kind(commands, {"install", "enable"}) : commands[k].id # answers[1].id
    <3> SUFFICES ASSUME NEW k \in Kind(commands, {"install", "enable"}) PROVE commands[k].id # answers[1].id
      OBVIOUS
    <3>1. k \in Installs \/ k \in Editing
      BY DEF Installs, Editing, Kind, EditOps
    <3>2. CASE k \in Installs
      BY <2>3, <3>2, CommandIds, WatchedIds
    <3>3. CASE k \in Editing
      BY <2>3, <3>3 DEF WatchesKnown, Matched
    <3> QED BY <3>1, <3>2, <3>3
  <2> SUFFICES ASSUME NEW i \in DOMAIN list'
      PROVE  LET K == On(commands', {"install", "enable"}, i) IN
             /\ K = {} => core'[i].on = list'[i].on
             /\ \A k \in K : Last(K, k) => commands'[k].on = list'[i].on
    BY DEF OnAgrees
  <2>6. CASE i = answers[1].id
    <3>1. On(commands', {"install", "enable"}, i) = {}
      BY <2>1, <2>5, <2>6 DEF On
    <3> QED BY <2>1, <2>4, <2>6, <3>1
  <2>7. CASE i # answers[1].id
    BY <2>1, <2>2, <2>7 DEF OnAgrees, Same
  <2> QED BY <2>6, <2>7
<1>15. ASSUME \/ CancelDialog
              \/ AttachFirst
      PROVE  OnAgrees'
  <2>1. UNCHANGED <<commands, core, list>>
    BY <1>15 DEF CancelDialog, AttachFirst, listVars, coreVars, counts
  <2> QED BY <2>1 DEF OnAgrees
<1> QED BY <1>1, <1>2, <1>3, <1>4, <1>5, <1>6, <1>7, <1>8, <1>9, <1>10, <1>11, <1>12, <1>13,
          <1>14, <1>15
       DEF Step, AnEdit, ARequest, ACoreStep, AStop, AnAnswer

(* LLDB's cond is the list's, once the commands are done. *)
LEMMA CondAgreesStep ==
  ASSUME Shape,
         Phase,
         "renumber" \notin mishaps,
         coreUp,
         coreUp',
         Step,
         fault' = "none",
         Fresh,
         Numbers,
         InstallsInOrder,
         Matched,
         CondAgrees
  PROVE  CondAgrees'
<1>1. ASSUME \/ \E op : Broken(op)
             \/ \E op : NoBreakpoint(op)
             \/ \E r : Loading(r)
             \/ Ending
             \/ Load
             \/ Disconnecting
      PROVE  CondAgrees'
  <2> QED BY <1>1, Impossible
<1>2. ASSUME NEW i, NEW r, Adding(i, r) PROVE CondAgrees'
  <2> AnEdit
    BY <1>2 DEF AnEdit
  <2>9. UNCHANGED <<core, answers>> /\ HasImpl
    BY EditKeeps, UpHasImpl
  <2>1. DOMAIN list' = DOMAIN list \cup {i} /\ \A j \in DOMAIN list : list'[j] = list[j]
    BY <1>2, AddingLists
  <2>2. i = <<"code", nextNum>> /\ i \notin DOMAIN list
    BY <1>2, AddingLists
  <2>3. \A k \in Kind(commands, {"install", "condition"}) : k \in Kind(commands', {"install", "condition"}) /\ commands'[k] = commands[k]
    BY <1>2, AddKinds
  <2>4. \A k \in Kind(commands', {"install", "condition"}) : (k \in Kind(commands, {"install", "condition"}) /\ commands'[k] = commands[k]) \/ (commands'[k].id = i /\ commands'[k].cond = list'[i].cond)
    BY <1>2, AddKinds
  <2>5. \E k \in Kind(commands', {"install", "condition"}) : commands'[k].id = i
    BY <1>2, <2>9, AddKinds
  <2>6. \A k \in Kind(commands, {"install", "condition"}) : commands[k].id # i
    <3> SUFFICES ASSUME NEW k \in Kind(commands, {"install", "condition"}), commands[k].id = i PROVE FALSE
      OBVIOUS
    <3>1. k \in Installs \/ k \in Editing
      BY DEF Installs, Editing, Kind, EditOps
    <3>2. CASE k \in Installs
      BY <2>2, <3>2, NextFields DEF Fresh
    <3>3. CASE k \in Editing
      BY <2>2, <3>3, NewUnknown
    <3> QED BY <3>1, <3>2, <3>3
  <2> SUFFICES ASSUME NEW j \in DOMAIN list'
      PROVE  LET K == On(commands', {"install", "condition"}, j) IN
             /\ K = {} => core'[j].cond = list'[j].cond
             /\ \A k \in K : Last(K, k) => commands'[k].cond = list'[j].cond
    BY DEF CondAgrees
  <2>7. CASE j = i
    <3>1. \A k \in On(commands', {"install", "condition"}, i) : commands'[k].cond = list'[i].cond
      BY <2>4, <2>6 DEF On
    <3>2. On(commands', {"install", "condition"}, i) # {}
      BY <2>5 DEF On
    <3> QED BY <2>7, <3>1, <3>2
  <2>8. CASE j \in DOMAIN list
    <3>1. On(commands', {"install", "condition"}, j) = On(commands, {"install", "condition"}, j) /\ \A k \in On(commands, {"install", "condition"}, j) : commands'[k] = commands[k]
      <4>1. j # i
        BY <2>2, <2>8
      <4>2. \A k \in Kind(commands', {"install", "condition"}) : (k \in Kind(commands, {"install", "condition"}) /\ commands'[k] = commands[k])
                                          \/ commands'[k].id # j
        BY <2>4, <4>1
      <4> QED BY <2>3, <4>2, OnSame
    <3> QED BY <2>1, <2>8, <2>9, <3>1 DEF CondAgrees
  <2> QED BY <2>1, <2>7, <2>8
<1>3. ASSUME NEW S, NEW r, Removing(S, r) PROVE CondAgrees'
  <2> AnEdit
    BY <1>3 DEF AnEdit
  <2>9. UNCHANGED <<core, answers>> /\ HasImpl
    BY EditKeeps, UpHasImpl
  <2>1. DOMAIN list' = DOMAIN list \ S /\ \A j \in DOMAIN list' : list'[j] = list[j]
    BY <1>3 DEF Removing, Same
  <2>2. \A k \in Kind(commands, {"install", "condition"}) : k \in Kind(commands', {"install", "condition"}) /\ commands'[k] = commands[k]
    BY <1>3, RemoveKinds
  <2>3. \A k \in Kind(commands', {"install", "condition"}) : (k \in Kind(commands, {"install", "condition"}) /\ commands'[k] = commands[k])
    BY <1>3, RemoveKinds
  <2> SUFFICES ASSUME NEW i \in DOMAIN list'
      PROVE  LET K == On(commands', {"install", "condition"}, i) IN
             /\ K = {} => core'[i].cond = list'[i].cond
             /\ \A k \in K : Last(K, k) => commands'[k].cond = list'[i].cond
    BY DEF CondAgrees
  <2>4. On(commands', {"install", "condition"}, i) = On(commands, {"install", "condition"}, i) /\ \A k \in On(commands, {"install", "condition"}, i) : commands'[k] = commands[k]
    BY <2>2, <2>3, OnSame
  <2> QED BY <2>1, <2>4, <2>9 DEF CondAgrees
<1>4. ASSUME NEW op, NEW S, NEW r, Changing(op, S, r) PROVE CondAgrees'
  <2> AnEdit
    BY <1>4 DEF AnEdit
  <2>9. UNCHANGED <<core, answers>> /\ HasImpl
    BY EditKeeps, UpHasImpl
  <2>1. /\ DOMAIN list' = DOMAIN list /\ op # "install" /\ S \subseteq DOMAIN list
        /\ \A j \in DOMAIN list : op # "condition" \/ j \notin S => list'[j].cond = list[j].cond
    BY <1>4 DEF Changing
  <2>2. \A k \in Kind(commands, {"install", "condition"}) : k \in Kind(commands', {"install", "condition"}) /\ commands'[k] = commands[k] /\ k <= Len(commands)
    BY <1>4, ChangeKinds
  <2>3. \A k \in Kind(commands', {"install", "condition"}) :
           \/ k \in Kind(commands, {"install", "condition"}) /\ commands'[k] = commands[k] /\ k <= Len(commands)
           \/ op = "condition" /\ k > Len(commands) /\ commands'[k].id \in S
              /\ commands'[k].cond = list'[commands'[k].id].cond
    BY <1>4, <2>1, ChangeKinds
  <2>4. op = "condition" => \A i \in S : \E k \in Kind(commands', {"install", "condition"}) : k > Len(commands) /\ commands'[k].id = i
    BY <1>4, <2>9, ChangeKinds
  <2>5. Kind(commands, {"install", "condition"}) \subseteq Int /\ Kind(commands', {"install", "condition"}) \subseteq Int /\ Len(commands) \in Int
    BY <1>4, ChangeKinds
  <2> SUFFICES ASSUME NEW i \in DOMAIN list'
      PROVE  LET K == On(commands', {"install", "condition"}, i) IN
             /\ K = {} => core'[i].cond = list'[i].cond
             /\ \A k \in K : Last(K, k) => commands'[k].cond = list'[i].cond
    BY DEF CondAgrees
  <2>6. CASE op = "condition" /\ i \in S
    <3>1. PICK m \in Kind(commands', {"install", "condition"}) : m > Len(commands) /\ commands'[m].id = i
      BY <2>4, <2>6
    <3>2. m \in On(commands', {"install", "condition"}, i)
      BY <3>1 DEF On
    <3>3. ASSUME NEW k \in On(commands', {"install", "condition"}, i), Last(On(commands', {"install", "condition"}, i), k)
          PROVE  commands'[k].cond = list'[i].cond
      <4>1. k \in Kind(commands', {"install", "condition"}) /\ commands'[k].id = i
        BY DEF On
      <4>2. m <= k
        BY <3>2, <3>3 DEF Last
      <4>3. k > Len(commands) /\ ~(k <= Len(commands))
        BY <2>5, <3>1, <4>1, <4>2
      <4> QED BY <2>3, <4>1, <4>3
    <3> QED BY <3>2, <3>3
  <2>7. CASE ~(op = "condition" /\ i \in S)
    <3>1. list'[i].cond = list[i].cond
      BY <2>1, <2>7
    <3>2. \A k \in Kind(commands', {"install", "condition"}) : (k \in Kind(commands, {"install", "condition"}) /\ commands'[k] = commands[k])
                                        \/ commands'[k].id # i
      BY <2>3, <2>7
    <3>3. On(commands', {"install", "condition"}, i) = On(commands, {"install", "condition"}, i) /\ \A k \in On(commands, {"install", "condition"}, i) : commands'[k] = commands[k]
      BY <2>2, <3>2, OnSame
    <3> QED BY <2>1, <2>9, <3>1, <3>3 DEF CondAgrees
  <2> QED BY <2>6, <2>7
<1>5. ASSUME Asking \/ Continuing \/ Shutting
      PROVE  CondAgrees'
  <2>1. UNCHANGED <<list, core>>
    BY <1>5, AskingSends
  <2>2. \A k \in Kind(commands, {"install", "condition"}) : k \in Kind(commands', {"install", "condition"}) /\ commands'[k] = commands[k]
    BY <1>5, AskKinds
  <2>3. \A k \in Kind(commands', {"install", "condition"}) : (k \in Kind(commands, {"install", "condition"}) /\ commands'[k] = commands[k])
    BY <1>5, AskKinds
  <2> SUFFICES ASSUME NEW i \in DOMAIN list'
      PROVE  LET K == On(commands', {"install", "condition"}, i) IN
             /\ K = {} => core'[i].cond = list'[i].cond
             /\ \A k \in K : Last(K, k) => commands'[k].cond = list'[i].cond
    BY DEF CondAgrees
  <2>4. On(commands', {"install", "condition"}, i) = On(commands, {"install", "condition"}, i) /\ \A k \in On(commands, {"install", "condition"}, i) : commands'[k] = commands[k]
    BY <2>2, <2>3, OnSame
  <2> QED BY <2>1, <2>4 DEF CondAgrees
<1>6. ASSUME NEW r, Launching(r) PROVE CondAgrees'
  <2>1. core' = core /\ DOMAIN list' = DOMAIN list /\ \A j \in DOMAIN list : list'[j].cond = list[j].cond
    BY <1>6 DEF Launching, coreVars
  <2>2. \A k \in Kind(commands, {"install", "condition"}) : k \in Kind(commands', {"install", "condition"}) /\ commands'[k] = commands[k]
    BY <1>6, LaunchKinds
  <2>3. \A k \in Kind(commands', {"install", "condition"}) : (k \in Kind(commands, {"install", "condition"}) /\ commands'[k] = commands[k])
    BY <1>6, LaunchKinds
  <2> SUFFICES ASSUME NEW i \in DOMAIN list'
      PROVE  LET K == On(commands', {"install", "condition"}, i) IN
             /\ K = {} => core'[i].cond = list'[i].cond
             /\ \A k \in K : Last(K, k) => commands'[k].cond = list'[i].cond
    BY DEF CondAgrees
  <2>4. On(commands', {"install", "condition"}, i) = On(commands, {"install", "condition"}, i) /\ \A k \in On(commands, {"install", "condition"}, i) : commands'[k] = commands[k]
    BY <2>2, <2>3, OnSame
  <2> QED BY <2>1, <2>4 DEF CondAgrees
<1>7. ASSUME NEW n, NEW locs, Installing(n, locs) PROVE CondAgrees'
  <2> ACoreStep
    BY <1>7 DEF ACoreStep
  <2>1. UNCHANGED list
    BY CorePops
  <2> SUFFICES ASSUME NEW i \in DOMAIN list'
      PROVE  LET K == On(commands', {"install", "condition"}, i) IN
             /\ K = {} => core'[i].cond = list'[i].cond
             /\ \A k \in K : Last(K, k) => commands'[k].cond = list'[i].cond
    BY DEF CondAgrees
  <2>2. i \in DOMAIN list
    BY <2>1
  <2> DEFINE K == On(commands, {"install", "condition"}, i)
             L == On(commands', {"install", "condition"}, i)
  <2>3. /\ \A k \in L : commands'[k] = commands[k + 1] /\ (Last(L, k) => Last(K, k + 1))
        /\ L = {} => K = {} \/ Last(K, 1)
    BY PopLast
  <2>4. 1 \in K <=> commands[1].op \in {"install", "condition"} /\ commands[1].id = i
    BY PopLast
  <2>5. /\ K = {} => core[i].cond = list[i].cond
        /\ \A k \in K : Last(K, k) => commands[k].cond = list[i].cond
    BY <2>2 DEF CondAgrees
  <2>6. K = {} => i \in DOMAIN core
    BY <2>2, Uninstalled
  <2> HIDE DEF K, L
  <2>70. commands[1].id = <<"code", n>> /\ commands[1].op = "install"
    BY <1>7, InstallNumber DEF Installing, Up, Taking
  <2>71. /\ core'[commands[1].id].cond = commands[1].cond /\ Same(core', core, DOMAIN core \ {commands[1].id})
    BY <1>7, <2>70 DEF Installing
  <2>7. 1 \in K => core'[i].cond = commands[1].cond
    BY <2>4, <2>71
  <2>8. 1 \notin K /\ i \in DOMAIN core => core'[i].cond = core[i].cond
    BY <2>4, <2>70, <2>71 DEF Same
  <2>9. L = {} => core'[i].cond = list[i].cond
    BY <2>3, <2>5, <2>6, <2>7, <2>8 DEF Last
  <2>10. \A k \in L : Last(L, k) => commands'[k].cond = list[i].cond
    BY <2>3, <2>5 DEF Last
  <2> QED BY <2>1, <2>9, <2>10 DEF K, L
<1>8. ASSUME NEW n, Watching(n) PROVE CondAgrees'
  <2> ACoreStep
    BY <1>8 DEF ACoreStep
  <2>1. UNCHANGED list
    BY CorePops
  <2> SUFFICES ASSUME NEW i \in DOMAIN list'
      PROVE  LET K == On(commands', {"install", "condition"}, i) IN
             /\ K = {} => core'[i].cond = list'[i].cond
             /\ \A k \in K : Last(K, k) => commands'[k].cond = list'[i].cond
    BY DEF CondAgrees
  <2>2. i \in DOMAIN list
    BY <2>1
  <2> DEFINE K == On(commands, {"install", "condition"}, i)
             L == On(commands', {"install", "condition"}, i)
  <2>3. /\ \A k \in L : commands'[k] = commands[k + 1] /\ (Last(L, k) => Last(K, k + 1))
        /\ L = {} => K = {} \/ Last(K, 1)
    BY PopLast
  <2>4. 1 \in K <=> commands[1].op \in {"install", "condition"} /\ commands[1].id = i
    BY PopLast
  <2>5. /\ K = {} => core[i].cond = list[i].cond
        /\ \A k \in K : Last(K, k) => commands[k].cond = list[i].cond
    BY <2>2 DEF CondAgrees
  <2>6. K = {} => i \in DOMAIN core
    BY <2>2, Uninstalled
  <2> HIDE DEF K, L
  <2>70. commands[1].op = "watch" /\ n = coreNext["watch"] /\ Same(core', core, DOMAIN core \ {<<"watch", n>>})
    BY <1>8 DEF Watching, Up, Taking
  <2>7. 1 \in K => core'[i].cond = commands[1].cond
    BY <2>4, <2>70
  <2>71. i # <<"watch", n>>
    <3> SUFFICES ASSUME i = <<"watch", n>> PROVE FALSE
      OBVIOUS
    <3>1. i[1] = "watch" /\ i[2] = n
      OBVIOUS
    <3>2. i[2] < coreNext["watch"]
      BY <2>2, <3>1 DEF Numbers, WatchNumbers
    <3> QED BY <2>70, <3>1, <3>2, NextFields
  <2>8. 1 \notin K /\ i \in DOMAIN core => core'[i].cond = core[i].cond
    BY <2>70, <2>71 DEF Same
  <2>9. L = {} => core'[i].cond = list[i].cond
    BY <2>3, <2>5, <2>6, <2>7, <2>8 DEF Last
  <2>10. \A k \in L : Last(L, k) => commands'[k].cond = list[i].cond
    BY <2>3, <2>5 DEF Last
  <2> QED BY <2>1, <2>9, <2>10 DEF K, L
<1>9. ASSUME Refusing \/ Starting \/ Resuming
      PROVE  CondAgrees'
  <2> ACoreStep
    BY <1>9 DEF ACoreStep
  <2>1. UNCHANGED list
    BY CorePops
  <2> SUFFICES ASSUME NEW i \in DOMAIN list'
      PROVE  LET K == On(commands', {"install", "condition"}, i) IN
             /\ K = {} => core'[i].cond = list'[i].cond
             /\ \A k \in K : Last(K, k) => commands'[k].cond = list'[i].cond
    BY DEF CondAgrees
  <2>2. i \in DOMAIN list
    BY <2>1
  <2> DEFINE K == On(commands, {"install", "condition"}, i)
             L == On(commands', {"install", "condition"}, i)
  <2>3. /\ \A k \in L : commands'[k] = commands[k + 1] /\ (Last(L, k) => Last(K, k + 1))
        /\ L = {} => K = {} \/ Last(K, 1)
    BY PopLast
  <2>4. 1 \in K <=> commands[1].op \in {"install", "condition"} /\ commands[1].id = i
    BY PopLast
  <2>5. /\ K = {} => core[i].cond = list[i].cond
        /\ \A k \in K : Last(K, k) => commands[k].cond = list[i].cond
    BY <2>2 DEF CondAgrees
  <2>6. K = {} => i \in DOMAIN core
    BY <2>2, Uninstalled
  <2> HIDE DEF K, L
  <2>70. commands[1].op \in {"watch", "run", "resume"} /\ \A j \in DOMAIN core : core'[j].cond = core[j].cond
    BY <1>9 DEF Refusing, Starting, Resuming, Up, Taking, coreVars
  <2>7. 1 \in K => core'[i].cond = commands[1].cond
    BY <2>4, <2>70
  <2>8. 1 \notin K /\ i \in DOMAIN core => core'[i].cond = core[i].cond
    BY <2>70
  <2>9. L = {} => core'[i].cond = list[i].cond
    BY <2>3, <2>5, <2>6, <2>7, <2>8 DEF Last
  <2>10. \A k \in L : Last(L, k) => commands'[k].cond = list[i].cond
    BY <2>3, <2>5 DEF Last
  <2> QED BY <2>1, <2>9, <2>10 DEF K, L
<1>10. ASSUME Dropping PROVE CondAgrees'
  <2> ACoreStep
    BY <1>10 DEF ACoreStep
  <2>1. UNCHANGED list
    BY CorePops
  <2> SUFFICES ASSUME NEW i \in DOMAIN list'
      PROVE  LET K == On(commands', {"install", "condition"}, i) IN
             /\ K = {} => core'[i].cond = list'[i].cond
             /\ \A k \in K : Last(K, k) => commands'[k].cond = list'[i].cond
    BY DEF CondAgrees
  <2>2. i \in DOMAIN list
    BY <2>1
  <2> DEFINE K == On(commands, {"install", "condition"}, i)
             L == On(commands', {"install", "condition"}, i)
  <2>3. /\ \A k \in L : commands'[k] = commands[k + 1] /\ (Last(L, k) => Last(K, k + 1))
        /\ L = {} => K = {} \/ Last(K, 1)
    BY PopLast
  <2>4. 1 \in K <=> commands[1].op \in {"install", "condition"} /\ commands[1].id = i
    BY PopLast
  <2>5. /\ K = {} => core[i].cond = list[i].cond
        /\ \A k \in K : Last(K, k) => commands[k].cond = list[i].cond
    BY <2>2 DEF CondAgrees
  <2>6. K = {} => i \in DOMAIN core
    BY <2>2, Uninstalled
  <2> HIDE DEF K, L
  <2>70. commands[1].op = "remove" /\ Same(core', core, DOMAIN core \ {commands[1].id})
    BY <1>10 DEF Dropping, Up, Taking
  <2>7. 1 \in K => core'[i].cond = commands[1].cond
    BY <2>4, <2>70
  <2>71. i # commands[1].id
    <3>1. 1 \in Removals
      BY <2>70, CorePops DEF Removals, Kind, Shrunk
    <3> QED BY <2>2, <3>1 DEF Matched, ListKnown
  <2>8. 1 \notin K /\ i \in DOMAIN core => core'[i].cond = core[i].cond
    BY <2>70, <2>71 DEF Same
  <2>9. L = {} => core'[i].cond = list[i].cond
    BY <2>3, <2>5, <2>6, <2>7, <2>8 DEF Last
  <2>10. \A k \in L : Last(L, k) => commands'[k].cond = list[i].cond
    BY <2>3, <2>5 DEF Last
  <2> QED BY <2>1, <2>9, <2>10 DEF K, L
<1>11. ASSUME NEW op, Setting(op) PROVE CondAgrees'
  <2> ACoreStep
    BY <1>11 DEF ACoreStep
  <2>1. UNCHANGED list
    BY CorePops
  <2> SUFFICES ASSUME NEW i \in DOMAIN list'
      PROVE  LET K == On(commands', {"install", "condition"}, i) IN
             /\ K = {} => core'[i].cond = list'[i].cond
             /\ \A k \in K : Last(K, k) => commands'[k].cond = list'[i].cond
    BY DEF CondAgrees
  <2>2. i \in DOMAIN list
    BY <2>1
  <2> DEFINE K == On(commands, {"install", "condition"}, i)
             L == On(commands', {"install", "condition"}, i)
  <2>3. /\ \A k \in L : commands'[k] = commands[k + 1] /\ (Last(L, k) => Last(K, k + 1))
        /\ L = {} => K = {} \/ Last(K, 1)
    BY PopLast
  <2>4. 1 \in K <=> commands[1].op \in {"install", "condition"} /\ commands[1].id = i
    BY PopLast
  <2>5. /\ K = {} => core[i].cond = list[i].cond
        /\ \A k \in K : Last(K, k) => commands[k].cond = list[i].cond
    BY <2>2 DEF CondAgrees
  <2>6. K = {} => i \in DOMAIN core
    BY <2>2, Uninstalled
  <2> HIDE DEF K, L
  <2>70. commands[1].op = op /\ Same(core', core, DOMAIN core \ {commands[1].id}) /\ op # "install"
    BY <1>11 DEF Setting, Up, Taking
  <2>71. core'[commands[1].id].cond = IF op = "condition" THEN commands[1].cond ELSE core[commands[1].id].cond
    BY <1>11 DEF Setting
  <2>7. 1 \in K => core'[i].cond = commands[1].cond
    BY <2>4, <2>70, <2>71
  <2>8. 1 \notin K /\ i \in DOMAIN core => core'[i].cond = core[i].cond
    <3>1. CASE i = commands[1].id
      BY <2>4, <2>70, <2>71, <3>1
    <3>2. CASE i # commands[1].id
      BY <2>70, <3>2 DEF Same
    <3> QED BY <3>1, <3>2
  <2>9. L = {} => core'[i].cond = list[i].cond
    BY <2>3, <2>5, <2>6, <2>7, <2>8 DEF Last
  <2>10. \A k \in L : Last(L, k) => commands'[k].cond = list[i].cond
    BY <2>3, <2>5 DEF Last
  <2> QED BY <2>1, <2>9, <2>10 DEF K, L
<1>12. ASSUME \/ Pausing
              \/ Exiting
              \/ \E i : Ignored(i)
              \/ \E i : Stopping(i)
      PROVE  CondAgrees'
  <2> AStop
    BY <1>12 DEF AStop
  <2>1. UNCHANGED <<commands, list>>
    BY StopKeeps
  <2>2. \A j \in DOMAIN core : core'[j].cond = core[j].cond
    <3>1. CASE Pausing \/ Exiting
      BY <3>1 DEF Pausing, Exiting
    <3>2. ASSUME NEW i, Ignored(i) \/ Stopping(i)
          PROVE  \A j \in DOMAIN core : core'[j].cond = core[j].cond
      <4>1. Counted(i)
        BY <3>2 DEF Ignored, Stopping
      <4>2. \A j \in DOMAIN core : j = i \/ core'[j] = core[j]
        BY <4>1 DEF Counted, Same
      <4>3. core'[i].cond = core[i].cond
        BY <4>1 DEF Counted
      <4> QED BY <4>2, <4>3
    <3> QED BY <1>12, <3>1, <3>2
  <2> SUFFICES ASSUME NEW i \in DOMAIN list'
      PROVE  LET K == On(commands', {"install", "condition"}, i) IN
             /\ K = {} => core'[i].cond = list'[i].cond
             /\ \A k \in K : Last(K, k) => commands'[k].cond = list'[i].cond
    BY DEF CondAgrees
  <2>3. On(commands, {"install", "condition"}, i) = {} => i \in DOMAIN core
    BY <2>1, Uninstalled
  <2> QED BY <2>1, <2>2, <2>3 DEF CondAgrees
<1>13. ASSUME \/ Outdated
              \/ Connecting
              \/ Reopening
              \/ Updating
              \/ Leaving
      PROVE  CondAgrees'
  <2> AnAnswer
    BY <1>13 DEF AnAnswer
  <2>1. UNCHANGED <<core, commands>>
    BY MainPops
  <2>2. DOMAIN list' = DOMAIN list /\ \A j \in DOMAIN list : list'[j].cond = list[j].cond
    BY <1>13 DEF Outdated, Connecting, Reopening, Updating, Leaving, listVars, Same
  <2> QED BY <2>1, <2>2 DEF CondAgrees
<1>14. ASSUME Listing PROVE CondAgrees'
  <2> AnAnswer
    BY <1>14 DEF AnAnswer
  <2>1. UNCHANGED <<core, commands>> /\ Shrunk(answers, answers')
    BY MainPops
  <2>2. /\ DOMAIN list' = DOMAIN list \cup {answers[1].id} /\ answers[1].op = "watched"
        /\ Same(list', list, DOMAIN list \ {answers[1].id})
    BY <1>14 DEF Listing, Hearing
  <2>3. 1 \in Watched
    BY <2>1, <2>2 DEF Watched, Kind, Shrunk
  <2>4. list'[answers[1].id].cond = core[answers[1].id].cond
    <3>1. list'[answers[1].id].cond = FALSE
      BY <1>14 DEF Listing
    <3>2. core[answers[1].id].cond = FALSE
      BY <2>3 DEF WatchesKnown, Matched
    <3> QED BY <3>1, <3>2
  <2>5. \A k \in Kind(commands, {"install", "condition"}) : commands[k].id # answers[1].id
    <3> SUFFICES ASSUME NEW k \in Kind(commands, {"install", "condition"}) PROVE commands[k].id # answers[1].id
      OBVIOUS
    <3>1. k \in Installs \/ k \in Editing
      BY DEF Installs, Editing, Kind, EditOps
    <3>2. CASE k \in Installs
      BY <2>3, <3>2, CommandIds, WatchedIds
    <3>3. CASE k \in Editing
      BY <2>3, <3>3 DEF WatchesKnown, Matched
    <3> QED BY <3>1, <3>2, <3>3
  <2> SUFFICES ASSUME NEW i \in DOMAIN list'
      PROVE  LET K == On(commands', {"install", "condition"}, i) IN
             /\ K = {} => core'[i].cond = list'[i].cond
             /\ \A k \in K : Last(K, k) => commands'[k].cond = list'[i].cond
    BY DEF CondAgrees
  <2>6. CASE i = answers[1].id
    <3>1. On(commands', {"install", "condition"}, i) = {}
      BY <2>1, <2>5, <2>6 DEF On
    <3> QED BY <2>1, <2>4, <2>6, <3>1
  <2>7. CASE i # answers[1].id
    BY <2>1, <2>2, <2>7 DEF CondAgrees, Same
  <2> QED BY <2>6, <2>7
<1>15. ASSUME \/ CancelDialog
              \/ AttachFirst
      PROVE  CondAgrees'
  <2>1. UNCHANGED <<commands, core, list>>
    BY <1>15 DEF CancelDialog, AttachFirst, listVars, coreVars, counts
  <2> QED BY <2>1 DEF CondAgrees
<1> QED BY <1>1, <1>2, <1>3, <1>4, <1>5, <1>6, <1>7, <1>8, <1>9, <1>10, <1>11, <1>12, <1>13,
          <1>14, <1>15
       DEF Step, AnEdit, ARequest, ACoreStep, AStop, AnAnswer

-----------------------------------------------------------------------------
(* What happens when the program runs and stops                            *)

(* The answers of a kind when the main thread takes one. *)
LEMMA AnswerKinds ==
  ASSUME AnAnswer, NEW ops
  PROVE  /\ Kind(answers, ops) \subseteq Int /\ Kind(answers', ops) \subseteq Int
         /\ \A k \in Kind(answers', ops) : k + 1 \in Kind(answers, ops) /\ answers'[k] = answers[k + 1] /\ k >= 1
         /\ \A k \in Kind(answers, ops) :
              k = 1 \/ (k - 1 \in Kind(answers', ops) /\ answers'[k - 1] = answers[k] /\ k > 1)
         /\ answers[1].op \in ops <=> 1 \in Kind(answers, ops)
<1>1. Shrunk(answers, answers')
  BY MainPops
<1> QED BY <1>1, KindShrunk

(* A run starts when nothing else of it is on its way. *)
LEMMA RunStarts ==
  ASSUME Phase, Starting \/ Resuming
  PROVE  /\ 1 \in Resumes /\ Resumes' = {} /\ Ends = {} /\ ~moving /\ target = "running"
         /\ \A k \in Resumes : k = 1
         /\ moving' = TRUE /\ UNCHANGED <<list, target, answers>> /\ commands[1].op \in {"run", "resume"}
<1>1. /\ Shrunk(commands, commands') /\ commands[1].op \in {"run", "resume"} /\ moving' = TRUE
      /\ UNCHANGED <<list, target, answers>>
  BY DEF Starting, Resuming, Up, Taking, listVars
<1>2. 1 \in Resumes
  BY <1>1, KindShrunk DEF Resumes
<1>3. \A k \in Resumes : k = 1
  BY <1>2 DEF Phase, Unique
<1>4. \A k \in Resumes' : k + 1 \in Resumes /\ k >= 1 /\ k \in Int
  BY <1>1, KindShrunk DEF Resumes
<1>5. Resumes' = {}
  BY <1>3, <1>4
<1>6. Ends = {} /\ ~moving /\ target = "running"
  BY <1>2 DEF Phase
<1> QED BY <1>1, <1>2, <1>3, <1>5, <1>6

(* What runs does not start again. *)
LEMMA WhileRunning ==
  ASSUME Phase, AStop
  PROVE  /\ moving /\ Resumes = {} /\ Ends = {} /\ Stops = {} /\ target = "running"
         /\ Resumes' = {} /\ target' = "running" /\ UNCHANGED <<list, commands, coreNext, mishaps>>
<1>1. moving /\ UNCHANGED <<list, target, commands, coreNext, mishaps>>
  BY StopKeeps
<1>2. Resumes = {} /\ Ends = {} /\ target = "running"
  BY <1>1 DEF Phase
<1>3. Stops = {}
  BY <1>2 DEF Stops, Ends, Kind
<1> QED BY <1>1, <1>2, <1>3 DEF Resumes

(* The end of a run is heard once. *)
LEMMA RunEnds ==
  ASSUME Phase, Updating \/ Leaving
  PROVE  /\ 1 \in Ends /\ Ends' = {} /\ Stops' = {} /\ Resumes = {} /\ ~moving /\ target = "running"
         /\ UNCHANGED <<core, commands, moving, mishaps, coreNext>> /\ Resumes' = {}
<1>1. AnAnswer /\ answers[1].op \in {"stopped", "exited"}
  BY DEF AnAnswer, Updating, Leaving, Hearing
<1>2. UNCHANGED <<core, commands, moving, mishaps, coreNext>>
  BY <1>1, MainPops
<1>3. 1 \in Ends
  BY <1>1, AnswerKinds DEF Ends
<1>4. \A k \in Ends' : k + 1 \in Ends /\ k >= 1 /\ k \in Int
  BY <1>1, AnswerKinds DEF Ends
<1>5. Ends' = {}
  BY <1>3, <1>4 DEF Phase, Unique
<1>6. Stops' = {}
  BY <1>5 DEF Stops, Ends, Kind
<1>7. Resumes = {} /\ ~moving /\ target = "running"
  BY <1>3 DEF Phase
<1> QED BY <1>2, <1>3, <1>5, <1>6, <1>7 DEF Resumes

(* Answers to commands are no stops. *)
LEMMA CoreAnswers ==
  ASSUME \/ \E n, locs : Installing(n, locs)
         \/ \E n : Watching(n)
         \/ Refusing
         \/ \E op : Setting(op)
         \/ Starting \/ Resuming \/ Dropping,
         NEW ops, ops \cap {"installed", "watched", "refused"} = {}
  PROVE  Kind(answers', ops) = Kind(answers, ops) /\ \A k \in Kind(answers, ops) : answers'[k] = answers[k]
<1>1. CASE \E op, id, num, locs : Telling([op |-> "installed", id |-> id, num |-> num, locs |-> locs])
  <2>1. PICK op, id, num, locs : Telling([op |-> "installed", id |-> id, num |-> num, locs |-> locs])
    BY <1>1
  <2>2. [op |-> "installed", id |-> id, num |-> num, locs |-> locs].op \notin ops
    OBVIOUS
  <2> QED BY <2>1, <2>2, TellingKinds
<1>2. CASE \E id : Telling([op |-> "watched", id |-> id])
  <2>1. PICK id : Telling([op |-> "watched", id |-> id])
    BY <1>2
  <2>2. [op |-> "watched", id |-> id].op \notin ops
    OBVIOUS
  <2> QED BY <2>1, <2>2, TellingKinds
<1>3. CASE Telling([op |-> "refused"])
  <2>1. [op |-> "refused"].op \notin ops
    OBVIOUS
  <2> QED BY <1>3, <2>1, TellingKinds
<1>4. CASE UNCHANGED answers
  BY <1>4
<1> QED BY <1>1, <1>2, <1>3, <1>4 DEF Installing, Watching, Refusing, Setting, Starting, Resuming, Dropping

(* Other commands leave what is on its way for the run as it is. *)
LEMMA RunWaits ==
  ASSUME Phase,
         \/ \E n, locs : Installing(n, locs)
         \/ \E n : Watching(n)
         \/ Refusing
         \/ \E op : Setting(op)
         \/ Dropping
  PROVE  /\ \A k \in Resumes : k - 1 \in Resumes' /\ commands'[k - 1] = commands[k]
         /\ \A k \in Resumes' : k + 1 \in Resumes /\ commands'[k] = commands[k + 1]
         /\ Resumes \subseteq Int /\ Resumes' \subseteq Int
         /\ Ends' = Ends /\ Stops' = Stops /\ \A k \in Stops : answers'[k] = answers[k]
         /\ UNCHANGED <<list, target, moving, mishaps>>
<1>1. ACoreStep /\ commands[1].op \notin {"run", "resume"} /\ UNCHANGED <<list, target, moving, mishaps>>
  BY DEF ACoreStep, Installing, Watching, Refusing, Setting, Dropping, Up, Taking, listVars, coreVars
<1>2. /\ Resumes \subseteq Int /\ Resumes' \subseteq Int
      /\ \A k \in Resumes : k - 1 \in Resumes' /\ commands'[k - 1] = commands[k]
      /\ \A k \in Resumes' : k + 1 \in Resumes /\ commands'[k] = commands[k + 1]
  <2>1. Shrunk(commands, commands')
    BY <1>1, CorePops
  <2>2. commands[1].op \notin {"run", "resume"}
    BY <1>1
  <2> QED BY <2>1, <2>2, KindPops DEF Resumes
<1>3. Ends' = Ends
  BY CoreAnswers DEF Ends
<1>4. Stops' = Stops /\ \A k \in Stops : answers'[k] = answers[k]
  BY CoreAnswers DEF Stops
<1> QED BY <1>1, <1>2, <1>3, <1>4

(* No watchpoint is set while the program runs. *)
LEMMA AskedStillStep ==
  ASSUME Shape,
         Phase,
         "renumber" \notin mishaps,
         coreUp,
         coreUp',
         Step,
         fault' = "none",
         Fresh,
         Numbers,
         InstallsInOrder,
         Matched,
         AskedStill
  PROVE  AskedStill'
<1>1. ASSUME \/ \E op : Broken(op)
             \/ \E op : NoBreakpoint(op)
             \/ \E r : Loading(r)
             \/ Ending
             \/ Load
             \/ Disconnecting
      PROVE  AskedStill'
  <2> QED BY <1>1, Impossible
<1>2. ASSUME (\E i, r : Adding(i, r)) \/ (\E S, r : Removing(S, r)) \/ (\E op, S, r : Changing(op, S, r))
      PROVE  AskedStill'
  <2> AnEdit
    BY <1>2 DEF AnEdit
  <2>1. UNCHANGED <<answers, moving>>
    BY EditKeeps
  <2>2. Asked' = Asked /\ Resumes' = Resumes
    BY EditKinds DEF Asked, Resumes, EditOps
  <2> QED BY <2>1, <2>2 DEF AskedStill, Ends, Watched
<1>3. ASSUME Asking PROVE AskedStill'
  <2>1. target = "stopped" /\ UNCHANGED <<answers, moving>>
    BY <1>3, AskingSends DEF Asking, AddWatchpoint
  <2>2. Resumes = {} /\ ~moving /\ Ends = {}
    BY <2>1 DEF Phase
  <2>3. Resumes' = Resumes
    BY <1>3, KindSame DEF Asking, Plain, Resumes
  <2> QED BY <2>1, <2>2, <2>3 DEF AskedStill, Ends, Watched
<1>4. ASSUME Continuing PROVE AskedStill'
  <2>1. UNCHANGED <<answers, moving>> /\ Added(commands, Plain("resume"), commands') /\ target = "stopped"
    BY <1>4, AskingSends DEF Continuing, Continue
  <2>2. Asked' = Asked
    BY <2>1, KindSame DEF Plain, Asked
  <2>3. \A k \in Asked : k <= Len(commands) /\ k \in Int
    BY <2>1, KindAdded DEF Asked
  <2>4. \A k \in Resumes' : k \in Resumes \/ k = Len(commands) + 1
    BY <2>1, KindAdded DEF Resumes
  <2>5. Resumes = {} /\ Len(commands) \in Int
    BY <2>1 DEF Phase, Added
  <2> QED BY <2>1, <2>2, <2>3, <2>4, <2>5 DEF AskedStill, Ends, Watched
<1>5. ASSUME Shutting PROVE AskedStill'
  <2>1. UNCHANGED <<answers, moving>> /\ Added(commands, Plain("close"), commands')
    BY <1>5, AskingSends DEF Shutting
  <2>2. Asked' = Asked /\ Resumes' = Resumes
    BY <2>1, KindSame DEF Plain, Asked, Resumes
  <2> QED BY <2>1, <2>2 DEF AskedStill, Ends, Watched
<1>6. ASSUME NEW r, Launching(r) PROVE AskedStill'
  <2>1. UNCHANGED <<answers, moving>> /\ target = "loaded"
    BY <1>6 DEF Launching, coreVars
  <2>2. Resumes = {}
    BY <2>1 DEF Phase
  <2>3. \A k \in Asked' : k \in Asked /\ k <= Len(commands) /\ k \in Int
    BY <1>6, LaunchKinds DEF Asked
  <2>4. \A k \in Resumes' : k \in Resumes \/ k = Len(commands')
    BY <1>6, LaunchKinds DEF Resumes
  <2>5. Len(commands) \in Int /\ Len(commands') \in Int /\ Len(commands) < Len(commands')
    BY <1>6, LaunchKinds
  <2> QED BY <2>1, <2>2, <2>3, <2>4, <2>5 DEF AskedStill, Ends, Watched
<1>7. ASSUME Starting \/ Resuming
      PROVE  AskedStill'
  <2> ACoreStep
    BY <1>7 DEF ACoreStep
  <2>1. 1 \in Resumes /\ Resumes' = {} /\ Ends = {} /\ UNCHANGED answers
    BY <1>7, RunStarts
  <2>2. \A k \in Asked : k < 1
    BY <2>1 DEF AskedStill
  <2>3. \A k \in Asked' : k + 1 \in Asked /\ k >= 1 /\ k \in Int
    BY CoreKinds DEF Asked
  <2>4. Asked' = {}
    BY <2>2, <2>3
  <2> QED BY <2>1, <2>4 DEF AskedStill, Ends, Watched
<1>8. ASSUME \/ \E n, locs : Installing(n, locs)
             \/ Refusing
             \/ \E op : Setting(op)
             \/ Dropping
      PROVE  AskedStill'
  <2> ACoreStep
    BY <1>8 DEF ACoreStep
  <2>1. /\ \A k \in Resumes' : k + 1 \in Resumes /\ k \in Int
        /\ Ends' = Ends /\ moving' = moving
    BY <1>8, RunWaits
  <2>2. Watched' = Watched
    BY <1>8, WatchedKept
  <2>3. \A k \in Asked' : k + 1 \in Asked /\ k \in Int
    BY CoreKinds DEF Asked
  <2> QED BY <2>1, <2>2, <2>3 DEF AskedStill
<1>9. ASSUME NEW n, Watching(n) PROVE AskedStill'
  <2> ACoreStep
    BY <1>9 DEF ACoreStep
  <2>1. /\ \A k \in Resumes' : k + 1 \in Resumes /\ k \in Int
        /\ Ends' = Ends /\ moving' = moving
    BY <1>9, RunWaits
  <2>2. 1 \in Asked
    <3>1. commands[1].op = "watch"
      BY <1>9 DEF Watching, Up, Taking
    <3> QED BY <3>1, CorePops, KindShrunk DEF Asked
  <2>3. \A k \in Asked' : k + 1 \in Asked /\ k \in Int
    BY CoreKinds DEF Asked
  <2> QED BY <2>1, <2>2, <2>3 DEF AskedStill
<1>10. ASSUME \/ Pausing
              \/ Exiting
              \/ \E i : Ignored(i)
              \/ \E i : Stopping(i)
      PROVE  AskedStill'
  <2> AStop
    BY <1>10 DEF AStop
  <2>1. moving /\ Resumes' = {} /\ Ends = {} /\ UNCHANGED commands
    BY WhileRunning
  <2>2. Asked' = {}
    BY <2>1 DEF AskedStill, Asked
  <2>3. Watched' = Watched
    BY <1>10, WatchedKept
  <2>4. \A k \in Watched, j \in Ends' : k < j
    <3>1. CASE \E i : Ignored(i)
      <4>1. Ends' = Ends
        BY <3>1 DEF Ignored, Ends
      <4> QED BY <2>1, <4>1
    <3>2. CASE Pausing \/ Exiting \/ \E i : Stopping(i)
      <4>1. \E a : Telling(a)
        BY <3>2 DEF Pausing, Exiting, Stopping
      <4>2. PICK a : Telling(a)
        BY <4>1
      <4>3. Added(answers, a, answers')
        BY <4>2 DEF Telling
      <4>4. \A j \in Ends' : j \in Ends \/ j = Len(answers) + 1
        BY <4>3, KindAdded DEF Ends
      <4>5. \A k \in Watched : k <= Len(answers) /\ k \in Int /\ Len(answers) \in Int
        BY <4>3, KindAdded DEF Watched
      <4> QED BY <2>1, <4>4, <4>5
    <3> QED BY <1>10, <3>1, <3>2
  <2> QED BY <2>1, <2>2, <2>3, <2>4 DEF AskedStill
<1>11. ASSUME \/ Outdated
              \/ Connecting
              \/ Reopening
              \/ Updating
              \/ Leaving
              \/ Listing
      PROVE  AskedStill'
  <2> AnAnswer
    BY <1>11 DEF AnAnswer
  <2>1. UNCHANGED <<commands, moving>>
    BY MainPops
  <2>2. \A k \in Watched' : k + 1 \in Watched /\ k \in Int
    BY AnswerKinds DEF Watched
  <2>3. \A k \in Ends' : k + 1 \in Ends /\ k \in Int
    BY AnswerKinds DEF Ends
  <2>4. Asked' = Asked /\ Resumes' = Resumes
    BY <2>1 DEF Asked, Resumes
  <2> QED BY <2>1, <2>2, <2>3, <2>4 DEF AskedStill
<1>12. ASSUME \/ CancelDialog
              \/ AttachFirst
      PROVE  AskedStill'
  <2>1. UNCHANGED <<commands, moving, answers>>
    BY <1>12 DEF CancelDialog, AttachFirst, listVars, coreVars, counts
  <2> QED BY <2>1 DEF AskedStill, Asked, Resumes, Ends, Watched
<1> QED BY <1>1, <1>2, <1>3, <1>4, <1>5, <1>6, <1>7, <1>8, <1>9, <1>10, <1>11, <1>12
       DEF Step, AnEdit, ARequest, ACoreStep, AStop, AnAnswer

(* No watchpoint is removed while the program runs, if that is not to go wrong. *)
LEMMA RemovedStillStep ==
  ASSUME Shape,
         Phase,
         "renumber" \notin mishaps,
         coreUp,
         coreUp',
         Step,
         fault' = "none",
         Fresh,
         Numbers,
         InstallsInOrder,
         Matched,
         "removeWatch" \notin mishaps,
         RemovedStill
  PROVE  RemovedStill'
<1>1. ASSUME \/ \E op : Broken(op)
             \/ \E op : NoBreakpoint(op)
             \/ \E r : Loading(r)
             \/ Ending
      PROVE  RemovedStill'
  <2> QED BY <1>1, Impossible
<1>2. ASSUME (\E i, r : Adding(i, r)) \/ (\E op, S, r : Changing(op, S, r))
      PROVE  RemovedStill'
  <2> AnEdit
    BY <1>2 DEF AnEdit
  <2>1. UNCHANGED moving
    BY EditKeeps
  <2>2. Resumes' = Resumes
    BY EditKinds DEF Resumes, EditOps
  <2>3. \A k \in Removals' : k \in Removals /\ commands'[k] = commands[k]
    <3>1. ASSUME NEW i, NEW r, Adding(i, r)
          PROVE  \A k \in Removals' : k \in Removals /\ commands'[k] = commands[k]
      BY <3>1, AddKinds DEF Removals
    <3>2. ASSUME NEW op, NEW S, NEW r, Changing(op, S, r)
          PROVE  \A k \in Removals' : k \in Removals /\ commands'[k] = commands[k]
      <4>1. op # "remove"
        BY <3>2 DEF Changing
      <4> QED BY <3>2, <4>1, ChangeKinds DEF Removals
    <3> QED BY <1>2, <3>1, <3>2
  <2> QED BY <2>1, <2>2, <2>3 DEF RemovedStill
<1>3. ASSUME NEW S, NEW r, Removing(S, r) PROVE RemovedStill'
  <2> AnEdit
    BY <1>3 DEF AnEdit
  <2>1. UNCHANGED moving
    BY EditKeeps
  <2>2. Resumes' = Resumes
    BY EditKinds DEF Resumes, EditOps
  <2>3. \A k \in Removals' : (k \in Removals /\ commands'[k] = commands[k]) \/ commands'[k].id \in S
    BY <1>3, RemoveKinds DEF Removals
  <2>4. target = "running" => \A i \in S : i[1] = "code"
    <3>1. target = "running" => S = Codes(S)
      BY <1>3 DEF Removing
    <3> QED BY <3>1 DEF Codes
  <2>5. target # "running" => Resumes = {} /\ ~moving
    BY DEF Phase
  <2> QED BY <2>1, <2>2, <2>3, <2>4, <2>5 DEF RemovedStill
<1>4. ASSUME Asking \/ Shutting
      PROVE  RemovedStill'
  <2>1. UNCHANGED moving
    BY <1>4, AskingSends
  <2>2. Removals' = Removals /\ \A k \in Removals : commands'[k] = commands[k]
    BY <1>4, AskKinds DEF Removals
  <2>3. Resumes' = Resumes
    BY <1>4, KindSame DEF Asking, Shutting, Plain, Resumes
  <2> QED BY <2>1, <2>2, <2>3 DEF RemovedStill
<1>5. ASSUME Continuing PROVE RemovedStill'
  <2>1. UNCHANGED moving /\ Added(commands, Plain("resume"), commands') /\ target = "stopped"
    BY <1>5, AskingSends DEF Continuing, Continue
  <2>2. Removals' = Removals /\ \A k \in Removals : commands'[k] = commands[k]
    BY <1>5, AskKinds DEF Removals
  <2>3. \A k \in Removals : k <= Len(commands) /\ k \in Int
    BY <2>1, KindAdded DEF Removals
  <2>4. \A k \in Resumes' : k \in Resumes \/ k = Len(commands) + 1
    BY <2>1, KindAdded DEF Resumes
  <2>5. Resumes = {} /\ Len(commands) \in Int
    BY <2>1 DEF Phase, Added
  <2> QED BY <2>1, <2>2, <2>3, <2>4, <2>5 DEF RemovedStill
<1>6. ASSUME NEW r, Launching(r) PROVE RemovedStill'
  <2>1. UNCHANGED moving /\ target = "loaded"
    BY <1>6 DEF Launching, coreVars
  <2>2. Resumes = {}
    BY <2>1 DEF Phase
  <2>3. \A k \in Removals' : k \in Removals /\ commands'[k] = commands[k] /\ k <= Len(commands) /\ k \in Int
    BY <1>6, LaunchKinds DEF Removals
  <2>4. \A k \in Resumes' : k \in Resumes \/ k = Len(commands')
    BY <1>6, LaunchKinds DEF Resumes
  <2>5. Len(commands) \in Int /\ Len(commands') \in Int /\ Len(commands) < Len(commands')
    BY <1>6, LaunchKinds
  <2> QED BY <2>1, <2>2, <2>3, <2>4, <2>5 DEF RemovedStill
<1>7. ASSUME Starting \/ Resuming
      PROVE  RemovedStill'
  <2> ACoreStep
    BY <1>7 DEF ACoreStep
  <2>1. 1 \in Resumes
    BY <1>7, RunStarts
  <2>2. \A k \in Removals : commands[k].id[1] = "watch" => k < 1
    BY <2>1 DEF RemovedStill
  <2>3. \A k \in Removals' : k + 1 \in Removals /\ k >= 1 /\ k \in Int /\ commands'[k] = commands[k + 1]
    BY CoreKinds DEF Removals
  <2>4. \A k \in Removals' : commands'[k].id[1] # "watch"
    BY <2>2, <2>3
  <2> QED BY <2>4 DEF RemovedStill
<1>8. ASSUME \/ \E n, locs : Installing(n, locs)
             \/ \E n : Watching(n)
             \/ Refusing
             \/ \E op : Setting(op)
             \/ Dropping
      PROVE  RemovedStill'
  <2> ACoreStep
    BY <1>8 DEF ACoreStep
  <2>1. /\ \A k \in Resumes' : k + 1 \in Resumes /\ k \in Int
        /\ moving' = moving
    BY <1>8, RunWaits
  <2>3. \A k \in Removals' : k + 1 \in Removals /\ k \in Int /\ commands'[k] = commands[k + 1]
    BY CoreKinds DEF Removals
  <2> QED BY <2>1, <2>3 DEF RemovedStill
<1>9. ASSUME \/ Pausing
             \/ Exiting
             \/ \E i : Stopping(i)
             \/ \E i : Ignored(i)
      PROVE  RemovedStill'
  <2> AStop
    BY <1>9 DEF AStop
  <2>1. moving /\ Resumes' = {} /\ UNCHANGED commands
    BY WhileRunning
  <2> QED BY <2>1 DEF RemovedStill, Removals
<1>10. ASSUME \/ CancelDialog
              \/ Load
              \/ AttachFirst
      PROVE  RemovedStill'
  <2>1. UNCHANGED <<commands, moving>>
    BY <1>10 DEF CancelDialog, Load, AttachFirst, listVars, coreVars, counts
  <2> QED BY <2>1 DEF RemovedStill, Removals, Resumes
<1>11. ASSUME AnAnswer PROVE RemovedStill'
  <2>1. UNCHANGED <<commands, moving>>
    BY <1>11 DEF AnAnswer, Outdated, Hearing, Connecting, Listing, Reopening, Updating, Leaving,
       Disconnecting, listVars, coreVars, counts
  <2> QED BY <2>1 DEF RemovedStill, Removals, Resumes
<1> QED BY <1>1, <1>2, <1>3, <1>4, <1>5, <1>6, <1>7, <1>8, <1>9, <1>10, <1>11
       DEF Step, AnEdit, ARequest, ACoreStep, AStop, AnAnswer

(* The watchpoint that stops the program is listed when that is heard, if that is not to go wrong. *)
LEMMA StopsListedStep ==
  ASSUME Shape,
         Phase,
         "renumber" \notin mishaps,
         coreUp,
         coreUp',
         Step,
         fault' = "none",
         Fresh,
         Numbers,
         InstallsInOrder,
         Matched,
         "removeWatch" \notin mishaps,
         RemovedStill,
         StopsListed
  PROVE  StopsListed'
<1>1. ASSUME \/ \E op : Broken(op)
             \/ \E op : NoBreakpoint(op)
             \/ \E r : Loading(r)
             \/ Ending
             \/ Load
             \/ Disconnecting
      PROVE  StopsListed'
  <2> QED BY <1>1, Impossible
<1>2. ASSUME (\E i, r : Adding(i, r)) \/ (\E op, S, r : Changing(op, S, r))
      PROVE  StopsListed'
  <2> AnEdit
    BY <1>2 DEF AnEdit
  <2>1. UNCHANGED answers
    BY EditKeeps
  <2>2. DOMAIN list \subseteq DOMAIN list'
    BY <1>2 DEF Adding, Changing
  <2> QED BY <2>1, <2>2 DEF StopsListed, Stops, Watched
<1>3. ASSUME NEW S, NEW r, Removing(S, r) PROVE StopsListed'
  <2> AnEdit
    BY <1>3 DEF AnEdit
  <2>1. UNCHANGED answers
    BY EditKeeps
  <2>2. DOMAIN list' = DOMAIN list \ S
    BY <1>3 DEF Removing
  <2>3. CASE target = "running"
    <3>1. \A i \in S : i[1] = "code"
      <4>1. S = Codes(S)
        BY <1>3, <2>3 DEF Removing
      <4> QED BY <4>1 DEF Codes
    <3> QED BY <2>1, <2>2, <3>1 DEF StopsListed, Stops, Watched
  <2>4. CASE target # "running"
    <3>1. Ends = {}
      BY <2>4 DEF Phase
    <3>2. Stops' = {}
      BY <2>1, <3>1 DEF Stops, Ends, Kind
    <3> QED BY <3>2 DEF StopsListed
  <2> QED BY <2>3, <2>4
<1>4. ASSUME NEW r, Launching(r) PROVE StopsListed'
  <2>1. UNCHANGED answers /\ DOMAIN list' = DOMAIN list
    BY <1>4 DEF Launching
  <2> QED BY <2>1 DEF StopsListed, Stops, Watched
<1>5. ASSUME \/ \E n, locs : Installing(n, locs)
             \/ Refusing
             \/ \E op : Setting(op)
             \/ Dropping
      PROVE  StopsListed'
  <2>1. UNCHANGED list /\ Stops' = Stops /\ \A k \in Stops : answers'[k] = answers[k]
    BY <1>5, RunWaits
  <2>2. Watched' = Watched /\ \A k \in Watched : answers'[k] = answers[k]
    BY <1>5, WatchedKept
  <2> QED BY <2>1, <2>2 DEF StopsListed
<1>6. ASSUME NEW n, Watching(n) PROVE StopsListed'
  <2>1. UNCHANGED list /\ Stops' = Stops /\ \A k \in Stops : answers'[k] = answers[k]
    BY <1>6, RunWaits
  <2>2. \A k \in Watched : k \in Watched' /\ answers'[k] = answers[k]
    BY <1>6, TellingKinds DEF Watching, Watched
  <2> QED BY <2>1, <2>2 DEF StopsListed
<1>7. ASSUME Starting \/ Resuming
      PROVE  StopsListed'
  <2>1. UNCHANGED <<list, answers>>
    BY <1>7, RunStarts
  <2> QED BY <2>1 DEF StopsListed, Stops, Watched
<1>8. ASSUME Pausing \/ Exiting \/ (\E i : Ignored(i))
      PROVE  StopsListed'
  <2> AStop
    BY <1>8 DEF AStop
  <2>1. Stops = {}
    BY WhileRunning
  <2>2. \A k \in Stops' : answers'[k].why = <<>>
    <3>1. CASE Pausing
      <4> DEFINE a == [op |-> "stopped", why |-> <<>>, bps |-> core]
      <4>1. Telling(a) /\ a.why = <<>>
        BY <3>1 DEF Pausing
      <4> HIDE DEF a
      <4> QED BY <2>1, <4>1, TellingKinds DEF Stops
    <3>2. CASE Exiting
      <4> DEFINE a == [op |-> "exited"]
      <4>1. Telling(a) /\ a.op = "exited"
        BY <3>2 DEF Exiting
      <4> HIDE DEF a
      <4> QED BY <2>1, <4>1, TellingKinds DEF Stops
    <3>3. CASE \E i : Ignored(i)
      BY <2>1, <3>3 DEF Ignored, Stops
    <3> QED BY <1>8, <3>1, <3>2, <3>3
  <2> QED BY <2>2 DEF StopsListed
<1>9. ASSUME NEW i, Stopping(i) PROVE StopsListed'
  <2> AStop
    BY <1>9 DEF AStop
  <2>1. Stops = {} /\ moving /\ UNCHANGED list
    BY WhileRunning
  <2> DEFINE a == [op |-> "stopped", why |-> i, bps |-> core']
  <2>2. Telling(a) /\ a.why = i /\ i \in DOMAIN core
    BY <1>9 DEF Stopping, Counted
  <2> HIDE DEF a
  <2>3. Added(answers, a, answers')
    BY <2>2 DEF Telling
  <2>4. \A k \in Stops' : k = Len(answers) + 1 /\ answers'[k] = a
    BY <2>1, <2>2, TellingKinds DEF Stops
  <2>5. \A j \in Watched : j < Len(answers) + 1 /\ j \in Watched' /\ answers'[j] = answers[j]
    BY <2>3, KindAdded DEF Watched
  <2>6. i[1] = "watch" => i \in DOMAIN list \/ \E j \in Watched : answers[j].id = i
    BY <2>1, <2>2 DEF Matched, CoreKnown, RemovedStill
  <2> QED BY <2>1, <2>2, <2>4, <2>5, <2>6 DEF StopsListed
<1>10. ASSUME Listing PROVE StopsListed'
  <2> AnAnswer
    BY <1>10 DEF AnAnswer
  <2>1. \A k \in Stops' : k + 1 \in Stops /\ k \in Int /\ answers'[k] = answers[k + 1]
    BY AnswerKinds DEF Stops
  <2>2. \A k \in Watched : k \in Int /\ (k = 1 \/ (k - 1 \in Watched' /\ answers'[k - 1] = answers[k]))
    BY AnswerKinds DEF Watched
  <2>3. DOMAIN list' = DOMAIN list \cup {answers[1].id}
    BY <1>10 DEF Listing
  <2> SUFFICES ASSUME NEW k \in Stops', NEW w, w = answers'[k].why, w # <<>>, w[1] = "watch"
      PROVE  w \in DOMAIN list' \/ \E j \in Watched' : j < k /\ answers'[j].id = w
    BY DEF StopsListed
  <2>4. CASE w \in DOMAIN list
    BY <2>3, <2>4
  <2>5. CASE \E j \in Watched : j < k + 1 /\ answers[j].id = w
    <3>1. PICK j \in Watched : j < k + 1 /\ answers[j].id = w
      BY <2>5
    <3>2. CASE j = 1
      BY <2>3, <3>1, <3>2
    <3>3. CASE j # 1
      <4>1. j - 1 \in Watched' /\ answers'[j - 1] = answers[j] /\ j - 1 < k
        BY <2>1, <2>2, <3>1, <3>3
      <4> QED BY <3>1, <4>1
    <3> QED BY <3>2, <3>3
  <2> QED BY <2>1, <2>4, <2>5 DEF StopsListed
<1>11. ASSUME Outdated \/ Connecting \/ Reopening
      PROVE  StopsListed'
  <2> AnAnswer
    BY <1>11 DEF AnAnswer
  <2>1. \A k \in Stops' : k + 1 \in Stops /\ k \in Int /\ answers'[k] = answers[k + 1]
    BY AnswerKinds DEF Stops
  <2>2. answers[1].op # "watched"
    BY <1>11 DEF Outdated, Connecting, Reopening, Hearing
  <2>3. \A k \in Watched : k \in Int /\ k - 1 \in Watched' /\ answers'[k - 1] = answers[k]
    BY <2>2, MainPops, KindPops DEF Watched
  <2>4. DOMAIN list' = DOMAIN list
    BY <1>11 DEF Outdated, Connecting, Reopening, listVars
  <2> SUFFICES ASSUME NEW k \in Stops', NEW w, w = answers'[k].why, w # <<>>, w[1] = "watch"
      PROVE  w \in DOMAIN list' \/ \E j \in Watched' : j < k /\ answers'[j].id = w
    BY DEF StopsListed
  <2>5. CASE \E j \in Watched : j < k + 1 /\ answers[j].id = w
    <3>1. PICK j \in Watched : j < k + 1 /\ answers[j].id = w
      BY <2>5
    <3>2. j - 1 \in Watched' /\ answers'[j - 1] = answers[j] /\ j - 1 < k
      BY <2>1, <2>3, <3>1
    <3> QED BY <3>1, <3>2
  <2> QED BY <2>1, <2>4, <2>5 DEF StopsListed
<1>12. ASSUME Updating \/ Leaving
      PROVE  StopsListed'
  <2>1. Stops' = {}
    BY <1>12, RunEnds
  <2> QED BY <2>1 DEF StopsListed
<1>13. ASSUME \/ Asking
              \/ CancelDialog
              \/ AttachFirst
              \/ Continuing
              \/ Shutting
      PROVE  StopsListed'
  <2>1. UNCHANGED <<answers, list>>
    BY <1>13 DEF Asking, AddWatchpoint, CancelDialog, AttachFirst, Continuing, Continue, Shutting,
       Close, listVars, coreVars, counts
  <2> QED BY <2>1 DEF StopsListed, Stops, Watched
<1> QED BY <1>1, <1>2, <1>3, <1>4, <1>5, <1>6, <1>7, <1>8, <1>9, <1>10, <1>11, <1>12, <1>13
       DEF Step, AnEdit, ARequest, ACoreStep, AStop, AnAnswer

-----------------------------------------------------------------------------
(* The hit counts and the locations a stop tells of                        *)

(* The fields of the breakpoints a stop tells of. *)
LEMMA SnapshotFields ==
  ASSUME Shape
  PROVE  \A k \in Stops : \A i \in DOMAIN answers[k].bps :
           i \in Ids /\ i[1] \in {"code", "watch"} /\ i[2] \in Nat /\ answers[k].bps[i] \in CoreBreakpoint
<1> SUFFICES ASSUME NEW k \in Stops, NEW i \in DOMAIN answers[k].bps
    PROVE  i \in Ids /\ i[1] \in {"code", "watch"} /\ i[2] \in Nat /\ answers[k].bps[i] \in CoreBreakpoint
  OBVIOUS
<1>1. answers[k] \in Answers /\ answers[k].op = "stopped"
  BY DEF Shape, Typed, Stops, Kind
<1>2. i \in Ids /\ answers[k].bps[i] \in CoreBreakpoint
  BY <1>1, AnswerFields
<1> QED BY <1>2 DEF Ids

(* A watchpoint is set when no stop is on its way. *)
LEMMA NoStopYet ==
  ASSUME AskedStill, \E n : Watching(n)
  PROVE  1 \in Asked /\ Ends = {} /\ Stops = {} /\ Resumes \subseteq Int /\ \A k \in Resumes : k > 1
<1>1. ACoreStep /\ commands[1].op = "watch"
  BY DEF ACoreStep, Watching, Up, Taking
<1>2. 1 \in Asked
  BY <1>1, CorePops, KindShrunk DEF Asked
<1>3. Ends = {} /\ \A k \in Resumes : 1 < k
  BY <1>2 DEF AskedStill
<1>4. Stops = {}
  BY <1>3 DEF Stops, Ends, Kind
<1>5. Resumes \subseteq Int
  BY <1>1, CoreKinds DEF Resumes
<1> QED BY <1>2, <1>3, <1>4, <1>5

(* A stop that is on its way tells how LLDB's breakpoints are. *)
LEMMA SnappedStep ==
  ASSUME Shape,
         Phase,
         "renumber" \notin mishaps,
         coreUp,
         coreUp',
         Step,
         fault' = "none",
         Fresh,
         Numbers,
         InstallsInOrder,
         Matched,
         AskedStill,
         Snapped,
         NotYet
  PROVE  Snapped'
<1>1. ASSUME \/ \E op : Broken(op)
             \/ \E op : NoBreakpoint(op)
             \/ \E r : Loading(r)
             \/ Ending
             \/ Load
             \/ Disconnecting
      PROVE  Snapped'
  <2> QED BY <1>1, Impossible
<1>2. ASSUME NEW i, NEW r, Adding(i, r) PROVE Snapped'
  <2> AnEdit
    BY <1>2 DEF AnEdit
  <2>1. UNCHANGED <<answers, core, coreNext>>
    BY EditKeeps
  <2>2. DOMAIN list' = DOMAIN list \cup {i} /\ \A j \in DOMAIN list : list'[j] = list[j]
    BY <1>2, AddingLists
  <2>3. i \notin DOMAIN core
    <3>1. i = <<"code", nextNum>>
      BY <1>2, AddingLists
    <3>2. <<"code", nextNum>> \notin DOMAIN core
      BY NewUnknown
    <3> QED BY <3>1, <3>2
  <2> QED BY <2>1, <2>2, <2>3 DEF Snapped, Stops
<1>3. ASSUME (\E S, r : Removing(S, r)) \/ (\E op, S, r : Changing(op, S, r))
      PROVE  Snapped'
  <2> AnEdit
    BY <1>3 DEF AnEdit
  <2>1. UNCHANGED <<answers, core, coreNext>>
    BY EditKeeps
  <2>2. DOMAIN list' \subseteq DOMAIN list /\ \A j \in DOMAIN list' : list'[j].curr \in {0, list[j].curr}
    <3>1. CASE \E S, r : Removing(S, r)
      BY <3>1 DEF Removing, Same
    <3>2. CASE \E op, S, r : Changing(op, S, r)
      BY <3>2 DEF Changing
    <3> QED BY <1>3, <3>1, <3>2
  <2> QED BY <2>1, <2>2 DEF Snapped, Stops
<1>4. ASSUME NEW r, Launching(r) PROVE Snapped'
  <2>1. target = "loaded" /\ UNCHANGED answers
    BY <1>4 DEF Launching
  <2>2. Stops' = {}
    <3>1. Ends = {}
      BY <2>1 DEF Phase
    <3> QED BY <2>1, <3>1 DEF Stops, Ends, Kind
  <2> QED BY <2>2 DEF Snapped
<1>5. ASSUME NEW n, NEW locs, Installing(n, locs) PROVE Snapped'
  <2>1. UNCHANGED list /\ Stops' = Stops /\ \A k \in Stops : answers'[k] = answers[k]
    BY <1>5, RunWaits
  <2>2. commands[1].id = <<"code", n>> /\ 1 \in Installs /\ n = coreNext["code"] /\ n \in Nat
    BY <1>5, InstallNumber
  <2> DEFINE c == <<"code", n>>
  <2>3. c[1] = "code" /\ c[2] = n /\ commands[1].id = c
    BY <2>2
  <2>4. /\ DOMAIN core' = DOMAIN core \cup {c} /\ Same(core', core, DOMAIN core \ {c}) /\ core'[c].hits = 0
        /\ coreNext' = [t \in {"code", "watch"} |-> IF t = "code" THEN n + 1 ELSE coreNext[t]]
    BY <1>5 DEF Installing
  <2> HIDE DEF c
  <2>5. c \in DOMAIN list => list[c].curr = 0
    BY <2>2, <2>3 DEF NotYet
  <2>6. c \notin DOMAIN core
    BY <2>2, <2>3, NotThere
  <2> SUFFICES ASSUME NEW k \in Stops, NEW bps, bps = answers[k].bps
      PROVE  /\ \A i \in DOMAIN bps : i[2] < coreNext'[i[1]]
             /\ \A i \in DOMAIN bps \cap DOMAIN core' : bps[i].hits = core'[i].hits /\ bps[i].locs = core'[i].locs
             /\ \A i \in DOMAIN core' \ DOMAIN bps : core'[i].hits = 0 /\ i[1] = "code"
                                                   /\ (i \in DOMAIN list' => list'[i].curr = 0)
    BY <2>1 DEF Snapped
  <2>7. \A i \in DOMAIN bps : i[2] < coreNext[i[1]] /\ i[1] \in {"code", "watch"} /\ i[2] \in Nat
    BY SnapshotFields DEF Snapped
  <2>8. \A i \in DOMAIN bps : i[2] < coreNext'[i[1]]
    <3> SUFFICES ASSUME NEW i \in DOMAIN bps PROVE i[2] < coreNext'[i[1]]
      OBVIOUS
    <3>1. CASE i[1] = "code"
      BY <2>2, <2>4, <2>7, <3>1
    <3>2. CASE i[1] = "watch"
      BY <2>4, <2>7, <3>2
    <3> QED BY <2>7, <3>1, <3>2
  <2>9. c \notin DOMAIN bps
    <3> SUFFICES ASSUME c \in DOMAIN bps PROVE FALSE
      OBVIOUS
    <3> QED BY <2>2, <2>3, <2>7
  <2>10. \A i \in DOMAIN bps \cap DOMAIN core' : bps[i].hits = core'[i].hits /\ bps[i].locs = core'[i].locs
    BY <2>4, <2>9 DEF Snapped, Same
  <2>11. ASSUME NEW i \in DOMAIN core' \ DOMAIN bps
        PROVE  core'[i].hits = 0 /\ i[1] = "code" /\ (i \in DOMAIN list' => list'[i].curr = 0)
    <3>1. CASE i = c
      BY <2>1, <2>3, <2>4, <2>5, <3>1
    <3>2. CASE i # c
      BY <2>1, <2>4, <3>2 DEF Snapped, Same
    <3> QED BY <3>1, <3>2
  <2> QED BY <2>8, <2>10, <2>11
<1>6. ASSUME NEW n, Watching(n) PROVE Snapped'
  <2>1. Stops' = {}
    BY <1>6, NoStopYet, RunWaits
  <2> QED BY <2>1 DEF Snapped
<1>7. ASSUME Refusing \/ (\E op : Setting(op)) \/ Dropping
      PROVE  Snapped'
  <2>1. UNCHANGED list /\ Stops' = Stops /\ \A k \in Stops : answers'[k] = answers[k]
    BY <1>7, RunWaits
  <2>2. /\ DOMAIN core' \subseteq DOMAIN core /\ UNCHANGED coreNext
        /\ \A i \in DOMAIN core' : core'[i].hits = core[i].hits /\ core'[i].locs = core[i].locs
    <3>1. ASSUME NEW op, Setting(op)
          PROVE  /\ DOMAIN core' \subseteq DOMAIN core
                 /\ \A i \in DOMAIN core' : core'[i].hits = core[i].hits /\ core'[i].locs = core[i].locs
      <4>1. DOMAIN core' = DOMAIN core /\ \A i \in DOMAIN core : i = commands[1].id \/ core'[i] = core[i]
        BY <3>1 DEF Setting, Same
      <4>2. /\ core'[commands[1].id].hits = core[commands[1].id].hits
            /\ core'[commands[1].id].locs = core[commands[1].id].locs
        BY <3>1 DEF Setting
      <4> QED BY <4>1, <4>2
    <3>2. CASE Refusing \/ Dropping
      BY <3>2 DEF Refusing, Dropping, Same, coreVars
    <3>3. UNCHANGED coreNext
      BY <1>7 DEF Refusing, Setting, Dropping, coreVars
    <3> QED BY <1>7, <3>1, <3>2, <3>3
  <2> QED BY <2>1, <2>2 DEF Snapped
<1>8. ASSUME Starting \/ Resuming
      PROVE  Snapped'
  <2>1. Ends = {} /\ UNCHANGED answers
    BY <1>8, RunStarts
  <2>2. Stops' = {}
    BY <2>1 DEF Stops, Ends, Kind
  <2> QED BY <2>2 DEF Snapped
<1>9. ASSUME \/ Pausing
             \/ Exiting
             \/ \E i : Ignored(i)
             \/ \E i : Stopping(i)
      PROVE  Snapped'
  <2> AStop
    BY <1>9 DEF AStop
  <2>1. Stops = {} /\ UNCHANGED <<list, coreNext>>
    BY WhileRunning
  <2>2. \A i \in DOMAIN core' : i[2] < coreNext[i[1]]
    <3>1. DOMAIN core' = DOMAIN core
      BY <1>9 DEF Pausing, Exiting, Ignored, Stopping, Counted
    <3> QED BY <3>1 DEF InstallsInOrder
  <2>3. \A k \in Stops' : answers'[k].bps = core'
    <3>1. CASE Pausing \/ \E i : Stopping(i)
      <4>1. \E why : Telling([op |-> "stopped", why |-> why, bps |-> core'])
        BY <3>1 DEF Pausing, Stopping
      <4>2. PICK why : Telling([op |-> "stopped", why |-> why, bps |-> core'])
        BY <4>1
      <4> DEFINE a == [op |-> "stopped", why |-> why, bps |-> core']
      <4>3. Telling(a) /\ a.bps = core'
        BY <4>2
      <4> HIDE DEF a
      <4> QED BY <2>1, <4>3, TellingKinds DEF Stops
    <3>2. CASE Exiting
      <4> DEFINE a == [op |-> "exited"]
      <4>1. Telling(a) /\ a.op = "exited"
        BY <3>2 DEF Exiting
      <4> HIDE DEF a
      <4> QED BY <2>1, <4>1, TellingKinds DEF Stops
    <3>3. CASE \E i : Ignored(i)
      BY <2>1, <3>3 DEF Ignored, Stops
    <3> QED BY <1>9, <3>1, <3>2, <3>3
  <2> QED BY <2>1, <2>2, <2>3 DEF Snapped
<1>10. ASSUME Updating \/ Leaving
      PROVE  Snapped'
  <2>1. Stops' = {}
    BY <1>10, RunEnds
  <2> QED BY <2>1 DEF Snapped
<1>11. ASSUME \/ Outdated
              \/ Connecting
              \/ Reopening
              \/ Listing
      PROVE  Snapped'
  <2> AnAnswer
    BY <1>11 DEF AnAnswer
  <2>1. UNCHANGED <<core, coreNext>>
    BY MainPops
  <2>2. \A k \in Stops' : k + 1 \in Stops /\ answers'[k] = answers[k + 1]
    BY AnswerKinds DEF Stops
  <2>3. \A i \in DOMAIN list' : (i \in DOMAIN list /\ list'[i].curr = list[i].curr) \/ list'[i].curr = 0
    <3>1. CASE Outdated \/ Reopening
      BY <3>1 DEF Outdated, Reopening, listVars
    <3>2. CASE Connecting
      <4>1. DOMAIN list' = DOMAIN list /\ \A i \in DOMAIN list : i = answers[1].id \/ list'[i] = list[i]
        BY <3>2 DEF Connecting, Same
      <4>2. list'[answers[1].id].curr = list[answers[1].id].curr
        BY <3>2 DEF Connecting
      <4> QED BY <4>1, <4>2
    <3>3. CASE Listing
      BY <3>3 DEF Listing, Same
    <3> QED BY <1>11, <3>1, <3>2, <3>3
  <2> QED BY <2>1, <2>2, <2>3 DEF Snapped
<1>12. ASSUME \/ Asking
              \/ CancelDialog
              \/ AttachFirst
              \/ Continuing
              \/ Shutting
      PROVE  Snapped'
  <2>1. UNCHANGED <<answers, core, coreNext, list>>
    BY <1>12 DEF Asking, AddWatchpoint, CancelDialog, AttachFirst, Continuing, Continue, Shutting,
       Close, listVars, coreVars, counts
  <2> QED BY <2>1 DEF Snapped, Stops
<1> QED BY <1>1, <1>2, <1>3, <1>4, <1>5, <1>6, <1>7, <1>8, <1>9, <1>10, <1>11, <1>12
       DEF Step, AnEdit, ARequest, ACoreStep, AStop, AnAnswer

(* What is not installed yet has not been hit and has no location. *)
LEMMA NotYetStep ==
  ASSUME Shape,
         Phase,
         "renumber" \notin mishaps,
         coreUp,
         coreUp',
         Step,
         fault' = "none",
         Fresh,
         Numbers,
         InstallsInOrder,
         Matched,
         AskedStill,
         Snapped,
         NotYet
  PROVE  NotYet'
<1>1. ASSUME \/ \E op : Broken(op)
             \/ \E op : NoBreakpoint(op)
             \/ \E r : Loading(r)
             \/ Ending
      PROVE  NotYet'
  <2> QED BY <1>1, Impossible
<1>2. ASSUME Disconnecting PROVE NotYet'
  <2> QED BY <1>2, Impossible
<1>3. ASSUME NEW i, NEW r, Adding(i, r) PROVE NotYet'
  <2>1. /\ DOMAIN list' = DOMAIN list \cup {i} /\ \A j \in DOMAIN list : list'[j] = list[j]
        /\ list'[i].curr = 0 /\ list'[i].locs = {} /\ i \notin DOMAIN list
    BY <1>3, AddingLists
  <2>2. \A k \in Installs' : (k \in Installs /\ commands'[k] = commands[k]) \/ commands'[k].id = i
    BY <1>3, AddKinds DEF Installs
  <2> QED BY <2>1, <2>2 DEF NotYet
<1>4. ASSUME NEW S, NEW r, Removing(S, r) PROVE NotYet'
  <2>1. DOMAIN list' = DOMAIN list \ S /\ \A j \in DOMAIN list' : list'[j] = list[j]
    BY <1>4 DEF Removing, Same
  <2>2. \A k \in Installs' : k \in Installs /\ commands'[k] = commands[k]
    BY <1>4, RemoveKinds DEF Installs
  <2> QED BY <2>1, <2>2 DEF NotYet
<1>5. ASSUME NEW op, NEW S, NEW r, Changing(op, S, r) PROVE NotYet'
  <2>1. /\ DOMAIN list' = DOMAIN list /\ op # "install"
        /\ \A j \in DOMAIN list' : list'[j].curr \in {0, list[j].curr} /\ list'[j].locs = list[j].locs
    BY <1>5 DEF Changing
  <2>2. \A k \in Installs' : k \in Installs /\ commands'[k] = commands[k]
    BY <1>5, <2>1, ChangeKinds DEF Installs
  <2> QED BY <2>1, <2>2 DEF NotYet
<1>6. ASSUME Asking \/ Continuing \/ Shutting
      PROVE  NotYet'
  <2>1. UNCHANGED list
    BY <1>6, AskingSends
  <2>2. \A k \in Installs' : k \in Installs /\ commands'[k] = commands[k]
    BY <1>6, AskKinds DEF Installs
  <2> QED BY <2>1, <2>2 DEF NotYet
<1>7. ASSUME NEW r, Launching(r) PROVE NotYet'
  <2>1. /\ DOMAIN list' = DOMAIN list
        /\ \A j \in DOMAIN list' : list'[j].curr = 0 /\ list'[j].locs = list[j].locs
    BY <1>7 DEF Launching
  <2>2. \A k \in Installs' : k \in Installs /\ commands'[k] = commands[k]
    BY <1>7, LaunchKinds DEF Installs
  <2> QED BY <2>1, <2>2 DEF NotYet
<1>8. ASSUME \/ \E n, locs : Installing(n, locs)
             \/ \E n : Watching(n)
             \/ Refusing
             \/ \E op : Setting(op)
             \/ Dropping
             \/ Starting
             \/ Resuming
      PROVE  NotYet'
  <2> ACoreStep
    BY <1>8 DEF ACoreStep
  <2>1. UNCHANGED list
    BY CorePops
  <2>2. \A k \in Installs' : k + 1 \in Installs /\ commands'[k] = commands[k + 1]
    BY CoreKinds DEF Installs
  <2> QED BY <2>1, <2>2 DEF NotYet
<1>9. ASSUME Outdated \/ Leaving \/ Reopening
      PROVE  NotYet'
  <2>1. UNCHANGED <<list, commands>>
    BY <1>9 DEF Outdated, Leaving, Reopening, Hearing, listVars
  <2> QED BY <2>1 DEF NotYet, Installs
<1>10. ASSUME Connecting \/ Listing
      PROVE  NotYet'
  <2> AnAnswer
    BY <1>10 DEF AnAnswer
  <2>1. UNCHANGED commands
    BY MainPops
  <2>2. /\ DOMAIN list' \subseteq DOMAIN list \cup {answers[1].id}
        /\ \A j \in DOMAIN list : j = answers[1].id \/ list'[j] = list[j]
    BY <1>10 DEF Connecting, Listing, Same
  <2>3. \A k \in Installs : commands[k].id # answers[1].id
    <3>1. CASE Connecting
      <4>1. 1 \in Told
        BY <3>1, AnswerKinds DEF Connecting, Hearing, Told
      <4> QED BY <4>1 DEF Fresh
    <3>2. CASE Listing
      <4>1. 1 \in Watched
        BY <3>2, AnswerKinds DEF Listing, Hearing, Watched
      <4> QED BY <4>1, WatchedIds, CommandIds
    <3> QED BY <1>10, <3>1, <3>2
  <2> QED BY <2>1, <2>2, <2>3 DEF NotYet, Installs
<1>11. ASSUME Updating PROVE NotYet'
  <2> AnAnswer
    BY <1>11 DEF AnAnswer
  <2>1. UNCHANGED commands
    BY MainPops
  <2>2. /\ DOMAIN list' = DOMAIN list
        /\ \A i \in DOMAIN list : i \notin DOMAIN answers[1].bps =>
             list'[i].curr = list[i].curr /\ list'[i].locs = list[i].locs
    BY <1>11 DEF Updating
  <2>3. 1 \in Stops
    BY <1>11, AnswerKinds DEF Updating, Hearing, Stops
  <2>4. \A k \in Installs : commands[k].id \notin DOMAIN answers[1].bps
    <3> SUFFICES ASSUME NEW k \in Installs, commands[k].id \in DOMAIN answers[1].bps PROVE FALSE
      OBVIOUS
    <3>1. commands[k].id[1] = "code" /\ commands[k].id[2] \in Nat
      BY CommandIds, PendingIds
    <3>2. commands[k].id[2] < coreNext["code"]
      BY <2>3, <3>1 DEF Snapped
    <3>3. commands[k].id[2] >= coreNext["code"]
      BY DEF InstallsInOrder
    <3> QED BY <3>1, <3>2, <3>3, NextFields
  <2> QED BY <2>1, <2>2, <2>4 DEF NotYet, Installs
<1>12. ASSUME \/ CancelDialog
              \/ Load
              \/ AttachFirst
      PROVE  NotYet'
  <2>1. UNCHANGED <<commands, list>>
    BY <1>12 DEF CancelDialog, Load, AttachFirst, listVars, coreVars, counts
  <2> QED BY <2>1 DEF NotYet, Installs
<1>13. ASSUME AStop PROVE NotYet'
  <2>1. UNCHANGED <<commands, list>>
    BY <1>13 DEF AStop, Pausing, Moving, Exiting, Ignored, Stopping, listVars, coreVars, counts
  <2> QED BY <2>1 DEF NotYet, Installs
<1> QED BY <1>1, <1>2, <1>3, <1>4, <1>5, <1>6, <1>7, <1>8, <1>9, <1>10, <1>11, <1>12, <1>13
       DEF Step, AnEdit, ARequest, ACoreStep, AStop, AnAnswer

-----------------------------------------------------------------------------
(* Hit counts and ignore counts                                            *)

(* These steps leave alone whether the counts start again, and whether what *)
(* the list shows is to agree with them.                                   *)
LEMMA RunKept ==
  ASSUME Shape, Phase,
         \/ AnEdit
         \/ Asking \/ Shutting \/ Continuing
         \/ \E n, locs : Installing(n, locs)
         \/ \E n : Watching(n)
         \/ Refusing \/ Dropping
         \/ \E op : Setting(op)
         \/ Outdated \/ Connecting \/ Listing \/ Reopening
  PROVE  (Rerun' <=> Rerun) /\ (Counts' <=> Counts)
<1>1. CASE AnEdit
  <2>1. target' = target
    BY <1>1, EditKeeps
  <2>2. Resumes' = Resumes
    BY <1>1, EditKinds DEF Resumes, EditOps
  <2>3. \A k \in Resumes : commands'[k] = commands[k]
    <3>1. ASSUME NEW i, NEW r, Adding(i, r) PROVE \A k \in Resumes : commands'[k] = commands[k]
      BY <3>1, AddKinds DEF Resumes
    <3>2. ASSUME NEW S, NEW r, Removing(S, r) PROVE \A k \in Resumes : commands'[k] = commands[k]
      BY <3>2, RemoveKinds DEF Resumes
    <3>3. ASSUME NEW op, NEW S, NEW r, Changing(op, S, r) PROVE \A k \in Resumes : commands'[k] = commands[k]
      BY <3>3, ChangeKinds DEF Resumes
    <3> QED BY <1>1, <3>1, <3>2, <3>3 DEF AnEdit
  <2> QED BY <2>1, <2>2, <2>3 DEF Rerun, Counts
<1>2. CASE Asking \/ Shutting
  <2>1. \E op \in {"watch", "close"} : Added(commands, Plain(op), commands')
    BY <1>2 DEF Asking, Shutting
  <2>2. PICK op \in {"watch", "close"} : Added(commands, Plain(op), commands')
    BY <2>1
  <2>3. Plain(op).op \notin {"run", "resume"}
    BY DEF Plain
  <2>4. Resumes' = Resumes
    BY <2>2, <2>3, KindSame DEF Resumes
  <2>5. \A k \in Resumes : commands'[k] = commands[k]
    BY <2>2, KindAdded DEF Resumes
  <2>6. target' = target \/ (target = "loaded" /\ target' = "unloading")
    BY <1>2 DEF Asking, AddWatchpoint, Shutting, Close
  <2> QED BY <2>4, <2>5, <2>6 DEF Rerun, Counts
<1>3. CASE Continuing
  <2>1. Added(commands, Plain("resume"), commands') /\ target = "stopped" /\ target' = "running"
    BY <1>3 DEF Continuing, Continue
  <2>2. Plain("resume").op = "resume"
    BY DEF Plain
  <2>3. Resumes = {}
    BY <2>1 DEF Phase
  <2>4. \A k \in Resumes' : k \in Resumes \/ commands'[k] = Plain("resume")
    BY <2>1, KindAdded DEF Resumes
  <2>5. Len(commands) + 1 \in Resumes'
    <3>1. Plain("resume").op \in {"run", "resume"}
      BY <2>2
    <3> QED BY <2>1, <3>1, KindAdded DEF Resumes
  <2> QED BY <2>1, <2>2, <2>3, <2>4, <2>5 DEF Rerun, Counts
<1>4. CASE \/ \E n, locs : Installing(n, locs)
           \/ \E n : Watching(n)
           \/ Refusing \/ Dropping
           \/ \E op : Setting(op)
  <2>1. /\ \A k \in Resumes : k - 1 \in Resumes' /\ commands'[k - 1] = commands[k]
        /\ \A k \in Resumes' : k + 1 \in Resumes /\ commands'[k] = commands[k + 1]
        /\ target' = target
    BY <1>4, RunWaits
  <2> QED BY <2>1 DEF Rerun, Counts
<1>5. CASE Outdated \/ Connecting \/ Listing \/ Reopening
  <2>1. UNCHANGED <<commands, target>>
    BY <1>5 DEF Outdated, Connecting, Listing, Reopening, Hearing
  <2> QED BY <2>1 DEF Rerun, Counts, Resumes
<1> QED BY <1>1, <1>2, <1>3, <1>4, <1>5

(* A run starts with the counts that were foreseen. *)
LEMMA RunCounts ==
  ASSUME Phase, Starting \/ Resuming
  PROVE  ~Rerun' /\ ~Counts' /\ \A i \in DOMAIN core : i \in DOMAIN core' /\ core'[i].hits = Ran(i)
                                                      /\ core'[i].ignore = core[i].ignore
<1>1. 1 \in Resumes /\ Resumes' = {} /\ target' = "running" /\ \A k \in Resumes : k = 1
  BY RunStarts
<1>2. CASE Starting
  <2>1. commands[1].op = "run" /\ DOMAIN core' = DOMAIN core
        /\ \A i \in DOMAIN core : core'[i].hits = 0 /\ core'[i].ignore = core[i].ignore
    BY <1>2 DEF Starting, Up, Taking
  <2> QED BY <1>1, <2>1 DEF Rerun, Ran, Counts
<1>3. CASE Resuming
  <2>1. commands[1].op = "resume" /\ core' = core
    BY <1>3 DEF Resuming, Up, Taking
  <2> QED BY <1>1, <2>1 DEF Rerun, Ran, Counts
<1> QED BY <1>2, <1>3

(* No command but the start of a run changes a count. *)
LEMMA HitsKept ==
  ASSUME Refusing \/ Dropping \/ \E op : Setting(op)
  PROVE  /\ DOMAIN core' \subseteq DOMAIN core
         /\ \A i \in DOMAIN core' : core'[i].hits = core[i].hits /\ core'[i].locs = core[i].locs
<1>1. ASSUME NEW op, Setting(op)
      PROVE  /\ DOMAIN core' \subseteq DOMAIN core
             /\ \A i \in DOMAIN core' : core'[i].hits = core[i].hits /\ core'[i].locs = core[i].locs
  <2>1. DOMAIN core' = DOMAIN core /\ \A i \in DOMAIN core : i = commands[1].id \/ core'[i] = core[i]
    BY <1>1 DEF Setting, Same
  <2>2. /\ core'[commands[1].id].hits = core[commands[1].id].hits
        /\ core'[commands[1].id].locs = core[commands[1].id].locs
    BY <1>1 DEF Setting
  <2> QED BY <2>1, <2>2
<1>2. CASE Refusing \/ Dropping
  BY <1>2 DEF Refusing, Dropping, Same, coreVars
<1> QED BY <1>1, <1>2

(* The new breakpoint of LLDB is none it had, and of the list as it was. *)
LEMMA NewInCore ==
  ASSUME Shape, Fresh, InstallsInOrder, Matched, NotYet, NEW n, NEW locs, Installing(n, locs)
  PROVE  LET c == commands[1].id IN
         /\ c = <<"code", n>> /\ c[1] = "code" /\ c \notin DOMAIN core /\ DOMAIN core' = DOMAIN core \cup {c}
         /\ \A i \in DOMAIN core : i # c /\ core'[i] = core[i]
         /\ core'[c].hits = 0 /\ core'[c].ignore = 0 /\ core'[c].locs = locs
         /\ c \in DOMAIN list => list[c].curr = 0 /\ list[c].locs = {}
<1> DEFINE c == <<"code", n>>
<1>1. commands[1].id = c /\ 1 \in Installs /\ c[1] = "code"
  BY InstallNumber
<1>2. /\ DOMAIN core' = DOMAIN core \cup {c} /\ Same(core', core, DOMAIN core \ {c})
      /\ core'[c].hits = 0 /\ core'[c].ignore = 0 /\ core'[c].locs = locs
  BY DEF Installing
<1> HIDE DEF c
<1>3. c \notin DOMAIN core
  BY <1>1, NotThere
<1>4. c \in DOMAIN list => list[c].curr = 0 /\ list[c].locs = {}
  BY <1>1 DEF NotYet
<1>5. \A i \in DOMAIN core : i # c /\ core'[i] = core[i]
  BY <1>2, <1>3 DEF Same
<1> QED BY <1>1, <1>2, <1>3, <1>4, <1>5 DEF c

(* A new watchpoint of LLDB is none it had, and not of the list yet. *)
LEMMA NewWatchInCore ==
  ASSUME Shape, InstallsInOrder, "renumber" \notin mishaps, Numbers, NEW n, Watching(n)
  PROVE  LET w == <<"watch", n>> IN
         /\ w \notin DOMAIN list /\ w \notin DOMAIN core /\ DOMAIN core' = DOMAIN core \cup {w}
         /\ \A i \in DOMAIN core : i # w /\ core'[i] = core[i]
         /\ core'[w].hits = 0
         /\ \A k \in Watched' : (k \in Watched /\ answers'[k] = answers[k]) \/ answers'[k].id = w
<1> DEFINE w == <<"watch", n>>
           a == [op |-> "watched", id |-> w]
<1>1. w[1] = "watch" /\ w[2] = n /\ a.id = w /\ n = coreNext["watch"] /\ n \in Nat
  BY NextFields DEF Watching
<1>2. /\ DOMAIN core' = DOMAIN core \cup {w} /\ Same(core', core, DOMAIN core \ {w}) /\ core'[w].hits = 0
      /\ Telling(a)
  BY DEF Watching
<1> HIDE DEF w, a
<1>3. w \notin DOMAIN list
  <2> SUFFICES ASSUME w \in DOMAIN list PROVE FALSE
    OBVIOUS
  <2>1. w[2] < coreNext["watch"]
    BY <1>1 DEF Numbers, WatchNumbers
  <2> QED BY <1>1, <2>1
<1>4. w \notin DOMAIN core
  <2> SUFFICES ASSUME w \in DOMAIN core PROVE FALSE
    OBVIOUS
  <2>1. w[2] < coreNext["watch"]
    BY <1>1 DEF InstallsInOrder
  <2> QED BY <1>1, <2>1
<1>5. \A i \in DOMAIN core : i # w /\ core'[i] = core[i]
  BY <1>2, <1>4 DEF Same
<1>6. \A k \in Watched' : (k \in Watched /\ answers'[k] = answers[k]) \/ answers'[k].id = w
  BY <1>1, <1>2, TellingKinds DEF Watched
<1> QED BY <1>2, <1>3, <1>4, <1>5, <1>6 DEF w

(* While the program runs on or is about to, no ignore count is on its way *)
(* that comes after.                                                       *)
LEMMA NoCounting ==
  ASSUME Phase, CountsStill, AStop \/ Starting \/ Resuming \/ Updating
  PROVE  Counting = {} /\ Counting' = {} /\ target = "running"
<1>1. target = "running" /\ \A j \in Resumes : j = 1
  <2>1. CASE AStop
    BY <2>1, WhileRunning
  <2>2. CASE Starting \/ Resuming
    BY <2>2, RunStarts
  <2>3. CASE Updating
    BY <2>3, RunEnds
  <2> QED BY <2>1, <2>2, <2>3
<1>2. Counting \subseteq Int /\ (\A k \in Counting : k >= 1) /\ \A k \in Counting' : k \in Counting \/ k + 1 \in Counting
  <2>1. CASE AStop
    <3>1. UNCHANGED commands
      BY <2>1, WhileRunning
    <3>2. Counting' = Counting
      BY <3>1 DEF Counting
    <3>3. Counting = {}
      BY <2>1, WhileRunning DEF CountsStill
    <3> QED BY <3>2, <3>3
  <2>2. CASE Starting \/ Resuming
    <3>1. ACoreStep
      BY <2>2 DEF ACoreStep
    <3> QED BY <3>1, CoreKinds DEF Counting
  <2>3. CASE Updating
    <3>1. UNCHANGED commands /\ Resumes = {}
      BY <2>3, RunEnds
    <3>2. Counting' = Counting
      BY <3>1 DEF Counting
    <3>3. Counting = {}
      BY <1>1, <3>1 DEF CountsStill
    <3> QED BY <3>2, <3>3
  <2> QED BY <2>1, <2>2, <2>3
<1>3. \A k \in Counting : k < 1
  BY <1>1 DEF CountsStill
<1>4. Counting = {}
  BY <1>2, <1>3
<1> QED BY <1>1, <1>2, <1>4

(* No ignore count is set while the program runs, if that is not to go wrong. *)
LEMMA CountsStillStep ==
  ASSUME Shape,
         Phase,
         "renumber" \notin mishaps,
         coreUp,
         coreUp',
         Step,
         fault' = "none",
         Fresh,
         Numbers,
         InstallsInOrder,
         Matched,
         AskedStill,
         Snapped,
         NotYet,
         "staleHits" \notin mishaps,
         CountsStill,
         CurrAgrees,
         WatchedZero,
         IgnoreAgrees
  PROVE  CountsStill'
<1>1. ASSUME \/ \E op : Broken(op)
             \/ \E op : NoBreakpoint(op)
             \/ \E r : Loading(r)
             \/ Ending
      PROVE  CountsStill'
  <2> QED BY <1>1, Impossible
<1>2. ASSUME Disconnecting PROVE CountsStill'
  <2> QED BY <1>2, Impossible
<1>3. ASSUME Load PROVE CountsStill'
  <2> QED BY <1>3, Impossible
<1>4. ASSUME NEW i, NEW r, Adding(i, r) PROVE CountsStill'
  <2>1. UNCHANGED target /\ Resumes' = Resumes
    BY <1>4, EditKeeps, EditKinds DEF AnEdit, Resumes, EditOps
  <2>2. \A k \in Counting' : k \in Counting
    BY <1>4, AddKinds DEF Counting
  <2> QED BY <2>1, <2>2 DEF CountsStill
<1>5. ASSUME NEW S, NEW r, Removing(S, r) PROVE CountsStill'
  <2>1. UNCHANGED target /\ Resumes' = Resumes
    BY <1>5, EditKeeps, EditKinds DEF AnEdit, Resumes, EditOps
  <2>2. \A k \in Counting' : k \in Counting
    BY <1>5, RemoveKinds DEF Counting
  <2> QED BY <2>1, <2>2 DEF CountsStill
<1>6. ASSUME NEW op, NEW S, NEW r, Changing(op, S, r) PROVE CountsStill'
  <2>1. UNCHANGED target /\ Resumes' = Resumes
    BY <1>6, EditKeeps, EditKinds DEF AnEdit, Resumes, EditOps
  <2>2. target = "running" => op # "ignore" \/ DOMAIN list = {}
    BY <1>6 DEF Changing
  <2>3. op # "ignore" => \A k \in Counting' : k \in Counting
    BY <1>6, ChangeKinds DEF Counting
  <2>4. DOMAIN list = {} => \A k \in Counting' : k \in Counting
    <3>1. S \subseteq DOMAIN list
      BY <1>6 DEF Changing
    <3> QED BY <1>6, <3>1, ChangeKinds DEF Counting
  <2> QED BY <2>1, <2>2, <2>3, <2>4 DEF CountsStill
<1>7. ASSUME Asking \/ Shutting
      PROVE  CountsStill'
  <2>1. target' # "running"
    BY <1>7 DEF Asking, AddWatchpoint, Shutting, Close
  <2> QED BY <2>1 DEF CountsStill
<1>8. ASSUME Continuing PROVE CountsStill'
  <2>1. Added(commands, Plain("resume"), commands')
    BY <1>8 DEF Continuing
  <2>2. Plain("resume").op = "resume"
    BY DEF Plain
  <2>3. Len(commands) + 1 \in Resumes'
    <3>1. Plain("resume").op \in {"run", "resume"}
      BY <2>2
    <3> QED BY <2>1, <3>1, KindAdded DEF Resumes
  <2>4. \A k \in Counting' : k <= Len(commands) /\ k \in Int /\ Len(commands) \in Int
    BY <2>1, <2>2, KindAdded DEF Counting
  <2> QED BY <2>3, <2>4 DEF CountsStill
<1>9. ASSUME NEW r, Launching(r) PROVE CountsStill'
  <2>1. Len(commands') \in Resumes' /\ Len(commands') \in Int /\ Len(commands) \in Int
    BY <1>9, LaunchKinds DEF Resumes
  <2>2. \A k \in Counting' : k < Len(commands')
    <3>1. \A k \in Counting' : k <= Len(commands) \/ k < Len(commands')
      BY <1>9, LaunchKinds DEF Counting
    <3>2. Len(commands) < Len(commands') /\ Counting' \subseteq Int
      BY <1>9, LaunchKinds DEF Counting
    <3> QED BY <2>1, <3>1, <3>2
  <2> QED BY <2>1, <2>2 DEF CountsStill
<1>10. ASSUME \/ \E n, locs : Installing(n, locs)
              \/ \E n : Watching(n)
              \/ Refusing
              \/ \E op : Setting(op)
              \/ Dropping
      PROVE  CountsStill'
  <2> ACoreStep
    BY <1>10 DEF ACoreStep
  <2>1. /\ \A k \in Resumes : k - 1 \in Resumes' /\ k \in Int
        /\ target' = target
    BY <1>10, RunWaits
  <2>2. \A k \in Counting' : k + 1 \in Counting /\ k \in Int
    BY CoreKinds DEF Counting
  <2> SUFFICES ASSUME target = "running", NEW k \in Counting' PROVE \E j \in Resumes' : k < j
    BY <2>1 DEF CountsStill
  <2>3. PICK j \in Resumes : k + 1 < j
    BY <2>2 DEF CountsStill
  <2>4. j - 1 \in Resumes' /\ k < j - 1
    BY <2>1, <2>2, <2>3
  <2> QED BY <2>4
<1>11. ASSUME Starting \/ Resuming
      PROVE  CountsStill'
  <2>1. Counting' = {}
    BY <1>11, NoCounting
  <2> QED BY <2>1 DEF CountsStill
<1>12. ASSUME Updating \/ Leaving
      PROVE  CountsStill'
  <2>1. target' # "running"
    BY <1>12 DEF Updating, Leaving
  <2> QED BY <2>1 DEF CountsStill
<1>13. ASSUME \/ CancelDialog
              \/ AttachFirst
      PROVE  CountsStill'
  <2>1. UNCHANGED <<commands, target>>
    BY <1>13 DEF CancelDialog, AttachFirst, listVars, coreVars, counts
  <2> QED BY <2>1 DEF CountsStill, Counting, Resumes
<1>14. ASSUME AStop PROVE CountsStill'
  <2>1. UNCHANGED <<commands, target>>
    BY <1>14 DEF AStop, Pausing, Moving, Exiting, Ignored, Stopping, listVars, coreVars, counts
  <2> QED BY <2>1 DEF CountsStill, Counting, Resumes
<1>15. ASSUME \/ Outdated
              \/ Connecting
              \/ Listing
              \/ Reopening
      PROVE  CountsStill'
  <2>1. UNCHANGED <<commands, target>>
    BY <1>15 DEF Outdated, Hearing, Connecting, Listing, Reopening, listVars, coreVars, counts
  <2> QED BY <2>1 DEF CountsStill, Counting, Resumes
<1> QED BY <1>1, <1>2, <1>3, <1>4, <1>5, <1>6, <1>7, <1>8, <1>9, <1>10, <1>11, <1>12, <1>13,
          <1>14, <1>15
       DEF Step, AnEdit, ARequest, ACoreStep, AStop, AnAnswer

(* The hit counts the list shows are LLDB's. *)
LEMMA CurrAgreesStep ==
  ASSUME Shape,
         Phase,
         "renumber" \notin mishaps,
         coreUp,
         coreUp',
         Step,
         fault' = "none",
         Fresh,
         Numbers,
         InstallsInOrder,
         Matched,
         AskedStill,
         Snapped,
         NotYet,
         "staleHits" \notin mishaps,
         CountsStill,
         CurrAgrees,
         WatchedZero,
         IgnoreAgrees
  PROVE  CurrAgrees'
<1>1. ASSUME \/ \E op : Broken(op)
             \/ \E op : NoBreakpoint(op)
             \/ \E r : Loading(r)
             \/ Ending
             \/ Load
             \/ Disconnecting
      PROVE  CurrAgrees'
  <2> QED BY <1>1, Impossible
<1>2. ASSUME NEW i, NEW r, Adding(i, r) PROVE CurrAgrees'
  <2> AnEdit
    BY <1>2 DEF AnEdit
  <2>1. UNCHANGED core /\ (Rerun' <=> Rerun) /\ (Counts' <=> Counts)
    BY EditKeeps, RunKept
  <2>2. DOMAIN list' = DOMAIN list \cup {i} /\ \A j \in DOMAIN list : list'[j] = list[j]
    BY <1>2, AddingLists
  <2>3. i \notin DOMAIN core
    <3>1. i = <<"code", nextNum>>
      BY <1>2, AddingLists
    <3>2. <<"code", nextNum>> \notin DOMAIN core
      BY NewUnknown
    <3> QED BY <3>1, <3>2
  <2> QED BY <2>1, <2>2, <2>3 DEF CurrAgrees, Ran
<1>3. ASSUME (\E S, r : Removing(S, r)) \/ (\E op, S, r : Changing(op, S, r))
      PROVE  CurrAgrees'
  <2> AnEdit
    BY <1>3 DEF AnEdit
  <2>1. UNCHANGED core /\ (Rerun' <=> Rerun) /\ (Counts' <=> Counts)
    BY EditKeeps, RunKept
  <2>2. DOMAIN list' \subseteq DOMAIN list /\ \A j \in DOMAIN list' : list'[j].curr = list[j].curr
    <3>1. CASE \E S, r : Removing(S, r)
      BY <3>1 DEF Removing, Same
    <3>2. CASE \E op, S, r : Changing(op, S, r)
      BY <3>2 DEF Changing
    <3> QED BY <1>3, <3>1, <3>2
  <2> QED BY <2>1, <2>2 DEF CurrAgrees, Ran
<1>4. ASSUME Asking \/ Continuing \/ Shutting
      PROVE  CurrAgrees'
  <2>1. UNCHANGED <<list, core>> /\ (Rerun' <=> Rerun) /\ (Counts' <=> Counts)
    BY <1>4, AskingSends, RunKept
  <2> QED BY <2>1 DEF CurrAgrees, Ran
<1>5. ASSUME NEW r, Launching(r) PROVE CurrAgrees'
  <2>1. DOMAIN list' = DOMAIN list /\ \A j \in DOMAIN list' : list'[j].curr = 0
    BY <1>5 DEF Launching
  <2>2. Len(commands') \in Resumes' /\ commands'[Len(commands')] = Plain("run")
    BY <1>5, LaunchKinds, LaunchingSends DEF Resumes
  <2>3. Rerun'
    BY <2>2 DEF Rerun, Plain
  <2> QED BY <2>1, <2>3 DEF CurrAgrees, Ran
<1>6. ASSUME NEW n, NEW locs, Installing(n, locs) PROVE CurrAgrees'
  <2> DEFINE c == commands[1].id
  <2>1. UNCHANGED list /\ (Rerun' <=> Rerun) /\ (Counts' <=> Counts)
    BY <1>6, RunWaits, RunKept
  <2>2. /\ DOMAIN core' = DOMAIN core \cup {c} /\ \A i \in DOMAIN core : core'[i] = core[i]
        /\ core'[c].hits = 0 /\ (c \in DOMAIN list => list[c].curr = 0)
    BY <1>6, NewInCore
  <2> HIDE DEF c
  <2> QED BY <2>1, <2>2 DEF CurrAgrees, Ran
<1>7. ASSUME NEW n, Watching(n) PROVE CurrAgrees'
  <2> DEFINE c == <<"watch", n>>
  <2>1. UNCHANGED list /\ (Rerun' <=> Rerun) /\ (Counts' <=> Counts)
    BY <1>7, RunWaits, RunKept
  <2>2. DOMAIN core' = DOMAIN core \cup {c} /\ (\A i \in DOMAIN core : core'[i] = core[i]) /\ c \notin DOMAIN list
    BY <1>7, NewWatchInCore
  <2> HIDE DEF c
  <2> QED BY <2>1, <2>2 DEF CurrAgrees, Ran
<1>8. ASSUME Refusing \/ (\E op : Setting(op)) \/ Dropping
      PROVE  CurrAgrees'
  <2>1. UNCHANGED list /\ (Rerun' <=> Rerun) /\ (Counts' <=> Counts)
    BY <1>8, RunWaits, RunKept
  <2>2. DOMAIN core' \subseteq DOMAIN core /\ \A i \in DOMAIN core' : core'[i].hits = core[i].hits
    BY <1>8, HitsKept
  <2> QED BY <2>1, <2>2 DEF CurrAgrees, Ran
<1>9. ASSUME Starting \/ Resuming
      PROVE  CurrAgrees'
  <2>1. ~Counts'
    BY <1>9, RunCounts
  <2> QED BY <2>1 DEF CurrAgrees, Ran
<1>10. ASSUME \/ Pausing
              \/ Exiting
              \/ \E i : Ignored(i)
              \/ \E i : Stopping(i)
      PROVE  CurrAgrees'
  <2> AStop
    BY <1>10 DEF AStop
  <2>1. ~Counts'
    BY WhileRunning DEF Counts
  <2> QED BY <2>1 DEF CurrAgrees, Ran
<1>11. ASSUME Leaving PROVE CurrAgrees'
  <2>1. ~Counts'
    <3>1. target' = "loaded" /\ Resumes' = {}
      BY <1>11, RunEnds DEF Leaving
    <3> QED BY <3>1 DEF Counts
  <2> QED BY <2>1 DEF CurrAgrees, Ran
<1>12. ASSUME Updating PROVE CurrAgrees'
  <2> AnAnswer
    BY <1>12 DEF AnAnswer
  <2>1. Resumes' = {} /\ UNCHANGED core
    BY <1>12, RunEnds
  <2>2. ~Rerun'
    BY <2>1 DEF Rerun
  <2>3. 1 \in Stops
    BY <1>12, AnswerKinds DEF Updating, Hearing, Stops
  <2>4. /\ DOMAIN list' = DOMAIN list
        /\ \A i \in DOMAIN list :
             /\ i \in DOMAIN answers[1].bps => list'[i].curr = answers[1].bps[i].hits
             /\ i \notin DOMAIN answers[1].bps => list'[i].curr = list[i].curr
    BY <1>12 DEF Updating
  <2>5. \A i \in DOMAIN list \cap DOMAIN core : list'[i].curr = core[i].hits
    BY <2>3, <2>4 DEF Snapped
  <2> QED BY <2>1, <2>2, <2>4, <2>5 DEF CurrAgrees, Ran
<1>13. ASSUME Outdated \/ Connecting \/ Reopening
      PROVE  CurrAgrees'
  <2>1. UNCHANGED core /\ (Rerun' <=> Rerun) /\ (Counts' <=> Counts)
    BY <1>13, MainPops, RunKept DEF AnAnswer
  <2>2. DOMAIN list' = DOMAIN list /\ \A j \in DOMAIN list : list'[j].curr = list[j].curr
    <3>1. CASE Outdated \/ Reopening
      BY <3>1 DEF Outdated, Reopening, listVars
    <3>2. CASE Connecting
      <4>1. DOMAIN list' = DOMAIN list /\ \A i \in DOMAIN list : i = answers[1].id \/ list'[i] = list[i]
        BY <3>2 DEF Connecting, Same
      <4>2. list'[answers[1].id].curr = list[answers[1].id].curr
        BY <3>2 DEF Connecting
      <4> QED BY <4>1, <4>2
    <3> QED BY <1>13, <3>1, <3>2
  <2> QED BY <2>1, <2>2 DEF CurrAgrees, Ran
<1>14. ASSUME Listing PROVE CurrAgrees'
  <2> DEFINE w == answers[1].id
  <2>1. UNCHANGED core /\ (Rerun' <=> Rerun) /\ (Counts' <=> Counts)
    BY <1>14, MainPops, RunKept DEF AnAnswer
  <2>2. DOMAIN list' = DOMAIN list \cup {w} /\ Same(list', list, DOMAIN list \ {w}) /\ list'[w].curr = 0
    BY <1>14 DEF Listing
  <2>3. 1 \in Watched
    BY <1>14, AnswerKinds DEF AnAnswer, Listing, Hearing, Watched
  <2>4. Counts => Ends = {}
    BY DEF Counts, Phase
  <2>5. Counts => Ran(w) = 0
    BY <2>3, <2>4 DEF WatchedZero
  <2> HIDE DEF w
  <2> SUFFICES ASSUME Counts, NEW i \in DOMAIN list' \cap DOMAIN core PROVE list'[i].curr = Ran(i)
    BY <2>1, Zenon DEF CurrAgrees, Ran
  <2>6. CASE i = w
    BY <2>2, <2>5, <2>6
  <2>7. CASE i # w
    BY <2>2, <2>7 DEF CurrAgrees, Same
  <2> QED BY <2>6, <2>7
<1>15. ASSUME \/ CancelDialog
              \/ AttachFirst
      PROVE  CurrAgrees'
  <2>1. UNCHANGED <<commands, target, list, core>>
    BY <1>15 DEF CancelDialog, AttachFirst, listVars, coreVars, counts
  <2> QED BY <2>1 DEF CurrAgrees, Counts, Resumes, Ran, Rerun
<1> QED BY <1>1, <1>2, <1>3, <1>4, <1>5, <1>6, <1>7, <1>8, <1>9, <1>10, <1>11, <1>12, <1>13,
          <1>14, <1>15
       DEF Step, AnEdit, ARequest, ACoreStep, AStop, AnAnswer

(* A watchpoint that is about to be listed has not been hit. *)
LEMMA WatchedZeroStep ==
  ASSUME Shape,
         Phase,
         "renumber" \notin mishaps,
         coreUp,
         coreUp',
         Step,
         fault' = "none",
         Fresh,
         Numbers,
         InstallsInOrder,
         Matched,
         AskedStill,
         Snapped,
         NotYet,
         "staleHits" \notin mishaps,
         CountsStill,
         CurrAgrees,
         WatchedZero,
         IgnoreAgrees
  PROVE  WatchedZero'
<1>1. ASSUME \/ \E op : Broken(op)
             \/ \E op : NoBreakpoint(op)
             \/ \E r : Loading(r)
             \/ Ending
             \/ Load
             \/ Disconnecting
      PROVE  WatchedZero'
  <2> QED BY <1>1, Impossible
<1>2. ASSUME (\E i, r : Adding(i, r)) \/ (\E S, r : Removing(S, r)) \/ (\E op, S, r : Changing(op, S, r))
      PROVE  WatchedZero'
  <2> AnEdit
    BY <1>2 DEF AnEdit
  <2>1. UNCHANGED <<core, answers>> /\ (Rerun' <=> Rerun) /\ (Counts' <=> Counts)
    BY EditKeeps, RunKept
  <2> QED BY <2>1 DEF WatchedZero, Ran, Watched, Ends
<1>3. ASSUME Asking \/ Continuing \/ Shutting
      PROVE  WatchedZero'
  <2>1. UNCHANGED <<answers, core>> /\ (Rerun' <=> Rerun) /\ (Counts' <=> Counts)
    BY <1>3, AskingSends, RunKept
  <2> QED BY <2>1 DEF WatchedZero, Ran, Watched, Ends
<1>4. ASSUME NEW r, Launching(r) PROVE WatchedZero'
  <2>2. Len(commands') \in Resumes' /\ commands'[Len(commands')] = Plain("run")
    BY <1>4, LaunchKinds, LaunchingSends DEF Resumes
  <2>3. Rerun'
    BY <2>2 DEF Rerun, Plain
  <2> QED BY <2>3 DEF WatchedZero, Ran
<1>5. ASSUME NEW n, NEW locs, Installing(n, locs) PROVE WatchedZero'
  <2>1. Ends' = Ends /\ (Rerun' <=> Rerun) /\ (Counts' <=> Counts)
    BY <1>5, RunWaits, RunKept
  <2>2. \A i \in DOMAIN core : core'[i] = core[i]
    BY <1>5, NewInCore
  <2>3. Watched' = Watched /\ \A k \in Watched : answers'[k] = answers[k]
    BY <1>5, WatchedKept
  <2>4. \A k \in Watched : answers[k].id \in DOMAIN core
    BY DEF Matched, WatchesKnown
  <2> QED BY <2>1, <2>2, <2>3, <2>4 DEF WatchedZero, Ran
<1>6. ASSUME NEW n, Watching(n) PROVE WatchedZero'
  <2> DEFINE w == <<"watch", n>>
  <2>1. Ends' = Ends /\ (Rerun' <=> Rerun) /\ (Counts' <=> Counts)
    BY <1>6, RunWaits, RunKept
  <2>2. /\ \A i \in DOMAIN core : core'[i] = core[i]
        /\ core'[w].hits = 0
        /\ \A k \in Watched' : (k \in Watched /\ answers'[k] = answers[k]) \/ answers'[k].id = w
    BY <1>6, NewWatchInCore
  <2>4. \A k \in Watched : answers[k].id \in DOMAIN core
    BY DEF Matched, WatchesKnown
  <2> HIDE DEF w
  <2> QED BY <2>1, <2>2, <2>4 DEF WatchedZero, Ran
<1>7. ASSUME Refusing \/ (\E op : Setting(op)) \/ Dropping
      PROVE  WatchedZero'
  <2>1. Ends' = Ends /\ (Rerun' <=> Rerun) /\ (Counts' <=> Counts)
    BY <1>7, RunWaits, RunKept
  <2>2. DOMAIN core' \subseteq DOMAIN core /\ \A i \in DOMAIN core' : core'[i].hits = core[i].hits
    BY <1>7, HitsKept
  <2>3. Watched' = Watched /\ \A k \in Watched : answers'[k] = answers[k]
    BY <1>7, WatchedKept
  <2>4. \A k \in Watched' : answers'[k].id \in DOMAIN core'
    BY WatchesKnownStep DEF WatchesKnown
  <2> QED BY <2>1, <2>2, <2>3, <2>4 DEF WatchedZero, Ran
<1>8. ASSUME Starting \/ Resuming
      PROVE  WatchedZero'
  <2>1. ~Counts'
    BY <1>8, RunCounts
  <2> QED BY <2>1 DEF WatchedZero, Ran
<1>9. ASSUME \/ Pausing
             \/ Exiting
             \/ \E i : Ignored(i)
             \/ \E i : Stopping(i)
      PROVE  WatchedZero'
  <2> AStop
    BY <1>9 DEF AStop
  <2>1. ~Counts'
    BY WhileRunning DEF Counts
  <2> QED BY <2>1 DEF WatchedZero, Ran
<1>10. ASSUME Leaving PROVE WatchedZero'
  <2>1. ~Counts'
    <3>1. target' = "loaded" /\ Resumes' = {}
      BY <1>10, RunEnds DEF Leaving
    <3> QED BY <3>1 DEF Counts
  <2> QED BY <2>1 DEF WatchedZero, Ran
<1>11. ASSUME Updating PROVE WatchedZero'
  <2> AnAnswer
    BY <1>11 DEF AnAnswer
  <2>1. \A k \in Watched : k < 1
    BY <1>11, RunEnds DEF AskedStill
  <2>2. \A k \in Watched' : k + 1 \in Watched /\ k \in Int /\ k >= 1
    BY AnswerKinds DEF Watched
  <2>3. Watched' = {}
    BY <2>1, <2>2
  <2> QED BY <2>3 DEF WatchedZero, Ran
<1>12. ASSUME \/ Outdated
              \/ Connecting
              \/ Reopening
              \/ Listing
      PROVE  WatchedZero'
  <2> AnAnswer
    BY <1>12 DEF AnAnswer
  <2>1. UNCHANGED core /\ (Rerun' <=> Rerun) /\ (Counts' <=> Counts)
    BY <1>12, MainPops, RunKept
  <2>2. \A k \in Watched' : k + 1 \in Watched /\ answers'[k] = answers[k + 1]
    BY AnswerKinds DEF Watched
  <2>3. answers[1].op \notin {"stopped", "exited"}
    BY <1>12 DEF Outdated, Connecting, Reopening, Listing, Hearing
  <2>4. Ends' = {} => Ends = {}
    <3>1. \A k \in Ends : k - 1 \in Ends'
      BY <2>3, MainPops, KindPops DEF Ends
    <3> QED BY <3>1
  <2> QED BY <2>1, <2>2, <2>4 DEF WatchedZero, Ran
<1>13. ASSUME \/ CancelDialog
              \/ AttachFirst
      PROVE  WatchedZero'
  <2>1. UNCHANGED <<commands, target, answers, core>>
    BY <1>13 DEF CancelDialog, AttachFirst, listVars, coreVars, counts
  <2> QED BY <2>1 DEF WatchedZero, Watched, Ends, Counts, Resumes, Ran, Rerun
<1> QED BY <1>1, <1>2, <1>3, <1>4, <1>5, <1>6, <1>7, <1>8, <1>9, <1>10, <1>11, <1>12, <1>13
       DEF Step, AnEdit, ARequest, ACoreStep, AStop, AnAnswer

-----------------------------------------------------------------------------
(* What LLDB is to ignore                                                  *)

(* What concerns the breakpoint is left alone. *)
LEMMA IgnoreKept ==
  ASSUME IgnoreAgrees, target \in {"running", "stopped"}, NEW i \in DOMAIN list,
         On(commands', {"ignore"}, i) = On(commands, {"ignore"}, i),
         \A k \in On(commands, {"ignore"}, i) : commands'[k] = commands[k],
         list'[i].hits = list[i].hits, list'[i].curr = list[i].curr,
         i \in DOMAIN core' <=> i \in DOMAIN core,
         i \in DOMAIN core => core'[i].ignore = core[i].ignore /\ core'[i].hits = core[i].hits,
         Rerun' <=> Rerun
  PROVE  Settled(i)'
<1>1. Settled(i)
  BY DEF IgnoreAgrees
<1>2. i \in DOMAIN core => Ran(i)' = Ran(i)
  BY DEF Ran
<1> QED BY <1>1, <1>2 DEF Settled

(* The command taken is no ignore count for the breakpoint. *)
LEMMA IgnorePopped ==
  ASSUME ACoreStep, IgnoreAgrees, target \in {"running", "stopped"}, NEW i \in DOMAIN list,
         commands[1].op # "ignore" \/ commands[1].id # i,
         i \in DOMAIN core' => IF i \in DOMAIN core THEN core'[i].ignore = core[i].ignore /\ Ran(i)' = Ran(i)
                               ELSE core'[i].ignore = 0 /\ core'[i].hits = 0,
         i \notin DOMAIN core' => i \notin DOMAIN core
  PROVE  Settled(i)'
<1> DEFINE K == On(commands, {"ignore"}, i)
           L == On(commands', {"ignore"}, i)
<1>1. UNCHANGED list
  BY CorePops
<1>2. Settled(i)
  BY DEF IgnoreAgrees
<1>3. /\ \A k \in L : k + 1 \in K /\ commands'[k] = commands[k + 1] /\ (Last(L, k) => Last(K, k + 1))
      /\ L = {} => K = {} \/ Last(K, 1)
  BY PopLast
<1>4. 1 \in K <=> commands[1].op \in {"ignore"} /\ commands[1].id = i
  BY PopLast
<1>5. /\ \A k \in K : Last(K, k) => commands[k].ignore = Ignoring(list[i].hits, list[i].curr)
      /\ K = {} => IF i \in DOMAIN core THEN core[i].ignore = Ignoring(list[i].hits, Ran(i))
                   ELSE list[i].hits = 0
  BY <1>2 DEF Settled
<1> HIDE DEF K, L
<1>6. L = {} => K = {}
  BY <1>3, <1>4 DEF Last
<1>7. \A k \in L : Last(L, k) => commands'[k].ignore = Ignoring(list[i].hits, list[i].curr)
  BY <1>3, <1>5
<1>8. ASSUME L = {}
      PROVE  IF i \in DOMAIN core' THEN core'[i].ignore = Ignoring(list[i].hits, Ran(i)')
             ELSE list[i].hits = 0
  <2>1. CASE i \in DOMAIN core
    BY <1>5, <1>6, <1>8, <2>1
  <2>2. CASE i \notin DOMAIN core /\ i \in DOMAIN core'
    <3>1. list[i].hits = 0 /\ core'[i].ignore = 0 /\ core'[i].hits = 0
      BY <1>5, <1>6, <1>8, <2>2
    <3>2. Ran(i)' = 0
      BY <3>1 DEF Ran
    <3>3. Ignoring(0, 0) = 0
      BY DEF Ignoring
    <3> QED BY <2>2, <3>1, <3>2, <3>3
  <2>3. CASE i \notin DOMAIN core /\ i \notin DOMAIN core'
    BY <1>5, <1>6, <1>8, <2>3
  <2> QED BY <2>1, <2>2, <2>3
<1> QED BY <1>1, <1>7, <1>8 DEF Settled, K, L

(* A hit uses up one of the hits to ignore. *)
LEMMA HitIgnores ==
  ASSUME NEW h \in 0..2, NEW x \in {0, 2}, NEW y, y = Ignoring(x, h)
  PROVE  (IF y > 0 THEN y - 1 ELSE 0) = Ignoring(x, IF h < 2 THEN h + 1 ELSE h)
<1>1. h \in {0, 1, 2}
  OBVIOUS
<1> QED BY <1>1 DEF Ignoring

(* LLDB ignores as many hits as the list says. *)
LEMMA IgnoreAgreesStep ==
  ASSUME Shape,
         Phase,
         "renumber" \notin mishaps,
         coreUp,
         coreUp',
         Step,
         fault' = "none",
         Fresh,
         Numbers,
         InstallsInOrder,
         Matched,
         AskedStill,
         Snapped,
         NotYet,
         "staleHits" \notin mishaps,
         CountsStill,
         CurrAgrees,
         WatchedZero,
         IgnoreAgrees
  PROVE  IgnoreAgrees'
<1>1. ASSUME \/ \E op : Broken(op)
             \/ \E op : NoBreakpoint(op)
             \/ \E r : Loading(r)
             \/ Ending
             \/ Load
             \/ Disconnecting
      PROVE  IgnoreAgrees'
  <2> QED BY <1>1, Impossible
<1>2. ASSUME NEW i, NEW r, Adding(i, r) PROVE IgnoreAgrees'
  <2> AnEdit
    BY <1>2 DEF AnEdit
  <2>1. UNCHANGED <<core, target>> /\ (Rerun' <=> Rerun)
    BY EditKeeps, RunKept
  <2>2. DOMAIN list' = DOMAIN list \cup {i} /\ \A j \in DOMAIN list : list'[j] = list[j]
    BY <1>2, AddingLists
  <2>3. i = <<"code", nextNum>> /\ i \notin DOMAIN list /\ list'[i].hits = 0
    BY <1>2, AddingLists
  <2>4. <<"code", nextNum>> \notin DOMAIN core /\ \A k \in Editing : commands[k].id # <<"code", nextNum>>
    BY NewUnknown
  <2>5. \A k \in Kind(commands, {"ignore"}) : k \in Kind(commands', {"ignore"}) /\ commands'[k] = commands[k]
    BY <1>2, AddKinds
  <2>6. \A k \in Kind(commands', {"ignore"}) : k \in Kind(commands, {"ignore"}) /\ commands'[k] = commands[k]
    BY <1>2, AddKinds
  <2> SUFFICES ASSUME target' \in {"running", "stopped"}, NEW j \in DOMAIN list' PROVE Settled(j)'
    BY DEF IgnoreAgrees
  <2>7. On(commands', {"ignore"}, j) = On(commands, {"ignore"}, j)
        /\ \A k \in On(commands, {"ignore"}, j) : commands'[k] = commands[k]
    BY <2>5, <2>6, OnSame
  <2>8. CASE j \in DOMAIN list
    BY <2>1, <2>2, <2>7, <2>8, IgnoreKept
  <2>9. CASE j = i
    <3>1. \A k \in Kind(commands, {"ignore"}) : k \in Editing
      BY DEF Editing, Kind, EditOps
    <3>2. On(commands', {"ignore"}, j) = {}
      BY <2>3, <2>4, <2>7, <2>9, <3>1 DEF On
    <3>3. j \notin DOMAIN core' /\ list'[j].hits = 0
      BY <2>1, <2>3, <2>4, <2>9
    <3> QED BY <3>2, <3>3 DEF Settled
  <2> QED BY <2>2, <2>8, <2>9
<1>3. ASSUME NEW S, NEW r, Removing(S, r) PROVE IgnoreAgrees'
  <2> AnEdit
    BY <1>3 DEF AnEdit
  <2>1. UNCHANGED <<core, target>> /\ (Rerun' <=> Rerun)
    BY EditKeeps, RunKept
  <2>2. DOMAIN list' \subseteq DOMAIN list /\ \A j \in DOMAIN list' : list'[j] = list[j]
    BY <1>3 DEF Removing, Same
  <2>5. \A k \in Kind(commands, {"ignore"}) : k \in Kind(commands', {"ignore"}) /\ commands'[k] = commands[k]
    BY <1>3, RemoveKinds
  <2>6. \A k \in Kind(commands', {"ignore"}) : k \in Kind(commands, {"ignore"}) /\ commands'[k] = commands[k]
    BY <1>3, RemoveKinds
  <2> SUFFICES ASSUME target' \in {"running", "stopped"}, NEW i \in DOMAIN list' PROVE Settled(i)'
    BY DEF IgnoreAgrees
  <2>7. On(commands', {"ignore"}, i) = On(commands, {"ignore"}, i)
        /\ \A k \in On(commands, {"ignore"}, i) : commands'[k] = commands[k]
    BY <2>5, <2>6, OnSame
  <2> QED BY <2>1, <2>2, <2>7, IgnoreKept
<1>4. ASSUME NEW op, NEW S, NEW r, Changing(op, S, r) PROVE IgnoreAgrees'
  <2> AnEdit
    BY <1>4 DEF AnEdit
  <2>1. UNCHANGED <<core, target>> /\ (Rerun' <=> Rerun)
    BY EditKeeps, RunKept
  <2>2. /\ DOMAIN list' = DOMAIN list /\ S \subseteq DOMAIN list
        /\ \A j \in DOMAIN list : op # "ignore" \/ j \notin S =>
             list'[j].hits = list[j].hits /\ list'[j].curr = list[j].curr
    BY <1>4 DEF Changing
  <2>3. \A k \in Kind(commands, {"ignore"}) : k \in Kind(commands', {"ignore"}) /\ commands'[k] = commands[k]
    BY <1>4, ChangeKinds
  <2>4. \A k \in Kind(commands', {"ignore"}) :
           \/ k \in Kind(commands, {"ignore"}) /\ commands'[k] = commands[k] /\ k <= Len(commands)
           \/ op = "ignore" /\ k > Len(commands) /\ commands'[k].id \in S
              /\ commands'[k].ignore = IgnoreCount(list'[commands'[k].id])
    BY <1>4, ChangeKinds
  <2>5. HasImpl
    BY UpHasImpl
  <2>6. op = "ignore" => \A i \in S : \E k \in Kind(commands', {"ignore"}) : k > Len(commands) /\ commands'[k].id = i
    BY <1>4, <2>5, ChangeKinds
  <2>7. Kind(commands, {"ignore"}) \subseteq Int /\ Kind(commands', {"ignore"}) \subseteq Int /\ Len(commands) \in Int
    BY <1>4, ChangeKinds
  <2> SUFFICES ASSUME target' \in {"running", "stopped"}, NEW i \in DOMAIN list' PROVE Settled(i)'
    BY DEF IgnoreAgrees
  <2>8. CASE op = "ignore" /\ i \in S
    <3>1. PICK m \in Kind(commands', {"ignore"}) : m > Len(commands) /\ commands'[m].id = i
      BY <2>6, <2>8
    <3>2. m \in On(commands', {"ignore"}, i)
      BY <3>1 DEF On
    <3>3. ASSUME NEW k \in On(commands', {"ignore"}, i), Last(On(commands', {"ignore"}, i), k)
          PROVE  commands'[k].ignore = Ignoring(list'[i].hits, list'[i].curr)
      <4>1. k \in Kind(commands', {"ignore"}) /\ commands'[k].id = i
        BY DEF On
      <4>2. m <= k
        BY <3>2, <3>3 DEF Last
      <4>3. k > Len(commands) /\ ~(k <= Len(commands))
        BY <2>7, <3>1, <4>1, <4>2
      <4>4. commands'[k].ignore = IgnoreCount(list'[i])
        BY <2>4, <4>1, <4>3
      <4> QED BY <4>4 DEF IgnoreCount, Ignoring
    <3> QED BY <3>2, <3>3 DEF Settled
  <2>9. CASE ~(op = "ignore" /\ i \in S)
    <3>1. list'[i].hits = list[i].hits /\ list'[i].curr = list[i].curr
      BY <2>2, <2>9
    <3>2. \A k \in Kind(commands', {"ignore"}) : (k \in Kind(commands, {"ignore"}) /\ commands'[k] = commands[k])
                                        \/ commands'[k].id # i
      BY <2>4, <2>9
    <3>3. On(commands', {"ignore"}, i) = On(commands, {"ignore"}, i)
          /\ \A k \in On(commands, {"ignore"}, i) : commands'[k] = commands[k]
      BY <2>3, <3>2, OnSame
    <3> QED BY <2>1, <2>2, <3>1, <3>3, IgnoreKept
  <2> QED BY <2>8, <2>9
<1>5. ASSUME Asking \/ Continuing
      PROVE  IgnoreAgrees'
  <2>1. UNCHANGED <<list, core>> /\ (Rerun' <=> Rerun) /\ target = "stopped"
    BY <1>5, AskingSends, RunKept DEF Asking, AddWatchpoint, Continuing, Continue
  <2>2. \A k \in Kind(commands, {"ignore"}) : k \in Kind(commands', {"ignore"}) /\ commands'[k] = commands[k]
    BY <1>5, AskKinds
  <2>3. \A k \in Kind(commands', {"ignore"}) : k \in Kind(commands, {"ignore"}) /\ commands'[k] = commands[k]
    BY <1>5, AskKinds
  <2> SUFFICES ASSUME target' \in {"running", "stopped"}, NEW i \in DOMAIN list' PROVE Settled(i)'
    BY DEF IgnoreAgrees
  <2>7. On(commands', {"ignore"}, i) = On(commands, {"ignore"}, i)
        /\ \A k \in On(commands, {"ignore"}, i) : commands'[k] = commands[k]
    BY <2>2, <2>3, OnSame
  <2> QED BY <2>1, <2>7, IgnoreKept
<1>6. ASSUME Shutting \/ Leaving
      PROVE  IgnoreAgrees'
  <2>1. target' \notin {"running", "stopped"}
    BY <1>6 DEF Shutting, Close, Leaving
  <2> QED BY <2>1 DEF IgnoreAgrees
<1>7. ASSUME NEW r, Launching(r) PROVE IgnoreAgrees'
  <2>1. DOMAIN list' = DOMAIN list
    BY <1>7 DEF Launching
  <2>2. \A k \in Kind(commands, {"ignore"}) : k <= Len(commands)
    BY <1>7, LaunchKinds
  <2>3. \A k \in Kind(commands', {"ignore"}) :
           k <= Len(commands) \/ commands'[k].ignore = IgnoreCount(list'[commands'[k].id])
    BY <1>7, LaunchKinds
  <2>4. \A i \in DOMAIN list : \E k \in Kind(commands', {"ignore"}) : k > Len(commands) /\ commands'[k].id = i
    BY <1>7, LaunchKinds
  <2>5. Kind(commands', {"ignore"}) \subseteq Int /\ Len(commands) \in Int
    BY <1>7, LaunchKinds
  <2> SUFFICES ASSUME target' \in {"running", "stopped"}, NEW i \in DOMAIN list' PROVE Settled(i)'
    BY DEF IgnoreAgrees
  <2>6. PICK m \in Kind(commands', {"ignore"}) : m > Len(commands) /\ commands'[m].id = i
    BY <2>1, <2>4
  <2>7. m \in On(commands', {"ignore"}, i)
    BY <2>6 DEF On
  <2>8. ASSUME NEW k \in On(commands', {"ignore"}, i), Last(On(commands', {"ignore"}, i), k)
        PROVE  commands'[k].ignore = Ignoring(list'[i].hits, list'[i].curr)
    <3>1. k \in Kind(commands', {"ignore"}) /\ commands'[k].id = i
      BY DEF On
    <3>2. m <= k
      BY <2>7, <2>8 DEF Last
    <3>3. ~(k <= Len(commands))
      BY <2>5, <2>6, <3>1, <3>2
    <3>4. commands'[k].ignore = IgnoreCount(list'[i])
      BY <2>3, <3>1, <3>3
    <3> QED BY <3>4 DEF IgnoreCount, Ignoring
  <2> QED BY <2>7, <2>8 DEF Settled
<1>8. ASSUME NEW n, NEW locs, Installing(n, locs) PROVE IgnoreAgrees'
  <2> DEFINE c == commands[1].id
  <2> ACoreStep
    BY <1>8 DEF ACoreStep
  <2>1. UNCHANGED <<list, target>> /\ (Rerun' <=> Rerun) /\ commands[1].op = "install"
    BY <1>8, RunWaits, RunKept DEF Installing, Up, Taking
  <2>2. /\ c \notin DOMAIN core /\ DOMAIN core' = DOMAIN core \cup {c}
        /\ \A i \in DOMAIN core : core'[i] = core[i]
        /\ core'[c].hits = 0 /\ core'[c].ignore = 0
    BY <1>8, NewInCore
  <2> HIDE DEF c
  <2> SUFFICES ASSUME target' \in {"running", "stopped"}, NEW i \in DOMAIN list' PROVE Settled(i)'
    BY DEF IgnoreAgrees
  <2>3. i \in DOMAIN core => Ran(i)' = Ran(i)
    BY <2>1, <2>2 DEF Ran
  <2>4. i \in DOMAIN core' => IF i \in DOMAIN core THEN core'[i].ignore = core[i].ignore /\ Ran(i)' = Ran(i)
                              ELSE core'[i].ignore = 0 /\ core'[i].hits = 0
    BY <2>2, <2>3
  <2>5. i \notin DOMAIN core' => i \notin DOMAIN core
    BY <2>2
  <2> QED BY <2>1, <2>4, <2>5, IgnorePopped
<1>9. ASSUME NEW n, Watching(n) PROVE IgnoreAgrees'
  <2> DEFINE w == <<"watch", n>>
  <2> ACoreStep
    BY <1>9 DEF ACoreStep
  <2>1. UNCHANGED <<list, target>> /\ (Rerun' <=> Rerun) /\ commands[1].op = "watch"
    BY <1>9, RunWaits, RunKept DEF Watching, Up, Taking
  <2>2. w \notin DOMAIN list /\ DOMAIN core' = DOMAIN core \cup {w} /\ \A i \in DOMAIN core : core'[i] = core[i]
    BY <1>9, NewWatchInCore
  <2> HIDE DEF w
  <2> SUFFICES ASSUME target' \in {"running", "stopped"}, NEW i \in DOMAIN list' PROVE Settled(i)'
    BY DEF IgnoreAgrees
  <2>3. i \in DOMAIN core => Ran(i)' = Ran(i)
    BY <2>1, <2>2 DEF Ran
  <2>4. i \in DOMAIN core' => IF i \in DOMAIN core THEN core'[i].ignore = core[i].ignore /\ Ran(i)' = Ran(i)
                              ELSE core'[i].ignore = 0 /\ core'[i].hits = 0
    BY <2>1, <2>2, <2>3
  <2>5. i \notin DOMAIN core' => i \notin DOMAIN core
    BY <2>2
  <2> QED BY <2>1, <2>4, <2>5, IgnorePopped
<1>10. ASSUME Refusing \/ Dropping
      PROVE  IgnoreAgrees'
  <2> ACoreStep
    BY <1>10 DEF ACoreStep
  <2>1. UNCHANGED <<list, target>> /\ (Rerun' <=> Rerun) /\ commands[1].op \in {"watch", "remove"}
    BY <1>10, RunWaits, RunKept DEF Refusing, Dropping, Up, Taking
  <2>2. DOMAIN core' \subseteq DOMAIN core /\ \A i \in DOMAIN core' : core'[i] = core[i]
    BY <1>10 DEF Refusing, Dropping, coreVars, Same
  <2>3. \A i \in DOMAIN list : i \in DOMAIN core => i \in DOMAIN core'
    <3>1. CASE Refusing
      BY <3>1 DEF Refusing, coreVars
    <3>2. CASE Dropping
      <4>1. DOMAIN core' = DOMAIN core \ {commands[1].id} /\ commands[1].op = "remove"
        BY <3>2 DEF Dropping, Up, Taking
      <4>2. 1 \in Removals
        BY <4>1, CorePops, KindShrunk DEF Removals
      <4>3. commands[1].id \notin DOMAIN list
        BY <4>2 DEF Matched, ListKnown
      <4> QED BY <4>1, <4>3
    <3> QED BY <1>10, <3>1, <3>2
  <2> SUFFICES ASSUME target' \in {"running", "stopped"}, NEW i \in DOMAIN list' PROVE Settled(i)'
    BY DEF IgnoreAgrees
  <2>4. i \in DOMAIN core' => i \in DOMAIN core /\ core'[i].ignore = core[i].ignore /\ Ran(i)' = Ran(i)
    BY <2>1, <2>2 DEF Ran
  <2>5. i \in DOMAIN core' => IF i \in DOMAIN core THEN core'[i].ignore = core[i].ignore /\ Ran(i)' = Ran(i)
                              ELSE core'[i].ignore = 0 /\ core'[i].hits = 0
    BY <2>4
  <2>6. i \notin DOMAIN core' => i \notin DOMAIN core
    BY <2>1, <2>3
  <2> QED BY <2>1, <2>5, <2>6, IgnorePopped
<1>11. ASSUME NEW op, Setting(op) PROVE IgnoreAgrees'
  <2> ACoreStep
    BY <1>11 DEF ACoreStep
  <2>1. UNCHANGED <<list, target>> /\ (Rerun' <=> Rerun) /\ commands[1].op = op
    BY <1>11, RunWaits, RunKept DEF Setting, Up, Taking
  <2>2. DOMAIN core' = DOMAIN core /\ \A i \in DOMAIN core : core'[i].hits = core[i].hits
    BY <1>11, HitsKept DEF Setting
  <2>3. \A i \in DOMAIN core : op # "ignore" \/ i # commands[1].id => core'[i].ignore = core[i].ignore
    <3>1. \A i \in DOMAIN core : i = commands[1].id \/ core'[i] = core[i]
      BY <1>11 DEF Setting, Same
    <3>2. op # "ignore" => core'[commands[1].id].ignore = core[commands[1].id].ignore
      BY <1>11 DEF Setting
    <3> QED BY <3>1, <3>2
  <2>4. op = "ignore" => core'[commands[1].id].ignore = commands[1].ignore /\ commands[1].id \in DOMAIN core
    BY <1>11 DEF Setting
  <2> SUFFICES ASSUME target' \in {"running", "stopped"}, NEW i \in DOMAIN list' PROVE Settled(i)'
    BY DEF IgnoreAgrees
  <2>5. i \in DOMAIN core => Ran(i)' = Ran(i)
    BY <2>1, <2>2 DEF Ran
  <2>6. CASE op # "ignore" \/ commands[1].id # i
    <3>1. i \in DOMAIN core' => IF i \in DOMAIN core THEN core'[i].ignore = core[i].ignore /\ Ran(i)' = Ran(i)
                                ELSE core'[i].ignore = 0 /\ core'[i].hits = 0
      BY <2>2, <2>3, <2>5, <2>6
    <3> QED BY <2>1, <2>2, <2>6, <3>1, IgnorePopped
  <2>7. CASE op = "ignore" /\ commands[1].id = i
    <3> DEFINE K == On(commands, {"ignore"}, i)
               L == On(commands', {"ignore"}, i)
    <3>1. /\ \A k \in L : commands'[k] = commands[k + 1] /\ (Last(L, k) => Last(K, k + 1))
          /\ L = {} => K = {} \/ Last(K, 1)
      BY PopLast
    <3>2. 1 \in K
      <4>1. 1 \in K <=> commands[1].op \in {"ignore"} /\ commands[1].id = i
        BY PopLast
      <4> QED BY <2>1, <2>7, <4>1
    <3>3. \A k \in K : Last(K, k) => commands[k].ignore = Ignoring(list[i].hits, list[i].curr)
      BY <2>1 DEF IgnoreAgrees, Settled
    <3>4. 1 \in Counting
      BY <3>2 DEF Counting, On
    <3> HIDE DEF K, L
    <3>5. \A k \in L : Last(L, k) => commands'[k].ignore = Ignoring(list[i].hits, list[i].curr)
      BY <3>1, <3>3 DEF Last
    <3>6. Counts
      BY <2>1, <3>4 DEF Counts, CountsStill
    <3>7. list[i].curr = Ran(i) /\ i \in DOMAIN core
      BY <2>1, <2>4, <2>7, <3>6 DEF CurrAgrees
    <3>8. L = {} => commands[1].ignore = Ignoring(list[i].hits, list[i].curr)
      BY <3>1, <3>2, <3>3
    <3>9. L = {} => core'[i].ignore = Ignoring(list[i].hits, Ran(i)')
      BY <2>4, <2>5, <2>7, <3>7, <3>8
    <3>10. i \in DOMAIN core'
      BY <2>2, <3>7
    <3> QED BY <2>1, <3>5, <3>9, <3>10 DEF Settled, K, L
  <2> QED BY <2>6, <2>7
<1>12. ASSUME Starting \/ Resuming
      PROVE  IgnoreAgrees'
  <2> ACoreStep
    BY <1>12 DEF ACoreStep
  <2>1. UNCHANGED <<list, target>> /\ commands[1].op # "ignore"
    BY <1>12, RunStarts
  <2>2. ~Rerun' /\ \A i \in DOMAIN core : core'[i].hits = Ran(i) /\ core'[i].ignore = core[i].ignore
    BY <1>12, RunCounts
  <2>3. DOMAIN core' = DOMAIN core
    BY <1>12 DEF Starting, Resuming
  <2> SUFFICES ASSUME target' \in {"running", "stopped"}, NEW i \in DOMAIN list' PROVE Settled(i)'
    BY DEF IgnoreAgrees
  <2>4. i \in DOMAIN core => Ran(i)' = Ran(i) /\ core'[i].ignore = core[i].ignore
    BY <2>2 DEF Ran
  <2>5. i \in DOMAIN core' => IF i \in DOMAIN core THEN core'[i].ignore = core[i].ignore /\ Ran(i)' = Ran(i)
                              ELSE core'[i].ignore = 0 /\ core'[i].hits = 0
    BY <2>3, <2>4
  <2> QED BY <2>1, <2>3, <2>5, IgnorePopped
<1>13. ASSUME \/ Pausing
              \/ Exiting
              \/ \E i : Ignored(i)
              \/ \E i : Stopping(i)
      PROVE  IgnoreAgrees'
  <2> AStop
    BY <1>13 DEF AStop
  <2>1. /\ Resumes = {} /\ Resumes' = {} /\ UNCHANGED <<list, commands>> /\ target = "running"
    BY WhileRunning
  <2>2. ~Rerun /\ ~Rerun'
    BY <2>1 DEF Rerun
  <2>3. Counting = {}
    BY NoCounting
  <2> SUFFICES ASSUME target' \in {"running", "stopped"}, NEW i \in DOMAIN list' PROVE Settled(i)'
    BY DEF IgnoreAgrees
  <2>4. On(commands, {"ignore"}, i) = {}
    BY <2>3 DEF Counting, On
  <2>5. IF i \in DOMAIN core THEN core[i].ignore = Ignoring(list[i].hits, core[i].hits) ELSE list[i].hits = 0
    <3>1. Settled(i)
      BY <2>1 DEF IgnoreAgrees
    <3> QED BY <2>2, <2>4, <3>1 DEF Settled, Ran
  <2>6. IF i \in DOMAIN core' THEN core'[i].ignore = Ignoring(list[i].hits, core'[i].hits) ELSE list[i].hits = 0
    <3>1. CASE Pausing \/ Exiting
      BY <2>5, <3>1 DEF Pausing, Exiting
    <3>2. ASSUME NEW x, Ignored(x) \/ Stopping(x)
          PROVE  IF i \in DOMAIN core' THEN core'[i].ignore = Ignoring(list[i].hits, core'[i].hits)
                 ELSE list[i].hits = 0
      <4>1. Counted(x)
        BY <3>2 DEF Ignored, Stopping
      <4>2. DOMAIN core' = DOMAIN core /\ x \in DOMAIN core /\ \A j \in DOMAIN core : j = x \/ core'[j] = core[j]
        BY <4>1 DEF Counted, Same
      <4>3. CASE i # x
        BY <2>5, <4>2, <4>3
      <4>4. CASE i = x
        <5>1. core[x] \in CoreBreakpoint /\ list[i] \in Breakpoint
          BY <2>1, <4>2, CoreFields, ListFields
        <5>2. core[x].hits \in 0..2 /\ list[i].hits \in {0, 2}
          BY <5>1 DEF CoreBreakpoint, Breakpoint
        <5>3. /\ core'[x].hits = (IF core[x].hits < 2 THEN core[x].hits + 1 ELSE core[x].hits)
              /\ core'[x].ignore = (IF core[x].ignore > 0 THEN core[x].ignore - 1 ELSE 0)
          BY <4>1 DEF Counted
        <5>4. core[x].ignore = Ignoring(list[i].hits, core[x].hits)
          BY <2>5, <4>2, <4>4
        <5>5. core'[x].ignore = Ignoring(list[i].hits, core'[x].hits)
          BY <5>2, <5>3, <5>4, HitIgnores
        <5> QED BY <4>2, <4>4, <5>5
      <4> QED BY <4>3, <4>4
    <3> QED BY <1>13, <3>1, <3>2
  <2>7. On(commands', {"ignore"}, i) = {}
    BY <2>1, <2>4
  <2>8. i \in DOMAIN core' => Ran(i)' = core'[i].hits
    BY <2>2 DEF Ran
  <2> QED BY <2>1, <2>6, <2>7, <2>8 DEF Settled
<1>14. ASSUME Updating PROVE IgnoreAgrees'
  <2>1. UNCHANGED <<core, commands>>
    BY <1>14, RunEnds
  <2>2. Counting = {} /\ target = "running"
    BY <1>14, NoCounting
  <2>3. DOMAIN list' = DOMAIN list /\ \A i \in DOMAIN list : list'[i].hits = list[i].hits
    BY <1>14 DEF Updating
  <2> SUFFICES ASSUME target' \in {"running", "stopped"}, NEW i \in DOMAIN list' PROVE Settled(i)'
    BY DEF IgnoreAgrees
  <2>4. On(commands, {"ignore"}, i) = {}
    BY <2>2 DEF Counting, On
  <2>5. Settled(i)
    BY <2>2, <2>3 DEF IgnoreAgrees
  <2>6. Ran(i)' = Ran(i)
    BY <2>1 DEF Ran, Rerun, Resumes
  <2> QED BY <2>1, <2>3, <2>4, <2>5, <2>6 DEF Settled
<1>15. ASSUME Outdated \/ Connecting \/ Reopening
      PROVE  IgnoreAgrees'
  <2>1. UNCHANGED <<core, commands, target>> /\ (Rerun' <=> Rerun)
    BY <1>15, MainPops, RunKept DEF AnAnswer, Outdated, Connecting, Reopening
  <2>2. DOMAIN list' = DOMAIN list
        /\ \A j \in DOMAIN list : list'[j].curr = list[j].curr /\ list'[j].hits = list[j].hits
    <3>1. CASE Outdated \/ Reopening
      BY <3>1 DEF Outdated, Reopening, listVars
    <3>2. CASE Connecting
      <4>1. DOMAIN list' = DOMAIN list /\ \A i \in DOMAIN list : i = answers[1].id \/ list'[i] = list[i]
        BY <3>2 DEF Connecting, Same
      <4>2. /\ list'[answers[1].id].curr = list[answers[1].id].curr
            /\ list'[answers[1].id].hits = list[answers[1].id].hits
        BY <3>2 DEF Connecting
      <4> QED BY <4>1, <4>2
    <3> QED BY <1>15, <3>1, <3>2
  <2> SUFFICES ASSUME target' \in {"running", "stopped"}, NEW i \in DOMAIN list' PROVE Settled(i)'
    BY DEF IgnoreAgrees
  <2> QED BY <2>1, <2>2, IgnoreKept
<1>16. ASSUME Listing PROVE IgnoreAgrees'
  <2> DEFINE w == answers[1].id
  <2>1. UNCHANGED <<core, commands, target>> /\ (Rerun' <=> Rerun)
    BY <1>16, MainPops, RunKept DEF AnAnswer, Listing
  <2>2. DOMAIN list' = DOMAIN list \cup {w} /\ Same(list', list, DOMAIN list \ {w}) /\ list'[w].hits = 0
    BY <1>16 DEF Listing
  <2>3. 1 \in Watched
    BY <1>16, AnswerKinds DEF AnAnswer, Listing, Hearing, Watched
  <2>4. w \in DOMAIN core /\ core[w].ignore = 0 /\ \A k \in Editing : commands[k].id # w
    BY <2>3 DEF Matched, WatchesKnown
  <2> HIDE DEF w
  <2> SUFFICES ASSUME target' \in {"running", "stopped"}, NEW i \in DOMAIN list' PROVE Settled(i)'
    BY DEF IgnoreAgrees
  <2>5. CASE i = w
    <3>1. \A k \in Kind(commands, {"ignore"}) : k \in Editing
      BY DEF Editing, Kind, EditOps
    <3>2. On(commands', {"ignore"}, i) = {}
      BY <2>1, <2>4, <2>5, <3>1 DEF On
    <3>3. core[w] \in CoreBreakpoint
      BY <2>4, CoreFields
    <3>4. Ran(i)' \in 0..2
      BY <2>1, <2>5, <3>3 DEF Ran, CoreBreakpoint
    <3>5. Ignoring(0, Ran(i)') = 0
      BY <3>4 DEF Ignoring
    <3> QED BY <2>1, <2>2, <2>4, <2>5, <3>2, <3>5 DEF Settled
  <2>6. CASE i # w
    <3>1. i \in DOMAIN list /\ list'[i] = list[i]
      BY <2>2, <2>6 DEF Same
    <3> QED BY <2>1, <3>1, IgnoreKept
  <2> QED BY <2>5, <2>6
<1>17. ASSUME \/ CancelDialog
              \/ AttachFirst
      PROVE  IgnoreAgrees'
  <2>1. UNCHANGED <<commands, target, list, core>>
    BY <1>17 DEF CancelDialog, AttachFirst, listVars, coreVars, counts
  <2> QED BY <2>1 DEF IgnoreAgrees, Settled, On, Ran, Rerun, Resumes
<1> QED BY <1>1, <1>2, <1>3, <1>4, <1>5, <1>6, <1>7, <1>8, <1>9, <1>10, <1>11, <1>12, <1>13,
          <1>14, <1>15, <1>16, <1>17
       DEF Step, AnEdit, ARequest, ACoreStep, AStop, AnAnswer

-----------------------------------------------------------------------------
(* Where the breakpoints are                                               *)

(* The answers that tell of an install, when the first answer is taken. *)
LEMMA ToldPops ==
  ASSUME AnAnswer, NEW i
  PROVE  /\ Installed(i) \subseteq Int /\ Installed(i)' \subseteq Int
         /\ \A j \in Installed(i)' : j + 1 \in Installed(i) /\ answers'[j] = answers[j + 1] /\ j >= 1
         /\ \A j \in Installed(i) : j = 1 \/ (j - 1 \in Installed(i)' /\ answers'[j - 1] = answers[j] /\ j > 1)
         /\ 1 \in Installed(i) <=> answers[1].op = "installed" /\ answers[1].id = i
<1>1. /\ Kind(answers, {"installed"}) \subseteq Int /\ Kind(answers', {"installed"}) \subseteq Int
      /\ \A k \in Kind(answers', {"installed"}) :
           k + 1 \in Kind(answers, {"installed"}) /\ answers'[k] = answers[k + 1] /\ k >= 1
      /\ \A k \in Kind(answers, {"installed"}) :
           k = 1 \/ (k - 1 \in Kind(answers', {"installed"}) /\ answers'[k - 1] = answers[k] /\ k > 1)
      /\ answers[1].op \in {"installed"} <=> 1 \in Kind(answers, {"installed"})
  BY AnswerKinds
<1>2. Installed(i)' = On(answers', {"installed"}, i)
  BY DEF Installed, On
<1>3. Installed(i) \subseteq Int /\ Installed(i)' \subseteq Int
  BY <1>1, <1>2 DEF Installed, On
<1>4. \A j \in Installed(i)' : j + 1 \in Installed(i) /\ answers'[j] = answers[j + 1] /\ j >= 1
  BY <1>1, <1>2 DEF Installed, On
<1>5. \A j \in Installed(i) : j = 1 \/ (j - 1 \in Installed(i)' /\ answers'[j - 1] = answers[j] /\ j > 1)
  BY <1>1, <1>2 DEF Installed, On
<1>6. 1 \in Installed(i) <=> answers[1].op = "installed" /\ answers[1].id = i
  BY <1>1 DEF Installed, On
<1> QED BY <1>3, <1>4, <1>5, <1>6

(* These steps tell of no install. *)
LEMMA ToldKept ==
  ASSUME \/ \E n : Watching(n)
         \/ Refusing \/ Dropping \/ Pausing \/ Exiting
         \/ \E op : Setting(op)
         \/ \E i : Stopping(i),
         NEW i
  PROVE  Installed(i)' = Installed(i) /\ \A j \in Installed(i) : answers'[j] = answers[j]
<1>1. ASSUME NEW a, Telling(a), a.op # "installed"
      PROVE  Installed(i)' = Installed(i) /\ \A j \in Installed(i) : answers'[j] = answers[j]
  <2>1. Kind(answers', {"installed"}) = Kind(answers, {"installed"})
    BY <1>1, TellingKinds
  <2>2. \A k \in Kind(answers, {"installed"}) : answers'[k] = answers[k]
    BY <1>1, TellingKinds
  <2> QED BY <2>1, <2>2 DEF Installed, On
<1>2. ASSUME NEW n, Watching(n)
      PROVE  Installed(i)' = Installed(i) /\ \A j \in Installed(i) : answers'[j] = answers[j]
  BY <1>1, <1>2 DEF Watching
<1>3. CASE Refusing
  BY <1>1, <1>3 DEF Refusing
<1>4. CASE Dropping \/ \E op : Setting(op)
  <2>1. UNCHANGED answers
    BY <1>4 DEF Dropping, Setting
  <2> QED BY <2>1 DEF Installed, On
<1>5. CASE Pausing
  BY <1>1, <1>5 DEF Pausing
<1>6. CASE Exiting
  BY <1>1, <1>6 DEF Exiting
<1>7. ASSUME NEW x, Stopping(x)
      PROVE  Installed(i)' = Installed(i) /\ \A j \in Installed(i) : answers'[j] = answers[j]
  BY <1>1, <1>7 DEF Stopping
<1> QED BY <1>2, <1>3, <1>4, <1>5, <1>6, <1>7

(* An install tells of itself, and of nothing else. *)
LEMMA ToldAdded ==
  ASSUME Shape, Fresh, InstallsInOrder, NEW n, NEW locs, Installing(n, locs)
  PROVE  /\ \A i : i # commands[1].id =>
              Installed(i)' = Installed(i) /\ \A j \in Installed(i) : answers'[j] = answers[j]
         /\ \A i : i = commands[1].id => Installed(i)' = {Len(answers) + 1}
         /\ answers'[Len(answers) + 1].locs = locs
         /\ Len(answers) \in Int /\ \A k \in Stops : k < Len(answers) + 1
<1> DEFINE c == commands[1].id
           a == [op |-> "installed", id |-> c, num |-> n, locs |-> locs]
<1>1. Telling(a) /\ a.op = "installed" /\ a.id = c /\ a.locs = locs
  BY DEF Installing
<1>2. 1 \in Installs
  BY InstallNumber
<1> HIDE DEF a, c
<1>3. /\ \A k \in Kind(answers, {"installed"}) : k \in Kind(answers', {"installed"}) /\ answers'[k] = answers[k]
      /\ \A k \in Kind(answers', {"installed"}) :
           \/ k \in Kind(answers, {"installed"}) /\ answers'[k] = answers[k]
           \/ k = Len(answers) + 1 /\ answers'[k] = a
      /\ Len(answers) + 1 \in Kind(answers', {"installed"}) /\ answers'[Len(answers) + 1] = a
  <2>1. a.op \in {"installed"}
    BY <1>1
  <2> QED BY <1>1, <2>1, TellingKinds
<1>4. \A k \in Kind(answers, {"installed"}) : answers[k].id # c
  BY <1>2 DEF Fresh, Told, c
<1>5. ASSUME NEW i, i # c
      PROVE  Installed(i)' = Installed(i) /\ \A j \in Installed(i) : answers'[j] = answers[j]
  BY <1>1, <1>3, <1>5 DEF Installed, On
<1>6. ASSUME NEW i, i = c PROVE Installed(i)' = {Len(answers) + 1}
  <2>1. Installed(i)' = On(answers', {"installed"}, i)
    BY DEF Installed, On
  <2>2. On(answers', {"installed"}, i) = {Len(answers) + 1}
    BY <1>1, <1>3, <1>4, <1>6 DEF On
  <2> QED BY <2>1, <2>2
<1>7. Len(answers) \in Int /\ \A k \in Stops : k < Len(answers) + 1
  BY <1>1 DEF Telling, Added, Stops, Kind
<1> QED BY <1>1, <1>3, <1>5, <1>6, <1>7 DEF c

(* A stop that is on its way knows where LLDB has put a breakpoint, or comes first. *)
LEMMA StopSitesStep ==
  ASSUME Shape,
         Phase,
         "renumber" \notin mishaps,
         coreUp,
         coreUp',
         Step,
         fault' = "none",
         Fresh,
         Numbers,
         InstallsInOrder,
         Matched,
         AskedStill,
         Snapped,
         NotYet,
         StopSites,
         StoppedSites
  PROVE  StopSites'
<1>1. ASSUME \/ \E op : Broken(op)
             \/ \E op : NoBreakpoint(op)
             \/ \E r : Loading(r)
             \/ Ending
             \/ Load
             \/ Disconnecting
      PROVE  StopSites'
  <2> QED BY <1>1, Impossible
<1>2. ASSUME NEW i, NEW r, Adding(i, r) PROVE StopSites'
  <2> AnEdit
    BY <1>2 DEF AnEdit
  <2>1. UNCHANGED <<answers, core>>
    BY EditKeeps
  <2>2. DOMAIN list' = DOMAIN list \cup {i} /\ \A j \in DOMAIN list : list'[j] = list[j]
    BY <1>2, AddingLists
  <2>3. i = <<"code", nextNum>>
    BY <1>2, AddingLists
  <2>4. <<"code", nextNum>> \notin DOMAIN core
    BY NewUnknown
  <2>5. \A j \in DOMAIN list' \cap DOMAIN core' : j \in DOMAIN list \cap DOMAIN core /\ list'[j] = list[j]
    BY <2>1, <2>2, <2>3, <2>4
  <2> QED BY <2>1, <2>5 DEF StopSites, Stops, Installed, On
<1>3. ASSUME (\E S, r : Removing(S, r)) \/ (\E op, S, r : Changing(op, S, r))
      PROVE  StopSites'
  <2> AnEdit
    BY <1>3 DEF AnEdit
  <2>1. UNCHANGED <<answers, core>>
    BY EditKeeps
  <2>2. DOMAIN list' \subseteq DOMAIN list /\ \A j \in DOMAIN list' : list'[j].locs = list[j].locs
    <3>1. CASE \E S, r : Removing(S, r)
      BY <3>1 DEF Removing, Same
    <3>2. CASE \E op, S, r : Changing(op, S, r)
      BY <3>2 DEF Changing
    <3> QED BY <1>3, <3>1, <3>2
  <2>3. \A j \in DOMAIN list' \cap DOMAIN core' : j \in DOMAIN list \cap DOMAIN core /\ list'[j].locs = list[j].locs
    BY <2>1, <2>2
  <2> QED BY <2>1, <2>3 DEF StopSites, Stops, Installed, On
<1>4. ASSUME NEW r, Launching(r) PROVE StopSites'
  <2>1. Stops' = {}
    <3>1. target = "loaded" /\ UNCHANGED answers
      BY <1>4 DEF Launching
    <3>2. Ends = {}
      BY <3>1 DEF Phase
    <3> QED BY <3>1, <3>2 DEF Stops, Ends, Kind
  <2> QED BY <2>1 DEF StopSites
<1>5. ASSUME NEW n, NEW locs, Installing(n, locs) PROVE StopSites'
  <2> DEFINE c == <<"code", n>>
  <2>0. commands[1].id = c
    BY <1>5, InstallNumber
  <2>1. UNCHANGED list /\ Stops' = Stops /\ \A k \in Stops : answers'[k] = answers[k]
    BY <1>5, RunWaits
  <2>2. /\ c[1] = "code" /\ c[2] = n /\ c \notin DOMAIN core /\ DOMAIN core' = DOMAIN core \cup {c}
        /\ \A i \in DOMAIN core : i # c /\ core'[i] = core[i]
        /\ core'[c].locs = locs
        /\ c \in DOMAIN list => list[c].locs = {}
    BY <1>5, <2>0, NewInCore
  <2>3. n = coreNext["code"] /\ n \in Nat
    BY <1>5, InstallNumber
  <2>4. /\ \A i : i # c => Installed(i)' = Installed(i) /\ \A j \in Installed(i) : answers'[j] = answers[j]
        /\ Installed(c)' = {Len(answers) + 1} /\ answers'[Len(answers) + 1].locs = locs
        /\ Len(answers) \in Int /\ \A k \in Stops : k < Len(answers) + 1
    BY <1>5, <2>0, ToldAdded
  <2> HIDE DEF c
  <2> SUFFICES ASSUME NEW i \in DOMAIN list' \cap DOMAIN core', i[1] = "code", NEW k \in Stops'
      PROVE  IF i \in DOMAIN answers'[k].bps THEN \A j \in Installed(i)' : j < k
             ELSE list'[i].locs = {} /\ \E j \in Installed(i)' : j > k /\ answers'[j].locs = core'[i].locs
    BY Zenon DEF StopSites
  <2>5. CASE i = c
    <3>1. c \notin DOMAIN answers[k].bps
      <4> SUFFICES ASSUME c \in DOMAIN answers[k].bps PROVE FALSE
        OBVIOUS
      <4>1. c[2] < coreNext[c[1]]
        BY <2>1 DEF Snapped
      <4> QED BY <2>2, <2>3, <4>1
    <3>2. Len(answers) + 1 \in Installed(c)' /\ Len(answers) + 1 > k
      BY <2>1, <2>4
    <3> QED BY <2>1, <2>2, <2>4, <2>5, <3>1, <3>2
  <2>6. CASE i # c
    <3>1. i \in DOMAIN list \cap DOMAIN core /\ k \in Stops /\ answers'[k] = answers[k] /\ core'[i] = core[i]
      BY <2>1, <2>2, <2>6
    <3>2. Installed(i)' = Installed(i) /\ \A j \in Installed(i) : answers'[j] = answers[j]
      BY <2>4, <2>6
    <3>3. IF i \in DOMAIN answers[k].bps THEN \A j \in Installed(i) : j < k
          ELSE list[i].locs = {} /\ \E j \in Installed(i) : j > k /\ answers[j].locs = core[i].locs
      BY <3>1 DEF StopSites
    <3> QED BY <2>1, <3>1, <3>2, <3>3
  <2> QED BY <2>5, <2>6
<1>6. ASSUME NEW n, Watching(n) PROVE StopSites'
  <2>1. Stops' = {}
    BY <1>6, NoStopYet, RunWaits
  <2> QED BY <2>1 DEF StopSites
<1>7. ASSUME Refusing \/ (\E op : Setting(op)) \/ Dropping
      PROVE  StopSites'
  <2>1. UNCHANGED list /\ Stops' = Stops /\ \A k \in Stops : answers'[k] = answers[k]
    BY <1>7, RunWaits
  <2>2. DOMAIN core' \subseteq DOMAIN core /\ \A i \in DOMAIN core' : core'[i].locs = core[i].locs
    BY <1>7, HitsKept
  <2> SUFFICES ASSUME NEW i \in DOMAIN list' \cap DOMAIN core', i[1] = "code", NEW k \in Stops'
      PROVE  IF i \in DOMAIN answers'[k].bps THEN \A j \in Installed(i)' : j < k
             ELSE list'[i].locs = {} /\ \E j \in Installed(i)' : j > k /\ answers'[j].locs = core'[i].locs
    BY Zenon DEF StopSites
  <2>3. Installed(i)' = Installed(i) /\ \A j \in Installed(i) : answers'[j] = answers[j]
    BY <1>7, ToldKept
  <2>4. i \in DOMAIN list \cap DOMAIN core /\ k \in Stops /\ answers'[k] = answers[k] /\ core'[i].locs = core[i].locs
    BY <2>1, <2>2
  <2>9. IF i \in DOMAIN answers[k].bps THEN \A j \in Installed(i) : j < k
        ELSE list[i].locs = {} /\ \E j \in Installed(i) : j > k /\ answers[j].locs = core[i].locs
    BY <2>4 DEF StopSites
  <2> QED BY <2>1, <2>3, <2>4, <2>9
<1>8. ASSUME Starting PROVE StopSites'
  <2>1. Stops' = {}
    BY <1>8, RunStarts DEF Stops, Ends, Kind
  <2> QED BY <2>1 DEF StopSites
<1>9. ASSUME Exiting \/ (\E i : Ignored(i))
      PROVE  StopSites'
  <2> AStop
    BY <1>9 DEF AStop
  <2>1. Stops' = {}
    <3>1. Stops = {}
      BY WhileRunning
    <3>2. CASE Exiting
      <4>1. Telling([op |-> "exited"])
        BY <3>2 DEF Exiting
      <4>2. [op |-> "exited"].op \notin {"stopped"}
        OBVIOUS
      <4>3. Kind(answers', {"stopped"}) = Kind(answers, {"stopped"})
        BY <4>1, <4>2, TellingKinds
      <4> QED BY <3>1, <4>3 DEF Stops
    <3>3. CASE \E i : Ignored(i)
      BY <3>1, <3>3 DEF Ignored, Stops
    <3> QED BY <1>9, <3>2, <3>3
  <2> QED BY <2>1 DEF StopSites
<1>10. ASSUME Pausing \/ (\E i : Stopping(i))
      PROVE  StopSites'
  <2> AStop
    BY <1>10 DEF AStop
  <2>1. Stops = {}
    BY WhileRunning
  <2>2. \E why : Telling([op |-> "stopped", why |-> why, bps |-> core'])
    BY <1>10 DEF Pausing, Stopping
  <2>3. PICK why : Telling([op |-> "stopped", why |-> why, bps |-> core'])
    BY <2>2
  <2> DEFINE a == [op |-> "stopped", why |-> why, bps |-> core']
  <2>4. Telling(a) /\ a.bps = core'
    BY <2>3
  <2> HIDE DEF a
  <2>5. \A k \in Stops' : k = Len(answers) + 1 /\ answers'[k] = a
    <3>1. \A k \in Stops' : k \in Stops \/ (k = Len(answers) + 1 /\ answers'[k] = a)
      BY <2>4, TellingKinds DEF Stops
    <3> QED BY <2>1, <3>1
  <2> SUFFICES ASSUME NEW i \in DOMAIN list' \cap DOMAIN core', i[1] = "code", NEW k \in Stops'
      PROVE  IF i \in DOMAIN answers'[k].bps THEN \A j \in Installed(i)' : j < k
             ELSE list'[i].locs = {} /\ \E j \in Installed(i)' : j > k /\ answers'[j].locs = core'[i].locs
    BY Zenon DEF StopSites
  <2>6. Installed(i)' = Installed(i)
    BY <1>10, ToldKept
  <2>7. \A j \in Installed(i) : j < Len(answers) + 1
    BY <2>4 DEF Telling, Added, Installed, On, Kind
  <2> QED BY <2>4, <2>5, <2>6, <2>7
<1>11. ASSUME Outdated PROVE StopSites'
  <2> AnAnswer
    BY <1>11 DEF AnAnswer
  <2>1. UNCHANGED core
    BY MainPops
  <2> SUFFICES ASSUME NEW i \in DOMAIN list' \cap DOMAIN core', i[1] = "code", NEW k \in Stops'
      PROVE  IF i \in DOMAIN answers'[k].bps THEN \A j \in Installed(i)' : j < k
             ELSE list'[i].locs = {} /\ \E j \in Installed(i)' : j > k /\ answers'[j].locs = core'[i].locs
    BY Zenon DEF StopSites
  <2>2. i \in DOMAIN list \cap DOMAIN core /\ UNCHANGED list
    BY <1>11, <2>1 DEF Outdated, listVars
  <2>3. list[i].locs = {} => list'[i].locs = {}
    BY <2>2
  <2>5. k + 1 \in Stops /\ answers'[k] = answers[k + 1] /\ k >= 1 /\ k \in Int
    BY AnswerKinds DEF Stops
  <2>6. IF i \in DOMAIN answers'[k].bps THEN \A j \in Installed(i) : j < k + 1
        ELSE list[i].locs = {} /\ \E j \in Installed(i) : j > k + 1 /\ answers[j].locs = core[i].locs
    BY <2>1, <2>2, <2>5 DEF StopSites
  <2>7. CASE i \in DOMAIN answers'[k].bps
    <3>1. \A j \in Installed(i)' : j + 1 < k + 1 /\ j \in Int
      BY <2>6, <2>7, ToldPops
    <3> QED BY <2>5, <2>7, <3>1
  <2>8. CASE i \notin DOMAIN answers'[k].bps
    <3>1. PICK j \in Installed(i) : j > k + 1 /\ answers[j].locs = core[i].locs
      BY <2>6, <2>8
    <3>2. j \in Int /\ (j = 1 \/ (j - 1 \in Installed(i)' /\ answers'[j - 1] = answers[j] /\ j > 1))
      BY ToldPops
    <3>3. j - 1 \in Installed(i)' /\ answers'[j - 1] = answers[j] /\ j - 1 > k
      BY <2>5, <3>1, <3>2
    <3>4. list'[i].locs = {}
      BY <2>3, <2>6, <2>8, <3>1
    <3> QED BY <2>1, <2>8, <3>1, <3>3, <3>4
  <2> QED BY <2>7, <2>8
<1>12. ASSUME Reopening PROVE StopSites'
  <2> AnAnswer
    BY <1>12 DEF AnAnswer
  <2>1. UNCHANGED core
    BY MainPops
  <2> SUFFICES ASSUME NEW i \in DOMAIN list' \cap DOMAIN core', i[1] = "code", NEW k \in Stops'
      PROVE  IF i \in DOMAIN answers'[k].bps THEN \A j \in Installed(i)' : j < k
             ELSE list'[i].locs = {} /\ \E j \in Installed(i)' : j > k /\ answers'[j].locs = core'[i].locs
    BY Zenon DEF StopSites
  <2>2. i \in DOMAIN list \cap DOMAIN core /\ UNCHANGED list
    BY <1>12, <2>1 DEF Reopening, listVars
  <2>3. list[i].locs = {} => list'[i].locs = {}
    BY <2>2
  <2>5. k + 1 \in Stops /\ answers'[k] = answers[k + 1] /\ k >= 1 /\ k \in Int
    BY AnswerKinds DEF Stops
  <2>6. IF i \in DOMAIN answers'[k].bps THEN \A j \in Installed(i) : j < k + 1
        ELSE list[i].locs = {} /\ \E j \in Installed(i) : j > k + 1 /\ answers[j].locs = core[i].locs
    BY <2>1, <2>2, <2>5 DEF StopSites
  <2>7. CASE i \in DOMAIN answers'[k].bps
    <3>1. \A j \in Installed(i)' : j + 1 < k + 1 /\ j \in Int
      BY <2>6, <2>7, ToldPops
    <3> QED BY <2>5, <2>7, <3>1
  <2>8. CASE i \notin DOMAIN answers'[k].bps
    <3>1. PICK j \in Installed(i) : j > k + 1 /\ answers[j].locs = core[i].locs
      BY <2>6, <2>8
    <3>2. j \in Int /\ (j = 1 \/ (j - 1 \in Installed(i)' /\ answers'[j - 1] = answers[j] /\ j > 1))
      BY ToldPops
    <3>3. j - 1 \in Installed(i)' /\ answers'[j - 1] = answers[j] /\ j - 1 > k
      BY <2>5, <3>1, <3>2
    <3>4. list'[i].locs = {}
      BY <2>3, <2>6, <2>8, <3>1
    <3> QED BY <2>1, <2>8, <3>1, <3>3, <3>4
  <2> QED BY <2>7, <2>8
<1>13. ASSUME Listing PROVE StopSites'
  <2>0. answers[1].id[1] = "watch"
    <3>1. 1 \in Watched
      BY <1>13, AnswerKinds DEF AnAnswer, Listing, Hearing, Watched
    <3> QED BY <3>1, WatchedIds
  <2> AnAnswer
    BY <1>13 DEF AnAnswer
  <2>1. UNCHANGED core
    BY MainPops
  <2> SUFFICES ASSUME NEW i \in DOMAIN list' \cap DOMAIN core', i[1] = "code", NEW k \in Stops'
      PROVE  IF i \in DOMAIN answers'[k].bps THEN \A j \in Installed(i)' : j < k
             ELSE list'[i].locs = {} /\ \E j \in Installed(i)' : j > k /\ answers'[j].locs = core'[i].locs
    BY Zenon DEF StopSites
  <2>2. i \in DOMAIN list \cap DOMAIN core
    BY <1>13, <2>0, <2>1 DEF Listing
  <2>3. list[i].locs = {} => list'[i].locs = {}
    <3>1. i # answers[1].id
      BY <2>0
    <3> QED BY <1>13, <2>2, <3>1 DEF Listing, Same
  <2>5. k + 1 \in Stops /\ answers'[k] = answers[k + 1] /\ k >= 1 /\ k \in Int
    BY AnswerKinds DEF Stops
  <2>6. IF i \in DOMAIN answers'[k].bps THEN \A j \in Installed(i) : j < k + 1
        ELSE list[i].locs = {} /\ \E j \in Installed(i) : j > k + 1 /\ answers[j].locs = core[i].locs
    BY <2>1, <2>2, <2>5 DEF StopSites
  <2>7. CASE i \in DOMAIN answers'[k].bps
    <3>1. \A j \in Installed(i)' : j + 1 < k + 1 /\ j \in Int
      BY <2>6, <2>7, ToldPops
    <3> QED BY <2>5, <2>7, <3>1
  <2>8. CASE i \notin DOMAIN answers'[k].bps
    <3>1. PICK j \in Installed(i) : j > k + 1 /\ answers[j].locs = core[i].locs
      BY <2>6, <2>8
    <3>2. j \in Int /\ (j = 1 \/ (j - 1 \in Installed(i)' /\ answers'[j - 1] = answers[j] /\ j > 1))
      BY ToldPops
    <3>3. j - 1 \in Installed(i)' /\ answers'[j - 1] = answers[j] /\ j - 1 > k
      BY <2>5, <3>1, <3>2
    <3>4. list'[i].locs = {}
      BY <2>3, <2>6, <2>8, <3>1
    <3> QED BY <2>1, <2>8, <3>1, <3>3, <3>4
  <2> QED BY <2>7, <2>8
<1>14. ASSUME Connecting PROVE StopSites'
  <2> AnAnswer
    BY <1>14 DEF AnAnswer
  <2>1. UNCHANGED core
    BY MainPops
  <2> SUFFICES ASSUME NEW i \in DOMAIN list' \cap DOMAIN core', i[1] = "code", NEW k \in Stops'
      PROVE  IF i \in DOMAIN answers'[k].bps THEN \A j \in Installed(i)' : j < k
             ELSE list'[i].locs = {} /\ \E j \in Installed(i)' : j > k /\ answers'[j].locs = core'[i].locs
    BY Zenon DEF StopSites
  <2>2. i \in DOMAIN list \cap DOMAIN core
    BY <1>14, <2>1 DEF Connecting
  <2>3. list[i].locs = {} /\ (\E j \in Installed(i) : j > k + 1) => list'[i].locs = {}
    <3>1. CASE i # answers[1].id
      BY <1>14, <2>2, <3>1 DEF Connecting, Same
    <3>2. CASE i = answers[1].id
      <4>1. answers[1].op = "installed" /\ 1 \in Installed(i)
        BY <1>14, <3>2, ToldPops DEF Connecting, Hearing
      <4>2. \A j \in Installed(i) : j = 1
        BY <4>1 DEF Fresh, Told, Installed, On
      <4>3. k \in Int /\ k >= 1
        BY AnswerKinds DEF Stops
      <4> QED BY <4>2, <4>3
    <3> QED BY <3>1, <3>2
  <2>5. k + 1 \in Stops /\ answers'[k] = answers[k + 1] /\ k >= 1 /\ k \in Int
    BY AnswerKinds DEF Stops
  <2>6. IF i \in DOMAIN answers'[k].bps THEN \A j \in Installed(i) : j < k + 1
        ELSE list[i].locs = {} /\ \E j \in Installed(i) : j > k + 1 /\ answers[j].locs = core[i].locs
    BY <2>1, <2>2, <2>5 DEF StopSites
  <2>7. CASE i \in DOMAIN answers'[k].bps
    <3>1. \A j \in Installed(i)' : j + 1 < k + 1 /\ j \in Int
      BY <2>6, <2>7, ToldPops
    <3> QED BY <2>5, <2>7, <3>1
  <2>8. CASE i \notin DOMAIN answers'[k].bps
    <3>1. PICK j \in Installed(i) : j > k + 1 /\ answers[j].locs = core[i].locs
      BY <2>6, <2>8
    <3>2. j \in Int /\ (j = 1 \/ (j - 1 \in Installed(i)' /\ answers'[j - 1] = answers[j] /\ j > 1))
      BY ToldPops
    <3>3. j - 1 \in Installed(i)' /\ answers'[j - 1] = answers[j] /\ j - 1 > k
      BY <2>5, <3>1, <3>2
    <3>4. list'[i].locs = {}
      BY <2>3, <2>6, <2>8, <3>1
    <3> QED BY <2>1, <2>8, <3>1, <3>3, <3>4
  <2> QED BY <2>7, <2>8
<1>15. ASSUME Updating \/ Leaving
      PROVE  StopSites'
  <2>1. Stops' = {}
    BY <1>15, RunEnds
  <2> QED BY <2>1 DEF StopSites
<1>16. ASSUME \/ Asking
              \/ CancelDialog
              \/ AttachFirst
              \/ Continuing
              \/ Shutting
      PROVE  StopSites'
  <2>1. UNCHANGED <<answers, list, core>>
    BY <1>16 DEF Asking, AddWatchpoint, CancelDialog, AttachFirst, Continuing, Continue, Shutting,
       Close, listVars, coreVars, counts
  <2> QED BY <2>1 DEF StopSites, Stops, Installed, On
<1>17. ASSUME Resuming
      PROVE  StopSites'
  <2>1. UNCHANGED <<answers, list, core>>
    BY <1>17 DEF Resuming, Up, Taking, listVars, coreVars, counts
  <2> QED BY <2>1 DEF StopSites, Stops, Installed, On
<1> QED BY <1>1, <1>2, <1>3, <1>4, <1>5, <1>6, <1>7, <1>8, <1>9, <1>10, <1>11, <1>12, <1>13,
          <1>14, <1>15, <1>16, <1>17
       DEF Step, AnEdit, ARequest, ACoreStep, AStop, AnAnswer

(* While the program is stopped the list knows where its breakpoints are, or is about to be told. *)
LEMMA StoppedSitesStep ==
  ASSUME Shape,
         Phase,
         "renumber" \notin mishaps,
         coreUp,
         coreUp',
         Step,
         fault' = "none",
         Fresh,
         Numbers,
         InstallsInOrder,
         Matched,
         AskedStill,
         Snapped,
         NotYet,
         StopSites,
         StoppedSites
  PROVE  StoppedSites'
<1>1. ASSUME \/ \E op : Broken(op)
             \/ \E op : NoBreakpoint(op)
             \/ \E r : Loading(r)
             \/ Ending
             \/ Load
             \/ Disconnecting
      PROVE  StoppedSites'
  <2> QED BY <1>1, Impossible
<1>2. ASSUME NEW i, NEW r, Adding(i, r) PROVE StoppedSites'
  <2> AnEdit
    BY <1>2 DEF AnEdit
  <2>1. UNCHANGED <<answers, core, target>>
    BY EditKeeps
  <2>2. DOMAIN list' = DOMAIN list \cup {i} /\ \A j \in DOMAIN list : list'[j] = list[j]
    BY <1>2, AddingLists
  <2>3. i = <<"code", nextNum>>
    BY <1>2, AddingLists
  <2>4. <<"code", nextNum>> \notin DOMAIN core
    BY NewUnknown
  <2>5. \A j \in DOMAIN list' \cap DOMAIN core' : j \in DOMAIN list \cap DOMAIN core /\ list'[j] = list[j]
    BY <2>1, <2>2, <2>3, <2>4
  <2> QED BY <2>1, <2>5 DEF StoppedSites, Installed, On
<1>3. ASSUME (\E S, r : Removing(S, r)) \/ (\E op, S, r : Changing(op, S, r))
      PROVE  StoppedSites'
  <2> AnEdit
    BY <1>3 DEF AnEdit
  <2>1. UNCHANGED <<answers, core, target>>
    BY EditKeeps
  <2>2. DOMAIN list' \subseteq DOMAIN list /\ \A j \in DOMAIN list' : list'[j].locs = list[j].locs
    <3>1. CASE \E S, r : Removing(S, r)
      BY <3>1 DEF Removing, Same
    <3>2. CASE \E op, S, r : Changing(op, S, r)
      BY <3>2 DEF Changing
    <3> QED BY <1>3, <3>1, <3>2
  <2>3. \A j \in DOMAIN list' \cap DOMAIN core' : j \in DOMAIN list \cap DOMAIN core /\ list'[j].locs = list[j].locs
    BY <2>1, <2>2
  <2> QED BY <2>1, <2>3 DEF StoppedSites, Installed, On
<1>4. ASSUME \/ Continuing
             \/ Shutting
             \/ \E r : Launching(r)
             \/ Leaving
      PROVE  StoppedSites'
  <2>1. target' # "stopped"
    BY <1>4 DEF Continuing, Continue, Shutting, Close, Launching, Leaving
  <2> QED BY <2>1 DEF StoppedSites
<1>5. ASSUME NEW n, NEW locs, Installing(n, locs) PROVE StoppedSites'
  <2> DEFINE c == <<"code", n>>
  <2>0. commands[1].id = c
    BY <1>5, InstallNumber
  <2>1. UNCHANGED <<list, target>>
    BY <1>5, RunWaits
  <2>2. /\ c \notin DOMAIN core /\ DOMAIN core' = DOMAIN core \cup {c}
        /\ \A i \in DOMAIN core : i # c /\ core'[i] = core[i]
        /\ core'[c].locs = locs
        /\ c \in DOMAIN list => list[c].locs = {}
    BY <1>5, <2>0, NewInCore
  <2>3. /\ \A i : i # c => Installed(i)' = Installed(i) /\ \A j \in Installed(i) : answers'[j] = answers[j]
        /\ Installed(c)' = {Len(answers) + 1} /\ answers'[Len(answers) + 1].locs = locs
    BY <1>5, <2>0, ToldAdded
  <2> HIDE DEF c
  <2> SUFFICES ASSUME target' = "stopped", NEW i \in DOMAIN list' \cap DOMAIN core', i[1] = "code"
      PROVE  /\ Installed(i)' = {} => list'[i].locs = core'[i].locs
             /\ \A j \in Installed(i)' : answers'[j].locs = core'[i].locs /\ list'[i].locs = {}
    BY Zenon DEF StoppedSites
  <2>4. CASE i = c
    BY <2>1, <2>2, <2>3, <2>4
  <2>5. CASE i # c
    <3>1. i \in DOMAIN list \cap DOMAIN core /\ core'[i] = core[i] /\ target = "stopped"
      BY <2>1, <2>2, <2>5
    <3>2. Installed(i)' = Installed(i) /\ \A j \in Installed(i) : answers'[j] = answers[j]
      BY <2>3, <2>5
    <3>3. /\ Installed(i) = {} => list[i].locs = core[i].locs
          /\ \A j \in Installed(i) : answers[j].locs = core[i].locs /\ list[i].locs = {}
      BY <3>1 DEF StoppedSites
    <3> QED BY <2>1, <3>1, <3>2, <3>3
  <2> QED BY <2>4, <2>5
<1>6. ASSUME \/ \E n : Watching(n)
             \/ Refusing
             \/ \E op : Setting(op)
             \/ Dropping
      PROVE  StoppedSites'
  <2>1. UNCHANGED <<list, target>>
    BY <1>6, RunWaits
  <2>2. \A i \in DOMAIN list' \cap DOMAIN core' : i \in DOMAIN core /\ core'[i].locs = core[i].locs
    <3>1. ASSUME NEW n, Watching(n)
          PROVE  \A i \in DOMAIN list' \cap DOMAIN core' : i \in DOMAIN core /\ core'[i].locs = core[i].locs
      <4> DEFINE w == <<"watch", n>>
      <4>1. w \notin DOMAIN list /\ DOMAIN core' = DOMAIN core \cup {w} /\ \A i \in DOMAIN core : core'[i] = core[i]
        BY <3>1, NewWatchInCore
      <4> HIDE DEF w
      <4> QED BY <2>1, <4>1
    <3>2. CASE Refusing \/ Dropping \/ \E op : Setting(op)
      <4>1. DOMAIN core' \subseteq DOMAIN core /\ \A i \in DOMAIN core' : core'[i].locs = core[i].locs
        BY <3>2, HitsKept
      <4> QED BY <4>1
    <3> QED BY <1>6, <3>1, <3>2
  <2> SUFFICES ASSUME target' = "stopped", NEW i \in DOMAIN list' \cap DOMAIN core', i[1] = "code"
      PROVE  /\ Installed(i)' = {} => list'[i].locs = core'[i].locs
             /\ \A j \in Installed(i)' : answers'[j].locs = core'[i].locs /\ list'[i].locs = {}
    BY Zenon DEF StoppedSites
  <2>3. Installed(i)' = Installed(i) /\ \A j \in Installed(i) : answers'[j] = answers[j]
    BY <1>6, ToldKept
  <2>4. /\ Installed(i) = {} => list[i].locs = core[i].locs
        /\ \A j \in Installed(i) : answers[j].locs = core[i].locs /\ list[i].locs = {}
    BY <2>1, <2>2 DEF StoppedSites
  <2> QED BY <2>1, <2>2, <2>3, <2>4
<1>7. ASSUME Starting PROVE StoppedSites'
  <2>1. target' # "stopped"
    BY <1>7, RunStarts
  <2> QED BY <2>1 DEF StoppedSites
<1>8. ASSUME \/ Pausing
             \/ Exiting
             \/ \E i : Ignored(i)
             \/ \E i : Stopping(i)
      PROVE  StoppedSites'
  <2>1. target' # "stopped"
    BY <1>8, WhileRunning DEF AStop
  <2> QED BY <2>1 DEF StoppedSites
<1>9. ASSUME Outdated PROVE StoppedSites'
  <2> AnAnswer
    BY <1>9 DEF AnAnswer
  <2>1. UNCHANGED core
    BY MainPops
  <2> SUFFICES ASSUME target' = "stopped", NEW i \in DOMAIN list' \cap DOMAIN core', i[1] = "code"
      PROVE  /\ Installed(i)' = {} => list'[i].locs = core'[i].locs
             /\ \A j \in Installed(i)' : answers'[j].locs = core'[i].locs /\ list'[i].locs = {}
    BY Zenon DEF StoppedSites
  <2>2. i \in DOMAIN list \cap DOMAIN core /\ UNCHANGED <<list, target>> /\ answers[1].id \notin DOMAIN list
    BY <1>9, <2>1 DEF Outdated, listVars
  <2>3. 1 \notin Installed(i)
    BY <2>2, ToldPops
  <2>4. list'[i].locs = list[i].locs
    BY <2>2
  <2>5. /\ Installed(i) = {} => list[i].locs = core[i].locs
        /\ \A j \in Installed(i) : answers[j].locs = core[i].locs /\ list[i].locs = {}
    BY <2>1, <2>2 DEF StoppedSites
  <2>6. /\ Installed(i) \subseteq Int /\ Installed(i)' \subseteq Int
        /\ \A j \in Installed(i)' : j + 1 \in Installed(i) /\ answers'[j] = answers[j + 1] /\ j >= 1
        /\ \A j \in Installed(i) : j = 1 \/ (j - 1 \in Installed(i)' /\ answers'[j - 1] = answers[j] /\ j > 1)
    BY ToldPops
  <2>7. Installed(i)' = {} => Installed(i) = {}
    BY <2>3, <2>6
  <2> QED BY <2>1, <2>4, <2>5, <2>6, <2>7
<1>10. ASSUME Reopening PROVE StoppedSites'
  <2> AnAnswer
    BY <1>10 DEF AnAnswer
  <2>1. UNCHANGED core
    BY MainPops
  <2> SUFFICES ASSUME target' = "stopped", NEW i \in DOMAIN list' \cap DOMAIN core', i[1] = "code"
      PROVE  /\ Installed(i)' = {} => list'[i].locs = core'[i].locs
             /\ \A j \in Installed(i)' : answers'[j].locs = core'[i].locs /\ list'[i].locs = {}
    BY Zenon DEF StoppedSites
  <2>2. i \in DOMAIN list \cap DOMAIN core /\ UNCHANGED <<list, target>> /\ answers[1].op = "refused"
    BY <1>10, <2>1 DEF Reopening, listVars, Hearing
  <2>3. 1 \notin Installed(i)
    BY <2>2, ToldPops
  <2>4. list'[i].locs = list[i].locs
    BY <2>2
  <2>5. /\ Installed(i) = {} => list[i].locs = core[i].locs
        /\ \A j \in Installed(i) : answers[j].locs = core[i].locs /\ list[i].locs = {}
    BY <2>1, <2>2 DEF StoppedSites
  <2>6. /\ Installed(i) \subseteq Int /\ Installed(i)' \subseteq Int
        /\ \A j \in Installed(i)' : j + 1 \in Installed(i) /\ answers'[j] = answers[j + 1] /\ j >= 1
        /\ \A j \in Installed(i) : j = 1 \/ (j - 1 \in Installed(i)' /\ answers'[j - 1] = answers[j] /\ j > 1)
    BY ToldPops
  <2>7. Installed(i)' = {} => Installed(i) = {}
    BY <2>3, <2>6
  <2> QED BY <2>1, <2>4, <2>5, <2>6, <2>7
<1>11. ASSUME Listing PROVE StoppedSites'
  <2>0. answers[1].id[1] = "watch" /\ answers[1].op = "watched"
    <3>1. 1 \in Watched /\ answers[1].op = "watched"
      BY <1>11, AnswerKinds DEF AnAnswer, Listing, Hearing, Watched
    <3> QED BY <3>1, WatchedIds
  <2> AnAnswer
    BY <1>11 DEF AnAnswer
  <2>1. UNCHANGED core
    BY MainPops
  <2> SUFFICES ASSUME target' = "stopped", NEW i \in DOMAIN list' \cap DOMAIN core', i[1] = "code"
      PROVE  /\ Installed(i)' = {} => list'[i].locs = core'[i].locs
             /\ \A j \in Installed(i)' : answers'[j].locs = core'[i].locs /\ list'[i].locs = {}
    BY Zenon DEF StoppedSites
  <2>2. i \in DOMAIN list \cap DOMAIN core /\ UNCHANGED target
    BY <1>11, <2>0, <2>1 DEF Listing
  <2>3. 1 \notin Installed(i)
    BY <2>0, ToldPops
  <2>4. list'[i].locs = list[i].locs
    <3>1. i # answers[1].id
      BY <2>0
    <3> QED BY <1>11, <2>2, <3>1 DEF Listing, Same
  <2>5. /\ Installed(i) = {} => list[i].locs = core[i].locs
        /\ \A j \in Installed(i) : answers[j].locs = core[i].locs /\ list[i].locs = {}
    BY <2>1, <2>2 DEF StoppedSites
  <2>6. /\ Installed(i) \subseteq Int /\ Installed(i)' \subseteq Int
        /\ \A j \in Installed(i)' : j + 1 \in Installed(i) /\ answers'[j] = answers[j + 1] /\ j >= 1
        /\ \A j \in Installed(i) : j = 1 \/ (j - 1 \in Installed(i)' /\ answers'[j - 1] = answers[j] /\ j > 1)
    BY ToldPops
  <2>7. Installed(i)' = {} => Installed(i) = {}
    BY <2>3, <2>6
  <2> QED BY <2>1, <2>4, <2>5, <2>6, <2>7
<1>12. ASSUME Connecting PROVE StoppedSites'
  <2> AnAnswer
    BY <1>12 DEF AnAnswer
  <2>1. UNCHANGED core
    BY MainPops
  <2> SUFFICES ASSUME target' = "stopped", NEW i \in DOMAIN list' \cap DOMAIN core', i[1] = "code"
      PROVE  /\ Installed(i)' = {} => list'[i].locs = core'[i].locs
             /\ \A j \in Installed(i)' : answers'[j].locs = core'[i].locs /\ list'[i].locs = {}
    BY Zenon DEF StoppedSites
  <2>2. i \in DOMAIN list \cap DOMAIN core /\ UNCHANGED target /\ answers[1].op = "installed"
    BY <1>12, <2>1 DEF Connecting, Hearing
  <2>5. /\ Installed(i) = {} => list[i].locs = core[i].locs
        /\ \A j \in Installed(i) : answers[j].locs = core[i].locs /\ list[i].locs = {}
    BY <2>1, <2>2 DEF StoppedSites
  <2>6. /\ Installed(i) \subseteq Int /\ Installed(i)' \subseteq Int
        /\ \A j \in Installed(i)' : j + 1 \in Installed(i) /\ answers'[j] = answers[j + 1] /\ j >= 1
        /\ \A j \in Installed(i) : j = 1 \/ (j - 1 \in Installed(i)' /\ answers'[j - 1] = answers[j] /\ j > 1)
    BY ToldPops
  <2>7. CASE i # answers[1].id
    <3>1. 1 \notin Installed(i)
      BY <2>7, ToldPops
    <3>2. list'[i].locs = list[i].locs
      BY <1>12, <2>2, <2>7 DEF Connecting, Same
    <3>3. Installed(i)' = {} => Installed(i) = {}
      BY <2>6, <3>1
    <3> QED BY <2>1, <2>5, <2>6, <3>2, <3>3
  <2>8. CASE i = answers[1].id
    <3>1. 1 \in Installed(i)
      BY <2>2, <2>8, ToldPops
    <3>2. \A j \in Installed(i) : j = 1
      BY <3>1 DEF Fresh, Told, Installed, On
    <3>3. Installed(i)' = {}
      BY <2>6, <3>2
    <3>4. list'[i].locs = list[i].locs \cup answers[1].locs
      BY <1>12, <2>8 DEF Connecting
    <3>5. list[i].locs = {} /\ answers[1].locs = core[i].locs
      BY <2>5, <3>1
    <3> QED BY <2>1, <3>3, <3>4, <3>5
  <2> QED BY <2>7, <2>8
<1>13. ASSUME Updating PROVE StoppedSites'
  <2> AnAnswer
    BY <1>13 DEF AnAnswer
  <2>1. UNCHANGED core
    BY MainPops
  <2>2. 1 \in Stops
    BY <1>13, AnswerKinds DEF Updating, Hearing, Stops
  <2> SUFFICES ASSUME target' = "stopped", NEW i \in DOMAIN list' \cap DOMAIN core', i[1] = "code"
      PROVE  /\ Installed(i)' = {} => list'[i].locs = core'[i].locs
             /\ \A j \in Installed(i)' : answers'[j].locs = core'[i].locs /\ list'[i].locs = {}
    BY Zenon DEF StoppedSites
  <2>3. i \in DOMAIN list \cap DOMAIN core
    BY <1>13, <2>1 DEF Updating
  <2>4. /\ i \in DOMAIN answers[1].bps => list'[i].locs = answers[1].bps[i].locs
        /\ i \notin DOMAIN answers[1].bps => list'[i].locs = list[i].locs
    BY <1>13, <2>3 DEF Updating
  <2>5. IF i \in DOMAIN answers[1].bps THEN \A j \in Installed(i) : j < 1
        ELSE list[i].locs = {} /\ \E j \in Installed(i) : j > 1 /\ answers[j].locs = core[i].locs
    BY <2>2, <2>3 DEF StopSites
  <2>6. /\ Installed(i) \subseteq Int /\ Installed(i)' \subseteq Int
        /\ \A j \in Installed(i)' : j + 1 \in Installed(i) /\ answers'[j] = answers[j + 1] /\ j >= 1
        /\ \A j \in Installed(i) : j = 1 \/ (j - 1 \in Installed(i)' /\ answers'[j - 1] = answers[j] /\ j > 1)
    BY ToldPops
  <2>7. CASE i \in DOMAIN answers[1].bps
    <3>1. Installed(i)' = {}
      <4>1. \A j \in Installed(i)' : j + 1 < 1
        BY <2>5, <2>6, <2>7
      <4> QED BY <2>6, <4>1
    <3>2. answers[1].bps[i].locs = core[i].locs
      BY <2>2, <2>3, <2>7 DEF Snapped
    <3> QED BY <2>1, <2>4, <2>7, <3>1, <3>2
  <2>8. CASE i \notin DOMAIN answers[1].bps
    <3>1. PICK j \in Installed(i) : j > 1 /\ answers[j].locs = core[i].locs
      BY <2>5, <2>8
    <3>2. \A x \in Installed(i) : x = j
      BY DEF Fresh, Told, Installed, On
    <3>3. j - 1 \in Installed(i)'
      BY <2>6, <3>1
    <3>4. \A x \in Installed(i)' : answers'[x].locs = core[i].locs
      BY <2>6, <3>1, <3>2
    <3> QED BY <2>1, <2>4, <2>5, <2>8, <3>3, <3>4
  <2> QED BY <2>7, <2>8
<1>14. ASSUME \/ Asking
              \/ CancelDialog
              \/ AttachFirst
      PROVE  StoppedSites'
  <2>1. UNCHANGED <<answers, list, core, target>>
    BY <1>14 DEF Asking, AddWatchpoint, CancelDialog, AttachFirst, listVars, coreVars, counts
  <2> QED BY <2>1 DEF StoppedSites, Installed, On
<1>15. ASSUME Resuming
      PROVE  StoppedSites'
  <2>1. UNCHANGED <<answers, list, core, target>>
    BY <1>15 DEF Resuming, Up, Taking, listVars, coreVars, counts
  <2> QED BY <2>1 DEF StoppedSites, Installed, On
<1> QED BY <1>1, <1>2, <1>3, <1>4, <1>5, <1>6, <1>7, <1>8, <1>9, <1>10, <1>11, <1>12, <1>13,
          <1>14, <1>15
       DEF Step, AnEdit, ARequest, ACoreStep, AStop, AnAnswer

-----------------------------------------------------------------------------
(* A new target                                                            *)

(* Only loading a target brings one. *)
LEMMA OnlyLoading ==
  ASSUME Step,
         coreUp',
         ~coreUp
  PROVE  \E r : Loading(r)
<1>1. ASSUME NEW r, Loading(r) PROVE \E q : Loading(q)
  <2> QED BY <1>1
<1>2. ASSUME Ending PROVE \E r : Loading(r)
  <2> QED BY <1>2 DEF Ending
<1>3. ASSUME AnEdit PROVE \E r : Loading(r)
  <2>1. UNCHANGED <<coreUp>>
    BY <1>3 DEF AnEdit, Adding, Edited, Removing, Changing, listVars, coreVars, counts
  <2> QED BY <2>1
<1>4. ASSUME \/ Asking
             \/ CancelDialog
             \/ Load
             \/ AttachFirst
             \/ Continuing
             \/ Shutting
             \/ \E r : Launching(r)
      PROVE  \E r : Loading(r)
  <2>1. UNCHANGED <<coreUp>>
    BY <1>4 DEF Asking, AddWatchpoint, CancelDialog, Load, AttachFirst, Continuing, Continue,
       Shutting, Close, Launching, listVars, coreVars, counts
  <2> QED BY <2>1
<1>5. ASSUME \/ \E op : Broken(op)
             \/ \E op : NoBreakpoint(op)
             \/ \E op : Setting(op)
             \/ \E n, locs : Installing(n, locs)
             \/ \E n : Watching(n)
             \/ Refusing
             \/ Starting
             \/ Resuming
             \/ Dropping
      PROVE  \E r : Loading(r)
  <2>1. UNCHANGED <<coreUp>>
    BY <1>5 DEF Broken, Taking, NoBreakpoint, Setting, Up, Installing, Watching, Refusing, Starting,
       Resuming, Dropping, listVars, coreVars, counts
  <2> QED BY <2>1
<1>6. ASSUME AStop PROVE \E r : Loading(r)
  <2>1. UNCHANGED <<coreUp>>
    BY <1>6 DEF AStop, Pausing, Moving, Exiting, Ignored, Stopping, listVars, coreVars, counts
  <2> QED BY <2>1
<1>7. ASSUME AnAnswer PROVE \E r : Loading(r)
  <2>1. UNCHANGED <<coreUp>>
    BY <1>7 DEF AnAnswer, Outdated, Hearing, Connecting, Listing, Reopening, Updating, Leaving,
       Disconnecting, listVars, coreVars, counts
  <2> QED BY <2>1
<1> QED BY <1>1, <1>2, <1>3, <1>4, <1>5, <1>6, <1>7
       DEF Step, AnEdit, ARequest, ACoreStep, AStop, AnAnswer

(* The commands a new target begins with: an install for each breakpoint of *)
(* the list, in the order of their numbers.                                *)
LEMMA LoadingSends ==
  ASSUME Shape, Phase, Numbers, "renumber" \notin mishaps, NEW r, Loading(r)
  PROVE  /\ DOMAIN list = {"code"} \X (1..(nextNum - 1)) /\ UNCHANGED <<list, nextNum>>
         /\ \A i \in DOMAIN list : list[i].curr = 0 /\ list[i].locs = {}
         /\ DOMAIN core' = {} /\ coreNext' = [t \in {"code", "watch"} |-> 1]
         /\ target' = "loaded"
         /\ \A ops : Kind(answers', ops) = {}
         /\ \A ops : "install" \notin ops => Kind(commands', ops) = {}
         /\ Installs' \subseteq Int
         /\ \A k \in Installs' : /\ commands'[k].id \in DOMAIN list
                                 /\ commands'[k].on = list[commands'[k].id].on
                                 /\ commands'[k].cond = list[commands'[k].id].cond
         /\ \A j, k \in Installs' : j < k => Before(commands'[j].id, commands'[k].id)
         /\ \A i \in DOMAIN list : \E k \in Installs' : commands'[k].id = i
<1>1. /\ target = "loading" /\ target' = "loaded" /\ commands' = r /\ UNCHANGED <<list, nextNum, answers>>
      /\ Orders(r, "install", Codes(DOMAIN list), list)
      /\ core' = <<>> /\ coreNext' = [t \in {"code", "watch"} |-> 1]
  BY DEF Loading, listVars
<1>2. /\ DOMAIN list = {"code"} \X (1..(nextNum - 1))
      /\ \A i \in DOMAIN list : list[i].curr = 0 /\ list[i].locs = {}
  BY <1>1 DEF Numbers, Early
<1>3. Codes(DOMAIN list) = DOMAIN list
  BY <1>2 DEF Codes
<1>4. DOMAIN r = 1..Len(r) /\ \A k \in 1..Len(r) : r[k].op = "install" /\ r[k].id \in DOMAIN list
  BY <1>1, <1>3 DEF Orders
<1>5. /\ \A k \in 1..Len(r) : r[k].on = list[r[k].id].on /\ r[k].cond = list[r[k].id].cond
      /\ \A j, k \in 1..Len(r) : j < k => Before(r[j].id, r[k].id)
      /\ \A i \in DOMAIN list : \E k \in 1..Len(r) : r[k].id = i
  BY <1>1, <1>3 DEF Orders
<1>6. Installs' = 1..Len(r)
  BY <1>1, <1>4 DEF Installs, Kind
<1>7. \A ops : "install" \notin ops => Kind(commands', ops) = {}
  BY <1>1, <1>4 DEF Kind
<1>8. answers' = <<>>
  BY <1>1 DEF Phase
<1>9. \A ops : Kind(answers', ops) = {}
  BY <1>8 DEF Kind
<1>10. \A k \in Installs' : /\ commands'[k].id \in DOMAIN list
                            /\ commands'[k].on = list[commands'[k].id].on
                            /\ commands'[k].cond = list[commands'[k].id].cond
  BY <1>1, <1>4, <1>5, <1>6
<1>11. \A j, k \in Installs' : j < k => Before(commands'[j].id, commands'[k].id)
  BY <1>1, <1>5, <1>6
<1>12. \A i \in DOMAIN list : \E k \in Installs' : commands'[k].id = i
  BY <1>1, <1>5, <1>6
<1>13. Installs' \subseteq Int
  BY <1>6
<1>14. DOMAIN core' = {}
  BY <1>1
<1> QED BY <1>1, <1>2, <1>7, <1>9, <1>10, <1>11, <1>12, <1>13, <1>14

(* What is to hold while there is a target. *)
Connected ==
  Following /\ AskedStill /\ WatchStops /\ Snapped /\ NotYet /\ HitsAgree /\ Sites

(* It holds of a new target. *)
LEMMA LoadingConnects ==
  ASSUME Shape, Phase, Numbers, "renumber" \notin mishaps, \E r : Loading(r)
  PROVE  Connected'
<1>1. PICK r : Loading(r)
  OBVIOUS
<1>2. /\ DOMAIN list = {"code"} \X (1..(nextNum - 1)) /\ UNCHANGED <<list, nextNum>>
      /\ \A i \in DOMAIN list : list[i].curr = 0 /\ list[i].locs = {}
      /\ DOMAIN core' = {} /\ coreNext' = [t \in {"code", "watch"} |-> 1]
      /\ target' = "loaded"
  BY <1>1, LoadingSends
<1>3. \A ops : Kind(answers', ops) = {}
  BY <1>1, LoadingSends
<1>4. \A ops : "install" \notin ops => Kind(commands', ops) = {}
  BY <1>1, LoadingSends
<1>5. /\ Installs' \subseteq Int
      /\ \A k \in Installs' : /\ commands'[k].id \in DOMAIN list
                              /\ commands'[k].on = list[commands'[k].id].on
                              /\ commands'[k].cond = list[commands'[k].id].cond
  BY <1>1, LoadingSends
<1>6. \A j, k \in Installs' : j < k => Before(commands'[j].id, commands'[k].id)
  BY <1>1, LoadingSends
<1>7. \A i \in DOMAIN list : \E k \in Installs' : commands'[k].id = i
  BY <1>1, LoadingSends
<1>8. /\ Editing' = {} /\ Removals' = {} /\ Resumes' = {} /\ Asked' = {} /\ Counting' = {}
  BY <1>4 DEF Editing, Removals, Resumes, Asked, Counting, EditOps
<1>9. Ends' = {} /\ Stops' = {} /\ Watched' = {} /\ Told' = {}
  BY <1>3 DEF Ends, Stops, Watched, Told
<1>10. nextNum \in Nat /\ nextNum >= 1
  BY NextFields
<1>11. InstallsInOrder'
  <2>1. coreNext'["code"] = 1
    BY <1>2
  <2>2. \A k \in Installs' : commands'[k].id[1] = "code" /\ commands'[k].id[2] \in 1..(nextNum - 1)
    BY <1>2, <1>5
  <2>3. \A j, k \in Installs' : j < k => commands'[j].id[2] < commands'[k].id[2]
    BY <1>6, <2>2 DEF Before
  <2>4. \A k \in Installs' : commands'[k].id[2] >= 1
    BY <1>10, <2>2
  <2>5. \A n \in 1 .. nextNum - 1 : \E k \in Installs' : commands'[k].id = <<"code", n>>
    BY <1>2, <1>7
  <2> QED BY <1>2, <1>10, <2>1, <2>3, <2>4, <2>5 DEF InstallsInOrder
<1>12. Matched'
  <2>1. EditsFind' /\ RemovedLast'
    BY <1>8 DEF EditsFind, RemovedLast
  <2>2. ListKnown'
    BY <1>2, <1>7, <1>8 DEF ListKnown
  <2>3. WatchesKnown' /\ CoreKnown'
    BY <1>2, <1>9 DEF WatchesKnown, CoreKnown
  <2>4. InstallsKnown'
    BY <1>2, <1>5 DEF InstallsKnown
  <2> QED BY <2>1, <2>2, <2>3, <2>4 DEF Matched
<1>13. ASSUME NEW ops, "install" \in ops, NEW i \in DOMAIN list PROVE On(commands', ops, i) # {}
  BY <1>7, <1>13 DEF On, Installs, Kind
<1>14. \A ops : \A k \in Kind(commands', ops) : k \in Installs'
  <2> SUFFICES ASSUME NEW ops, NEW k \in Kind(commands', ops) PROVE k \in Installs'
    OBVIOUS
  <2>1. Kind(commands', ops \ {"install"}) = {}
    BY <1>4
  <2>2. commands'[k].op = "install"
    BY <2>1 DEF Kind
  <2> QED BY <2>2 DEF Installs, Kind
<1>15. OnAgrees' /\ CondAgrees'
  <2>1. ASSUME NEW ops, NEW i, NEW k \in On(commands', ops, i)
        PROVE  commands'[k].on = list[i].on /\ commands'[k].cond = list[i].cond
    <3>1. k \in Installs' /\ commands'[k].id = i
      BY <1>14 DEF On
    <3> QED BY <1>5, <3>1
  <2>2. \A i \in DOMAIN list : On(commands', {"install", "enable"}, i) # {}
    BY <1>13
  <2>3. \A i \in DOMAIN list : \A k \in On(commands', {"install", "enable"}, i) : commands'[k].on = list[i].on
    BY <2>1
  <2>4. OnAgrees'
    BY <1>2, <2>2, <2>3 DEF OnAgrees
  <2>5. \A i \in DOMAIN list : On(commands', {"install", "condition"}, i) # {}
    BY <1>13
  <2>6. \A i \in DOMAIN list : \A k \in On(commands', {"install", "condition"}, i) : commands'[k].cond = list[i].cond
    BY <2>1
  <2>7. CondAgrees'
    BY <1>2, <2>5, <2>6 DEF CondAgrees
  <2> QED BY <2>4, <2>7
<1>16. AskedStill' /\ WatchStops' /\ Snapped'
  BY <1>8, <1>9 DEF AskedStill, WatchStops, RemovedStill, StopsListed, Snapped
<1>17. NotYet'
  BY <1>2, <1>5 DEF NotYet
<1>18. HitsAgree'
  BY <1>2, <1>8, <1>9 DEF HitsAgree, CountsStill, CurrAgrees, Counts, WatchedZero, IgnoreAgrees
<1>19. Sites'
  BY <1>2, <1>9 DEF Sites, StopSites, StoppedSites
<1> QED BY <1>11, <1>12, <1>15, <1>16, <1>17, <1>18, <1>19 DEF Connected, Following

-----------------------------------------------------------------------------
(* The invariant                                                           *)

(* An invalid pointer is used only where a mishap makes it invalid. *)
LEMMA FaultsStep ==
  ASSUME Shape,
         Step,
         fault = "none",
         Deep
  PROVE  OnlyKnownFaults'
<1>1. ASSUME AttachFirst PROVE OnlyKnownFaults'
  <2> QED BY <1>1 DEF OnlyKnownFaults, AttachFirst
<1>2. ASSUME NEW op, Broken(op) PROVE OnlyKnownFaults'
  <2>0. CASE "checked" \in mishaps /\ fault' = "initialProps"
    BY <1>2, <2>0 DEF Broken, Taking, OnlyKnownFaults
  <2> SUFFICES ASSUME ~coreUp, fault' = "noTarget" PROVE OnlyKnownFaults'
    BY <1>2, <2>0 DEF Broken
  <2>1. fault' = "noTarget" /\ ~coreUp /\ Shrunk(commands, commands') /\ UNCHANGED mishaps
    BY <1>2 DEF Broken, Taking
  <2>2. commands # <<>>
    BY <2>1 DEF Shrunk
  <2>3. "editClosing" \in mishaps
    BY <2>1, <2>2 DEF Deep, Closing
  <2> QED BY <2>1, <2>3 DEF OnlyKnownFaults
<1>3. ASSUME NEW op, NoBreakpoint(op) PROVE OnlyKnownFaults'
  <2>1. /\ fault' = "noBreakpoint" /\ coreUp /\ Shrunk(commands, commands') /\ UNCHANGED mishaps
        /\ op \in EditOps /\ commands[1].op = op /\ commands[1].id \notin DOMAIN core
    BY <1>3 DEF NoBreakpoint, Taking
  <2>2. 1 \in Editing
    BY <2>1, KindShrunk DEF Editing
  <2>3. Installs \subseteq Int /\ \A j \in Installs : j >= 1
    BY <2>1 DEF Shrunk, Installs, Kind
  <2>4. "renumber" \in mishaps
    <3> SUFFICES ASSUME "renumber" \notin mishaps PROVE FALSE
      OBVIOUS
    <3>1. EditsFind
      BY <2>1 DEF Deep, Following, Matched
    <3>2. PICK j \in Installs : j < 1
      BY <2>1, <2>2, <3>1 DEF EditsFind
    <3> QED BY <2>3, <3>2
  <2> QED BY <2>1, <2>4 DEF OnlyKnownFaults
<1>4. ASSUME Listing PROVE OnlyKnownFaults'
  <2> AnAnswer
    BY <1>4 DEF AnAnswer
  <2>1. /\ answers[1].op = "watched" /\ UNCHANGED mishaps
        /\ fault' = IF answers[1].id \in DOMAIN list THEN "unlisted"
                    ELSE IF dialog = "closed" THEN "noDialog" ELSE fault
    BY <1>4 DEF Listing, Hearing
  <2>2. 1 \in Watched /\ 1 \in Replied
    BY <2>1, AnswerKinds DEF Watched, Replied
  <2>3. answers[1].id \in DOMAIN list => "renumber" \in mishaps
    BY <2>2 DEF Deep, Numbers, WatchNumbers
  <2>4. dialog = "closed" => "cancelWait" \in mishaps
    BY <2>2 DEF Deep, Waiting
  <2>5. CASE answers[1].id \in DOMAIN list
    BY <2>1, <2>3, <2>5 DEF OnlyKnownFaults
  <2>6. CASE answers[1].id \notin DOMAIN list /\ dialog = "closed"
    BY <2>1, <2>4, <2>6 DEF OnlyKnownFaults
  <2>7. CASE answers[1].id \notin DOMAIN list /\ dialog # "closed"
    BY <2>1, <2>7 DEF OnlyKnownFaults
  <2> QED BY <2>5, <2>6, <2>7
<1>5. ASSUME Reopening PROVE OnlyKnownFaults'
  <2> AnAnswer
    BY <1>5 DEF AnAnswer
  <2>1. /\ answers[1].op = "refused" /\ UNCHANGED mishaps
        /\ dialog = "closed" => fault' = "noDialog"
        /\ dialog # "closed" => fault' = fault
    BY <1>5 DEF Reopening, Hearing
  <2>2. 1 \in Replied
    BY <2>1, AnswerKinds DEF Replied
  <2>3. dialog = "closed" => "cancelWait" \in mishaps
    BY <2>2 DEF Deep, Waiting
  <2> QED BY <2>1, <2>3 DEF OnlyKnownFaults
<1>6. ASSUME Updating PROVE OnlyKnownFaults'
  <2> AnAnswer
    BY <1>6 DEF AnAnswer
  <2>1. /\ answers[1].op = "stopped" /\ UNCHANGED mishaps
        /\ fault' = IF answers[1].why # <<>> /\ answers[1].why[1] = "watch" /\ answers[1].why \notin DOMAIN list
                    THEN "noWatchpoint" ELSE fault
    BY <1>6 DEF Updating, Hearing
  <2>2. 1 \in Stops
    BY <2>1, AnswerKinds DEF Stops
  <2>3. coreUp
    <3>1. Phase /\ target = "running"
      BY <1>6, RunEnds DEF Deep
    <3> QED BY <3>1 DEF Phase
  <2>4. Watched \subseteq Int /\ \A j \in Watched : j = 1 \/ j > 1
    BY AnswerKinds DEF Watched
  <2>5. CASE "removeWatch" \in mishaps \/ "renumber" \in mishaps
    BY <2>1, <2>5 DEF OnlyKnownFaults
  <2>6. CASE "removeWatch" \notin mishaps /\ "renumber" \notin mishaps
    <3>1. StopsListed
      BY <2>3, <2>6 DEF Deep, WatchStops
    <3>2. \A j \in Watched : ~(j < 1)
      BY <2>4
    <3>3. fault' = "none"
      BY <2>1, <2>2, <3>1, <3>2 DEF StopsListed
    <3> QED BY <3>3 DEF OnlyKnownFaults
  <2> QED BY <2>5, <2>6
<1>7. ASSUME AnEdit PROVE OnlyKnownFaults'
  <2>1. UNCHANGED <<fault, mishaps>>
    BY <1>7 DEF AnEdit, Adding, Edited, Removing, Changing, listVars, coreVars, counts
  <2> QED BY <2>1 DEF OnlyKnownFaults
<1>8. ASSUME \/ Asking
             \/ CancelDialog
             \/ Load
             \/ Continuing
             \/ Shutting
             \/ \E r : Loading(r)
             \/ \E r : Launching(r)
      PROVE  OnlyKnownFaults'
  <2>1. UNCHANGED <<fault, mishaps>>
    BY <1>8 DEF Asking, AddWatchpoint, CancelDialog, Load, Continuing, Continue, Shutting, Close,
       Loading, Launching, listVars, coreVars, counts
  <2> QED BY <2>1 DEF OnlyKnownFaults
<1>9. ASSUME \/ \E op : Setting(op)
             \/ \E n, locs : Installing(n, locs)
             \/ \E n : Watching(n)
             \/ Refusing
             \/ Starting
             \/ Resuming
             \/ Ending
             \/ Dropping
      PROVE  OnlyKnownFaults'
  <2>1. UNCHANGED <<fault, mishaps>>
    BY <1>9 DEF Setting, Up, Taking, Installing, Watching, Refusing, Starting, Resuming, Ending,
       Dropping, listVars, coreVars, counts
  <2> QED BY <2>1 DEF OnlyKnownFaults
<1>10. ASSUME AStop PROVE OnlyKnownFaults'
  <2>1. UNCHANGED <<fault, mishaps>>
    BY <1>10 DEF AStop, Pausing, Moving, Exiting, Ignored, Stopping, listVars, coreVars, counts
  <2> QED BY <2>1 DEF OnlyKnownFaults
<1>11. ASSUME \/ Outdated
              \/ Connecting
              \/ Leaving
              \/ Disconnecting
      PROVE  OnlyKnownFaults'
  <2>1. UNCHANGED <<fault, mishaps>>
    BY <1>11 DEF Outdated, Hearing, Connecting, Leaving, Disconnecting, listVars, coreVars, counts
  <2> QED BY <2>1 DEF OnlyKnownFaults
<1> QED BY <1>1, <1>2, <1>3, <1>4, <1>5, <1>6, <1>7, <1>8, <1>9, <1>10, <1>11
       DEF Step, AnEdit, ARequest, ACoreStep, AStop, AnAnswer

(* The mishaps of a behaviour are settled from its start. *)
LEMMA StepKeeps ==
  ASSUME Step
  PROVE  mishaps' = mishaps
<1>1. ASSUME AnEdit PROVE mishaps' = mishaps
  <2>1. UNCHANGED <<mishaps>>
    BY <1>1 DEF AnEdit, Adding, Edited, Removing, Changing, listVars, coreVars, counts
  <2> QED BY <2>1
<1>2. ASSUME ARequest PROVE mishaps' = mishaps
  <2>1. UNCHANGED <<mishaps>>
    BY <1>2 DEF ARequest, Asking, AddWatchpoint, CancelDialog, Load, AttachFirst, Continuing,
       Continue, Shutting, Close, Loading, Launching, listVars, coreVars, counts
  <2> QED BY <2>1
<1>3. ASSUME ACoreStep PROVE mishaps' = mishaps
  <2>1. UNCHANGED <<mishaps>>
    BY <1>3 DEF ACoreStep, Broken, Taking, NoBreakpoint, Setting, Up, Installing, Watching,
       Refusing, Starting, Resuming, Ending, Dropping, listVars, coreVars, counts
  <2> QED BY <2>1
<1>4. ASSUME AStop PROVE mishaps' = mishaps
  <2>1. UNCHANGED <<mishaps>>
    BY <1>4 DEF AStop, Pausing, Moving, Exiting, Ignored, Stopping, listVars, coreVars, counts
  <2> QED BY <2>1
<1>5. ASSUME AnAnswer PROVE mishaps' = mishaps
  <2>1. UNCHANGED <<mishaps>>
    BY <1>5 DEF AnAnswer, Outdated, Hearing, Connecting, Listing, Reopening, Updating, Leaving,
       Disconnecting, listVars, coreVars, counts
  <2> QED BY <2>1
<1> QED BY <1>1, <1>2, <1>3, <1>4, <1>5
       DEF Step, AnEdit, ARequest, ACoreStep, AStop, AnAnswer

(* While there is a target, a step that uses no invalid pointer leaves it *)
(* connected.                                                              *)
LEMMA ConnectedStep ==
  ASSUME Shape, Phase, "renumber" \notin mishaps, coreUp, coreUp', Step, fault' = "none",
         Fresh, Numbers, Connected
  PROVE  Connected'
<1> USE DEF Connected
<1>1. InstallsInOrder /\ Matched /\ OnAgrees /\ CondAgrees
  BY DEF Following
<1>2. UNCHANGED mishaps
  BY StepKeeps
<1>3. InstallsInOrder'
  BY <1>1, InOrderStep
<1>4. EditsFind'
  BY <1>1, EditsFindStep
<1>5. RemovedLast'
  BY <1>1, RemovedLastStep
<1>6. ListKnown'
  BY <1>1, ListKnownStep
<1>7. WatchesKnown'
  BY <1>1, WatchesKnownStep
<1>8. CoreKnown'
  BY <1>1, CoreKnownStep
<1>9. InstallsKnown'
  BY <1>1, InstallsKnownStep
<1>10. OnAgrees'
  BY <1>1, OnAgreesStep
<1>11. CondAgrees'
  BY <1>1, CondAgreesStep
<1>12. Following'
  BY <1>3, <1>4, <1>5, <1>6, <1>7, <1>8, <1>9, <1>10, <1>11 DEF Following, Matched
<1>13. AskedStill'
  BY <1>1, AskedStillStep
<1>14. WatchStops'
  <2> SUFFICES ASSUME "removeWatch" \notin mishaps PROVE RemovedStill' /\ StopsListed'
    BY <1>2 DEF WatchStops
  <2>1. RemovedStill /\ StopsListed
    BY DEF WatchStops
  <2>2. RemovedStill'
    BY <1>1, <2>1, RemovedStillStep
  <2>3. StopsListed'
    BY <1>1, <2>1, StopsListedStep
  <2> QED BY <2>2, <2>3
<1>15. Snapped'
  BY <1>1, SnappedStep
<1>16. NotYet'
  BY <1>1, NotYetStep
<1>17. HitsAgree'
  <2> SUFFICES ASSUME "staleHits" \notin mishaps
      PROVE  CountsStill' /\ CurrAgrees' /\ WatchedZero' /\ IgnoreAgrees'
    BY <1>2 DEF HitsAgree
  <2>1. CountsStill /\ CurrAgrees /\ WatchedZero /\ IgnoreAgrees
    BY DEF HitsAgree
  <2>2. CountsStill'
    BY <1>1, <2>1, CountsStillStep
  <2>3. CurrAgrees'
    BY <1>1, <2>1, CurrAgreesStep
  <2>4. WatchedZero'
    BY <1>1, <2>1, WatchedZeroStep
  <2>5. IgnoreAgrees'
    BY <1>1, <2>1, IgnoreAgreesStep
  <2> QED BY <2>2, <2>3, <2>4, <2>5
<1>18. Sites'
  <2>1. StopSites /\ StoppedSites
    BY DEF Sites
  <2>2. StopSites'
    BY <1>1, <2>1, StopSitesStep
  <2>3. StoppedSites'
    BY <1>1, <2>1, StoppedSitesStep
  <2> QED BY <2>2, <2>3 DEF Sites
<1> QED BY <1>12, <1>13, <1>14, <1>15, <1>16, <1>17, <1>18

-----------------------------------------------------------------------------
(* The theorem                                                             *)

(* No step follows the use of an invalid pointer. *)
LEMMA StepStarts ==
  ASSUME Step
  PROVE  fault = "none"
<1>1. CASE AnEdit
  BY <1>1, EditKeeps
<1>2. CASE ARequest
  BY <1>2 DEF ARequest, Asking, AddWatchpoint, CancelDialog, Load, AttachFirst, Continuing, Continue,
              Shutting, Close, Loading, Launching
<1>3. CASE ACoreStep
  BY <1>3, CorePops
<1>4. CASE AStop
  BY <1>4, StopKeeps
<1>5. CASE AnAnswer
  BY <1>5, MainPops
<1> QED BY <1>1, <1>2, <1>3, <1>4, <1>5 DEF Step

(* What a reader of the list and of LLDB's breakpoints sees agrees, when     *)
(* nothing is on its way.                                                  *)
LEMMA ConnectedAgrees ==
  ASSUME Shape, fault = "none" => Deep
  PROVE  CoreFollowsList
<1> SUFFICES ASSUME fault = "none", target \in {"loaded", "stopped"}, commands = <<>>, answers = <<>>,
                    "renumber" \notin mishaps
    PROVE  /\ DOMAIN core = DOMAIN list
           /\ \A i \in DOMAIN list : core[i].on = list[i].on /\ core[i].cond = list[i].cond
           /\ target = "stopped" => \A i \in DOMAIN list :
                /\ core[i].locs = list[i].locs
                /\ "staleHits" \notin mishaps => core[i].ignore = IgnoreCount(list[i])
  BY DEF CoreFollowsList
<1>1. Following /\ HitsAgree /\ Sites
  <2>1. coreUp
    BY DEF Deep, Phase
  <2> QED BY <2>1 DEF Deep
<1>2. \A ops : Kind(commands, ops) = {} /\ Kind(answers, ops) = {}
  BY DEF Kind
<1>3. DOMAIN core = DOMAIN list
  <2>1. Installs = {} /\ Removals = {} /\ Watched = {}
    BY <1>2 DEF Installs, Removals, Watched
  <2> QED BY <1>1, <2>1 DEF Following, Matched, ListKnown, CoreKnown
<1>4. \A ops : \A i : On(commands, ops, i) = {} /\ On(answers, ops, i) = {}
  BY <1>2 DEF On
<1>5. \A i \in DOMAIN list : core[i].on = list[i].on
  BY <1>1, <1>4 DEF Following, OnAgrees
<1>6. \A i \in DOMAIN list : core[i].cond = list[i].cond
  BY <1>1, <1>4 DEF Following, CondAgrees
<1>7. ASSUME target = "stopped", NEW i \in DOMAIN list PROVE core[i].locs = list[i].locs
  <2>1. i[1] \in {"code", "watch"}
    BY NextFields
  <2>2. CASE i[1] = "code"
    <3>1. Installed(i) = {}
      BY <1>4 DEF Installed
    <3> QED BY <1>1, <1>3, <1>7, <2>2, <3>1 DEF Sites, StoppedSites
  <2>3. CASE i[1] = "watch"
    BY <1>3, <2>3 DEF Shape, Nowhere
  <2> QED BY <2>1, <2>2, <2>3
<1>8. ASSUME target = "stopped", "staleHits" \notin mishaps, NEW i \in DOMAIN list
      PROVE  core[i].ignore = IgnoreCount(list[i])
  <2>1. list[i].curr = Ran(i)
    BY <1>1, <1>3, <1>8 DEF HitsAgree, CurrAgrees, Counts
  <2>2. Settled(i)
    BY <1>1, <1>8 DEF HitsAgree, IgnoreAgrees
  <2>3. core[i].ignore = Ignoring(list[i].hits, Ran(i))
    BY <1>3, <1>4, <2>2 DEF Settled
  <2> QED BY <2>1, <2>3 DEF Ignoring, IgnoreCount
<1> QED BY <1>3, <1>5, <1>6, <1>7, <1>8

(* The invariant says that the list is sound. *)
LEMMA InvSound == IInv => ListSound
<1> SUFFICES ASSUME IInv PROVE ListSound
  OBVIOUS
<1>1. Shape /\ Fresh /\ OnlyKnownFaults /\ (fault = "none" => Deep)
  BY DEF IInv
<1>2. TypeOK /\ RowsMatchList
  BY <1>1 DEF Shape
<1>3. InstalledOnce
  BY <1>1, FreshInstalls
<1>4. CoreFollowsList
  BY <1>1, ConnectedAgrees
<1> QED BY <1>1, <1>2, <1>3, <1>4 DEF ListSound

(* The invariant holds at the start. *)
LEMMA InvInit == Init => IInv
<1> SUFFICES ASSUME Init PROVE IInv
  OBVIOUS
<1>1. /\ list = <<>> /\ rows = <<>> /\ nextNum = 1 /\ dialog = "closed" /\ target = "none"
      /\ core = <<>> /\ coreUp = FALSE /\ coreNext = [t \in {"code", "watch"} |-> 1]
      /\ moving = FALSE /\ commands = <<>> /\ answers = <<>> /\ fault = "none" /\ targets = 0
      /\ mishaps \in Scenarios
  BY DEF Init
<1>2. DOMAIN list = {} /\ DOMAIN rows = {} /\ DOMAIN core = {}
  BY <1>1
<1>3. \A ops : Kind(commands, ops) = {} /\ Kind(answers, ops) = {}
  BY <1>1 DEF Kind
<1>4. /\ Installs = {} /\ Told = {} /\ Closes = {} /\ Closed = {} /\ Resumes = {} /\ Ends = {} /\ Stops = {}
      /\ Asked = {} /\ Replied = {} /\ Watched = {}
  BY <1>3 DEF Installs, Told, Closes, Closed, Resumes, Ends, Stops, Asked, Replied, Watched
<1>5. TypeOK
  <2>1. mishaps \subseteq MishapKinds
    BY <1>1, ScenariosAssumption
  <2>2. MaxNum \in Nat
    BY BoundsAssumption
  <2>3. nextNum \in 1..(MaxNum + 1) /\ coreNext \in [{"code", "watch"} -> 1..(MaxNum + 1)]
    BY <1>1, <2>2
  <2>4. rows \in [DOMAIN rows -> SUBSET Lines]
    BY <1>1
  <2> QED BY <1>1, <1>2, <2>1, <2>3, <2>4 DEF TypeOK
<1>6. Shape
  <2>1. Typed
    BY <1>1 DEF Typed
  <2>2. IsFiniteSet(DOMAIN list)
    BY <1>2, FS_EmptySet
  <2>3. core \in [DOMAIN core -> CoreBreakpoint]
    BY <1>1
  <2>4. RowsMatchList
    BY <1>1 DEF RowsMatchList
  <2>5. Nowhere
    BY <1>2, <1>4 DEF Nowhere
  <2> QED BY <1>2, <1>5, <2>1, <2>2, <2>3, <2>4, <2>5 DEF Shape
<1>7. OnlyKnownFaults /\ Fresh
  BY <1>1, <1>4 DEF OnlyKnownFaults, Fresh
<1>8. Phase /\ Waiting /\ Closing
  BY <1>1, <1>2, <1>4 DEF Phase, Unique, Waiting, Closing
<1>9. Numbers
  <2>1. DOMAIN list = {"code"} \X (1..(nextNum - 1))
    BY <1>1, <1>2
  <2> QED BY <1>1, <1>2, <1>4, <2>1 DEF Numbers, WatchNumbers
<1> QED BY <1>1, <1>6, <1>7, <1>8, <1>9 DEF IInv, Deep

(* Every step of the program keeps the invariant. *)
LEMMA InvNext == IInv /\ Next => IInv'
<1> SUFFICES ASSUME IInv, Next PROVE IInv'
  OBVIOUS
<1>1. Shape /\ Fresh /\ OnlyKnownFaults /\ (fault = "none" => Deep)
  BY DEF IInv
<1>2. Step
  BY <1>1, Steps
<1>3. fault = "none"
  BY <1>2, StepStarts
<1>4. Deep /\ Phase /\ Waiting /\ Closing /\ Numbers
  BY <1>1, <1>3 DEF Deep
<1>5. Shape'
  BY <1>1, <1>2, ShapeStep
<1>6. Fresh'
  BY <1>1, <1>2, <1>4, FreshStep
<1>7. OnlyKnownFaults'
  BY <1>1, <1>2, <1>3, <1>4, FaultsStep
<1>8. ASSUME fault' = "none" PROVE Deep'
  <2>1. Phase'
    BY <1>1, <1>2, <1>4, <1>8, PhaseStep
  <2>2. Waiting'
    BY <1>1, <1>2, <1>4, <1>8, WaitingStep
  <2>3. Closing'
    BY <1>1, <1>2, <1>4, <1>8, ClosingStep
  <2>4. Numbers'
    BY <1>1, <1>2, <1>4, <1>8, NumbersStep
  <2>5. ASSUME "renumber" \notin mishaps', coreUp' PROVE Connected'
    <3>1. "renumber" \notin mishaps
      BY <1>2, <2>5, StepKeeps
    <3>2. CASE coreUp
      <4>1. Connected
        BY <1>4, <3>1, <3>2 DEF Deep, Connected
      <4> QED BY <1>1, <1>2, <1>4, <1>8, <2>5, <3>1, <3>2, <4>1, ConnectedStep
    <3>3. CASE ~coreUp
      <4>1. \E r : Loading(r)
        BY <1>2, <2>5, <3>3, OnlyLoading
      <4> QED BY <1>1, <1>4, <3>1, <4>1, LoadingConnects
    <3> QED BY <3>2, <3>3
  <2> QED BY <2>1, <2>2, <2>3, <2>4, <2>5 DEF Deep, Connected
<1> QED BY <1>5, <1>6, <1>7, <1>8 DEF IInv

(* So does a step that changes nothing. *)
LEMMA InvStutters == IInv /\ UNCHANGED vars => IInv'
<1> SUFFICES ASSUME IInv, UNCHANGED vars PROVE IInv'
  OBVIOUS
<1>1. /\ UNCHANGED <<list, rows, nextNum, dialog, target, core, coreUp, coreNext, moving>>
      /\ UNCHANGED <<commands, answers, fault, targets, mishaps>>
  BY DEF vars, listVars, coreVars, counts
<1>2. /\ UNCHANGED <<Resumes, Closes, Installs, Editing, Removals, Asked, Counting>>
      /\ UNCHANGED <<Ends, Stops, Closed, Watched, Told, Replied>>
  BY <1>1 DEF Resumes, Closes, Installs, Editing, Removals, Asked, Counting, Ends, Stops, Closed, Watched, Told, Replied
<1>3. Shape' <=> Shape
  BY <1>1, <1>2 DEF Shape, TypeOK, Typed, RowsMatchList, Nowhere
<1>4. (Fresh' <=> Fresh) /\ (OnlyKnownFaults' <=> OnlyKnownFaults)
  BY <1>1, <1>2 DEF Fresh, OnlyKnownFaults
<1>5. (Phase' <=> Phase) /\ (Waiting' <=> Waiting)
  BY <1>1, <1>2 DEF Phase, Waiting
<1>6. (Closing' <=> Closing) /\ (Numbers' <=> Numbers)
  BY <1>1, <1>2 DEF Closing, Numbers, Early, WatchNumbers
<1>7. Following' <=> Following
  <2>1. (InstallsInOrder' <=> InstallsInOrder)
    BY <1>1, <1>2 DEF InstallsInOrder
  <2>2. Matched' <=> Matched
    BY <1>1, <1>2 DEF Matched, EditsFind, RemovedLast, ListKnown, WatchesKnown, CoreKnown, InstallsKnown
  <2>3. (OnAgrees' <=> OnAgrees) /\ (CondAgrees' <=> CondAgrees)
    BY <1>1 DEF OnAgrees, CondAgrees
  <2> QED BY <2>1, <2>2, <2>3 DEF Following
<1>8. (AskedStill' <=> AskedStill) /\ (WatchStops' <=> WatchStops)
  BY <1>1, <1>2 DEF AskedStill, WatchStops, RemovedStill, StopsListed
<1>9. (Snapped' <=> Snapped) /\ (NotYet' <=> NotYet)
  BY <1>1, <1>2 DEF Snapped, NotYet
<1>10. HitsAgree' <=> HitsAgree
  <2>1. (Rerun' <=> Rerun) /\ (Counts' <=> Counts)
    BY <1>1, <1>2 DEF Rerun, Counts
  <2>2. \A i : Ran(i)' = Ran(i)
    BY <1>1, <2>1 DEF Ran
  <2>3. \A i : Settled(i)' <=> Settled(i)
    BY <1>1, <2>2 DEF Settled
  <2>4. IgnoreAgrees' <=> IgnoreAgrees
    BY <1>1, <2>3 DEF IgnoreAgrees
  <2>5. (CountsStill' <=> CountsStill) /\ (CurrAgrees' <=> CurrAgrees) /\ (WatchedZero' <=> WatchedZero)
    BY <1>1, <1>2, <2>1, <2>2 DEF CountsStill, CurrAgrees, WatchedZero
  <2> QED BY <1>1, <2>4, <2>5 DEF HitsAgree
<1>11. Sites' <=> Sites
  <2>1. \A i : Installed(i)' = Installed(i)
    BY <1>1 DEF Installed, On
  <2> QED BY <1>1, <1>2, <2>1 DEF Sites, StopSites, StoppedSites
<1>12. Deep' <=> Deep
  BY <1>1, <1>5, <1>6, <1>7, <1>8, <1>9, <1>10, <1>11 DEF Deep
<1> QED BY <1>1, <1>3, <1>4, <1>12 DEF IInv

(* For all bounds and all sets of mishaps: no breakpoint is installed twice  *)
(* or numbered by an answer of a closed target, the view's rows are the      *)
(* list's, and a pointer is invalid, or the assertion of check_initial_      *)
(* bp_props fails, only under the mishap named for it. With nothing on its   *)
(* way, LLDB has the list's breakpoints, on or off, conditional and, when    *)
(* stopped, at the locations and with the ignore counts the list says: not   *)
(* so in the scenarios with "renumber", and the counts not in those with     *)
(* "staleHits" (CoreFollowsList).                                            *)
THEOREM ListIsSound == Spec => []ListSound
<1>1. IInv /\ [Next]_vars => IInv'
  BY InvNext, InvStutters
<1> QED BY InvInit, InvSound, <1>1, PTL DEF Spec
=============================================================================
