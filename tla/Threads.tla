------------------------------- MODULE Threads -------------------------------
(***************************************************************************)
(* The threads of a stopped process as dbg::thread_list shows them, and    *)
(* the tree of the current thread's frames (call_stack_model over          *)
(* call_stack_tree).                                                       *)
(*                                                                         *)
(* A stop brings LLDB's threads with at most MaxFrames frames each. The    *)
(* list keeps its thread and frame objects: thread::update finds the part  *)
(* of the call stack that has stayed by the frames' CFAs and removes and   *)
(* inserts at the two ends, and the tree follows each removal and          *)
(* insertion, with a frame whose function the user groups put below the    *)
(* frame before it. Threads and frames are selected, and the frames left   *)
(* out are fetched, through the core thread's queue.                       *)
(*                                                                         *)
(* A frame is its CFA and its function; addresses, parameters and source   *)
(* positions go with the function. Assertions are compiled out; the use of *)
(* a pointer or an index that is not valid, and a frame that is taken for  *)
(* another one, are recorded in fault, where a behaviour ends.             *)
(***************************************************************************)
EXTENDS Integers, Sequences, FiniteSets, TLC, Functions, SequencesExt

CONSTANTS
  MaxFrames,   \* max_frames of core_target_impl.cpp, 50 there
  MaxCfa,      \* bound: the CFA of the frame at the bottom of every stack
  MaxStops,    \* bound: times the process stops
  MaxPending,  \* bound: commands and answers on their way when the user acts
  Scenarios    \* the sets of mishaps a behaviour may have

MishapKinds == {"grouping",   \* the user groups functions by a regular expression
                "deep",       \* a call stack has more than MaxFrames frames
                "disorder",   \* the CFAs of a call stack do not ascend
                "switch",     \* another thread is selected while frames are fetched
                "hastyEnd"}   \* the process is ended while frames are fetched

ASSUME BoundsAssumption ==
  /\ {MaxCfa, MaxStops, MaxPending} \subseteq Nat
  /\ MaxFrames \in Nat \ {0}
ASSUME ScenariosAssumption == Scenarios \subseteq SUBSET MishapKinds

VARIABLES
  state,     \* the target's state in the main thread
  threads,   \* thread_list::threads_, by thread id
  current,   \* thread_list::current_thread_, also call_stack_model::thrd_
  rows,      \* call_stack_tree: the roots with the frames below them
  grouped,   \* call_stack_tree::group_regex_ is not empty
  values,    \* the thread and frame whose locals are shown
  real,      \* LLDB's threads and their call stacks
  selected,  \* LLDB's selected frame of each thread
  active,    \* LLDB's selected thread
  commands,  \* the core thread's queue
  answers,   \* the main thread's queue
  fault,     \* the invalid pointer or index that was used, the frame mistaken
  stops,     \* what MaxStops counts
  mishaps    \* what may go wrong in this behaviour; never changes

shownVars == <<threads, current, rows, values>>
realVars == <<real, selected, active>>
vars == <<state, shownVars, grouped, realVars, commands, answers, fault, stops, mishaps>>

ThreadIds == {1, 2}
NoThread == 0
NoFrame == -1  \* invalid_current_frame; what is less wraps around to large indices

\* stack_frame: two frames are the same for stack_frame_eq when they are equal.
Frames == [cfa : 1..MaxCfa, fn : {"plain", "lib"}]
Ascending(s) == \A i \in 1..(Len(s) - 1) : s[i].cfa <= s[i + 1].cfa

\* The stacks of LLDB's threads: empty, or with the bottom frame at MaxCfa,
\* which differs while it is the only one; only the frames of inlined functions
\* have a CFA in common.
Bottom == [cfa |-> MaxCfa, fn |-> "plain"]
Above == {s \in UNION {[1..n -> Frames] : n \in 0..MaxFrames} :
            \A i \in DOMAIN s : s[i].cfa < MaxCfa /\ \A j \in DOMAIN s : i # j => s[i] # s[j]}
Stacks == {<<>>, <<[Bottom EXCEPT !.fn = "lib"]>>} \cup {Append(s, Bottom) : s \in Above}
May(s) == /\ Ascending(s) \/ "disorder" \in mishaps
          /\ Len(s) <= MaxFrames \/ "deep" \in mishaps
          /\ "grouping" \in mishaps \/ \A i \in DOMAIN s : s[i].fn = "plain"  \* a bound

\* dbg::thread.
Thread == [stack : Seq(Frames), frame : Int, ordered : BOOLEAN, complete : BOOLEAN]
NewThread == [stack |-> <<>>, frame |-> NoFrame, ordered |-> TRUE, complete |-> TRUE]

\* thread_info, as convert_core_thread makes it.
Info(s, frame, all) ==
  [stack |-> IF all THEN s ELSE SubSeq(s, 1, IF Len(s) < MaxFrames THEN Len(s) ELSE MaxFrames),
   frame |-> frame, complete |-> all \/ Len(s) <= MaxFrames]

-----------------------------------------------------------------------------
(* The tree of frames: call_stack_tree                                     *)

Row(frame, kids) == [frame |-> frame, kids |-> kids]
Flat(rs) == FlattenSeq([i \in DOMAIN rs |-> <<rs[i].frame>> \o rs[i].kids])

\* The root a frame is, or is below, and its place below it, or 0.
Place(rs, f) ==
  CHOOSE p \in UNION {{i} \X (0..Len(rs[i].kids)) : i \in DOMAIN rs} :
    f = IF p[2] = 0 THEN rs[p[1]].frame ELSE rs[p[1]].kids[p[2]]

\* match: the function of the frame is one of those to group.
Match(f, grouping) == grouping /\ f.fn = "lib"

\* The handler of before_stack_frames_removed for the frames from f to l.
\* What is kept of the rows below the last root starts with l itself, when l
\* is below it: drop(l_node_idx).
RemoveRows(rs, f, l) ==
  LET p == Place(rs, f)
      q == Place(rs, l)
      below == rs[q[1]].kids
      left == CASE q[2] = 0 -> below
                [] p[1] = q[1] /\ p[2] # 0 -> SubSeq(below, q[2] + 1, Len(below))
                [] p[1] = q[1] /\ q[2] = Len(below) -> <<>>
                [] OTHER -> SubSeq(below, q[2], Len(below))
      kept == CASE p[2] # 0 -> <<[rs[p[1]] EXCEPT !.kids = SubSeq(@, 1, p[2] - 1) \o left]>>
                [] p[2] = 0 /\ left # <<>> -> <<Row(Head(left), Tail(left))>>
                [] OTHER -> <<>>
  IN  SubSeq(rs, 1, p[1] - 1) \o kept \o SubSeq(rs, q[1] + 1, Len(rs))

\* add_frames: fs is inserted behind the root at, 0 for the beginning, each a
\* root or below the root before it. A root that the frames now precede may
\* have to go there with them.
AddFrame(roots, f, grouping) ==
  IF Match(f, grouping) /\ roots # <<>>
  THEN [roots EXCEPT ![Len(roots)].kids = Append(@, f)]
  ELSE Append(roots, Row(f, <<>>))

AddRows(rs, fs, at, grouping) ==
  LET add(roots, f) == AddFrame(roots, f, grouping)
      regroups == at < Len(rs) /\ Match(rs[at + 1].frame, grouping)
      next == at + IF regroups THEN 1 ELSE 0
  IN  FoldLeft(add, SubSeq(rs, 1, at), fs \o Flat(SubSeq(rs, at + 1, next)))
        \o SubSeq(rs, next + 1, Len(rs))

\* set_thread and set_group_regex: clear, then rebuild.
Rebuilt(t, grouping) == IF t.stack = <<>> THEN <<>> ELSE AddRows(<<>>, t.stack, 0, grouping)

-----------------------------------------------------------------------------
(* The call stack: thread::update. A view v is a thread, the rows and the  *)
(* fault; only the current thread has listeners.                           *)

Failed(v, f) == [v EXCEPT !.fault = IF @ = "none" THEN f ELSE @]

\* A row that is left for the frame f, which is destroyed.
Checked(v, f) ==
  IF v.listened /\ f \in Range(Flat(v.rows)) THEN Failed(v, "danglingRow") ELSE v

\* remove_begin: the first count frames. The index of the current frame is
\* reduced also when there is no current frame.
DropFirst(v, count) ==
  LET s == v.thread.stack
      next == [v EXCEPT !.thread.stack = SubSeq(s, count + 1, Len(s)),
                        !.thread.frame = IF @ \in 0..(count - 1) THEN NoFrame ELSE @ - count,
                        !.rows = IF v.listened THEN RemoveRows(@, s[1], s[count]) ELSE @]
  IN  IF count = 0 THEN v ELSE Checked(next, s[count])

\* remove_end: all frames but the first count.
DropRest(v, count) ==
  LET s == v.thread.stack
      next == [v EXCEPT !.thread.stack = SubSeq(s, 1, count),
                        !.thread.frame = IF @ \in 0..(count - 1) THEN @ ELSE NoFrame,
                        !.rows = IF v.listened THEN RemoveRows(@, s[count + 1], Last(s)) ELSE @]
  IN  IF count = Len(s) THEN v ELSE Checked(next, Last(s))

\* insert_begin and insert_end.
InsertFirst(v, fs) ==
  IF fs = <<>> THEN v
  ELSE [v EXCEPT !.thread.stack = fs \o @,
                 !.thread.frame = IF @ = NoFrame THEN @ ELSE @ + Len(fs),
                 !.rows = IF v.listened THEN AddRows(@, fs, 0, v.grouped) ELSE @]

InsertLast(v, fs) ==
  IF fs = <<>> THEN v
  ELSE [v EXCEPT !.thread.stack = @ \o fs,
                 !.rows = IF ~v.listened THEN @
                          ELSE AddRows(@, fs, IF v.thread.stack = <<>> THEN 0
                                              ELSE Place(@, Last(v.thread.stack))[1], v.grouped)]

\* The call stack is changed edit by edit, each with its notification.
Edit(op, arg) == [op |-> op, arg |-> arg]
Apply(v, edit) ==
  CASE edit.op = "dropFirst" -> DropFirst(v, edit.arg)
    [] edit.op = "dropRest" -> DropRest(v, edit.arg)
    [] edit.op = "insertFirst" -> InsertFirst(v, edit.arg)
    [] edit.op = "insertLast" -> InsertLast(v, edit.arg)
    [] edit.op = "fail" -> Failed(v, edit.arg)

Replace(new) == <<Edit("dropRest", 0), Edit("insertLast", new)>>

\* The frames from old[1..i] and new[1..j] that stay: the last of both are
\* taken to be the same, those above them are compared.
Common(old, i, new, j) ==
  LET same(k) == k <= i /\ k <= j /\ \A m \in 1..(k - 1) : old[i - m] = new[j - m]
  IN  CHOOSE k \in 1..i : same(k) /\ ~same(k + 1)

Align_KeepEnd(old, i, new, j) ==
  LET k == Common(old, i, new, j)
  IN  <<Edit("dropFirst", i - k), Edit("insertFirst", SubSeq(new, 1, j - k)),
        Edit("insertLast", SubSeq(new, j + 1, Len(new)))>>

Align(old, i, new, j) ==
  LET k == Common(old, i, new, j)
  IN  (IF old[i] = new[j] THEN <<>> ELSE <<Edit("fail", "otherFrame")>>)
      \o <<Edit("dropFirst", i - k), Edit("dropRest", k),
           Edit("insertFirst", SubSeq(new, 1, j - k)),
           Edit("insertLast", SubSeq(new, j + 1, Len(new)))>>

\* std::upper_bound over the CFAs: the frames of s up to cfa.
UpTo(s, cfa) == Cardinality({i \in DOMAIN s : s[i].cfa <= cfa})

Merge(old, new) ==
  LET n == UpTo(new, Last(old).cfa)
      o == UpTo(old, Last(new).cfa)
  IN  CASE n = 0 -> Replace(new)
        [] n = Len(new) /\ Last(old).cfa = Last(new).cfa /\ Last(old) # Last(new) -> Replace(new)
        [] n < Len(new) \/ Last(old) = Last(new) -> Align(old, Len(old), new, n)
        [] o = 0 -> Replace(new)
        [] OTHER -> Align(old, o, new, Len(new))

\* thread::update. Frames that do not ascend are replaced, and the index of the
\* current frame stays; before an empty stack is cleared, listeners are told of
\* its removal.
Update(v, info) ==
  LET old == v.thread.stack
      ordered == Ascending(info.stack)
      sorted == v.thread.ordered /\ ordered
      edits == CASE sorted /\ old # <<>> /\ info.stack # <<>> -> Merge(old, info.stack)
                 [] ~sorted /\ old = <<>> /\ v.listened ->
                      <<Edit("fail", "emptyRemoved")>> \o Replace(info.stack)
                 [] OTHER -> Replace(info.stack)
      next == FoldLeft(Apply, [v EXCEPT !.thread.complete = info.complete,
                                        !.thread.ordered = ordered], edits)
  IN  IF sorted THEN next ELSE [next EXCEPT !.thread.frame = v.thread.frame]

\* set_current_frame_index: listeners look the old and the new frame up.
SetFrame(v, index) ==
  LET old == v.thread.frame
      next == [v EXCEPT !.thread.frame = index]
  IN  IF v.listened /\ old # NoFrame /\ old \notin 0..(Len(v.thread.stack) - 1)
      THEN Failed(next, "staleFrame") ELSE next

View(t) == [thread |-> IF t \in DOMAIN threads THEN threads[t] ELSE NewThread, rows |-> rows,
            fault |-> fault, grouped |-> grouped, listened |-> t = current]

-----------------------------------------------------------------------------
(* The user, in the main thread                                            *)

Pending(op) == \/ \E k \in DOMAIN commands : commands[k].op = op
               \/ \E k \in DOMAIN answers : answers[k].op = op
Post(cmd) == commands' = Append(commands, cmd)

MayAct(s) == fault = "none" /\ state = s /\ Len(commands) + Len(answers) < MaxPending
ThreadInfos == [t \in DOMAIN real |-> Info(real[t], selected[t], FALSE)]

\* target::set_current_thread, from the list of threads or the console; the
\* model is given the thread by current_thread_changed.
SelectThread(t) ==
  /\ MayAct("stopped") /\ t \in DOMAIN threads
  /\ t # current /\ (Pending("fetch") \/ Pending("frames")) => "switch" \in mishaps
  /\ current' = t /\ rows' = IF t = current THEN rows ELSE Rebuilt(threads[t], grouped)
  /\ Post([op |-> "thread", of |-> t])
  /\ UNCHANGED <<state, threads, values, grouped, realVars, answers, fault, stops, mishaps>>

\* target::set_current_frame: the double click on a row, or the console.
SelectFrame(index) ==
  LET v == SetFrame(View(current), index)
  IN  /\ MayAct("stopped") /\ current # NoThread /\ index < Len(threads[current].stack)
      /\ threads' = [threads EXCEPT ![current] = v.thread] /\ fault' = v.fault
      /\ Post([op |-> "frame", index |-> index])
      /\ UNCHANGED <<state, current, rows, values, grouped, realVars, answers, stops, mishaps>>

\* target::fetch_all_stack_frames: the double click on the row "...".
FetchAll ==
  /\ MayAct("stopped") /\ current # NoThread /\ ~threads[current].complete
  /\ Post([op |-> "fetch"])
  /\ UNCHANGED <<state, shownVars, grouped, realVars, answers, fault, stops, mishaps>>

\* call_stack_model::group_functions_lists_changed.
Regroup ==
  /\ fault = "none" /\ "grouping" \in mishaps /\ grouped' = ~grouped
  /\ rows' = IF current = NoThread THEN <<>> ELSE Rebuilt(threads[current], ~grouped)
  /\ UNCHANGED <<state, threads, current, values, realVars, commands, answers, fault, stops, mishaps>>

Continue ==
  /\ MayAct("stopped") /\ stops < MaxStops /\ state' = "running" /\ Post([op |-> "resume"])
  /\ UNCHANGED <<shownVars, grouped, realVars, answers, fault, stops, mishaps>>

Launch ==
  /\ MayAct("loaded") /\ commands = <<>> /\ stops < MaxStops
  /\ state' = "running" /\ Post([op |-> "resume"])
  /\ UNCHANGED <<shownVars, grouped, realVars, answers, fault, stops, mishaps>>

\* thread_list::clear, when the target ends: the tree first.
ClearThreads == threads' = <<>> /\ rows' = <<>> /\ values' = <<>> /\ current' = NoThread

\* terminate or detach; the threads go at once.
End ==
  /\ MayAct("stopped") /\ (Pending("fetch") \/ Pending("frames") => "hastyEnd" \in mishaps)
  /\ state' = "ending" /\ ClearThreads /\ Post([op |-> "end"])
  /\ UNCHANGED <<grouped, realVars, answers, fault, stops, mishaps>>

-----------------------------------------------------------------------------
(* The core thread                                                         *)

Values == [op |-> "values", of |-> <<active', selected'[active']>>]

Execute(cmd) ==
  CASE cmd.op = "thread" ->
         /\ active' = cmd.of /\ UNCHANGED <<real, selected>>
         /\ answers' = Append(answers, Values)
    [] cmd.op = "frame" ->
         /\ selected' = [selected EXCEPT ![active] = cmd.index] /\ UNCHANGED <<real, active>>
         /\ answers' = Append(answers, Values)
    [] cmd.op = "fetch" ->
         /\ answers' = Append(answers, [op |-> "frames", info |-> Info(real[active], selected[active], TRUE)])
         /\ UNCHANGED realVars
    [] cmd.op = "resume" -> active' = NoThread /\ UNCHANGED <<real, selected, answers>>
    [] cmd.op = "end" -> /\ real' = <<>> /\ selected' = <<>> /\ active' = NoThread
                         /\ answers' = Append(answers, [op |-> "exited"])

CoreStep ==
  /\ fault = "none" /\ commands # <<>> /\ commands' = Tail(commands)
  /\ Execute(Head(commands))
  /\ UNCHANGED <<state, shownVars, grouped, fault, stops, mishaps>>

\* The process runs: it was resumed, and no stop has selected a thread since.
Runs == fault = "none" /\ state = "running" /\ commands = <<>> /\ answers = <<>> /\ active = NoThread

\* process_stopped: the thread that stops is selected, and after a signal the
\* first frame outside of libc. The stack of one thread changes at a time;
\* another one may begin or end meanwhile.
Stop(t, s, others) ==
  /\ stops < MaxStops /\ stops' = stops + 1
  /\ real' = (t :> s) @@ [u \in others |-> IF u \in DOMAIN real THEN real[u] ELSE <<Bottom>>]
  /\ active' = t
  /\ \E k \in {0} \cup 0..((IF Len(s) < MaxFrames THEN Len(s) ELSE MaxFrames) - 1) :
       selected' = [u \in {t} \cup others |-> IF u = t THEN k ELSE 0]
  /\ answers' = Append(answers, [op |-> "stopped", infos |-> ThreadInfos', of |-> t])
  /\ UNCHANGED <<state, shownVars, grouped, commands, fault, mishaps>>

Exit ==
  /\ Runs /\ real' = <<>> /\ selected' = <<>> /\ active' = NoThread
  /\ answers' = Append(answers, [op |-> "exited"])
  /\ UNCHANGED <<state, shownVars, grouped, commands, fault, stops, mishaps>>

-----------------------------------------------------------------------------
(* Answers, in the main thread                                             *)

\* thread_list::update: a current thread that is gone is given up first; the
\* threads that stay keep their objects; then the current one is set.
OnStopped(a) ==
  LET stays == current \in DOMAIN a.infos
      updated(t) ==
        LET v == Update(View(t), a.infos[t])
        IN  IF v.thread.stack = <<>> THEN v ELSE SetFrame(v, a.infos[t].frame)
      of == updated(current)
  IN  /\ state' = "stopped" /\ current' = a.of /\ values' = <<a.of, a.infos[a.of].frame>>
      /\ threads' = [t \in DOMAIN a.infos |-> updated(t).thread]
      /\ LET faults == {updated(t).fault : t \in DOMAIN a.infos}
         IN  fault' = IF faults = {"none"} THEN "none" ELSE CHOOSE f \in faults : f # "none"
      /\ rows' = IF stays /\ current = a.of THEN of.rows ELSE Rebuilt(threads'[a.of], grouped)
      /\ UNCHANGED grouped

\* The handler of fetch_all_stack_frames: the thread that is current by now.
OnFrames(a) ==
  IF current = NoThread THEN fault' = "noThread" /\ UNCHANGED <<state, shownVars, grouped>>
  ELSE LET v == Update(View(current), a.info)
       IN  /\ threads' = [threads EXCEPT ![current] = v.thread]
           /\ rows' = v.rows /\ fault' = v.fault
           /\ UNCHANGED <<state, current, values, grouped>>

MainStep ==
  /\ fault = "none" /\ answers # <<>> /\ answers' = Tail(answers)
  /\ LET a == Head(answers)
     IN  CASE a.op = "stopped" -> OnStopped(a)
           [] a.op = "frames" -> OnFrames(a)
           [] a.op = "values" -> values' = a.of /\ UNCHANGED <<state, threads, current, rows, grouped, fault>>
           [] a.op = "exited" -> state' = "loaded" /\ ClearThreads /\ UNCHANGED <<grouped, fault>>
  /\ UNCHANGED <<realVars, commands, stops, mishaps>>

Init ==
  /\ state = "loaded" /\ threads = <<>> /\ current = NoThread /\ rows = <<>> /\ grouped = FALSE
  /\ values = <<>> /\ real = <<>> /\ selected = <<>> /\ active = NoThread
  /\ commands = <<>> /\ answers = <<>> /\ fault = "none" /\ stops = 0 /\ mishaps \in Scenarios

Next ==
  \/ \E t \in ThreadIds : SelectThread(t)
  \/ \E index \in 0..MaxCfa : SelectFrame(index)
  \/ FetchAll \/ Regroup \/ Continue \/ Launch \/ End
  \/ CoreStep \/ MainStep
  \/ /\ Runs
     /\ \E t \in ThreadIds, s \in Stacks : \E others \in SUBSET (ThreadIds \ {t}) :
          /\ stops = 0 => t = 1  \* the names of the threads do not matter
          /\ "grouping" \in mishaps => others = {}  \* a bound
          /\ May(s) /\ Stop(t, s, others)
  \/ Exit

Spec == Init /\ [][Next]_vars

-----------------------------------------------------------------------------
(* Properties                                                              *)

TypeOK ==
  /\ state \in {"loaded", "running", "stopped", "ending"}
  /\ DOMAIN threads \subseteq ThreadIds /\ \A t \in DOMAIN threads : threads[t] \in Thread
  /\ current \in {NoThread} \cup DOMAIN threads
  /\ \A t \in DOMAIN real : real[t] \in Stacks
  /\ fault \in {"none", "danglingRow", "staleFrame", "emptyRemoved", "noThread", "otherFrame"}

\* The rows are the frames of the current thread, in their order: a frame of a
\* grouped function is below the last one before it that is not, and only the
\* first frame of all is a root in any case.
RowsShowStack ==
  fault = "none" =>
    /\ Flat(rows) = IF current = NoThread THEN <<>> ELSE threads[current].stack
    /\ \A i \in DOMAIN rows : /\ i > 1 => ~Match(rows[i].frame, grouped)
                              /\ \A k \in DOMAIN rows[i].kids : Match(rows[i].kids[k], grouped)

\* The frame marked as current is one that is shown; every use of an invalid
\* frame or thread has one of the causes named.
FramesValid ==
  /\ fault = "danglingRow" => "grouping" \in mishaps
  /\ fault = "staleFrame" => {"disorder", "switch"} \cap mishaps # {}
  /\ fault = "emptyRemoved" => "disorder" \in mishaps
  /\ fault = "noThread" => "hastyEnd" \in mishaps
  /\ fault = "otherFrame" => "deep" \in mishaps
  /\ fault = "none" /\ mishaps \cap {"disorder", "switch"} = {} =>
       \A t \in DOMAIN threads : threads[t].frame \in {NoFrame} \cup 0..(Len(threads[t].stack) - 1)

\* With nothing on its way the user sees LLDB's threads, their frames as far as
\* they were asked for, and the selection and the locals of LLDB's selected
\* frame: however the stacks have changed, the merge arrives at what LLDB has.
StacksAreLLDBs ==
  (/\ state = "stopped" /\ commands = <<>> /\ answers = <<>> /\ fault = "none"
   /\ "switch" \notin mishaps) =>
    /\ DOMAIN threads = DOMAIN real /\ current = active
    /\ \A t \in DOMAIN real : threads[t].stack = Info(real[t], 0, threads[t].complete).stack
    /\ threads[current].stack # <<>> => threads[current].frame = selected[current]
    /\ values = <<active, selected[active]>>

\* The thread list, the tree and the pointers into them hold together after
\* every update, selection and end, and come to show what LLDB has.
ThreadsSound == TypeOK /\ RowsShowStack /\ FramesValid /\ StacksAreLLDBs
=============================================================================
