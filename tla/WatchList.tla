------------------------------ MODULE WatchList ------------------------------
(***************************************************************************)
(* A list of values: dbg::watch_list and custom_watch_list in the main     *)
(* thread, and the watch_list_server behind the core thread's queue.       *)
(*                                                                         *)
(* The server keeps a tree of formatted values for each watch, and, in a   *)
(* queue of limited length, the trees of watches that are gone, so that a  *)
(* variable that comes back is expanded as it was left. The list shows the *)
(* server's trees: it sends expansions, collapses and the edits of the     *)
(* user's own expressions by node id, and gets trees back, each when the   *)
(* process stops, a frame is selected or the process ends. The handlers of *)
(* the answers hold plain pointers to the list's nodes.                    *)
(*                                                                         *)
(* Locals and registers are the list with custom = FALSE: its watches are  *)
(* the variables of the selected frame. Positions, format times and the    *)
(* marks of changed values are left out, and the [Raw Data] child has no   *)
(* children. Assertions are compiled out; what they would have caught is   *)
(* recorded in fault, where a behaviour ends.                              *)
(***************************************************************************)
EXTENDS Integers, Sequences, FiniteSets, TLC, Functions, SequencesExt

CONSTANTS
  MaxCount,    \* watch_list_server::max_count_, 20 there
  MaxOps,      \* bound: what the user does
  MaxPending,  \* bound: commands and answers on their way when the user acts
  Scenarios    \* the sets of mishaps a behaviour may have

MishapKinds == {"overlap",     \* the user acts while trees are on their way, or ends while acts are
                "reopen",      \* a node is expanded while its collapse is on its way
                "unanswered",  \* a watch is edited while an answer about it is on its way
                "again",       \* an expression is added that has been removed before
                "edit",        \* an expression is edited
                "raw"}         \* a value's last child is [Raw Data]

ASSUME BoundsAssumption == {MaxCount, MaxOps, MaxPending} \subseteq Nat
ASSUME ScenariosAssumption == Scenarios \subseteq SUBSET MishapKinds

VARIABLES
  state,     \* the target's state in the main thread
  custom,    \* a custom_watch_list; never changes
  roots,     \* watch_list::root_nodes_
  pendings,  \* exp_coll_nodes_: operations by node id
  removed,   \* removed_nodes_, by slot
  renamed,   \* renamed_nodes_, by slot
  server,    \* watch_list_server
  real,      \* the selected frame: its variables, and what values look like
  commands,  \* the core thread's queue
  answers,   \* the main thread's queue
  fault,     \* what went wrong
  ops,       \* what MaxOps counts
  mishaps    \* what may go wrong in this behaviour; never changes

listVars == <<roots, pendings, removed, renamed>>
vars == <<state, custom, listVars, server, real, commands, answers, fault, ops, mishaps>>

Slots == 1..8   \* root nodes by the memory they are in
Exprs == {"e", "f"}
UndefId == 0

-----------------------------------------------------------------------------
(* Values and trees                                                        *)

\* named_fmt_result: sub has the number of children of each child. A process
\* that does not stop has leaves only; Empty is the null result.
Leaf(name) == [name |-> name, txt |-> 0, sub |-> <<>>, raw |-> FALSE]
Empty == Leaf("")
ChildVal(val, i) ==
  [name |-> IF val.raw /\ i = Len(val.sub) THEN "[Raw Data]" ELSE "field", txt |-> val.txt,
   sub |-> [j \in 1..val.sub[i] |-> 0], raw |-> FALSE]
Named(name, val) == [val EXCEPT !.name = name]

Values == {[name |-> "", txt |-> t, sub |-> s, raw |-> r] :
             t \in {1, 2}, s \in {<<>>, <<1>>, <<0, 1>>, <<0, 0, 0>>}, r \in BOOLEAN}
Running == [ids |-> {}, val |-> Empty]
Frames == {f \in [ids : {{}, {1}, {1, 2}, {2}}, val : Values] :
             /\ IF custom THEN f.ids = {} ELSE f.ids # {}
             /\ f.val.sub = <<>> => f.val.txt = 1
             /\ IF "raw" \in mishaps THEN f.val.sub \in {<<0, 0, 0>>, <<1>>} /\ f.val.raw = (Len(f.val.sub) = 3)
                ELSE f.val.sub # <<0, 0, 0>> /\ ~f.val.raw}

\* A node of the server, which is what an answer carries, and of the list.
ServerNode(id, val) == [id |-> id, val |-> val, kids |-> <<>>]
Node(id, name) == [id |-> id, name |-> name, txt |-> 0, exp |-> FALSE, kids |-> <<>>]
Blank == Node(UndefId, "")

RECURSIVE Ids(_)
Ids(node) == {node.id} \cup UNION {Ids(node.kids[i]) : i \in DOMAIN node.kids}

-----------------------------------------------------------------------------
(* The server                                                              *)

NewServer == [watches |-> <<>>, queue |-> <<>>, rootIds |-> <<>>, known |-> {}, last |-> 0,
              exprs |-> <<>>, next |-> 1]
Keepers(sv) == Range(sv.watches) \cup Range(sv.queue)
Live(sv) == UNION {Ids(k.node) : k \in Keepers(sv)}

\* update_node_fmt_results: children come and go at the end, or before the
\* [Raw Data] child. Of the children that go only their own ids are forgotten.
RECURSIVE Format(_, _, _)
Format(sv, node, val) ==
  LET n == Len(val.sub)
      m == Len(node.kids)
      at == IF val.raw /\ m > 0 THEN m - 1 ELSE m
      from == IF val.raw THEN n - 1 ELSE n
      fresh == [i \in 1..(IF n > m THEN n - m ELSE 0) |-> ServerNode(sv.last + i, Empty)]
      kids == IF m < n THEN SubSeq(node.kids, 1, at) \o fresh \o SubSeq(node.kids, at + 1, m)
              ELSE SubSeq(node.kids, 1, from) \o SubSeq(node.kids, from + 1 + m - n, m)
      gone == {node.kids[i].id : i \in (from + 1)..(from + m - n)}
      new == [sv EXCEPT !.last = @ + Len(fresh),
                        !.known = (@ \ gone) \cup {fresh[i].id : i \in DOMAIN fresh}]
      step(acc, i) == LET r == Format(acc[1], kids[i], ChildVal(val, i))
                      IN  <<r[1], Append(acc[2], r[2])>>
      all == FoldLeft(step, <<new, <<>>>>, [i \in 1..n |-> i])
  IN  IF m = 0 THEN <<sv, [node EXCEPT !.val = val]>>
      ELSE <<all[1], [node EXCEPT !.val = val, !.kids = all[2]]>>

RECURSIVE Emptied(_)
Emptied(node) == [node EXCEPT !.val = Empty, !.kids = [i \in DOMAIN @ |-> Emptied(@[i])]]

\* remove_old_roots: the keepers of the watches that are gone go to the queue,
\* which forgets the oldest ones.
RemoveOldRoots_KeepValues(sv, vals) ==
  LET gone == SetToSortSeq(DOMAIN sv.watches \ DOMAIN vals, <)
      queue == sv.queue \o [i \in DOMAIN gone |-> sv.watches[gone[i]]]
  IN  [sv EXCEPT !.watches = Restrict(@, DOMAIN @ \cap DOMAIN vals),
                 !.queue = IF Len(queue) <= MaxCount THEN queue
                           ELSE SubSeq(queue, Len(queue) - MaxCount + 1, Len(queue))]

RemoveOldRoots(sv, vals) ==
  LET gone == SetToSortSeq(DOMAIN sv.watches \ DOMAIN vals, <)
      queue == sv.queue \o [i \in DOMAIN gone |->
                 [sv.watches[gone[i]] EXCEPT !.node = Emptied(@)]]
  IN  [sv EXCEPT !.watches = Restrict(@, DOMAIN @ \cap DOMAIN vals),
                 !.queue = IF Len(queue) <= MaxCount THEN queue
                           ELSE SubSeq(queue, Len(queue) - MaxCount + 1, Len(queue))]

\* do_add_watch: a keeper of this watch, or else of its name and type, is taken
\* from the queue. root_nodes_.insert does not replace the watch of its root.
DoAddWatch_NotFormatted(sv, wid, val) ==
  LET byId == SelectInSeq(sv.queue, LAMBDA k : k.wid = wid)
      at == IF byId # 0 THEN byId ELSE SelectInSeq(sv.queue, LAMBDA k : k.key = val.name)
      id == sv.last + 1
      made == [sv EXCEPT !.last = id, !.known = @ \cup {id}]
      got == IF at = 0 THEN <<made, ServerNode(id, val)>>
             ELSE <<sv, sv.queue[at].node>>
      keeper == [wid |-> wid, key |-> IF at = 0 THEN val.name ELSE sv.queue[at].key, node |-> got[2]]
  IN  [got[1] EXCEPT !.watches = (wid :> keeper) @@ @,
                     !.queue = IF at = 0 THEN @ ELSE RemoveAt(@, at),
                     !.rootIds = @ @@ (got[2].id :> wid)]

DoAddWatch(sv, wid, val) ==
  LET byId == SelectInSeq(sv.queue, LAMBDA k : k.wid = wid)
      at == IF byId # 0 THEN byId ELSE SelectInSeq(sv.queue, LAMBDA k : k.key = val.name)
      id == sv.last + 1
      made == [sv EXCEPT !.last = id, !.known = @ \cup {id}]
      got == IF at = 0 THEN <<made, ServerNode(id, val)>>
             ELSE Format(sv, sv.queue[at].node, val)
      keeper == [wid |-> wid, key |-> IF at = 0 THEN val.name ELSE sv.queue[at].key, node |-> got[2]]
  IN  [got[1] EXCEPT !.watches = (wid :> keeper) @@ @,
                     !.queue = IF at = 0 THEN @ ELSE RemoveAt(@, at),
                     !.rootIds = @ @@ (got[2].id :> wid)]

\* get_variables: the variables of the frame, or the user's expressions.
Variables(sv, frame) ==
  IF ~custom THEN [w \in frame.ids |-> Named("x", frame.val)]
  ELSE [w \in {e.wid : e \in Range(sv.exprs)} |->
          Named((CHOOSE e \in Range(sv.exprs) : e.wid = w).expr, frame.val)]

\* make_values_tree.
Made(sv, frame) ==
  LET vals == Variables(sv, frame)
      step(s, w) ==
        IF w \notin DOMAIN s.watches THEN DoAddWatch(s, w, vals[w])
        ELSE LET r == Format(s, s.watches[w].node, vals[w])
             IN  [r[1] EXCEPT !.watches[w].node = r[2]]
  IN  FoldLeft(step, RemoveOldRoots(sv, vals), SetToSortSeq(DOMAIN vals, <))
Tree(sv) == LET ws == SetToSortSeq(DOMAIN sv.watches, <)
            IN  [i \in DOMAIN ws |-> sv.watches[ws[i]].node]

\* The children of the node with an id replaced, wherever it is.
RECURSIVE Parent(_, _, _)
Parent(node, id, kids) ==
  IF node.id = id THEN [node EXCEPT !.kids = kids]
  ELSE [node EXCEPT !.kids = [i \in DOMAIN @ |-> Parent(@[i], id, kids)]]
SetKids(sv, id, kids) ==
  [sv EXCEPT !.watches = [w \in DOMAIN @ |-> [@[w] EXCEPT !.node = Parent(@, id, kids)]],
             !.queue = [i \in DOMAIN @ |-> [@[i] EXCEPT !.node = Parent(@, id, kids)]]]
RECURSIVE Below(_)
Below(node) == {node} \cup UNION {Below(node.kids[i]) : i \in DOMAIN node.kids}
Find(sv, id) == CHOOSE n \in UNION {Below(k.node) : k \in Keepers(sv)} : n.id = id

\* Looking a node up: nodes_ keeps the pointers of children that a collapse has
\* destroyed.
LookupFault(id, expands) ==
  CASE id \notin server.known -> "missingNode"
    [] id \notin Live(server) -> "danglingNode"
    [] expands /\ Find(server, id).val = Empty -> "emptyResult"
    [] OTHER -> "none"

\* expand_node_async and collapse_node_async.
Expanded(sv, id) ==
  LET node == Find(sv, id)
      kids == [i \in DOMAIN node.val.sub |-> ServerNode(sv.last + i, ChildVal(node.val, i))]
  IN  IF node.kids # <<>> THEN sv
      ELSE [SetKids(sv, id, kids) EXCEPT !.last = @ + Len(kids), !.known = @ \cup {kids[i].id : i \in DOMAIN kids}]
Collapsed(sv, id) == SetKids(sv, id, <<>>)

\* root_node_watch_id and the search in core_custom_watch_list_impl::watches_.
HasExpr(id) == id \in DOMAIN server.rootIds /\ \E e \in Range(server.exprs) : e.wid = server.rootIds[id]
ExprAt(id) == SelectInSeq(server.exprs, LAMBDA e : e.wid = server.rootIds[id])

-----------------------------------------------------------------------------
(* The list. Nodes are named by the slot of their root and their path.     *)

At(slot) == SelectInSeq(roots, LAMBDA r : r.slot = slot)
RECURSIVE NodeAt(_, _)
NodeAt(node, path) == IF path = <<>> THEN node ELSE NodeAt(node.kids[Head(path)], Tail(path))
RECURSIVE HasPath(_, _)
HasPath(node, path) ==
  path = <<>> \/ (Head(path) \in DOMAIN node.kids /\ HasPath(node.kids[Head(path)], Tail(path)))
RECURSIVE PathsOf(_)
PathsOf(node) == {<<>>} \cup UNION {{<<i>> \o p : p \in PathsOf(node.kids[i])} : i \in DOMAIN node.kids}
RECURSIVE WithNode(_, _, _)
WithNode(node, path, new) ==
  IF path = <<>> THEN new @@ node
  ELSE [node EXCEPT !.kids[Head(path)] = WithNode(@, Tail(path), new)]

Has(rs, msg) == \E r \in Range(rs) : r.slot = msg.slot /\ HasPath(r, msg.path)

\* The handlers whose node is destroyed when the roots become rs. A node in
\* removed_nodes_ lives on.
Pointing(queue, rs, kept) ==
  [i \in DOMAIN queue |->
     IF "slot" \notin DOMAIN queue[i] THEN queue[i]
     ELSE [queue[i] EXCEPT !.alive = @ /\ (Has(rs, queue[i]) \/ queue[i].slot \in kept)]]

FreeSlot ==
  LET used == {r.slot : r \in Range(roots)} \cup removed \cup
              {m.slot : m \in {n \in Range(commands) \cup Range(answers) : "slot" \in DOMAIN n}}
  IN  CHOOSE s \in Slots \ used : \A t \in Slots \ used : s <= t

\* reset_childs: at the end, or before a [Raw Data] child; in that case
\* reset_childs_preserve_raw_data takes one child away however many go.
Reset(kids, n) ==
  LET m == Len(kids)
      raw == m > 0 /\ n > 0 /\ kids[m].name = "[Raw Data]"
      fresh == [i \in 1..(IF n > m THEN n - m ELSE 0) |-> Blank]
  IN  CASE ~raw /\ n < m -> SubSeq(kids, 1, n)
        [] ~raw /\ n >= m -> kids \o fresh
        [] raw /\ n <= m -> IF n = m THEN kids ELSE Append(SubSeq(kids, 1, m - 2), kids[m])
        [] OTHER -> Append(SubSeq(kids, 1, m - 1) \o fresh, kids[m])

\* update_node_values.
Shown(node, info) == [node EXCEPT !.name = info.val.name, !.txt = info.val.txt]

\* update_node.
RECURSIVE Updated(_, _)
Updated(node, info) ==
  LET n == Len(info.val.sub)
      kids == IF Len(node.kids) = n THEN node.kids ELSE Reset(node.kids, n)
  IN  [Shown(node, info) EXCEPT
         !.id = info.id,
         !.exp = info.kids # <<>> \/ (@ /\ n = 0),
         !.kids = [i \in DOMAIN kids |->
                     IF i \in DOMAIN info.kids THEN Updated(kids[i], info.kids[i]) ELSE kids[i]]]

\* process_new_node.
Built(info, slot) == [slot |-> slot] @@ Updated(Blank, info)

\* on_watch_tree_updated: roots that are not in the tree go first, also those
\* whose addition is not answered yet.
AfterTree(tree) ==
  LET stay == SelectSeq(roots, LAMBDA r : \E i \in DOMAIN tree : tree[i].id = r.id)
      info(id) == tree[SelectInSeq(tree, LAMBDA t : t.id = id)]
      new == SelectSeq(tree, LAMBDA t : \A r \in Range(stay) : r.id # t.id)
      used == {r.slot : r \in Range(roots)} \cup removed \cup
              {m.slot : m \in {n \in Range(commands) \cup Range(answers) : "slot" \in DOMAIN n}}
      free == SelectSeq([s \in Slots |-> s], LAMBDA s : s \notin used)
  IN  [i \in DOMAIN stay |-> Updated(stay[i], info(stay[i].id))] \o
        [i \in DOMAIN new |-> Built(new[i], free[i])]

\* remove_root_node erases the operations of the root only.
OpsAfter(ps, gone) == Restrict(ps, DOMAIN ps \ gone)
GoneIds(rs) == {r.id : r \in {q \in Range(roots) : \A s \in Range(rs) : s.slot # q.slot}}

\* remove_childs and clear_node.
IdsBelow(node) == UNION {Ids(node.kids[i]) : i \in DOMAIN node.kids}
Cleared(node) == [node EXCEPT !.txt = 0, !.kids = <<>>]

ShowTree(tree) ==
  LET rs == AfterTree(tree)
  IN  roots' = rs /\ pendings' = OpsAfter(pendings, GoneIds(rs)) /\ UNCHANGED <<removed, renamed>>

Counted(id) == (id :> (IF id \in DOMAIN pendings THEN pendings[id] ELSE 0) + 1) @@ pendings
Discounted(id) == IF pendings[id] > 1 THEN [pendings EXCEPT ![id] = @ - 1] ELSE OpsAfter(pendings, {id})

-----------------------------------------------------------------------------
(* The user, in the main thread                                            *)

Quiet == commands = <<>> /\ answers = <<>>
InFlight == Range(commands) \cup Range(answers)
About(slot) == {m \in InFlight : "slot" \in DOMAIN m /\ m.slot = slot}
Comes(op) == \E m \in InFlight : m.op = op

\* The widgets are enabled; MaxOps and MaxPending are bounds.
MayAct ==
  /\ fault = "none" /\ state \in {"initial", "loaded", "stopped"}
  /\ ops < MaxOps /\ Cardinality(DOMAIN commands) + Cardinality(DOMAIN answers) < MaxPending
  /\ Comes("tree") => "overlap" \in mishaps

HasImpl == state # "initial"

Send(rs, kept, msgs) == commands' = Pointing(commands, rs, kept) \o msgs
KeepAnswers(rs, kept) == answers' = Pointing(answers, rs, kept)

\* watch_list::expand_node and collapse_node. A custom_watch_list's roots may be
\* expanded while the program does not stop, but then they have no children.
SetExpanded(slot, path, exp) ==
  LET root == roots[At(slot)]
      node == NodeAt(root, path)
      rs == [roots EXCEPT ![At(slot)] = WithNode(@, path, "exp" :> exp)]
  IN  /\ MayAct /\ state = "stopped"
      /\ node.id # UndefId /\ node.kids # <<>> /\ node.exp = ~exp
      /\ \A k \in 0..(Len(path) - 1) : NodeAt(root, SubSeq(path, 1, k)).exp
      /\ (\E m \in About(slot) : m.op = "collapse" /\ IsPrefix(m.path, path)) => "reopen" \in mishaps
      /\ Comes("set") => "unanswered" \in mishaps
      /\ roots' = rs /\ pendings' = Counted(node.id) /\ ops' = ops + 1
      /\ Send(roots, removed, <<[op |-> IF exp THEN "expand" ELSE "collapse", id |-> node.id, slot |-> slot,
                                 path |-> path, alive |-> TRUE]>>)
      /\ UNCHANGED <<state, custom, removed, renamed, server, real, answers, fault, mishaps>>

AddCmd(slot, expr) == [op |-> "add", expr |-> expr, slot |-> slot, path |-> <<>>, alive |-> TRUE]
SetCmd(slot, id, expr) ==
  [op |-> "set", id |-> id, expr |-> expr, slot |-> slot, path |-> <<>>, alive |-> TRUE]

\* A keeper of this name that no expression uses is, or will be, in the queue.
Forgotten(expr) ==
  \/ Comes("remove")
  \/ \E k \in Keepers(server) : k.key = expr /\ \A e \in Range(server.exprs) : e.wid # k.wid

\* custom_watch_list::add_watch.
AddWatch(expr) ==
  LET slot == FreeSlot
  IN  /\ MayAct /\ custom /\ Len(roots) < 2
      /\ Forgotten(expr) => "again" \in mishaps
      /\ roots' = Append(roots, [slot |-> slot] @@ Node(UndefId, expr)) /\ ops' = ops + 1
      /\ Send(roots, removed, IF HasImpl THEN <<AddCmd(slot, expr)>> ELSE <<>>)
      /\ UNCHANGED <<state, custom, pendings, removed, renamed, server, real, answers, fault, mishaps>>

\* custom_watch_list::set_watch and clear_node.
SetWatch(slot, expr) ==
  LET root == roots[At(slot)]
      rs == [roots EXCEPT ![At(slot)] = Cleared([@ EXCEPT !.name = expr])]
  IN  /\ MayAct /\ custom /\ "edit" \in mishaps /\ root.name # expr
      /\ (\E m \in About(slot) : m.op # "add") => "unanswered" \in mishaps
      /\ roots' = rs /\ pendings' = OpsAfter(pendings, IdsBelow(root)) /\ ops' = ops + 1
      /\ IF root.id # UndefId
         THEN Send(rs, removed, <<SetCmd(slot, root.id, expr)>>) /\ UNCHANGED renamed
         ELSE Send(rs, removed, <<>>) /\ renamed' = renamed \cup {slot}
      /\ KeepAnswers(rs, removed)
      /\ UNCHANGED <<state, custom, removed, server, real, fault, mishaps>>

\* custom_watch_list::remove_watch.
RemoveWatch(slot) ==
  LET root == roots[At(slot)]
      rs == RemoveAt(roots, At(slot))
      kept == IF root.id = UndefId THEN removed \cup {slot} ELSE removed
  IN  /\ MayAct /\ custom
      /\ (\E m \in About(slot) : m.op # "add") => "unanswered" \in mishaps
      /\ roots' = rs /\ pendings' = OpsAfter(pendings, {root.id}) /\ ops' = ops + 1
      /\ removed' = kept /\ renamed' = renamed \ {slot}
      /\ Send(rs, kept, IF root.id # UndefId THEN <<[op |-> "remove", id |-> root.id]>> ELSE <<>>)
      /\ KeepAnswers(rs, kept)
      /\ UNCHANGED <<state, custom, server, real, fault, mishaps>>

\* target::set_current_stack_frame or set_current_thread; with the same frame
\* watch_list::set_fmt_opts.
Refresh(frame) ==
  /\ MayAct /\ state = "stopped" /\ (~Quiet => "overlap" \in mishaps)
  /\ ops' = ops + 1 /\ Send(roots, removed, <<[op |-> "tree", frame |-> frame]>>)
  /\ UNCHANGED <<state, custom, listVars, server, real, answers, fault, mishaps>>

-----------------------------------------------------------------------------
(* The target's life                                                       *)

\* do_set_impl for a new target: locals have no roots then; of the user's
\* expressions each is added again.
Load ==
  /\ fault = "none" /\ state = "initial" /\ Quiet /\ state' = "loaded" /\ server' = NewServer
  /\ Send(roots, removed, [i \in DOMAIN roots |-> AddCmd(roots[i].slot, roots[i].name)])
  /\ UNCHANGED <<custom, listVars, real, answers, fault, ops, mishaps>>

\* The tree that set_state shows when the program begins or ends: nothing for
\* locals, and the values of the moment for the user's expressions, which the
\* main thread evaluates itself.
ShowInMainThread ==
  LET sv == Made(server, real)
      tree == IF custom THEN Tree(sv) ELSE <<>>
      rs == AfterTree(tree)
  IN  /\ server' = (IF custom THEN sv ELSE server)
      /\ ShowTree(tree) /\ commands' = Pointing(commands, rs, removed)

Settled == Quiet \/ "overlap" \in mishaps

Launch ==
  /\ fault = "none" /\ state = "loaded" /\ Settled /\ ops < MaxOps /\ ops' = ops + 1
  /\ state' = "running" /\ ShowInMainThread /\ KeepAnswers(roots', removed)
  /\ UNCHANGED <<custom, real, fault, mishaps>>

Continue ==
  /\ MayAct /\ state = "stopped" /\ Settled /\ state' = "running" /\ ops' = ops + 1
  /\ Send(roots, removed, <<[op |-> "resume"]>>)
  /\ UNCHANGED <<custom, listVars, server, real, answers, fault, mishaps>>

\* target::close; set_impl(nullptr) follows with its answer.
Close ==
  /\ fault = "none" /\ state = "loaded" /\ Settled /\ ops < MaxOps /\ ops' = ops + 1
  /\ state' = "unloading" /\ commands' = Append(commands, [op |-> "close"])
  /\ UNCHANGED <<custom, listVars, server, real, answers, fault, mishaps>>

-----------------------------------------------------------------------------
(* The core thread                                                         *)

Answer(a) == answers' = Append(answers, a)
About1(cmd, op, info) ==
  [op |-> op, info |-> info, slot |-> cmd.slot, path |-> cmd.path, alive |-> cmd.alive]

Execute(cmd) ==
  CASE cmd.op = "tree" ->
         LET sv == Made(server, cmd.frame)
         IN  server' = sv /\ Answer([op |-> "tree", tree |-> Tree(sv)]) /\ UNCHANGED fault
    [] cmd.op \in {"expand", "collapse"} ->
         LET f == LookupFault(cmd.id, cmd.op = "expand")
             sv == IF cmd.op = "expand" THEN Expanded(server, cmd.id) ELSE Collapsed(server, cmd.id)
         IN  IF f # "none" THEN fault' = f /\ UNCHANGED <<answers, server>>
             ELSE server' = sv /\ Answer(About1(cmd, cmd.op, Find(sv, cmd.id))) /\ UNCHANGED fault
    [] cmd.op = "add" ->
         LET wid == server.next
             sv == DoAddWatch([server EXCEPT !.next = @ + 1, !.exprs = Append(@, [wid |-> wid, expr |-> cmd.expr])],
                              wid, Named(cmd.expr, real.val))
         IN  server' = sv /\ Answer(About1(cmd, "add", sv.watches[wid].node)) /\ UNCHANGED fault
    [] cmd.op = "remove" ->
         IF HasExpr(cmd.id)
         THEN server' = [server EXCEPT !.exprs = RemoveAt(@, ExprAt(cmd.id))] /\ UNCHANGED <<answers, fault>>
         ELSE fault' = "noWatch" /\ UNCHANGED <<answers, server>>
    [] cmd.op = "set" ->
         \* make_watch_info does not use the new value.
         IF HasExpr(cmd.id) /\ server.rootIds[cmd.id] \in DOMAIN server.watches
         THEN /\ server' = [server EXCEPT !.exprs[ExprAt(cmd.id)].expr = cmd.expr]
              /\ Answer(About1(cmd, "set", server.watches[server.rootIds[cmd.id]].node)) /\ UNCHANGED fault
         ELSE fault' = "noWatch" /\ UNCHANGED <<answers, server>>
    [] cmd.op = "resume" -> UNCHANGED <<answers, fault, server>>
    [] cmd.op = "close" -> server' = NewServer /\ Answer([op |-> "closed"]) /\ UNCHANGED fault

CoreStep ==
  /\ fault = "none" /\ commands # <<>> /\ commands' = Tail(commands)
  /\ Execute(Head(commands))
  /\ real' = IF Head(commands).op = "tree" THEN Head(commands).frame ELSE real
  /\ UNCHANGED <<state, custom, listVars, ops, mishaps>>

Runs == fault = "none" /\ state = "running" /\ Quiet

\* process_stopped reads the list's tree with the threads and frames.
Stop(frame) ==
  LET sv == Made(server, frame)
  IN  /\ Runs /\ ops < MaxOps /\ real' = frame /\ server' = sv
      /\ Answer([op |-> "stopped", tree |-> Tree(sv)])
      /\ UNCHANGED <<state, custom, listVars, commands, fault, ops, mishaps>>

Exit ==
  /\ Runs /\ real' = Running /\ Answer([op |-> "exited"])
  /\ UNCHANGED <<state, custom, listVars, server, commands, fault, ops, mishaps>>

-----------------------------------------------------------------------------
(* Answers, in the main thread                                             *)

Fail(f) == fault' = f /\ UNCHANGED <<state, listVars, commands>>

\* The node a handler changes, if it is still one of the list.
Changed(a, node) ==
  roots' = [roots EXCEPT ![At(a.slot)] = WithNode(@, a.path, node)]
Target(a) == NodeAt(roots[At(a.slot)], a.path)

\* on_node_expand_complete.
OnExpanded(a) ==
  LET node == Shown(Target(a), a.info)
      child(i) == LET n == Len(a.info.kids[i].val.sub)
                  IN  [Shown(node.kids[i], a.info.kids[i]) EXCEPT
                         !.id = a.info.kids[i].id, !.kids = IF n # 0 THEN Reset(@, n) ELSE @]
  IN  IF Len(a.info.kids) > Len(node.kids) THEN Fail("noChild")
      ELSE /\ Changed(a, [node EXCEPT !.kids = [i \in DOMAIN @ |->
                                IF i \in DOMAIN a.info.kids THEN child(i) ELSE @[i]]])
           /\ pendings' = Discounted(a.info.id) /\ UNCHANGED <<state, removed, renamed, commands, fault>>

\* on_node_collapse_compete.
OnCollapsed(a) ==
  LET node == Shown(Target(a), a.info)
      rs == [roots EXCEPT ![At(a.slot)] =
               WithNode(@, a.path, [node EXCEPT !.kids = [i \in DOMAIN @ |-> Blank]])]
  IN  /\ roots' = rs /\ pendings' = Discounted(a.info.id)
      /\ commands' = Pointing(commands, rs, removed) /\ UNCHANGED <<state, removed, renamed, fault>>

OnOperated(a) ==
  CASE a.info.id \notin DOMAIN pendings -> UNCHANGED <<state, listVars, commands, fault>>
    [] a.info.id \in DOMAIN pendings /\ ~a.alive -> Fail("deadNode")
    [] OTHER -> IF a.op = "expand" THEN OnExpanded(a) ELSE OnCollapsed(a)

\* custom_watch_list::on_watch_added.
OnAdded(a) ==
  LET root == roots[At(a.slot)]
      known == [root EXCEPT !.id = a.info.id]
  IN  CASE a.slot \in removed ->
             /\ removed' = removed \ {a.slot}
             /\ commands' = Append(commands, [op |-> "remove", id |-> a.info.id])
             /\ UNCHANGED <<state, roots, pendings, renamed, fault>>
        [] a.slot \notin removed /\ ~a.alive -> Fail("deadNode")
        [] a.slot \in renamed /\ a.alive ->
             /\ roots' = [roots EXCEPT ![At(a.slot)] = known] /\ renamed' = renamed \ {a.slot}
             /\ commands' = Append(commands, SetCmd(a.slot, a.info.id, root.name))
             /\ UNCHANGED <<state, pendings, removed, fault>>
        [] OTHER -> /\ Changed(a, Updated(known, a.info))
                    /\ UNCHANGED <<state, pendings, removed, renamed, commands, fault>>

OnSet(a) ==
  IF ~a.alive THEN Fail("deadNode")
  ELSE /\ Changed(a, Updated(Target(a), a.info))
       /\ UNCHANGED <<state, pendings, removed, renamed, commands, fault>>

OnTree(a) ==
  /\ ShowTree(a.tree) /\ commands' = Pointing(commands, roots', removed)
  /\ state' = (IF a.op = "stopped" THEN "stopped" ELSE state) /\ UNCHANGED fault

\* set_impl(nullptr): locals lose their roots, the user's are cleared.
OnClosed ==
  LET rs == IF custom THEN [i \in DOMAIN roots |-> Cleared([roots[i] EXCEPT !.id = UndefId])] ELSE <<>>
      gone == IF custom THEN UNION {IdsBelow(r) : r \in Range(roots)} ELSE {r.id : r \in Range(roots)}
  IN  /\ roots' = rs /\ commands' = Pointing(commands, rs, removed) /\ state' = "initial"
      /\ pendings' = OpsAfter(pendings, gone)
      /\ UNCHANGED <<removed, renamed, fault>>

MainStep ==
  /\ fault = "none" /\ answers # <<>>
  /\ LET a == Head(answers)
     IN  /\ CASE a.op \in {"expand", "collapse"} -> OnOperated(a) /\ UNCHANGED server
              [] a.op = "add" -> OnAdded(a) /\ UNCHANGED server
              [] a.op = "set" -> OnSet(a) /\ UNCHANGED server
              [] a.op \in {"tree", "stopped"} -> OnTree(a) /\ UNCHANGED server
              [] a.op = "exited" -> state' = "loaded" /\ ShowInMainThread /\ UNCHANGED fault
              [] a.op = "closed" -> OnClosed /\ UNCHANGED server
         /\ answers' = Pointing(Tail(answers), roots', removed')
  /\ UNCHANGED <<custom, real, ops, mishaps>>

Init ==
  /\ state = "initial" /\ custom \in BOOLEAN /\ roots = <<>> /\ pendings = <<>>
  /\ removed = {} /\ renamed = {} /\ server = NewServer /\ real = Running
  /\ commands = <<>> /\ answers = <<>> /\ fault = "none" /\ ops = 0 /\ mishaps \in Scenarios

Next ==
  \/ \E i \in DOMAIN roots : \E path \in PathsOf(roots[i]) : \E exp \in BOOLEAN :
       SetExpanded(roots[i].slot, path, exp)
  \/ \E expr \in Exprs : AddWatch(expr)
  \/ \E i \in DOMAIN roots : RemoveWatch(roots[i].slot) \/ \E expr \in Exprs : SetWatch(roots[i].slot, expr)
  \/ \E frame \in Frames : Refresh(frame) \/ Stop(frame)
  \/ Load \/ Launch \/ Continue \/ Close \/ Exit
  \/ CoreStep \/ MainStep

Spec == Init /\ [][Next]_vars

-----------------------------------------------------------------------------
(* Properties                                                              *)

RECURSIVE SameTree(_, _)
SameTree(node, sn) ==
  /\ node.id = sn.id /\ node.name = sn.val.name /\ node.txt = sn.val.txt
  /\ Len(node.kids) = Len(sn.val.sub) /\ (sn.val.sub # <<>> => node.exp = (sn.kids # <<>>))
  /\ \A i \in DOMAIN sn.kids : SameTree(node.kids[i], sn.kids[i])

\* Everything that goes wrong has one of the causes named: a user who waits for
\* the answers, or overlaps operations the list is made for, never meets a node
\* or a watch that is gone.
OnlyKnownFaults ==
  /\ fault = "deadNode" => {"overlap", "unanswered"} \cap mishaps # {}
  /\ fault \in {"missingNode", "emptyResult"} => "overlap" \in mishaps
  /\ fault = "danglingNode" => {"reopen", "overlap"} \cap mishaps # {}
  /\ fault = "noWatch" => {"again", "unanswered", "overlap"} \cap mishaps # {}
  /\ fault = "noChild" => {"unanswered", "raw"} \cap mishaps # {}

\* The server: no node is in two trees, each watch has one keeper, the queue is
\* bounded, a node that is shown can be found, and a watch on its way out holds
\* no values of a process that has gone on.
ServerSound ==
  LET trees == {k.node : k \in Keepers(server)}
  IN  /\ Len(server.queue) <= MaxCount
      /\ \A s, t \in trees : s # t => Ids(s) \cap Ids(t) = {}
      /\ \A i, j \in DOMAIN server.queue : i # j => server.queue[i].wid # server.queue[j].wid
      /\ UNION {Ids(server.watches[w].node) : w \in DOMAIN server.watches} \subseteq server.known
      /\ \A i \in DOMAIN server.queue : Emptied(server.queue[i].node) = server.queue[i].node

WatchesSound == OnlyKnownFaults /\ ServerSound

\* When everything is answered the stopped program's list is the server's: the
\* same nodes with the same values, expanded alike, and one root for each
\* watch; with no operation counted that nobody waits for.
ShowsServers ==
  (state = "stopped" /\ Quiet /\ fault = "none" /\ mishaps \cap {"raw", "edit", "overlap"} = {}) =>
    /\ \A w \in DOMAIN Variables(server, real) :
         /\ server.watches[w].node.val = Variables(server, real)[w]
         /\ \E i \in DOMAIN roots : SameTree(roots[i], server.watches[w].node)
    /\ Len(roots) = Cardinality(DOMAIN Variables(server, real))
    /\ pendings = <<>> \/ "unanswered" \in mishaps
=============================================================================
