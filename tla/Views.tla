-------------------------------- MODULE Views --------------------------------
(***************************************************************************)
(* The tree views of the window program, one of them in a behaviour: the   *)
(* watches (watch_model under sortable_proxy_tree_view_model), the sources *)
(* of the target (source_tree under composite_source_tree_model) and the   *)
(* breakpoints (BreakpointsView), each shown by a CxxdbgTreeView through   *)
(* an AppItemModel.                                                        *)
(*                                                                         *)
(* A view never looks at a model as a whole: it is told before and after   *)
(* rows are added, removed or reordered, and keeps its rows, the selected  *)
(* and the expanded ones by those announcements. The models announce       *)
(* positions of their own rows, which the proxy has to translate to sorted *)
(* ones, and the composite, which shows a chain of directories with        *)
(* nothing else in them as one row, to rows that go and come back as the   *)
(* chains split.                                                           *)
(*                                                                         *)
(* The rows below a watch are passed on by the proxy as they are, and left *)
(* out. A name in a path is a number. std::sort may leave rows with equal  *)
(* texts in any order.                                                     *)
(***************************************************************************)
EXTENDS Integers, Sequences, FiniteSets, FiniteSetsExt, TLC, Functions, SequencesExt

CONSTANTS
  MaxRows,    \* bound: watches listed at a time
  MaxText,    \* bound: the texts of a cell
  MaxCode, MaxWatch, MaxBps, MaxLocation,  \* bounds of the breakpoints
  Scenarios   \* the sets of mishaps a behaviour may have

MishapKinds == {"sortedDelete", \* rows are deleted while they are sorted
                "unsort",       \* sorting is switched off, which does not do it
                "slip"}         \* the button is released at the edge of a header

ASSUME BoundsAssumption == {MaxRows, MaxText} \subseteq Nat
ASSUME ScenariosAssumption == Scenarios \subseteq SUBSET MishapKinds

VARIABLES
  list,     \* the watches, the proxy over them and the view over that
  header,   \* the sorting of that view, and the mouse on its header
  tree,     \* the source tree, the composite over it and the view over that
  panel,    \* that of the breakpoints
  shown,    \* "watches", "sources" or "breakpoints"; never changes
  mishaps   \* those of this behaviour; never changes

vars == <<list, header, tree, panel, shown, mishaps>>

P == INSTANCE BreakpointsView

InsertRow(s, i, x) == SubSeq(s, 1, i - 1) \o <<x>> \o SubSeq(s, i, Len(s))
IndexOf(s, x) == CHOOSE i \in 1 .. Len(s) : s[i] = x

-----------------------------------------------------------------------------
(* The watches: what the view does with an announcement                    *)

\* Numbers move with the rows that come and go before them (persistent indexes).
EndInsertRows(w, i, x) ==
  [w EXCEPT !.view = InsertRow(@, i, x),
            !.selection = {[s EXCEPT !.row = IF @ >= i THEN @ + 1 ELSE @] : s \in @}]

EndRemoveRows(w, i) ==
  [w EXCEPT !.view = RemoveAt(@, i),
            !.selection = {[s EXCEPT !.row = IF @ > i THEN @ - 1 ELSE @] :
                             s \in {t \in @ : t.row # i}}]

\* Each row is looked up where it was before.
AfterLayoutChanged_KeepNumbers(w, old) == [w EXCEPT !.view = w.nodes]

AfterLayoutChanged(w, old) ==
  [w EXCEPT !.view = w.nodes,
            !.selection = {[s EXCEPT !.row = IF old[@] = s.item THEN IndexOf(w.nodes, s.item)
                                             ELSE @] : s \in @}]

(* The proxy                                                               *)
Before(w, x, y) ==
  IF w.order = "ascending" THEN w.text[x][w.col] < w.text[y][w.col]
                           ELSE w.text[x][w.col] > w.text[y][w.col]

Sorted(w) == \A i, j \in 1 .. Len(w.nodes) : i < j => ~Before(w, w.nodes[j], w.nodes[i])

Arrangements(s) == {[i \in 1 .. Len(s) |-> s[p[i]]] : p \in Permutations(1 .. Len(s))}

\* Without an order the rows are fetched anew, and sorted as they were before.
Sortings(w, order, col) ==
  LET by == IF order = "no" THEN [w EXCEPT !.nodes = w.rows]
            ELSE [w EXCEPT !.order = order, !.col = col] IN
  {AfterLayoutChanged([by EXCEPT !.nodes = s, !.edited = FALSE], w.nodes) :
     s \in {a \in Arrangements(by.nodes) : Sorted([by EXCEPT !.nodes = a])}}

\* Before the first row that belongs after it.
CalcInsertIndex(w, x) ==
  Min({i \in 1 .. Len(w.nodes) : Before(w, x, w.nodes[i])} \cup {Len(w.nodes) + 1})

ProxyAdded(w, i, x) ==
  LET at == IF w.order = "no" THEN i ELSE CalcInsertIndex(w, x) IN
  EndInsertRows([w EXCEPT !.nodes = InsertRow(@, at, x)], at, x)

ProxyRemoved(w, i, x) ==
  LET at == IF w.order = "no" THEN i ELSE IndexOf(w.nodes, x) IN
  EndRemoveRows([w EXCEPT !.nodes = RemoveAt(@, at)], at)

NoText == <<0, 0>>

(* The model of the watches                                                *)
RootAdded(w, x, texts) ==
  ProxyAdded([w EXCEPT !.rows = Append(@, x), !.text[x] = texts], Len(w.rows) + 1, x)

RootRemoved(w, x) ==
  LET i == IndexOf(w.rows, x) IN ProxyRemoved([w EXCEPT !.rows = RemoveAt(@, i), !.text[x] = NoText], i, x)

-----------------------------------------------------------------------------
(* The watches: actions                                                    *)
\* A watch's name, that of its place among all watches there may be, and its value.
Texts(x) == {<<(x * 2) % 3, value>> : value \in 0 .. MaxText}
OnWatches == shown = "watches" /\ UNCHANGED <<tree, panel, shown, mishaps>>

AddWatch ==
  /\ OnWatches /\ UNCHANGED header
  /\ \E x \in 1 .. MaxRows : \E texts \in Texts(x) :
       /\ x = Min((1 .. MaxRows + 1) \ Range(list.rows))
       /\ list' = RootAdded(list, x, texts)

\* The list of watches drops one, as when the process ends.
DropWatch ==
  /\ OnWatches /\ UNCHANGED header
  /\ \E x \in Range(list.rows) : list' = RootRemoved(list, x)

ChangeWatch ==
  /\ OnWatches /\ UNCHANGED header
  /\ \E x \in Range(list.rows) : \E texts \in Texts(x) :
       list' = [list EXCEPT !.text[x] = texts, !.edited = TRUE]

Select ==
  /\ OnWatches /\ UNCHANGED header
  /\ \E first, last \in 1 .. Len(list.view) :
       list' = [list EXCEPT !.selection =
                  {[row |-> r, item |-> list.view[r]] : r \in first .. last}]

\* The last selected row first; the model is not the one the rows are numbered in.
RemoveRows(w, numbers) ==
  FoldLeft(LAMBDA v, i : RootRemoved(v, v.rows[i]), w, SetToSortSeq(numbers, >))

DeleteSelected ==
  LET chosen == list.selection
      after == RemoveRows(list, {s.row : s \in chosen}) IN
  /\ OnWatches /\ UNCHANGED header
  /\ chosen # {}
  /\ "sortedDelete" \in mishaps \/ list.nodes = list.rows
  /\ list' = [after EXCEPT !.lost =
                {x \in Range(list.rows) \ Range(after.rows) : \A s \in chosen : s.item # x}]

\* The only selected row is edited to nothing.
ClearText ==
  /\ OnWatches /\ UNCHANGED header
  /\ \E s \in list.selection : list.selection = {s} /\ list' = RootRemoved(list, s.item)

(* The header. Qt keeps the section pressed and the indicator.              *)
Press ==
  /\ OnWatches /\ ~header.down
  /\ \E idx \in 1 .. 2 :
     \/ /\ ~header.sorting
        /\ header' = [header EXCEPT !.down = TRUE, !.skip = TRUE, !.sorting = TRUE,
                                    !.section = idx, !.order = "ascending"]
        /\ list' \in Sortings(list, "ascending", idx)
     \/ /\ header.sorting /\ header.section = idx /\ header.order = "descending"
        /\ "unsort" \in mishaps
        /\ header' = [header EXCEPT !.down = TRUE, !.skip = TRUE, !.sorting = FALSE]
        /\ list' \in Sortings(list, "no", 1)
     \/ /\ header.sorting /\ ~(header.section = idx /\ header.order = "descending")
        /\ header' = [header EXCEPT !.down = TRUE, !.pressed = idx]
        /\ UNCHANGED list

\* QHeaderView::mouseReleaseEvent, with the sorting that follows the indicator.
Flip(idx) ==
  LET order == IF header.section = idx /\ header.order = "ascending"
               THEN "descending" ELSE "ascending" IN
  IF header.pressed = idx
  THEN /\ header' = [header EXCEPT !.down = FALSE, !.pressed = 0,
                                   !.section = idx, !.order = order]
       /\ list' \in Sortings(list, order, idx)
  ELSE header' = [header EXCEPT !.down = FALSE, !.pressed = 0] /\ UNCHANGED list

Release ==
  /\ OnWatches /\ header.down
  /\ \E idx \in 1 .. 2 :
     \/ "slip" \in mishaps /\ Flip(idx)
     \/ header.skip /\ header' = [header EXCEPT !.down = FALSE, !.skip = FALSE] /\ UNCHANGED list
     \/ ~header.skip /\ Flip(idx)

-----------------------------------------------------------------------------
(* The source tree: each directory's items, by their paths                 *)
\* bound: the source files there are
Paths == {<<1, 1, 5>>, <<1, 2, 3, 5>>, <<1, 2, 4, 3, 5>>, <<1, 2, 4, 6>>, <<2, 5>>}
Root == <<>>
None == <<0>>   \* 0 is no name
Trail(p) == {SubSeq(p, 1, n) : n \in 1 .. Len(p)}
Under(p, set) == {q \in set : p = Root \/ p \in Trail(q)}
Items(p, names) == [i \in 1 .. Cardinality(names) |-> Append(p, SetToSortSeq(names, <)[i])]

\* The builder's directory p: the names of its subdirectories and of its files.
Subdirs(p, files) == {f[Len(p) + 1] : f \in {g \in Under(p, files) : Len(g) > Len(p) + 1}}
FilesOf(p, files) == {f[Len(p) + 1] : f \in {g \in Under(p, files) : Len(g) = Len(p) + 1}}

\* A new item for a directory of the builder, with all that is in it.
DirectoryItem(p, files) ==
  LET dirs == Under(p, UNION {Trail(f) \ {f} : f \in Under(p, files)}) IN
  [d \in dirs |-> Items(d, Subdirs(d, files)) \o Items(d, FilesOf(d, files))]

(* The composite: a chain is shown as one row, its last directory          *)
IsDirectory(t, p) == p \in DOMAIN t.kids
IsChain(t, p, q) == \A n \in Len(p) .. Len(q) - 1 : Len(t.kids[SubSeq(q, 1, n)]) = 1

FirstOf(t, p) ==
  IF ~IsDirectory(t, p) THEN p
  ELSE CHOOSE q \in Trail(p) : /\ IsChain(t, q, p)
                               /\ (Len(q) = 1 \/ ~IsChain(t, Front(q), p))

LastOf(t, p) ==
  IF ~IsDirectory(t, p) THEN p
  ELSE LET chain == {q \in Under(p, DOMAIN t.kids) : IsChain(t, p, q)} IN
       CHOOSE q \in chain : \A r \in chain : Len(r) <= Len(q)

\* What the composite answers: hidden is a row that is said to be removed.
ModelRows(t) ==
  LET there == {d \in DOMAIN t.kids \ {Root} : LastOf(t, d) = d /\ t.hidden \notin Trail(d)} IN
  [d \in there \cup {Root} |->
     LET kids == SelectSeq(t.kids[d], LAMBDA k : k # t.hidden) IN
     [i \in 1 .. Len(kids) |-> LastOf(t, kids[i])]]

(* The view. It agrees with the model after each announcement.             *)
SeeRemoved(t, p, i) ==
  LET gone == Under(t.view[p][i], DOMAIN t.view)
      view == [d \in DOMAIN t.view \ gone |-> IF d = p THEN RemoveAt(t.view[p], i) ELSE t.view[d]] IN
  [t EXCEPT !.view = view, !.open = @ \ gone, !.agree = @ /\ view = ModelRows(t)]

SeeAdded(t, p, i) ==
  LET rows == ModelRows(t)
      come == Under(rows[p][i], DOMAIN rows)
      view == [d \in DOMAIN t.view \cup come |->
                 IF d \in come THEN rows[d]
                 ELSE IF d = p THEN InsertRow(t.view[p], i, rows[p][i]) ELSE t.view[d]] IN
  [t EXCEPT !.view = view, !.agree = @ /\ view = rows]

SetExpandState(t, p, expanded) ==
  LET chain == Trail(p) \ (Trail(FirstOf(t, p)) \ {FirstOf(t, p)}) IN
  [t EXCEPT !.expanded = IF expanded THEN @ \cup chain ELSE @ \ chain,
            !.open = IF expanded THEN @ \cup {p} ELSE @ \ {p}]

\* A chain that is to change is said to be gone, with all below it.
BeforeAdded_SaveFirst(t, p, i) ==
  IF p # Root /\ (p # LastOf(t, p) \/ (t.kids[p] = <<>> /\ i = 1))
  THEN LET first == FirstOf(t, p) IN
       SeeRemoved([t EXCEPT !.hidden = first, !.saved = {LastOf(t, p)} \cap t.expanded],
                  Front(first), IndexOf(t.kids[Front(first)], first))
  ELSE t

BeforeAdded(t, p, i) ==
  IF p # Root /\ (p # LastOf(t, p) \/ (t.kids[p] = <<>> /\ i = 1))
  THEN LET first == FirstOf(t, p) IN
       SeeRemoved([t EXCEPT !.hidden = first, !.saved = Under(first, t.expanded)],
                  Front(first), IndexOf(t.kids[Front(first)], first))
  ELSE t

\* It comes back as it is now; what was expanded in it is expanded again.
ExpandSaved(t) ==
  LET rows == {n \in t.saved : LastOf(t, n) = n} IN
  FoldSet(LAMBDA n, v : SetExpandState(v, n, TRUE), [t EXCEPT !.saved = {}], rows)

AfterAdded(t, p, i) ==
  IF p # Root /\ t.hidden # None
  THEN ExpandSaved(SeeAdded([t EXCEPT !.hidden = None], Front(t.hidden),
                            IndexOf(t.kids[Front(t.hidden)], t.hidden)))
  ELSE SeeAdded(t, p, i)

InsertNode(t, p, i, name, files) ==
  LET b == BeforeAdded(t, p, i)
      item == Append(p, name) IN
  AfterAdded([b EXCEPT !.kids = DirectoryItem(item, files) @@ [@ EXCEPT ![p] = InsertRow(@, i, item)]],
             p, i)

\* merge_childs: both lists are in order, so that one walk finds every place.
RECURSIVE MergeChilds(_, _, _)
MergeChilds(t, p, files) ==
  LET Skip(v, i, While(_)) ==
        Min({k \in i .. Len(v.kids[p]) + 1 :
               k > Len(v.kids[p]) \/ ~While(v.kids[p][k])})
      Same(v, i, name) == i <= Len(v.kids[p]) /\ Last(v.kids[p][i]) = name
      Directory(acc, name) ==
        LET i == Skip(acc.t, acc.at, LAMBDA k : IsDirectory(acc.t, k) /\ Last(k) < name) IN
        [at |-> i + 1,
         t |-> IF ~Same(acc.t, i, name) THEN InsertNode(acc.t, p, i, name, files)
               ELSE MergeChilds(acc.t, acc.t.kids[p][i], files)]
      File(acc, name) ==
        LET i == Skip(acc.t, acc.at, LAMBDA k : Last(k) < name) IN
        [at |-> i + 1,
         t |-> IF Same(acc.t, i, name) THEN acc.t ELSE InsertNode(acc.t, p, i, name, {})]
      dirs == FoldLeft(Directory, [t |-> t, at |-> 1], SetToSortSeq(Subdirs(p, files), <))
      start == Skip(dirs.t, dirs.at, LAMBDA k : IsDirectory(dirs.t, k)) IN
  FoldLeft(File, [dirs EXCEPT !.at = start], SetToSortSeq(FilesOf(p, files), <)).t

-----------------------------------------------------------------------------
(* The sources: actions                                                    *)
OnSources == shown = "sources" /\ UNCHANGED <<list, header, panel, shown, mishaps>>

\* A module that is loaded names its sources; those of others stay in the tree, and
\* the list of all sources is made anew.
ModuleLoaded ==
  /\ OnSources
  /\ \E files \in SUBSET Paths \ {{}} :
       LET known == tree.files \cup files IN
       tree' = [MergeChilds(tree, Root, files) EXCEPT !.files = known, !.listed = known]

Visible(t, p) == p \in DOMAIN t.view \ {Root} /\ Trail(p) \cap DOMAIN t.view \subseteq t.open \cup {p}

ExpandRow ==
  /\ OnSources
  /\ \E p \in DOMAIN tree.view : Visible(tree, p) /\ p \notin tree.open
                                 /\ tree' = SetExpandState(tree, p, TRUE)

CollapseRow ==
  /\ OnSources
  /\ \E p \in tree.open : Visible(tree, p) /\ tree' = SetExpandState(tree, p, FALSE)

-----------------------------------------------------------------------------
InitList ==
  [rows |-> <<>>, text |-> [x \in 1 .. MaxRows |-> NoText], nodes |-> <<>>, order |-> "no",
   col |-> 1, view |-> <<>>, selection |-> {}, edited |-> FALSE, lost |-> {}]

InitHeader ==
  [sorting |-> FALSE, section |-> 1, order |-> "descending", skip |-> FALSE,
   pressed |-> 0, down |-> FALSE]

InitTree ==
  [kids |-> [d \in {Root} |-> <<>>], hidden |-> None, saved |-> {}, expanded |-> {},
   view |-> [d \in {Root} |-> <<>>], open |-> {}, agree |-> TRUE, files |-> {}, listed |-> {}]

Init ==
  /\ shown \in {"watches", "sources", "breakpoints"}
  /\ mishaps \in IF shown = "watches" THEN Scenarios ELSE {{}}
  /\ list = InitList /\ header = InitHeader /\ tree = InitTree /\ P!InitPanel

Next ==
  \/ AddWatch \/ DropWatch \/ ChangeWatch \/ Select \/ DeleteSelected \/ ClearText
  \/ Press \/ Release
  \/ ModuleLoaded \/ ExpandRow \/ CollapseRow
  \/ shown = "breakpoints" /\ P!PanelNext /\ UNCHANGED <<list, header, tree, shown, mishaps>>

Spec == Init /\ [][Next]_vars

-----------------------------------------------------------------------------
\* The view and the proxy have the model's rows; a selected row is the one that
\* was selected; the rows are in the order the header shows (those of equal
\* text, and of a text that has changed, aside), and a click on it is counted
\* once; what the user deletes is what was selected. sort(), on_before_removed(),
\* insert_root_node() and onAfterLayoutChanged() share the work.
WatchRowsSound ==
  /\ list.view = list.nodes
  /\ Len(list.nodes) = Len(list.rows) /\ Range(list.nodes) = Range(list.rows)
  /\ \A s \in list.selection : list.view[s.row] = s.item
  /\ IF list.order = "no" THEN list.nodes = list.rows ELSE list.edited \/ Sorted(list)
  /\ header.sorting => list.order = header.order /\ list.col = header.section
  /\ "unsort" \in mishaps \/ header.sorting \/ list.order = "no"
  /\ "slip" \in mishaps \/ (header.skip => header.down)
  /\ "sortedDelete" \in mishaps \/ list.lost = {}

\* After every announcement the view has the rows the composite answers with;
\* every source ever loaded has one row, below directories that are shown with
\* the chains they are in, all in order; and what the user has expanded is still
\* expanded, although the rows of a chain that splits go and come back.
SourceRowsSound ==
  /\ tree.agree /\ tree.hidden = None /\ tree.listed = tree.files
  /\ \A f \in tree.files :
       Cardinality({p \in DOMAIN tree.view : f \in Range(tree.view[p])}) = 1
  /\ \A p \in DOMAIN tree.view : LET rows == tree.view[p] IN
       /\ p # Root => Len(rows) # 1 \/ ~IsDirectory(tree, rows[1])
       /\ \A i, j \in 1 .. Len(rows) : i < j =>
            \/ IsDirectory(tree, rows[i]) /\ ~IsDirectory(tree, rows[j])
            \/ /\ IsDirectory(tree, rows[i]) = IsDirectory(tree, rows[j])
               /\ Last(FirstOf(tree, rows[i])) < Last(FirstOf(tree, rows[j]))
  /\ tree.open = tree.expanded \cap DOMAIN tree.view

\* The panel of the breakpoints agrees with the list (see PanelSound).
BreakpointRowsSound == P!PanelSound

\* WatchListDockWidget::onDeleteClicked removes the rows that are selected.
OnlySelectedDeleted == list.lost = {}
=============================================================================
