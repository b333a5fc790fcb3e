--------------------------- MODULE BreakpointsView ---------------------------
(***************************************************************************)
(* The window's panel of breakpoints: breakpoints_view_model, the rows its *)
(* tree view shows, the rows selected there and the panel's actions.       *)
(*                                                                         *)
(* A breakpoint has a row. Those of its locations are below it when there  *)
(* are two or more; a single one is shown in the breakpoint's own row. The *)
(* rows point to the objects of the list: a location that is gone must     *)
(* leave the rows, and the selection, before anything asks it.             *)
(*                                                                         *)
(* LLDB's side is Breakpoints; here a target answers anything it may. What *)
(* a breakpoint's row shows is read when it is painted, and left out, but  *)
(* for what the actions depend on.                                         *)
(***************************************************************************)
EXTENDS Naturals, Sequences, FiniteSets, FiniteSetsExt, Functions, SequencesExt, TLC

CONSTANTS
  MaxCode, MaxWatch,  \* bound: the numbers of breakpoints and watchpoints
  MaxBps,             \* bound: those in the list at a time
  MaxLocation         \* bound: the locations LLDB numbers in a breakpoint

VARIABLE panel

\* The order of breakpoint_list's map: by type, then by number.
Bps == 1 .. MaxCode + MaxWatch
IsWatch(bp) == bp > MaxCode

\* 1 is a position in a source that is here.
Positions == 0 .. 1
Location == [id : 1 .. MaxLocation, pos : Positions] \ [id : 2 .. MaxLocation, pos : {0}]

-----------------------------------------------------------------------------
(* The model                                                               *)
NodeOf(v, bp) == CHOOSE i \in 1 .. Len(v.nodes) : v.nodes[i].bp = bp
ChildsSize(node) == IF Len(node.kids) = 1 THEN 0 ELSE Len(node.kids)

\* What the view holds after an announcement: the breakpoint and the number of rows below.
SeeRows(v) ==
  [v EXCEPT !.sound = @ /\ v.rows = [i \in 1 .. Len(v.nodes) |->
                                       [bp |-> v.nodes[i].bp, below |-> ChildsSize(v.nodes[i])]]]

(* The panel                                                               *)
SelectedBreakpoints(v) == {r.bp : r \in {s \in v.selection : s.at = 0}}

\* The location of a selected row, by its number in the list.
Site(v, r) == v.nodes[NodeOf(v, r.bp)].kids[r.at]
Located(v, r) == {l \in Range(v.bps[r.bp].locs) : l.id = Site(v, r)}

SelectedItemPosition(v) ==
  IF Cardinality(v.selection) # 1 THEN 0
  ELSE LET r == CHOOSE s \in v.selection : TRUE
           bp == v.bps[r.bp] IN
       CASE r.at > 0 /\ Located(v, r) # {} -> (CHOOSE l \in Located(v, r) : TRUE).pos
         [] r.at = 0 /\ IsWatch(r.bp) -> bp.at
         [] r.at = 0 /\ Len(bp.locs) = 1 -> bp.locs[1].pos
         [] OTHER -> 0

Actions(v) ==
  LET chosen == SelectedBreakpoints(v) IN
  [delete |-> chosen # {},
   enable |-> \E bp \in chosen : ~v.bps[bp].on,
   disable |-> \E bp \in chosen : v.bps[bp].on,
   single |-> Cardinality(chosen) = 1,
   goto |-> SelectedItemPosition(v) = 1]

\* Every selected row is asked for its breakpoint.
OnSelectionChanged(v) ==
  LET alive == \A r \in v.selection : r.at = 0 \/ Located(v, r) # {} IN
  [v EXCEPT !.actions = Actions(v), !.sound = @ /\ alive]

\* Qt deselects rows that are about to be removed, and says so.
Deselect(v, rows) ==
  IF v.selection \cap rows = {} THEN v
  ELSE OnSelectionChanged([v EXCEPT !.selection = @ \ rows])

Below(bp) == {[bp |-> bp, at |-> i] : i \in 1 .. MaxLocation}
RowsOf(bp) == {[bp |-> bp, at |-> 0]} \cup Below(bp)

(* What the model does with the announcements of the list                  *)
OnBreakpointAdded(v, bp) ==
  SeeRows([v EXCEPT !.nodes = Append(@, [bp |-> bp, kids |-> <<>>]),
                    !.rows = Append(@, [bp |-> bp, below |-> 0])])

OnBreakpointUpdated(v, bp) ==
  LET i == NodeOf(v, bp)
      SetBelow(w, n) == IF n > 1 THEN SeeRows([w EXCEPT !.rows[i].below = n]) ELSE w
      old == Len(v.nodes[i].kids)
      ids == [n \in 1 .. Len(v.bps[bp].locs) |-> v.bps[bp].locs[n].id]
      empty == [IF old > 1 THEN Deselect(v, Below(bp)) ELSE v EXCEPT !.nodes[i].kids = <<>>]
      bare == IF old > 1 THEN SeeRows([empty EXCEPT !.rows[i].below = 0]) ELSE empty IN
  SetBelow([bare EXCEPT !.nodes[i].kids = ids], Len(ids))

OnBreakpointRemoved(v, bp) ==
  LET w == Deselect(v, RowsOf(bp))
      i == NodeOf(w, bp) IN
  SeeRows([w EXCEPT !.nodes = RemoveAt(@, i), !.rows = RemoveAt(@, i)])

-----------------------------------------------------------------------------
(* The list                                                                *)
InOrder(set) == SetToSortSeq(set, <)
Restrained(f, set) == [x \in set |-> f[x]]

AddBreakpoint(v, bp) ==
  LET new == [on |-> TRUE, locs |-> <<>>, installed |-> IsWatch(bp), at |-> 0] IN
  OnSelectionChanged(OnBreakpointAdded([v EXCEPT !.bps = (bp :> new) @@ @], bp))

\* The object lives until the announcements are over.
RemoveBreakpoint(v, bp) ==
  LET w == OnBreakpointRemoved(v, bp) IN
  OnSelectionChanged([w EXCEPT !.bps = Restrained(@, DOMAIN @ \ {bp})])

\* set_enabled, set_condition and set_hit_count, each with its announcements.
Change(v, bp, on) == OnSelectionChanged(OnBreakpointUpdated([v EXCEPT !.bps[bp].on = on], bp))

SetEach(v, bps, on) == FoldLeft(LAMBDA w, bp : Change(w, bp, on), v, InOrder(bps))
RemoveEach(v, bps) == FoldLeft(RemoveBreakpoint, v, InOrder(bps))

\* code_breakpoint::update: the known locations that are reported stay where they are.
UpdatedLocations(locs, reported) ==
  LET At(id) == CHOOSE l \in reported : l.id = id
      kept == SelectSeq(locs, LAMBDA l : \E r \in reported : r.id = l.id)
      new == {r \in reported : \A l \in Range(locs) : l.id # r.id} IN
  [i \in 1 .. Len(kept) |-> At(kept[i].id)] \o SetToSortSeq(new, LAMBDA k, l : k.id < l.id)

\* The first location is without a source only when it is alone.
Reports == {r \in SUBSET Location : /\ \A k, l \in r : k.id = l.id => k = l
                                    /\ Cardinality(r) > 1 => \A l \in r : l.pos = 1}

\* Each is updated and announced before the next one.
UpdateBreakpoints(v, hit, moved) ==
  LET One(w, bp) ==
        LET to == IF IsWatch(bp) THEN w.bps[bp] ELSE
                  [w.bps[bp] EXCEPT !.locs = UpdatedLocations(@, moved[bp])] IN
        IF bp \in hit \/ to # w.bps[bp] THEN OnBreakpointUpdated([w EXCEPT !.bps[bp] = to], bp)
        ELSE w
      known == {bp \in DOMAIN v.bps : v.bps[bp].installed} IN
  FoldLeft(One, v, InOrder(known))

\* reset_breakpoints: every count starts again, and every breakpoint is announced.
ResetBreakpoints(v) ==
  OnSelectionChanged(FoldLeft(OnBreakpointUpdated, v, InOrder(DOMAIN v.bps)))

DisconnectImpl_ClearFirst(v) ==
  LET Forget(bp) == [v.bps[bp] EXCEPT !.locs = <<>>, !.installed = IsWatch(bp)]
      bare == [v EXCEPT !.loaded = FALSE, !.bps = [bp \in DOMAIN v.bps |-> Forget(bp)]] IN
  OnSelectionChanged(FoldLeft(OnBreakpointUpdated, bare,
                              InOrder({bp \in DOMAIN v.bps : ~IsWatch(bp)})))

DisconnectImpl(v) ==
  LET Forget(w, bp) ==
        OnBreakpointUpdated([w EXCEPT !.bps[bp].locs = <<>>, !.bps[bp].installed = FALSE], bp) IN
  OnSelectionChanged(FoldLeft(Forget, [v EXCEPT !.loaded = FALSE],
                              InOrder({bp \in DOMAIN v.bps : ~IsWatch(bp)})))

-----------------------------------------------------------------------------
(* What the user does. A dialog for a breakpoint is modal.                  *)
NoDialog == panel.dialog = 0

\* A number that is free again stands for the next one: nothing remembers it.
Add ==
  /\ NoDialog /\ Cardinality(DOMAIN panel.bps) < MaxBps
  /\ \E bp \in Bps \ DOMAIN panel.bps :
       /\ IsWatch(bp) => panel.loaded
       /\ panel' = AddBreakpoint(panel, bp)

\* A range of the rows that can be seen, whatever is expanded.
SelectRows ==
  /\ NoDialog
  /\ \E expanded \in SUBSET {r.bp : r \in {n \in Range(panel.rows) : n.below > 0}} :
       LET visible == FlattenSeq([i \in 1 .. Len(panel.rows) |->
             LET r == panel.rows[i]
                 n == IF r.bp \in expanded THEN r.below ELSE 0 IN
             [k \in 1 .. n + 1 |-> [bp |-> r.bp, at |-> k - 1]]]) IN
       \E first \in 1 .. Len(visible) : \E last \in 0 .. Len(visible) :
         panel' = OnSelectionChanged([panel EXCEPT !.selection =
                                        {visible[k] : k \in first .. last}])

DeleteSelected ==
  NoDialog /\ panel.actions.delete /\ panel' = RemoveEach(panel, SelectedBreakpoints(panel))

EnableSelected ==
  NoDialog /\ panel.actions.enable /\ panel' = SetEach(panel, SelectedBreakpoints(panel), TRUE)

DisableSelected ==
  NoDialog /\ panel.actions.disable /\ panel' = SetEach(panel, SelectedBreakpoints(panel), FALSE)

DeleteAll == NoDialog /\ panel.bps # <<>> /\ panel' = RemoveEach(panel, DOMAIN panel.bps)
SetAll == NoDialog /\ \E on \in BOOLEAN : panel' = SetEach(panel, DOMAIN panel.bps, on)

\* The condition or the hit count, of the only breakpoint selected.
OpenDialog ==
  /\ NoDialog /\ panel.actions.single
  /\ \E bp \in SelectedBreakpoints(panel) : panel' = [panel EXCEPT !.dialog = bp]

\* A condition that is empty is refused; a hit count never is.
CloseDialog ==
  /\ ~NoDialog
  /\ LET closed == [panel EXCEPT !.dialog = 0] IN
     \/ panel' = closed
     \/ panel' = Change(closed, panel.dialog, panel.bps[panel.dialog].on)

(* What the target does                                                    *)
Load == NoDialog /\ ~panel.loaded /\ panel' = [panel EXCEPT !.loaded = TRUE]
Close == panel.loaded /\ panel' = DisconnectImpl(panel)
Start == panel.loaded /\ panel' = ResetBreakpoints(panel)

Installed ==
  /\ panel.loaded
  /\ \E bp \in DOMAIN panel.bps : \E report \in Reports :
       /\ ~panel.bps[bp].installed
       /\ panel' = OnSelectionChanged(OnBreakpointUpdated(
                     [panel EXCEPT !.bps[bp] =
                        [@ EXCEPT !.installed = TRUE, !.locs = UpdatedLocations(<<>>, report)]], bp))

\* A stop, with no new hit counts or with new ones of all. One at a watchpoint moves
\* it to the current frame.
Stopped ==
  /\ panel.loaded
  /\ \E hit \in {{}, DOMAIN panel.bps} :
     \E moved \in [{bp \in DOMAIN panel.bps : panel.bps[bp].installed /\ ~IsWatch(bp)} -> Reports] :
     LET stop == {bp \in hit : IsWatch(bp)}
         v == UpdateBreakpoints(panel, hit, moved) IN
     \E at \in IF stop = {} THEN {0} ELSE Positions :
       LET w == [v EXCEPT !.bps = [bp \in DOMAIN @ |->
                   IF bp \in stop THEN [@[bp] EXCEPT !.at = at] ELSE @[bp]]] IN
       panel' = IF w = panel THEN w ELSE OnSelectionChanged(w)

-----------------------------------------------------------------------------
InitPanel ==
  panel = [bps |-> <<>>, nodes |-> <<>>, rows |-> <<>>, selection |-> {},
           actions |-> [delete |-> FALSE, enable |-> FALSE, disable |-> FALSE,
                        single |-> FALSE, goto |-> FALSE],
           loaded |-> FALSE, dialog |-> 0, sound |-> TRUE]

PanelNext ==
  \/ Add \/ SelectRows \/ DeleteSelected \/ EnableSelected \/ DisableSelected
  \/ DeleteAll \/ SetAll \/ OpenDialog \/ CloseDialog
  \/ Load \/ Close \/ Start \/ Installed \/ Stopped

PanelSpec == InitPanel /\ [][PanelNext]_panel

-----------------------------------------------------------------------------
\* After every announcement the view has the model's rows, and no location that
\* is gone is ever asked for; the rows below a breakpoint are its locations; the
\* actions that are offered are those the selected rows allow now, so that none
\* is triggered without what it asserts; a dialog's breakpoint is there. The
\* list announces each change after it has been made (on_breakpoint_updated,
\* onSelectionChanged, disconnect_impl, update_breakpoints).
PanelSound ==
  /\ panel.sound
  /\ Len(panel.nodes) = Cardinality(DOMAIN panel.bps)
  /\ \A n \in Range(panel.nodes) :
       /\ n.bp \in DOMAIN panel.bps
       /\ n.kids = [i \in 1 .. Len(panel.bps[n.bp].locs) |-> panel.bps[n.bp].locs[i].id]
  /\ \A r \in panel.selection : \E n \in Range(panel.rows) : n.bp = r.bp /\ r.at <= n.below
  /\ panel.actions = Actions(panel)
  /\ panel.dialog = 0 \/ panel.dialog \in DOMAIN panel.bps
=============================================================================
