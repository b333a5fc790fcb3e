------------------------------- MODULE Editor -------------------------------
(***************************************************************************)
(* The sources in the main window: document_list with the tabs that follow *)
(* it (document_list_widget), the text of a document with its search, and  *)
(* what debug_source_code_widget_delegate and DebugUI draw and offer for   *)
(* the debugger's state: highlighted lines, marks beside the lines, hints, *)
(* context menus, the item that steps into the symbol under the cursor.    *)
(*                                                                         *)
(* The programs open sources for reading only, so nothing is ever changed, *)
(* saved or asked about. The selection of a document, which its view and   *)
(* its text model share, is a pair of offsets. Handlers call each other    *)
(* through signals: each is an operator from the window before its call to *)
(* the window after it. Assertions are compiled out; the use of a document,*)
(* a breakpoint, a thread, a target or a line that is not there, and an    *)
(* exception that leaves the event loop, are recorded in fault, where a    *)
(* behaviour ends.                                                         *)
(***************************************************************************)
EXTENDS Integers, Sequences, FiniteSets, TLC, SequencesExt, FiniteSetsExt

CONSTANTS
  MaxRecent,       \* max_size of recent_file_list
  MaxStops,        \* bound: times the process stops
  MaxBreakpoints,  \* bound: breakpoints in the list
  EditorScenarios  \* the sets of mishaps a behaviour may have

EditorMishaps ==
  {"missing",      \* the source of main is not on this machine
   "staleSource",  \* a source is shorter than the debug information says
   "lateOpen",     \* a document is opened by the user while the process is stopped
   "closeTab",     \* a tab was closed, and then the debugger's state changes
   "showThreads",  \* threads are shown in the source
   "staleSymbol",  \* the symbol's item is used when the process is not stopped
   "killed"}       \* the stopped process is killed by others while a menu is open

VARIABLES
  ui,       \* the documents and the widgets
  dbg,      \* debugger: its state, the threads' positions, the current ones
  bps,      \* the code breakpoints, oldest first
  menu,     \* the context menu that is open
  painted,  \* the marks that were painted last, for the document that is shown
  dirty,    \* the marks area is to be painted
  lost,     \* the fault
  focus,    \* bound: what a behaviour is about; never changes
  ills      \* what may go wrong in this behaviour; never changes

editorVars == <<ui, dbg, bps, menu, painted, dirty, lost, focus, ills>>

None == "none"

\* Bound: two documents, with an empty line in the second; a third file is not
\* on this machine.
Text == [a |-> <<"f", "F", "f", "nl", "g", "f">>, b |-> <<"nl", "g">>]
Files == DOMAIN Text
Letter == [f |-> "f", F |-> "f", g |-> "g", nl |-> "nl"]
Word(w, e) == [chars |-> w, exact |-> e]
NoWord == Word(<<>>, TRUE)
Words == {NoWord, Word(<<"f">>, TRUE), Word(<<"f">>, FALSE), Word(<<"f", "f">>, FALSE),
          Word(<<"g", "f">>, TRUE)}

LineOf(f, at) == Cardinality({i \in 1..at : Text[f][i] = "nl"})
LinesCount(f) == LineOf(f, Len(Text[f])) + 1
LineStart(f, l) == Min({at \in 0..Len(Text[f]) : LineOf(f, at) = l})

\* symbol_under_cursor: the characters around the cursor, here the whole line.
Symbol(u) ==
  IF u.cur = None THEN None
  ELSE LET l == LineOf(u.cur, u.sel[u.cur][2])
       IN  IF \E i \in 1..Len(Text[u.cur]) : Text[u.cur][i] # "nl" /\ LineOf(u.cur, i) = l
           THEN <<u.cur, l>> ELSE None

-----------------------------------------------------------------------------
(* What the debugger's state says of a line                                *)

NoPos == <<None, 0>>
NoMenu == [items |-> {}, pos |-> NoPos, bp |-> 0, thread |-> 0]
Positions ==
  {NoPos, <<"b", 2>>}
    \cup (IF focus = "breakpoints" THEN {} ELSE {<<"a", 1>>, <<"missing", 1>>})
    \cup (IF "staleSource" \in ills THEN {<<"b", 3>>, <<"b", 4>>} ELSE {})
Exists(pos) == pos[1] \in Files

\* debugger::curr_thread_pos and curr_frame_pos, and current_frame of target.
ThreadPos(d) == IF d.state = "stopped" THEN d.threads[d.thread] ELSE NoPos
FramePos(d) == IF d.state = "stopped" THEN d.frame ELSE NoPos

\* breakpoints_at_line: by its locations, or while there is none by its position.
Place(b) == IF b.loc # 0 THEN <<b.file, b.loc>> ELSE <<b.file, b.line>>
AtLine(bs, pos) == SelectSeq(bs, LAMBDA b : Place(b) = pos)

\* line_threads, and threads_at_line, which takes the threads of the target in
\* every state but the one in which they have a position.
LineThreads(d, pos) ==
  IF d.state = "stopped" THEN {t \in DOMAIN d.threads : d.threads[t] = pos} ELSE {}
ThreadsAtLine(d, pos) ==
  IF d.state # "stopped" THEN {t \in DOMAIN d.threads : d.threads[t] = pos} ELSE {}
IsThreadAtLine(d, pos) == ThreadsAtLine(d, pos) = {}

\* calculate_line_icons.
Icons(u, d, bs, pos) ==
  LET at == AtLine(bs, pos)
  IN  (IF u.threads /\ IsThreadAtLine(d, pos) THEN {"thread"} ELSE {})
        \cup (IF at = <<>> THEN {}
              ELSE IF Len(at) = 1 /\ ~at[1].enabled THEN {"disabled"} ELSE {"breakpoint"})
        \cup (IF ThreadPos(d) = pos THEN {"yellow"}
              ELSE IF FramePos(d) = pos THEN {"blue"} ELSE {})

\* line_description.
Hint(u, d, bs, pos) ==
  CASE pos = ThreadPos(d) -> "next statement"
    [] pos # ThreadPos(d) /\ pos = FramePos(d) -> "statement after return"
    [] OTHER -> IF AtLine(bs, pos) # <<>> THEN "breakpoints"
                ELSE IF u.threads /\ ThreadsAtLine(d, pos) # {} THEN "threads" ELSE None

\* calculate_highlighted_lines, and where updateHighlights shows them: the
\* block of a line that is not in the document has position 0.
Shown(f, l) == IF l < LinesCount(f) THEN l ELSE 0
Lit(d, f) ==
  LET thread == ThreadPos(d)
      frame == FramePos(d)
  IN  IF d.state # "stopped" THEN {}
      ELSE {<<Shown(f, p[2] - 1), IF p = thread THEN "yellow" ELSE "green">> :
              p \in {q \in {thread, frame} : q[1] = f /\ thread # NoPos}}

-----------------------------------------------------------------------------
(* Searching in a document                                                 *)

Occurrences(f, w) ==
  {s \in 0..(Len(Text[f]) - Len(w.chars)) :
     \A i \in 1..Len(w.chars) :
       IF w.exact THEN Text[f][s + i] = w.chars[i]
       ELSE Letter[Text[f][s + i]] = Letter[w.chars[i]]}

\* highlight_search_string: a search goes on behind what it has found.
Matches(f, w) ==
  LET step(found, s) ==
        IF s \in Occurrences(f, w) /\ \A m \in found : m + Len(w.chars) <= s
        THEN found \cup {s} ELSE found
  IN  FoldLeft(step, {}, [i \in 1..(Len(Text[f]) + 1) |-> i - 1])

\* search_next and search_prev: to the end of the text, then once from its
\* other end to where a match across the cursor would lie. 0..Len is an offset.
NextMatch(f, w, at) ==
  LET ahead == {s \in Occurrences(f, w) : s >= at}
      round == {s \in Occurrences(f, w) : s + Len(w.chars) <= at + Len(w.chars)}
  IN  IF ahead # {} THEN {Min(ahead)} ELSE IF round # {} THEN {Min(round)} ELSE {}

PrevMatch(f, w, at) ==
  LET behind == {s \in Occurrences(f, w) : s + Len(w.chars) <= at}
      round == {s \in Occurrences(f, w) : s >= at - Len(w.chars)}
  IN  IF behind # {} THEN {Max(behind)} ELSE IF round # {} THEN {Max(round)} ELSE {}

-----------------------------------------------------------------------------
(* Signals and their handlers                                              *)

\* selection.changed of a document: the menu's item for the symbol.
SelectionChanged(u, d) ==
  [u EXCEPT !.symbolOn = d.state = "stopped" /\ Symbol(u) # None]
Select(u, d, f, anchor, at) ==
  IF u.sel[f] = <<anchor, at>> THEN u
  ELSE SelectionChanged([u EXCEPT !.sel[f] = <<anchor, at>>], d)

\* text_model_document::go_to_line.
GoToLine(u, d, f, l) ==
  IF LineOf(f, u.sel[f][2]) = l THEN u
  ELSE Select(u, d, f, LineStart(f, l), LineStart(f, l))

\* updateHighlights of the widget of f: the debugger's lines and the matches.
UpdateHighlights(u, d, f) == [u EXCEPT !.lit[f] = Lit(d, f)]
HighlightSearch(u, d, f) ==
  UpdateHighlights([u EXCEPT !.found[f] = Matches(f, u.word)], d, f)
RemoveHighlights(u, d) ==
  LET opened == Range(u.docs)
  IN  [u EXCEPT !.searching = FALSE,
                !.found = [f \in Files |-> IF f \in opened THEN {} ELSE @[f]],
                !.lit = [f \in Files |-> IF f \in opened THEN Lit(d, f) ELSE @[f]]]

\* canDoSearchChanged: the items to find again.
SearchChanged(u) == [u EXCEPT !.findOn = u.cur # None /\ u.word # NoWord]

\* set_current and onCurrentSourceChanged, which shows the tab; the tabs'
\* currentChanged finds the document current already. symbol_under_cursor_changed
\* is named here, but not emitted.
SetCurrent(u, d, f) ==
  IF u.cur = f THEN u
  ELSE LET v == [u EXCEPT !.cur = f, !.tab = f]
       IN  IF u.searching THEN HighlightSearch(v, d, f) ELSE v

\* open_file: the tab of a first document is shown as it is added, any other
\* with set_current. A new widget highlights nothing, its cursor is at 0.
OpenFile(u, d, f) ==
  IF f \in Range(u.docs) THEN SetCurrent(u, d, f)
  ELSE LET v == [u EXCEPT !.docs = Append(@, f), !.tabs = Append(@, f),
                          !.sel[f] = <<0, 0>>, !.lit[f] = {}, !.found[f] = {}]
           w == IF v.tabs = <<f>> THEN SetCurrent(v, d, f) ELSE v
       IN  SetCurrent(SearchChanged(w), d, f)

\* recent_file_list::add.
AddRecent(u, f) ==
  LET l == <<f>> \o SelectSeq(u.recent, LAMBDA x : x # f)
  IN  [u EXCEPT !.recent = SubSeq(l, 1, Min({Len(l), MaxRecent}))]

\* document_list::close, and onDocumentClosed: a tab that is shown gives way
\* to its right neighbour, or else to the last, whose document becomes current.
\* The widget is left, with its document gone.
Without(s, f) == SelectSeq(s, LAMBDA x : x # f)
CloseDocument_KeepsCurrent(u, d, f) ==
  LET tabs == Without(u.tabs, f)
      w == [u EXCEPT !.cur = IF Len(u.docs) = 1 THEN None ELSE @, !.docs = Without(@, f),
                     !.tabs = tabs, !.left = @ \cup {f},
                     !.tab = IF @ # f THEN @ ELSE IF tabs = <<>> THEN None ELSE tabs[1]]
  IN  SearchChanged(w)

CloseDocument(u, d, f) ==
  LET v == CASE u.cur # f -> u
             [] u.cur = f /\ Len(u.docs) = 1 -> [u EXCEPT !.cur = None]
             [] OTHER -> SetCurrent(u, d, u.docs[1])
      at == CHOOSE i \in DOMAIN u.tabs : u.tabs[i] = f
      tabs == Without(u.tabs, f)
      next == IF tabs = <<>> THEN None ELSE tabs[Min({at, Len(tabs)})]
      w == IF v.tab # f THEN [v EXCEPT !.tabs = tabs]
           ELSE IF next = None THEN [v EXCEPT !.tabs = tabs, !.tab = None]
           ELSE SetCurrent([v EXCEPT !.tabs = tabs], d, next)
  IN  [SearchChanged(w) EXCEPT !.docs = Without(@, f), !.left = @ \cup {f},
                               !.sel[f] = <<0, 0>>, !.lit[f] = {}, !.found[f] = {}]

\* document_list::show_pos; the line may be the one behind the last, which the
\* text model does not have.
ShowPos_KeepsTab(u, d, f, l) ==
  LET line == IF LinesCount(f) < l THEN LinesCount(f) - 1 ELSE l
      v == IF f \in Range(u.docs) THEN u ELSE OpenFile(u, d, f)
  IN  IF line < LinesCount(f) THEN GoToLine(v, d, f, line) ELSE v

ShowPos(u, d, f, l) ==
  LET line == IF LinesCount(f) < l THEN LinesCount(f) - 1 ELSE l
      v == OpenFile(u, d, f)
  IN  IF line < LinesCount(f) THEN GoToLine(v, d, f, line) ELSE v
ShowsNoLine(pos) == Exists(pos) /\ pos[2] - 1 = LinesCount(pos[1])

\* current_frame_changed: the application shows the frame, then every widget,
\* of closed documents too, is highlighted anew.
FrameChanged(u, d) ==
  LET pos == FramePos(d)
      v == IF Exists(pos) THEN ShowPos(u, d, pos[1], pos[2] - 1) ELSE u
  IN  [v EXCEPT !.lit = [f \in Files |-> IF f \in Range(v.docs) THEN Lit(d, f) ELSE @[f]]]
\* ThreadsDockWidget: onStateChanged and onCurrentThreadChanged.
DockState(u, d) ==
  [u EXCEPT !.dock = IF d.state # "stopped" THEN <<>>
                     ELSE @ \o [t \in DOMAIN d.threads |-> [thread |-> t, mark |-> t = d.thread]]]
DockThread(u, d) ==
  [u EXCEPT !.dock = [i \in DOMAIN @ |-> [@[i] EXCEPT !.mark = u.dock[i].thread = d.thread]]]
Docked(u, d) == IF d.state # dbg.state THEN DockState(u, d) ELSE DockThread(u, d)

FrameFault(u, d) ==
  CASE ShowsNoLine(FramePos(d)) -> "noLine"
    [] ~ShowsNoLine(FramePos(d)) /\ u.left # {} -> "closedDocument"
    [] OTHER -> None

-----------------------------------------------------------------------------
EditorInit ==
  /\ ui = [docs |-> <<>>, cur |-> None, tabs |-> <<>>, tab |-> None, recent |-> <<>>,
           sel |-> [f \in Files |-> <<0, 0>>], lit |-> [f \in Files |-> {}],
           found |-> [f \in Files |-> {}], word |-> NoWord, searching |-> FALSE,
           findOn |-> FALSE, symbolOn |-> FALSE, threads |-> FALSE, left |-> {},
           dock |-> <<>>]
  /\ dbg = [state |-> "initial", threads |-> <<NoPos, NoPos>>, thread |-> 1, frame |-> NoPos,
            stops |-> 0]
  /\ bps = <<>> /\ menu = NoMenu /\ painted = <<>> /\ dirty = TRUE /\ lost = None
  /\ ills \in EditorScenarios
  /\ focus \in {"search", "debug", "breakpoints"}
  /\ focus = "search" => ills = {}
  /\ focus = "breakpoints" => ills \subseteq {"killed", "showThreads"}
  /\ focus = "debug" => "killed" \notin ills

MayGoOn == lost = None
User == MayGoOn /\ menu = NoMenu
Update == dirty' = TRUE /\ painted' = <<>>
Window(u) ==
  /\ ui' = u
  /\ Update
  /\ UNCHANGED <<bps, menu, focus, ills>>
Handler(u) == User /\ Window(u) /\ UNCHANGED <<dbg, lost>>

\* onOpenSource and the trees' "Open".
OpenSource(f, recent) ==
  /\ recent => focus = "search"
  /\ focus = "breakpoints" => f = "b"
  /\ dbg.state = "stopped" /\ f \notin Range(ui.docs) => "lateOpen" \in ills
  /\ Handler(IF recent THEN AddRecent(OpenFile(ui, dbg, f), f) ELSE OpenFile(ui, dbg, f))

SelectTab(f) == f \in Range(ui.tabs) /\ Handler(SetCurrent(ui, dbg, f))
MoveTab == focus = "search" /\ Len(ui.tabs) > 1 /\ Handler([ui EXCEPT !.tabs = Reverse(@)])
CloseTab(f) == focus # "breakpoints" /\ f \in Range(ui.tabs) /\ Handler(CloseDocument(ui, dbg, f))
CloseAll ==
  /\ focus = "search" /\ ui.docs # <<>>
  /\ LET close(u, f) == CloseDocument(u, dbg, f)
     IN  Handler(FoldLeft(close, ui, ui.docs))
ClearHistory == ui.recent # <<>> /\ Handler([ui EXCEPT !.recent = <<>>])

\* A click into the text, and the line numbers' and the marks' clicks and the
\* dialog "Go to line".
PlaceCursor(at) ==
  /\ focus = "search" /\ ui.cur # None /\ at <= Len(Text[ui.cur])
  /\ Handler(Select(ui, dbg, ui.cur, at, at))
GoTo(l) ==
  /\ ui.cur # None /\ l < LinesCount(ui.cur)
  /\ Handler(GoToLine(ui, dbg, ui.cur, l))

\* SearchDialog: its text and its check box, its end, and the buttons, which
\* are also in the menu.
SetSearch(w) ==
  LET u == SearchChanged([ui EXCEPT !.word = w])
      v == [u EXCEPT !.searching = TRUE]
  IN  /\ focus = "search"
      /\ Handler(IF w = NoWord THEN RemoveHighlights(u, dbg)
                 ELSE IF ui.tab = None THEN v ELSE HighlightSearch(v, dbg, ui.tab))
EndSearch == ui.searching /\ Handler(RemoveHighlights(ui, dbg))

Found(u, starts) ==
  IF starts = {} THEN u
  ELSE LET s == CHOOSE x \in starts : TRUE
       IN  Select(u, dbg, u.tab, s, s + Len(u.word.chars))
SearchNext ==
  /\ ui.findOn
  /\ Handler(Found(ui, NextMatch(ui.tab, ui.word, ui.sel[ui.tab][2])))
SearchPrev ==
  /\ ui.findOn
  /\ Handler(Found(ui, PrevMatch(ui.tab, ui.word, ui.sel[ui.tab][1])))

ShowThreads ==
  /\ "showThreads" \in ills
  /\ Handler([ui EXCEPT !.threads = ~@])

-----------------------------------------------------------------------------
(* The debugger                                                            *)

\* A state or a frame of the target that changes; what it does to a widget
\* whose document is closed is left to the behaviours with that mishap.
DbgStep(d) ==
  /\ MayGoOn /\ focus # "search"
  /\ ui.left # {} => "closeTab" \in ills
  /\ dbg' = d
  /\ Window(FrameChanged(Docked(ui, d), d))
  /\ lost' = FrameFault(ui, d)

\* on_target_changed: main's source is shown if there is debug information.
LoadAt(pos) ==
  /\ User /\ focus # "search" /\ dbg.state = "initial"
  /\ pos # NoPos /\ ~Exists(pos) => "missing" \in ills
  /\ focus = "breakpoints" => pos # NoPos
  /\ dbg' = [dbg EXCEPT !.state = "loaded"]
  /\ ui' = IF Exists(pos) THEN ShowPos(ui, dbg', pos[1], pos[2] - 1) ELSE ui
  /\ lost' = IF pos = NoPos THEN None ELSE IF ~Exists(pos) THEN "thrown"
             ELSE IF ShowsNoLine(pos) THEN "noLine" ELSE None
  /\ bps' = [i \in DOMAIN bps |-> [bps[i] EXCEPT !.asked = "installed"]]
  /\ Update
  /\ UNCHANGED <<menu, focus, ills>>

\* Closing resets the breakpoints' locations.
Unload ==
  /\ User /\ dbg.state = "loaded"
  /\ dbg' = [dbg EXCEPT !.state = "initial"]
  /\ bps' = [i \in DOMAIN bps |-> [bps[i] EXCEPT !.loc = 0, !.asked = None]]
  /\ Update
  /\ UNCHANGED <<ui, menu, lost, focus, ills>>

Running == [dbg EXCEPT !.state = "running", !.thread = 1, !.frame = NoPos]
Launch == User /\ dbg.state = "loaded" /\ DbgStep(Running)
Continue == User /\ dbg.state = "stopped" /\ DbgStep(Running)
Ended == [dbg EXCEPT !.state = "loaded", !.threads = <<NoPos, NoPos>>, !.frame = NoPos]
Exit == dbg.state = "running" /\ DbgStep(Ended)
Killed == dbg.state = "stopped" /\ "killed" \in ills /\ menu # NoMenu /\ DbgStep(Ended)

\* A stop in the first thread; the other is in b or without source.
StopAt(pos, other) ==
  /\ dbg.state = "running" /\ dbg.stops < MaxStops
  /\ focus = "breakpoints" => (pos = NoPos) # (other = NoPos)
  /\ DbgStep([dbg EXCEPT !.state = "stopped", !.threads = <<pos, other>>, !.thread = 1,
                         !.frame = pos, !.stops = @ + 1])

\* The docks' selections of a thread and a frame.
Switched(t) == [dbg EXCEPT !.thread = t, !.frame = dbg.threads[t]]
SelectThread(i) ==
  /\ User /\ focus = "debug" /\ i \in DOMAIN ui.dock /\ ui.dock[i].thread # dbg.thread
  /\ DbgStep(Switched(ui.dock[i].thread))
GoToSource(i) ==
  LET pos == dbg.threads[ui.dock[i].thread]
  IN  /\ User /\ focus = "debug" /\ i \in DOMAIN ui.dock
      /\ Exists(pos) /\ (pos[1] \notin Range(ui.docs) => "lateOpen" \in ills)
      /\ Window(ShowPos(ui, dbg, pos[1], pos[2] - 1))
      /\ lost' = (IF ShowsNoLine(pos) THEN "noLine" ELSE None) /\ UNCHANGED dbg
SelectFrame(pos) == User /\ focus = "debug" /\ dbg.state = "stopped" /\ DbgStep([dbg EXCEPT !.frame = pos])

\* stepIntoCurrentSymbol: only a selection that changes enables the item or not.
StepIntoSymbol ==
  /\ User /\ ui.symbolOn /\ Symbol(ui) # None
  /\ dbg.state # "stopped" => "staleSymbol" \in ills
  /\ IF dbg.state = "stopped" THEN DbgStep(Running)
     ELSE lost' = "assert" /\ UNCHANGED <<ui, dbg, bps, menu, painted, dirty, focus, ills>>

-----------------------------------------------------------------------------
(* Breakpoints beside the text                                             *)

\* Bound: the lines with code; LLDB installs a breakpoint at the next of them.
Resolved(b) == IF b.file = "b" /\ b.line = 1 THEN 2 ELSE b.line
NewBreakpoint(pos, asked) ==
  [file |-> pos[1], line |-> pos[2], loc |-> 0, enabled |-> TRUE,
   asked |-> IF dbg.state = "initial" THEN None ELSE asked]

ListChanged(bs) == bps' = bs /\ Len(bs) <= MaxBreakpoints /\ Update

\* handle_line_click behind the marks' go_to_line: toggle_breakpoint.
Toggled(pos) ==
  IF AtLine(bps, pos) # <<>> THEN SelectSeq(bps, LAMBDA b : Place(b) # pos)
  ELSE Append(bps, NewBreakpoint(pos, "toggled"))
ClickMarks(l) ==
  /\ User /\ focus = "breakpoints" /\ ui.cur # None /\ l < LinesCount(ui.cur)
  /\ ui' = GoToLine(ui, dbg, ui.cur, l)
  /\ ListChanged(Toggled(<<ui.cur, l + 1>>))
  /\ UNCHANGED <<dbg, menu, lost, focus, ills>>

\* The oldest breakpoint that waits is installed: what was toggled, and has
\* got another line, is shown there.
Installed ==
  \E i \in DOMAIN bps :
    /\ MayGoOn /\ bps[i].asked # None /\ \A j \in 1..(i - 1) : bps[j].asked = None
    /\ LET b == [bps[i] EXCEPT !.loc = Resolved(bps[i]), !.asked = None]
       IN  /\ ListChanged([bps EXCEPT ![i] = b])
           /\ ui' = IF bps[i].asked = "toggled" /\ b.loc # b.line
                    THEN ShowPos(ui, dbg, b.file, b.loc - 1) ELSE ui
    /\ UNCHANGED <<dbg, menu, lost, focus, ills>>

\* createMarksAreaBreakpointMenu and its siblings. The items are enabled once.
MayChange == dbg.state \in {"initial", "loaded", "stopped"}
BreakpointItems(b) == {"delete", IF b.enabled THEN "disable" ELSE "enable"}
Items(kind, pos) ==
  LET at == AtLine(bps, pos)
      switch == IF LineThreads(dbg, pos) # {} THEN {"switch"} ELSE {}
      insert == IF MayChange THEN {"insert"} ELSE {}
  IN  CASE kind = "marks" /\ at # <<>> -> BreakpointItems(at[1])
        [] kind = "marks" /\ at = <<>> ->
             IF ui.threads /\ switch # {} THEN switch ELSE insert
        [] OTHER -> insert \cup switch
                      \cup IF MayChange /\ at # <<>> THEN BreakpointItems(at[1]) ELSE {}

OpenMenu(kind, l) ==
  /\ User /\ focus = "breakpoints" /\ ui.cur # None /\ l < LinesCount(ui.cur)
  /\ kind = "text" => l = LineOf(ui.cur, ui.sel[ui.cur][2])
  /\ LET pos == <<ui.cur, l + 1>>
         at == AtLine(bps, pos)
     IN  menu' = [items |-> Items(kind, pos), pos |-> pos,
                  bp |-> IF at = <<>> THEN 0 ELSE CHOOSE i \in DOMAIN bps : bps[i] = at[1],
                  thread |-> IF LineThreads(dbg, pos) = {} THEN 0 ELSE Min(LineThreads(dbg, pos))]
  /\ UNCHANGED <<ui, dbg, bps, painted, dirty, lost, focus, ills>>

CloseMenu ==
  /\ MayGoOn /\ menu # NoMenu
  /\ menu' = NoMenu
  /\ UNCHANGED <<ui, dbg, bps, painted, dirty, lost, focus, ills>>

\* An item that changes the list, and the one that selects the thread.
ChooseBreakpoint(item) ==
  /\ MayGoOn /\ menu # NoMenu /\ item \in menu.items
  /\ menu' = NoMenu
  /\ \/ item = "insert" /\ ListChanged(Append(bps, NewBreakpoint(menu.pos, "installed")))
     \/ item = "delete" /\ ListChanged(RemoveAt(bps, menu.bp))
     \/ item = "enable" /\ ListChanged([bps EXCEPT ![menu.bp].enabled = TRUE])
     \/ item = "disable" /\ ListChanged([bps EXCEPT ![menu.bp].enabled = FALSE])
  /\ UNCHANGED <<ui, dbg, lost, focus, ills>>

ChooseThread ==
  /\ MayGoOn /\ menu # NoMenu /\ "switch" \in menu.items
  /\ menu' = NoMenu
  /\ IF dbg.state # "stopped"
     THEN lost' = "dangling" /\ UNCHANGED <<ui, dbg, dirty, painted>>
     ELSE LET d == Switched(menu.thread)
          IN  /\ ui.left # {} => "closeTab" \in ills
              /\ dbg' = d /\ ui' = FrameChanged(Docked(ui, d), d) /\ Update
              /\ lost' = FrameFault(ui, d)
  /\ UNCHANGED <<bps, focus, ills>>

\* handleDocumentMarksPaint: without a target there are no threads to ask.
Marks(u, d, bs) == [l \in 1..LinesCount(u.tab) |-> Icons(u, d, bs, <<u.tab, l>>)]
Paint ==
  /\ MayGoOn /\ dirty /\ focus # "search"
  /\ dirty' = FALSE
  /\ IF ui.tab # None /\ ui.threads /\ dbg.state = "initial"
     THEN lost' = "noTarget" /\ painted' = painted
     ELSE lost' = None /\ painted' = IF ui.tab = None THEN <<>> ELSE Marks(ui, dbg, bps)
  /\ UNCHANGED <<ui, dbg, bps, menu, focus, ills>>

-----------------------------------------------------------------------------
UserStep ==
  \/ \E f \in Files, recent \in BOOLEAN : OpenSource(f, recent)
  \/ \E f \in Files : SelectTab(f) \/ CloseTab(f)
  \/ MoveTab \/ CloseAll \/ ClearHistory
  \/ \E at \in 0..6 : PlaceCursor(at)
  \/ \E l \in 0..1 : GoTo(l)
  \/ \E w \in Words : SetSearch(w)
  \/ EndSearch \/ SearchNext \/ SearchPrev \/ ShowThreads

DebuggerStep ==
  \/ \E pos \in Positions : LoadAt(pos)
  \/ Unload \/ Launch \/ Continue \/ Exit \/ Killed
  \/ \E pos \in Positions, other \in {NoPos, <<"b", 2>>} : StopAt(pos, other)
  \/ \E i \in 1..2 : SelectThread(i) \/ GoToSource(i)
  \/ \E pos \in {NoPos, <<"a", 1>>} : SelectFrame(pos)
  \/ StepIntoSymbol

MarksStep ==
  \/ \E l \in 0..1 : ClickMarks(l) \/ \E kind \in {"marks", "text"} : OpenMenu(kind, l)
  \/ Installed \/ CloseMenu \/ ChooseThread \/ Paint
  \/ \E item \in {"insert", "delete", "enable", "disable"} : ChooseBreakpoint(item)

EditorNext == UserStep \/ DebuggerStep \/ MarksStep
EditorSpec == EditorInit /\ [][EditorNext]_editorVars

-----------------------------------------------------------------------------
EditorTypeOK ==
  /\ Range(ui.docs) \cup Range(ui.tabs) \subseteq Files
  /\ {ui.cur, ui.tab} \subseteq Files \cup {None}
  /\ \A f \in Files : ui.sel[f] \in (0..Len(Text[f])) \X (0..Len(Text[f]))
  /\ ui.word \in Words
  /\ dbg.state \in {"initial", "loaded", "running", "stopped"}
  /\ Len(bps) <= MaxBreakpoints
  /\ lost \in {None, "noLine", "closedDocument", "thrown", "noTarget", "assert", "dangling"}

\* The documents that are open are the tabs that are there, and the tab that
\* is shown is the one of the current document, whichever way tabs are opened,
\* moved and closed: the two follow each other by signals. What can be searched
\* can be found again, and the matches that are marked are those of the words
\* now searched. No file is twice among the recent ones.
TabsSound ==
  /\ ui.tab = ui.cur /\ (ui.cur = None <=> ui.docs = <<>>)
  /\ Range(ui.tabs) = Range(ui.docs) /\ IsInjective(ui.tabs) /\ IsInjective(ui.recent)
  /\ ui.findOn <=> ui.tab # None /\ ui.word # NoWord
  /\ ui.tab # None =>
       ui.found[ui.tab] = IF ui.searching THEN Matches(ui.tab, ui.word) ELSE {}

\* The lines a document shows highlighted are the thread's and the frame's, in
\* every document, not only the one that is shown: all are told of a change.
\* A document that was opened since is not, nor is one shorter than its source.
LinesSound ==
  "staleSource" \notin ills =>
    \A f \in Range(ui.docs) \ ui.left : \A l \in 1..LinesCount(f) :
      LET pos == <<f, l>>
          thread == pos = ThreadPos(dbg)
          frame == pos = FramePos(dbg) /\ ~thread /\ ThreadPos(dbg) # NoPos
      IN  "lateOpen" \notin ills =>
            {c \in {"yellow", "green"} : <<l - 1, c>> \in ui.lit[f]} =
              IF thread THEN {"yellow"} ELSE IF frame THEN {"green"} ELSE {}

\* Once nothing is to be painted, each line of the document that is shown has
\* the marks of the debugger as it is, though breakpoints, frames and states
\* change by different signals; and a line has a hint if it has a mark. (The
\* threads' mark is not among them: isThreadAtLine.)
MarksSound ==
  ~dirty /\ ui.tab # None /\ lost = None =>
    \A l \in 1..LinesCount(ui.tab) :
      LET pos == <<ui.tab, l>>
          marks == painted[l] \ {"thread"}
      IN  /\ "yellow" \in marks <=> ThreadPos(dbg) = pos
          /\ "blue" \in marks <=> FramePos(dbg) = pos /\ ThreadPos(dbg) # pos
          /\ marks \cap {"breakpoint", "disabled"} # {} <=> AtLine(bps, pos) # <<>>
          /\ "disabled" \in marks => \A i \in DOMAIN AtLine(bps, pos) : ~AtLine(bps, pos)[i].enabled
          /\ marks = {} <=> Hint(ui, dbg, bps, pos) \in {None, "threads"}

\* A menu's items use a breakpoint that is still in the list.
MenuSound ==
  menu # NoMenu /\ menu.items \cap {"delete", "enable", "disable"} # {} =>
    menu.bp \in DOMAIN bps /\ bps[menu.bp].file = menu.pos[1]

\* The threads' dock has each thread of the process once while it is stopped, none
\* otherwise, and the current one is marked whoever selected it.
DockSound ==
  /\ [i \in DOMAIN ui.dock |-> ui.dock[i].thread] = IF dbg.state = "stopped" THEN <<1, 2>> ELSE <<>>
  /\ \A i \in DOMAIN ui.dock : ui.dock[i].mark <=> ui.dock[i].thread = dbg.thread

\* Nothing that is not there is used but where the code is known to use it.
FaultsKnown ==
  \/ lost = None
  \/ lost = "noLine" /\ "staleSource" \in ills
  \/ lost = "closedDocument" /\ "closeTab" \in ills
  \/ lost = "thrown" /\ "missing" \in ills
  \/ lost = "noTarget" /\ "showThreads" \in ills
  \/ lost = "assert" /\ "staleSymbol" \in ills
  \/ lost = "dangling" /\ "killed" \in ills

\* A search goes from a match to the next or the one before it among those that
\* are marked, and around the text's ends, where the matches do not overlap; it
\* finds something whenever there is something, wherever the cursor is.
SearchSound ==
  LET marked == ui.found[ui.tab]
      at == ui.sel[ui.tab][1]
      isMatch == at \in marked /\ ui.sel[ui.tab][2] = at + Len(ui.word.chars)
      after == {s \in marked : s > at}
      before == {s \in marked : s < at}
      next == NextMatch(ui.tab, ui.word, ui.sel[ui.tab][2])
      prev == PrevMatch(ui.tab, ui.word, at)
  IN  ui.findOn /\ ui.searching /\ marked = Occurrences(ui.tab, ui.word) /\ marked # {} =>
        IF isMatch
        THEN /\ next = {IF after = {} THEN Min(marked) ELSE Min(after)}
             /\ prev = {IF before = {} THEN Max(marked) ELSE Max(before)}
        ELSE next # {} /\ prev # {}

EditorSound ==
  EditorTypeOK /\ TabsSound /\ LinesSound /\ MarksSound /\ MenuSound
  /\ DockSound /\ FaultsKnown /\ SearchSound

\* A stop in a source that is here shows it, whatever tabs are open and whichever
\* is shown, with the cursor in the frame's line, or the last there is.
StopsShown ==
  [][LET pos == FramePos(dbg')
     IN  dbg.state # "stopped" /\ dbg'.state = "stopped" /\ Exists(pos) /\ lost' # "noLine" =>
           /\ ui'.cur = pos[1]
           /\ LineOf(pos[1], ui'.sel[pos[1]][2]) = Min({pos[2], LinesCount(pos[1])}) - 1]_editorVars
=============================================================================
