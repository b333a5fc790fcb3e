------------------------------ MODULE Workbench ------------------------------
(***************************************************************************)
(* Parts of the programs that share no state with each other: what is read *)
(* of the memory (Memory) and the sources in tabs (Editor). One of them    *)
(* moves in a behaviour, the others stay as the program starts.            *)
(***************************************************************************)
EXTENDS Memory

CONSTANTS MaxRecent, MaxStops, MaxBreakpoints, EditorScenarios
VARIABLES
  ui, dbg, bps, menu, painted, dirty, lost, focus, ills,   \* those of Editor
  part    \* the part that moves; never changes

E == INSTANCE Editor

sourceVars == <<ui, dbg, bps, menu, painted, dirty, lost, focus, ills>>
workbenchVars == <<vars, sourceVars, part>>

MemoryRests ==
  /\ readable = {} /\ mishaps = {}
  /\ objects = CHOOSE o \in Layouts : TRUE
  /\ lengths = CHOOSE c \in Codes : TRUE
SourcesRest == ills = {} /\ focus = "search"

WorkbenchInit ==
  /\ Init /\ E!EditorInit
  /\ \/ part = "memory" /\ SourcesRest
     \/ part = "sources" /\ MemoryRests

WorkbenchNext ==
  /\ UNCHANGED part
  /\ \/ part = "memory" /\ Next /\ UNCHANGED sourceVars
     \/ part = "sources" /\ E!EditorNext /\ UNCHANGED vars

WorkbenchSpec == WorkbenchInit /\ [][WorkbenchNext]_workbenchVars

-----------------------------------------------------------------------------
\* The documents, the tabs, the marks and the menus agree with each other and
\* with the debugger, and a search finds what there is (see EditorSound).
DocumentsSound == E!EditorSound

\* A stop in a source that is here is shown with its line (see StopsShown).
StopsShown == E!StopsShown
=============================================================================
