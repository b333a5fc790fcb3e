SPECIFICATION WorkbenchSpec
CONSTANTS
  Top = 15
  PageSize = 4
  Row = 2
  Step = 2
  MaxInst = 2
  Chunk = 2
  Limit = 6
  MaxOps = 4
  Scenarios = {{}, {"unreadable"}, {"ahead"}, {"again"}, {"lowEnd"}, {"offset"}, {"nullPage"}, {"far"}}
  MaxRecent = 1
  MaxStops = 1
  MaxBreakpoints = 2
  EditorScenarios = {{}, {"missing", "lateOpen"}, {"staleSource", "staleSymbol"}, {"closeTab"}, {"showThreads"}, {"killed"}}
INVARIANTS WindowSound ReadSound DisassemblySound DocumentsSound
PROPERTY StopsShown
CHECK_DEADLOCK FALSE
