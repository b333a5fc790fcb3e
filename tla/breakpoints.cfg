SPECIFICATION FairSpec
CONSTANTS
  MaxNum = 2
  MaxEdits = 3
  MaxRuns = 2
  MaxTargets = 2
  Scenarios = {{}, {"checked"}, {"renumber", "attachFirst"}, {"editClosing", "staleHits", "cancelWait", "removeWatch"}}
INVARIANTS ListSound
PROPERTIES GetsInstalled
CHECK_DEADLOCK FALSE
