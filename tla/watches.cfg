SPECIFICATION Spec
CONSTANTS
  MaxCount = 1
  MaxOps = 5
  MaxPending = 2
  Scenarios = {{}, {"overlap"}, {"reopen"}, {"unanswered", "edit"}, {"again"}, {"edit"}, {"raw"}}
INVARIANTS WatchesSound ShowsServers
CHECK_DEADLOCK FALSE
