SPECIFICATION Spec
CONSTANTS
  MaxRows = 3
  MaxText = 1
  MaxCode = 2
  MaxWatch = 1
  MaxBps = 2
  MaxLocation = 2
  Scenarios = {{"sortedDelete"}}
INVARIANT OnlySelectedDeleted
CHECK_DEADLOCK FALSE
