SPECIFICATION Spec
CONSTANTS
  MaxFrames = 3
  MaxCfa = 4
  MaxStops = 2
  MaxPending = 2
  Scenarios = {{"grouping"}, {"deep", "hastyEnd"}, {"disorder"}, {"switch", "deep"}}
INVARIANTS ThreadsSound
CHECK_DEADLOCK FALSE
