SPECIFICATION LaunchingSpec
CONSTANTS
  MaxLaunches = 2
  MaxRounds = 2
  Scenarios = {{}, {"attachFails"}, {"timeOut"}, {"slowChild"}, {"slowChild", "attachFails"},
               {"timeOut", "terminalExits", "slowChild", "attachFails"}}
  MaxOutput = 1
  MaxInput = 3
INVARIANTS LaunchesApart MonitorsSound
PROPERTIES WaitsEnd MonitorsTell
\* A child notified too early waits for ever, and launches are bounded.
CHECK_DEADLOCK FALSE
