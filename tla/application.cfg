SPECIFICATION FairSpec
CONSTANTS
  WordMod = 4
  MaxHelpers = 2
  Scenarios = {{"connectFails", "bornStopped"}, {"wakeLost"},
               {"terminalFails", "execFails", "earlyStop", "connectFails", "bornStopped", "wakeLost"}}
  Lapses = {{}, {"endsMeanwhile"}, {"stopsAtOnce"}, {"answersLate"}, {"commandFails"}, {"killed"}}
INVARIANTS ShellSound
PROPERTY ProgressEnds
CHECK_DEADLOCK FALSE
