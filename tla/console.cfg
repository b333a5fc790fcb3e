SPECIFICATION ConsoleSpec
CONSTANTS
  WordMod = 4
  MaxHelpers = 2
  Scenarios = {{"connectFails", "bornStopped", "wakeLost"}}
  Lapses = {{}}
  MaxLate = 1
  Slips = {{}, {"nowhere"}, {"early", "both", "declines"}, {"reload", "detach", "bareAttach"}}
PROPERTIES AnswersSound TerminalSound
CHECK_DEADLOCK FALSE
