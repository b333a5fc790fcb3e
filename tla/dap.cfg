SPECIFICATION AdapterSpec
CONSTANTS
  Scenarios = {{}, {"hastyTerminate"}, {"hastyPause"}, {"commandFails"}, {"earlyExit"},
               {"noInitialStop"}, {"attachStop"}, {"functionsLater"},
               {"hastyTerminate", "commandFails", "earlyExit", "functionsLater"}}
  MaxPage = 3
  MaxValues = 2
INVARIANTS ClientKnows HandedOutSound
PROPERTIES TellsInOrder EndsTold
