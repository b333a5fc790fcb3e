SPECIFICATION FairSpec
CONSTANTS
  MaxPending = 3
  MaxEvents = 3
  Scenarios = {{}, {"bornStopped"}, {"earlyExit"}, {"commandFails"}, {"stepIgnored"},
               {"bornStopped", "earlyExit", "commandFails", "stepIgnored"}}
INVARIANTS TypeOK Asserts StoppedIsStopped ListsMatchState Agreement
PROPERTIES ImplementsContract CommandsTakeEffect
