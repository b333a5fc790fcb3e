SPECIFICATION FairSpec
CONSTANTS
  WordMod = 4
  MaxHelpers = 3
  Scenarios = {{}, {"connectFails", "bornStopped"}, {"terminalFails"}, {"execFails"}, {"earlyStop"},
               {"wakeLost"}, {"terminalFails", "execFails", "earlyStop", "connectFails",
                              "bornStopped", "wakeLost"}}
INVARIANTS FollowsTarget StubApart AnsweredWhenOver
PROPERTIES KeepsContract ProgramStopsShown ExecStopsHidden ExitAnnounced LaunchAnswered
