SPECIFICATION FairSpec
CONSTANTS
  Thresholds = {1, 2}
  MaxAgents = 2
  MaxTime = 4
  MaxFaults = 1
INVARIANTS
  FlagHasCause
PROPERTIES
  OneAlertPerEpisode
  DarkAgentsAlert
