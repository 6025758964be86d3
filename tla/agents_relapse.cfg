SPECIFICATION FairSpec
CONSTANTS
  Thresholds = {1}
  MaxAgents = 1
  MaxTime = 4
  MaxFaults = 0
PROPERTY
  RelapsedAgentsAlert
