SPECIFICATION FairSpec
CONSTANTS
  Settings <- TwoCaps
  MaxId = 2
  MaxDay = 2
  MaxFaults = 1
INVARIANTS
  StatusHasCause
  EveryRowInOneCheckpoint
PROPERTIES
  CapKeepsTheNewest
  OnlyTheWindowLosesRows
  OldRowsGo
  EveryRowIsCheckpointed
