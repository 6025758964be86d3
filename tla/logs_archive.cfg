SPECIFICATION Spec
CONSTANTS
  Settings <- OneDay
  MaxId = 2
  MaxDay = 2
  MaxFaults = 0
PROPERTY
  DeletedIsArchived
