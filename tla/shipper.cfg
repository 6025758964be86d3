SPECIFICATION FairSpec
CONSTANTS
  c1 = c1
  c2 = c2
  path1 = path1
  MaxEvents = 3
  Contents = {c1, c2}
  ContentOf <- SameContent
  Valid <- AllEvents
  RING = 3
  MAX_BATCH = 2
  MAX_RETRIES = 2
  LIMIT = 2
  CHUNK = 1
  MaxFaults = 1
  Paths = {path1}
  MaxRows = 2
  MaxChanges = 2
  Texts = {c1}
  Zeros = Zeros
  MAX_ARGS = 2
INVARIANTS
  EventsAccounted
  NothingStale
PROPERTIES
  KeepsPromise
  NothingStaysInTheSensor
  Converges
