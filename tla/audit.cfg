SPECIFICATION FairSpec
CHECK_DEADLOCK FALSE
CONSTANTS
  Writers = {w1, w2, w3}
  Events = {e1, e2, e3}
  Instants = {10, 13}
  MaxPreChain = 1
  NoEvent = NoEvent
INVARIANTS
  ChainNeverForks
  EveryEventAccounted
  ChangesAreDetected
PROPERTY
  OnlyGrows
  RecordingEnds
