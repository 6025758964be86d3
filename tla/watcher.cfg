SPECIFICATION FairSpec
CONSTANTS
  a = a
  frag = frag
  Fragment = frag
  Texts = {a}
  KindOf <- Kind
  Rotations = {"rename", "truncate"}
  MaxChunks = 2
  MaxInodes = 2
  MaxTruncations = 1
  MaxFaults = 2
  MaxAttempts = 2
INVARIANTS
  PositionCoversOnlyDelivered
  AlertedAtMostOnce
PROPERTIES
  NoFalseReset
  EveryEventDelivered
