SPECIFICATION Spec
CONSTANTS
  None = None
  r1 = r1
  r2 = r2
  n1 = n1
  n2 = n2
  Requests = {r1, r2}
  Names = {n1, n2}
  MaxUsers = 3
  MaxTokens = 4
  MaxSecrets = 2
  MaxRequests = 4
SYMMETRY Symmetry
INVARIANTS
  NoOrphans
  SecondSessionOverlapped
  EnabledIsProven
PROPERTIES
  SignupWasAllowed
  SecondFactorAsked
  LastAccountStays
CHECK_DEADLOCK FALSE
