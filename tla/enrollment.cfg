SPECIFICATION Spec
CONSTANTS
  s1 = s1
  s2 = s2
  t1 = t1
  nat = nat
  Shippers = {s1, s2}
  Tokens = {t1}
  Addresses = {nat}
  TokenOf <- OneToken
  AddressOf <- OneAddress
  Packages <- OnePackage
  MAX_ATTEMPTS = 2
  WINDOW = 1
  MaxTime = 2
  MaxRuns = 2
  MaxFaults = 2
INVARIANTS
  UsesAccounted
  KeysMatchAgents
  LimiterStaysSmall
PROPERTY
  NoLateEnrollment
