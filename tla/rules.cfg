SPECIFICATION FairSpec
CONSTANTS
  g1 = g1
  Groups = {g1}
  Matches <- OneLabel
  RuleTexts <- Many
  Default <- Seed
  Span = 2
  Keys <- ThreeKeys
  MaxEvents = 2
  MaxFaults = 1
INVARIANTS
  SilentGroupsWereAlerted
PROPERTIES
  OneAlertPerBurst
  BurstsAlert
