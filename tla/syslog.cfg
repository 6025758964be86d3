SPECIFICATION SyslogFairSpec
CONSTANTS
  blank = blank
  text = text
  nohost = nohost
  host = host
  Blank = blank
  NoHost = nohost
  WIDTH <- Widths
  Sources <- TwoSources
  Lines <- SomeLines
  Lists <- SomeLists
  MaxMessages = 2
  MaxConns = 1
  MaxSaves = 2
  MaxFailures = 1
  TICKS = 2
  Clocks <- SomeClocks
INVARIANTS
  NothingVanishes
  YearIsRight
PROPERTIES
  ListIsObeyed
  ListCatchesUp
