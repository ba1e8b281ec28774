SPECIFICATION FairSpec
CONSTANTS
  MaxMessages = 3
  MaxReports = 2
CHECK_DEADLOCK FALSE
INVARIANTS
  TypeOK
  EveryMessageIsPainted
  OneWriter
  FlagsArePopped
PROPERTIES
  SpinnerLetsGo
