SPECIFICATION FairSpec
CONSTANTS
  Saves = {"s1"}
  MaxKeys = 2
  Faults = {"save"}
CHECK_DEADLOCK FALSE
PROPERTIES
  StopQuits
