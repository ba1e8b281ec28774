SPECIFICATION FairSpec
CONSTANTS
  Saves = {"s1", "s2", "s3"}
  MaxKeys = 5
  Faults = {"save", "terminal", "update", "panic", "input"}
CHECK_DEADLOCK FALSE
INVARIANTS
  TypeOK
  HangHasCause
PROPERTIES
  DrawSkipsOnlyUntold
  StopQuitsUnlessHung
