SPECIFICATION Spec
CONSTANTS
  Saves = {"s1"}
  MaxKeys = 2
  Faults = {}
CHECK_DEADLOCK FALSE
INVARIANTS
  StateOutlivesSaves
