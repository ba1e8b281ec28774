SPECIFICATION Spec
CONSTANTS
  SlotCounts = {0, 3, 11}
  Heights = {5, 20}
  Widths = {3, 9}
  MaxPrompt = 3
  Debug = TRUE
CHECK_DEADLOCK FALSE
INVARIANTS
  TypeOK
  FocusFitsMode
  SelectionSpans
  SelectionEndsWithMode
  NarrowPromptIsSafe
  TypedInOrder
