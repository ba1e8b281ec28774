SPECIFICATION Spec
CONSTANTS
  Consts = {"a", "b", "z"}
  Files = {"unix.rs", "other.rs"}
  FileOf <- TwoFiles
  Ident <- Named
  Line <- Lines
  Reflow <- Steady
  NoticeLines = 1
  InMacro = {"b"}
  Unreliable = {"other.rs"}
  MaxCalls = 1
CHECK_DEADLOCK FALSE
INVARIANT
  SaveLands
