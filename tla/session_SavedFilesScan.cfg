SPECIFICATION SessionSpec
CONSTANTS
  Consts = {"a", "b"}
  Files = {"unix.rs"}
  FileOf <- Neighbours
  Ident <- Named
  Line <- Lines
  Reflow <- Steady
  NoticeLines = 1
  InMacro = {"a"}
  Unreliable = {}
  MaxCalls = 1
  MaxRuns = 2
  MaxEdits = 1
CHECK_DEADLOCK FALSE
INVARIANT SavedFilesScan
