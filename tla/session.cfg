SPECIFICATION SessionSpec
CONSTANTS
  Consts = {"a", "b"}
  Files = {"unix.rs"}
  FileOf <- Neighbours
  Ident <- Named
  Line <- Lines
  Reflow <- Steady
  NoticeLines = 1
  InMacro = {}
  Unreliable = {"unix.rs"}
  MaxCalls = 2
  MaxRuns = 2
  MaxEdits = 2
CHECK_DEADLOCK FALSE
INVARIANTS
  SessionTypeOK
  Durable
  PendingIsFlagged
  NothingVanishes
  SingleAttribute
  BystandersUntouched
  OkMeansWritten
