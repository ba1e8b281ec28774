SPECIFICATION FairSpec
CONSTANTS
  Files = {"aix.rs", "bsd.rs", "new.rs"}
  Contents <- Sources
  OtherStmt = "other"
  MaxRuns = 2
CHECK_DEADLOCK FALSE
INVARIANTS
  TypeOK
  ScanIsComplete
  EveryBranchIsScanned
  SavesFindWhatScansFound
  MissingFilesHaveCauses
PROPERTIES
  ScanReturns
