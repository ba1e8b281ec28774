SPECIFICATION Spec
CONSTANTS
  N = 2
  Regexes <- MCRegexes
  Match <- MCMatch
  ReSize <- MCReSize
  SyntaxErrors = {"broken"}
  Wild = "wild"
INVARIANTS
  TypeOK
  ShownIsMatched
  SlotsAreDistinct
  BaselineTracksMemory
  FlagExactWhenCoveredOnce
PROPERTIES
  OnlyShownChange
  FailedFilterIsNoOp
  ImplementsMarks
