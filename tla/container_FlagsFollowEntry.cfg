SPECIFICATION Spec
CONSTANTS
  N = 2
  Regexes <- MCRegexes
  Match <- MCMatch
  ReSize <- MCReSize
  SyntaxErrors = {"broken"}
  Wild = "wild"
INVARIANT FlagsFollowEntry
