CONSTANTS
  MaxLen = 4
  f1 = f1
  f2 = f2
  NoDoc = NoDoc
  NoGroup = NoGroup
  PathRank <- MCPathRank
SPECIFICATION Spec
INVARIANT MatchesGlob
INVARIANT ParseMatchesFormat
