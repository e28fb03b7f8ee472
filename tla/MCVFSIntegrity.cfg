CONSTANTS
  top = top
  sub = sub
  d1 = d1
  d2 = d2
  Empty = Empty
  NoData = NoData
  Names <- MCNames
  Nested <- MCNested
  Data <- MCData
  NameIndex <- MCNameIndex
  EmptyNameIndex = 7

SPECIFICATION Spec

CHECK_DEADLOCK FALSE

INVARIANT SuccessMeansVerified
