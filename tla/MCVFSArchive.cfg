CONSTANTS
  p1 = p1
  p2 = p2
  d1 = d1
  d2 = d2
  k1 = k1
  k2 = k2
  NoKey = NoKey
  NoData = NoData
  Paths <- MCPaths
  Data <- MCData
  Keys <- MCKeys
  Versions = {1}
  Flags = {0, 1, 2, 3}
  NameIndex <- MCNameIndex
  SizeOf <- MCSizeOf
  Lz4SizeOf <- MCLz4SizeOf
  HashOf <- MCHashOf
  PageSize = 4
  HeaderSize = 3
  RecordSize = 1
  AesBlock = 2
  MaxFileSize = 16
  CrashPoints = {"free", "record"}

SPECIFICATION Spec

INVARIANT TypeOK
INVARIANT LayoutWalkable
INVARIANT MemoryMatchesDisk
INVARIANT OpenReturnsStored
INVARIANT ScanIsBestFit

PROPERTY SpaceReuse
PROPERTY StoreSpec
