CONSTANTS
  ra = ra
  fa = fa
  fb = fb
  k1 = k1
  k2 = k2
  d1 = d1
  d2 = d2
  star = star
  sub = sub
  Names <- MCNames
  AbsPath <- MCAbsPath
  Loadable <- MCLoadable
  RegPaths <- MCRegPaths
  Keys <- MCKeys
  NoKey = NoKey
  BuildKey <- MCBuildKey
  Indices = {1}
  Data <- MCData
  NoData = NoData
  Content <- MCContent
  FileSystem = FileSystem
  MaxNames = 2
  MaxArchives = 3
SPECIFICATION Spec
INVARIANT TypeOK
