\* Resource ownership of one CVFSFile handle through every sequence of its handlers.
CONSTANTS
  Bytes <- MCBytes
  Offsets <- MCOffsets
  Sizes <- MCSizes
  CallerBuf <- MCCallerBuf
  Gran = 2
  MaxSize = 3
  MaxPos = 4
  Garbage = garbage
  garbage = garbage
SPECIFICATION Spec
INVARIANT TypeOK ResourcesTracked
