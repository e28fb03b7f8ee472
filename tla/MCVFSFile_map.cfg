\* Map exposes the file from the offset it was asked for.
CONSTANTS
  Bytes <- MCBytes
  Offsets <- MCOffsets
  Sizes <- MCSizes
  CallerBuf <- MCCallerBuf
  Gran = 2
  MaxSize = 3
  MaxPos = 4
  Garbage = garbage
  garbage = garbage
SPECIFICATION Spec
INVARIANT MapExposesRequestedOffset
