\* The builder ends: every job finishes (or one aborts), so a terminal
\* state is not a deadlock.
CONSTANTS
  j1 = j1
  j2 = j2
  j3 = j3
  o1 = o1
  o2 = o2
  o3 = o3
  d1 = d1
  d2 = d2
  Empty = Empty
  Jobs <- MCJobs
  Outputs <- MCOutputs
  OutOf <- MCOutOf
  Dir <- MCDir
  Visual <- MCVisual
  Patches <- MCPatches
  Ignores <- MCIgnores
  Sources <- MCSources
  Data <- MCData
  CharCode <- MCCharCode
SPECIFICATION Spec
CHECK_DEADLOCK FALSE
INVARIANT TypeOK
INVARIANT FinishedOutputIsJob
