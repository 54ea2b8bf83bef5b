SPECIFICATION FairSpec
CONSTANTS
  NULL = NULL
  r1 = r1  r2 = r2  r3 = r3
  Request <- MCRequest
  Workers = 1
  Callback = r3
  Checkpoint = 2
  RewindDepth = 2
  RewindTo <- MCRewindTo
  MaxHeight = 3
  MaxReorgs = 1
PROPERTIES
  PostEnds
CHECK_DEADLOCK FALSE
