SPECIFICATION FairSpec
CONSTANTS
  NULL = NULL
  r1 = r1  r2 = r2  r3 = r3
  Request <- MCRequest
  Workers = 1
  Callback = NULL
  Checkpoint = 2
  RewindDepth = 2
  RewindTo <- MCRewindTo
  MaxHeight = 3
  MaxReorgs = 1
INVARIANTS
  ServerTypeOK
  MemoryCurrent
  Unpoisoned
PROPERTIES
  Answered
CHECK_DEADLOCK FALSE
