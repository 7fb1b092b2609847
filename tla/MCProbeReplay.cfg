\* An edge that keeps its data directory, or is restored from a copy.
SPECIFICATION MCSpec
CONSTANTS
  MaxSeq = 3
  MaxIds = 3
  MaxFaults = 1
  MaxQueue = 1
  MaxAged = 1
  BatchMax = 2
  MaxGaps = 1
  RowBytes = 2
  GapBytes = 1
  MaxBytes = 6
  Reserve = 2
  Periodic = TRUE
  Restores = TRUE
  Unauthorized = {3}
  Ahead = {1}
INVARIANTS
  EveryEventAccounted
  ReplayNeverRefused
  SteadyStateFollowsHistory
PROPERTIES
  SteadyImplementsStream
CHECK_DEADLOCK FALSE
