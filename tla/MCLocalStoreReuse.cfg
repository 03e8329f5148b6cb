SPECIFICATION Spec
CONSTANTS
  SegmentSize = 2
  SignalMaxCount = 1
  Reclaims = TRUE
  Seals = FALSE
  Faults = {}
  MaxSeq = 3
  MaxSegments = 3
  MaxCrashes = 0
  MaxFaults = 0
INVARIANT CheckpointSound
CHECK_DEADLOCK FALSE
