SPECIFICATION Spec
CONSTANTS
  SegmentSize = 2
  SignalMaxCount = 1
  Reclaims = TRUE
  Seals = FALSE
  Faults = {}
  MaxSeq = 3
  MaxSegments = 3
  MaxCrashes = 1
  MaxFaults = 0
INVARIANT LossAccounted
CHECK_DEADLOCK FALSE
