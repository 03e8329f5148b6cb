SPECIFICATION Spec
CONSTANTS
  SegmentSize = 2
  SignalMaxCount = 1
  Reclaims = FALSE
  Seals = FALSE
  Faults = {"short"}
  MaxSeq = 3
  MaxSegments = 3
  MaxCrashes = 0
  MaxFaults = 1
INVARIANT LossAccounted
CHECK_DEADLOCK FALSE
