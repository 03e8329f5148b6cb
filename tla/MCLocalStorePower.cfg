SPECIFICATION Spec
CONSTANTS
  SegmentSize = 2
  SignalMaxCount = 1
  Reclaims = FALSE
  Seals = FALSE
  Faults = {"power"}
  MaxSeq = 3
  MaxSegments = 3
  MaxCrashes = 1
  MaxFaults = 1
INVARIANT LossAccounted
CHECK_DEADLOCK FALSE
