SPECIFICATION Spec
CONSTANTS
  SegmentSize = 3
  SignalMaxCount = 1
  Reclaims = FALSE
  Seals = TRUE
  Faults = {"db", "io"}
  MaxSeq = 3
  MaxSegments = 3
  MaxCrashes = 2
  MaxFaults = 1
INVARIANT TypeOK
INVARIANT LossAccounted
INVARIANT CheckpointSound
INVARIANT RowsMatchFiles
PROPERTY IsBatchLog
CHECK_DEADLOCK FALSE
