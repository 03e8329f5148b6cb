SPECIFICATION Spec
CONSTANTS
  SegmentSize = 2
  SignalMaxCount = 1
  Reclaims = TRUE
  Seals = FALSE
  Faults = {"db", "io", "short", "power"}
  MaxSeq = 3
  MaxSegments = 3
  MaxCrashes = 1
  MaxFaults = 1
INVARIANT NoSequenceReuse
INVARIANT SignalsKept
CHECK_DEADLOCK FALSE
