CONSTANTS
  Identities = {alone, managed}
  Standalone = alone
  BatchSizes <- MCBatchSizes
  QueueCapacity = 1
  MaxFrames = 1
  MaxStored = 2
  MaxSwitches = 0
SPECIFICATION Spec
CHECK_DEADLOCK FALSE
INVARIANT
  DrainedMeansSent
