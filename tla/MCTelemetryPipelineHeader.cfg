CONSTANTS
  Identities = {alone, managed}
  Standalone = alone
  BatchSizes <- MCBatchSizes
  QueueCapacity = 1
  MaxFrames = 2
  MaxStored = 2
  MaxSwitches = 1
SPECIFICATION Spec
CHECK_DEADLOCK FALSE
INVARIANT
  HeaderMatchesFrames
