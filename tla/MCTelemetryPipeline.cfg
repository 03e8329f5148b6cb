CONSTANTS
  Identities = {alone, managed}
  Standalone = alone
  BatchSizes <- MCBatchSizes
  QueueCapacity = 1
  MaxFrames = 3
  MaxStored = 2
  MaxSwitches = 1
SPECIFICATION FairSpec
CHECK_DEADLOCK FALSE
INVARIANTS
  TypeOK
  BatcherAccounting
  SenderAccounting
  OpenBatchTimed
  StoredInOrder
  LossCounted
PROPERTY
  NoSendAfterClose
  FrameSettles
