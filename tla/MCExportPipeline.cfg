CONSTANTS
  Owners = {a}
  Standalone = standalone
  Kinds <- MCBothKinds
  Handlers = {h1}
  Histories <- MCAnyHistory
  Reenroll = TRUE
  ReadLimit = 3
  MaxLog = 2
  MaxEras = 2
  MaxCrashes = 1
SPECIFICATION Spec
CHECK_DEADLOCK FALSE
INVARIANTS
  TypeOK
  CheckpointCovered
  CheckpointEarned
  UploadGapFree
PROPERTIES
  CheckpointMonotonic
