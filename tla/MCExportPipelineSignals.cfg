CONSTANTS
  Owners = {a}
  Standalone = standalone
  Kinds <- MCBothKinds
  Handlers = {h1}
  Histories <- MCNoHistory
  Reenroll = FALSE
  ReadLimit = 4
  MaxLog = 4
  MaxEras = 1
  MaxCrashes = 0
SPECIFICATION Spec
CHECK_DEADLOCK FALSE
INVARIANTS
  SignalsCovered
