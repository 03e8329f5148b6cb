CONSTANTS
  Owners = {a}
  Standalone = standalone
  Kinds <- MCEventsOnly
  Handlers = {h1, h2}
  Histories <- MCNoHistory
  Reenroll = FALSE
  ReadLimit = 4
  MaxLog = 0
  MaxEras = 1
  MaxCrashes = 0
SPECIFICATION Spec
CHECK_DEADLOCK FALSE
INVARIANTS
  StandaloneIsOffline
