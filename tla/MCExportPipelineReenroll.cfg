CONSTANTS
  Owners = {a, b}
  Standalone = standalone
  Kinds <- MCEventsOnly
  Handlers = {h1}
  Histories <- MCNoHistory
  Reenroll = TRUE
  ReadLimit = 4
  MaxLog = 2
  MaxEras = 2
  MaxCrashes = 0
SPECIFICATION Spec
CHECK_DEADLOCK FALSE
INVARIANTS
  NothingLeftBehind
