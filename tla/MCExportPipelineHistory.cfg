CONSTANTS
  Owners = {a}
  Standalone = standalone
  Kinds <- MCEventsOnly
  Handlers = {h1}
  Histories <- MCHistory
  Reenroll = FALSE
  ReadLimit = 4
  MaxLog = 2
  MaxEras = 1
  MaxCrashes = 0
SPECIFICATION Spec
CHECK_DEADLOCK FALSE
INVARIANTS
  HistoryCovered
