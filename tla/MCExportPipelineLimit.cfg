CONSTANTS
  Owners = {a}
  Standalone = standalone
  Kinds <- MCEventsOnly
  Handlers = {h1}
  Histories <- MCNoHistory
  Reenroll = FALSE
  ReadLimit = 2
  MaxLog = 3
  MaxEras = 1
  MaxCrashes = 0
SPECIFICATION FairSpec
CHECK_DEADLOCK FALSE
PROPERTIES
  EventsUploaded
