CONSTANTS
  Owners = {a}
  Standalone = standalone
  Kinds <- MCEventsOnly
  Handlers = {h1}
  Histories <- MCNoHistory
  Reenroll = FALSE
  ReadLimit = 3
  MaxLog = 3
  MaxEras = 1
  MaxCrashes = 1
SPECIFICATION FairSpec
CHECK_DEADLOCK FALSE
PROPERTIES
  EventsUploaded
