SPECIFICATION Spec
CONSTANTS
  None = None
  MaxPages = 1
  MaxLoads = 1
  Tokens = {}
  MaxWire = 2
  Clients = {a}
  Saved <- OneCheckpoint
  MaxTimeouts = 0
  Handover = FALSE
CHECK_DEADLOCK FALSE
PROPERTIES
  RestoredIsShown
