SPECIFICATION Spec
CONSTANTS
  None = None
  MaxPages = 1
  MaxLoads = 2
  Tokens = {}
  MaxWire = 2
  Clients = {a}
  Saved = {}
  MaxTimeouts = 0
  Handover = FALSE
CHECK_DEADLOCK FALSE
PROPERTIES
  AwaitMeansFinished
