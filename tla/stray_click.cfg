SPECIFICATION Spec
CONSTANTS
  None = None
  MaxPages = 2
  MaxLoads = 1
  Tokens = {}
  MaxWire = 2
  Clients = {a}
  Saved = {}
  MaxTimeouts = 0
  Handover = FALSE
CHECK_DEADLOCK FALSE
INVARIANTS
  NoStrayClick
