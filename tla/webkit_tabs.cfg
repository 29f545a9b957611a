SPECIFICATION Spec
CONSTANTS
  None = None
  MaxPages = 2
  MaxLoads = 1
  Tokens = {dialog}
  MaxWire = 2
  Clients = {a}
  Saved <- OneCheckpoint
  MaxTimeouts = 0
  Handover = TRUE
CHECK_DEADLOCK FALSE
INVARIANTS
  ProjectionFollows
  PagesAgree
