SPECIFICATION Spec
CONSTANTS
  None = None
  MaxPages = 1
  MaxLoads = 2
  Tokens = {dialog}
  MaxWire = 1
  Clients = {a}
  Saved = {}
  MaxTimeouts = 1
  Handover = FALSE
CHECK_DEADLOCK FALSE
INVARIANTS
  TypeOK
  ProjectionFollows
  DecidedOnce
  PromptsFollow
  CrashIsReal
  ClickHitsItsDocument
