SPECIFICATION FairSpec
CONSTANTS
  Clients = {a, b}
  None = None
  Urls = {plain, prompts}
  PromptUrl = prompts
  Tokens = {dialog}
  Blank = blank
  Deadlines = {7}
  MaxMoves = 2
  MaxSessions = 2
  MaxCheckpoints = 1
INVARIANTS
  TypeOK
  NeverOverdue
  NavigationOrder
  StopIsFinal
  LoadingIsDriven
  GenerationNamesDocument
PROPERTIES
  HandoverOnlyByRelease
  AwaitEnds
