SPECIFICATION FairSpec
CONSTANTS
  MaxSeq = 4
  MaxEvents = 1
  MaxFaults = 1
  PipeCap = 2
INVARIANTS
  TypeOK
  AcceptedIsPrefix
  AnswerIsGenuine
  CleanTeardownIsReal
PROPERTIES
  FaultIsTerminal
  ImplementsChannel
  HostNeverStuck
