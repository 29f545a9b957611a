SPECIFICATION Spec
CONSTANTS
  Scenarios <- MCScenarios
  Codes = {"completed", "deadline_exceeded"}
  Steps = {"declared"}
  Absent = Absent
  Partial = Partial
  MaxInvocations = 2
CHECK_DEADLOCK FALSE
INVARIANTS
  BothLanesExecuted
