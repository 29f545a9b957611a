SPECIFICATION Spec
CONSTANTS
  Scenarios <- MCScenarios
  Codes = {"completed", "deadline_exceeded"}
  Steps = {"declared", "other"}
  Absent = Absent
  Partial = Partial
  MaxInvocations = 2
CHECK_DEADLOCK FALSE
INVARIANTS
  TypeOK
  VerdictsHold
