SPECIFICATION Spec
CONSTANTS
  Scenarios <- MCScenarios
  Requested = {1, 2}
  Absent = Absent
  Partial = Partial
  MaxGates = 2
CHECK_DEADLOCK FALSE
INVARIANTS
  TypeOK
  TracesWhole
  LedgerIsEarned
PROPERTIES
  EquivalentMeansAlike
