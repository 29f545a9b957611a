SPECIFICATION SpecAll
CONSTANTS
  Specs <- MCSpecs
  Absent = Absent
  Partial = Partial
  Raised = {"failed", "blocked"}
  MaxRuns = 2
  Digested = {"result"}
  MaxComparisons = 1
CHECK_DEADLOCK FALSE
INVARIANTS
  TypeOK
  ManifestVerifies
  CompleteIsPassed
  NothingAfterError
  PassedIsEarned
  TracesComplete
  ComparesWhatItDigests
