SPECIFICATION Spec
CONSTANTS
  Jobs <- MCJobs
  MaxDepth = 2
INVARIANTS ListIntact HeaderCoversCode
PROPERTIES PopRestores
CHECK_DEADLOCK FALSE
