SPECIFICATION FixupsSpec
CONSTANTS
  MaxStmts = 3
  StoreTargets = {"end", "glob", "far"}
  LoFirst = FALSE
  Narrowing = FALSE
  FarAddress = 50
  TopRange = 2
  LowRange = 2
INVARIANTS StoredRegister
CHECK_DEADLOCK FALSE
