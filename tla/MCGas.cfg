SPECIFICATION MCSpec
CONSTANTS
  FragSets <- MCFragSets
  RvcBranch = 16
  RvcJump = 24
  Branch = 32
  MaxStmts = 3
  StoreTargets = {"glob", "far"}
  LoFirst = FALSE
  Narrowing = FALSE
  FarAddress = 50
  TopRange = 2
  LowRange = 2
INVARIANTS BranchArrives PadsHold RightValue PairAddresses
PROPERTIES Terminates
CHECK_DEADLOCK FALSE
