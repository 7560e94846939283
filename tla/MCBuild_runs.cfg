SPECIFICATION Spec
CONSTANTS
  CommandLines <- AllLines
  Trees <- AllTrees
  Env <- Provided
  MaxRuns = 3
INVARIANTS
  ExitZeroIsFresh
  NoStaleStamp
  OwnFiles
CHECK_DEADLOCK FALSE
