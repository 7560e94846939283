SPECIFICATION MCSpec
CONSTANTS
  Objects <- Inputs
  Known = {1, 2, 3}
  ARCH_SIZE = 32
  MaxInputs = 6
  Linkers <- MCLinkers
  GotAddr <- MCGotAddr
  Space = 128
  R = 8
INVARIANTS MergedIsUnion OneAbi PairGivesAddress AllApplied RoomSuffices RunTimeRight
