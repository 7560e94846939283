SPECIFICATION MCSpec
CONSTANTS
  m1 = m1
  m2 = m2
  j1 = j1
  j2 = j2
  Instances = {m1, m2}
  Jobs = {j1, j2}
  Tool = "ld32"
  MaxCalls = 2
SYMMETRY Symmetric
INVARIANTS MainNeedsInstance ListingInTables LibraryNames
CHECK_DEADLOCK FALSE
