SPECIFICATION Spec
CONSTANTS
  m1 = m1
  m2 = m2
  j1 = j1
  j2 = j2
  Instances = {m1, m2}
  Jobs = {j1, j2}
  Tool = "as64"
  MaxCalls = 2
SYMMETRY Symmetric
INVARIANTS
  TypeOK
  ReturnsOwnFile
  ReadyMeansRunnable
CHECK_DEADLOCK FALSE
