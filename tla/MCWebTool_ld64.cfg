SPECIFICATION LiveSpec
CONSTANTS
  m1 = m1
  m2 = m2
  j1 = j1
  j2 = j2
  Instances = {m1, m2}
  Jobs = {j1, j2}
  Tool = "ld64"
  MaxCalls = 1
PROPERTY PostponedRunHappens
CHECK_DEADLOCK FALSE
