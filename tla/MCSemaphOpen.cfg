SPECIFICATION Spec
CONSTANTS
  Proc = {p1, p2, p3}
  Openers = {p3}
  initval = 1
  MaxSets = 2
  MaxExits = 0
INVARIANT ExclusiveUse
CHECK_DEADLOCK FALSE
