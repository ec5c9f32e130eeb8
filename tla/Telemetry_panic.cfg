SPECIFICATION Spec
CONSTANTS
  FlowSets <- Sessions
  Ids = {i1, i2}
  Names = {n1, n2}
  None = None
  MaxChanges = 1
  MaxFaults = 0
INVARIANT NoPanic
CHECK_DEADLOCK FALSE
