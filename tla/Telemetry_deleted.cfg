SPECIFICATION Spec
CONSTANTS
  FlowSets <- Secrets
  Ids = {i1, i2}
  Names = {n1, n2}
  None = None
  MaxChanges = 2
  MaxFaults = 0
INVARIANT InactiveUsersExist
CHECK_DEADLOCK FALSE
