SPECIFICATION Spec
CONSTANTS
  FlowSets <- Pairs
  Ids = {i1}
  Names = {n1, n2}
  None = None
  MaxChanges = 2
  MaxFaults = 1
INVARIANTS TypeOK SnapshotsCurrent RemovedForgotten EventsWellFormed 
PROPERTY ImplementsEntityCache
CHECK_DEADLOCK FALSE
