CONSTANTS
  Routers = {r1}
  MaxConns = 2
  MaxStarts = 2
  MaxFaults = 1
  StartWhileRunning = FALSE
SPECIFICATION FairSpec
CHECK_DEADLOCK FALSE
PROPERTIES
  StopReturns
  CancelledCollectorEnds
  KeepsCollecting
