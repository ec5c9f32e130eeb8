CONSTANTS
  Routers = {r1, r2}
  MaxConns = 2
  MaxStarts = 1
  MaxFaults = 0
  StartWhileRunning = FALSE
SPECIFICATION FairSpec
CHECK_DEADLOCK FALSE
PROPERTY EveryRouterCollects
