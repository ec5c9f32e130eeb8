CONSTANTS
  Routers = {r1, r2}
  MaxConns = 1
  MaxStarts = 1
  MaxFaults = 0
  StartWhileRunning = FALSE
SPECIFICATION Spec
CHECK_DEADLOCK FALSE
INVARIANT ShutdownClosesAll
