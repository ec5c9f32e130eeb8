CONSTANTS
  Routers = {r1}
  MaxConns = 2
  MaxStarts = 2
  MaxFaults = 1
  StartWhileRunning = TRUE
SPECIFICATION Spec
CHECK_DEADLOCK FALSE
INVARIANTS
  TypeOK
  StoppedIsQuiet
  ExclusiveStream
  StreamsOnItsOwn
PROPERTY RemovalStops
