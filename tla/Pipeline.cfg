SPECIFICATION FairSpec
CONSTANTS
  Specs = {s1, s2}
  QueueSize = 1
  Interval = 1
  MaxInterval = 1
  Loop = Loop
  Main = Main
  NoOne = NoOne
  BatchSize = 2
  Refused = {}
  Monitor = Monitor
  Callers = {c}
  Patient = {c}
  MaxEvents = 3
INVARIANT ExitPersists
PROPERTIES ImplementsWriter ShutdownCompletes CommandsReturn
CHECK_DEADLOCK FALSE
