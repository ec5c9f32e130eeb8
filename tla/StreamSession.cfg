CONSTANTS
  Specs = {s1, s2}
  NoOne = NoOne
  QueueSize = 1
  Interval = 1
  MaxInterval = 3
  MaxSent = 3
  MaxFaults = 2
SPECIFICATION FairSpec
CHECK_DEADLOCK FALSE
INVARIANTS
  TypeOK
  NoSpecOutlivesSession
  AllHandledAtEnd
  EndsOnlyWhenCancelled
PROPERTIES
  CancelEnds
  DeadClientEnds
  ReaderProgress
