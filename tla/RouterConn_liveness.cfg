CONSTANTS
  Procs = {p1, p2}
  MaxDials = 2
  Interval = 1
  MaxInterval = 3
  CallersSetDeadline = TRUE
SPECIFICATION FairSpec
PROPERTIES
  EveryCallReturns
  CancelledRetryEnds
