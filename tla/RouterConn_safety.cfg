CONSTANTS
  Procs = {p1, p2, p3}
  MaxDials = 2
  Interval = 1
  MaxInterval = 3
  CallersSetDeadline = TRUE
SPECIFICATION Spec
SYMMETRY ProcSymmetry
INVARIANTS
  TypeOK
  NoSocketLeak
  StateMatchesClient
  CommandKeepsItsClient
  WaitsEnd
PROPERTIES
  AsyncOnlyWhenQuiet
  ImplementsSingleLink
