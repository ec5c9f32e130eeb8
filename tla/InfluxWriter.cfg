SPECIFICATION FairSpec
CONSTANTS
  Writers = {w1, w2}
  Loop = Loop
  Main = Main
  NoOne = NoOne
  BatchSize = 2
  Refused = {6}
  MaxPoints = 8
  MaxFaults = 4
INVARIANTS TypeOK NothingLost BufferBounded
PROPERTIES ImplementsPointLog EverythingStored CloseReturns
CHECK_DEADLOCK FALSE
