SPECIFICATION BatchSpec
CONSTANTS
  Event = {e1}
  Worker = {w1, w2}
  BatchLimit = 1
  DeadAfter = 3
  RaiseCap = 3
  MaxRedrives = 2
  MaxCrashes = 1
  None = None
  i1 = i1
  v = v
  Bad = Bad
  Odd = Odd
  a = a
  b = b
  j1 = j1
SYMMETRY Symmetry
INVARIANTS
  TypeOK
  DeliveredWasAccepted
  DeadWasTried
  OneDeliveryUnlessTakenOver
  ReclaimableUnlessTakenOver
  EvenSplit
PROPERTIES
  ImplementsContract
  PreviewForetells
CHECK_DEADLOCK FALSE
