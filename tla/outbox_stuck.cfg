SPECIFICATION Spec
CONSTANTS
  Event = {e1}
  Worker = {w1, w2}
  BatchLimit = 1
  DeadAfter = 2
  RaiseCap = 2
  MaxRedrives = 1
  MaxCrashes = 1
SYMMETRY Symmetry
INVARIANT AlwaysReclaimable
CHECK_DEADLOCK FALSE
