SPECIFICATION Spec
CONSTANTS
  Event = {e1}
  Worker = {w1, w2}
  BatchLimit = 1
  DeadAfter = 2
  RaiseCap = 2
  MaxRedrives = 0
  MaxCrashes = 1
SYMMETRY Symmetry
INVARIANT RetryHasBudget
CHECK_DEADLOCK FALSE
