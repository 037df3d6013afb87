SPECIFICATION FairSpec
CONSTANTS
  e1 = e1
  e2 = e2
  w1 = w1
  r1 = r1
  m1 = m1
  f1 = f1
  f2 = f2
  q1 = q1
  q2 = q2
  None = None
INVARIANTS TypeOK RowsDescribeIndexes
PROPERTIES EventuallySettled DueIsMailed PendingSettles LockoutEnds
CHECK_DEADLOCK FALSE
