SPECIFICATION Spec
CONSTANTS
  Member = {m1, m2, m3}
  Lead = {l1}
  Seats = {3}
  Request = {r1, r2}
  None = None
SYMMETRY Symmetry
INVARIANT ReportsAcyclic
CHECK_DEADLOCK FALSE
