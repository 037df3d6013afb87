SPECIFICATION Spec
CONSTANTS
  Member = {m1, m2, m3}
  Lead = {l1, l2}
  Seats = {1, 2}
  Request = {r1}
  None = None
SYMMETRY Symmetry
INVARIANTS
  ReportsAcyclic
PROPERTIES
  SeatsRespected
  DeactivationIsClean
  StayBelow
CHECK_DEADLOCK FALSE
