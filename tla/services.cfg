SPECIFICATION Spec
CONSTANTS
  m1 = m1
  r1 = r1
  u1 = u1
  t1 = t1
  t2 = t2
  t3 = t3
  l1 = l1
  l2 = l2
  q1 = q1
  q2 = q2
  s1 = s1
  s2 = s2
  w1 = w1
  w2 = w2
  w3 = w3
  None = None
SYMMETRY Symmetry
INVARIANTS
  TypeOK
  RepeatsExplained
  IdentityUsable
  StoredResolves
  FirstInWindow
  PipelineWhole
  AccessStands
  EndedStaysEnded
  FiltersMean
  WorkspaceWhole
  TimelineTellsTasks
PROPERTIES
  CopyKeepsTrees
CHECK_DEADLOCK FALSE
