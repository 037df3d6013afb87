SPECIFICATION Spec
CONSTANTS
  email = email
  note = note
  x = x
  y = y
  z = z
  p = p
  fresh = fresh
  won = won
  lost = lost
  old = old
  m1 = m1
  m2 = m2
  price = price
  None = None
  Lead = {l1, l2}
  Field = {email, note}
  IdentityField = email
  Identity = {x, y, z}
  Stage = {fresh, won, lost, old}
  InitialStage = fresh
  LostStage = {lost}
  ClosedStage = {won, lost}
  ArchivedStage = {old}
  Member = {m1, m2}
  Viewers <- Admins
  DefaultReason = price
  Patch <- SerialPatches
  Score = {1}
  Request = {r1}
  MaxChangesets = 5
SYMMETRY Symmetry
INVARIANTS
  ValuesMatchTimeline
  ScoreIsRollup
  UndoneOnce
  ReasonFollowsEdits
PROPERTIES
  UndoIsExact
  BatchFullyUndone
CHECK_DEADLOCK FALSE
