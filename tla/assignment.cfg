SPECIFICATION Spec
CONSTANTS
  a = a
  b = b
  None = None
  Member = {a, b}
  Rule = {1, 2}
  Setting <- Settings
  FirstRules <- Starting
  Group <- Groups
  Request = {r1, r2}
  MaxBatch = 2
  MaxChanges = 1
SYMMETRY Symmetry
INVARIANTS
  FairShare
  NobodyUnreachable
