CONSTANTS
  q1 = q1
  q2 = q2
  q3 = q3
  r1 = r1
  r2 = r2
  None = None
  Tokens = {1, 2}
  Requests = {q1, q2, q3}
  Subjects = {r1, r2}
  Settings <- MCSettings
SYMMETRY Symmetry
SPECIFICATION Spec
INVARIANTS BadgeTypeOK ActsWithinUses BadgeStaysWhole 
CHECK_DEADLOCK FALSE
