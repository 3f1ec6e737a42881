SPECIFICATION Spec
CONSTANTS
  u1 = u1
  u2 = u2
  s1 = s1
  s2 = s2
  x1 = x1
  x2 = x2
  Users = {u1, u2}
  Migrated = {u1}
  Sessions = {s1, s2}
  Requests = {x1, x2}
  MaxTokens = 3
  None = None
SYMMETRY Alike
INVARIANTS
  LimitedUntilBound
  KeylessIsLimited
PROPERTY RevokedStaysRevoked
CHECK_DEADLOCK FALSE
