\* Three users and two requests at a time in one chat of each kind.
CONSTANTS
  u1 = u1
  u2 = u2
  u3 = u3
  x1 = x1
  x2 = x2
  Nobody = Nobody
  Users = {u1, u2, u3}
  Requests = {x1, x2}
SPECIFICATION Spec
CONSTRAINT StillInOrder
SYMMETRY Alike
INVARIANTS TypeOK OwnerKept SoleOwner
PROPERTIES BanHolds
CHECK_DEADLOCK FALSE
