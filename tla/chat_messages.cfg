\* Two users and two requests at a time, two messages at most, in one chat of each kind.
CONSTANTS
  u1 = u1
  u2 = u2
  x1 = x1
  x2 = x2
  Nobody = Nobody
  Users = {u1, u2}
  Requests = {x1, x2}
  MaxMessages = 2
  MaxOps = 2
SPECIFICATION Spec
CONSTRAINT StillInOrder
SYMMETRY Alike
INVARIANTS TypeOK EditWhole ReceiptsAgree
PROPERTIES EntitledToPost NothingComesBack BallotStands
CHECK_DEADLOCK FALSE
