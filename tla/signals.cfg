SPECIFICATION Spec
CONSTANTS
  u1 = u1
  u2 = u2
  u3 = u3
  c1 = c1
  c2 = c2
  c3 = c3
  Users = {u1, u2}
  Conns = {c1, c2, c3}
  UserOf <- TwoUsers
  Kinds = {"tracks", "relay"}
  MaxFrames = 1
  MaxJoins = 3
  MaxQueued = 2
  None = None
INVARIANTS
  NothingBeforeJoined
  NoAnnouncementMissed
  NobodyStranded
SYMMETRY ConnSymmetry
CHECK_DEADLOCK FALSE
