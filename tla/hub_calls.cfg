SPECIFICATION Spec
CONSTANTS
  u1 = u1
  u2 = u2
  u3 = u3
  c1 = c1
  c2 = c2
  c3 = c3
  Users = {u1, u2}
  Conns = {c1, c2, c3}
  UserOf <- TwoUsers
  Chats = {chat}
  Rooms = {r1, r2}
  Kinds = {"group"}
  Roles = {"publisher"}
  Streamers = {u1}
  MeshLimit = 1
  MaxParticipants = 2
  Events = {}
  Server = Server
  None = None
INVARIANTS
  TypeOK
  OneLiveCallPerChat
  SlotsBacked
  WithinLimits
PROPERTIES
  StaleConnectionHarmless
  ImplementsLifecycle
SYMMETRY RoomSymmetry
CHECK_DEADLOCK FALSE
