SPECIFICATION Spec
CONSTANTS
  u1 = u1
  u2 = u2
  u3 = u3
  c1 = c1
  c2 = c2
  c3 = c3
  Users = {u1, u2, u3}
  Conns = {c1, c2, c3}
  UserOf <- ThreeUsers
  Chats = {chat}
  Rooms = {r1}
  Kinds = {"broadcast"}
  Roles = {"publisher", "subscriber"}
  Streamers = {u1, u2}
  MeshLimit = 1
  MaxParticipants = 2
  Events = {"shutdown"}
  Server = Server
  None = None
INVARIANTS
  NoOrphanRoom
  StreamDiscipline
CHECK_DEADLOCK FALSE
