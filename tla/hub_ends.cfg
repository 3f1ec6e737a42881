SPECIFICATION FairSpec
CONSTANTS
  u1 = u1
  u2 = u2
  u3 = u3
  c1 = c1
  c2 = c2
  c3 = c3
  Users = {u1, u2}
  Conns = {c1, c3}
  UserOf <- TwoConns
  Chats = {chat}
  Rooms = {r1}
  Kinds = {"group"}
  Roles = {"publisher"}
  Streamers = {u1, u2}
  MeshLimit = 1
  MaxParticipants = 3
  Events = {"shutdown", "decline", "membership", "storeFails", "delete"}
  Server = Server
  None = None
INVARIANTS
  OverIsOver
PROPERTIES
  EndIsCarriedOut
CHECK_DEADLOCK FALSE
