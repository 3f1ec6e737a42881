SPECIFICATION Spec
CONSTANTS
  u1 = u1
  u2 = u2
  Users = {u1, u2}
  Speakers = {u1}
  MeshLimit = 1
  MaxPeers = 2
  MaxTracks = 1
  MaxJoins = 2
  MaxOffers <- OneOffer
  MaxFailures = 1
  Events = {"leaves", "breaks", "stops", "iceFails", "shutdown"}
  Server = Server
  None = None
CONSTRAINT Rarely
INVARIANTS
  NoLostPeer
  EveryoneHears
  ClosedPeersAreSilent
CHECK_DEADLOCK FALSE
