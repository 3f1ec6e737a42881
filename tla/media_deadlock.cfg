SPECIFICATION FairSpec
CONSTANTS
  u1 = u1
  u2 = u2
  Users = {u1, u2}
  Speakers = {u1}
  MeshLimit = 1
  MaxPeers = 2
  MaxTracks = 1
  MaxJoins = 1
  MaxOffers <- OneOffer
  MaxFailures = 1
  Events = {}
  Server = Server
  None = None
PROPERTIES
  OffersAreAnswered
CHECK_DEADLOCK FALSE
