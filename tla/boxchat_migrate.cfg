SPECIFICATION Spec
CONSTANTS
  Accounts = {"ann", "bob", "cid"}
  NoAccount = NoAccount
  Registered = {"bob"}
  UserName <- MCUserName
  MailOf <- MCMailOf
  Rooms <- MCRooms
  TopicRoom <- MCTopicRoom
  Members <- MCMembers
  Messages <- MCMessages
  WithFile <- MCWithFile
  Avatars = {2}
  Reactions <- MCReactions
  Music <- MCMusic
  MaxTracks = 1
  Bans <- MCBans
  Batch = 2
  MaxRuns = 3
  MaxEdits = 2
INVARIANTS
  TypeOK
  ImportedOnce
  FinishedIsComplete
PROPERTIES
  RerunChangesNothing
  HandEditsStand
CHECK_DEADLOCK FALSE
