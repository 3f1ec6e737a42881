------------------------- MODULE BoxchatMigrateProofs -------------------------
(***************************************************************************)
(* Proofs about the import: whatever the legacy data, the batch size, the  *)
(* runs, the stops and the edits in between, nothing is imported twice,    *)
(* what people wrote or decided in a topic is left alone, a run that comes *)
(* to its end has brought everything over, and the next finds nothing to   *)
(* do.                                                                     *)
(*                                                                         *)
(* MigrateInv is the ledger of rows; TypesInv says that what is referred   *)
(* to is there; CompleteInv says what has been brought by the time the     *)
(* import is past a phase, or past a job of it; SettledInv adds what an    *)
(* undisturbed run leaves behind, and what holds after it.                 *)
(***************************************************************************)
EXTENDS BoxchatMigrate, FiniteSetTheorems, WellFoundedInduction, TLAPS

\* The rows and their entries in legacy_id_map, and that a message with a
\* text is one of them: applyMessages writes no text twice.
Ledger ==
  /\ rows \in [Items -> Nat]
  /\ idmap \subseteq Items
  /\ ImportedOnce

TextsImported == \A m \in MessageIds : text[m] # "none" => <<"message", m>> \in idmap

MigrateInv == Ledger /\ TextsImported /\ DOMAIN text = MessageIds

-----------------------------------------------------------------------------
\* FirstOf, which picks the jobs of a batch, picks among what is to be done.
LEMMA FirstOfSubset == ASSUME NEW S, NEW n PROVE FirstOf(S, n) \subseteq S
BY DEF FirstOf

\* A batch that makes rows for items that have none keeps the ledger.
LEMMA CreateKeepsLedger ==
  ASSUME Ledger, NEW S, S \subseteq Items, S \cap idmap = {}, Create(S)
  PROVE  Ledger' /\ idmap \subseteq idmap'
<1>1. rows' \in [Items -> Nat] /\ idmap' \subseteq Items /\ idmap \subseteq idmap'
  BY DEF Ledger, Create
<1>2. ASSUME NEW i \in Items PROVE rows'[i] = IF i \in idmap' THEN 1 ELSE 0
  BY <1>2 DEF Ledger, ImportedOnce, Create
<1> QED BY <1>1, <1>2 DEF Ledger, ImportedOnce

\* A step that makes no row keeps it too.
LEMMA NoRowKeepsLedger == ASSUME Ledger, UNCHANGED itemVars PROVE Ledger' /\ idmap \subseteq idmap'
BY DEF Ledger, ImportedOnce, itemVars

\* Where texts stay and entries stay, texts belong to entries.
LEMMA SameTexts ==
  ASSUME TextsImported, DOMAIN text = MessageIds, idmap \subseteq idmap', UNCHANGED text
  PROVE  TextsImported' /\ DOMAIN text' = MessageIds
BY DEF TextsImported

-----------------------------------------------------------------------------
(* The steps that make rows. *)

LEMMA RoomsKeep == ASSUME MigrateInv, ApplyRooms PROVE MigrateInv'
<1> DEFINE todo == {r \in DOMAIN Rooms : <<"room", r>> \notin idmap}
           new == {<<"room", r>> : r \in FirstOf(todo, Batch)}
<1>1. FirstOf(todo, Batch) \subseteq todo
  BY FirstOfSubset
<1>2. new \subseteq Items /\ new \cap idmap = {}
  BY <1>1 DEF Items, Chats, RoomIds
<1>3. Create(new) /\ UNCHANGED text
  BY DEF ApplyRooms, messageVars
<1>4. Ledger' /\ idmap \subseteq idmap'
  BY <1>2, <1>3, CreateKeepsLedger DEF MigrateInv
<1> QED BY <1>3, <1>4, SameTexts DEF MigrateInv

LEMMA TopicsKeep == ASSUME MigrateInv, ApplyTopics PROVE MigrateInv'
<1> DEFINE now == {t \in Cut(Len(TopicRoom)) : /\ <<"channel", t>> \notin idmap
                                               /\ <<"room", TopicRoom[t]>> \in idmap}
           new == {<<"channel", t>> : t \in now}
<1>1. Create(new) /\ UNCHANGED text
  BY DEF ApplyTopics, messageVars
<1>2. new \cap idmap = {}
  OBVIOUS
<1>3. now \subseteq DOMAIN TopicRoom
  BY MigrateAssumption DEF Cut
<1>4. new \subseteq Items
  BY <1>3 DEF Items, Chats, TopicIds
<1>5. Ledger' /\ idmap \subseteq idmap'
  BY <1>1, <1>2, <1>4, CreateKeepsLedger DEF MigrateInv
<1> QED BY <1>1, <1>5, SameTexts DEF MigrateInv

\* A text is written where the message was not imported before.
LEMMA MessagesKeep == ASSUME MigrateInv, ApplyMessages PROVE MigrateInv'
<1> DEFINE now == {m \in Cut(Len(Messages)) : /\ <<"message", m>> \notin idmap
                                              /\ userMap[Messages[m].user] # NoAccount
                                              /\ Messages[m].chat \in idmap}
           new == {<<"message", m>> : m \in now}
<1>1. /\ Create(new)
      /\ text' = [m \in MessageIds |-> IF m \in now THEN Messages[m].text ELSE text[m]]
  BY DEF ApplyMessages
<1>2. new \cap idmap = {}
  OBVIOUS
<1>3. now \subseteq MessageIds
  BY MigrateAssumption DEF Cut, MessageIds
<1>4. new \subseteq Items
  BY <1>3 DEF Items
<1>5. Ledger' /\ idmap \subseteq idmap'
  BY <1>1, <1>2, <1>4, CreateKeepsLedger DEF MigrateInv
<1>6. ASSUME NEW m \in MessageIds, text'[m] # "none" PROVE <<"message", m>> \in idmap'
  <2>1. CASE m \in now
    BY <1>1, <2>1 DEF Create
  <2>2. CASE m \notin now
    BY <1>1, <1>5, <1>6, <2>2 DEF MigrateInv, TextsImported
  <2> QED BY <2>1, <2>2
<1> QED BY <1>1, <1>5, <1>6 DEF MigrateInv, TextsImported

LEMMA AttachmentsKeep == ASSUME MigrateInv, ApplyAttachments PROVE MigrateInv'
<1> DEFINE now == {WithFile[i] : i \in FilesNow}
           new == {<<"attachment", m>> : m \in now}
<1>1. Create(new) /\ UNCHANGED text
  BY DEF ApplyAttachments
<1>2. FilesNow \subseteq DOMAIN WithFile
  BY MigrateAssumption DEF FilesNow, Cut
<1>3. now \subseteq MessageIds
  BY <1>2, MigrateAssumption
<1>4. new \subseteq Items /\ new \cap idmap = {}
  BY <1>3 DEF FilesNow, Items
<1>5. Ledger' /\ idmap \subseteq idmap'
  BY <1>1, <1>4, CreateKeepsLedger DEF MigrateInv
<1> QED BY <1>1, <1>5, SameTexts DEF MigrateInv

-----------------------------------------------------------------------------
(* The steps that write texts and make no row, and all others. *)

LEMMA TextsRewritten ==
  ASSUME MigrateInv, UNCHANGED itemVars, DOMAIN text' = MessageIds,
         \A m \in MessageIds : text[m] = "none" => text'[m] = "none"
  PROVE  MigrateInv'
BY NoRowKeepsLedger DEF MigrateInv, TextsImported

LEMMA PlaceholdersKeep == ASSUME MigrateInv, ApplyPlaceholders PROVE MigrateInv'
<1>1. UNCHANGED itemVars /\ DOMAIN text' = MessageIds
  BY DEF ApplyPlaceholders
<1>2. \A m \in MessageIds : text[m] = "none" => text'[m] = "none"
  BY DEF ApplyPlaceholders
<1> QED BY <1>1, <1>2, TextsRewritten

LEMMA EditKeeps == ASSUME MigrateInv, NEW m \in MessageIds, NEW keeps, NEW names,
                       EditsMessage(m, keeps, names)
                PROVE  MigrateInv'
<1>1. UNCHANGED itemVars /\ text' = [text EXCEPT ![m] = "edited"] /\ text[m] # "none"
  BY DEF EditsMessage
<1>2. DOMAIN text' = MessageIds
  BY <1>1 DEF MigrateInv
<1>3. \A k \in MessageIds : text[k] = "none" => text'[k] = "none"
  BY <1>1 DEF MigrateInv
<1> QED BY <1>1, <1>2, <1>3, TextsRewritten

LEMMA NothingKept == ASSUME MigrateInv, UNCHANGED <<itemVars, text>> PROVE MigrateInv'
BY NoRowKeepsLedger, SameTexts DEF MigrateInv

\* What an import step other than these leaves alone.
LEMMA OtherSteps ==
  ASSUME \/ ApplyUsers \/ ApplyDups \/ ApplyMembers \/ ApplyTopicMembers \/ ApplyReplies
         \/ PutAvatar \/ NameAvatar \/ ApplyAvatarHistory \/ ApplyReactions
         \/ PutTracks \/ WriteTracks \/ ApplyBans \/ Finish \/ Start \/ Stop \/ StopAmongUploads
  PROVE  UNCHANGED <<itemVars, text>>
<1>1. CASE ApplyUsers \/ ApplyDups \/ ApplyMembers \/ ApplyTopicMembers \/ ApplyReplies
  BY <1>1 DEF ApplyUsers, ApplyDups, ApplyMembers, ApplyTopicMembers, ApplyReplies, messageVars
<1>2. CASE PutAvatar \/ NameAvatar \/ ApplyAvatarHistory \/ ApplyReactions
  BY <1>2 DEF PutAvatar, NameAvatar, ApplyAvatarHistory, ApplyReactions, messageVars, dbVars
<1>3. CASE PutTracks \/ WriteTracks \/ ApplyBans \/ Finish
  BY <1>3 DEF PutTracks, WriteTracks, ApplyBans, Finish, messageVars, dbVars
<1>4. CASE Start \/ Stop \/ StopAmongUploads
  BY <1>4 DEF Start, Stop, StopAmongUploads, messageVars, dbVars
<1> QED BY <1>1, <1>2, <1>3, <1>4

LEMMA ApplicationKeeps == ASSUME MigrateInv, Application PROVE MigrateInv'
<1>1. CASE \E n \in Accounts : \/ Registers(n) \/ ChoosesAvatar(n) \/ SavesTrack(n)
                               \/ \E t \in Tracks \cup {Own} : DropsTrack(n, t)
  BY <1>1, NothingKept DEF Registers, ChoosesAvatar, SavesTrack, DropsTrack, messageVars
<1>2. CASE \E s \in Seats, r \in {"admin", "member", "none"} : SetsRole(s, r)
  BY <1>2, NothingKept DEF SetsRole, messageVars
<1>3. CASE \E m \in MessageIds, keeps, names \in BOOLEAN : EditsMessage(m, keeps, names)
  BY <1>3, EditKeeps
<1>4. CASE \E s \in MessageIds \X Accounts : Reacts(s)
  BY <1>4, NothingKept DEF Reacts, messageVars
<1> QED BY <1>1, <1>2, <1>3, <1>4 DEF Application

LEMMA NextKeeps == ASSUME MigrateInv, [Next]_vars PROVE MigrateInv'
<1>1. CASE ApplyRooms \/ ApplyTopics \/ ApplyMessages \/ ApplyAttachments \/ ApplyPlaceholders
  BY <1>1, RoomsKeep, TopicsKeep, MessagesKeep, AttachmentsKeep, PlaceholdersKeep
<1>2. CASE Application
  BY <1>2, ApplicationKeeps
<1>3. CASE UNCHANGED vars
  BY <1>3, NothingKept DEF vars, dbVars, messageVars
<1>4. CASE Start \/ Stop \/ StopAmongUploads
  BY <1>4, OtherSteps, NothingKept
<1>5. CASE RunApply
  BY <1>5, <1>1, OtherSteps, NothingKept DEF RunApply
<1> QED BY <1>2, <1>3, <1>4, <1>5 DEF Next

LEMMA InitKeeps == ASSUME Init PROVE MigrateInv
<1>1. Ledger
  BY DEF Init, Ledger, ImportedOnce
<1>2. TextsImported /\ DOMAIN text = MessageIds
  BY DEF Init, TextsImported
<1> QED BY <1>1, <1>2 DEF MigrateInv

\* Nothing legacy has two rows, and what has a row is in legacy_id_map,
\* through every stop and every run again: applyUsers to applyAttachments,
\* whose transactions hold both.
THEOREM NothingTwice == Spec => []ImportedOnce
<1>1. Init => MigrateInv
  BY InitKeeps
<1>2. MigrateInv /\ [Next]_vars => MigrateInv'
  BY NextKeeps
<1>3. MigrateInv => ImportedOnce
  BY DEF MigrateInv, Ledger
<1> QED BY <1>1, <1>2, <1>3, PTL DEF Spec

-----------------------------------------------------------------------------
(* What people did stands. *)

\* A step of the import, or none, is told from a change by the application
\* by the count of these.
LEMMA EditsCounted == ASSUME edits \in Nat, [Next]_vars PROVE edits' \in Nat
<1>1. CASE Application
  <2>1. edits' = edits + 1
    BY <1>1 DEF Application, Registers, ChoosesAvatar, SavesTrack, DropsTrack,
                SetsRole, EditsMessage, Reacts, Edits
  <2> QED BY <2>1
<1>2. CASE Start \/ Stop \/ StopAmongUploads
  BY <1>2 DEF Start, Stop, StopAmongUploads, ghostVars
<1>3. CASE RunApply
  BY <1>3 DEF RunApply, ApplyUsers, ApplyDups, ApplyRooms, ApplyTopics, ApplyMembers,
     ApplyTopicMembers, ApplyMessages, ApplyReplies, ApplyAttachments, ApplyPlaceholders,
     PutAvatar, NameAvatar, ApplyAvatarHistory, ApplyReactions, PutTracks, WriteTracks,
     ApplyBans, Finish, InPhase, Carries, ghostVars
<1>4. CASE UNCHANGED vars
  BY <1>4 DEF vars, ghostVars
<1> QED BY <1>1, <1>2, <1>3, <1>4 DEF Next

LEMMA ApplicationCounts ==
  ASSUME edits \in Nat, Application PROVE edits' # edits
<1>1. edits' = edits + 1
  BY DEF Application, Registers, ChoosesAvatar, SavesTrack, DropsTrack,
         SetsRole, EditsMessage, Reacts, Edits
<1> QED BY <1>1

\* Somebody's role in a topic, and a text written anew.
TopicRolesStand == \A s \in TopicIds \X Accounts : role[s] # "none" => role'[s] = role[s]
EditedStand == \A m \in MessageIds : text[m] = "edited" => text'[m] = "edited"

\* applyMembers gives roles in rooms alone.
LEMMA MembersSpareTopics == ASSUME ApplyMembers PROVE TopicRolesStand /\ EditedStand
<1>1. ASSUME NEW s \in TopicIds \X Accounts PROVE role'[s] = role[s]
  <2>1. s \in Seats
    BY DEF Seats, Chats
  <2>2. ASSUME NEW i PROVE SeatOf(Members[i]) # s
    BY DEF SeatOf, TopicIds
  <2> QED BY <2>1, <2>2 DEF ApplyMembers
<1>2. UNCHANGED text
  BY DEF ApplyMembers, messageVars
<1> QED BY <1>1, <1>2 DEF TopicRolesStand, EditedStand

\* applyTopicMembers gives one to those who have none.
LEMMA TopicMembersStand == ASSUME ApplyTopicMembers PROVE TopicRolesStand /\ EditedStand
<1>1. ASSUME NEW s \in TopicIds \X Accounts, role[s] # "none" PROVE role'[s] = role[s]
  <2>1. s \in Seats
    BY DEF Seats, Chats
  <2>2. PICK t \in DOMAIN TopicRoom, n \in Accounts : s = <<<<"channel", t>>, n>>
    BY DEF TopicIds
  <2>3. s[1][2] = t /\ s[2] = n
    BY <2>2
  <2>4. TopicRole(t, n) = role[s]
    BY <1>1, <2>2 DEF TopicRole
  <2> QED BY <2>1, <2>3, <2>4 DEF ApplyTopicMembers
<1>2. UNCHANGED text
  BY DEF ApplyTopicMembers, messageVars
<1> QED BY <1>1, <1>2 DEF TopicRolesStand, EditedStand

\* applyMessages writes the text of what was not there, applyBrokenPlaceholders
\* where there is none.
LEMMA TextsStand ==
  ASSUME MigrateInv, ApplyMessages \/ ApplyPlaceholders PROVE TopicRolesStand /\ EditedStand
<1>1. UNCHANGED role
  BY DEF ApplyMessages, ApplyPlaceholders
<1>2. CASE ApplyMessages
  <2>1. ASSUME NEW m \in MessageIds, text[m] = "edited" PROVE text'[m] = "edited"
    <3>1. <<"message", m>> \in idmap
      BY <2>1 DEF MigrateInv, TextsImported
    <3> QED BY <1>2, <2>1, <3>1 DEF ApplyMessages
  <2> QED BY <1>1, <2>1 DEF TopicRolesStand, EditedStand
<1>3. CASE ApplyPlaceholders
  BY <1>1, <1>3 DEF ApplyPlaceholders, TopicRolesStand, EditedStand
<1> QED BY <1>2, <1>3

LEMMA NothingWritten ==
  ASSUME UNCHANGED <<role, text>> PROVE TopicRolesStand /\ EditedStand
BY DEF TopicRolesStand, EditedStand

LEMMA ImportSpares == ASSUME MigrateInv, RunApply PROVE TopicRolesStand /\ EditedStand
<1>1. CASE ApplyMembers \/ ApplyTopicMembers
  BY <1>1, MembersSpareTopics, TopicMembersStand
<1>2. CASE ApplyMessages \/ ApplyPlaceholders
  BY <1>2, TextsStand
<1>3. CASE ApplyUsers \/ ApplyDups \/ ApplyRooms \/ ApplyTopics \/ ApplyReplies \/ ApplyAttachments
  BY <1>3, NothingWritten DEF ApplyUsers, ApplyDups, ApplyRooms, ApplyTopics, ApplyReplies,
     ApplyAttachments, messageVars
<1>4. CASE PutAvatar \/ NameAvatar \/ ApplyAvatarHistory \/ ApplyReactions
  BY <1>4, NothingWritten DEF PutAvatar, NameAvatar, ApplyAvatarHistory, ApplyReactions,
     messageVars, dbVars
<1>5. CASE PutTracks \/ WriteTracks \/ ApplyBans \/ Finish
  BY <1>5, NothingWritten DEF PutTracks, WriteTracks, ApplyBans, Finish, messageVars, dbVars
<1> QED BY <1>1, <1>2, <1>3, <1>4, <1>5 DEF RunApply

\* No run of the import changes the role a topic gives someone, or a text
\* that was written anew: applyMembers, applyTopicMembers, applyMessages and
\* applyBrokenPlaceholders, on whatever the application left there.
THEOREM EditsStand == Spec => HandEditsStand
<1>1. Init => MigrateInv /\ edits \in Nat
  BY InitKeeps DEF Init
<1>2. MigrateInv /\ edits \in Nat /\ [Next]_vars => (MigrateInv /\ edits \in Nat)'
  BY NextKeeps, EditsCounted
<1>3. MigrateInv /\ edits \in Nat /\ [Next]_vars =>
        [edits' = edits => TopicRolesStand /\ EditedStand]_vars
  <2> SUFFICES ASSUME MigrateInv, edits \in Nat, Next, edits' = edits
               PROVE  TopicRolesStand /\ EditedStand
    OBVIOUS
  <2>1. CASE RunApply
    BY <2>1, ImportSpares
  <2>2. CASE Start \/ Stop \/ StopAmongUploads
    BY <2>2, NothingWritten DEF Start, Stop, StopAmongUploads, dbVars, messageVars
  <2>3. CASE Application
    BY <2>3, ApplicationCounts
  <2> QED BY <2>1, <2>2, <2>3 DEF Next
<1>4. QED
  <2>1. (edits' = edits => TopicRolesStand /\ EditedStand) <=>
        (edits' = edits =>
           /\ \A s \in TopicIds \X Accounts : role[s] # "none" => role'[s] = role[s]
           /\ \A m \in MessageIds : text[m] = "edited" => text'[m] = "edited")
    BY DEF TopicRolesStand, EditedStand
  <2> QED BY <1>1, <1>2, <1>3, <2>1, PTL DEF Spec, HandEditsStand
-----------------------------------------------------------------------------
\* How far the import is: past a phase, or past the i-th job of it.
PastHistory == {"reactions", "tracks", "bans", "summary", "done"}
PastPlaceholders == PastHistory \cup {"avatars", "history"}
PastAttachments == PastPlaceholders \cup {"placeholders"}
PastReplies == PastAttachments \cup {"attachments"}
PastMessages == PastReplies \cup {"replies"}
PastTopicMembers == PastMessages \cup {"messages"}
PastMembers == PastTopicMembers \cup {"topicMembers"}
PastTopics == PastMembers \cup {"members"}
PastRooms == PastTopics \cup {"topics"}
PastDups == PastRooms \cup {"rooms"}
PastUsers == PastDups \cup {"dups"}
Through(past, p, i) == phase \in past \/ (phase = p /\ i <= pos)

\* A seat that was filled, and may have been given up.
Seated(s) == role[s] # "none" \/ s \in gone

\* What the phases that are over have brought, by whichever run.
PeopleCame ==
  /\ phase \in PastUsers => \A u \in UserNew : userMap[u] # NoAccount
  /\ phase \in PastDups => \A u \in DOMAIN UserName : userMap[u] # NoAccount
  /\ \A u \in DOMAIN UserName : userMap[u] # NoAccount => userMap[PrimaryOf(u)] = userMap[u]
ChatsCame ==
  /\ phase \in PastRooms => RoomIds \subseteq idmap
  /\ \A t \in DOMAIN TopicRoom : Through(PastTopics, "topics", t) => <<"channel", t>> \in idmap
SeatsCame ==
  /\ \A i \in DOMAIN Members : Through(PastMembers, "members", i) => Seated(SeatOf(Members[i]))
  /\ \A t \in DOMAIN TopicRoom, i \in DOMAIN Members :
       Members[i].room = TopicRoom[t] /\ Through(PastTopicMembers, "topicMembers", t) =>
         Seated(<<<<"channel", t>>, userMap[Members[i].user]>>)
MessagesCame ==
  \A m \in MessageIds :
    /\ Through(PastMessages, "messages", m) => <<"message", m>> \in idmap
    /\ Through(PastReplies, "replies", m) /\ Messages[m].reply # 0 => reply[m]
    /\ reply[m] => Messages[m].reply # 0
FilesCame ==
  /\ \A i \in DOMAIN WithFile : Through(PastAttachments, "attachments", i) =>
       /\ <<"attachment", WithFile[i]>> \in idmap
       /\ (linked[WithFile[i]] /\ token[WithFile[i]]) \/ text[WithFile[i]] = "edited"
  /\ \A m \in MessageIds : <<"attachment", m>> \in idmap \/ linked[m] \/ token[m] => m \in Range(WithFile)
  /\ \A m \in BrokenEmpty :
       /\ text[m] \in {"none", "empty", "marker", "edited"}
       /\ Through(PastPlaceholders, "placeholders", m) => text[m] \in {"marker", "edited"}
AvatarsCame == phase \in PastHistory => \A n \in Accounts : avatar[n] > 0 => avatar[n] \in photos[n]
CompleteInv == PeopleCame /\ ChatsCame /\ SeatsCame /\ MessagesCame /\ FilesCame /\ AvatarsCame

\* The types, and what a step needs to know of them.
PhaseTypes == /\ phase \in Range(Phases) \cup {"stopped"} /\ pos \in Nat
              /\ settled \in {"no", "quiet", "yes"}
UserTypes ==
  /\ accounts \subseteq Accounts /\ known \subseteq accounts /\ Registered \subseteq accounts
  /\ userMap \in [DOMAIN UserName -> accounts \cup {NoAccount}]
RoleTypes == role \in [Seats -> Roles \cup {"none"}]
ItemTypes ==
  /\ idmap \subseteq Items
  /\ DOMAIN text = MessageIds /\ DOMAIN token = MessageIds
  /\ DOMAIN linked = MessageIds /\ DOMAIN reply = MessageIds
  /\ \A m \in MessageIds :
       /\ text[m] # "none" <=> <<"message", m>> \in idmap
       /\ <<"message", m>> \in idmap => Messages[m].chat \in idmap
       /\ <<"attachment", m>> \in idmap => <<"message", m>> \in idmap
       /\ linked[m] \/ token[m] => <<"attachment", m>> \in idmap
FileTypes ==
  /\ objects \in [FileIds -> Nat] /\ avatar \in [Accounts -> Int]
  /\ DOMAIN photos = Accounts /\ DOMAIN saved = Accounts
  /\ \A n \in Accounts :
       /\ avatar[n] <= objects[<<"avatar", n>>]
       /\ \A t \in saved[n] \cap Tracks : objects[<<"track", t>>] > 0
  /\ phase = "tracks" => \A t \in (held \ {"list"}) \cap Tracks : objects[<<"track", t>>] > 0
TypesInv == PhaseTypes /\ UserTypes /\ RoleTypes /\ ItemTypes /\ FileTypes
-----------------------------------------------------------------------------
(* The order of the phases, and the jobs of a batch.                       *)

LEMMA PhasesInOrder ==
  /\ After["users"] = "dups" /\ After["dups"] = "rooms" /\ After["rooms"] = "topics"
  /\ After["topics"] = "members" /\ After["members"] = "topicMembers"
  /\ After["topicMembers"] = "messages" /\ After["messages"] = "replies"
  /\ After["replies"] = "attachments" /\ After["attachments"] = "placeholders"
  /\ After["placeholders"] = "avatars" /\ After["avatars"] = "history"
  /\ After["history"] = "reactions" /\ After["reactions"] = "tracks"
  /\ After["tracks"] = "bans" /\ After["bans"] = "summary"
<1>1. /\ DOMAIN Phases = 1 .. 17
      /\ Phases[1] = "users" /\ Phases[2] = "dups" /\ Phases[3] = "rooms" /\ Phases[4] = "topics"
      /\ Phases[5] = "members" /\ Phases[6] = "topicMembers" /\ Phases[7] = "messages"
      /\ Phases[8] = "replies" /\ Phases[9] = "attachments" /\ Phases[10] = "placeholders"
      /\ Phases[11] = "avatars" /\ Phases[12] = "history" /\ Phases[13] = "reactions"
      /\ Phases[14] = "tracks" /\ Phases[15] = "bans" /\ Phases[16] = "summary" /\ Phases[17] = "done"
  BY DEF Phases
<1>2. ASSUME NEW i \in 1 .. 16 PROVE After[Phases[i]] = Phases[i + 1]
  <2>1. Phases[i] \in Range(Phases) \ {"done"}
    BY <1>1 DEF Range
  <2>2. \A j \in DOMAIN Phases : Phases[j] = Phases[i] => j = i
    BY <1>1
  <2>3. (CHOOSE j \in DOMAIN Phases : Phases[j] = Phases[i]) = i
    BY <1>1, <2>2
  <2>4. After[Phases[i]] = Phases[1 + i]
    BY <2>1, <2>3 DEF After
  <2> QED  BY <2>4
<1> QED  BY <1>1, <1>2

LEMMA PhasesThere ==
  Range(Phases) = {"users", "dups", "rooms", "topics", "members", "topicMembers", "messages",
                   "replies", "attachments", "placeholders", "avatars", "history", "reactions",
                   "tracks", "bans", "summary", "done"}
BY DEF Range, Phases

\* A nonempty set of naturals has a least member, and a bounded one a greatest.
LEMMA LeastOf ==
  ASSUME NEW T \in SUBSET Nat, T # {}
  PROVE  \E x \in T : \A y \in T : x <= y
<1> DEFINE Less == OpToRel(<, Nat)
<1>1. PICK x \in T : \A y \in T : ~(<<y, x>> \in Less)
  BY NatLessThanWellFounded, WFMin
<1>2. ASSUME NEW y \in T, y < x PROVE FALSE
  <2>1. <<y, x>> \in Nat \X Nat /\ <<y, x>>[1] < <<y, x>>[2]
    BY <1>2
  <2>2. <<y, x>> \in Less
    BY <2>1 DEF OpToRel
  <2> QED  BY <1>1, <2>2
<1>3. \A y \in T : x \in Nat /\ y \in Nat
  OBVIOUS
<1> QED  BY <1>2, <1>3

LEMMA GreatestOf ==
  ASSUME NEW T \in SUBSET Nat, T # {}, NEW n \in Nat, \A x \in T : x <= n
  PROVE  \E x \in T : \A y \in T : y <= x
<1> DEFINE below == {n - x : x \in T}
<1>1. \A x \in T : x \in Nat /\ n - x \in Nat
  OBVIOUS
<1>2. below \in SUBSET Nat /\ below # {}
  BY <1>1
<1>3. PICK z \in below : \A y \in below : z <= y
  BY <1>2, LeastOf
<1>4. PICK x \in T : z = n - x
  OBVIOUS
<1>5. ASSUME NEW y \in T PROVE y <= x
  <2>1. n - y \in below
    OBVIOUS
  <2>2. n - x <= n - y
    BY <1>3, <1>4, <2>1
  <2> QED  BY <1>1, <2>2
<1> QED  BY <1>5

\* A batch takes the first jobs, and one at least.
LEMMA FirstOnes ==
  ASSUME NEW S \in SUBSET Nat, NEW k \in Nat \ {0}, S # {}
  PROVE  /\ FirstOf(S, k) \subseteq S /\ FirstOf(S, k) # {}
         /\ \A x \in FirstOf(S, k), y \in S : y < x => y \in FirstOf(S, k)
<1>1. PICK x \in S : \A y \in S : x <= y
  BY LeastOf
<1>2. {y \in S : y < x} = {}
  <2>1. ASSUME NEW y \in S, y < x PROVE FALSE
    <3>1. y \in Nat /\ x \in Nat /\ x <= y
      BY <1>1
    <3> QED  BY <2>1, <3>1
  <2> QED  BY <2>1
<1>3. x \in FirstOf(S, k)
  BY <1>2, FS_EmptySet DEF FirstOf
<1>4. ASSUME NEW u \in FirstOf(S, k), NEW v \in S, v < u PROVE v \in FirstOf(S, k)
  <2> DEFINE below(w) == {y \in S : y < w}
  <2>1. u \in S /\ Cardinality(below(u)) < k
    BY <1>4 DEF FirstOf
  <2>2. IsFiniteSet(below(u))
    <3>1. u \in Nat /\ \A s \in below(u) : s \in Nat /\ s <= u
      BY <2>1
    <3>2. below(u) \in SUBSET Nat
      BY <3>1
    <3> QED  BY <3>1, <3>2, FS_BoundedSetOfNaturals
  <2>3. below(v) \subseteq below(u)
    <3>1. ASSUME NEW s \in S, s < v PROVE s < u
      <4>1. u \in Nat /\ v \in Nat /\ s \in Nat
        BY <2>1
      <4> QED  BY <1>4, <3>1, <4>1
    <3> QED  BY <3>1
  <2>4. IsFiniteSet(below(v)) /\ Cardinality(below(v)) <= Cardinality(below(u))
    BY <2>2, <2>3, FS_Subset
  <2>5. Cardinality(below(v)) \in Nat /\ Cardinality(below(u)) \in Nat
    BY <2>2, <2>4, FS_CardinalityType
  <2>6. Cardinality(below(v)) < k
    BY <2>1, <2>4, <2>5
  <2> QED  BY <2>6 DEF FirstOf
<1> QED  BY <1>3, <1>4, FirstOfSubset

\* The first of a name stands for himself.
LEMMA PrimaryStands ==
  ASSUME NEW u \in DOMAIN UserName
  PROVE  /\ PrimaryOf(u) \in DOMAIN UserName /\ UserName[PrimaryOf(u)] = UserName[u]
         /\ PrimaryOf(PrimaryOf(u)) = PrimaryOf(u)
<1> DEFINE mine == {v \in DOMAIN UserName : UserName[v] = UserName[u]}
<1>1. DOMAIN UserName \subseteq Nat /\ \A v \in DOMAIN UserName : 1 .. v \subseteq DOMAIN UserName /\ v >= 1
  BY LegacyAssumption
<1>2. PICK v \in mine : \A w \in mine : v <= w
  BY <1>1, LeastOf
<1>3. v \in DOMAIN UserName /\ UserName[v] = UserName[u] /\ \A w \in 1 .. v - 1 : UserName[w] # UserName[u]
  BY <1>1, <1>2
<1>4. /\ PrimaryOf(u) \in DOMAIN UserName /\ UserName[PrimaryOf(u)] = UserName[u]
  BY <1>3 DEF PrimaryOf
<1> QED  BY <1>4 DEF PrimaryOf

\* Where Moves leads.
LEMMA MovesWhere ==
  ASSUME pos \in Nat, NEW k \in Nat, NEW length \in Nat, Moves(k, length)
  PROVE  /\ pos' \in Nat
         /\ \/ phase' = phase /\ pos' = pos + k
            \/ phase' = After[phase] /\ pos' = 0 /\ length <= pos + k
BY DEF Moves
-----------------------------------------------------------------------------
(* Where each step is taken, and what it leaves alone.                     *)

RunsIn(p) == phase = p /\ (phase' = p \/ (phase' = After[p] /\ pos' = 0))
Users == ApplyUsers \/ ApplyDups
Rows == ApplyRooms \/ ApplyTopics
Joins == ApplyMembers \/ ApplyTopicMembers
Posts == ApplyMessages \/ ApplyReplies \/ ApplyAttachments \/ ApplyPlaceholders
Pictures == PutAvatar \/ NameAvatar \/ ApplyAvatarHistory
Rest == ApplyReactions \/ PutTracks \/ WriteTracks \/ ApplyBans \/ Finish
Breaks == Start \/ Stop \/ StopAmongUploads

LEMMA StepIs ==
  ASSUME [Next]_vars
  PROVE  Users \/ Rows \/ Joins \/ Posts \/ Pictures \/ Rest \/ Breaks \/ Application \/ UNCHANGED vars
BY DEF Next, RunApply, Users, Rows, Joins, Posts, Pictures, Rest, Breaks

LEMMA EachInItsPhase ==
  /\ ApplyUsers => RunsIn("users")
  /\ ApplyDups => RunsIn("dups")
  /\ ApplyRooms => RunsIn("rooms")
  /\ ApplyTopics => RunsIn("topics")
  /\ ApplyMembers => RunsIn("members")
  /\ ApplyTopicMembers => RunsIn("topicMembers")
  /\ ApplyMessages => RunsIn("messages")
  /\ ApplyReplies => RunsIn("replies")
  /\ ApplyAttachments => RunsIn("attachments")
  /\ ApplyPlaceholders => RunsIn("placeholders")
  /\ PutAvatar \/ NameAvatar => RunsIn("avatars")
  /\ ApplyAvatarHistory => RunsIn("history")
  /\ ApplyReactions => RunsIn("reactions")
  /\ PutTracks \/ WriteTracks => RunsIn("tracks")
  /\ ApplyBans => RunsIn("bans")
  /\ Finish => phase = "summary" /\ phase' = "done" /\ pos' = 0
<1> USE DEF RunsIn, InPhase, Carries, Moves, MovesOn
<1>1. /\ ApplyUsers => RunsIn("users")
      /\ ApplyDups => RunsIn("dups")
      /\ ApplyRooms => RunsIn("rooms")
      /\ ApplyTopics => RunsIn("topics")
      /\ ApplyMembers => RunsIn("members")
      /\ ApplyTopicMembers => RunsIn("topicMembers")
  BY DEF ApplyUsers, ApplyDups, ApplyRooms, ApplyTopics, ApplyMembers, ApplyTopicMembers
<1>2. /\ ApplyMessages => RunsIn("messages")
      /\ ApplyReplies => RunsIn("replies")
      /\ ApplyAttachments => RunsIn("attachments")
      /\ ApplyPlaceholders => RunsIn("placeholders")
  BY DEF ApplyMessages, ApplyReplies, ApplyAttachments, ApplyPlaceholders
<1>3. /\ PutAvatar \/ NameAvatar => RunsIn("avatars")
      /\ ApplyAvatarHistory => RunsIn("history")
      /\ ApplyReactions => RunsIn("reactions")
  BY DEF PutAvatar, NameAvatar, ApplyAvatarHistory, ApplyReactions
<1>4. /\ PutTracks \/ WriteTracks => RunsIn("tracks")
      /\ ApplyBans => RunsIn("bans")
      /\ Finish => phase = "summary" /\ phase' = "done" /\ pos' = 0
  BY DEF PutTracks, WriteTracks, ApplyBans, Finish
<1> QED  BY <1>1, <1>2, <1>3, <1>4

\* The variables, by what a property is about.
peopleVars == <<accounts, userMap, known>>
seatVars == <<role, gone>>
postVars == <<idmap, text, token, linked, reply>>
fileVars == <<avatar, photos, saved, objects>>

LEMMA LeftAlone ==
  /\ Users => UNCHANGED <<known, seatVars, postVars, fileVars>>
  /\ Rows => UNCHANGED <<peopleVars, seatVars, text, token, linked, reply, fileVars>>
  /\ Joins => UNCHANGED <<peopleVars, gone, postVars, fileVars>>
  /\ Posts => UNCHANGED <<peopleVars, seatVars, avatar, photos, saved>>
  /\ Pictures => UNCHANGED <<peopleVars, seatVars, postVars, saved>>
  /\ Rest => UNCHANGED <<peopleVars, seatVars, postVars, avatar, photos>>
  /\ Breaks => UNCHANGED <<accounts, userMap, seatVars, postVars, avatar, photos, saved>>
<1> USE DEF peopleVars, seatVars, postVars, fileVars, InPhase, Carries, ghostVars, userVars, itemVars,
            messageVars, profileVars, dbVars
<1>1. Users => UNCHANGED <<known, seatVars, postVars, fileVars>>
  BY DEF Users, ApplyUsers, ApplyDups
<1>2. Rows => UNCHANGED <<peopleVars, seatVars, text, token, linked, reply, fileVars>>
  BY DEF Rows, ApplyRooms, ApplyTopics
<1>3. Joins => UNCHANGED <<peopleVars, gone, postVars, fileVars>>
  BY DEF Joins, ApplyMembers, ApplyTopicMembers
<1>4. Posts => UNCHANGED <<peopleVars, seatVars, avatar, photos, saved>>
  BY DEF Posts, ApplyMessages, ApplyReplies, ApplyAttachments, ApplyPlaceholders
<1>5. Pictures => UNCHANGED <<peopleVars, seatVars, postVars, saved>>
  BY DEF Pictures, PutAvatar, NameAvatar, ApplyAvatarHistory
<1>6. Rest => UNCHANGED <<peopleVars, seatVars, postVars, avatar, photos>>
  BY DEF Rest, ApplyReactions, PutTracks, WriteTracks, ApplyBans, Finish
<1>7. Breaks => UNCHANGED <<accounts, userMap, seatVars, postVars, avatar, photos, saved>>
  BY DEF Breaks, Start, Stop, StopAmongUploads
<1> QED  BY <1>1, <1>2, <1>3, <1>4, <1>5, <1>6, <1>7

\* The application changes one thing at a time.
LEMMA ApplicationIs ==
  ASSUME Application
  PROVE  /\ UNCHANGED <<phase, pos, held, known, userMap, objects, idmap, reply, photos>>
         /\ settled' = "no"
         /\ \/ /\ accounts \subseteq accounts' /\ accounts' \subseteq accounts \cup Accounts
               /\ UNCHANGED <<seatVars, text, token, linked, avatar, saved>>
            \/ /\ \E s \in Seats, r \in {"admin", "member", "none"} :
                    /\ role' = [role EXCEPT ![s] = r]
                    /\ gone' = IF r = "none" THEN gone \cup {s} ELSE gone
               /\ UNCHANGED <<accounts, text, token, linked, avatar, saved>>
            \/ /\ \E m \in MessageIds, keeps, names \in BOOLEAN :
                    /\ text[m] # "none" /\ text' = [text EXCEPT ![m] = "edited"]
                    /\ token' = [token EXCEPT ![m] = @ /\ keeps]
                    /\ linked' = [linked EXCEPT ![m] = names /\ <<"attachment", m>> \in idmap]
               /\ UNCHANGED <<accounts, seatVars, avatar, saved>>
            \/ /\ \E n \in Accounts : avatar' = [avatar EXCEPT ![n] = -1]
               /\ UNCHANGED <<accounts, seatVars, text, token, linked, saved>>
            \/ /\ \E n \in Accounts : \E ts : /\ saved' = [saved EXCEPT ![n] = ts]
                                              /\ ts \subseteq saved[n] \cup {Own}
               /\ UNCHANGED <<accounts, seatVars, text, token, linked, avatar>>
            \/ UNCHANGED <<accounts, seatVars, text, token, linked, avatar, saved>>
<1> USE DEF seatVars, Edits, ghostVars, userVars, itemVars, messageVars, profileVars, dbVars, runVars
<1>1. CASE \E n \in Accounts : Registers(n)
  BY <1>1 DEF Registers
<1>2. CASE \E n \in Accounts : ChoosesAvatar(n)
  BY <1>2 DEF ChoosesAvatar
<1>3. CASE \E n \in Accounts : SavesTrack(n)
  <2>1. PICK n \in Accounts : SavesTrack(n)
    BY <1>3
  <2>2. saved' = [saved EXCEPT ![n] = saved[n] \cup {Own}]
    BY <2>1 DEF SavesTrack
  <2> QED  BY <2>1, <2>2 DEF SavesTrack
<1>4. CASE \E n \in Accounts, t \in Tracks \cup {Own} : DropsTrack(n, t)
  <2>1. PICK n \in Accounts, t \in Tracks \cup {Own} : DropsTrack(n, t)
    BY <1>4
  <2>2. saved' = [saved EXCEPT ![n] = saved[n] \ {t}]
    BY <2>1 DEF DropsTrack
  <2> QED  BY <2>1, <2>2 DEF DropsTrack
<1>5. CASE \E s \in Seats, r \in {"admin", "member", "none"} : SetsRole(s, r)
  BY <1>5 DEF SetsRole
<1>6. CASE \E m \in MessageIds, keeps, names \in BOOLEAN : EditsMessage(m, keeps, names)
  BY <1>6 DEF EditsMessage
<1>7. CASE \E s \in MessageIds \X Accounts : Reacts(s)
  BY <1>7 DEF Reacts
<1> QED  BY <1>1, <1>2, <1>3, <1>4, <1>5, <1>6, <1>7 DEF Application
-----------------------------------------------------------------------------
(* Types.                                                                  *)

LEMMA ConstantsAre ==
  /\ DOMAIN UserName = 1 .. Len(UserName) /\ Len(UserName) \in Nat
  /\ \A u \in DOMAIN UserName : UserName[u] \in Accounts
  /\ TopicRoom \in Seq(DOMAIN Rooms) /\ DOMAIN TopicRoom = 1 .. Len(TopicRoom) /\ Len(TopicRoom) \in Nat
  /\ DOMAIN Members = 1 .. Len(Members) /\ Len(Members) \in Nat
  /\ MessageIds = 1 .. Len(Messages) /\ Len(Messages) \in Nat
  /\ DOMAIN WithFile = 1 .. Len(WithFile) /\ Len(WithFile) \in Nat
  /\ \A i \in DOMAIN WithFile : WithFile[i] \in MessageIds
  /\ Batch \in Nat \ {0} /\ Len(Music) = Len(UserName)
BY MigrateAssumption, LegacyAssumption DEF MessageIds

LEMMA PhaseTypesStep == ASSUME PhaseTypes, [Next]_vars PROVE PhaseTypes'
<1> USE DEF PhaseTypes
<1>1. CASE Users \/ Rows \/ Joins \/ Posts \/ Pictures \/ Rest
  <2>1. phase' \in Range(Phases)
    BY <1>1, EachInItsPhase, PhasesInOrder, PhasesThere
       DEF Users, Rows, Joins, Posts, Pictures, Rest, RunsIn
  <2>2. settled' \in {"no", "quiet", "yes"}
    BY <1>1 DEF Users, Rows, Joins, Posts, Pictures, Rest, ApplyUsers, ApplyDups, ApplyRooms, ApplyTopics,
       ApplyMembers, ApplyTopicMembers, ApplyMessages, ApplyReplies, ApplyAttachments, ApplyPlaceholders,
       PutAvatar, NameAvatar, ApplyAvatarHistory, ApplyReactions, PutTracks, WriteTracks, ApplyBans, Finish,
       InPhase, Unsettled
  <2>3. pos' \in Nat
    <3>1. CASE ApplyPlaceholders
      <4> DEFINE todo == {m \in BrokenEmpty : m > pos}
                 now == FirstOf(todo, Batch)
      <4>1. CASE todo \ now = {}
        BY <3>1, <4>1 DEF ApplyPlaceholders
      <4>2. CASE todo \ now # {}
        <5>1. todo \in SUBSET Nat /\ \A m \in todo : m <= Len(Messages)
          BY ConstantsAre DEF BrokenEmpty
        <5>2. now \subseteq todo /\ now # {}
          BY <4>2, <5>1, FirstOnes, ConstantsAre
        <5>3. now \in SUBSET Nat /\ \A m \in now : m <= Len(Messages)
          BY <5>1, <5>2
        <5>4. \E m \in now : \A k \in now : k <= m
          BY <5>2, <5>3, GreatestOf, ConstantsAre
        <5>5. pos' = CHOOSE m \in now : \A k \in now : k <= m
          BY <3>1, <4>2 DEF ApplyPlaceholders
        <5>6. pos' \in now
          BY <5>4, <5>5
        <5> QED  BY <5>3, <5>6
      <4> QED  BY <4>1, <4>2
    <3>2. CASE ~ApplyPlaceholders
      <4>1. ASSUME NEW k \in Nat, NEW length, Moves(k, length) PROVE pos' \in Nat
        BY <4>1 DEF Moves
      <4>2. CASE Users \/ ApplyRooms \/ ApplyAvatarHistory \/ Finish
        BY <4>2 DEF Users, ApplyUsers, ApplyDups, ApplyRooms, ApplyAvatarHistory, Finish, MovesOn
      <4>3. CASE ApplyTopics \/ Joins \/ ApplyMessages \/ ApplyReplies \/ ApplyAttachments \/ ApplyReactions
        BY <4>1, <4>3, ConstantsAre
           DEF ApplyTopics, Joins, ApplyMembers, ApplyTopicMembers, ApplyMessages, ApplyReplies,
               ApplyAttachments, ApplyReactions
      <4>4. CASE PutAvatar \/ NameAvatar \/ PutTracks \/ WriteTracks \/ ApplyBans
        BY <4>1, <4>4 DEF PutAvatar, NameAvatar, PutTracks, WriteTracks, ApplyBans
      <4> QED  BY <1>1, <3>2, <4>2, <4>3, <4>4 DEF Rows, Posts, Pictures, Rest
    <3> QED  BY <3>1, <3>2
  <2> QED  BY <2>1, <2>2, <2>3
<1>2. CASE Breaks
  BY <1>2, PhasesThere DEF Breaks, Start, Stop, StopAmongUploads, Unsettled
<1>3. CASE Application
  BY <1>3, ApplicationIs
<1>4. CASE UNCHANGED vars
  BY <1>4 DEF vars, runVars
<1> QED  BY <1>1, <1>2, <1>3, <1>4, StepIs

LEMMA MergeToIs ==
  ASSUME UserTypes, NEW n \in Accounts
  PROVE  MergeTo(n) \in Accounts /\ MergeTo(n) # NoAccount
BY MigrateAssumption DEF UserTypes, MergeTo

LEMMA UserTypesStep == ASSUME UserTypes, [Next]_vars PROVE UserTypes'
<1>1. CASE ApplyUsers
  <2> DEFINE now == FirstOf({u \in UserNew : userMap[u] = NoAccount}, Batch)
  <2>1. now \subseteq DOMAIN UserName
    BY FirstOfSubset DEF UserNew
  <2>2. /\ userMap' = [u \in DOMAIN UserName |-> IF u \in now THEN MergeTo(UserName[u]) ELSE userMap[u]]
        /\ accounts' = accounts \cup {MergeTo(UserName[u]) : u \in now} /\ known' = known
    BY <1>1 DEF ApplyUsers, InPhase
  <2>3. \A u \in now : MergeTo(UserName[u]) \in Accounts
    BY <2>1, ConstantsAre, MergeToIs
  <2> QED  BY <2>1, <2>2, <2>3 DEF UserTypes
<1>2. CASE ApplyDups
  <2>1. \A u \in DOMAIN UserName : PrimaryOf(u) \in DOMAIN UserName
    BY PrimaryStands
  <2>2. UNCHANGED <<accounts, known>>
    BY <1>2 DEF ApplyDups, InPhase
  <2>3. userMap' \in [DOMAIN UserName -> accounts \cup {NoAccount}]
    BY <1>2, <2>1 DEF ApplyDups, UserTypes
  <2> QED  BY <2>2, <2>3 DEF UserTypes
<1>3. CASE Rows \/ Joins \/ Posts \/ Pictures \/ Rest
  BY <1>3, LeftAlone DEF peopleVars, UserTypes
<1>4. CASE Breaks
  <2>1. known' \in {accounts, {}}
    BY <1>4 DEF Breaks, Start, Stop, StopAmongUploads
  <2>2. UNCHANGED <<accounts, userMap>>
    BY <1>4, LeftAlone
  <2> QED  BY <2>1, <2>2 DEF UserTypes
<1>5. CASE Application
  <2>1. accounts \subseteq accounts' /\ accounts' \subseteq accounts \cup Accounts /\ UNCHANGED <<userMap, known>>
    BY <1>5, ApplicationIs
  <2> QED  BY <2>1 DEF UserTypes
<1>6. CASE UNCHANGED vars
  BY <1>6 DEF vars, runVars, dbVars, userVars, UserTypes
<1> QED  BY <1>1, <1>2, <1>3, <1>4, <1>5, <1>6, StepIs DEF Users

LEMMA RolesAre ==
  /\ \A r : NormRole(r) \in Roles /\ NormRole(r) # "none"
  /\ \A m : RoomRole(m) \in Roles /\ RoomRole(m) # "none"
BY DEF NormRole, NormChannelRole, RoomRole, Roles

LEMMA RoleTypesStep == ASSUME RoleTypes, [Next]_vars PROVE RoleTypes'
<1>1. CASE ApplyMembers
  <2> DEFINE mine(s) == {i \in Cut(Len(Members)) : SeatOf(Members[i]) = s}
             new(s) == RoomRole(Members[CHOOSE i \in mine(s) : \A j \in mine(s) : j <= i])
  <2>1. role' = [s \in Seats |-> IF mine(s) = {} THEN role[s] ELSE new(s)]
    BY <1>1 DEF ApplyMembers
  <2>2. \A s \in Seats : new(s) \in Roles
    BY RolesAre
  <2> HIDE DEF mine, new
  <2> QED  BY <2>1, <2>2 DEF RoleTypes
<1>2. CASE ApplyTopicMembers
  <2>1. ASSUME NEW s \in Seats, s[1] \in TopicIds PROVE TopicRole(s[1][2], s[2]) \in Roles \cup {"none"}
    <3>1. PICK t \in DOMAIN TopicRoom : s[1] = <<"channel", t>>
      BY <2>1 DEF TopicIds
    <3>2. s[1][2] = t /\ s = <<<<"channel", t>>, s[2]>>
      BY <3>1 DEF Seats
    <3>3. role[<<<<"channel", t>>, s[2]>>] \in Roles \cup {"none"}
      BY <3>2 DEF RoleTypes
    <3>4. TopicRole(t, s[2]) \in Roles \cup {"none"}
      BY <3>3, RolesAre DEF TopicRole
    <3> QED  BY <3>2, <3>4
  <2>2. role' = [s \in Seats |-> IF s[1] \in TopicIds /\ s[1][2] \in Cut(Len(TopicRoom)) /\ s[1] \in idmap
                                 THEN TopicRole(s[1][2], s[2]) ELSE role[s]]
    BY <1>2 DEF ApplyTopicMembers
  <2> QED  BY <2>1, <2>2 DEF RoleTypes
<1>3. CASE Users \/ Rows \/ Posts \/ Pictures \/ Rest \/ Breaks
  BY <1>3, LeftAlone DEF seatVars, RoleTypes
<1>4. CASE Application
  <2>1. \/ UNCHANGED role
        \/ \E s \in Seats, r \in {"admin", "member", "none"} : role' = [role EXCEPT ![s] = r]
    BY <1>4, ApplicationIs DEF seatVars
  <2> QED  BY <2>1 DEF RoleTypes, Roles
<1>5. CASE UNCHANGED vars
  BY <1>5 DEF vars, dbVars, RoleTypes
<1> QED  BY <1>1, <1>2, <1>3, <1>4, <1>5, StepIs DEF Joins

\* A batch of rows adds its items to what was imported.
LEMMA RowsGrow == ASSUME NEW S, Create(S) PROVE idmap' = idmap \cup S
BY DEF Create

LEMMA ItemTypesStep == ASSUME ItemTypes, [Next]_vars PROVE ItemTypes'
<1>1. CASE ApplyRooms
  <2> DEFINE new == {<<"room", r>> : r \in FirstOf({r \in DOMAIN Rooms : <<"room", r>> \notin idmap}, Batch)}
  <2>1. idmap' = idmap \cup new /\ UNCHANGED <<text, token, linked, reply>>
    BY <1>1, RowsGrow DEF ApplyRooms, messageVars
  <2>2. new \subseteq Items /\ \A m : <<"message", m>> \notin new /\ <<"attachment", m>> \notin new
    BY FirstOfSubset DEF Items, Chats, RoomIds
  <2> QED  BY <2>1, <2>2 DEF ItemTypes
<1>2. CASE ApplyTopics
  <2> DEFINE new == {<<"channel", t>> : t \in {t \in Cut(Len(TopicRoom)) : /\ <<"channel", t>> \notin idmap
                                                                          /\ <<"room", TopicRoom[t]>> \in idmap}}
  <2>1. idmap' = idmap \cup new /\ UNCHANGED <<text, token, linked, reply>>
    BY <1>2, RowsGrow DEF ApplyTopics, messageVars
  <2>2. new \subseteq Items /\ \A m : <<"message", m>> \notin new /\ <<"attachment", m>> \notin new
    BY ConstantsAre DEF Items, Chats, TopicIds, Cut
  <2> QED  BY <2>1, <2>2 DEF ItemTypes
<1>3. CASE ApplyMessages
  <2> DEFINE now == {m \in Cut(Len(Messages)) : /\ <<"message", m>> \notin idmap
                                                /\ userMap[Messages[m].user] # NoAccount
                                                /\ Messages[m].chat \in idmap}
             new == {<<"message", m>> : m \in now}
  <2>1. /\ idmap' = idmap \cup new /\ UNCHANGED <<token, linked, reply>>
        /\ text' = [m \in MessageIds |-> IF m \in now THEN Messages[m].text ELSE text[m]]
    BY <1>3, RowsGrow DEF ApplyMessages, messageVars
  <2>2. now \subseteq MessageIds
    BY ConstantsAre DEF Cut
  <2>3. new \subseteq Items /\ \A m : <<"attachment", m>> \notin new
    BY <2>2 DEF Items
  <2>4. \A m \in MessageIds : Messages[m].text # "none"
    BY LegacyAssumption
  <2>5. \A m \in MessageIds : <<"message", m>> \in idmap' <=> <<"message", m>> \in idmap \/ m \in now
    BY <2>1
  <2> HIDE DEF now
  <2>6. ASSUME NEW m \in MessageIds
        PROVE /\ text'[m] # "none" <=> <<"message", m>> \in idmap'
              /\ <<"message", m>> \in idmap' => Messages[m].chat \in idmap'
              /\ <<"attachment", m>> \in idmap' => <<"message", m>> \in idmap'
              /\ linked'[m] \/ token'[m] => <<"attachment", m>> \in idmap'
    <3>1. m \in now => Messages[m].chat \in idmap
      BY DEF now
    <3>2. <<"attachment", m>> \in idmap' <=> <<"attachment", m>> \in idmap
      BY <2>1, <2>3
    <3> QED  BY <2>1, <2>4, <2>5, <3>1, <3>2 DEF ItemTypes
  <2> QED  BY <2>1, <2>3, <2>6 DEF ItemTypes
<1>4. CASE ApplyReplies
  BY <1>4 DEF ApplyReplies, itemVars, ItemTypes
<1>5. CASE ApplyAttachments
  <2> DEFINE now == {WithFile[i] : i \in FilesNow}
             new == {<<"attachment", m>> : m \in now}
             mine == {WithFile[i] : i \in Cut(Len(WithFile))} \cap {m \in MessageIds : <<"message", m>> \in idmap}
  <2>1. /\ idmap' = idmap \cup new /\ UNCHANGED <<text, reply>>
        /\ linked' = [m \in MessageIds |-> linked[m] \/ m \in mine]
        /\ token' = [m \in MessageIds |-> token[m] \/ m \in mine]
    BY <1>5, RowsGrow DEF ApplyAttachments
  <2>2. now \subseteq mine
    BY ConstantsAre DEF FilesNow, Cut
  <2>3. now \subseteq MessageIds
    BY <2>2
  <2>4. new \subseteq Items /\ \A m : <<"message", m>> \notin new
    BY <2>3 DEF Items
  <2>5. \A m \in now : <<"message", m>> \in idmap
    BY <2>2
  <2>6. \A c \in Chats : c \in idmap' <=> c \in idmap
    BY <2>1 DEF Chats, RoomIds, TopicIds
  <2> HIDE DEF now, mine
  <2>7. ASSUME NEW m \in MessageIds
        PROVE /\ text'[m] # "none" <=> <<"message", m>> \in idmap'
              /\ <<"message", m>> \in idmap' => Messages[m].chat \in idmap'
              /\ <<"attachment", m>> \in idmap' => <<"message", m>> \in idmap'
              /\ linked'[m] \/ token'[m] => <<"attachment", m>> \in idmap'
    <3>1. <<"attachment", m>> \in idmap' <=> <<"attachment", m>> \in idmap \/ m \in now
      BY <2>1
    <3>2. <<"message", m>> \in idmap' <=> <<"message", m>> \in idmap
      BY <2>1, <2>4
    <3>3. m \in mine => <<"attachment", m>> \in idmap'
      <4>1. \A i \in Cut(Len(WithFile)) :
              <<"message", WithFile[i]>> \in idmap /\ <<"attachment", WithFile[i]>> \notin idmap => WithFile[i] \in now
        BY DEF now, FilesNow
      <4>2. m \in mine => <<"attachment", m>> \in idmap \/ m \in now
        BY <4>1 DEF mine
      <4> QED  BY <3>1, <4>2
    <3>4. (linked'[m] <=> linked[m] \/ m \in mine) /\ (token'[m] <=> token[m] \/ m \in mine)
      BY <2>1
    <3>5. linked'[m] \/ token'[m] => <<"attachment", m>> \in idmap'
      BY <3>1, <3>3, <3>4 DEF ItemTypes
    <3> QED  BY <2>1, <2>2, <2>5, <3>1, <3>2, <3>5 DEF ItemTypes
  <2> QED  BY <2>1, <2>4, <2>7 DEF ItemTypes
<1>6. CASE ApplyPlaceholders
  <2>1. UNCHANGED <<idmap, token, linked, reply>>
    BY <1>6 DEF ApplyPlaceholders, itemVars
  <2>2. DOMAIN text' = MessageIds /\ \A m \in MessageIds : text[m] # "none" <=> text'[m] # "none"
    BY <1>6 DEF ApplyPlaceholders
  <2> QED  BY <2>1, <2>2 DEF ItemTypes
<1>7. CASE Users \/ Joins \/ Pictures \/ Rest \/ Breaks
  BY <1>7, LeftAlone DEF postVars, ItemTypes
<1>8. CASE Application
  <2>1. UNCHANGED <<idmap, reply>>
    BY <1>8, ApplicationIs
  <2>2. \/ UNCHANGED <<text, token, linked>>
        \/ \E m \in MessageIds, keeps, names \in BOOLEAN :
             /\ text[m] # "none" /\ text' = [text EXCEPT ![m] = "edited"]
             /\ token' = [token EXCEPT ![m] = @ /\ keeps]
             /\ linked' = [linked EXCEPT ![m] = names /\ <<"attachment", m>> \in idmap]
    BY <1>8, ApplicationIs
  <2> QED  BY <2>1, <2>2 DEF ItemTypes
<1>9. CASE UNCHANGED vars
  BY <1>9 DEF vars, dbVars, itemVars, messageVars, ItemTypes
<1> QED  BY <1>1, <1>2, <1>3, <1>4, <1>5, <1>6, <1>7, <1>8, <1>9, StepIs DEF Rows, Posts

LEMMA UploadedGrows ==
  ASSUME objects \in [FileIds -> Nat], UNCHANGED objects \/ \E S : Uploaded(S)
  PROVE  /\ objects' \in [FileIds -> Nat] /\ \A f \in FileIds : objects'[f] >= objects[f]
         /\ \A S : Uploaded(S) => \A f \in S \cap FileIds : objects'[f] > 0
<1>1. CASE UNCHANGED objects
  <2>1. \A S : Uploaded(S) => \A f \in S \cap FileIds : objects'[f] > 0
    BY DEF Uploaded
  <2> QED  BY <1>1, <2>1
<1>2. ASSUME NEW S, Uploaded(S)
      PROVE  objects' \in [FileIds -> Nat] /\ \A f \in FileIds : objects'[f] >= objects[f]
  BY <1>2 DEF Uploaded
<1>3. \A S : Uploaded(S) => \A f \in S \cap FileIds : objects'[f] > 0
  BY DEF Uploaded
<1> QED  BY <1>1, <1>2, <1>3

LEMMA FilesThere ==
  /\ \A n \in Accounts : <<"avatar", n>> \in FileIds
  /\ \A t \in Tracks : <<"track", t>> \in FileIds
BY DEF FileIds

\* What is carried is tracks in their phase alone.
LEMMA HeldOf ==
  ASSUME [Next]_vars, ~PutTracks, phase' = "tracks"
  PROVE  held' = {} \/ UNCHANGED <<phase, held>>
<1>1. CASE PutAvatar
  BY <1>1 DEF PutAvatar, Carries
<1>2. CASE Users \/ Rows \/ Joins \/ Posts \/ NameAvatar \/ ApplyAvatarHistory \/ Rest
  BY <1>2 DEF Users, Rows, Joins, Posts, Rest, ApplyUsers, ApplyDups, ApplyRooms, ApplyTopics,
     ApplyMembers, ApplyTopicMembers, ApplyMessages, ApplyReplies, ApplyAttachments, ApplyPlaceholders,
     NameAvatar, ApplyAvatarHistory, ApplyReactions, WriteTracks, ApplyBans, Finish, InPhase
<1>3. CASE Breaks
  BY <1>3 DEF Breaks, Start, Stop, StopAmongUploads
<1>4. CASE Application
  BY <1>4, ApplicationIs
<1>5. CASE UNCHANGED vars
  BY <1>5 DEF vars, runVars
<1> QED  BY <1>1, <1>2, <1>3, <1>4, <1>5, StepIs DEF Pictures

LEMMA FileTypesGrow ==
  ASSUME FileTypes, UNCHANGED objects \/ \E S : Uploaded(S),
         UNCHANGED <<avatar, saved>>, DOMAIN photos' = Accounts,
         phase' = "tracks" => held' = {} \/ UNCHANGED <<phase, held>>
  PROVE  FileTypes'
<1>1. objects' \in [FileIds -> Nat] /\ \A f \in FileIds : objects'[f] >= objects[f]
  BY UploadedGrows DEF FileTypes
<1>2. \A f \in FileIds : objects[f] \in Nat /\ objects'[f] \in Nat
  BY <1>1 DEF FileTypes
<1>3. ASSUME NEW n \in Accounts
      PROVE /\ avatar'[n] <= objects'[<<"avatar", n>>]
            /\ \A t \in saved'[n] \cap Tracks : objects'[<<"track", t>>] > 0
  <2>1. avatar[n] \in Int /\ avatar[n] <= objects[<<"avatar", n>>]
    BY DEF FileTypes
  <2>2. avatar'[n] <= objects'[<<"avatar", n>>]
    BY <1>1, <1>2, <2>1, FilesThere
  <2>3. ASSUME NEW t \in saved[n] \cap Tracks PROVE objects'[<<"track", t>>] > 0
    <3>1. objects[<<"track", t>>] > 0
      BY DEF FileTypes
    <3> QED  BY <1>1, <1>2, <3>1, FilesThere
  <2> QED  BY <2>2, <2>3
<1>4. ASSUME phase' = "tracks", NEW t \in (held' \ {"list"}) \cap Tracks PROVE objects'[<<"track", t>>] > 0
  <2>1. objects[<<"track", t>>] > 0
    BY <1>4 DEF FileTypes
  <2> QED  BY <1>1, <1>2, <2>1, FilesThere
<1> QED  BY <1>1, <1>3, <1>4 DEF FileTypes

\* A full list takes no more; the files that fit are all that are up, or fill the list.
LEMMA WhatFits ==
  ASSUME NEW list, NEW up, NEW add \in Fitting(list, up)
  PROVE  /\ add \subseteq up /\ (Full(list) => add = {})
         /\ Full(list) \/ add = up \/ Full(list \cup add)
BY DEF Fitting

LEMMA FileTypesStep == ASSUME PhaseTypes, UserTypes, FileTypes, [Next]_vars PROVE FileTypes'
<1>1. CASE NameAvatar
  <2> DEFINE who == AvatarOwner
  <2>1. /\ avatar' = [avatar EXCEPT ![who] = objects[<<"avatar", who>>]]
        /\ UNCHANGED <<photos, saved, objects>> /\ held' = {}
    BY <1>1 DEF NameAvatar
  <2> HIDE DEF who
  <2>2. \A n \in Accounts : avatar'[n] \in {avatar[n], objects[<<"avatar", n>>]}
    BY <2>1 DEF FileTypes
  <2>3. \A n \in Accounts : objects[<<"avatar", n>>] \in Nat
    BY FilesThere DEF FileTypes
  <2>4. avatar' \in [Accounts -> Int] /\ \A n \in Accounts : avatar'[n] <= objects'[<<"avatar", n>>]
    <3>1. DOMAIN avatar' = Accounts /\ avatar' = [n \in Accounts |-> avatar'[n]]
      BY <2>1 DEF FileTypes
    <3>2. ASSUME NEW n \in Accounts PROVE avatar'[n] \in Int /\ avatar'[n] <= objects'[<<"avatar", n>>]
      BY <2>1, <2>2, <2>3 DEF FileTypes
    <3> QED  BY <3>1, <3>2
  <2> QED  BY <2>1, <2>4 DEF FileTypes
<1>2. CASE ApplyAvatarHistory
  <2>1. UNCHANGED <<avatar, saved, objects>> /\ DOMAIN photos' = Accounts /\ held' = {}
    BY <1>2 DEF ApplyAvatarHistory, InPhase
  <2> QED  BY <2>1, FileTypesGrow
<1>3. CASE PutTracks
  <2>1. UNCHANGED <<avatar, photos, saved>> /\ phase = "tracks" /\ held = {}
    BY <1>3 DEF PutTracks, Carries, dbVars, profileVars
  <2>2. CASE pos >= Len(Music) \/ Listener = NoAccount
    <3>1. held' = {} /\ UNCHANGED objects
      BY <1>3, <2>2 DEF PutTracks
    <3> QED  BY <2>1, <3>1, FileTypesGrow DEF FileTypes
  <2>3. CASE ~(pos >= Len(Music) \/ Listener = NoAccount)
    <3>0. PICK up \in SUBSET NewTracks :
            /\ Uploaded({<<"track", t>> : t \in up})
            /\ \E add \in Fitting(saved[Listener], up) : held' = saved[Listener] \cup add \cup {"list"}
      BY <1>3, <2>3 DEF PutTracks
    <3>1. PICK add \in Fitting(saved[Listener], up) :
            /\ Uploaded({<<"track", t>> : t \in up}) /\ held' = saved[Listener] \cup add \cup {"list"}
            /\ add \subseteq up
      <4>1. PICK add \in Fitting(saved[Listener], up) : held' = saved[Listener] \cup add \cup {"list"}
        BY <3>0
      <4> QED  BY <3>0, <4>1, WhatFits
    <3>2. /\ objects' \in [FileIds -> Nat] /\ \A f \in FileIds : objects'[f] >= objects[f]
          /\ \A t \in up \cap Tracks : objects'[<<"track", t>>] > 0
      <4>1. objects \in [FileIds -> Nat] /\ \E S : Uploaded(S)
        BY <3>1 DEF FileTypes
      <4>2. \A f \in {<<"track", t>> : t \in up} \cap FileIds : objects'[f] > 0
        BY <3>1, <4>1, UploadedGrows
      <4>3. objects' \in [FileIds -> Nat] /\ \A f \in FileIds : objects'[f] >= objects[f]
        BY <4>1, UploadedGrows
      <4> QED  BY <4>2, <4>3, FilesThere
    <3>3. \A f \in FileIds : objects[f] \in Nat /\ objects'[f] \in Nat
      BY <3>2 DEF FileTypes
    <3>4. ASSUME NEW n \in Accounts, NEW t \in saved[n] \cap Tracks PROVE objects'[<<"track", t>>] > 0
      <4>1. objects[<<"track", t>>] > 0
        BY DEF FileTypes
      <4> QED  BY <3>2, <3>3, <4>1, FilesThere
    <3>5. ASSUME NEW n \in Accounts PROVE avatar[n] <= objects'[<<"avatar", n>>]
      <4>1. avatar[n] \in Int /\ avatar[n] <= objects[<<"avatar", n>>]
        BY DEF FileTypes
      <4> QED  BY <3>2, <3>3, <4>1, FilesThere
    <3>6. Listener \in Accounts
      <4>1. pos + 1 \in DOMAIN UserName
        BY <2>3, ConstantsAre DEF PhaseTypes
      <4> QED  BY <2>3, <4>1, MigrateAssumption DEF Listener, UserTypes
    <3>7. \A t \in (held' \ {"list"}) \cap Tracks : objects'[<<"track", t>>] > 0
      BY <3>1, <3>2, <3>4, <3>6
    <3> QED  BY <2>1, <3>2, <3>4, <3>5, <3>7 DEF FileTypes
  <2> QED  BY <2>2, <2>3
<1>4. CASE WriteTracks
  <2>1. /\ saved' = [saved EXCEPT ![Listener] = held \ {"list"}] /\ held' = {} /\ phase = "tracks"
        /\ UNCHANGED <<avatar, photos, objects>>
    BY <1>4 DEF WriteTracks, Carries
  <2>2. ASSUME NEW n \in Accounts, NEW t \in saved'[n] \cap Tracks PROVE objects[<<"track", t>>] > 0
    <3>1. saved'[n] = saved[n] \/ saved'[n] = held \ {"list"}
      BY <2>1 DEF FileTypes
    <3> QED  BY <2>1, <3>1 DEF FileTypes
  <2> QED  BY <2>1, <2>2 DEF FileTypes
<1>5. CASE Users \/ Rows \/ Joins \/ Posts \/ PutAvatar \/ Breaks \/ ApplyReactions \/ ApplyBans \/ Finish
  <2>1. UNCHANGED <<avatar, photos, saved>>
    BY <1>5, LeftAlone DEF fileVars, Pictures, Rest, PutAvatar, ApplyReactions, ApplyBans, Finish, dbVars, profileVars
  <2>2. UNCHANGED objects \/ \E S : Uploaded(S)
    BY <1>5, LeftAlone DEF fileVars, Posts, ApplyMessages, ApplyReplies, ApplyAttachments, ApplyPlaceholders,
       PutAvatar, ApplyReactions, ApplyBans, Finish, Breaks, Start, Stop, StopAmongUploads
  <2>3. phase' = "tracks" => held' = {} \/ UNCHANGED <<phase, held>>
    <3>1. CASE Breaks
      BY <3>1 DEF Breaks, Start, Stop, StopAmongUploads
    <3>2. CASE ~Breaks
      <4>1. phase # "tracks"
        BY <1>5, <3>2, EachInItsPhase DEF RunsIn, Users, Rows, Joins, Posts
      <4> QED  BY <4>1, HeldOf DEF PutTracks, Carries
    <3> QED  BY <3>1, <3>2
  <2> QED  BY <2>1, <2>2, <2>3, FileTypesGrow DEF FileTypes
<1>6. CASE Application
  <2>1. UNCHANGED <<phase, held, objects, photos>>
    BY <1>6, ApplicationIs
  <2>2. \/ UNCHANGED <<avatar, saved>>
        \/ UNCHANGED saved /\ \E n \in Accounts : avatar' = [avatar EXCEPT ![n] = -1]
        \/ UNCHANGED avatar /\ \E n \in Accounts : \E ts : /\ saved' = [saved EXCEPT ![n] = ts]
                                                           /\ ts \subseteq saved[n] \cup {Own}
    BY <1>6, ApplicationIs
  <2>3. CASE UNCHANGED <<avatar, saved>>
    BY <2>1, <2>3 DEF FileTypes
  <2>4. CASE UNCHANGED saved /\ \E n \in Accounts : avatar' = [avatar EXCEPT ![n] = -1]
    <3>1. avatar' \in [Accounts -> Int] /\ \A n \in Accounts : avatar'[n] = -1 \/ avatar'[n] = avatar[n]
      BY <2>4 DEF FileTypes
    <3>2. \A n \in Accounts : objects[<<"avatar", n>>] \in Nat
      BY FilesThere DEF FileTypes
    <3>3. \A n \in Accounts : avatar'[n] <= objects'[<<"avatar", n>>]
      <4>1. ASSUME NEW n \in Accounts PROVE avatar'[n] <= objects[<<"avatar", n>>]
        <5>1. /\ avatar[n] \in Int /\ avatar[n] <= objects[<<"avatar", n>>] /\ objects[<<"avatar", n>>] \in Nat
              /\ avatar'[n] = -1 \/ avatar'[n] = avatar[n]
          BY <3>1, <3>2 DEF FileTypes
        <5> QED  BY <5>1
      <4> QED  BY <2>1, <4>1
    <3> QED  BY <2>1, <2>4, <3>1, <3>3 DEF FileTypes
  <2>5. CASE UNCHANGED avatar /\ \E n \in Accounts : \E ts : /\ saved' = [saved EXCEPT ![n] = ts]
                                                             /\ ts \subseteq saved[n] \cup {Own}
    <3>1. DOMAIN saved' = Accounts /\ \A n \in Accounts : saved'[n] \subseteq saved[n] \cup {Own}
      BY <2>5 DEF FileTypes
    <3>2. Own \notin Tracks
      BY MigrateAssumption
    <3>3. ASSUME NEW n \in Accounts PROVE saved'[n] \cap Tracks \subseteq saved[n] \cap Tracks
      BY <3>1, <3>2
    <3> QED  BY <2>1, <2>5, <3>1, <3>3 DEF FileTypes
  <2> QED  BY <2>2, <2>3, <2>4, <2>5
<1>7. CASE UNCHANGED vars
  BY <1>7 DEF vars, runVars, dbVars, profileVars, FileTypes
<1> QED  BY <1>1, <1>2, <1>3, <1>4, <1>5, <1>6, <1>7, StepIs DEF Pictures, Rest

LEMMA TypesInit == Init => TypesInv
<1> SUFFICES ASSUME Init PROVE TypesInv
  OBVIOUS
<1>1. PhaseTypes
  BY DEF Init, PhaseTypes
<1>2. UserTypes
  BY MigrateAssumption DEF Init, UserTypes
<1>3. RoleTypes
  BY DEF Init, RoleTypes
<1>4. ItemTypes
  BY DEF Init, ItemTypes
<1>5. FileTypes
  BY FilesThere DEF Init, FileTypes
<1> QED  BY <1>1, <1>2, <1>3, <1>4, <1>5 DEF TypesInv

LEMMA TypesStep == ASSUME TypesInv, [Next]_vars PROVE TypesInv'
BY PhaseTypesStep, UserTypesStep, RoleTypesStep, ItemTypesStep, FileTypesStep DEF TypesInv

LEMMA TypesAlways == Spec => []TypesInv
BY TypesInit, TypesStep, PTL DEF Spec

\* Whatever the import has written refers to what is there: accounts, chats, messages,
\* links, and uploads that were made (TypeOK).
THEOREM ReferencesHold == Spec => []TypeOK
<1>1. TypesInv => TypeOK
  <2> SUFFICES ASSUME TypesInv PROVE TypeOK
    OBVIOUS
  <2>1. Range(userMap) \subseteq accounts \cup {NoAccount}
    BY DEF TypesInv, UserTypes, Range
  <2>2. /\ phase \in Range(Phases) \cup {"stopped"} /\ pos \in Nat
        /\ settled \in {"no", "quiet", "yes"} /\ role \in [Seats -> Roles \cup {"none"}]
    BY DEF TypesInv, PhaseTypes, RoleTypes
  <2> QED  BY <2>1, <2>2 DEF TypesInv, ItemTypes, FileTypes, TypeOK
<1> QED  BY <1>1, TypesAlways, PTL
-----------------------------------------------------------------------------
(* What the phases have brought.                                           *)

\* Only its own step gets the import on in a phase.
LEMMA Onward ==
  ASSUME [Next]_vars
  PROVE  /\ phase' \in PastUsers => phase \in PastUsers \/ ApplyUsers
         /\ phase' \in PastDups => phase \in PastDups \/ ApplyDups
         /\ phase' \in PastRooms => phase \in PastRooms \/ ApplyRooms
         /\ phase' \in PastHistory => phase \in PastHistory \/ ApplyAvatarHistory
         /\ \A i \in Nat \ {0} :
              /\ Through(PastTopics, "topics", i)' => Through(PastTopics, "topics", i) \/ ApplyTopics
              /\ Through(PastMembers, "members", i)' => Through(PastMembers, "members", i) \/ ApplyMembers
              /\ Through(PastTopicMembers, "topicMembers", i)' =>
                   Through(PastTopicMembers, "topicMembers", i) \/ ApplyTopicMembers
              /\ Through(PastMessages, "messages", i)' => Through(PastMessages, "messages", i) \/ ApplyMessages
              /\ Through(PastReplies, "replies", i)' => Through(PastReplies, "replies", i) \/ ApplyReplies
              /\ Through(PastAttachments, "attachments", i)' =>
                   Through(PastAttachments, "attachments", i) \/ ApplyAttachments
              /\ Through(PastPlaceholders, "placeholders", i)' =>
                   Through(PastPlaceholders, "placeholders", i) \/ ApplyPlaceholders
<1> USE DEF Through, PastHistory, PastPlaceholders, PastAttachments, PastReplies, PastMessages,
            PastTopicMembers, PastMembers, PastTopics, PastRooms, PastDups, PastUsers
<1>1. CASE UNCHANGED <<phase, pos>>
  BY <1>1
<1>2. CASE Breaks
  BY <1>2 DEF Breaks, Start, Stop, StopAmongUploads
<1>3. CASE Users \/ Rows \/ Joins
  BY <1>3, EachInItsPhase, PhasesInOrder DEF Users, Rows, Joins, RunsIn
<1>4. CASE Posts
  BY <1>4, EachInItsPhase, PhasesInOrder DEF Posts, RunsIn
<1>5. CASE Pictures \/ Rest
  BY <1>5, EachInItsPhase, PhasesInOrder DEF Pictures, Rest, RunsIn
<1> QED  BY <1>1, <1>2, <1>3, <1>4, <1>5, StepIs, ApplicationIs DEF vars, runVars

\* A batch gets the import on by its own jobs.
LEMMA BatchDone ==
  ASSUME pos \in Nat, NEW length \in Nat, Moves(Batch, length), NEW past, NEW p, phase = p, p \notin past,
         NEW i \in 1 .. length, Through(past, p, i)'
  PROVE  Through(past, p, i) \/ i \in Cut(length)
BY ConstantsAre DEF Moves, Through, Cut

\* What a step never takes back.
LEMMA PeopleStay ==
  ASSUME UserTypes, [Next]_vars, NEW u \in DOMAIN UserName, userMap[u] # NoAccount
  PROVE  userMap'[u] = userMap[u]
<1>1. CASE ApplyUsers
  BY <1>1, FirstOfSubset DEF ApplyUsers
<1>2. CASE ApplyDups
  BY <1>2, FirstOfSubset DEF ApplyDups
<1>3. CASE ~Users
  BY <1>3, StepIs, LeftAlone, ApplicationIs DEF peopleVars, vars, dbVars, userVars
<1> QED  BY <1>1, <1>2, <1>3 DEF Users

LEMMA ItemsStay == ASSUME [Next]_vars PROVE idmap \subseteq idmap'
<1>1. CASE Rows
  BY <1>1, RowsGrow DEF Rows, ApplyRooms, ApplyTopics
<1>2. CASE Posts
  BY <1>2, RowsGrow DEF Posts, ApplyMessages, ApplyReplies, ApplyAttachments, ApplyPlaceholders, itemVars
<1>3. CASE ~(Rows \/ Posts)
  BY <1>3, StepIs, LeftAlone, ApplicationIs DEF postVars, vars, dbVars, itemVars
<1> QED  BY <1>1, <1>2, <1>3

LEMMA SeatsStay ==
  ASSUME RoleTypes, [Next]_vars, NEW s \in Seats, Seated(s)
  PROVE  Seated(s)'
<1>1. CASE ApplyMembers
  BY <1>1, RolesAre, LeftAlone DEF ApplyMembers, Seated, Joins
<1>2. CASE ApplyTopicMembers
  <2>1. gone' = gone
    BY <1>2, LeftAlone DEF Joins
  <2>2. CASE s[1] \in TopicIds
    <3>1. PICK t \in DOMAIN TopicRoom : s[1] = <<"channel", t>>
      BY <2>2 DEF TopicIds
    <3>2. s[1][2] = t /\ s = <<<<"channel", t>>, s[2]>>
      BY <3>1 DEF Seats
    <3>3. role[s] # "none" => TopicRole(t, s[2]) # "none"
      BY <3>2 DEF TopicRole
    <3>4. role'[s] \in {role[s], TopicRole(t, s[2])}
      BY <1>2, <3>2 DEF ApplyTopicMembers
    <3> QED  BY <2>1, <3>3, <3>4 DEF Seated
  <2>3. CASE s[1] \notin TopicIds
    BY <1>2, <2>1, <2>3 DEF ApplyTopicMembers, Seated
  <2> QED  BY <2>2, <2>3
<1>3. CASE Application
  <2>1. \/ UNCHANGED seatVars
        \/ \E d \in Seats, r \in {"admin", "member", "none"} :
             /\ role' = [role EXCEPT ![d] = r]
             /\ gone' = IF r = "none" THEN gone \cup {d} ELSE gone
    BY <1>3, ApplicationIs
  <2> QED  BY <2>1 DEF seatVars, Seated, RoleTypes
<1>4. CASE ~Joins /\ ~Application
  BY <1>4, StepIs, LeftAlone DEF seatVars, vars, dbVars, ghostVars, Seated
<1> QED  BY <1>1, <1>2, <1>3, <1>4 DEF Joins

\* Texts are rewritten by people, and by a marker where there was none.
Rewritten(m) == text[m] \in {"marker", "edited"}
Named(m) == (linked[m] /\ token[m]) \/ text[m] = "edited"
LEMMA PostsStay ==
  ASSUME ItemTypes, [Next]_vars, NEW m \in MessageIds
  PROVE  /\ reply[m] => reply'[m]
         /\ Named(m) => Named(m)'
         /\ Rewritten(m) => Rewritten(m)'
<1> USE DEF Named, Rewritten
<1>1. CASE ApplyMessages
  <2>1. text[m] # "none" => text'[m] = text[m]
    BY <1>1 DEF ApplyMessages, ItemTypes
  <2>2. UNCHANGED <<token, linked, reply>>
    BY <1>1 DEF ApplyMessages
  <2> QED  BY <2>1, <2>2
<1>2. CASE ApplyReplies
  BY <1>2 DEF ApplyReplies
<1>3. CASE ApplyAttachments
  <2>1. UNCHANGED <<text, reply>> /\ (linked[m] => linked'[m]) /\ (token[m] => token'[m])
    BY <1>3 DEF ApplyAttachments
  <2> QED  BY <2>1
<1>4. CASE ApplyPlaceholders
  <2>1. UNCHANGED <<token, linked, reply>> /\ (text'[m] = text[m] \/ text[m] = "empty")
    BY <1>4 DEF ApplyPlaceholders
  <2> QED  BY <2>1
<1>5. CASE Application
  <2>1. UNCHANGED reply
    BY <1>5, ApplicationIs
  <2>2. \/ UNCHANGED <<text, token, linked>>
        \/ \E k \in MessageIds, keeps, names \in BOOLEAN :
             /\ text' = [text EXCEPT ![k] = "edited"]
             /\ token' = [token EXCEPT ![k] = @ /\ keeps]
             /\ linked' = [linked EXCEPT ![k] = names /\ <<"attachment", k>> \in idmap]
    BY <1>5, ApplicationIs
  <2> QED  BY <2>1, <2>2 DEF ItemTypes
<1>6. CASE ~Posts /\ ~Application
  BY <1>6, StepIs, LeftAlone DEF postVars, vars, dbVars, messageVars
<1> QED  BY <1>1, <1>2, <1>3, <1>4, <1>5, <1>6 DEF Posts

LEMMA PeopleCameStep ==
  ASSUME TypesInv, PeopleCame, [Next]_vars
  PROVE  PeopleCame'
<1>0. UserTypes /\ \A u \in UserNew : u \in DOMAIN UserName
  BY DEF TypesInv, UserNew
<1>1. \A u \in DOMAIN UserName : userMap[u] # NoAccount => userMap'[u] = userMap[u]
  BY <1>0, PeopleStay
<1>2. CASE ApplyUsers
  <2> DEFINE todo == {u \in UserNew : userMap[u] = NoAccount}
             now == FirstOf(todo, Batch)
  <2>1. /\ userMap' = [u \in DOMAIN UserName |-> IF u \in now THEN MergeTo(UserName[u]) ELSE userMap[u]]
        /\ MovesOn(todo \ now) /\ phase = "users"
    BY <1>2 DEF ApplyUsers, InPhase
  <2>2. now \subseteq todo
    BY FirstOfSubset
  <2>3. \A u \in now : MergeTo(UserName[u]) # NoAccount
    BY <1>0, <2>2, ConstantsAre, MergeToIs
  <2>4. phase' \in PastUsers => \A u \in UserNew : userMap'[u] # NoAccount
    <3>1. phase' \in PastUsers => todo \subseteq now
      BY <2>1 DEF MovesOn, PastUsers, PastDups, PastRooms, PastTopics, PastMembers, PastTopicMembers,
         PastMessages, PastReplies, PastAttachments, PastPlaceholders, PastHistory
    <3> QED  BY <1>0, <2>1, <2>3, <3>1
  <2>5. phase' \notin PastDups
    BY <2>1, PhasesInOrder DEF MovesOn, PastDups, PastRooms, PastTopics, PastMembers, PastTopicMembers,
       PastMessages, PastReplies, PastAttachments, PastPlaceholders, PastHistory
  <2>6. ASSUME NEW u \in DOMAIN UserName, userMap'[u] # NoAccount PROVE userMap'[PrimaryOf(u)] = userMap'[u]
    <3>1. CASE u \in now
      BY <2>2, <3>1 DEF UserNew
    <3>2. CASE u \notin now
      <4>1. userMap[u] # NoAccount /\ userMap'[u] = userMap[u]
        BY <2>1, <2>6, <3>2
      <4>2. userMap[PrimaryOf(u)] = userMap[u]
        BY <4>1 DEF PeopleCame
      <4> QED  BY <1>1, <4>1, <4>2, PrimaryStands
    <3> QED  BY <3>1, <3>2
  <2> QED  BY <2>4, <2>5, <2>6 DEF PeopleCame
<1>3. CASE ApplyDups
  <2> DEFINE todo == {u \in UserDups : userMap[u] = NoAccount}
             now == FirstOf(todo, 1)
  <2>1. /\ userMap' = [u \in DOMAIN UserName |-> IF u \in now THEN userMap[PrimaryOf(u)] ELSE userMap[u]]
        /\ MovesOn(todo \ now) /\ phase = "dups"
    BY <1>3 DEF ApplyDups, InPhase
  <2>2. now \subseteq todo
    BY FirstOfSubset
  <2>3. \A u \in UserNew : userMap[u] # NoAccount
    BY <2>1 DEF PeopleCame, PastUsers
  <2>4. \A u \in DOMAIN UserName : PrimaryOf(u) \in UserNew /\ userMap[PrimaryOf(u)] # NoAccount
    BY <2>3, PrimaryStands DEF UserNew
  <2>5. \A u \in UserNew : userMap'[u] # NoAccount
    BY <1>0, <1>1, <2>3
  <2>6. phase' \in PastDups => \A u \in DOMAIN UserName : userMap'[u] # NoAccount
    <3>1. phase' \in PastDups => todo \subseteq now
      BY <2>1 DEF MovesOn, PastDups, PastRooms, PastTopics, PastMembers, PastTopicMembers,
         PastMessages, PastReplies, PastAttachments, PastPlaceholders, PastHistory
    <3> QED  BY <2>1, <2>4, <2>5, <3>1 DEF UserDups
  <2>7. ASSUME NEW u \in DOMAIN UserName, userMap'[u] # NoAccount PROVE userMap'[PrimaryOf(u)] = userMap'[u]
    <3>1. userMap'[PrimaryOf(u)] = userMap[PrimaryOf(u)]
      BY <1>1, <2>4, PrimaryStands
    <3>2. CASE u \in now
      BY <2>1, <3>1, <3>2
    <3>3. CASE u \notin now
      BY <2>1, <2>7, <3>1, <3>3 DEF PeopleCame
    <3> QED  BY <3>2, <3>3
  <2> QED  BY <2>5, <2>6, <2>7 DEF PeopleCame
<1>4. CASE ~Users
  <2>1. userMap' = userMap
    BY <1>4, StepIs, LeftAlone, ApplicationIs DEF peopleVars, vars, dbVars, userVars
  <2> QED  BY <1>4, <2>1, Onward DEF PeopleCame, Users
<1> QED  BY <1>2, <1>3, <1>4 DEF Users

LEMMA ChatsCameStep ==
  ASSUME TypesInv, ChatsCame, [Next]_vars
  PROVE  ChatsCame'
<1>0. pos \in Nat /\ idmap \subseteq idmap' /\ \A t \in DOMAIN TopicRoom : t \in Nat \ {0}
  BY ItemsStay, ConstantsAre DEF TypesInv, PhaseTypes
<1>1. ASSUME phase' \in PastRooms PROVE RoomIds \subseteq idmap'
  <2>1. CASE phase \in PastRooms
    BY <1>0, <2>1 DEF ChatsCame
  <2>2. CASE ApplyRooms /\ phase \notin PastRooms
    <3> DEFINE todo == {r \in DOMAIN Rooms : <<"room", r>> \notin idmap}
               now == FirstOf(todo, Batch)
    <3>1. MovesOn(todo \ now) /\ idmap' = idmap \cup {<<"room", r>> : r \in now}
      BY <2>2, RowsGrow DEF ApplyRooms
    <3>2. todo \subseteq now
      BY <1>1, <2>2, <3>1 DEF MovesOn
    <3> QED  BY <3>1, <3>2 DEF RoomIds
  <2> QED  BY <1>1, <2>1, <2>2, Onward
<1>2. ASSUME NEW t \in DOMAIN TopicRoom, Through(PastTopics, "topics", t)' PROVE <<"channel", t>> \in idmap'
  <2>1. CASE Through(PastTopics, "topics", t)
    BY <1>0, <2>1 DEF ChatsCame
  <2>2. CASE ApplyTopics /\ ~Through(PastTopics, "topics", t)
    <3>1. phase = "topics" /\ Moves(Batch, Len(TopicRoom))
      BY <2>2 DEF ApplyTopics, InPhase
    <3>2. phase \notin PastTopics /\ phase \in PastRooms
      BY <3>1 DEF PastRooms, PastTopics, PastMembers, PastTopicMembers,
         PastMessages, PastReplies, PastAttachments, PastPlaceholders, PastHistory
    <3>3. t \in Cut(Len(TopicRoom))
      BY <1>0, <1>2, <2>2, <3>1, <3>2, BatchDone, ConstantsAre
    <3>4. <<"room", TopicRoom[t]>> \in idmap
      BY <3>2, ConstantsAre DEF ChatsCame, RoomIds
    <3>5. idmap' = idmap \cup {<<"channel", k>> : k \in {k \in Cut(Len(TopicRoom)) :
                                 <<"channel", k>> \notin idmap /\ <<"room", TopicRoom[k]>> \in idmap}}
      BY <2>2, RowsGrow DEF ApplyTopics
    <3> QED  BY <3>3, <3>4, <3>5
  <2> QED  BY <1>0, <1>2, <2>1, <2>2, Onward
<1> QED  BY <1>1, <1>2 DEF ChatsCame

\* Once the accounts are known, a member has a seat that stays the same.
LEMMA SeatIs ==
  ASSUME TypesInv, PeopleCame, [Next]_vars, phase \in PastDups, NEW i \in DOMAIN Members, NEW c \in Chats
  PROVE  /\ userMap[Members[i].user] \in Accounts /\ userMap'[Members[i].user] = userMap[Members[i].user]
         /\ <<c, userMap[Members[i].user]>> \in Seats
<1>1. Members[i].user \in DOMAIN UserName
  BY LegacyAssumption
<1>2. userMap[Members[i].user] # NoAccount
  BY <1>1 DEF PeopleCame
<1>3. userMap[Members[i].user] \in Accounts
  BY <1>1, <1>2 DEF TypesInv, UserTypes
<1> QED  BY <1>1, <1>2, <1>3, PeopleStay DEF TypesInv, Seats

LEMMA SeatsCameStep ==
  ASSUME TypesInv, PeopleCame, ChatsCame, SeatsCame, [Next]_vars
  PROVE  SeatsCame'
<1>0. /\ pos \in Nat /\ RoleTypes
      /\ \A i \in DOMAIN Members : i \in Nat \ {0} /\ <<"room", Members[i].room>> \in Chats
      /\ \A t \in DOMAIN TopicRoom : t \in Nat \ {0} /\ <<"channel", t>> \in Chats
  BY LegacyAssumption, ConstantsAre DEF TypesInv, PhaseTypes, Chats, RoomIds, TopicIds
<1>1. ASSUME NEW i \in DOMAIN Members, Through(PastMembers, "members", i)' PROVE Seated(SeatOf(Members[i]))'
  <2>1. phase \in PastDups
    BY <1>0, <1>1, Onward, EachInItsPhase DEF RunsIn, Through, PastDups, PastRooms, PastTopics
  <2>2. SeatOf(Members[i]) \in Seats /\ SeatOf(Members[i])' = SeatOf(Members[i])
    BY <1>0, <2>1, SeatIs DEF SeatOf
  <2>3. Seated(SeatOf(Members[i]))' <=> (role'[SeatOf(Members[i])] # "none" \/ SeatOf(Members[i]) \in gone')
    BY <2>2 DEF Seated
  <2>4. CASE Through(PastMembers, "members", i)
    BY <1>0, <2>2, <2>3, <2>4, SeatsStay DEF SeatsCame, Seated
  <2>5. CASE ApplyMembers /\ ~Through(PastMembers, "members", i)
    <3>1. phase = "members" /\ Moves(Batch, Len(Members)) /\ phase \notin PastMembers
      BY <2>5 DEF ApplyMembers, InPhase, PastMembers, PastTopicMembers,
         PastMessages, PastReplies, PastAttachments, PastPlaceholders, PastHistory
    <3>2. i \in Cut(Len(Members))
      BY <1>0, <1>1, <2>5, <3>1, BatchDone, ConstantsAre
    <3>3. role'[SeatOf(Members[i])] # "none"
      BY <2>2, <2>5, <3>2, RolesAre DEF ApplyMembers
    <3> QED  BY <2>3, <3>3
  <2> QED  BY <1>0, <1>1, <2>4, <2>5, Onward
<1>2. ASSUME NEW t \in DOMAIN TopicRoom, NEW i \in DOMAIN Members, Members[i].room = TopicRoom[t],
             Through(PastTopicMembers, "topicMembers", t)'
      PROVE  Seated(<<<<"channel", t>>, userMap[Members[i].user]>>)'
  <2> DEFINE n == userMap[Members[i].user]
             s == <<<<"channel", t>>, n>>
  <2>1. phase \in PastDups /\ phase \in PastTopics
    BY <1>0, <1>2, Onward, EachInItsPhase DEF RunsIn, Through, PastDups, PastRooms, PastTopics, PastMembers
  <2>2. n \in Accounts /\ s \in Seats /\ userMap'[Members[i].user] = n
    BY <1>0, <2>1, SeatIs
  <2>3. Seated(<<<<"channel", t>>, userMap[Members[i].user]>>)' <=> (role'[s] # "none" \/ s \in gone')
    BY <2>2 DEF Seated
  <2>4. CASE Through(PastTopicMembers, "topicMembers", t)
    <3>1. Seated(s)
      BY <1>2, <2>4 DEF SeatsCame
    <3>2. role'[s] # "none" \/ s \in gone'
      BY <1>0, <2>2, <3>1, SeatsStay DEF Seated
    <3> QED  BY <2>3, <3>2
  <2>5. CASE ApplyTopicMembers /\ ~Through(PastTopicMembers, "topicMembers", t)
    <3>1. phase = "topicMembers" /\ Moves(Batch, Len(TopicRoom)) /\ phase \notin PastTopicMembers
      BY <2>5 DEF ApplyTopicMembers, InPhase, PastTopicMembers,
         PastMessages, PastReplies, PastAttachments, PastPlaceholders, PastHistory
    <3>2. t \in Cut(Len(TopicRoom))
      BY <1>0, <1>2, <2>5, <3>1, BatchDone, ConstantsAre
    <3>3. <<"channel", t>> \in idmap
      BY <2>1 DEF ChatsCame, Through
    <3>4. i \in TopicSeats(t, n)
      BY <1>2 DEF TopicSeats
    <3>5. TopicRole(t, n) # "none"
      BY <3>4, RolesAre DEF TopicRole
    <3>6. s[1] = <<"channel", t>> /\ s[1][2] = t /\ s[2] = n /\ s[1] \in TopicIds
      BY DEF TopicIds
    <3>7. role' = [d \in Seats |-> IF d[1] \in TopicIds /\ d[1][2] \in Cut(Len(TopicRoom)) /\ d[1] \in idmap
                                   THEN TopicRole(d[1][2], d[2]) ELSE role[d]]
      BY <2>5 DEF ApplyTopicMembers
    <3>8. role'[s] = TopicRole(t, n)
      BY <2>2, <3>2, <3>3, <3>6, <3>7
    <3> QED  BY <2>3, <3>5, <3>8
  <2> QED  BY <1>0, <1>2, <2>4, <2>5, Onward
<1> QED  BY <1>1, <1>2 DEF SeatsCame

LEMMA MessagesCameStep ==
  ASSUME TypesInv, PeopleCame, ChatsCame, MessagesCame, [Next]_vars, NEW m \in MessageIds
  PROVE  /\ Through(PastMessages, "messages", m)' => <<"message", m>> \in idmap'
         /\ Through(PastReplies, "replies", m)' /\ Messages[m].reply # 0 => reply'[m]
         /\ reply'[m] => Messages[m].reply # 0
<1>0. /\ pos \in Nat /\ ItemTypes /\ idmap \subseteq idmap' /\ m \in Nat \ {0} /\ m \in 1 .. Len(Messages)
      /\ Len(Messages) \in Nat
  BY ItemsStay, ConstantsAre DEF TypesInv, PhaseTypes
<1>1. ASSUME Through(PastMessages, "messages", m)' PROVE <<"message", m>> \in idmap'
  <2>1. CASE Through(PastMessages, "messages", m)
    BY <1>0, <2>1 DEF MessagesCame
  <2>2. CASE ApplyMessages /\ ~Through(PastMessages, "messages", m)
    <3>1. phase = "messages" /\ Moves(Batch, Len(Messages)) /\ phase \notin PastMessages
          /\ phase \in PastDups /\ phase \in PastRooms /\ phase \in PastTopics
      BY <2>2 DEF ApplyMessages, InPhase, PastMessages, PastReplies, PastAttachments, PastPlaceholders, PastHistory,
         PastDups, PastRooms, PastTopics, PastMembers, PastTopicMembers
    <3>2. m \in Cut(Len(Messages))
      BY <1>0, <1>1, <2>2, <3>1, BatchDone
    <3>3. userMap[Messages[m].user] # NoAccount
      BY <3>1, LegacyAssumption DEF PeopleCame
    <3>4. Messages[m].chat \in idmap
      <4>1. RoomIds \subseteq idmap /\ TopicIds \subseteq idmap
        BY <3>1 DEF ChatsCame, Through, TopicIds
      <4>2. Messages[m].chat \in Chats
        BY MigrateAssumption
      <4> QED  BY <4>1, <4>2 DEF Chats
    <3>5. idmap' = idmap \cup {<<"message", k>> : k \in {k \in Cut(Len(Messages)) :
                                 /\ <<"message", k>> \notin idmap
                                 /\ userMap[Messages[k].user] # NoAccount
                                 /\ Messages[k].chat \in idmap}}
      BY <2>2, RowsGrow DEF ApplyMessages
    <3> QED  BY <3>2, <3>3, <3>4, <3>5
  <2> QED  BY <1>0, <1>1, <2>1, <2>2, Onward
<1>2. ASSUME Through(PastReplies, "replies", m)', Messages[m].reply # 0 PROVE reply'[m]
  <2>1. CASE Through(PastReplies, "replies", m)
    BY <1>0, <1>2, <2>1, PostsStay DEF MessagesCame
  <2>2. CASE ApplyReplies /\ ~Through(PastReplies, "replies", m)
    <3>1. phase = "replies" /\ Moves(Batch, Len(Messages)) /\ phase \notin PastReplies /\ phase \in PastMessages
      BY <2>2 DEF ApplyReplies, InPhase, PastMessages, PastReplies, PastAttachments, PastPlaceholders, PastHistory
    <3>2. m \in Cut(Len(Messages))
      BY <1>0, <1>2, <2>2, <3>1, BatchDone
    <3>3. Messages[m].reply \in MessageIds
      BY <1>2, LegacyAssumption
    <3>4. Wired(m)
      BY <1>2, <3>1, <3>3 DEF Wired, MessagesCame, Through
    <3> QED  BY <2>2, <3>2, <3>4 DEF ApplyReplies
  <2> QED  BY <1>0, <1>2, <2>1, <2>2, Onward
<1>3. ASSUME reply'[m] PROVE Messages[m].reply # 0
  <2>1. CASE ApplyReplies
    BY <1>3, <2>1 DEF ApplyReplies, Wired, MessagesCame
  <2>2. CASE ~ApplyReplies
    <3>1. reply' = reply
      BY <2>2, StepIs, LeftAlone, ApplicationIs
         DEF Posts, ApplyMessages, ApplyAttachments, ApplyPlaceholders, postVars, vars, dbVars, messageVars
    <3> QED  BY <1>3, <3>1 DEF MessagesCame
  <2> QED  BY <2>1, <2>2
<1> QED  BY <1>1, <1>2, <1>3

LEMMA LinksStep ==
  ASSUME TypesInv, MessagesCame, FilesCame, [Next]_vars, NEW i \in DOMAIN WithFile,
         Through(PastAttachments, "attachments", i)'
  PROVE  <<"attachment", WithFile[i]>> \in idmap' /\ Named(WithFile[i])'
<1>0. /\ pos \in Nat /\ ItemTypes /\ i \in Nat \ {0} /\ i \in 1 .. Len(WithFile) /\ Len(WithFile) \in Nat
      /\ WithFile[i] \in MessageIds
  BY ConstantsAre DEF TypesInv, PhaseTypes
<1>1. CASE Through(PastAttachments, "attachments", i)
  <2>1. <<"attachment", WithFile[i]>> \in idmap /\ Named(WithFile[i])
    BY <1>1 DEF FilesCame, Named
  <2> QED  BY <1>0, <2>1, PostsStay, ItemsStay
<1>2. CASE ApplyAttachments /\ ~Through(PastAttachments, "attachments", i)
  <2> DEFINE mine == {WithFile[j] : j \in Cut(Len(WithFile))} \cap {m \in MessageIds : <<"message", m>> \in idmap}
  <2>1. /\ phase = "attachments" /\ Moves(Batch, Len(WithFile)) /\ phase \notin PastAttachments
        /\ phase \in PastMessages
    BY <1>2 DEF ApplyAttachments, InPhase, PastMessages, PastReplies, PastAttachments, PastPlaceholders, PastHistory
  <2>2. i \in Cut(Len(WithFile))
    BY <1>0, <1>2, <2>1, BatchDone
  <2>3. <<"message", WithFile[i]>> \in idmap
    BY <1>0, <2>1 DEF MessagesCame, Through
  <2>4. WithFile[i] \in mine
    BY <1>0, <2>2, <2>3
  <2>5. /\ linked' = [m \in MessageIds |-> linked[m] \/ m \in mine]
        /\ token' = [m \in MessageIds |-> token[m] \/ m \in mine]
    BY <1>2 DEF ApplyAttachments
  <2> HIDE DEF mine
  <2>6. linked'[WithFile[i]] /\ token'[WithFile[i]]
    BY <1>0, <2>4, <2>5
  <2>7. <<"attachment", WithFile[i]>> \in idmap'
    BY <1>0, <2>6, ItemTypesStep DEF ItemTypes
  <2> QED  BY <2>6, <2>7 DEF Named
<1> QED  BY <1>0, <1>1, <1>2, Onward

\* Only applyAttachments makes attachments.
LEMMA FilesMade ==
  ASSUME [Next]_vars, ~ApplyAttachments, NEW m, <<"attachment", m>> \in idmap' PROVE <<"attachment", m>> \in idmap
<1>1. CASE ApplyRooms \/ ApplyTopics \/ ApplyMessages
  <2>1. \E kind \in {"room", "channel", "message"} : \E S : Create({<<kind, x>> : x \in S})
    <3>1. CASE ApplyRooms
      BY <3>1 DEF ApplyRooms
    <3>2. CASE ApplyTopics
      BY <3>2 DEF ApplyTopics
    <3>3. CASE ApplyMessages
      BY <3>3 DEF ApplyMessages
    <3> QED  BY <1>1, <3>1, <3>2, <3>3
  <2>2. PICK kind \in {"room", "channel", "message"} : \E S : idmap' = idmap \cup {<<kind, x>> : x \in S}
    BY <2>1, RowsGrow
  <2>3. PICK S : idmap' = idmap \cup {<<kind, x>> : x \in S}
    BY <2>2
  <2> QED  BY <2>2, <2>3
<1>2. CASE ~(ApplyRooms \/ ApplyTopics \/ ApplyMessages)
  <2>1. UNCHANGED idmap
    BY <1>2, StepIs, LeftAlone, ApplicationIs
       DEF Rows, Posts, ApplyReplies, ApplyPlaceholders, postVars, vars, dbVars, itemVars
  <2> QED  BY <2>1
<1> QED  BY <1>1, <1>2

\* Only who has a file is linked to one.
LEMMA LinkedStep ==
  ASSUME TypesInv, FilesCame, [Next]_vars, NEW m \in MessageIds,
         <<"attachment", m>> \in idmap' \/ linked'[m] \/ token'[m]
  PROVE  m \in Range(WithFile)
<1>0. ~ApplyAttachments /\ <<"attachment", m>> \in idmap' => <<"attachment", m>> \in idmap
  BY FilesMade
<1>1. CASE ApplyAttachments
  <2>a. /\ idmap' = idmap \cup {<<"attachment", k>> : k \in {WithFile[i] : i \in FilesNow}}
        /\ FilesNow \subseteq Cut(Len(WithFile))
    BY <1>1, RowsGrow DEF ApplyAttachments, FilesNow
  <2>b. linked'[m] \/ token'[m] => linked[m] \/ token[m] \/ \E i \in Cut(Len(WithFile)) : m = WithFile[i]
    BY <1>1 DEF ApplyAttachments
  <2>1. \/ <<"attachment", m>> \in idmap \/ linked[m] \/ token[m]
        \/ \E i \in Cut(Len(WithFile)) : m = WithFile[i]
    BY <2>a, <2>b
  <2>2. Cut(Len(WithFile)) \subseteq DOMAIN WithFile
    BY ConstantsAre DEF Cut
  <2> QED  BY <2>1, <2>2 DEF FilesCame, Range
<1>2. CASE Application
  <2>1. \/ UNCHANGED <<token, linked>>
        \/ \E k \in MessageIds, keeps, names \in BOOLEAN :
             /\ token' = [token EXCEPT ![k] = @ /\ keeps]
             /\ linked' = [linked EXCEPT ![k] = names /\ <<"attachment", k>> \in idmap]
    BY <1>2, ApplicationIs
  <2>a. <<"attachment", m>> \in idmap' <=> <<"attachment", m>> \in idmap
    BY <1>2, ApplicationIs
  <2>2. <<"attachment", m>> \in idmap \/ linked[m] \/ token[m]
    BY <2>a, <2>1 DEF TypesInv, ItemTypes
  <2> QED  BY <2>2 DEF FilesCame
<1>3. CASE ~ApplyAttachments /\ ~Application
  <2>1. UNCHANGED <<linked, token>>
    BY <1>3, StepIs, LeftAlone
       DEF Posts, ApplyMessages, ApplyReplies, ApplyPlaceholders, postVars, vars, dbVars, messageVars
  <2> QED  BY <1>0, <1>3, <2>1 DEF FilesCame
<1> QED  BY <1>1, <1>2, <1>3

LEMMA MarkersStep ==
  ASSUME TypesInv, MessagesCame, FilesCame, [Next]_vars, NEW m \in BrokenEmpty
  PROVE  /\ text'[m] \in {"none", "empty", "marker", "edited"}
         /\ Through(PastPlaceholders, "placeholders", m)' => Rewritten(m)'
<1>0. /\ pos \in Nat /\ ItemTypes /\ m \in Nat \ {0} /\ m \in MessageIds /\ m \notin Range(WithFile)
      /\ Messages[m].text = "empty" /\ text[m] \in {"none", "empty", "marker", "edited"}
  BY ConstantsAre DEF TypesInv, PhaseTypes, BrokenEmpty, FilesCame
<1>1. text'[m] \in {"none", "empty", "marker", "edited"}
  <2>1. CASE ApplyMessages
    BY <1>0, <2>1 DEF ApplyMessages
  <2>2. CASE ApplyPlaceholders
    BY <1>0, <2>2 DEF ApplyPlaceholders
  <2>3. CASE Application
    <3>1. \/ UNCHANGED text
          \/ \E k \in MessageIds : text' = [text EXCEPT ![k] = "edited"]
      BY <2>3, ApplicationIs
    <3> QED  BY <1>0, <3>1 DEF ItemTypes
  <2>4. CASE ~ApplyMessages /\ ~ApplyPlaceholders /\ ~Application
    <3>1. UNCHANGED text
      BY <2>4, StepIs, LeftAlone
         DEF Posts, ApplyReplies, ApplyAttachments, postVars, vars, dbVars, messageVars
    <3> QED  BY <1>0, <3>1
  <2> QED  BY <2>1, <2>2, <2>3, <2>4
<1>2. ASSUME Through(PastPlaceholders, "placeholders", m)' PROVE Rewritten(m)'
  <2>1. CASE Through(PastPlaceholders, "placeholders", m)
    <3>1. Rewritten(m)
      BY <2>1 DEF FilesCame, Rewritten
    <3> QED  BY <1>0, <3>1, PostsStay
  <2>2. CASE ApplyPlaceholders /\ ~Through(PastPlaceholders, "placeholders", m)
    <3> DEFINE todo == {k \in BrokenEmpty : k > pos}
               now == FirstOf(todo, Batch)
    <3>1. phase = "placeholders" /\ phase \notin PastPlaceholders /\ phase \in PastMessages
      BY <2>2 DEF ApplyPlaceholders, InPhase, PastMessages, PastReplies, PastAttachments, PastPlaceholders, PastHistory
    <3>2. m \in todo /\ todo \in SUBSET Nat /\ (\A k \in todo : k <= Len(Messages)) /\ Len(Messages) \in Nat
      BY <1>0, <2>2, <3>1, ConstantsAre DEF Through, BrokenEmpty
    <3>3. /\ now \subseteq todo /\ now # {}
          /\ \A x \in now, y \in todo : y < x => y \in now
      BY <3>2, FirstOnes, ConstantsAre
    <3>4. m \in now
      <4>1. CASE todo \ now = {}
        BY <3>2, <4>1
      <4>2. CASE todo \ now # {}
        <5>1. now \in SUBSET Nat /\ \A k \in now : k <= Len(Messages)
          BY <3>2, <3>3
        <5>2. \E x \in now : \A k \in now : k <= x
          BY <3>2, <3>3, <5>1, GreatestOf
        <5>3. pos' = (CHOOSE x \in now : \A k \in now : k <= x) /\ phase' = phase
          BY <2>2, <4>2 DEF ApplyPlaceholders
        <5>4. pos' \in now
          BY <5>2, <5>3
        <5>5. m <= pos' /\ pos' \in Nat
          BY <1>2, <3>1, <5>1, <5>3, <5>4 DEF Through
        <5> QED  BY <1>0, <3>2, <3>3, <5>4, <5>5
      <4> QED  BY <4>1, <4>2
    <3>5. text[m] # "none"
      BY <1>0, <3>1 DEF MessagesCame, Through, ItemTypes
    <3>6. ~token[m] /\ ~linked[m]
      BY <1>0 DEF FilesCame
    <3>7. text' = [k \in MessageIds |->
             IF k \in now /\ text[k] = "empty" /\ ~token[k] /\ ~linked[k] THEN "marker" ELSE text[k]]
      BY <2>2 DEF ApplyPlaceholders
    <3> HIDE DEF now
    <3> QED  BY <1>0, <3>4, <3>5, <3>6, <3>7 DEF Rewritten
  <2> QED  BY <1>0, <1>2, <2>1, <2>2, Onward
<1> QED  BY <1>1, <1>2

LEMMA FilesCameStep ==
  ASSUME TypesInv, MessagesCame, FilesCame, [Next]_vars
  PROVE  FilesCame'
BY LinksStep, LinkedStep, MarkersStep DEF FilesCame, Named, Rewritten

LEMMA AvatarsCameStep ==
  ASSUME TypesInv, AvatarsCame, [Next]_vars
  PROVE  AvatarsCame'
<1> SUFFICES ASSUME phase' \in PastHistory, NEW n \in Accounts, avatar'[n] > 0
             PROVE  avatar'[n] \in photos'[n]
  BY DEF AvatarsCame
<1>1. CASE ApplyAvatarHistory
  <2>1. avatar' = avatar /\ photos' = [k \in Accounts |-> IF avatar[k] > 0 THEN photos[k] \cup {avatar[k]} ELSE photos[k]]
    BY <1>1 DEF ApplyAvatarHistory
  <2> QED  BY <2>1
<1>2. CASE phase \in PastHistory /\ ~ApplyAvatarHistory
  <2>1. avatar[n] > 0 => avatar[n] \in photos[n]
    BY <1>2 DEF AvatarsCame
  <2>2. photos' = photos /\ (avatar'[n] = avatar[n] \/ avatar'[n] = -1)
    <3>1. CASE Application
      <4>1. photos' = photos /\ (UNCHANGED avatar \/ \E k \in Accounts : avatar' = [avatar EXCEPT ![k] = -1])
        BY <3>1, ApplicationIs
      <4> QED  BY <4>1 DEF TypesInv, FileTypes
    <3>2. CASE ~Application
      <4>1. ~PutAvatar /\ ~NameAvatar
        BY <1>2, EachInItsPhase DEF RunsIn, PastHistory
      <4>2. UNCHANGED <<avatar, photos>>
        BY <1>2, <3>2, <4>1, StepIs, LeftAlone DEF fileVars, Pictures, vars, dbVars, profileVars
      <4> QED  BY <4>2
    <3> QED  BY <3>1, <3>2
  <2> QED  BY <2>1, <2>2
<1> QED  BY <1>1, <1>2, Onward

LEMMA CompleteInit == Init => CompleteInv
<1> SUFFICES ASSUME Init PROVE CompleteInv
  OBVIOUS
<1>1. /\ phase = "stopped" /\ idmap = {} /\ \A u \in DOMAIN UserName : userMap[u] = NoAccount
      /\ \A m \in MessageIds : ~reply[m] /\ ~linked[m] /\ ~token[m] /\ text[m] = "none"
  BY DEF Init
<1>2. \A past \in {PastHistory, PastPlaceholders, PastAttachments, PastReplies, PastMessages, PastTopicMembers,
                   PastMembers, PastTopics, PastRooms, PastDups, PastUsers} : phase \notin past
  BY <1>1 DEF PastHistory, PastPlaceholders, PastAttachments, PastReplies, PastMessages, PastTopicMembers,
              PastMembers, PastTopics, PastRooms, PastDups, PastUsers
<1>3. BrokenEmpty \subseteq MessageIds
  BY DEF BrokenEmpty
<1> QED  BY <1>1, <1>2, <1>3 DEF CompleteInv, PeopleCame, ChatsCame, SeatsCame, MessagesCame, FilesCame,
         AvatarsCame, Through

LEMMA CompleteStep == ASSUME TypesInv, CompleteInv, [Next]_vars PROVE CompleteInv'
<1>1. MessagesCame'
  BY MessagesCameStep DEF CompleteInv, MessagesCame
<1> QED  BY <1>1, PeopleCameStep, ChatsCameStep, SeatsCameStep, FilesCameStep, AvatarsCameStep DEF CompleteInv

\* A run that gets to its end has brought everything over, whichever runs did the work: people,
\* seats in rooms and topics, messages and what they answer, files and markers, and the history
\* of avatars (FinishedIsComplete).
THEOREM AFinishedRunIsComplete == Spec => []FinishedIsComplete
<1>1. TypesInv /\ CompleteInv => FinishedIsComplete
  <2> SUFFICES ASSUME TypesInv, CompleteInv, phase = "done" PROVE FinishedIsComplete
    BY DEF FinishedIsComplete
  <2>1. \A past \in {PastHistory, PastPlaceholders, PastAttachments, PastReplies, PastMessages, PastTopicMembers,
                     PastMembers, PastTopics, PastRooms, PastDups, PastUsers} : phase \in past
    BY DEF PastHistory, PastPlaceholders, PastAttachments, PastReplies, PastMessages, PastTopicMembers,
           PastMembers, PastTopics, PastRooms, PastDups, PastUsers
  <2>2. \A u \in DOMAIN UserName : userMap[u] # NoAccount /\ userMap[u] = userMap[PrimaryOf(u)]
    BY <2>1 DEF CompleteInv, PeopleCame
  <2>3. ASSUME NEW i \in DOMAIN Members, NEW c \in Chats,
               c = <<"room", Members[i].room>> \/ (c \in TopicIds /\ TopicRoom[c[2]] = Members[i].room)
        PROVE  Seated(<<c, userMap[Members[i].user]>>)
    <3>1. CASE c = <<"room", Members[i].room>>
      BY <2>1, <3>1 DEF CompleteInv, SeatsCame, SeatOf, Through
    <3>2. CASE c \in TopicIds /\ TopicRoom[c[2]] = Members[i].room
      <4>1. PICK t \in DOMAIN TopicRoom : c = <<"channel", t>>
        BY <3>2 DEF TopicIds
      <4>2. Members[i].room = TopicRoom[t]
        BY <3>2, <4>1
      <4> QED  BY <2>1, <4>1, <4>2 DEF CompleteInv, SeatsCame, Through
    <3> QED  BY <2>3, <3>1, <3>2
  <2>4. ASSUME NEW m \in MessageIds
        PROVE  /\ <<"message", m>> \in idmap /\ (reply[m] <=> Messages[m].reply # 0)
               /\ m \in Range(WithFile) => /\ <<"attachment", m>> \in idmap
                                           /\ (linked[m] /\ token[m]) \/ text[m] = "edited"
               /\ m \in BrokenEmpty => text[m] \in {"marker", "edited"}
    <3>1. <<"message", m>> \in idmap /\ (reply[m] <=> Messages[m].reply # 0)
      BY <2>1 DEF CompleteInv, MessagesCame, Through
    <3>2. m \in Range(WithFile) => /\ <<"attachment", m>> \in idmap
                                   /\ (linked[m] /\ token[m]) \/ text[m] = "edited"
      BY <2>1 DEF CompleteInv, FilesCame, Through, Range
    <3>3. m \in BrokenEmpty => text[m] \in {"marker", "edited"}
      BY <2>1 DEF CompleteInv, FilesCame, Through
    <3> QED  BY <3>1, <3>2, <3>3
  <2>5. \A n \in Accounts : avatar[n] > 0 => avatar[n] \in photos[n]
    BY <2>1 DEF CompleteInv, AvatarsCame
  <2> QED  BY <2>2, <2>3, <2>4, <2>5 DEF FinishedIsComplete, Seated
<1>2. Spec => []CompleteInv
  BY CompleteInit, CompleteStep, TypesAlways, PTL DEF Spec
<1> QED  BY <1>1, <1>2, TypesAlways, PTL
-----------------------------------------------------------------------------
(* A run after a whole run.                                                *)

PastBans == {"summary", "done"}
PastTracks == PastBans \cup {"bans"}
PastReactions == PastTracks \cup {"tracks"}
PastAvatars == PastHistory \cup {"history"}

\* The avatars in their order: how many come before that of a user.
Rank(u) == Cardinality({v \in Avatars : v < u})

TopicSeat(t, i) == <<<<"channel", t>>, userMap[Members[i].user]>>

\* A list has all the tracks of a legacy user, or no room for more.
Served(list, u) == Music[u] \subseteq list \/ Full(list)
Grown(list, new) == list \subseteq new /\ (Full(list) => new = list)

\* Nothing is left to do.
Steady ==
  /\ \A u \in DOMAIN UserName : userMap[u] # NoAccount
  /\ Chats \subseteq idmap
  /\ \A i \in DOMAIN Members : role[SeatOf(Members[i])] = RoomRole(Members[i])
  /\ \A t \in DOMAIN TopicRoom, i \in DOMAIN Members :
       Members[i].room = TopicRoom[t] => role[TopicSeat(t, i)] # "none"
  /\ \A m \in MessageIds : <<"message", m>> \in idmap /\ (Messages[m].reply # 0 => reply[m])
  /\ \A m \in Range(WithFile) : linked[m] /\ token[m] /\ <<"attachment", m>> \in idmap
  /\ \A m \in BrokenEmpty : text[m] # "empty"
  /\ \A u \in Avatars : avatar[userMap[u]] > 0
  /\ \A n \in Accounts : avatar[n] > 0 => avatar[n] \in photos[n]
  /\ \A i \in DOMAIN Reactions : react[<<Reactions[i].msg, userMap[Reactions[i].user]>>] = "parent"
  /\ \A u \in DOMAIN UserName : Served(saved[userMap[u]], u)
  /\ \A i \in DOMAIN Bans : <<Bans[i].room, userMap[Bans[i].user]>> \in banned

\* What the phases of an undisturbed run leave, besides CompleteInv.
QuietSeats ==
  /\ \A i \in DOMAIN Members :
       Through(PastMembers, "members", i) => role[SeatOf(Members[i])] = RoomRole(Members[i])
  /\ \A t \in DOMAIN TopicRoom, i \in DOMAIN Members :
       Members[i].room = TopicRoom[t] /\ Through(PastTopicMembers, "topicMembers", t) =>
         role[TopicSeat(t, i)] # "none"
QuietFiles ==
  \A i \in DOMAIN WithFile : Through(PastAttachments, "attachments", i) =>
    linked[WithFile[i]] /\ token[WithFile[i]] /\ <<"attachment", WithFile[i]>> \in idmap
QuietAvatars ==
  \A u \in Avatars : phase \in PastAvatars \/ (phase = "avatars" /\ Rank(u) < pos) => avatar[userMap[u]] > 0
QuietReactions ==
  \A i \in DOMAIN Reactions : Through(PastReactions, "reactions", i) =>
    react[<<Reactions[i].msg, userMap[Reactions[i].user]>>] = "parent"
QuietTracks ==
  \A u \in DOMAIN UserName : Through(PastTracks, "tracks", u) => Served(saved[userMap[u]], u)
QuietBans ==
  \A i \in DOMAIN Bans : Through(PastBans, "bans", i) => <<Bans[i].room, userMap[Bans[i].user]>> \in banned
Quiet == QuietSeats /\ QuietFiles /\ QuietAvatars /\ QuietReactions /\ QuietTracks /\ QuietBans

\* What PutAvatar and PutTracks carry to the statement after them.
Carried ==
  /\ phase = "avatars" /\ Avatars # {} => pos < Cardinality(Avatars)
  /\ phase = "avatars" /\ held # {} =>
       /\ Avatars # {} /\ AvatarOwner # NoAccount /\ objects[<<"avatar", AvatarOwner>>] > 0
       /\ settled # "yes"
  /\ phase = "tracks" /\ held # {} =>
       /\ pos < Len(Music) /\ Listener # NoAccount
       /\ settled # "no" => Served(held \ {"list"}, pos + 1) /\ Grown(saved[Listener], held \ {"list"})
       /\ settled = "yes" => held = saved[Listener] \cup {"list"}
  /\ \A n \in Accounts : "list" \notin saved[n]

Merged == \A u \in DOMAIN UserName : userMap[u] \in MayBe(u) \cup {NoAccount}
IsOver(f, D) == f = [x \in D |-> f[x]]
OtherTypes ==
  /\ IsOver(text, MessageIds) /\ IsOver(photos, Accounts) /\ IsOver(saved, Accounts)
  /\ IsOver(react, MessageIds \X Accounts)
  /\ \A f \in {token, linked, reply} : f \in [MessageIds -> BOOLEAN]
-----------------------------------------------------------------------------
\* The avatars are counted off one by one.
LEMMA RankIs ==
  /\ IsFiniteSet(Avatars) /\ Avatars \in SUBSET Nat /\ Cardinality(Avatars) \in Nat
  /\ \A u \in Avatars : Rank(u) \in Nat /\ Rank(u) < Cardinality(Avatars)
<1>1. Avatars \in SUBSET Nat /\ \A u \in Avatars : u <= Len(UserName)
  BY ConstantsAre, LegacyAssumption
<1>2. IsFiniteSet(Avatars) /\ Cardinality(Avatars) \in Nat
  BY <1>1, ConstantsAre, FS_BoundedSetOfNaturals, FS_CardinalityType
<1>3. ASSUME NEW u \in Avatars PROVE Rank(u) \in Nat /\ Rank(u) < Cardinality(Avatars)
  <2> DEFINE below == {v \in Avatars : v < u}
  <2>1. below \in SUBSET Avatars /\ below # Avatars
    <3>1. u \in Nat /\ ~(u < u)
      BY <1>1
    <3> QED  BY <3>1
  <2>2. /\ IsFiniteSet(below) /\ Cardinality(below) <= Cardinality(Avatars)
        /\ Cardinality(Avatars) # Cardinality(below)
    BY <1>2, <2>1, FS_Subset
  <2>3. Cardinality(below) \in Nat
    BY <2>2, FS_CardinalityType
  <2>4. Rank(u) = Cardinality(below)
    BY DEF Rank
  <2> HIDE DEF below
  <2> QED  BY <1>2, <2>2, <2>3, <2>4
<1> QED  BY <1>1, <1>2, <1>3

LEMMA RankGrows ==
  ASSUME NEW u \in Avatars, NEW v \in Avatars, u < v
  PROVE  Rank(u) < Rank(v)
<1> DEFINE low == {w \in Avatars : w < u}
           high == {w \in Avatars : w < v}
<1>1. low \in SUBSET high /\ u \in high /\ u \notin low
  <2>1. \A w \in Avatars : w \in Nat
    BY RankIs
  <2> QED  BY <2>1
<1>2. high \in SUBSET Avatars
  OBVIOUS
<1>3. IsFiniteSet(high)
  BY <1>2, RankIs, FS_Subset
<1>4. Cardinality(low) <= Cardinality(high) /\ Cardinality(high) # Cardinality(low)
  BY <1>1, <1>3, FS_Subset
<1>5. Rank(u) = Cardinality(low) /\ Rank(v) = Cardinality(high) /\ Rank(u) \in Nat /\ Rank(v) \in Nat
  BY RankIs DEF Rank
<1> HIDE DEF low, high
<1> QED  BY <1>4, <1>5

LEMMA RankThere ==
  ASSUME NEW p \in Nat, p < Cardinality(Avatars)
  PROVE  \E u \in Avatars : Rank(u) = p
<1> SUFFICES ASSUME \A u \in Avatars : Rank(u) # p PROVE FALSE
  OBVIOUS
<1> DEFINE after == {u \in Avatars : p < Rank(u)}
           early == {u \in Avatars : Rank(u) < p}
<1>1. \A u \in Avatars : u \in Nat /\ Rank(u) \in Nat /\ u <= Len(UserName)
  BY RankIs, ConstantsAre, LegacyAssumption
<1>2. \A u \in Avatars : u \in after \/ u \in early
  BY <1>1
\* The last of those before the gap has all others before it.
<1>3. ASSUME NEW S \in SUBSET Avatars, S # {}, \A u \in S, v \in Avatars : v < u => v \in S
      PROVE  \E x \in S : Cardinality(S) = Rank(x) + 1
  <2>1. PICK x \in S : \A y \in S : y <= x
    <3>1. S \in SUBSET Nat /\ \A y \in S : y <= Len(UserName)
      BY <1>1, <1>3
    <3> QED  BY <1>3, <3>1, ConstantsAre, GreatestOf
  <2> DEFINE below == {v \in Avatars : v < x}
  <2>2. S = below \cup {x} /\ x \notin below
    <3>1. x \in Nat /\ \A v \in S : v \in Nat /\ (v = x \/ v < x)
      BY <1>1, <1>3, <2>1
    <3>2. below \subseteq S
      BY <1>3, <2>1
    <3>3. x \notin below
      BY <3>1
    <3>4. \A v \in S : v = x \/ v \in below
      BY <1>3, <3>1
    <3> QED  BY <2>1, <3>2, <3>3, <3>4
  <2>3. below \in SUBSET Avatars
    OBVIOUS
  <2>4. IsFiniteSet(below)
    BY <2>3, RankIs, FS_Subset
  <2>5. Cardinality(S) = Cardinality(below) + 1
    BY <2>2, <2>4, FS_AddElement
  <2> QED  BY <2>5 DEF Rank
<1>4. after # {}
  <2>1. Avatars # {}
    BY FS_EmptySet
  <2>2. PICK x \in Avatars : Cardinality(Avatars) = Rank(x) + 1
    BY <1>3, <2>1
  <2>3. x \in after
    BY <1>1, <1>2, <2>2
  <2> QED  BY <2>3
<1>5. PICK z \in after : \A y \in after : z <= y
  <2>1. after \in SUBSET Nat
    BY <1>1
  <2> QED  BY <1>4, <2>1, LeastOf
<1> DEFINE S == {v \in Avatars : v < z}
<1>6. /\ S \in SUBSET Avatars
      /\ \A u \in S, v \in Avatars : v < u => v \in S
      /\ \A u \in S : u \in early
  <2>1. z \in Nat
    BY <1>1
  <2>2. ASSUME NEW u \in S PROVE u \notin after
    <3>1. u \in Nat
      BY <1>1
    <3> QED  BY <1>5, <2>1, <2>2, <3>1
  <2> QED  BY <1>1, <1>2, <2>1, <2>2
<1>7. Rank(z) = Cardinality(S) /\ p < Rank(z)
  BY DEF Rank
<1>8. S # {}
  BY <1>7, FS_EmptySet
<1>9. PICK x \in S : Cardinality(S) = Rank(x) + 1
  BY <1>3, <1>6, <1>8
<1>10. Rank(x) < p /\ Rank(x) \in Nat
  BY <1>1, <1>6
<1> HIDE DEF S
<1> QED  BY <1>7, <1>9, <1>10

\* Whose avatar is next.
LEMMA OwnerIs ==
  ASSUME pos \in Nat
  PROVE  /\ \A u \in Avatars : Rank(u) = pos => AvatarOwner = userMap[u]
         /\ pos < Cardinality(Avatars) => \E u \in Avatars : Rank(u) = pos /\ AvatarOwner = userMap[u]
<1>1. ASSUME NEW u \in Avatars, NEW v \in Avatars, Rank(u) = pos, Rank(v) = pos PROVE u = v
  <2>1. u \in Nat /\ v \in Nat /\ ~(u < v) /\ ~(v < u)
    BY <1>1, RankIs, RankGrows
  <2> QED  BY <2>1
<1>2. AvatarOwner = userMap[CHOOSE u \in Avatars : Rank(u) = pos]
  BY DEF AvatarOwner, Rank
<1>3. ASSUME NEW u \in Avatars, Rank(u) = pos PROVE AvatarOwner = userMap[u]
  BY <1>1, <1>2, <1>3
<1> QED  BY <1>3, RankThere

\* An undisturbed run begins with its first phase, and ends with Finish.
LEMMA QuietFrom ==
  ASSUME PhaseTypes, [Next]_vars
  PROVE  /\ settled' # "no" => ~Application
         /\ settled' = "quiet" => settled = "quiet" \/ (phase' = "users" /\ held' = {})
         /\ settled' = "yes" => settled = "yes" \/ (settled = "quiet" /\ Finish)
<1>0. settled \in {"no", "quiet", "yes"}
  BY DEF PhaseTypes
<1>1. CASE Users \/ Rows \/ Joins \/ Posts
  BY <1>0, <1>1, EachInItsPhase, ApplicationIs DEF Users, Rows, Joins, Posts, ApplyUsers, ApplyDups, ApplyRooms, ApplyTopics,
     ApplyMembers, ApplyTopicMembers, ApplyMessages, ApplyReplies, ApplyAttachments, ApplyPlaceholders, InPhase
<1>2. CASE Pictures \/ Rest
  BY <1>0, <1>2, ApplicationIs DEF Pictures, Rest, PutAvatar, NameAvatar, ApplyAvatarHistory, ApplyReactions, PutTracks,
     WriteTracks, ApplyBans, Finish, InPhase, Unsettled
<1>3. CASE Breaks
  BY <1>0, <1>3, ApplicationIs DEF Breaks, Start, Stop, StopAmongUploads, Unsettled
<1>4. CASE Application
  BY <1>4, ApplicationIs
<1>5. CASE UNCHANGED vars
  BY <1>0, <1>5, ApplicationIs DEF vars, runVars
<1> QED  BY <1>1, <1>2, <1>3, <1>4, <1>5, StepIs

\* What LeftAlone does not speak of.
LEMMA OthersLeftAlone ==
  ASSUME [Next]_vars, ~Application
  PROVE  /\ ~ApplyReactions => UNCHANGED react
         /\ ~ApplyBans => UNCHANGED banned
         /\ ~WriteTracks => UNCHANGED saved
         /\ ~NameAvatar => UNCHANGED avatar
         /\ ~Joins => UNCHANGED role
         /\ ~ApplyAttachments => UNCHANGED <<linked, token>>
<1> USE DEF userVars, itemVars, messageVars, profileVars, dbVars
<1>1. CASE Users \/ Rows \/ Joins \/ Posts
  BY <1>1 DEF Users, Rows, Joins, Posts, ApplyUsers, ApplyDups, ApplyRooms, ApplyTopics,
     ApplyMembers, ApplyTopicMembers, ApplyMessages, ApplyReplies, ApplyAttachments, ApplyPlaceholders
<1>2. CASE Pictures \/ Rest
  BY <1>2 DEF Pictures, Rest, PutAvatar, NameAvatar, ApplyAvatarHistory, ApplyReactions, PutTracks,
     WriteTracks, ApplyBans, Finish
<1>3. CASE Breaks
  BY <1>3 DEF Breaks, Start, Stop, StopAmongUploads
<1>4. CASE UNCHANGED vars
  BY <1>4 DEF vars
<1> QED  BY <1>1, <1>2, <1>3, <1>4, StepIs

\* How far the later phases are.
LEMMA OnwardStill ==
  ASSUME [Next]_vars
  PROVE  /\ phase' \in PastAvatars => phase \in PastAvatars \/ PutAvatar \/ NameAvatar
         /\ \A i \in Nat \ {0} :
              /\ Through(PastReactions, "reactions", i)' => Through(PastReactions, "reactions", i) \/ ApplyReactions
              /\ Through(PastTracks, "tracks", i)' => Through(PastTracks, "tracks", i) \/ PutTracks \/ WriteTracks
              /\ Through(PastBans, "bans", i)' => Through(PastBans, "bans", i) \/ ApplyBans
<1> USE DEF Through, PastAvatars, PastHistory, PastReactions, PastTracks, PastBans
<1>1. CASE UNCHANGED <<phase, pos>>
  BY <1>1
<1>2. CASE Breaks
  BY <1>2 DEF Breaks, Start, Stop, StopAmongUploads
<1>3. CASE Users \/ Rows \/ Joins
  BY <1>3, EachInItsPhase, PhasesInOrder DEF Users, Rows, Joins, RunsIn
<1>4. CASE Posts
  BY <1>4, EachInItsPhase, PhasesInOrder DEF Posts, RunsIn
<1>5. CASE Pictures \/ Rest
  BY <1>5, EachInItsPhase, PhasesInOrder DEF Pictures, Rest, RunsIn
<1> QED  BY <1>1, <1>2, <1>3, <1>4, <1>5, StepIs, ApplicationIs DEF vars, runVars

\* Each legacy user comes to an account that may be his.
LEMMA MergedStep == ASSUME UserTypes, Merged, [Next]_vars PROVE Merged'
<1> SUFFICES ASSUME NEW u \in DOMAIN UserName PROVE userMap'[u] \in MayBe(u) \cup {NoAccount}
  BY DEF Merged
<1>1. CASE ApplyUsers
  <2>1. \A n : MergeTo(n) \in {n} \cup {MailOf[k] : k \in {n} \cap DOMAIN MailOf}
    BY DEF MergeTo
  <2> QED  BY <1>1, <2>1 DEF ApplyUsers, Merged, MayBe
<1>2. CASE ApplyDups
  <2>1. PrimaryOf(u) \in DOMAIN UserName /\ UserName[PrimaryOf(u)] = UserName[u]
    BY PrimaryStands
  <2>2. userMap[PrimaryOf(u)] \in MayBe(u) \cup {NoAccount}
    BY <2>1 DEF Merged, MayBe
  <2> QED  BY <1>2, <2>2 DEF ApplyDups, Merged
<1>3. CASE ~Users
  BY <1>3, StepIs, LeftAlone, ApplicationIs DEF peopleVars, vars, dbVars, userVars, Merged
<1> QED  BY <1>1, <1>2, <1>3 DEF Users

\* The tables that are functions.
LEMMA OverExcept ==
  ASSUME NEW f, NEW D, IsOver(f, D), NEW x, NEW y PROVE IsOver([f EXCEPT ![x] = y], D)
BY DEF IsOver

LEMMA SameOver ==
  ASSUME NEW f, NEW g, NEW D, IsOver(f, D), IsOver(g, D), \A x \in D : f[x] = g[x] PROVE f = g
BY DEF IsOver

LEMMA OtherTypesStep == ASSUME OtherTypes, [Next]_vars PROVE OtherTypes'
<1>1. IsOver(text', MessageIds) /\ token' \in [MessageIds -> BOOLEAN] /\ linked' \in [MessageIds -> BOOLEAN]
  <2>1. CASE ApplyMessages \/ ApplyPlaceholders \/ ApplyAttachments
    BY <2>1 DEF ApplyMessages, ApplyPlaceholders, ApplyAttachments, OtherTypes, IsOver
  <2>2. CASE Application
    <3>1. \/ UNCHANGED <<text, token, linked>>
          \/ \E m \in MessageIds, keeps, names \in BOOLEAN :
               /\ text' = [text EXCEPT ![m] = "edited"]
               /\ token' = [token EXCEPT ![m] = @ /\ keeps]
               /\ linked' = [linked EXCEPT ![m] = names /\ <<"attachment", m>> \in idmap]
      BY <2>2, ApplicationIs
    <3>2. CASE UNCHANGED <<text, token, linked>>
      BY <3>2 DEF OtherTypes
    <3>3. ASSUME NEW m \in MessageIds, NEW keeps \in BOOLEAN, NEW names \in BOOLEAN,
                 text' = [text EXCEPT ![m] = "edited"], token' = [token EXCEPT ![m] = @ /\ keeps],
                 linked' = [linked EXCEPT ![m] = names /\ <<"attachment", m>> \in idmap]
          PROVE  /\ IsOver(text', MessageIds) /\ token' \in [MessageIds -> BOOLEAN]
                 /\ linked' \in [MessageIds -> BOOLEAN]
      BY <3>3 DEF OtherTypes, IsOver
    <3> QED  BY <3>1, <3>2, <3>3
  <2>3. CASE ~(ApplyMessages \/ ApplyPlaceholders \/ ApplyAttachments \/ Application)
    <3>1. UNCHANGED <<text, token, linked>>
      BY <2>3, StepIs, LeftAlone DEF Posts, ApplyReplies, postVars, vars, dbVars, messageVars
    <3> QED  BY <3>1 DEF OtherTypes
  <2> QED  BY <2>1, <2>2, <2>3
<1>2. reply' \in [MessageIds -> BOOLEAN]
  <2>1. CASE ApplyReplies
    BY <2>1 DEF ApplyReplies, OtherTypes, IsOver
  <2>2. CASE ~ApplyReplies
    <3>1. UNCHANGED reply
      BY <2>2, StepIs, LeftAlone, ApplicationIs
         DEF Posts, ApplyMessages, ApplyAttachments, ApplyPlaceholders, postVars, vars, dbVars, messageVars
    <3> QED  BY <3>1 DEF OtherTypes
  <2> QED  BY <2>1, <2>2
<1>3. IsOver(photos', Accounts) /\ IsOver(saved', Accounts)
  <2>1. CASE ApplyAvatarHistory
    BY <2>1 DEF ApplyAvatarHistory, OtherTypes, IsOver
  <2>2. CASE WriteTracks
    BY <2>2, OverExcept DEF WriteTracks, OtherTypes
  <2>3. CASE Application
    <3>1. /\ UNCHANGED photos
          /\ \/ UNCHANGED saved
             \/ \E k \in Accounts : \E ts : saved' = [saved EXCEPT ![k] = ts]
      BY <2>3, ApplicationIs
    <3>2. ASSUME NEW k, NEW ts PROVE IsOver([saved EXCEPT ![k] = ts], Accounts)
      BY OverExcept DEF OtherTypes
    <3> QED  BY <3>1, <3>2 DEF OtherTypes
  <2>4. CASE ~(ApplyAvatarHistory \/ WriteTracks \/ Application)
    <3>1. UNCHANGED <<photos, saved>>
      BY <2>4, StepIs, LeftAlone, OthersLeftAlone
         DEF Pictures, PutAvatar, NameAvatar, fileVars, vars, dbVars, profileVars
    <3> QED  BY <3>1 DEF OtherTypes
  <2> QED  BY <2>1, <2>2, <2>3, <2>4
<1>4. IsOver(react', MessageIds \X Accounts)
  <2>1. CASE ApplyReactions
    <3>1. DOMAIN react = MessageIds \X Accounts
      BY DEF OtherTypes, IsOver
    <3> QED  BY <2>1, <3>1 DEF ApplyReactions, IsOver
  <2>2. CASE Application
    <3>1. UNCHANGED react \/ \E s, to : react' = [react EXCEPT ![s] = to]
      <4>1. CASE \E s \in MessageIds \X Accounts : Reacts(s)
        BY <4>1 DEF Reacts
      <4>2. CASE ~\E s \in MessageIds \X Accounts : Reacts(s)
        BY <2>2, <4>2 DEF Application, Registers, ChoosesAvatar, SavesTrack, DropsTrack, SetsRole, EditsMessage
      <4> QED  BY <4>1, <4>2
    <3> QED  BY <3>1, OverExcept DEF OtherTypes
  <2>3. CASE ~ApplyReactions /\ ~Application
    BY <2>3, OthersLeftAlone DEF OtherTypes
  <2> QED  BY <2>1, <2>2, <2>3
<1> QED  BY <1>1, <1>2, <1>3, <1>4 DEF OtherTypes

\* What is carried to the statement that names it.
LEMMA CarriedAvatar ==
  ASSUME TypesInv, Carried, settled = "yes" => Steady, [Next]_vars, phase' = "avatars"
  PROVE  /\ Avatars # {} => pos' < Cardinality(Avatars)
         /\ held' # {} => /\ Avatars # {} /\ AvatarOwner' # NoAccount /\ objects'[<<"avatar", AvatarOwner'>>] > 0
                          /\ settled' # "yes"
<1>0. /\ pos \in Nat /\ Cardinality(Avatars) \in Nat /\ (Avatars # {} => Cardinality(Avatars) > 0)
      /\ FileTypes
  BY RankIs, FS_EmptySet DEF TypesInv, PhaseTypes
<1>1. CASE PutAvatar
  <2>1. phase = "avatars" /\ held = {} /\ UNCHANGED userMap
    BY <1>1 DEF PutAvatar, Carries, dbVars, userVars
  <2>2. Avatars # {} => pos < Cardinality(Avatars)
    BY <2>1 DEF Carried
  <2>3. CASE Moves(1, Cardinality(Avatars)) /\ held' = {}
    BY <1>0, <2>1, <2>3, PhasesInOrder DEF Moves
  <2>4. CASE /\ WantsAvatar /\ Uploaded({<<"avatar", AvatarOwner>>})
             /\ held' = {AvatarOwner} /\ UNCHANGED <<phase, pos, settled>>
    <3>1. Avatars # {} /\ AvatarOwner # NoAccount /\ ~(avatar[AvatarOwner] > 0)
      <4>1. Avatars # {} /\ AvatarOwner # NoAccount /\ avatar[AvatarOwner] <= 0
        BY <2>4 DEF WantsAvatar
      <4>2. PICK u \in Avatars : AvatarOwner = userMap[u]
        BY <1>0, <2>2, <4>1, OwnerIs
      <4>3. AvatarOwner \in Accounts
        BY <4>1, <4>2, LegacyAssumption, MigrateAssumption DEF TypesInv, UserTypes
      <4>4. avatar[AvatarOwner] \in Int
        BY <1>0, <4>3 DEF FileTypes
      <4> QED  BY <4>1, <4>4
    <3>2. PICK u \in Avatars : AvatarOwner = userMap[u]
      BY <1>0, <2>2, <3>1, OwnerIs
    <3>3. AvatarOwner \in Accounts
      BY <3>1, <3>2, LegacyAssumption, MigrateAssumption DEF TypesInv, UserTypes
    <3>4. objects'[<<"avatar", AvatarOwner>>] > 0
      <4>1. <<"avatar", AvatarOwner>> \in {<<"avatar", AvatarOwner>>} \cap FileIds
        BY <3>3, FilesThere
      <4> QED  BY <1>0, <2>4, <4>1, UploadedGrows DEF FileTypes
    <3>5. AvatarOwner' = AvatarOwner
      BY <2>1, <2>4 DEF AvatarOwner
    <3>6. settled # "yes"
      <4>1. Steady => avatar[userMap[u]] > 0
        BY DEF Steady
      <4> QED  BY <3>1, <3>2, <4>1
    <3> QED  BY <2>2, <2>4, <3>1, <3>4, <3>5, <3>6
  <2> QED  BY <1>1, <2>3, <2>4 DEF PutAvatar
<1>2. CASE NameAvatar
  <2>1. phase = "avatars" /\ held' = {} /\ Moves(1, Cardinality(Avatars))
    BY <1>2 DEF NameAvatar, Carries
  <2> QED  BY <1>0, <2>1, PhasesInOrder DEF Moves
<1>3. CASE ApplyPlaceholders
  <2>1. held' = {} /\ phase = "placeholders"
    BY <1>3 DEF ApplyPlaceholders, InPhase
  <2>2. pos' = 0
    BY <1>3, <2>1, EachInItsPhase, PhasesInOrder DEF RunsIn
  <2> QED  BY <1>0, <2>1, <2>2
<1>4. CASE Users \/ Rows \/ Joins \/ ApplyMessages \/ ApplyReplies \/ ApplyAttachments \/ ApplyAvatarHistory \/ Rest
  BY <1>4, EachInItsPhase, PhasesInOrder DEF Users, Rows, Joins, Rest, RunsIn
<1>5. CASE Breaks
  BY <1>5 DEF Breaks, Start, Stop, StopAmongUploads
<1>6. CASE Application
  <2>1. UNCHANGED <<phase, pos, held, userMap, objects>> /\ settled' = "no"
    BY <1>6, ApplicationIs
  <2>2. AvatarOwner' = AvatarOwner
    BY <2>1 DEF AvatarOwner
  <2> QED  BY <2>1, <2>2 DEF Carried
<1>7. CASE UNCHANGED vars
  <2>1. UNCHANGED <<phase, pos, held, userMap, objects, settled>>
    BY <1>7 DEF vars, runVars, dbVars, userVars
  <2>2. AvatarOwner' = AvatarOwner
    BY <2>1 DEF AvatarOwner
  <2> QED  BY <2>1, <2>2 DEF Carried
<1> QED  BY <1>1, <1>2, <1>3, <1>4, <1>5, <1>6, <1>7, StepIs DEF Posts, Pictures

LEMMA ListApart == ASSUME NEW u \in DOMAIN UserName PROVE u \in DOMAIN Music /\ "list" \notin Music[u]
<1>1. u \in DOMAIN Music /\ Music[u] \in Range(Music)
  BY ConstantsAre, LegacyAssumption DEF Range
<1>2. Music[u] \subseteq Tracks
  BY <1>1 DEF Tracks
<1> QED  BY <1>1, <1>2, MigrateAssumption

LEMMA CarriedTracks ==
  ASSUME TypesInv, Carried, settled = "yes" => Steady, [Next]_vars, phase' = "tracks", held' # {}
  PROVE  /\ pos' < Len(Music) /\ Listener' # NoAccount
         /\ settled' # "no" => Served(held' \ {"list"}, pos' + 1) /\ Grown(saved'[Listener'], held' \ {"list"})
         /\ settled' = "yes" => held' = saved'[Listener'] \cup {"list"}
<1>0. pos \in Nat /\ Len(Music) \in Nat
  BY ConstantsAre DEF TypesInv, PhaseTypes
<1>1. CASE PutTracks
  <2>1. phase = "tracks" /\ UNCHANGED <<userMap, saved>> /\ ~(pos >= Len(Music) \/ Listener = NoAccount)
    BY <1>1 DEF PutTracks, Carries, dbVars, userVars, profileVars
  <2>0. PICK up \in SUBSET NewTracks :
          /\ \E add \in Fitting(saved[Listener], up) : held' = saved[Listener] \cup add \cup {"list"}
          /\ IF up = NewTracks THEN UNCHANGED settled ELSE Unsettled
          /\ UNCHANGED <<phase, pos>>
    BY <1>1, <2>1 DEF PutTracks
  <2>c. PICK add \in Fitting(saved[Listener], up) : held' = saved[Listener] \cup add \cup {"list"}
    BY <2>0
  <2>2. /\ held' = saved[Listener] \cup add \cup {"list"} /\ add \subseteq up
        /\ (Full(saved[Listener]) => add = {})
        /\ Full(saved[Listener]) \/ add = up \/ Full(saved[Listener] \cup add)
        /\ IF up = NewTracks THEN UNCHANGED settled ELSE Unsettled
        /\ UNCHANGED <<phase, pos>>
    BY <2>0, <2>c, WhatFits
  <2>3. Listener' = Listener
    BY <2>1, <2>2 DEF Listener
  <2>4. pos < Len(Music) /\ pos + 1 \in DOMAIN UserName
    BY <1>0, <2>1, ConstantsAre
  <2>a. "list" \notin Music[pos + 1] /\ "list" \notin saved[Listener] /\ Listener \in Accounts
    <3>1. Listener \in Accounts
      BY <2>1, <2>4 DEF Listener, TypesInv, UserTypes
    <3> QED  BY <2>4, <3>1, ListApart DEF Carried
  <2>b. held' \ {"list"} = saved[Listener] \cup add
    BY <2>2, <2>a DEF NewTracks
  <2>5. ASSUME settled' # "no"
        PROVE  Served(held' \ {"list"}, pos + 1) /\ Grown(saved[Listener], held' \ {"list"})
    <3>1. Grown(saved[Listener], saved[Listener] \cup add)
      <4>1. Full(saved[Listener]) => saved[Listener] \cup add = saved[Listener]
        BY <2>2
      <4> QED  BY <4>1 DEF Grown
    <3>2. Served(saved[Listener] \cup add, pos + 1)
      <4>1. CASE up = NewTracks
        <5>1. Full(saved[Listener]) => saved[Listener] \cup add = saved[Listener]
          BY <2>2
        <5>2. add = up => Music[pos + 1] \subseteq saved[Listener] \cup add
          BY <4>1 DEF NewTracks
        <5> QED  BY <2>2, <5>1, <5>2 DEF Served
      <4>2. CASE up # NewTracks
        <5>1. settled = "yes"
          BY <2>2, <2>5, <4>2 DEF Unsettled
        <5>2. Served(saved[Listener], pos + 1)
          BY <2>4, <5>1 DEF Steady, Listener
        <5> QED  BY <3>1, <5>2 DEF Served, Grown
      <4> QED  BY <4>1, <4>2
    <3> QED  BY <2>b, <3>1, <3>2
  <2>6. ASSUME settled' = "yes" PROVE held' = saved[Listener] \cup {"list"}
    <3>1. settled = "yes"
      BY <2>2, <2>6 DEF Unsettled
    <3>2. Served(saved[Listener], pos + 1)
      BY <2>4, <3>1 DEF Steady, Listener
    <3>3. NewTracks = {} \/ Full(saved[Listener])
      BY <3>2 DEF Served, NewTracks
    <3>4. add = {}
      BY <2>2, <3>3
    <3> QED  BY <2>2, <3>4
  <2> QED  BY <2>1, <2>2, <2>3, <2>4, <2>5, <2>6
<1>2. CASE ~PutTracks
  <2>1. UNCHANGED <<phase, held>>
    BY <1>2, HeldOf
  <2>2. CASE Application
    <3>1. UNCHANGED <<pos, userMap>> /\ settled' = "no"
      BY <2>2, ApplicationIs
    <3>2. Listener' = Listener
      BY <3>1 DEF Listener
    <3> QED  BY <2>1, <3>1, <3>2 DEF Carried
  <2>3. CASE UNCHANGED vars
    <3>1. UNCHANGED <<pos, userMap, saved, settled>>
      BY <2>3 DEF vars, runVars, dbVars, userVars, profileVars
    <3>2. Listener' = Listener
      BY <3>1 DEF Listener
    <3> QED  BY <2>1, <3>1, <3>2 DEF Carried
  <2>4. CASE Users \/ Rows \/ Joins \/ Posts \/ Pictures \/ ApplyReactions \/ ApplyBans \/ Finish
    BY <2>1, <2>4, EachInItsPhase DEF Users, Rows, Joins, Posts, Pictures, RunsIn
  <2>5. CASE WriteTracks \/ Breaks
    BY <2>5, <2>1 DEF WriteTracks, Breaks, Start, Stop, StopAmongUploads
  <2> QED  BY <1>2, <2>2, <2>3, <2>4, <2>5, StepIs DEF Rest
<1> QED  BY <1>1, <1>2

LEMMA CarriedStep ==
  ASSUME TypesInv, Carried, settled = "yes" => Steady, [Next]_vars
  PROVE  Carried'
<1>1. ASSUME NEW n \in Accounts PROVE "list" \notin saved'[n]
  <2>1. "list" \notin saved[n] /\ DOMAIN saved = Accounts /\ "list" # Own
    BY DEF Carried, TypesInv, FileTypes, Own
  <2>2. CASE WriteTracks
    BY <2>1, <2>2 DEF WriteTracks
  <2>3. CASE Application
    <3>1. \/ UNCHANGED saved
          \/ \E k \in Accounts : \E ts : saved' = [saved EXCEPT ![k] = ts] /\ ts \subseteq saved[k] \cup {Own}
      BY <2>3, ApplicationIs
    <3> QED  BY <2>1, <3>1
  <2>4. CASE ~WriteTracks /\ ~Application
    BY <2>1, <2>4, OthersLeftAlone
  <2> QED  BY <2>2, <2>3, <2>4
<1>2. Carried' <=>
        /\ phase' = "avatars" /\ Avatars # {} => pos' < Cardinality(Avatars)
        /\ phase' = "avatars" /\ held' # {} =>
             /\ Avatars # {} /\ AvatarOwner' # NoAccount /\ objects'[<<"avatar", AvatarOwner'>>] > 0
             /\ settled' # "yes"
        /\ phase' = "tracks" /\ held' # {} =>
             /\ pos' < Len(Music) /\ Listener' # NoAccount
             /\ settled' # "no" => Served(held' \ {"list"}, pos' + 1) /\ Grown(saved'[Listener'], held' \ {"list"})
             /\ settled' = "yes" => held' = saved'[Listener'] \cup {"list"}
        /\ \A n \in Accounts : "list" \notin saved'[n]
  BY DEF Carried
<1> QED  BY <1>1, <1>2, CarriedAvatar, CarriedTracks
-----------------------------------------------------------------------------
(* An undisturbed run, phase by phase.                                     *)

\* It has done nothing yet.
LEMMA QuietAtStart == ASSUME phase' = "users" PROVE Quiet'
<1>1. \A past \in {PastBans, PastTracks, PastReactions, PastHistory, PastAvatars, PastAttachments, PastTopicMembers,
                   PastMembers} : phase' \notin past
  BY DEF PastBans, PastTracks, PastReactions, PastAvatars, PastHistory, PastPlaceholders, PastAttachments, PastReplies,
         PastMessages, PastTopicMembers, PastMembers
<1> QED  BY <1>1 DEF Quiet, QuietSeats, QuietFiles, QuietAvatars, QuietReactions, QuietTracks, QuietBans, Through

\* By the time of the members, every legacy user has an account that stays.
LEMMA UserIs ==
  ASSUME TypesInv, PeopleCame, [Next]_vars, phase \in PastDups, NEW u \in DOMAIN UserName
  PROVE  userMap[u] \in Accounts /\ userMap'[u] = userMap[u]
<1>1. userMap[u] # NoAccount
  BY DEF PeopleCame
<1>2. userMap[u] \in Accounts
  BY <1>1 DEF TypesInv, UserTypes
<1> QED  BY <1>1, <1>2, PeopleStay DEF TypesInv

\* Rows of one seat are of users who may be one.
LEMMA OneSeatOneRole ==
  ASSUME OneRoleForASeat, Merged, NEW i \in DOMAIN Members, NEW j \in DOMAIN Members,
         SeatOf(Members[j]) = SeatOf(Members[i]), userMap[Members[i].user] # NoAccount
  PROVE  RoomRole(Members[j]) = RoomRole(Members[i])
<1>1. /\ Members[i].room = Members[j].room /\ userMap[Members[i].user] = userMap[Members[j].user]
      /\ Members[i].user \in DOMAIN UserName /\ Members[j].user \in DOMAIN UserName
  BY LegacyAssumption DEF SeatOf
<1>2. /\ userMap[Members[i].user] \in MayBe(Members[i].user)
      /\ userMap[Members[i].user] \in MayBe(Members[j].user)
  BY <1>1 DEF Merged
<1>3. MayBe(Members[i].user) \cap MayBe(Members[j].user) # {}
  BY <1>2
<1> QED  BY <1>1, <1>3 DEF OneRoleForASeat

LEMMA MembersWrite ==
  ASSUME OneRoleForASeat, Merged, ApplyMembers, NEW i \in DOMAIN Members,
         SeatOf(Members[i]) \in Seats, userMap[Members[i].user] # NoAccount
  PROVE  /\ role'[SeatOf(Members[i])] \in {role[SeatOf(Members[i])], RoomRole(Members[i])}
         /\ i \in Cut(Len(Members)) => role'[SeatOf(Members[i])] = RoomRole(Members[i])
<1> DEFINE s == SeatOf(Members[i])
           mine == {j \in Cut(Len(Members)) : SeatOf(Members[j]) = s}
           last == CHOOSE j \in mine : \A k \in mine : k <= j
<1>1. role'[s] = IF mine = {} THEN role[s] ELSE RoomRole(Members[last])
  BY DEF ApplyMembers
<1>2. ASSUME mine # {} PROVE last \in mine
  <2>1. mine \in SUBSET Nat /\ (\A j \in mine : j <= Len(Members)) /\ Len(Members) \in Nat
    BY ConstantsAre DEF Cut
  <2>2. \E j \in mine : \A k \in mine : k <= j
    BY <1>2, <2>1, GreatestOf
  <2> QED  BY <2>2
<1>3. ASSUME NEW j \in mine PROVE RoomRole(Members[j]) = RoomRole(Members[i])
  <2>1. j \in DOMAIN Members /\ SeatOf(Members[j]) = SeatOf(Members[i])
    BY ConstantsAre DEF Cut
  <2> QED  BY <2>1, OneSeatOneRole
<1>4. i \in Cut(Len(Members)) => mine # {}
  OBVIOUS
<1> HIDE DEF mine, last
<1> QED  BY <1>1, <1>2, <1>3, <1>4

LEMMA QuietSeatsStep ==
  ASSUME OneRoleForASeat, TypesInv, PeopleCame, ChatsCame, Merged, QuietSeats, [Next]_vars, ~Application
  PROVE  QuietSeats'
<1>0. /\ pos \in Nat /\ RoleTypes
      /\ \A i \in DOMAIN Members : i \in Nat \ {0} /\ <<"room", Members[i].room>> \in RoomIds
      /\ \A t \in DOMAIN TopicRoom : t \in Nat \ {0} /\ <<"channel", t>> \in TopicIds
      /\ RoomIds \subseteq Chats /\ TopicIds \subseteq Chats
  BY LegacyAssumption, ConstantsAre DEF TypesInv, PhaseTypes, Chats, RoomIds, TopicIds
<1>1. ASSUME NEW i \in DOMAIN Members, Through(PastMembers, "members", i)'
      PROVE  role'[SeatOf(Members[i])'] = RoomRole(Members[i])
  <2>1. phase \in PastDups
    BY <1>0, <1>1, Onward, EachInItsPhase DEF RunsIn, Through, PastDups, PastRooms, PastTopics
  <2>2. /\ SeatOf(Members[i]) \in Seats /\ SeatOf(Members[i])' = SeatOf(Members[i])
        /\ userMap[Members[i].user] # NoAccount
    BY <1>0, <2>1, SeatIs, MigrateAssumption DEF SeatOf
  <2>3. Through(PastMembers, "members", i) => role[SeatOf(Members[i])] = RoomRole(Members[i])
    BY DEF QuietSeats
  <2>4. CASE ApplyMembers
    <3>1. phase = "members" /\ Moves(Batch, Len(Members)) /\ phase \notin PastMembers
      BY <2>4 DEF ApplyMembers, InPhase, PastMembers, PastTopicMembers,
         PastMessages, PastReplies, PastAttachments, PastPlaceholders, PastHistory
    <3>2. Through(PastMembers, "members", i) \/ i \in Cut(Len(Members))
      BY <1>0, <1>1, <3>1, BatchDone, ConstantsAre
    <3> QED  BY <2>2, <2>3, <2>4, <3>2, MembersWrite
  <2>5. CASE ApplyTopicMembers
    <3>1. SeatOf(Members[i])[1] \notin TopicIds
      BY DEF SeatOf, TopicIds
    <3>2. role'[SeatOf(Members[i])] = role[SeatOf(Members[i])]
      BY <2>2, <2>5, <3>1 DEF ApplyTopicMembers
    <3>3. Through(PastMembers, "members", i)
      BY <2>5, EachInItsPhase DEF RunsIn, Through, PastMembers
    <3> QED  BY <2>2, <2>3, <3>2, <3>3
  <2>6. CASE ~Joins
    <3>1. role' = role /\ Through(PastMembers, "members", i)
      BY <1>0, <1>1, <2>6, Onward, OthersLeftAlone DEF Joins
    <3> QED  BY <2>2, <2>3, <3>1
  <2> QED  BY <2>4, <2>5, <2>6 DEF Joins
<1>2. ASSUME NEW t \in DOMAIN TopicRoom, NEW i \in DOMAIN Members, Members[i].room = TopicRoom[t],
             Through(PastTopicMembers, "topicMembers", t)'
      PROVE  role'[TopicSeat(t, i)'] # "none"
  <2> DEFINE n == userMap[Members[i].user]
             s == <<<<"channel", t>>, n>>
  <2>1. phase \in PastDups /\ phase \in PastTopics
    BY <1>0, <1>2, Onward, EachInItsPhase DEF RunsIn, Through, PastDups, PastRooms, PastTopics, PastMembers
  <2>2. n \in Accounts /\ s \in Seats /\ userMap'[Members[i].user] = n
    BY <1>0, <2>1, SeatIs
  <2>3. TopicSeat(t, i) = s /\ TopicSeat(t, i)' = s
    BY <2>2 DEF TopicSeat
  <2>4. Through(PastTopicMembers, "topicMembers", t) => role[s] # "none"
    BY <1>2, <2>3 DEF QuietSeats
  <2>5. CASE ApplyTopicMembers
    <3>1. phase = "topicMembers" /\ Moves(Batch, Len(TopicRoom)) /\ phase \notin PastTopicMembers
      BY <2>5 DEF ApplyTopicMembers, InPhase, PastTopicMembers,
         PastMessages, PastReplies, PastAttachments, PastPlaceholders, PastHistory
    <3>2. Through(PastTopicMembers, "topicMembers", t) \/ t \in Cut(Len(TopicRoom))
      BY <1>0, <1>2, <3>1, BatchDone, ConstantsAre
    <3>3. <<"channel", t>> \in idmap
      BY <2>1 DEF ChatsCame, Through
    <3>4. i \in TopicSeats(t, n)
      BY <1>2 DEF TopicSeats
    <3>5. TopicRole(t, n) # "none" /\ (role[s] # "none" => TopicRole(t, n) = role[s])
      BY <3>4, RolesAre DEF TopicRole
    <3>6. s[1] = <<"channel", t>> /\ s[1][2] = t /\ s[2] = n /\ s[1] \in TopicIds
      BY DEF TopicIds
    <3>7. role' = [d \in Seats |-> IF d[1] \in TopicIds /\ d[1][2] \in Cut(Len(TopicRoom)) /\ d[1] \in idmap
                                   THEN TopicRole(d[1][2], d[2]) ELSE role[d]]
      BY <2>5 DEF ApplyTopicMembers
    <3>8. role'[s] = IF t \in Cut(Len(TopicRoom)) THEN TopicRole(t, n) ELSE role[s]
      BY <2>2, <3>3, <3>6, <3>7
    <3> QED  BY <2>3, <2>4, <3>2, <3>5, <3>8
  <2>6. CASE ApplyMembers
    <3>1. phase = "members"
      BY <2>6, EachInItsPhase DEF RunsIn
    <3>2. ~Through(PastTopicMembers, "topicMembers", t) /\ ~ApplyTopicMembers
      BY <3>1, EachInItsPhase DEF RunsIn, Through, PastTopicMembers,
         PastMessages, PastReplies, PastAttachments, PastPlaceholders, PastHistory
    <3> QED  BY <1>0, <1>2, <3>2, Onward
  <2>7. CASE ~Joins
    <3>1. role' = role /\ Through(PastTopicMembers, "topicMembers", t)
      BY <1>0, <1>2, <2>7, Onward, OthersLeftAlone DEF Joins
    <3> QED  BY <2>3, <2>4, <3>1
  <2> QED  BY <2>5, <2>6, <2>7 DEF Joins
<1>3. QuietSeats' <=>
        /\ \A i \in DOMAIN Members :
             Through(PastMembers, "members", i)' => role'[SeatOf(Members[i])'] = RoomRole(Members[i])
        /\ \A t \in DOMAIN TopicRoom, i \in DOMAIN Members :
             Members[i].room = TopicRoom[t] /\ Through(PastTopicMembers, "topicMembers", t)' =>
               role'[TopicSeat(t, i)'] # "none"
  BY DEF QuietSeats
<1> QED  BY <1>1, <1>2, <1>3

LEMMA QuietFilesStep ==
  ASSUME TypesInv, MessagesCame, QuietFiles, [Next]_vars, ~Application
  PROVE  QuietFiles'
<1> SUFFICES ASSUME NEW i \in DOMAIN WithFile, Through(PastAttachments, "attachments", i)'
             PROVE  linked'[WithFile[i]] /\ token'[WithFile[i]] /\ <<"attachment", WithFile[i]>> \in idmap'
  BY DEF QuietFiles
<1>0. /\ pos \in Nat /\ i \in Nat \ {0} /\ i \in 1 .. Len(WithFile) /\ Len(WithFile) \in Nat
      /\ WithFile[i] \in MessageIds /\ idmap \subseteq idmap'
  BY ConstantsAre, ItemsStay DEF TypesInv, PhaseTypes
<1>1. CASE ApplyAttachments
  <2> DEFINE mine == {WithFile[j] : j \in Cut(Len(WithFile))} \cap {m \in MessageIds : <<"message", m>> \in idmap}
             now == {WithFile[j] : j \in FilesNow}
  <2>1. /\ phase = "attachments" /\ Moves(Batch, Len(WithFile)) /\ phase \notin PastAttachments
        /\ phase \in PastMessages
    BY <1>1 DEF ApplyAttachments, InPhase, PastMessages, PastReplies, PastAttachments, PastPlaceholders, PastHistory
  <2>2. /\ linked' = [m \in MessageIds |-> linked[m] \/ m \in mine]
        /\ token' = [m \in MessageIds |-> token[m] \/ m \in mine]
        /\ idmap' = idmap \cup {<<"attachment", m>> : m \in now}
    BY <1>1, RowsGrow DEF ApplyAttachments
  <2>3. CASE Through(PastAttachments, "attachments", i)
    <3>1. linked[WithFile[i]] /\ token[WithFile[i]] /\ <<"attachment", WithFile[i]>> \in idmap
      BY <2>3 DEF QuietFiles
    <3> HIDE DEF mine, now
    <3> QED  BY <1>0, <2>2, <3>1
  <2>4. CASE i \in Cut(Len(WithFile))
    <3>1. <<"message", WithFile[i]>> \in idmap
      BY <1>0, <2>1 DEF MessagesCame, Through
    <3>2. WithFile[i] \in mine
      BY <1>0, <2>4, <3>1
    <3>3. <<"attachment", WithFile[i]>> \in idmap \/ WithFile[i] \in now
      BY <2>4, <3>1 DEF FilesNow
    <3> HIDE DEF mine, now
    <3> QED  BY <1>0, <2>2, <3>2, <3>3
  <2> QED  BY <1>0, <2>1, <2>3, <2>4, BatchDone
<1>2. CASE ~ApplyAttachments
  <2>1. UNCHANGED <<linked, token>> /\ Through(PastAttachments, "attachments", i)
    BY <1>0, <1>2, Onward, OthersLeftAlone
  <2> QED  BY <1>0, <2>1 DEF QuietFiles
<1> QED  BY <1>1, <1>2

\* Every avatar that was passed is there.
LEMMA QuietAvatarsStep ==
  ASSUME TypesInv, PeopleCame, Carried, QuietAvatars, [Next]_vars, ~Application, settled' # "no",
         \/ settled = "quiet"
         \/ settled = "yes" /\ Steady
  PROVE  QuietAvatars'
<1> SUFFICES ASSUME NEW u \in Avatars, phase' \in PastAvatars \/ (phase' = "avatars" /\ Rank(u) < pos')
             PROVE  avatar'[userMap'[u]] > 0
  BY DEF QuietAvatars
<1>0. /\ pos \in Nat /\ u \in DOMAIN UserName /\ Rank(u) \in Nat /\ Rank(u) < Cardinality(Avatars)
      /\ Cardinality(Avatars) \in Nat /\ Avatars # {}
  BY RankIs, LegacyAssumption DEF TypesInv, PhaseTypes
<1>1. CASE PutAvatar \/ NameAvatar
  <2>1. phase = "avatars" /\ phase \in PastDups /\ phase \notin PastAvatars
    BY <1>1 DEF PutAvatar, NameAvatar, Carries, PastDups, PastRooms, PastTopics, PastMembers, PastTopicMembers,
       PastMessages, PastReplies, PastAttachments, PastPlaceholders, PastHistory, PastAvatars
  <2>2. userMap[u] \in Accounts /\ userMap'[u] = userMap[u]
    BY <1>0, <2>1, UserIs
  <2>3. Rank(u) < pos => avatar[userMap[u]] > 0
    BY <2>1 DEF QuietAvatars
  <2>4. Rank(u) = pos => AvatarOwner = userMap[u]
    BY <1>0, OwnerIs
  <2>5. DOMAIN avatar = Accounts /\ avatar[userMap[u]] \in Int
    BY <2>2 DEF TypesInv, FileTypes
  <2>6. CASE PutAvatar
    <3>1. avatar' = avatar
      BY <2>6 DEF PutAvatar, dbVars, profileVars
    <3>2. CASE WantsAvatar /\ UNCHANGED <<phase, pos, settled>>
      BY <1>0, <2>1, <2>2, <2>3, <3>1, <3>2
    <3>3. CASE ~WantsAvatar /\ Moves(1, Cardinality(Avatars))
      <4>1. Rank(u) <= pos
        BY <1>0, <2>1, <3>3, PhasesInOrder DEF Moves, Carried
      <4>2. Rank(u) = pos => avatar[userMap[u]] > 0
        BY <1>0, <2>2, <2>4, <2>5, <3>3, MigrateAssumption DEF WantsAvatar
      <4> QED  BY <1>0, <2>2, <2>3, <3>1, <4>1, <4>2
    <3>4. CASE WantsAvatar /\ Unsettled
      <4>1. settled = "yes" /\ Steady
        BY <3>4 DEF Unsettled
      <4> QED  BY <2>2, <3>1, <4>1 DEF Steady
    <3> QED  BY <2>6, <3>2, <3>3, <3>4 DEF PutAvatar
  <2>7. CASE NameAvatar
    <3> DEFINE who == AvatarOwner
    <3>1. /\ avatar' = [avatar EXCEPT ![who] = objects[<<"avatar", who>>]]
          /\ Moves(1, Cardinality(Avatars)) /\ held # {}
      BY <2>7 DEF NameAvatar
    <3>2. objects[<<"avatar", who>>] > 0
      BY <2>1, <3>1 DEF Carried
    <3>3. Rank(u) <= pos
      BY <1>0, <2>1, <3>1, PhasesInOrder DEF Moves, Carried
    <3> HIDE DEF who
    <3>4. CASE userMap[u] = who
      BY <2>2, <2>5, <3>1, <3>2, <3>4
    <3>5. CASE userMap[u] # who
      <4>1. Rank(u) < pos
        BY <1>0, <2>4, <3>3, <3>5 DEF who
      <4> QED  BY <2>2, <2>3, <2>5, <3>1, <3>5, <4>1
    <3> QED  BY <3>4, <3>5
  <2> QED  BY <1>1, <2>6, <2>7
<1>2. CASE ~(PutAvatar \/ NameAvatar)
  <2>1. phase \in PastAvatars \/ (phase = "avatars" /\ Rank(u) < pos)
    <3>1. CASE phase' \in PastAvatars
      BY <1>2, <3>1, OnwardStill
    <3>2. CASE phase' = "avatars" /\ Rank(u) < pos'
      <4>1. CASE Users \/ Rows \/ Joins \/ Posts
        <5>1. pos' = 0
          BY <3>2, <4>1, EachInItsPhase, PhasesInOrder DEF Users, Rows, Joins, Posts, RunsIn
        <5> QED  BY <1>0, <3>2, <5>1
      <4>2. CASE ApplyAvatarHistory \/ Rest
        BY <3>2, <4>2, EachInItsPhase, PhasesInOrder DEF Rest, RunsIn
      <4>3. CASE Breaks
        BY <3>2, <4>3 DEF Breaks, Start, Stop, StopAmongUploads
      <4>4. CASE UNCHANGED vars
        BY <3>2, <4>4 DEF vars, runVars
      <4> QED  BY <1>2, <4>1, <4>2, <4>3, <4>4, StepIs DEF Pictures
    <3> QED  BY <3>1, <3>2
  <2>2. phase \in PastDups
    BY <2>1 DEF PastDups, PastRooms, PastTopics, PastMembers, PastTopicMembers,
       PastMessages, PastReplies, PastAttachments, PastPlaceholders, PastHistory, PastAvatars
  <2>3. userMap[u] \in Accounts /\ userMap'[u] = userMap[u]
    BY <1>0, <2>2, UserIs
  <2>4. avatar' = avatar
    BY <1>2, OthersLeftAlone
  <2> QED  BY <2>1, <2>3, <2>4 DEF QuietAvatars
<1> QED  BY <1>1, <1>2

\* The legacy reactions and bans refer to what is there.
LEMMA RowsAre ==
  /\ DOMAIN Reactions = 1 .. Len(Reactions) /\ Len(Reactions) \in Nat
  /\ DOMAIN Bans = 1 .. Len(Bans) /\ Len(Bans) \in Nat
  /\ \A i \in DOMAIN Reactions : Reactions[i].msg \in MessageIds /\ Reactions[i].user \in DOMAIN UserName
  /\ \A i \in DOMAIN Bans : Bans[i].room \in DOMAIN Rooms /\ Bans[i].user \in DOMAIN UserName
<1> DEFINE R == [msg : MessageIds, user : DOMAIN UserName]
           B == [room : DOMAIN Rooms, user : DOMAIN UserName]
<1>1. Reactions \in Seq(R) /\ Bans \in Seq(B)
  BY LegacyAssumption
<1>2. \A r \in R : r.msg \in MessageIds /\ r.user \in DOMAIN UserName
  OBVIOUS
<1>3. \A b \in B : b.room \in DOMAIN Rooms /\ b.user \in DOMAIN UserName
  OBVIOUS
<1> HIDE DEF R, B
<1>4. /\ DOMAIN Reactions = 1 .. Len(Reactions) /\ Len(Reactions) \in Nat
      /\ \A i \in DOMAIN Reactions : Reactions[i] \in R
  BY <1>1
<1>5. /\ DOMAIN Bans = 1 .. Len(Bans) /\ Len(Bans) \in Nat
      /\ \A i \in DOMAIN Bans : Bans[i] \in B
  BY <1>1
<1> QED  BY <1>2, <1>3, <1>4, <1>5

LEMMA QuietReactionsStep ==
  ASSUME TypesInv, OtherTypes, PeopleCame, MessagesCame, QuietReactions, [Next]_vars, ~Application
  PROVE  QuietReactions'
<1> SUFFICES ASSUME NEW i \in DOMAIN Reactions, Through(PastReactions, "reactions", i)'
             PROVE  react'[<<Reactions[i].msg, userMap'[Reactions[i].user]>>] = "parent"
  BY DEF QuietReactions
<1> DEFINE who == Reactions[i].user
           msg == Reactions[i].msg
<1>0. /\ pos \in Nat /\ i \in Nat \ {0} /\ i \in 1 .. Len(Reactions) /\ Len(Reactions) \in Nat
      /\ who \in DOMAIN UserName /\ msg \in MessageIds
  BY RowsAre DEF TypesInv, PhaseTypes
<1>1. phase \in PastDups /\ phase \in PastMessages
  BY <1>0, OnwardStill, EachInItsPhase DEF RunsIn, Through, PastDups, PastRooms, PastTopics, PastMembers,
     PastTopicMembers, PastMessages, PastReplies, PastAttachments, PastPlaceholders, PastHistory,
     PastReactions, PastTracks, PastBans
<1>2. userMap[who] \in Accounts /\ userMap'[who] = userMap[who]
  BY <1>0, <1>1, UserIs
<1>3. <<msg, userMap[who]>> \in DOMAIN react
  BY <1>0, <1>2 DEF OtherTypes, IsOver
<1>4. Through(PastReactions, "reactions", i) => react[<<msg, userMap[who]>>] = "parent"
  BY DEF QuietReactions
<1>5. CASE ApplyReactions
  <2> DEFINE mine == {<<Reactions[k].msg, userMap[Reactions[k].user]>> :
                        k \in {j \in Cut(Len(Reactions)) : /\ <<"message", Reactions[j].msg>> \in idmap
                                                           /\ userMap[Reactions[j].user] # NoAccount}}
  <2>1. phase = "reactions" /\ phase \notin PastReactions /\ Moves(Batch, Len(Reactions))
    BY <1>5 DEF ApplyReactions, InPhase, PastReactions, PastTracks, PastBans
  <2>2. react' = [s \in DOMAIN react |-> IF s \in mine THEN "parent" ELSE react[s]]
    BY <1>5 DEF ApplyReactions
  <2>3. i \in Cut(Len(Reactions)) => <<msg, userMap[who]>> \in mine
    <3>1. <<"message", msg>> \in idmap
      BY <1>0, <1>1 DEF MessagesCame, Through
    <3>2. userMap[who] # NoAccount
      BY <1>2, MigrateAssumption
    <3> QED  BY <3>1, <3>2
  <2> HIDE DEF mine
  <2>4. Through(PastReactions, "reactions", i) \/ i \in Cut(Len(Reactions))
    BY <1>0, <2>1, BatchDone
  <2> QED  BY <1>2, <1>3, <1>4, <2>2, <2>3, <2>4
<1>6. CASE ~ApplyReactions
  BY <1>0, <1>2, <1>4, <1>6, OnwardStill, OthersLeftAlone
<1> QED  BY <1>5, <1>6

LEMMA QuietTracksStep ==
  ASSUME TypesInv, PeopleCame, Carried, QuietTracks, [Next]_vars, ~Application, settled # "no"
  PROVE  QuietTracks'
<1> SUFFICES ASSUME NEW u \in DOMAIN UserName, Through(PastTracks, "tracks", u)'
             PROVE  Served(saved'[userMap'[u]], u)
  BY DEF QuietTracks
<1>0. pos \in Nat /\ u \in Nat \ {0} /\ u <= Len(Music) /\ Len(Music) \in Nat
  BY ConstantsAre DEF TypesInv, PhaseTypes
<1>1. phase \in PastDups
  BY <1>0, OnwardStill, EachInItsPhase DEF RunsIn, Through, PastDups, PastRooms, PastTopics, PastMembers,
     PastTopicMembers, PastMessages, PastReplies, PastAttachments, PastPlaceholders, PastHistory,
     PastTracks, PastBans
<1>2. userMap[u] \in Accounts /\ userMap'[u] = userMap[u] /\ userMap[u] # NoAccount
  BY <1>1, UserIs, MigrateAssumption
<1>3. Through(PastTracks, "tracks", u) => Served(saved[userMap[u]], u)
  BY DEF QuietTracks
<1>4. CASE PutTracks
  <2>1. phase = "tracks" /\ phase \notin PastTracks /\ UNCHANGED saved
    BY <1>4 DEF PutTracks, Carries, dbVars, profileVars, PastTracks, PastBans
  <2>2. CASE ~(pos >= Len(Music) \/ Listener = NoAccount)
    <3>1. UNCHANGED <<phase, pos>>
      BY <1>4, <2>2 DEF PutTracks
    <3> QED  BY <1>2, <1>3, <2>1, <3>1 DEF Through
  <2>3. CASE pos >= Len(Music) \/ Listener = NoAccount
    <3>1. u # pos + 1
      BY <1>0, <1>2, <2>3 DEF Listener
    <3>2. Moves(1, Len(Music))
      BY <1>4, <2>3 DEF PutTracks
    <3>3. u <= pos
      BY <1>0, <2>1, <3>1, <3>2, <2>3 DEF Moves, Through
    <3> QED  BY <1>2, <1>3, <2>1, <3>3 DEF Through
  <2> QED  BY <2>2, <2>3
<1>5. CASE WriteTracks
  <2> DEFINE who == Listener
  <2>1. /\ phase = "tracks" /\ phase \notin PastTracks /\ held # {} /\ Moves(1, Len(Music))
        /\ saved' = [saved EXCEPT ![who] = held \ {"list"}]
    BY <1>5 DEF WriteTracks, Carries, PastTracks, PastBans
  <2>2. /\ pos < Len(Music)
        /\ settled # "no" => Served(held \ {"list"}, pos + 1) /\ Grown(saved[who], held \ {"list"})
    BY <2>1 DEF Carried
  <2>3. u <= pos \/ u = pos + 1
    BY <1>0, <2>1, <2>2 DEF Moves, Through
  <2>4. u <= pos => Served(saved[userMap[u]], u)
    BY <1>3, <2>1 DEF Through
  <2>5. u = pos + 1 => who = userMap[u]
    BY DEF Listener
  <2>6. DOMAIN saved = Accounts
    BY DEF TypesInv, FileTypes
  <2> HIDE DEF who
  <2>7. CASE userMap[u] = who
    <3>1. Served(held \ {"list"}, u)
      <4>1. CASE u = pos + 1
        BY <2>2, <4>1
      <4>2. CASE u <= pos
        BY <2>2, <2>4, <2>7, <4>2 DEF Served, Grown
      <4> QED  BY <2>3, <4>1, <4>2
    <3> QED  BY <1>2, <2>1, <2>6, <2>7, <3>1
  <2>8. CASE userMap[u] # who
    BY <1>2, <2>1, <2>3, <2>4, <2>5, <2>6, <2>8
  <2> QED  BY <2>7, <2>8
<1>6. CASE ~(PutTracks \/ WriteTracks)
  BY <1>0, <1>2, <1>3, <1>6, OnwardStill, OthersLeftAlone
<1> QED  BY <1>4, <1>5, <1>6

LEMMA QuietBansStep ==
  ASSUME TypesInv, PeopleCame, ChatsCame, QuietBans, [Next]_vars, ~Application
  PROVE  QuietBans'
<1> SUFFICES ASSUME NEW i \in DOMAIN Bans, Through(PastBans, "bans", i)'
             PROVE  <<Bans[i].room, userMap'[Bans[i].user]>> \in banned'
  BY DEF QuietBans
<1>0. /\ pos \in Nat /\ i \in Nat \ {0} /\ i \in 1 .. Len(Bans) /\ Len(Bans) \in Nat
      /\ Bans[i].user \in DOMAIN UserName /\ <<"room", Bans[i].room>> \in RoomIds
  BY RowsAre DEF TypesInv, PhaseTypes, RoomIds
<1>1. phase \in PastDups /\ phase \in PastRooms
  BY <1>0, OnwardStill, EachInItsPhase DEF RunsIn, Through, PastDups, PastRooms, PastTopics, PastMembers,
     PastTopicMembers, PastMessages, PastReplies, PastAttachments, PastPlaceholders, PastHistory, PastBans
<1>2. userMap'[Bans[i].user] = userMap[Bans[i].user]
  BY <1>0, <1>1, UserIs
<1>3. CASE ApplyBans
  <2>1. phase = "bans" /\ phase \notin PastBans /\ Moves(1, Len(Bans))
    BY <1>3 DEF ApplyBans, InPhase, PastBans
  <2>2. i <= pos \/ i = pos + 1
    BY <1>0, <2>1 DEF Moves, Through
  <2>3. <<"room", Bans[i].room>> \in idmap
    BY <1>0, <1>1 DEF ChatsCame
  <2>4. banned' = banned \cup {<<Bans[j].room, userMap[Bans[j].user]>> :
                     j \in {k \in DOMAIN Bans : k = pos + 1 /\ <<"room", Bans[k].room>> \in idmap}}
    BY <1>3 DEF ApplyBans
  <2>5. CASE i <= pos
    BY <1>2, <2>1, <2>4, <2>5 DEF QuietBans, Through
  <2>6. CASE i = pos + 1
    BY <1>2, <2>3, <2>4, <2>6
  <2> QED  BY <2>2, <2>5, <2>6
<1>4. CASE ~ApplyBans
  BY <1>0, <1>2, <1>4, OnwardStill, OthersLeftAlone DEF QuietBans
<1> QED  BY <1>3, <1>4
-----------------------------------------------------------------------------
(* The end of an undisturbed run, and the runs after it.                   *)

\* CompleteInv and Quiet are together all that a run does.
LEMMA SteadyAtEnd ==
  ASSUME TypesInv, CompleteInv, Quiet, phase = "summary" PROVE Steady
<1>1. \A past \in {PastBans, PastTracks, PastReactions, PastAvatars, PastHistory, PastPlaceholders, PastAttachments,
                   PastReplies, PastMessages, PastTopicMembers, PastMembers, PastTopics, PastRooms, PastDups,
                   PastUsers} : phase \in past
  BY DEF PastBans, PastTracks, PastReactions, PastAvatars, PastHistory, PastPlaceholders, PastAttachments,
         PastReplies, PastMessages, PastTopicMembers, PastMembers, PastTopics, PastRooms, PastDups, PastUsers
<1>2. (\A u \in DOMAIN UserName : userMap[u] # NoAccount) /\ Chats \subseteq idmap
  BY <1>1 DEF CompleteInv, PeopleCame, ChatsCame, Through, Chats, TopicIds
<1>3. /\ \A i \in DOMAIN Members : role[SeatOf(Members[i])] = RoomRole(Members[i])
      /\ \A t \in DOMAIN TopicRoom, i \in DOMAIN Members :
           Members[i].room = TopicRoom[t] => role[TopicSeat(t, i)] # "none"
  BY <1>1 DEF Quiet, QuietSeats, Through
<1>4. \A m \in MessageIds : <<"message", m>> \in idmap /\ (Messages[m].reply # 0 => reply[m])
  BY <1>1 DEF CompleteInv, MessagesCame, Through
<1>5. \A m \in Range(WithFile) : linked[m] /\ token[m] /\ <<"attachment", m>> \in idmap
  <2>1. \A i \in DOMAIN WithFile :
          linked[WithFile[i]] /\ token[WithFile[i]] /\ <<"attachment", WithFile[i]>> \in idmap
    BY <1>1 DEF Quiet, QuietFiles, Through
  <2> QED  BY <2>1 DEF Range
<1>6. \A m \in BrokenEmpty : text[m] # "empty"
  BY <1>1 DEF CompleteInv, FilesCame, Through
<1>7. /\ \A u \in Avatars : avatar[userMap[u]] > 0
      /\ \A n \in Accounts : avatar[n] > 0 => avatar[n] \in photos[n]
  BY <1>1 DEF CompleteInv, AvatarsCame, Quiet, QuietAvatars
<1>8. /\ \A i \in DOMAIN Reactions : react[<<Reactions[i].msg, userMap[Reactions[i].user]>>] = "parent"
      /\ \A u \in DOMAIN UserName : Served(saved[userMap[u]], u)
      /\ \A i \in DOMAIN Bans : <<Bans[i].room, userMap[Bans[i].user]>> \in banned
  BY <1>1 DEF Quiet, QuietReactions, QuietTracks, QuietBans, Through
<1> QED  BY <1>2, <1>3, <1>4, <1>5, <1>6, <1>7, <1>8 DEF Steady

\* A batch of nothing.
LEMMA CreateNothing == ASSUME MigrateInv, NEW S, S = {}, Create(S) PROVE UNCHANGED itemVars
<1>1. rows' = [i \in Items |-> rows[i]] /\ idmap' = idmap
  BY DEF Create
<1>2. rows \in [Items -> Nat]
  BY DEF MigrateInv, Ledger
<1> QED  BY <1>1, <1>2 DEF itemVars

LEMMA UploadedNothing == ASSUME FileTypes, NEW S, S = {}, Uploaded(S) PROVE UNCHANGED objects
<1>1. objects' = [f \in FileIds |-> objects[f]]
  BY DEF Uploaded
<1> QED  BY <1>1 DEF FileTypes

SettledInv ==
  /\ Merged /\ OtherTypes /\ Carried
  /\ settled = "quiet" => Quiet
  /\ settled = "yes" => Steady

LEMMA IdleUsers ==
  ASSUME TypesInv, Steady, Users PROVE UNCHANGED <<dbVars, objects>>
<1> DEFINE done(f) == [u \in DOMAIN UserName |-> f[u]]
<1>1. userMap = done(userMap)
  BY DEF TypesInv, UserTypes
<1>2. CASE ApplyUsers
  <2> DEFINE now == FirstOf({u \in UserNew : userMap[u] = NoAccount}, Batch)
  <2>1. now = {}
    BY FirstOfSubset DEF Steady, UserNew
  <2>2. /\ userMap' = [u \in DOMAIN UserName |-> IF u \in now THEN MergeTo(UserName[u]) ELSE userMap[u]]
        /\ accounts' = accounts \cup {MergeTo(UserName[u]) : u \in now}
    BY <1>2 DEF ApplyUsers
  <2> HIDE DEF now
  <2>3. userMap' = done(userMap) /\ accounts' = accounts
    BY <2>1, <2>2
  <2> QED  BY <1>1, <1>2, <2>3 DEF ApplyUsers, dbVars, userVars
<1>3. CASE ApplyDups
  <2> DEFINE now == FirstOf({u \in UserDups : userMap[u] = NoAccount}, 1)
  <2>1. now = {}
    BY FirstOfSubset DEF Steady, UserDups
  <2>2. userMap' = [u \in DOMAIN UserName |-> IF u \in now THEN userMap[PrimaryOf(u)] ELSE userMap[u]]
    BY <1>3 DEF ApplyDups
  <2> HIDE DEF now
  <2>3. userMap' = done(userMap)
    BY <2>1, <2>2
  <2> QED  BY <1>1, <1>3, <2>3 DEF ApplyDups, dbVars, userVars
<1> QED  BY <1>2, <1>3 DEF Users

LEMMA IdleRows ==
  ASSUME MigrateInv, Steady, Rows PROVE UNCHANGED <<dbVars, objects>>
<1>1. CASE ApplyRooms
  <2> DEFINE todo == {r \in DOMAIN Rooms : <<"room", r>> \notin idmap}
             new == {<<"room", r>> : r \in FirstOf(todo, Batch)}
  <2>1. new = {}
    BY FirstOfSubset DEF Steady, Chats, RoomIds
  <2>2. Create(new)
    BY <1>1 DEF ApplyRooms
  <2>3. UNCHANGED itemVars
    BY <2>1, <2>2, CreateNothing
  <2> QED  BY <1>1, <2>3 DEF ApplyRooms, dbVars
<1>2. CASE ApplyTopics
  <2> DEFINE now == {t \in Cut(Len(TopicRoom)) : /\ <<"channel", t>> \notin idmap
                                                 /\ <<"room", TopicRoom[t]>> \in idmap}
             new == {<<"channel", t>> : t \in now}
  <2>1. new = {}
    BY ConstantsAre DEF Cut, Steady, Chats, TopicIds
  <2>2. Create(new)
    BY <1>2 DEF ApplyTopics
  <2>3. UNCHANGED itemVars
    BY <2>1, <2>2, CreateNothing
  <2> QED  BY <1>2, <2>3 DEF ApplyTopics, dbVars
<1> QED  BY <1>1, <1>2 DEF Rows

LEMMA IdleJoins ==
  ASSUME OneRoleForASeat, TypesInv, Merged, Steady, Joins PROVE UNCHANGED <<dbVars, objects>>
<1>0. role = [s \in Seats |-> role[s]]
  BY DEF TypesInv, RoleTypes
<1>1. CASE ApplyMembers
  <2>1. ASSUME NEW s \in Seats PROVE role'[s] = role[s]
    <3>1. CASE \E i \in Cut(Len(Members)) : SeatOf(Members[i]) = s
      <4>1. PICK i \in Cut(Len(Members)) : SeatOf(Members[i]) = s
        BY <3>1
      <4>2. i \in DOMAIN Members
        BY ConstantsAre DEF Cut
      <4>3. userMap[Members[i].user] # NoAccount
        BY <4>2, LegacyAssumption DEF Steady
      <4>4. role'[s] = RoomRole(Members[i])
        BY <1>1, <4>1, <4>2, <4>3, MembersWrite
      <4> QED  BY <4>1, <4>2, <4>4 DEF Steady
    <3>2. CASE ~\E i \in Cut(Len(Members)) : SeatOf(Members[i]) = s
      BY <1>1, <3>2 DEF ApplyMembers
    <3> QED  BY <3>1, <3>2
  <2>2. role' = [s \in Seats |-> role'[s]]
    BY <1>1 DEF ApplyMembers
  <2>3. role' = role
    BY <1>0, <2>1, <2>2
  <2> QED  BY <1>1, <2>3 DEF ApplyMembers, dbVars
<1>2. CASE ApplyTopicMembers
  <2>1. ASSUME NEW s \in Seats PROVE role'[s] = role[s]
    <3>1. CASE s[1] \in TopicIds /\ s[1][2] \in Cut(Len(TopicRoom)) /\ s[1] \in idmap
      <4>1. PICK t \in DOMAIN TopicRoom, n \in Accounts : s = <<<<"channel", t>>, n>>
        BY <3>1 DEF TopicIds, Seats
      <4>2. s[1][2] = t /\ s[2] = n
        BY <4>1
      <4>3. TopicRole(t, n) = role[s]
        <5>1. CASE TopicSeats(t, n) = {}
          BY <4>1, <5>1 DEF TopicRole
        <5>2. CASE TopicSeats(t, n) # {}
          <6>1. PICK i \in DOMAIN Members : Members[i].room = TopicRoom[t] /\ userMap[Members[i].user] = n
            BY <5>2 DEF TopicSeats
          <6>2. role[s] # "none"
            BY <4>1, <6>1 DEF Steady, TopicSeat
          <6> QED  BY <4>1, <6>2 DEF TopicRole
        <5> QED  BY <5>1, <5>2
      <4>4. role'[s] = TopicRole(t, n)
        BY <1>2, <3>1, <4>2 DEF ApplyTopicMembers
      <4> QED  BY <4>3, <4>4
    <3>2. CASE ~(s[1] \in TopicIds /\ s[1][2] \in Cut(Len(TopicRoom)) /\ s[1] \in idmap)
      BY <1>2, <3>2 DEF ApplyTopicMembers
    <3> QED  BY <3>1, <3>2
  <2>2. role' = [s \in Seats |-> role'[s]]
    BY <1>2 DEF ApplyTopicMembers
  <2>3. role' = role
    BY <1>0, <2>1, <2>2
  <2> QED  BY <1>2, <2>3 DEF ApplyTopicMembers, dbVars
<1> QED  BY <1>1, <1>2 DEF Joins

LEMMA IdlePosts ==
  ASSUME TypesInv, MigrateInv, OtherTypes, Steady, Posts PROVE UNCHANGED <<dbVars, objects>>
<1>0. /\ text = [m \in MessageIds |-> text[m]]
      /\ token \in [MessageIds -> BOOLEAN] /\ linked \in [MessageIds -> BOOLEAN] /\ reply \in [MessageIds -> BOOLEAN]
  BY DEF OtherTypes, IsOver
<1>1. CASE ApplyMessages
  <2> DEFINE now == {m \in Cut(Len(Messages)) : /\ <<"message", m>> \notin idmap
                                                /\ userMap[Messages[m].user] # NoAccount
                                                /\ Messages[m].chat \in idmap}
             new == {<<"message", m>> : m \in now}
  <2>1. now = {}
    BY ConstantsAre DEF Cut, Steady
  <2>2. Create(new) /\ text' = [m \in MessageIds |-> IF m \in now THEN Messages[m].text ELSE text[m]]
    BY <1>1 DEF ApplyMessages
  <2>3. new = {}
    BY <2>1
  <2> HIDE DEF now, new
  <2>4. UNCHANGED <<itemVars, text>>
    BY <1>0, <2>1, <2>2, <2>3, CreateNothing
  <2> QED  BY <1>1, <2>4 DEF ApplyMessages, dbVars, messageVars
<1>2. CASE ApplyReplies
  <2>1. ASSUME NEW m \in MessageIds PROVE reply'[m] = reply[m]
    <3>1. Wired(m) => reply[m]
      BY DEF Wired, Steady
    <3>2. reply[m] \in BOOLEAN /\ reply'[m] = (reply[m] \/ (m \in Cut(Len(Messages)) /\ Wired(m)))
      BY <1>0, <1>2 DEF ApplyReplies
    <3> QED  BY <3>1, <3>2
  <2>2. reply' = [m \in MessageIds |-> reply'[m]]
    BY <1>2 DEF ApplyReplies
  <2>3. reply' = reply
    BY <1>0, <2>1, <2>2
  <2> QED  BY <1>2, <2>3 DEF ApplyReplies, dbVars, messageVars
<1>3. CASE ApplyAttachments
  <2> DEFINE mine == {WithFile[j] : j \in Cut(Len(WithFile))} \cap {m \in MessageIds : <<"message", m>> \in idmap}
             new == {<<"attachment", m>> : m \in {WithFile[j] : j \in FilesNow}}
  <2>1. \A j \in Cut(Len(WithFile)) : WithFile[j] \in Range(WithFile)
    BY ConstantsAre DEF Cut, Range
  <2>2. FilesNow = {}
    BY <2>1 DEF FilesNow, Steady
  <2>3. new = {}
    BY <2>2
  <2>4. \A m \in mine : linked[m] /\ token[m]
    BY <2>1 DEF Steady
  <2>5. /\ Create(new) /\ Uploaded(new)
        /\ linked' = [m \in MessageIds |-> linked[m] \/ m \in mine]
        /\ token' = [m \in MessageIds |-> token[m] \/ m \in mine]
    BY <1>3 DEF ApplyAttachments
  <2> HIDE DEF mine, new
  <2>6. ASSUME NEW m \in MessageIds PROVE linked'[m] = linked[m] /\ token'[m] = token[m]
    BY <1>0, <2>4, <2>5
  <2>7. linked' = linked /\ token' = token
    <3>1. linked' = [m \in MessageIds |-> linked'[m]] /\ token' = [m \in MessageIds |-> token'[m]]
      BY <2>5
    <3>2. linked = [m \in MessageIds |-> linked[m]] /\ token = [m \in MessageIds |-> token[m]]
      BY <1>0
    <3> QED  BY <2>6, <3>1, <3>2
  <2>8. UNCHANGED <<itemVars, objects>>
    BY <2>3, <2>5, CreateNothing, UploadedNothing DEF TypesInv
  <2> QED  BY <1>3, <2>7, <2>8 DEF ApplyAttachments, dbVars, messageVars
<1>4. CASE ApplyPlaceholders
  <2> DEFINE now == FirstOf({m \in BrokenEmpty : m > pos}, Batch)
  <2>1. \A m \in now : text[m] # "empty"
    BY FirstOfSubset DEF Steady
  <2>2. text' = [m \in MessageIds |->
          IF m \in now /\ text[m] = "empty" /\ ~token[m] /\ ~linked[m] THEN "marker" ELSE text[m]]
    BY <1>4 DEF ApplyPlaceholders
  <2> HIDE DEF now
  <2>3. text' = text
    BY <1>0, <2>1, <2>2
  <2> QED  BY <1>4, <2>3 DEF ApplyPlaceholders, dbVars, messageVars
<1> QED  BY <1>1, <1>2, <1>3, <1>4 DEF Posts

LEMMA IdlePictures ==
  ASSUME TypesInv, OtherTypes, Carried, settled = "yes", Steady, Pictures PROVE UNCHANGED <<dbVars, objects>>
<1>1. CASE PutAvatar
  <2>1. phase = "avatars" /\ UNCHANGED dbVars /\ pos \in Nat
    BY <1>1 DEF PutAvatar, Carries, TypesInv, PhaseTypes
  <2>2. ~WantsAvatar
    <3>1. SUFFICES ASSUME WantsAvatar PROVE FALSE
      OBVIOUS
    <3>2. Avatars # {} /\ AvatarOwner # NoAccount /\ avatar[AvatarOwner] <= 0
      BY <3>1 DEF WantsAvatar
    <3>3. PICK u \in Avatars : AvatarOwner = userMap[u]
      BY <2>1, <3>2, OwnerIs DEF Carried
    <3>4. AvatarOwner \in Accounts
      BY <3>2, <3>3, LegacyAssumption DEF TypesInv, UserTypes
    <3>5. avatar[AvatarOwner] \in Int /\ avatar[AvatarOwner] > 0
      BY <3>3, <3>4 DEF Steady, TypesInv, FileTypes
    <3> QED  BY <3>2, <3>5
  <2> QED  BY <1>1, <2>1, <2>2 DEF PutAvatar
<1>2. CASE NameAvatar
  BY <1>2 DEF NameAvatar, Carries, Carried
<1>3. CASE ApplyAvatarHistory
  <2>1. photos' = [n \in Accounts |-> IF avatar[n] > 0 THEN photos[n] \cup {avatar[n]} ELSE photos[n]]
    BY <1>3 DEF ApplyAvatarHistory
  <2>2. ASSUME NEW n \in Accounts PROVE photos'[n] = photos[n]
    BY <2>1 DEF Steady
  <2>3. photos' = photos
    BY <2>1, <2>2, SameOver DEF OtherTypes, IsOver
  <2> QED  BY <1>3, <2>3 DEF ApplyAvatarHistory, dbVars, profileVars
<1> QED  BY <1>1, <1>2, <1>3 DEF Pictures

\* No row changes, and no object but those a full list has no room for.
NothingNew == UNCHANGED dbVars /\ \A f \in FileIds : objects'[f] = objects[f] \/ NoRoomFor(f)

LEMMA IdleRest ==
  ASSUME TypesInv, OtherTypes, Carried, settled = "yes", Steady, Rest PROVE NothingNew
<1> USE DEF NothingNew
<1>1. CASE ApplyReactions
  <2> DEFINE mine == {<<Reactions[i].msg, userMap[Reactions[i].user]>> :
                        i \in {j \in Cut(Len(Reactions)) : /\ <<"message", Reactions[j].msg>> \in idmap
                                                           /\ userMap[Reactions[j].user] # NoAccount}}
  <2>1. \A s \in mine : react[s] = "parent"
    BY RowsAre DEF Cut, Steady
  <2>2. react' = [s \in DOMAIN react |-> IF s \in mine THEN "parent" ELSE react[s]]
    BY <1>1 DEF ApplyReactions
  <2> HIDE DEF mine
  <2>3. react' = [s \in DOMAIN react |-> react[s]]
    BY <2>1, <2>2
  <2>4. react' = react
    BY <2>3 DEF OtherTypes, IsOver
  <2> QED  BY <1>1, <2>4 DEF ApplyReactions, dbVars
<1>2. CASE PutTracks
  <2>1. phase = "tracks" /\ UNCHANGED dbVars /\ pos \in Nat
    BY <1>2 DEF PutTracks, Carries, TypesInv, PhaseTypes
  <2>2. CASE pos >= Len(Music) \/ Listener = NoAccount
    BY <1>2, <2>1, <2>2 DEF PutTracks
  <2>3. CASE ~(pos >= Len(Music) \/ Listener = NoAccount)
    <3>1. PICK up \in SUBSET NewTracks : Uploaded({<<"track", t>> : t \in up})
      BY <1>2, <2>3 DEF PutTracks
    <3>2. pos + 1 \in DOMAIN UserName
      BY <2>1, <2>3, ConstantsAre
    <3>3. NewTracks = {} \/ Full(saved[Listener])
      BY <3>2 DEF Steady, Served, Listener, NewTracks
    <3>4. ASSUME NEW f \in FileIds, objects'[f] # objects[f] PROVE NoRoomFor(f)
      <4>1. f \in {<<"track", t>> : t \in up}
        BY <3>1, <3>4 DEF Uploaded
      <4>2. PICK t \in NewTracks : f = <<"track", t>>
        BY <3>1, <4>1
      <4>3. t \in Music[pos + 1] \ saved[userMap[pos + 1]] /\ Full(saved[userMap[pos + 1]])
        BY <3>3, <4>2 DEF NewTracks, Listener
      <4>4. pos + 1 \in DOMAIN Music
        BY <3>2, ListApart
      <4> QED  BY <4>2, <4>3, <4>4 DEF NoRoomFor
    <3> QED  BY <2>1, <3>4
  <2> QED  BY <2>2, <2>3
<1>3. CASE WriteTracks
  <2> DEFINE who == Listener
  <2>1. /\ phase = "tracks" /\ held # {} /\ saved' = [saved EXCEPT ![who] = held \ {"list"}]
    BY <1>3 DEF WriteTracks, Carries
  <2>2. held = saved[who] \cup {"list"} /\ who # NoAccount /\ pos < Len(Music)
    BY <2>1 DEF Carried
  <2>3. who \in Accounts
    <3>1. pos + 1 \in DOMAIN UserName
      BY <2>2, ConstantsAre DEF TypesInv, PhaseTypes
    <3> QED  BY <2>2, <3>1 DEF Listener, TypesInv, UserTypes
  <2> HIDE DEF who
  <2>4. "list" \notin saved[who]
    BY <2>3 DEF Carried
  <2>5. held \ {"list"} = saved[who]
    BY <2>2, <2>4
  <2>6. saved' = saved
    <3>1. IsOver(saved', Accounts)
      BY <2>1, OverExcept DEF OtherTypes
    <3>2. DOMAIN saved = Accounts
      BY DEF OtherTypes, IsOver
    <3>3. \A n \in Accounts : saved'[n] = saved[n]
      BY <2>1, <2>5, <3>2
    <3> QED  BY <3>1, <3>3, SameOver DEF OtherTypes
  <2> QED  BY <1>3, <2>6 DEF WriteTracks, dbVars, profileVars
<1>4. CASE ApplyBans
  <2> DEFINE now == {i \in DOMAIN Bans : i = pos + 1 /\ <<"room", Bans[i].room>> \in idmap}
  <2>1. banned' = banned \cup {<<Bans[i].room, userMap[Bans[i].user]>> : i \in now}
    BY <1>4 DEF ApplyBans
  <2>2. banned' = banned
    BY <2>1 DEF Steady
  <2> QED  BY <1>4, <2>2 DEF ApplyBans, dbVars
<1>5. CASE Finish
  BY <1>5 DEF Finish
<1> QED  BY <1>1, <1>2, <1>3, <1>4, <1>5 DEF Rest

\* After a whole run the import finds nothing to do, wherever it is stopped, but to upload what
\* finds no room.
LEMMA IdleStep ==
  ASSUME OneRoleForASeat, TypesInv, MigrateInv, SettledInv, settled = "yes", [Next]_vars, settled' = "yes"
  PROVE  NothingNew
<1>a. UNCHANGED <<dbVars, objects>> => NothingNew
  BY DEF NothingNew
<1>1. Merged /\ OtherTypes /\ Carried /\ Steady /\ ~Application
  BY ApplicationIs DEF SettledInv
<1>2. CASE Breaks
  <2>1. CASE Start \/ Stop
    BY <1>a, <2>1 DEF Start, Stop
  <2>2. CASE StopAmongUploads
    <3>1. \A j \in Cut(Len(WithFile)) : WithFile[j] \in Range(WithFile)
      BY ConstantsAre DEF Cut, Range
    <3>2. FilesNow = {}
      BY <1>1, <3>1 DEF FilesNow, Steady
    <3> QED  BY <2>2, <3>2 DEF StopAmongUploads
  <2> QED  BY <1>2, <1>a, <2>1, <2>2 DEF Breaks
<1>3. CASE UNCHANGED vars
  BY <1>3, <1>a DEF vars
<1> QED  BY <1>a, <1>1, <1>2, <1>3, StepIs, IdleUsers, IdleRows, IdleJoins, IdlePosts, IdlePictures, IdleRest

LEMMA SettledInit == Init => SettledInv
<1> SUFFICES ASSUME Init PROVE SettledInv
  OBVIOUS
<1>1. Merged /\ Carried /\ settled = "no"
  BY DEF Init, Merged, Carried
<1>2. OtherTypes
  BY DEF Init, OtherTypes, IsOver
<1> QED  BY <1>1, <1>2 DEF SettledInv

LEMMA SettledStep ==
  ASSUME OneRoleForASeat, TypesInv, CompleteInv, MigrateInv, SettledInv, [Next]_vars
  PROVE  SettledInv'
<1>1. Merged' /\ OtherTypes' /\ Carried'
  BY MergedStep, OtherTypesStep, CarriedStep DEF SettledInv, TypesInv
<1>2. ASSUME settled' = "quiet" PROVE Quiet'
  <2>1. ~Application /\ (settled = "quiet" \/ phase' = "users")
    BY <1>2, QuietFrom DEF TypesInv
  <2>2. CASE settled = "quiet"
    BY <1>2, <2>1, <2>2, QuietSeatsStep, QuietFilesStep, QuietAvatarsStep, QuietReactionsStep, QuietTracksStep,
       QuietBansStep DEF Quiet, SettledInv, CompleteInv
  <2> QED  BY <2>1, <2>2, QuietAtStart
<1>3. ASSUME settled' = "yes" PROVE Steady'
  <2>1. settled = "yes" \/ (settled = "quiet" /\ Finish)
    BY <1>3, QuietFrom DEF TypesInv
  <2>2. Steady
    <3>1. CASE settled = "yes"
      BY <3>1 DEF SettledInv
    <3>2. CASE settled = "quiet" /\ Finish
      BY <3>2, SteadyAtEnd DEF SettledInv, Finish, Carries
    <3> QED  BY <2>1, <3>1, <3>2
  <2>3. UNCHANGED dbVars
    <3>1. CASE settled = "yes"
      BY <1>3, <3>1, IdleStep DEF NothingNew
    <3>2. CASE Finish
      BY <3>2 DEF Finish
    <3> QED  BY <2>1, <3>1, <3>2
  <2> QED  BY <2>2, <2>3 DEF Steady, dbVars, userVars, itemVars, messageVars, profileVars, SeatOf, TopicSeat
<1> QED  BY <1>1, <1>2, <1>3 DEF SettledInv

\* Where the legacy rows of a seat agree on its role, a run after a whole run that nobody
\* disturbed writes nothing and uploads nothing but tracks that a full list has no room for, and
\* neither does any run after it, wherever it is stopped: applyUsers to applyMusicAndBans, phase
\* by phase.
THEOREM ASecondRunIsIdle ==
  ASSUME OneRoleForASeat PROVE Spec => RerunChangesNothing
<1>1. Spec => []MigrateInv
  <2>1. Init => MigrateInv
    BY InitKeeps
  <2>2. MigrateInv /\ [Next]_vars => MigrateInv'
    BY NextKeeps
  <2> QED  BY <2>1, <2>2, PTL DEF Spec
<1>2. Spec => []CompleteInv
  BY CompleteInit, CompleteStep, TypesAlways, PTL DEF Spec
<1>3. TypesInv /\ CompleteInv /\ MigrateInv /\ SettledInv /\ [Next]_vars => SettledInv'
  BY SettledStep
<1>4. Spec => []SettledInv
  BY <1>1, <1>2, <1>3, SettledInit, TypesAlways, PTL DEF Spec
<1>5. TypesInv /\ MigrateInv /\ SettledInv /\ [Next]_vars =>
        [settled = "yes" /\ settled' = "yes" => /\ UNCHANGED dbVars
                                               /\ \A f \in FileIds : objects'[f] = objects[f] \/ NoRoomFor(f)]_vars
  BY IdleStep DEF NothingNew
<1> QED  BY <1>1, <1>4, <1>5, TypesAlways, PTL DEF Spec, RerunChangesNothing
=============================================================================
