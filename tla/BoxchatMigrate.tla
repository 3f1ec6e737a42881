---------------------------- MODULE BoxchatMigrate ----------------------------
(***************************************************************************)
(* The one-shot import of the boxchat data: cmd/boxchat-migrate --apply.   *)
(* It walks the legacy tables phase by phase, in batches of one            *)
(* transaction each, and is run again after it stopped half-way or to fill *)
(* in what an earlier version left out.  Meanwhile the imported chats are  *)
(* in use: between two transactions the application changes them.          *)
(*                                                                         *)
(* legacy_id_map remembers what was imported.  A transaction is one step:  *)
(* it reads and writes rows nobody else is changing at that moment.  The   *)
(* object store takes no part in it, so an upload made in a transaction    *)
(* that never commits stays.  The process's own maps (userNewID, chatID,   *)
(* msgID) are legacy_id_map as of its last commit, except for the list of  *)
(* accounts, which is read once.                                           *)
(*                                                                         *)
(* Legacy rows are named by their place in their table, accounts by their  *)
(* lower-case username.  Left out: invite links, room avatars and channel  *)
(* icons (they go the way of users' avatars), titles, bios, sizes, topic   *)
(* numbers (ChatRooms starts from the groups this import leaves behind)    *)
(* and two imports at a time.                                              *)
(***************************************************************************)
EXTENDS Integers, Sequences, FiniteSets, Functions

CONSTANTS
  Accounts,    \* lower-case usernames
  NoAccount,   \* not one of them
  Registered,  \* the accounts there are before the import
  UserName,    \* user: the lower-case name of each legacy user
  MailOf,      \* names found among the e-mail addresses: whose address it is
  Rooms,       \* room: "direct", "group" or "standalone_channel", each
  TopicRoom,   \* channel, but for the root of each room: the room
  Members,     \* member: [room, user, role]
  Messages,    \* message: [user, chat, reply, text], reply 0 for none
  WithFile,    \* the messages whose file is there to be uploaded
  Avatars,     \* the users whose avatar is there to be uploaded
  Reactions,   \* message_reaction, the first of each pair: [msg, user]
  Music,       \* user_music: the tracks of each legacy user
  MaxTracks,   \* what a list of saved tracks holds at most
  Bans,        \* room_ban of broadcast rooms: [room, user]
  Batch,       \* --batch
  MaxRuns,     \* bound: times the import is started
  MaxEdits     \* bound: changes the application makes

RoomIds == {<<"room", r>> : r \in DOMAIN Rooms}
TopicIds == {<<"channel", t>> : t \in DOMAIN TopicRoom}
Chats == RoomIds \cup TopicIds
MessageIds == DOMAIN Messages
Items == Chats \cup {<<"message", m>> : m \in MessageIds}
               \cup {<<"attachment", m>> : m \in MessageIds}
Tracks == UNION Range(Music)
Roles == {"owner", "admin", "member", "subscriber", "banned"}
Seats == Chats \X Accounts
Own == "own"

ASSUME MigrateAssumption ==
  /\ NoAccount \notin Accounts
  /\ Registered \subseteq Accounts /\ Range(UserName) \subseteq Accounts
  /\ \A n \in DOMAIN MailOf : MailOf[n] \in Registered
  /\ TopicRoom \in Seq(DOMAIN Rooms) /\ Messages \in Seq(Range(Messages))
  /\ \A m \in MessageIds : Messages[m].chat \in Chats
  /\ WithFile \in Seq(MessageIds) /\ {Own, "list"} \cap Tracks = {}
  /\ MaxTracks \in Nat /\ Batch \in Nat \ {0} /\ MaxRuns \in Nat /\ MaxEdits \in Nat

\* What refers to a row of the legacy tables refers to one that is there: the import
\* passes over what does not, and so does the model by having none of it.
ASSUME LegacyAssumption ==
  /\ \A i \in DOMAIN Members : /\ Members[i].room \in DOMAIN Rooms
                               /\ Members[i].user \in DOMAIN UserName
  /\ \A m \in MessageIds : /\ Messages[m].user \in DOMAIN UserName
                           /\ Messages[m].reply \in MessageIds \cup {0}
                           /\ Messages[m].text \in {"empty", "text"}
  /\ Members \in Seq(Range(Members)) /\ UserName \in Seq(Accounts)
  /\ Reactions \in Seq([msg : MessageIds, user : DOMAIN UserName])
  /\ Music \in Seq(SUBSET Tracks) /\ Len(Music) = Len(UserName)
  /\ Bans \in Seq([room : DOMAIN Rooms, user : DOMAIN UserName])
  /\ Avatars \subseteq DOMAIN UserName

VARIABLES
  phase, pos, held,           \* the import: where it is, and what it carries on
  known,                      \* loadExistingUsers
  runs, edits,                \* starts of the import, changes by the application
  accounts, userMap,          \* users; legacy_id_map of kind "user"
  rows, idmap,                \* rows made for each item; legacy_id_map of it
  role,                       \* chat_members
  text, token, linked, reply, \* messages and message_attachments
  avatar, photos,             \* avatar_data_url, as a count of uploads; profile_photos
  react, saved, banned,       \* message_reactions, users.saved_tracks, public_channel_bans
  objects,                    \* uploads ever made of each file
  gone, settled               \* ghosts: seats given up; nothing changed since a whole run

runVars == <<phase, pos, held, known, runs>>
userVars == <<accounts, userMap>>
itemVars == <<rows, idmap>>
messageVars == <<text, token, linked, reply>>
profileVars == <<avatar, photos, saved>>
dbVars == <<userVars, itemVars, role, messageVars, profileVars, react, banned>>
ghostVars == <<edits, gone>>
vars == <<runVars, dbVars, objects, ghostVars, settled>>

Phases == <<"users", "dups", "rooms", "topics", "members", "topicMembers", "messages",
            "replies", "attachments", "placeholders", "avatars", "history", "reactions",
            "tracks", "bans", "summary", "done">>
After == [p \in Range(Phases) \ {"done"} |->
            Phases[1 + CHOOSE i \in DOMAIN Phases : Phases[i] = p]]

FileIds == {<<"attachment", m>> : m \in MessageIds} \cup {<<"track", t>> : t \in Tracks}
             \cup {<<"avatar", n>> : n \in Accounts}

Init ==
  /\ phase = "stopped" /\ pos = 0 /\ held = {} /\ known = {}
  /\ runs = 0 /\ edits = 0
  /\ accounts = Registered /\ userMap = [u \in DOMAIN UserName |-> NoAccount]
  /\ rows = [i \in Items |-> 0] /\ idmap = {}
  /\ role = [s \in Seats |-> "none"]
  /\ text = [m \in MessageIds |-> "none"] /\ token = [m \in MessageIds |-> FALSE]
  /\ linked = [m \in MessageIds |-> FALSE] /\ reply = [m \in MessageIds |-> FALSE]
  /\ avatar = [n \in Accounts |-> 0] /\ photos = [n \in Accounts |-> {}]
  /\ react = [s \in MessageIds \X Accounts |-> "none"]
  /\ saved = [n \in Accounts |-> {}] /\ banned = {}
  /\ objects = [f \in FileIds |-> 0]
  /\ gone = {} /\ settled = "no"
-----------------------------------------------------------------------------
(* The plan, and the course of a run. *)

\* buildPlan: the first legacy user of a name stands for those after it.
PrimaryOf(u) == CHOOSE v \in DOMAIN UserName :
                  /\ UserName[v] = UserName[u]
                  /\ \A w \in 1 .. v - 1 : UserName[w] # UserName[u]
UserNew == {u \in DOMAIN UserName : PrimaryOf(u) = u}
UserDups == DOMAIN UserName \ UserNew

\* Messages that lost their file and have no text.
BrokenEmpty == {m \in MessageIds : Messages[m].text = "empty" /\ m \notin Range(WithFile)}

FirstOf(S, n) == {x \in S : Cardinality({y \in S : y < x}) < n}

\* batched: the next items of a list of this length.
Cut(length) == {i \in 1 .. length : pos < i /\ i <= pos + Batch}
Moves(n, length) ==
  IF pos + n >= length THEN pos' = 0 /\ phase' = After[phase]
                       ELSE pos' = pos + n /\ phase' = phase
\* The phases whose list holds only what is still to be done.
MovesOn(left) == /\ pos' = 0
                 /\ phase' = IF left = {} THEN After[phase] ELSE phase
InPhase(p) == /\ phase = p /\ held = {} /\ held' = {}
              /\ UNCHANGED <<known, runs, ghostVars, settled>>

\* What a run did not do, the next one may.
Unsettled == settled' = IF settled = "yes" THEN "yes" ELSE "no"

\* The process reads legacy_id_map, and the accounts.
Start ==
  /\ phase \in {"stopped", "done"} /\ runs < MaxRuns
  /\ phase' = "users" /\ pos' = 0 /\ held' = {}
  /\ known' = accounts /\ runs' = runs + 1
  /\ settled' = IF settled = "yes" THEN "yes" ELSE "quiet"
  /\ UNCHANGED <<dbVars, objects, ghostVars>>

\* It is killed, or gives up on an error (exit 3): what was not committed is
\* not there, and what it carried is lost.
Stop ==
  /\ phase \notin {"stopped", "done"}
  /\ phase' = "stopped" /\ pos' = 0 /\ held' = {} /\ known' = {}
  /\ Unsettled /\ UNCHANGED <<runs, dbVars, objects, ghostVars>>
-----------------------------------------------------------------------------
(* Users: merged into the account of that name, or whose address it is, or  *)
(* created; somebody may have registered the name since the list was read.  *)

MergeTo(n) == IF n \in known THEN n ELSE IF n \in DOMAIN MailOf THEN MailOf[n] ELSE n

ApplyUsers ==
  LET todo == {u \in UserNew : userMap[u] = NoAccount}
      now == FirstOf(todo, Batch)
  IN
  /\ InPhase("users") /\ MovesOn(todo \ now)
  /\ userMap' = [u \in DOMAIN UserName |->
                   IF u \in now THEN MergeTo(UserName[u]) ELSE userMap[u]]
  /\ accounts' = accounts \cup {MergeTo(UserName[u]) : u \in now}
  /\ UNCHANGED <<itemVars, role, messageVars, profileVars, react, banned, objects>>

\* A slip: the others of a name are left out.
DupsForgotten ==
  /\ InPhase("dups") /\ MovesOn({})
  /\ UNCHANGED <<dbVars, objects>>

\* The others of a name, one by one, to the account of the first.
ApplyDups ==
  LET todo == {u \in UserDups : userMap[u] = NoAccount}
      now == FirstOf(todo, 1)
  IN
  /\ InPhase("dups") /\ MovesOn(todo \ now)
  /\ userMap' = [u \in DOMAIN UserName |->
                   IF u \in now THEN userMap[PrimaryOf(u)] ELSE userMap[u]]
  /\ UNCHANGED <<accounts, itemVars, role, messageVars, profileVars, react, banned, objects>>
-----------------------------------------------------------------------------
(* Rows, each with its entry in legacy_id_map, in one transaction. *)

Create(S) ==
  /\ rows' = [i \in Items |-> IF i \in S THEN rows[i] + 1 ELSE rows[i]]
  /\ idmap' = idmap \cup S

\* A slip: rooms are made without asking what was imported.
RoomsAgain ==
  /\ InPhase("rooms") /\ MovesOn({})
  /\ Create(RoomIds)
  /\ UNCHANGED <<userVars, role, messageVars, profileVars, react, banned, objects>>

ApplyRooms ==
  LET todo == {r \in DOMAIN Rooms : <<"room", r>> \notin idmap}
      now == FirstOf(todo, Batch)
  IN
  /\ InPhase("rooms") /\ MovesOn(todo \ now)
  /\ Create({<<"room", r>> : r \in now})
  /\ UNCHANGED <<userVars, role, messageVars, profileVars, react, banned, objects>>

ApplyTopics ==
  LET now == {t \in Cut(Len(TopicRoom)) : /\ <<"channel", t>> \notin idmap
                                          /\ <<"room", TopicRoom[t]>> \in idmap}
  IN
  /\ InPhase("topics") /\ Moves(Batch, Len(TopicRoom))
  /\ Create({<<"channel", t>> : t \in now})
  /\ UNCHANGED <<userVars, role, messageVars, profileVars, react, banned, objects>>

NormRole(r) == IF r \in {"owner", "admin"} THEN r ELSE "member"
NormChannelRole(r) == IF r \in {"owner", "admin", "banned"} THEN r ELSE "subscriber"
RoomRole(m) == IF Rooms[m.room] = "standalone_channel" THEN NormChannelRole(m.role)
               ELSE NormRole(m.role)
SeatOf(m) == <<<<"room", m.room>>, userMap[m.user]>>

\* ON CONFLICT DO UPDATE: the role of the last row, whatever it has become.
ApplyMembers ==
  /\ InPhase("members") /\ Moves(Batch, Len(Members))
  /\ role' = [s \in Seats |->
        LET mine == {i \in Cut(Len(Members)) : SeatOf(Members[i]) = s}
        IN  IF mine = {} THEN role[s]
            ELSE RoomRole(Members[CHOOSE i \in mine : \A j \in mine : j <= i])]
  /\ UNCHANGED <<userVars, itemVars, messageVars, profileVars, react, banned, objects>>

\* The members of the room a topic belongs to, and the roles they take in it.
TopicSeats(t, n) == {i \in DOMAIN Members : /\ Members[i].room = TopicRoom[t]
                                            /\ userMap[Members[i].user] = n}
\* A slip: DO UPDATE here as well.
TopicRoleAnew(t, n) ==
  LET mine == TopicSeats(t, n)
  IN  IF mine = {} THEN role[<<<<"channel", t>>, n>>]
      ELSE NormRole(Members[CHOOSE i \in mine : \A j \in mine : i <= j].role)

\* ON CONFLICT DO NOTHING: a role that is there wins, the first row otherwise.
TopicRole(t, n) ==
  LET mine == TopicSeats(t, n)
      is == role[<<<<"channel", t>>, n>>]
  IN  IF is # "none" \/ mine = {} THEN is
      ELSE NormRole(Members[CHOOSE i \in mine : \A j \in mine : i <= j].role)

ApplyTopicMembers ==
  /\ InPhase("topicMembers") /\ Moves(Batch, Len(TopicRoom))
  /\ role' = [s \in Seats |->
        IF s[1] \in TopicIds /\ s[1][2] \in Cut(Len(TopicRoom)) /\ s[1] \in idmap
        THEN TopicRole(s[1][2], s[2]) ELSE role[s]]
  /\ UNCHANGED <<userVars, itemVars, messageVars, profileVars, react, banned, objects>>
-----------------------------------------------------------------------------
(* Messages, then who replies to whom, then their files. *)

ApplyMessages ==
  LET now == {m \in Cut(Len(Messages)) : /\ <<"message", m>> \notin idmap
                                         /\ userMap[Messages[m].user] # NoAccount
                                         /\ Messages[m].chat \in idmap}
  IN
  /\ InPhase("messages") /\ Moves(Batch, Len(Messages))
  /\ Create({<<"message", m>> : m \in now})
  /\ text' = [m \in MessageIds |-> IF m \in now THEN Messages[m].text ELSE text[m]]
  /\ UNCHANGED <<userVars, role, token, linked, reply, profileVars, react, banned, objects>>

Wired(m) == /\ Messages[m].reply # 0
            /\ {<<"message", m>>, <<"message", Messages[m].reply>>} \subseteq idmap

ApplyReplies ==
  /\ InPhase("replies") /\ Moves(Batch, Len(Messages))
  /\ reply' = [m \in MessageIds |-> reply[m] \/ (m \in Cut(Len(Messages)) /\ Wired(m))]
  /\ UNCHANGED <<userVars, itemVars, role, text, token, linked, profileVars, react, banned, objects>>

Uploaded(S) == objects' = [f \in FileIds |-> IF f \in S THEN objects[f] + 1 ELSE objects[f]]

\* The files of this batch that were not imported before.
FilesNow == {i \in Cut(Len(WithFile)) : /\ <<"message", WithFile[i]>> \in idmap
                                        /\ <<"attachment", WithFile[i]>> \notin idmap}

\* A file imported before is not uploaded again, but its link and its token
\* are put back.
ApplyAttachments ==
  LET now == {WithFile[i] : i \in FilesNow}
      mine == {WithFile[i] : i \in Cut(Len(WithFile))} \cap {m \in MessageIds : <<"message", m>> \in idmap}
  IN
  /\ InPhase("attachments") /\ Moves(Batch, Len(WithFile))
  /\ Create({<<"attachment", m>> : m \in now}) /\ Uploaded({<<"attachment", m>> : m \in now})
  /\ linked' = [m \in MessageIds |-> linked[m] \/ m \in mine]
  /\ token' = [m \in MessageIds |-> token[m] \/ m \in mine]
  /\ UNCHANGED <<userVars, role, text, reply, profileVars, react, banned>>

\* The run stops among the uploads of a batch: those made stay, the rows are
\* rolled back.
StopAmongUploads ==
  /\ phase = "attachments" /\ \E i \in FilesNow :
       Uploaded({<<"attachment", WithFile[j]>> : j \in {k \in FilesNow : k <= i}})
  /\ phase' = "stopped" /\ pos' = 0 /\ held' = {} /\ known' = {}
  /\ Unsettled /\ UNCHANGED <<runs, dbVars, ghostVars>>

\* A marker where the file is lost and nothing was written in its place.
ApplyPlaceholders ==
  LET now == FirstOf({m \in BrokenEmpty : m > pos}, Batch)
      left == {m \in BrokenEmpty : m > pos} \ now
  IN
  /\ InPhase("placeholders")
  /\ IF left = {} THEN pos' = 0 /\ phase' = After[phase]
     ELSE pos' = (CHOOSE m \in now : \A k \in now : k <= m) /\ phase' = phase
  /\ text' = [m \in MessageIds |->
        IF m \in now /\ text[m] = "empty" /\ ~token[m] /\ ~linked[m] THEN "marker" ELSE text[m]]
  /\ UNCHANGED <<userVars, itemVars, role, token, linked, reply, profileVars, react, banned, objects>>
-----------------------------------------------------------------------------
(* What is written statement by statement, outside a transaction. *)

Carries(p) == phase = p /\ UNCHANGED <<known, runs, ghostVars>>

AvatarOwner == userMap[CHOOSE u \in Avatars : Cardinality({v \in Avatars : v < u}) = pos]

\* An imported avatar is not uploaded again.
WantsAvatar == Avatars # {} /\ AvatarOwner # NoAccount /\ avatar[AvatarOwner] <= 0

\* Uploaded under a fresh key, and carried to the UPDATE; an upload that
\* fails is counted and passed over.
PutAvatar ==
  /\ Carries("avatars") /\ held = {} /\ UNCHANGED dbVars
  /\ \/ /\ WantsAvatar /\ Uploaded({<<"avatar", AvatarOwner>>})
        /\ held' = {AvatarOwner} /\ UNCHANGED <<phase, pos, settled>>
     \/ /\ WantsAvatar /\ Unsettled /\ held' = {} /\ Moves(1, Cardinality(Avatars))
        /\ UNCHANGED objects
     \/ /\ ~WantsAvatar /\ held' = {} /\ Moves(1, Cardinality(Avatars))
        /\ UNCHANGED <<objects, settled>>

\* A slip: the reference is written for an upload that failed.
NameUnstored ==
  /\ Carries("avatars") /\ WantsAvatar /\ held' = {} /\ Moves(1, Cardinality(Avatars))
  /\ avatar' = [avatar EXCEPT ![AvatarOwner] = objects[<<"avatar", AvatarOwner>>] + 1]
  /\ UNCHANGED <<userVars, itemVars, role, messageVars, photos, saved, react, banned, objects, settled>>

\* Whatever avatar the user has chosen since it was read.
NameAvatar ==
  /\ Carries("avatars") /\ held # {} /\ held' = {} /\ Moves(1, Cardinality(Avatars))
  /\ avatar' = [avatar EXCEPT ![AvatarOwner] = objects[<<"avatar", AvatarOwner>>]]
  /\ UNCHANGED <<userVars, itemVars, role, messageVars, photos, saved, react, banned, objects, settled>>

\* One row for each imported avatar that has none, of every account there is.
ApplyAvatarHistory ==
  /\ InPhase("history") /\ pos' = 0 /\ phase' = After[phase]
  /\ photos' = [n \in Accounts |-> IF avatar[n] > 0 THEN photos[n] \cup {avatar[n]} ELSE photos[n]]
  /\ UNCHANGED <<userVars, itemVars, role, messageVars, avatar, saved, react, banned, objects>>

\* A reaction takes the time of its message, and so does one that is there
\* already and has another.
ApplyReactions ==
  LET mine == {<<Reactions[i].msg, userMap[Reactions[i].user]>> :
                 i \in {j \in Cut(Len(Reactions)) : /\ <<"message", Reactions[j].msg>> \in idmap
                                                    /\ userMap[Reactions[j].user] # NoAccount}}
  IN
  /\ InPhase("reactions") /\ Moves(Batch, Len(Reactions))
  /\ react' = [s \in DOMAIN react |-> IF s \in mine THEN "parent" ELSE react[s]]
  /\ UNCHANGED <<userVars, itemVars, role, messageVars, profileVars, banned, objects>>

\* The list of a user is read, files that are not in it are uploaded, and
\* the whole list is written back.  Whether the list has room for a file is
\* looked at when the file is up.  (The users come in the order of a Go map;
\* one list has no bearing on another's.  A list is decoded as it was encoded,
\* by the service or the import; that it fails is left out.)
Listener == userMap[pos + 1]

\* A slip: what is in the list is not looked up.
AllTracks == Music[pos + 1]

NewTracks == {t \in Music[pos + 1] : t \notin saved[Listener]}
Full(list) == Cardinality(list) >= MaxTracks

\* What of the files that are up comes into a list.
Fitting(list, up) ==
  IF Full(list) THEN {{}}
  ELSE {add \in SUBSET up : /\ Cardinality(list \cup add) <= MaxTracks
                            /\ add = up \/ Full(list \cup add)}

PutTracks ==
  /\ Carries("tracks") /\ held = {} /\ UNCHANGED dbVars
  /\ IF pos >= Len(Music) \/ Listener = NoAccount
     THEN held' = {} /\ Moves(1, Len(Music)) /\ UNCHANGED <<objects, settled>>
     ELSE \E up \in SUBSET NewTracks :
            /\ Uploaded({<<"track", t>> : t \in up})
            /\ \E add \in Fitting(saved[Listener], up) :
                 held' = saved[Listener] \cup add \cup {"list"}
            /\ IF up = NewTracks THEN UNCHANGED settled ELSE Unsettled
            /\ UNCHANGED <<phase, pos>>

WriteTracks ==
  /\ Carries("tracks") /\ held # {} /\ held' = {} /\ Moves(1, Len(Music))
  /\ saved' = [saved EXCEPT ![Listener] = held \ {"list"}]
  /\ UNCHANGED <<userVars, itemVars, role, messageVars, avatar, photos, react, banned, objects, settled>>

ApplyBans ==
  LET now == {i \in DOMAIN Bans : i = pos + 1 /\ <<"room", Bans[i].room>> \in idmap} IN
  /\ InPhase("bans") /\ Moves(1, Len(Bans))
  /\ banned' = banned \cup {<<Bans[i].room, userMap[Bans[i].user]>> : i \in now}
  /\ UNCHANGED <<userVars, itemVars, role, messageVars, profileVars, react, objects>>

\* The summary; the process ends.
Finish ==
  /\ Carries("summary") /\ phase' = "done" /\ pos' = 0 /\ held' = {}
  /\ settled' = IF settled = "no" THEN "no" ELSE "yes"
  /\ UNCHANGED <<dbVars, objects>>
-----------------------------------------------------------------------------
(* The application, between two statements of the import. *)

Edits == edits < MaxEdits /\ edits' = edits + 1 /\ settled' = "no" /\ UNCHANGED <<runVars, objects>>

Registers(n) ==
  /\ Edits /\ n \notin accounts /\ accounts' = accounts \cup {n}
  /\ UNCHANGED <<userMap, itemVars, role, messageVars, profileVars, react, banned, gone>>

\* A member leaves, is removed, or is given another role.
SetsRole(s, r) ==
  /\ Edits /\ role[s] \notin {"none", r} /\ role' = [role EXCEPT ![s] = r]
  /\ gone' = IF r = "none" THEN gone \cup {s} ELSE gone
  /\ UNCHANGED <<userVars, itemVars, messageVars, profileVars, react, banned>>

\* The text is written anew, with its token or without.  The links of the message are
\* deleted, and made again for the files the request names.
EditsMessage(m, keeps, names) ==
  /\ Edits /\ text[m] # "none" /\ text' = [text EXCEPT ![m] = "edited"]
  /\ token' = [token EXCEPT ![m] = @ /\ keeps]
  /\ linked' = [linked EXCEPT ![m] = names /\ <<"attachment", m>> \in idmap]
  /\ UNCHANGED <<userVars, itemVars, role, reply, profileVars, react, banned, gone>>

ChoosesAvatar(n) ==
  /\ Edits /\ n \in accounts /\ avatar' = [avatar EXCEPT ![n] = -1]
  /\ UNCHANGED <<userVars, itemVars, role, messageVars, photos, saved, react, banned, gone>>

\* The toggle of a reaction: taken back, or another one in its place, now.
Reacts(s) ==
  /\ Edits /\ text[s[1]] # "none" /\ s[2] \in accounts
  /\ \E to \in {"now", "none"} :
       (to = "none" => react[s] # "none") /\ react' = [react EXCEPT ![s] = to]
  /\ UNCHANGED <<userVars, itemVars, role, messageVars, profileVars, banned, gone>>

\* The service keeps no more than fit: what comes into a full list pushes another out.
SavesTrack(n) ==
  /\ Edits /\ n \in accounts /\ ~Full(saved[n]) /\ saved' = [saved EXCEPT ![n] = @ \cup {Own}]
  /\ UNCHANGED <<userVars, itemVars, role, messageVars, avatar, photos, react, banned, gone>>
DropsTrack(n, t) ==
  /\ Edits /\ t \in saved[n] /\ saved' = [saved EXCEPT ![n] = @ \ {t}]
  /\ UNCHANGED <<userVars, itemVars, role, messageVars, avatar, photos, react, banned, gone>>

Application ==
  \/ \E n \in Accounts :
       \/ Registers(n) \/ ChoosesAvatar(n) \/ SavesTrack(n)
       \/ \E t \in Tracks \cup {Own} : DropsTrack(n, t)
  \/ \E s \in Seats, r \in {"admin", "member", "none"} : SetsRole(s, r)
  \/ \E m \in MessageIds, keeps, names \in BOOLEAN : EditsMessage(m, keeps, names)
  \/ \E s \in MessageIds \X Accounts : Reacts(s)
-----------------------------------------------------------------------------
RunApply ==
  \/ ApplyUsers \/ ApplyDups \/ ApplyRooms \/ ApplyTopics
  \/ ApplyMembers \/ ApplyTopicMembers \/ ApplyMessages \/ ApplyReplies
  \/ ApplyAttachments \/ ApplyPlaceholders
  \/ PutAvatar \/ NameAvatar \/ ApplyAvatarHistory
  \/ ApplyReactions \/ PutTracks \/ WriteTracks \/ ApplyBans \/ Finish

Next == Start \/ RunApply \/ Stop \/ StopAmongUploads \/ Application

Spec == Init /\ [][Next]_vars
-----------------------------------------------------------------------------
(* Properties *)

\* Types; what refers to something refers to what is there: an account, a
\* chat of the message, the message of a file, the file of a link and of a
\* token, the upload behind an avatar and behind a saved track.
TypeOK ==
  /\ phase \in Range(Phases) \cup {"stopped"} /\ pos \in Nat
  /\ settled \in {"no", "quiet", "yes"}
  /\ Range(userMap) \subseteq accounts \cup {NoAccount}
  /\ idmap \subseteq Items
  /\ role \in [Seats -> Roles \cup {"none"}]
  /\ \A m \in MessageIds :
       /\ text[m] # "none" <=> <<"message", m>> \in idmap
       /\ <<"message", m>> \in idmap => Messages[m].chat \in idmap
       /\ <<"attachment", m>> \in idmap => <<"message", m>> \in idmap
       /\ linked[m] \/ token[m] => <<"attachment", m>> \in idmap
  /\ \A n \in Accounts :
       /\ avatar[n] <= objects[<<"avatar", n>>]
       /\ \A t \in saved[n] \cap Tracks : objects[<<"track", t>>] > 0

\* However often the import stops and is run again, nothing legacy has two
\* rows, and what has a row is in legacy_id_map ("Every created row registers
\* here", main.go).
ImportedOnce == \A i \in Items : rows[i] = IF i \in idmap THEN 1 ELSE 0

\* A run that came to its end has brought everything over, whichever runs
\* did the work: users of one name share an account; members sit in their
\* room and, so that they can read it, in its topics, but for the seats
\* given up since; every message is there and answers what it answered; a
\* file is linked and named by its token, a lost one by a marker, unless the
\* text was written anew; an imported avatar has its place in the history.
FinishedIsComplete == phase = "done" =>
  /\ \A u \in DOMAIN UserName : /\ userMap[u] # NoAccount
                                /\ userMap[u] = userMap[PrimaryOf(u)]
  /\ \A i \in DOMAIN Members, c \in Chats :
       (c = <<"room", Members[i].room>> \/ (c \in TopicIds /\ TopicRoom[c[2]] = Members[i].room))
         => LET s == <<c, userMap[Members[i].user]>> IN role[s] # "none" \/ s \in gone
  /\ \A m \in MessageIds :
       /\ <<"message", m>> \in idmap /\ (reply[m] <=> Messages[m].reply # 0)
       /\ m \in Range(WithFile) => /\ <<"attachment", m>> \in idmap
                                   /\ (linked[m] /\ token[m]) \/ text[m] = "edited"
       /\ m \in BrokenEmpty => text[m] \in {"marker", "edited"}
  /\ \A n \in Accounts : avatar[n] > 0 => avatar[n] \in photos[n]

\* Whose account a legacy user may come to: applyUsers merges by name, or by address.
MayBe(u) == {UserName[u]} \cup {MailOf[n] : n \in {UserName[u]} \cap DOMAIN MailOf}

\* The rows of the legacy table that may be of one seat give it one role.
OneRoleForASeat ==
  \A i, j \in DOMAIN Members :
    Members[i].room = Members[j].room /\ MayBe(Members[i].user) \cap MayBe(Members[j].user) # {} =>
      RoomRole(Members[i]) = RoomRole(Members[j])

\* After a whole run that nobody disturbed, the next one changes no row and
\* uploads nothing but the tracks that a full list had no room for, as long as
\* nobody changes anything ("Re-running --apply is safe", MIGRATE_BOXCHAT.md),
\* and OneRoleForASeat holds: of two roles for a seat, in two batches, each run
\* writes both.
NoRoomFor(f) == \E u \in DOMAIN Music : /\ f \in {<<"track", t>> : t \in Music[u] \ saved[userMap[u]]}
                                         /\ Full(saved[userMap[u]])
RerunChangesNothing == [][settled = "yes" /\ settled' = "yes" =>
  /\ UNCHANGED dbVars
  /\ \A f \in FileIds : objects'[f] = objects[f] \/ NoRoomFor(f)]_vars

\* Such a run uploads nothing at all ("else tracks duplicate on every --apply
\* and orphan MinIO objects pile up", main.go, applyMusicAndBans).  It does not
\* hold: what a full list has no room for is uploaded again by every run.
NoOrphansPileUp == [][settled = "yes" /\ settled' = "yes" => UNCHANGED objects]_vars

\* What people did in the imported chats stands: no run changes the role a
\* topic gives someone, or a text that was written anew, but for the token of
\* its file, which applyAttachments puts back ("hand-edited roles
\* win", applyTopicMembers; "only touches legacy messages that are still
\* empty", applyBrokenPlaceholders).
HandEditsStand == [][edits' = edits =>
  /\ \A s \in TopicIds \X Accounts : role[s] # "none" => role'[s] = role[s]
  /\ \A m \in MessageIds : text[m] = "edited" => text'[m] = "edited"]_vars

\* A reaction somebody gave since the import keeps its time ("this never
\* clobbers genuine new user activity", applyReactions).  It does not hold, and
\* no run states it (README, "What disagrees").
NewReactionsStand == [][edits' = edits =>
  \A s \in DOMAIN react : react[s] = "now" => react'[s] = "now"]_vars

=============================================================================
