---------------------------- MODULE ChatMessages ----------------------------
(***************************************************************************)
(* The messages of one chat (internal/service/chat, MessageRepository and  *)
(* PollRepository, message statuses and unread counters in valkey):        *)
(* posting, forwarding, polls, editing, deleting, reactions, pins,         *)
(* receipts, cleared histories, and the moderation of channels.            *)
(*                                                                         *)
(* A request first reads - the chat, the standing of who asks, the message *)
(* it is about - and then writes, without a transaction: its reads are one *)
(* step, and each write to the database is another, with the counters in   *)
(* valkey that follow it.  A request one of whose reads no longer holds is *)
(* stale; that the reads are several statements makes no more than one     *)
(* more way to become so.  Nothing makes a request take its next step: one *)
(* whose statement fails, or whose client is gone, has stopped for good.   *)
(*                                                                         *)
(* Left out: archived and pinned chats, content, previews, pages, devices  *)
(* and envelopes, the events published to members, and the privacy of      *)
(* forwarded names.  What is forwarded is from the chat it is posted in.   *)
(***************************************************************************)
EXTENDS Naturals, FiniteSets

CONSTANTS
  Users,       \* users
  Requests,    \* requests that can be under way at a time
  Nobody,      \* not a user: the author of a bot's message
  MaxMessages, \* bound on the messages of the chat
  MaxOps       \* bound on the requests begun

ASSUME MessagesAssumption ==
  Nobody \notin Users /\ MaxMessages \in Nat \ {0} /\ MaxOps \in Nat

Messages == 1..MaxMessages               \* in the order they are posted
Tags == 0..MaxOps                        \* a request by its number; 0 is none of them
Kinds == {"direct", "secret", "group", "topic", "channel", "private", "thread"}
\* An owner is an admin here, a subscriber a member; "parent" is a member of the group of
\* a topic only.  The rows and bans of a thread are those of the channel it belongs to.
Roles == {"admin", "moderator", "member", "banned", "parent", "absent"}

VARIABLES
  kind,       \* what the chat is; the channel is public and the private one is not
  restricted, \* only admins send to the topic
  comments,   \* subscribers may reply in the channel
  role,       \* role[u] in chat_members
  banned,     \* public_channel_bans
  muted,      \* public_channel_mutes
  author,     \* author[m]
  state,      \* state[m]: "none", "live", "deleted"
  text,       \* text[m]: the edit the content is from
  files,      \* files[m]: the edits that message_attachments has rows of
  origin,     \* origin[m]: the author a forwarded copy names
  reactions,  \* reactions[m]: who reacts
  pinned,     \* the pinned message, or 0
  poll,       \* poll[m]: "none", "open", "closed", or past closes_at
  revoting,   \* polls allow a vote to be changed
  ballot,     \* ballot[m][u]: the vote of u, or 0
  own,        \* own[m][u]: 0, 1 delivered, 2 read
  latest,     \* latest[m]: the status shown to the author
  mixed,      \* the messages last edited by a stale request
  lapsed,     \* those whose receipts went astray since one of reading was written whole
  badge,      \* who has unread messages counted
  cleared,    \* cleared[u]: the last message before the history of u begins
  req,        \* req[x]: what request x has read and does next
  ops,        \* requests begun
  overtaken   \* a stale request has written

chatVars == <<kind, restricted, comments, revoting>>
standingVars == <<role, banned, muted>>
messageVars == <<author, state, text, files, origin, mixed>>
pollVars == <<poll, ballot>>
statusVars == <<own, latest, lapsed>>
memberVars == <<badge, cleared>>
vars == <<chatVars, standingVars, messageVars, reactions, pinned, pollVars, statusVars, memberVars,
          req, ops, overtaken>>

\* at: the write that is next; me: who asks; m: the message it is about; tag: the number of
\* the request; of: what it is to do; whom: who is moderated, replied to, or named by a copy;
\* n: a status or a time; rows: the files an edit replaces.
Idle == [at |-> "idle", me |-> Nobody, m |-> 0, tag |-> 0, of |-> "", whom |-> Nobody, n |-> 0,
         rows |-> {}, stale |-> FALSE]

Standalone == kind \in {"channel", "private"}
Moderated == Standalone \/ kind = "thread"

Init ==
  /\ kind \in Kinds
  /\ restricted \in BOOLEAN /\ (restricted => kind = "topic")
  /\ comments = (kind = "channel")  \* the private channel has them off
  /\ role \in [Users -> CASE Moderated -> {"admin", "member", "banned", "absent"}
                          [] kind = "topic" -> {"admin", "moderator", "member", "parent", "absent"}
                          [] kind = "group" -> {"admin", "moderator", "member", "absent"}
                          [] OTHER -> {"member", "absent"}]
  \* one at most is banned or muted at first
  /\ banned \in SUBSET Users /\ muted \in SUBSET Users
  /\ Cardinality(banned) + Cardinality(muted) <= IF Moderated THEN 1 ELSE 0
  /\ \E a \in Users \union {Nobody} : author = [m \in Messages |-> IF m = 1 THEN a ELSE Nobody]
  /\ state = [m \in Messages |-> IF m = 1 THEN "live" ELSE "none"]
  /\ poll = [m \in Messages |-> IF m = 1 /\ kind # "secret" /\ author[1] # Nobody THEN "open" ELSE "none"]
  /\ text = [m \in Messages |-> 0] /\ files = [m \in Messages |-> {}]
  /\ origin = [m \in Messages |-> Nobody] /\ reactions = [m \in Messages |-> {}]
  /\ pinned = 0 /\ revoting \in (IF poll[1] = "open" THEN BOOLEAN ELSE {TRUE})
  /\ ballot = [m \in Messages |-> [u \in Users |-> 0]]
  /\ own = [m \in Messages |-> [u \in Users |-> 0]] /\ latest = [m \in Messages |-> 0]
  /\ mixed = {} /\ lapsed = {}
  /\ badge = {} /\ cleared = [u \in Users |-> 0]
  /\ req = [x \in Requests |-> Idle] /\ ops = 0 /\ overtaken = FALSE
-----------------------------------------------------------------------------
At(x, label) == req[x].at = label
Posted == {m \in Messages : state[m] # "none"}
Live == {m \in Messages : state[m] = "live"}  \* those that GetMessageMeta finds
GetMessageByID == Live                      \* and those it finds, with all they hold

\* IsChatMember with the fallback to the group of a topic (ensureChatMember); nobody has a
\* row in the chat of a thread.
Member(u) == kind # "thread" /\ role[u] \in {"admin", "moderator", "member", "parent"}
ListChatMemberIDs == {u \in Users : kind # "thread" /\ role[u] \in {"admin", "moderator", "member"}}
CanPostIntoChannel(u) == restricted => role[u] \in {"admin", "moderator"}
\* Who reads the chat.
Readable(u) ==
  \/ kind = "channel" /\ u \notin banned /\ role[u] # "banned"
  \/ kind = "thread" /\ u \notin banned
  \/ kind \notin {"channel", "thread"} /\ Member(u)
ChatListAccess(u) == Readable(u)  \* who may keep state of his own about the chat
\* Who posts.
MayPost(u) ==
  \/ Standalone /\ Member(u) /\ u \notin banned \union muted /\ role[u] = "admin"
  \/ kind = "thread" /\ u \notin banned \union muted /\ role[u] = "admin"
  \/ kind = "topic" /\ Member(u) /\ CanPostIntoChannel(u)
  \/ kind \in {"direct", "secret", "group"} /\ Member(u)
\* What CreateMessage allows beyond that: a subscriber's reply to an admin's post.
MayReply(u, m) ==
  /\ Standalone /\ comments /\ role[u] = "member" /\ u \notin banned \union muted
  /\ m \in Live /\ author[m] # Nobody /\ role[author[m]] = "admin"
\* What a user has before him: not what is deleted, nor what he has cleared away.
ListMessages(u) == {m \in Live : m > cleared[u]}

\* The requests under way that have read m, for a write of one of these kinds.
About(m, labels) == {x \in Requests : req[x].m = m /\ req[x].at \in labels}
By(u) == {x \in Requests : req[x].me = u /\ u # Nobody}

\* Request x, which is idle, of u, about m, has read all it needs and goes on to write.
BeginWith(x, u, m, of, label, whom, n, rows) ==
  /\ ops' = ops + 1
  /\ req' = [req EXCEPT ![x] = [at |-> label, me |-> u, m |-> m, tag |-> ops + 1, of |-> of,
                                whom |-> whom, n |-> n, rows |-> rows, stale |-> FALSE]]
  /\ UNCHANGED <<chatVars, standingVars, messageVars, reactions, pinned, pollVars, statusVars,
                 memberVars, overtaken>>
Begin(x, u, m, of, label) == BeginWith(x, u, m, of, label, Nobody, 0, {})
\* x is next r, and the requests of hit are stale.
Then(x, r, hit) ==
  /\ req' = [y \in Requests |-> IF y = x THEN r
                                ELSE [req[y] EXCEPT !.stale = @ \/ y \in hit]]
  /\ UNCHANGED ops
\* A write on the strength of what x has read.
Writes(x) == overtaken' = (overtaken \/ req[x].stale)
Attached(x) == IF req[x].of = "files" THEN {req[x].tag} ELSE {}
Goto(x, label) == [req[x] EXCEPT !.at = label]
-----------------------------------------------------------------------------
(* Posting.                                                                *)

CreateMessage(x) == \E u \in Users, of \in {"plain", "files"} :
  \/ MayPost(u) /\ Begin(x, u, 0, of, "Insert")
  \/ \E m \in Live : MayReply(u, m) /\ BeginWith(x, u, m, of, "Insert", author[m], 0, {})
CreatePoll(x) == \E u \in Users :
  kind # "secret" /\ MayPost(u) /\ Begin(x, u, 0, "poll", "Insert")
CreateMessageAsBot(x) == kind # "secret" /\ Begin(x, Nobody, 0, "plain", "Insert")
\* A copy of a copy names the first author.
OriginOf(m) == IF origin[m] # Nobody THEN origin[m] ELSE author[m]
ForwardAnywhere(x) == \E u \in Users, m \in Live :  \* a slip: only reading is asked for
  /\ kind # "secret" /\ Readable(u)
  /\ BeginWith(x, u, m, "forward", "Insert", OriginOf(m), 0, {})
ForwardMessage(x) == \E u \in Users, m \in Live :
  /\ kind # "secret" /\ Readable(u) /\ MayPost(u)
  /\ BeginWith(x, u, m, "forward", "Insert", OriginOf(m), 0, {})
\* With it the unread counters of the other members, which a bot and a copy do not move.
Insert(x) == LET m == Cardinality(Posted) + 1 IN
  /\ At(x, "Insert") /\ m \in Messages
  /\ state' = [state EXCEPT ![m] = "live"]
  /\ author' = [author EXCEPT ![m] = req[x].me]
  /\ text' = [text EXCEPT ![m] = req[x].tag]
  /\ files' = [files EXCEPT ![m] = Attached(x)]
  /\ Writes(x)
  /\ badge' = IF req[x].me = Nobody \/ req[x].of = "forward" THEN badge
              ELSE badge \union (ListChatMemberIDs \ {req[x].me})
  /\ Then(x, IF req[x].of \in {"forward", "poll"} THEN [Goto(x, req[x].of) EXCEPT !.m = m] ELSE Idle, {})
  /\ UNCHANGED <<chatVars, standingVars, origin, mixed, reactions, pinned, pollVars, statusVars, cleared>>
ForwardOrigin(x) ==
  /\ At(x, "forward")
  /\ origin' = [origin EXCEPT ![req[x].m] = req[x].whom]
  /\ Then(x, Idle, {})
  /\ UNCHANGED <<chatVars, standingVars, author, state, text, files, mixed, reactions, pinned, pollVars,
                 statusVars, memberVars, overtaken>>
PollRow(x) ==
  /\ At(x, "poll")
  /\ poll' = [poll EXCEPT ![req[x].m] = "open"]
  /\ Then(x, Idle, {})
  /\ UNCHANGED <<chatVars, standingVars, messageVars, reactions, pinned, ballot, statusVars,
                 memberVars, overtaken>>
-----------------------------------------------------------------------------
(* Editing, deleting, reacting and pinning.                                *)

Edit(x, u, m, of) ==
  /\ kind # "secret" /\ Member(u)
  /\ IF Standalone THEN role[u] = "admin" ELSE author[m] = u
  /\ BeginWith(x, u, m, of, "Edit", Nobody, 0, files[m])
EditMessage(x) == \E u \in Users, m \in Live, of \in {"plain", "files"} : Edit(x, u, m, of)
EditMessageByID(x) == \E u \in Users, m \in Live : Edit(x, u, m, "plain")
\* One transaction: it deletes the rows of files it sees, adds its own, and is rolled back if
\* the message is deleted by then.  What another edit adds after it has looked it leaves, so
\* that the files of two edits may mix; the next edit that runs alone takes them all away.
UpdateTo(x, rows) == LET m == req[x].m IN
  /\ text' = [text EXCEPT ![m] = req[x].tag]
  /\ files' = [files EXCEPT ![m] = rows \union Attached(x)]
  /\ mixed' = IF req[x].stale THEN mixed \union {m} ELSE mixed \ {m}
Edited(x) ==
  /\ Then(x, Idle, About(req[x].m, {"Edit"}))
  /\ UNCHANGED <<chatVars, standingVars, author, state, origin, reactions, pinned, pollVars, statusVars,
                 memberVars, overtaken>>
EditAdding(x) == LET m == req[x].m IN    \* a slip: the old rows stay
  At(x, "Edit") /\ m \in Live /\ UpdateTo(x, files[m]) /\ Edited(x)
EditDeleted(x) == LET m == req[x].m IN   \* a slip: without deleted_at IS NULL
  At(x, "Edit") /\ UpdateTo(x, files[m] \ req[x].rows) /\ Edited(x)
UpdateMessageContent(x) == LET m == req[x].m IN
  /\ At(x, "Edit")
  /\ \/ m \in Live /\ UpdateTo(x, files[m] \ req[x].rows)
     \/ m \notin Live /\ UNCHANGED <<text, files, mixed>>
  /\ Edited(x)

\* Either side of a direct chat deletes what it likes, and so do the admins of a channel.
DeleteMessage(x) == \E u \in Users, m \in Live :
  /\ kind # "secret"
  /\ \/ kind = "thread" /\ u \notin banned /\ role[u] = "admin"
     \/ Standalone /\ role[u] = "admin"
     \/ ~Moderated /\ Member(u) /\ (kind = "direct" \/ author[m] = u)
  /\ Begin(x, u, m, "", "Delete")
SoftDeleteMessage(x) == LET m == req[x].m IN
  /\ At(x, "Delete")
  /\ \/ m \in Live /\ state' = [state EXCEPT ![m] = "deleted"] /\ Writes(x)
     \/ m \notin Live /\ UNCHANGED <<state, overtaken>>
  /\ Then(x, Idle, About(m, {"React", "Vote", "ClosePoll", "Pin", "Insert"}))
  /\ UNCHANGED <<chatVars, standingVars, author, text, files, origin, mixed, reactions, pinned, pollVars,
                 statusVars, memberVars>>

ToggleMessageReaction(x) == \E u \in Users, m \in Live :
  /\ \/ Standalone /\ u \notin banned \union muted /\ role[u] \in {"admin", "member", "absent"}
     \/ kind = "thread" /\ u \notin banned \union muted
     \/ ~Moderated /\ Member(u)
  /\ Begin(x, u, m, IF u \in reactions[m] THEN "removed" ELSE "set", "React")
ReactionWrite(x) == LET m == req[x].m IN
  /\ At(x, "React")
  /\ reactions' = [reactions EXCEPT ![m] = IF req[x].of = "set" THEN @ \union {req[x].me} ELSE @ \ {req[x].me}]
  /\ Writes(x)
  /\ Then(x, Idle, About(m, {"React"}) \intersect By(req[x].me))
  /\ UNCHANGED <<chatVars, standingVars, messageVars, pinned, pollVars, statusVars, memberVars>>

PinUnread(x) == \E u \in Users, m \in Messages \union {0} :  \* a slip: the message is not read
  /\ kind # "secret" /\ Member(u) /\ (Standalone => role[u] = "admin")
  /\ Begin(x, u, m, "", "Pin")
PinMessage(x) == \E u \in Users, m \in Posted \union {0} :
  /\ kind # "secret" /\ Member(u) /\ (Standalone => role[u] = "admin")
  /\ m = 0 \/ m \in GetMessageByID
  /\ Begin(x, u, m, "", "Pin")
SetChatPinnedMessage(x) ==
  /\ At(x, "Pin")
  /\ pinned' = req[x].m
  /\ Writes(x)
  /\ Then(x, Idle, {})
  /\ UNCHANGED <<chatVars, standingVars, messageVars, reactions, pollVars, statusVars, memberVars>>
-----------------------------------------------------------------------------
(* Polls.                                                                  *)

PollReadable(u, m) == Readable(u) /\ m \in GetMessageByID
VoteUnasked(x) == \E u \in Users, m \in Messages :  \* a slip: AllowRevoting is not looked at
  /\ poll[m] = "open" /\ PollReadable(u, m)
  /\ Begin(x, u, m, "", "Vote")
VotePoll(x) == \E u \in Users, m \in Messages :
  /\ poll[m] = "open" /\ PollReadable(u, m)
  /\ ballot[m][u] # 0 => revoting
  /\ Begin(x, u, m, "", "Vote")
UpsertVote(x) == LET m == req[x].m IN
  /\ At(x, "Vote")
  /\ ballot' = [ballot EXCEPT ![m][req[x].me] = req[x].tag]
  /\ Writes(x)
  /\ Then(x, Idle, About(m, {"Vote"}) \intersect By(req[x].me))
  /\ UNCHANGED <<chatVars, standingVars, messageVars, reactions, pinned, poll, statusVars, memberVars>>
ClosePoll(x) == \E u \in Users, m \in Messages :
  /\ poll[m] \in {"open", "over"} /\ PollReadable(u, m)
  /\ \/ u = author[m]
     \/ kind # "thread" /\ role[u] \in {"admin", "moderator"}
  /\ Begin(x, u, m, "", "ClosePoll")
ClosePollRow(x) == LET m == req[x].m IN
  /\ At(x, "ClosePoll")
  /\ poll' = [poll EXCEPT ![m] = "closed"]
  /\ Writes(x)
  /\ Then(x, Idle, About(m, {"Vote"}))
  /\ UNCHANGED <<chatVars, standingVars, messageVars, reactions, pinned, ballot, statusVars, memberVars>>
\* closes_at passes: nothing is written, and votes are refused from now on.
PollExpires == \E m \in Messages :
  /\ poll[m] = "open"
  /\ poll' = [poll EXCEPT ![m] = "over"]
  /\ req' = [y \in Requests |-> [req[y] EXCEPT !.stale = @ \/ y \in About(m, {"Vote"})]]
  /\ UNCHANGED <<chatVars, standingVars, messageVars, reactions, pinned, ballot, statusVars, memberVars,
                 ops, overtaken>>
-----------------------------------------------------------------------------
(* Receipts, unread counters and the state of the chat for one member.     *)

Max2(a, b) == IF a > b THEN a ELSE b
StatusAsGiven(found, s) == s  \* a slip: delivered overwrites read
\* The higher of the status found and the new one.
StatusToWrite(found, s) == Max2(found, s)
ResetChatUnread(u) == badge \ {u}
\* The two statuses are read first.  An error of such a read is not looked at: what was not
\* found counts as none.
Wanted(latestToo, misread) == IF misread THEN IF latestToo THEN "both misread" ELSE "own misread"
                              ELSE IF latestToo THEN "both" ELSE "own"
Receipt(x, u, m, s) ==
  /\ Member(u)
  /\ \E found \in {own[m][u], 0}, shown \in {latest[m], 0} :
       LET t == StatusToWrite(found, s)
           misread == found # own[m][u] \/ shown # latest[m]
       IN  BeginWith(x, u, m, Wanted(shown <= t, misread), "Receipt", IF s = 2 THEN u ELSE Nobody, t, {})
UpsertMessageStatus(x) == \E u \in Users, m \in Posted, s \in {1, 2} : Receipt(x, u, m, s)
MarkMessageReadByID(x) == \E u \in Users, m \in Live : Receipt(x, u, m, 2)
Misread(x) == req[x].of \in {"own misread", "both misread"}
WritesLatest(x) == req[x].of \in {"both", "both misread"}
\* The statements go out in one pipeline, without a transaction: it may break off.
ReceiptWrite(x) == LET m == req[x].m IN
  /\ At(x, "Receipt")
  /\ own' = [own EXCEPT ![m][req[x].me] = req[x].n]
  /\ latest' = IF WritesLatest(x) THEN [latest EXCEPT ![m] = req[x].n] ELSE latest
  /\ lapsed' = IF req[x].n = 2 THEN lapsed \ {m}
               ELSE IF Misread(x) \/ req[x].stale THEN lapsed \union {m} ELSE lapsed
  /\ badge' = ResetChatUnread(req[x].whom)
  /\ Then(x, Idle, About(m, {"Receipt"}))
  /\ UNCHANGED <<chatVars, standingVars, messageVars, reactions, pinned, pollVars, cleared, overtaken>>
ReceiptBreaksOff(x) == LET m == req[x].m IN
  /\ At(x, "Receipt") /\ WritesLatest(x)
  /\ own' = [own EXCEPT ![m][req[x].me] = req[x].n]
  /\ lapsed' = lapsed \union {m}
  /\ Then(x, Idle, About(m, {"Receipt"}))
  /\ UNCHANGED <<chatVars, standingVars, messageVars, reactions, pinned, pollVars, latest, memberVars,
                 overtaken>>
MarkChatRead == \E u \in Users :
  /\ ops < MaxOps /\ ops' = ops + 1
  /\ ChatListAccess(u)
  /\ badge' = ResetChatUnread(u)
  /\ UNCHANGED <<chatVars, standingVars, messageVars, reactions, pinned, pollVars, statusVars, cleared,
                 req, overtaken>>
\* The time of the clearing is taken after the count and before the statement runs.
ClearChatHistory(x) == \E u \in Users :
  ChatListAccess(u) /\ BeginWith(x, u, 0, "", "Clear", Nobody, Cardinality(Posted), {})
SetChatHistoryCleared(x) == LET u == req[x].me IN
  /\ At(x, "Clear")
  /\ \E t \in req[x].n..Cardinality(Posted) : cleared' = [cleared EXCEPT ![u] = t]
  /\ Writes(x)
  /\ badge' = ResetChatUnread(u)
  /\ Then(x, Idle, {y \in By(u) : At(y, "Clear")})
  /\ UNCHANGED <<chatVars, standingVars, messageVars, reactions, pinned, pollVars, statusVars>>
-----------------------------------------------------------------------------
(* Standing.                                                               *)

Moderate(x, what) == \E u, w \in Users :
  /\ Standalone /\ role[u] = "admin"
  /\ BeginWith(x, u, 0, what, "Moderate", w, 0, {})
BanPublicChannelUser(x) == Moderate(x, "ban")
UnbanPublicChannelUser(x) == Moderate(x, "unban")
MutePublicChannelUser(x) == Moderate(x, "mute")
UnmutePublicChannelUser(x) == Moderate(x, "unmute")
ModerationRow(x, what) ==
  /\ At(x, "Moderate") /\ req[x].of = what
  /\ Writes(x)
  /\ Then(x, Idle, By(req[x].whom))
  /\ UNCHANGED <<chatVars, role, messageVars, reactions, pinned, pollVars, statusVars, memberVars>>
UpsertPublicChannelBan(x) == ModerationRow(x, "ban") /\ banned' = banned \union {req[x].whom} /\ UNCHANGED muted
DeletePublicChannelBan(x) == ModerationRow(x, "unban") /\ banned' = banned \ {req[x].whom} /\ UNCHANGED muted
UpsertPublicChannelMute(x) == ModerationRow(x, "mute") /\ muted' = muted \union {req[x].whom} /\ UNCHANGED banned
DeletePublicChannelMute(x) == ModerationRow(x, "unmute") /\ muted' = muted \ {req[x].whom} /\ UNCHANGED banned
\* A request of ChatMembers changes or removes a row.
RoleChanges == \E u \in Users, r \in {"admin", "member", "absent"} :
  /\ kind \notin {"direct", "secret"} /\ ops < MaxOps
  /\ ops' = ops + 1
  /\ role' = [role EXCEPT ![u] = r]
  /\ req' = [y \in Requests |-> [req[y] EXCEPT !.stale = @ \/ y \in By(u) \/ req[y].whom = u]]
  /\ UNCHANGED <<chatVars, banned, muted, messageVars, reactions, pinned, pollVars, statusVars,
                 memberVars, overtaken>>
-----------------------------------------------------------------------------
\* The routes.
PostRequests(x) == CreateMessage(x) \/ CreateMessageAsBot(x)
MessageRequests(x) ==
  EditMessageByID(x) \/ DeleteMessage(x) \/ ToggleMessageReaction(x) \/ MarkMessageReadByID(x)
ChatRequests(x) == ForwardMessage(x) \/ UpsertMessageStatus(x) \/ EditMessage(x)
PollRequests(x) == VotePoll(x) \/ ClosePoll(x)
ModerationRequests(x) ==
  \/ BanPublicChannelUser(x) \/ UnbanPublicChannelUser(x)
  \/ MutePublicChannelUser(x) \/ UnmutePublicChannelUser(x)
Requested(x) ==
  /\ At(x, "idle") /\ ops < MaxOps
  /\ \/ PostRequests(x) \/ MessageRequests(x) \/ ChatRequests(x) \/ CreatePoll(x) \/ PollRequests(x)
     \/ PinMessage(x) \/ ClearChatHistory(x) \/ ModerationRequests(x)
Statements(x) ==
  \/ Insert(x) \/ ForwardOrigin(x) \/ PollRow(x)
  \/ UpdateMessageContent(x) \/ SoftDeleteMessage(x) \/ ReactionWrite(x) \/ SetChatPinnedMessage(x)
  \/ UpsertVote(x) \/ ClosePollRow(x) \/ ReceiptWrite(x) \/ ReceiptBreaksOff(x) \/ SetChatHistoryCleared(x)
  \/ UpsertPublicChannelBan(x) \/ DeletePublicChannelBan(x)
  \/ UpsertPublicChannelMute(x) \/ DeletePublicChannelMute(x)

Next ==
  \/ \E x \in Requests : Requested(x) \/ Statements(x)
  \/ MarkChatRead \/ PollExpires \/ RoleChanges
Spec == Init /\ [][Next]_vars
-----------------------------------------------------------------------------
(* Properties.                                                             *)

Labels == {"idle", "Insert", "forward", "poll", "Edit", "Delete", "React", "Pin", "Vote", "ClosePoll",
           "Receipt", "Clear", "Moderate"}
Wants == {"", "poll", "forward", "files", "plain", "set", "removed", "own", "both", "own misread",
          "both misread",
          "ban", "unban", "mute", "unmute"}
RequestType == [at : Labels, me : Users \union {Nobody}, m : Messages \union {0}, tag : Tags, of : Wants,
              whom : Users \union {Nobody}, n : Nat, rows : SUBSET Tags, stale : BOOLEAN]
\* The type of every variable; messages are numbered as they are posted, and what is not
\* posted has nothing attached to it, no reaction, no poll and no receipt.
TypeOK ==
  /\ kind \in Kinds /\ restricted \in BOOLEAN /\ comments \in BOOLEAN /\ revoting \in BOOLEAN
  /\ role \in [Users -> Roles] /\ banned \subseteq Users /\ muted \subseteq Users
  /\ author \in [Messages -> Users \union {Nobody}] /\ state \in [Messages -> {"none", "live", "deleted"}]
  /\ text \in [Messages -> Tags] /\ files \in [Messages -> SUBSET Tags]
  /\ origin \in [Messages -> Users \union {Nobody}] /\ reactions \in [Messages -> SUBSET Users]
  /\ pinned \in Posted \union {0} /\ poll \in [Messages -> {"none", "open", "over", "closed"}]
  /\ ballot \in [Messages -> [Users -> Tags]]
  /\ own \in [Messages -> [Users -> 0..2]] /\ latest \in [Messages -> 0..2]
  /\ mixed \subseteq Posted /\ lapsed \subseteq Posted
  /\ badge \subseteq Users /\ cleared \in [Users -> 0..MaxMessages]
  /\ req \in [Requests -> RequestType] /\ ops \in 0..MaxOps /\ overtaken \in BOOLEAN
  /\ Posted = 1..Cardinality(Posted)
  /\ \A m \in Messages \ Posted :
       /\ text[m] = 0 /\ files[m] = {} /\ origin[m] = Nobody /\ reactions[m] = {} /\ poll[m] = "none"
       /\ latest[m] = 0 /\ \A u \in Users : ballot[m][u] = 0 /\ own[m][u] = 0

\* Whatever is posted - written, sent as a poll or forwarded, to whatever kind of chat - is
\* posted by a bot or by someone who may post or reply there as he does so, except where
\* his standing was changed after it was read: forwarding is posting.
EntitledToPost == [][ \A m \in Messages :
  state[m] = "none" /\ state'[m] = "live" =>
    \/ author'[m] = Nobody \/ overtaken'
    \/ MayPost(author'[m]) \/ \E n \in Live : MayReply(author'[m], n) ]_vars

\* What is deleted stays as it is - no edit, vote or reaction that was under way reaches it,
\* unless it was overtaken by the deletion - and what a user has cleared away does not
\* come back, however deletions and clearings cross each other.
NothingComesBack == [][
  /\ \A m \in Messages : state[m] = "deleted" =>
       /\ state'[m] = "deleted" /\ text'[m] = text[m] /\ files'[m] = files[m]
       /\ (overtaken' \/ (reactions'[m] = reactions[m] /\ ballot'[m] = ballot[m]))
  /\ \/ overtaken'
     \/ \A u \in Users : ListMessages(u)' \intersect Posted \subseteq ListMessages(u) ]_vars

\* The files of a message are those of the edit its text is from.  Only an edit that began
\* before another one of the message was done, or before a change of the editor's standing,
\* may leave others beside them, and no longer than until an edit runs alone.
EditWhole == \A m \in Messages \ mixed : files[m] \subseteq {text[m]}

\* A vote stands once it is cast where votes cannot be changed, and all stand once the poll
\* is closed or over, unless the voter's request was overtaken by another of his or by the
\* closing.
BallotStands == [][ overtaken' \/ \A m \in Messages, u \in Users :
  ballot'[m][u] # ballot[m][u] => poll[m] = "open" /\ (ballot[m][u] # 0 => revoting) ]_vars

\* The status shown to the author is the highest of any reader: it does not stay "delivered"
\* once somebody has read the message, nor "read" when its only reader has gone back.  Receipts
\* of one message that race (or race a change of the reader's standing), a status that could
\* not be read and a pipeline that broke off may make it otherwise, and no longer than until
\* the message is next marked as read.
ReceiptsAgree == \A m \in Messages \ lapsed :
  /\ \A u \in Users : own[m][u] <= latest[m]
  /\ latest[m] # 0 => \E u \in Users : own[m][u] = latest[m]
=============================================================================
