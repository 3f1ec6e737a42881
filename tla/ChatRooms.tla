----------------------------- MODULE ChatRooms ------------------------------
(***************************************************************************)
(* Where chats come from and where they go: the self-chat every user has   *)
(* exactly one of, direct chats found or made, groups and their numbered   *)
(* topics, standalone channels and their public names, comment threads,    *)
(* and the deletions that take all of these away.                          *)
(*                                                                         *)
(* A request is a process.  Reads made before its writing statement are    *)
(* one step and the statement (or the transaction, whose statements see    *)
(* nothing uncommitted) is another, so that two requests meet between a    *)
(* read and the write it justified.  Who may do what inside a chat is the  *)
(* subject of ChatMembers; the messages themselves are in ChatMessages.    *)
(***************************************************************************)
EXTENDS Integers, FiniteSets

CONSTANTS
    Users,        \* the accounts
    Nobody,       \* stands where no account does
    Requests,     \* the requests in flight at a time
    Roots,        \* posts that a comment thread can hang from
    AnyRoot,      \* one of them, where a request is about none
    Slugs,        \* the public names channels compete for
    MaxChats,     \* bound: rows ever inserted into chats
    MaxOps,       \* bound: requests ever begun
    MaxTopic      \* bound: topic numbers

ASSUME RoomsAssumption ==
    /\ Nobody \notin Users
    /\ AnyRoot \in Roots
    /\ MaxChats \in Nat \ {0}
    /\ MaxOps \in Nat
    /\ MaxTopic \in Nat \ {0, 1}
    /\ Slugs \cap {"none", "keep"} = {}

VARIABLES
    chats,        \* chats: each row, by id; ids are given in order of creation
    role,         \* chat_members: the role of each user in each chat
    threads,      \* comment_threads: the thread chat of a channel's post, or 0
    reqs,         \* what each request has read and has yet to write
    told,         \* ghost: the self-chats each user was ever given
    clashed,      \* ghost: some request was refused by a unique index it should win
    ops           \* requests begun so far

vars == <<chats, role, threads, reqs, told, clashed, ops>>

ChatIds == 1 .. MaxChats

Kinds == {"direct", "group", "saved", "channel", "standalone_channel", "comment_thread"}

\* A row never inserted, and one deleted: ids are uuids, none comes back.
Unborn == [kind |-> "unborn", by |-> Nobody, parent |-> 0, topic |-> 0,
           next |-> 0, public |-> FALSE, slug |-> "none"]
Gone == [Unborn EXCEPT !.kind = "gone"]

RowTypes == [kind : Kinds \cup {"unborn", "gone"}, by : Users \cup {Nobody},
             parent : 0 .. MaxChats, topic : 0 .. MaxTopic, next : 0 .. MaxTopic + 1,
             public : BOOLEAN, slug : Slugs \cup {"none"}]

Idle == [at |-> "idle", me |-> Nobody, other |-> Nobody, chat |-> 0, max |-> 0,
         root |-> AnyRoot, public |-> "keep", slug |-> "keep"]

RequestTypes ==
    [at : {"idle", "makeSaved", "findAgain", "makeDirect", "makeTopic", "makeThread", "write"},
     me : Users \cup {Nobody}, other : Users \cup {Nobody}, chat : 0 .. MaxChats,
     max : 0 .. MaxTopic, root : Roots,
     public : {"keep", "on", "off"}, slug : Slugs \cup {"none", "keep"}]

-----------------------------------------------------------------------------
(* Rows and what the queries find. *)

Alive(c) == chats[c].kind \in Kinds
Members(c) == {u \in Users : role[c][u] # "none"}
NoRoles == [u \in Users |-> "none"]

LeastOf(S) == CHOOSE c \in S : \A d \in S : c <= d

NextId == LeastOf({c \in ChatIds : chats[c] = Unborn})
RoomLeft == \E c \in ChatIds : chats[c] = Unborn

\* GetChat: the row a request works from.
Row(c) == IF Alive(c) THEN chats[c] ELSE Gone

\* ListChatsByUser, cut down to the one self-chat the callers look for.
SavedOf(u) == {c \in ChatIds : chats[c].kind = "saved" /\ role[c][u] # "none"}

\* A slip: no index.
SavedNeverTaken(u) == FALSE

\* uniq_chats_saved_per_user: one self-chat row for each creator.
SavedTaken(u) == \E c \in ChatIds : chats[c].kind = "saved" /\ chats[c].by = u

\* FindDirectChatByMembers: direct rows of exactly these two.
DirectOf(u, v) == {c \in ChatIds : chats[c].kind = "direct" /\ Members(c) = {u, v}}

\* idx_chats_public_slug_unique
SlugTaken(s, but) == \E c \in ChatIds \ {but} : Alive(c) /\ chats[c].slug = s /\ s # "none"

TopicsOf(g) == {chats[c].topic : c \in {d \in ChatIds : chats[d].kind = "channel"
                                                         /\ chats[d].parent = g}}
MaxTopicOf(g) == IF TopicsOf(g) = {} THEN 1
                 ELSE CHOOSE t \in TopicsOf(g) : \A s \in TopicsOf(g) : s <= t

Greatest(a, b) == IF a >= b THEN a ELSE b

\* GREATEST(COALESCE(next, 2), max + 1); 0 is NULL.
Allocated(next, max) == Greatest(IF next = 0 THEN 2 ELSE next, max + 1)

\* A slip: the first number no topic holds.
FirstGap(g, max) == LeastOf((2 .. MaxTopic + 1) \ TopicsOf(g))

\* allocTopicQuery: the counter as it stands, the highest topic as it was.
TopicFor(g, max) == Allocated(chats[g].next, max)

Manages(c, u) == role[c][u] \in {"owner", "admin", "moderator"}

\* canHaveCommentThread, and the kinds the thread's INSERT accepts.
TakesComments(c) == chats[c].kind \in {"channel", "standalone_channel"}

\* A slip: the cascade stops one level down.
JustBelow(c) == {d \in ChatIds : chats[d].parent = c}

\* chats REFERENCES chats ON DELETE CASCADE: a group's topics, a channel's
\* threads, a topic's threads.
Below(c) == LET under == {d \in ChatIds : chats[d].parent = c}
            IN  under \cup {d \in ChatIds : chats[d].parent \in under}

-----------------------------------------------------------------------------
(* Where a run begins: nothing, or a group that existed before topic        *)
(* numbers were allocated, its counter NULL or stale, with a topic in it.   *)

Empty == [c \in ChatIds |-> Unborn]
Legacy(u, counter, t) ==
    [c \in ChatIds |->
        CASE c = 1 -> [Unborn EXCEPT !.kind = "group", !.by = u, !.next = counter]
          [] c = 2 -> [Unborn EXCEPT !.kind = "channel", !.by = u, !.parent = 1, !.topic = t]
          [] OTHER -> Unborn]
OwnedBy(u) == [v \in Users |-> IF v = u THEN "owner" ELSE "member"]

Init ==
    /\ \/ chats = Empty /\ role = [c \in ChatIds |-> NoRoles]
       \/ \E u \in Users, counter \in {0, 2}, t \in {2, 3} :
             /\ MaxChats >= 2 /\ MaxTopic >= 3
             /\ chats = Legacy(u, counter, t)
             /\ role = [c \in ChatIds |-> IF c <= 2 THEN OwnedBy(u) ELSE NoRoles]
    /\ threads = [c \in ChatIds |-> [r \in Roots |-> 0]]
    /\ reqs = [q \in Requests |-> Idle]
    /\ told = [u \in Users |-> {}]
    /\ clashed = FALSE
    /\ ops = 0

-----------------------------------------------------------------------------
(* A request begins, goes on, and answers. *)

Starts(q) == reqs[q] = Idle /\ ops < MaxOps /\ ops' = ops + 1
Waits(q, at, rec) == reqs' = [reqs EXCEPT ![q] = [rec EXCEPT !.at = at]]
Answers(q) == reqs' = [reqs EXCEPT ![q] = Idle]
Reads == UNCHANGED <<chats, role, threads>>

\* One transaction inserts a row and its members.
Insert(c, row, members) ==
    /\ chats' = [chats EXCEPT ![c] = row]
    /\ role' = [role EXCEPT ![c] = members]

\* DELETE FROM chats, and what the foreign keys take along.
Delete(S) ==
    /\ chats' = [c \in ChatIds |-> IF c \in S THEN Gone ELSE chats[c]]
    /\ role' = [c \in ChatIds |-> IF c \in S THEN NoRoles ELSE role[c]]
    /\ threads' = [c \in ChatIds |-> [r \in Roots |->
                      IF c \in S \/ threads[c][r] \in S THEN 0 ELSE threads[c][r]]]

-----------------------------------------------------------------------------
(* The self-chat: found, or created; or lost to a concurrent creation and   *)
(* found after all.                                                         *)

Give(u, S) == told' = [told EXCEPT ![u] = @ \cup S]

\* findSavedChat at the head of ensureSavedChat.
EnsureSavedChat(q, u) ==
    /\ Starts(q)
    /\ Reads /\ UNCHANGED clashed
    /\ \/ SavedOf(u) # {} /\ Give(u, SavedOf(u)) /\ UNCHANGED reqs
       \/ SavedOf(u) = {} /\ Waits(q, "makeSaved", [Idle EXCEPT !.me = u])
          /\ UNCHANGED told

SavedRow(u) == [Unborn EXCEPT !.kind = "saved", !.by = u]

\* CreateChat(kind "saved"): the unique index lets one creation through.
MakeSaved(q) ==
    LET u == reqs[q].me IN
    /\ reqs[q].at = "makeSaved"
    /\ UNCHANGED <<threads, clashed, ops>>
    /\ \/ /\ ~SavedTaken(u) /\ RoomLeft
          /\ Insert(NextId, SavedRow(u), [NoRoles EXCEPT ![u] = "owner"])
          /\ Give(u, {NextId}) /\ Answers(q)
       \/ /\ SavedTaken(u)
          /\ Waits(q, "findAgain", reqs[q])
          /\ UNCHANGED <<chats, role, told>>

\* A slip: the conflict is an error like any other.
GiveUp(q) ==
    /\ reqs[q].at = "findAgain"
    /\ Reads /\ UNCHANGED <<ops, told>>
    /\ clashed' = TRUE
    /\ Answers(q)

\* isSavedConflict: the loser reads the winner's row.
FindAgain(q) ==
    LET u == reqs[q].me IN
    /\ reqs[q].at = "findAgain"
    /\ Reads /\ UNCHANGED ops
    /\ Give(u, SavedOf(u)) /\ clashed' = (clashed \/ SavedOf(u) = {})
    /\ Answers(q)

\* The list of chats makes the self-chat on the way, when it finds none.
ListChats(q, u) == EnsureSavedChat(q, u)

-----------------------------------------------------------------------------
(* Direct chats and groups. *)

\* The chat two users already have is the answer; no row says it is theirs
\* alone, so two requests that both find none make two.
FindDirectChat(q, u, v) ==
    /\ u # v /\ Starts(q)
    /\ Reads /\ UNCHANGED <<told, clashed>>
    /\ reqs' = [reqs EXCEPT ![q] = IF DirectOf(u, v) # {} THEN Idle
                     ELSE [Idle EXCEPT !.at = "makeDirect", !.me = u, !.other = v]]

OpenDirectChat(q, u, v) == FindDirectChat(q, u, v)
CreateDirectMessage(q, u, v) == FindDirectChat(q, u, v)

DirectRow(u) == [Unborn EXCEPT !.kind = "direct", !.by = u]

MakeDirect(q) ==
    LET u == reqs[q].me  v == reqs[q].other IN
    /\ reqs[q].at = "makeDirect" /\ RoomLeft
    /\ Insert(NextId, DirectRow(u), [NoRoles EXCEPT ![u] = "member", ![v] = "member"])
    /\ Answers(q)
    /\ UNCHANGED <<threads, told, clashed, ops>>

\* A new group allocates topics from 2 on.
GroupRow(u) == [Unborn EXCEPT !.kind = "group", !.by = u, !.next = 2]

CreateGroup(q, u, members) ==
    /\ Starts(q) /\ RoomLeft
    /\ Insert(NextId, GroupRow(u), [v \in Users |-> IF v = u THEN "owner"
                                       ELSE IF v \in members THEN "member" ELSE "none"])
    /\ UNCHANGED <<threads, reqs, told, clashed>>

\* CreateChat: a self-chat, a direct chat for two unless a group is asked
\* for, a group otherwise.
CreateChat(q, u) ==
    \/ EnsureSavedChat(q, u)
    \/ \E v \in Users : FindDirectChat(q, u, v)
    \/ \E members \in SUBSET (Users \ {u}) : CreateGroup(q, u, members)

-----------------------------------------------------------------------------
(* Topics of a group. *)

\* The service's checks, and the snapshot the allocating UPDATE begins with:
\* the subquery that finds the highest topic is not run again when the
\* UPDATE has to wait for the group's row, the row itself is read anew.
CreateChannel(q, u, g) ==
    /\ Starts(q)
    /\ Row(g).kind = "group" /\ Manages(g, u)
    /\ Waits(q, "makeTopic", [Idle EXCEPT !.me = u, !.chat = g, !.max = MaxTopicOf(g)])
    /\ Reads /\ UNCHANGED <<told, clashed>>

\* idx_channel_topic_number_unique
TopicTaken(g, t) == t \in TopicsOf(g)

TopicRow(u, g, t) == [Unborn EXCEPT !.kind = "channel", !.by = u, !.parent = g, !.topic = t]

\* The transaction holds the group's row from the UPDATE to its commit.  A
\* conflict aborts it: the retries run inside it and cannot succeed.
MakeTopic(q) ==
    LET g == reqs[q].chat
        t == TopicFor(g, reqs[q].max)
    IN
    /\ reqs[q].at = "makeTopic"
    /\ Answers(q) /\ UNCHANGED <<threads, told, ops>>
    /\ \/ chats[g].kind # "group" /\ UNCHANGED <<chats, role, clashed>>
       \/ /\ chats[g].kind = "group" /\ TopicTaken(g, t)
          /\ clashed' = TRUE /\ UNCHANGED <<chats, role>>
       \/ /\ chats[g].kind = "group" /\ ~TopicTaken(g, t) /\ t <= MaxTopic /\ RoomLeft
          /\ chats' = [chats EXCEPT ![g].next = t + 1,
                                    ![NextId] = TopicRow(reqs[q].me, g, t)]
          /\ role' = [role EXCEPT ![NextId] = role[g]]
          /\ UNCHANGED clashed

\* The topics a member of the group is shown.
ListChannels(g, u) == {c \in ChatIds : /\ role[g][u] # "none"
                                       /\ chats[c].kind = "channel" /\ chats[c].parent = g}

\* The repository asks for the row's parent, kind and number once more.
DeleteTopic(g, c) ==
    /\ chats[c].kind = "channel" /\ chats[c].parent = g /\ chats[c].topic >= 2
    /\ Delete({c} \cup Below(c))

DeleteChannel(q, u, g, c) ==
    /\ Starts(q)
    /\ g # c /\ Row(g).kind = "group" /\ Manages(g, u)
    /\ c \in ListChannels(g, u)
    /\ DeleteTopic(g, c)
    /\ UNCHANGED <<reqs, told, clashed>>

-----------------------------------------------------------------------------
(* Standalone channels and their public names. *)

ChannelRow(u, public, s) ==
    [Unborn EXCEPT !.kind = "standalone_channel", !.by = u, !.public = public, !.slug = s]

\* A public channel has a name; the name of a private one is dropped.
CreatePublicChannel(q, u, public, s) ==
    /\ Starts(q) /\ RoomLeft
    /\ public = (s # "none") /\ ~SlugTaken(s, 0)
    /\ Insert(NextId, ChannelRow(u, public, s), [NoRoles EXCEPT ![u] = "owner"])
    /\ UNCHANGED <<threads, reqs, told, clashed>>

\* What UpdateChat makes of the asked visibility and name, from the row it
\* has read: the fields it will set.  "keep" is a field not set.
NextPublic(row, public) == IF public = "keep" THEN row.public ELSE public = "on"
NextSlug(row, public, s) ==
    CASE ~NextPublic(row, public) /\ (public # "keep" \/ s # "keep") -> "none"
      [] public = "on" /\ s = "keep" -> row.slug
      [] OTHER -> s

\* Refused: a public channel that would have no name.
Nameless(row, public, s) ==
    NextPublic(row, public) /\ NextSlug(row, public, s) = "none"
                            /\ (public # "keep" \/ s # "keep")

UpdateChat(q, u, c, public, s) ==
    /\ Starts(q)
    /\ Alive(c) /\ chats[c].kind # "direct" /\ Manages(c, u)
    /\ chats[c].kind = "standalone_channel"
    /\ public # "keep" \/ s # "keep"
    /\ ~Nameless(chats[c], public, s)
    /\ Waits(q, "write", [Idle EXCEPT !.me = u, !.chat = c, !.public = public,
                                      !.slug = NextSlug(chats[c], public, s)])
    /\ Reads /\ UNCHANGED <<told, clashed>>

\* One UPDATE of the fields that are set; a name taken meanwhile refuses it.
WriteChat(q) ==
    LET c == reqs[q].chat
        name == IF reqs[q].slug = "keep" THEN chats[c].slug ELSE reqs[q].slug
    IN
    /\ reqs[q].at = "write"
    /\ Answers(q) /\ UNCHANGED <<role, threads, told, clashed, ops>>
    /\ chats' = IF Alive(c) /\ ~SlugTaken(name, c)
                THEN [chats EXCEPT ![c].slug = name,
                                   ![c].public = IF reqs[q].public = "keep" THEN @
                                                 ELSE reqs[q].public = "on"]
                ELSE chats

-----------------------------------------------------------------------------
(* Comment threads. *)

\* A thread the post has is the answer; otherwise one is made.
GetOrCreateCommentThread(q, u, c, r) ==
    /\ Starts(q)
    /\ TakesComments(c)
    /\ reqs' = [reqs EXCEPT ![q] = IF threads[c][r] # 0 THEN Idle
                     ELSE [Idle EXCEPT !.at = "makeThread", !.me = u, !.chat = c, !.root = r]]
    /\ Reads /\ UNCHANGED <<told, clashed>>

ThreadRow(u, c) == [Unborn EXCEPT !.kind = "comment_thread", !.by = u, !.parent = c]

\* ON CONFLICT DO UPDATE: the later of two threads takes the post, the
\* earlier one stays a chat nothing points to.
MakeThread(q) ==
    LET c == reqs[q].chat IN
    /\ reqs[q].at = "makeThread"
    /\ Answers(q) /\ UNCHANGED <<told, clashed, ops>>
    /\ \/ ~TakesComments(c) /\ Reads
       \/ /\ TakesComments(c) /\ RoomLeft
          /\ Insert(NextId, ThreadRow(reqs[q].me, c), NoRoles)
          /\ threads' = [threads EXCEPT ![c][reqs[q].root] = NextId]

-----------------------------------------------------------------------------
(* Deletion. *)

\* A direct chat is only removed for the one who asks: the peer keeps it,
\* and as it no longer has both, the next message makes a fresh one.
LeaveDirect(u, c) ==
    /\ chats[c].kind = "direct" /\ role[c][u] # "none"
    /\ role' = [role EXCEPT ![c][u] = "none"]
    /\ UNCHANGED <<chats, threads>>

\* The owner of a group or a channel deletes it, children first.
DeleteOwned(u, c) ==
    /\ chats[c].kind \in {"group", "standalone_channel"} /\ role[c][u] = "owner"
    /\ Delete({c} \cup Below(c))

DeleteChat(q, u, c) ==
    /\ Starts(q)
    /\ LeaveDirect(u, c) \/ DeleteOwned(u, c)
    /\ UNCHANGED <<reqs, told, clashed>>

\* "For everyone" is asked of direct chats only, and the statement it ends
\* in deletes groups and channels only: it finds no row and rolls back.
DeleteChatForEveryone(q, u, c) ==
    /\ Starts(q)
    /\ chats[c].kind = "direct" /\ role[c][u] # "none"
    /\ Reads /\ UNCHANGED <<reqs, told, clashed>>

-----------------------------------------------------------------------------
ChatsRoute(q, u) == ListChats(q, u) \/ CreateChat(q, u)
DirectRoutes(q, u) ==
    \E v \in Users : OpenDirectChat(q, u, v) \/ CreateDirectMessage(q, u, v)
TopicRoutes(q, u) ==
    \E g \in ChatIds : \/ CreateChannel(q, u, g)
                       \/ \E c \in ChatIds : DeleteChannel(q, u, g, c)
ChatRoute(q, u) ==
    \E c \in ChatIds :
        \/ DeleteChat(q, u, c) \/ DeleteChatForEveryone(q, u, c)
        \/ \E public \in {"keep", "on", "off"}, s \in Slugs \cup {"keep", "none"} :
              UpdateChat(q, u, c, public, s)
ChannelsRoute(q, u) ==
    \E public \in BOOLEAN, s \in Slugs \cup {"none"} : CreatePublicChannel(q, u, public, s)
ThreadRoute(q, u) ==
    \E c \in ChatIds, r \in Roots : GetOrCreateCommentThread(q, u, c, r)

Begins(q) == \E u \in Users :
    \/ ChatsRoute(q, u) \/ DirectRoutes(q, u) \/ TopicRoutes(q, u)
    \/ ChatRoute(q, u) \/ ChannelsRoute(q, u) \/ ThreadRoute(q, u)

GoesOn(q) ==
    \/ MakeSaved(q) \/ FindAgain(q) \/ MakeDirect(q) \/ MakeTopic(q)
    \/ WriteChat(q) \/ MakeThread(q)

Next == \E q \in Requests : Begins(q) \/ GoesOn(q)

Spec == Init /\ [][Next]_vars

-----------------------------------------------------------------------------
(* Properties *)

\* Every row is a chat of a known kind, and nothing outlives what it belongs
\* to: a topic's group, a thread's channel, a mapped thread's chat and the
\* members of a chat are there as long as it is.
TypeOK ==
    /\ chats \in [ChatIds -> RowTypes]
    /\ role \in [ChatIds -> [Users -> {"owner", "admin", "moderator", "member", "none"}]]
    /\ threads \in [ChatIds -> [Roots -> 0 .. MaxChats]]
    /\ reqs \in [Requests -> RequestTypes]
    /\ told \in [Users -> SUBSET ChatIds]
    /\ clashed \in BOOLEAN /\ ops \in 0 .. MaxOps
    /\ \A c \in ChatIds : chats[c].parent # 0 => Alive(chats[c].parent)
    /\ \A c \in ChatIds : ~Alive(c) => role[c] = NoRoles
    /\ \A c \in ChatIds, r \in Roots : threads[c][r] # 0 =>
          chats[threads[c][r]].kind = "comment_thread" /\ chats[threads[c][r]].parent = c

\* However many lists and creations of a user's self-chat race, all are
\* answered with one and the same chat, which stays: ensureSavedChat.
SavedAgree == \A u \in Users : told[u] = {} \/ \E c \in ChatIds :
                  told[u] = {c} /\ chats[c].kind = "saved" /\ Members(c) = {u}

\* No request loses to a unique index what the code means it to win: the
\* creation of the self-chat, and a topic number, whatever the counter of
\* a legacy group says (allocTopicQuery, ensureSavedChat).
NobodyClashes == ~clashed

\* A topic number handed out stays spoken for after its topic is deleted:
\* a new topic is never numbered below the group's counter.
TopicsAreFresh == [][\A c \in ChatIds :
    (chats[c] = Unborn /\ chats'[c].kind = "channel")
        => chats'[c].topic >= chats[chats'[c].parent].next]_vars

=============================================================================
