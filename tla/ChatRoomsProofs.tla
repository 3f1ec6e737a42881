--------------------------- MODULE ChatRoomsProofs ---------------------------
(***************************************************************************)
(* Proofs about ChatRooms, for any users, requests, posts and names: what  *)
(* belongs to a chat goes with it, however many requests race there is one *)
(* self-chat for each user, and topic numbers neither collide nor return.  *)
(***************************************************************************)
EXTENDS ChatRooms, WellFoundedInduction, TLAPS

Roles == {"owner", "admin", "moderator", "member", "none"}

\* A request in hand, with what it needs to go on.
InHand == {r \in RequestTypes :
  /\ r.at \in {"makeTopic", "makeThread", "write"} => r.chat \in ChatIds
  /\ r.at \in {"makeSaved", "findAgain", "makeDirect", "makeTopic"} => r.me \in Users}

\* The type of every variable, without what TypeOK says of the foreign keys.
Typed ==
  /\ chats \in [ChatIds -> RowTypes]
  /\ role \in [ChatIds -> [Users -> Roles]]
  /\ threads \in [ChatIds -> [Roots -> 0 .. MaxChats]]
  /\ reqs \in [Requests -> InHand]
  /\ told \in [Users -> SUBSET ChatIds]
  /\ clashed \in BOOLEAN /\ ops \in 0 .. MaxOps

\* A chat is as deep as its kind says: a topic is in a group, a thread under a channel or a
\* topic, nothing else is under anything; so a cascade of two levels reaches all there is.
DepthByKind == \A c \in ChatIds :
  /\ chats[c].kind = "channel" =>
       chats[c].parent \in ChatIds /\ chats[chats[c].parent].kind = "group"
  /\ chats[c].kind = "comment_thread" =>
       chats[c].parent \in ChatIds /\ TakesComments(chats[c].parent)
  /\ chats[c].kind \notin {"channel", "comment_thread"} => chats[c].parent = 0

NobodyInDeadChats == \A c \in ChatIds : ~Alive(c) => role[c] = NoRoles

ThreadsPointBack == \A c \in ChatIds, r \in Roots : threads[c][r] # 0 =>
  chats[threads[c][r]].kind = "comment_thread" /\ chats[threads[c][r]].parent = c

Shaped == DepthByKind /\ NobodyInDeadChats /\ ThreadsPointBack
RoomsInv == Typed /\ Shaped

\* A self-chat holds who made it and nobody else, nobody has made two, and whoever has lost
\* the race to make one has one to find; what a user was told is a self-chat of his.
OneSelfChat ==
  /\ \A c \in ChatIds : chats[c].kind = "saved" => chats[c].by \in Users /\ Members(c) = {chats[c].by}
  /\ \A c, d \in ChatIds :
       chats[c].kind = "saved" /\ chats[d].kind = "saved" /\ chats[c].by = chats[d].by => c = d
  /\ \A q \in Requests : reqs[q].at = "findAgain" => SavedTaken(reqs[q].me)
  /\ \A u \in Users : told[u] \subseteq SavedOf(u)

\* A topic that has appeared since a request took its snapshot of the highest number is
\* below the counter of the group, which the request reads anew.
SnapshotOrCounter == \A q \in Requests : reqs[q].at = "makeTopic" =>
  \A t \in TopicsOf(reqs[q].chat) : t <= reqs[q].max \/ t < chats[reqs[q].chat].next

-----------------------------------------------------------------------------
(* What is drawn and counted. *)

LEMMA LeastExists ==
  ASSUME NEW T \in SUBSET Nat, T # {}
  PROVE  \E x \in T : \A y \in T : x <= y
<1> DEFINE Less == OpToRel(<, Nat)
<1>1. PICK x \in T : \A y \in T : ~(<<y, x>> \in Less)
  BY NatLessThanWellFounded, WFMin
<1>2. ASSUME NEW y \in T, y < x PROVE FALSE
  <2>1. <<y, x>> \in Nat \X Nat /\ <<y, x>>[1] < <<y, x>>[2]
    BY <1>2
  <2>2. <<y, x>> \in Less
    BY <2>1 DEF OpToRel
  <2> QED  BY <1>1, <2>2
<1>3. \A y \in T : x \in Nat /\ y \in Nat
  OBVIOUS
<1> QED  BY <1>2, <1>3

LEMMA GreatestExists ==
  ASSUME NEW T \in SUBSET Nat, T # {}, NEW n \in Nat, \A x \in T : x <= n
  PROVE  \E x \in T : \A y \in T : y <= x
<1> DEFINE below == {n - x : x \in T}
<1>1. \A x \in T : x \in Nat /\ n - x \in Nat
  OBVIOUS
<1>2. below \in SUBSET Nat /\ below # {}
  BY <1>1
<1>3. PICK z \in below : \A y \in below : z <= y
  BY <1>2, LeastExists
<1>4. PICK x \in T : z = n - x
  OBVIOUS
<1>5. ASSUME NEW y \in T PROVE y <= x
  <2>1. n - y \in below
    OBVIOUS
  <2>2. n - x <= n - y
    BY <1>3, <1>4, <2>1
  <2> QED  BY <1>1, <2>2
<1> QED  BY <1>5

\* The id of a new row is one no row has had.
LEMMA NextIdIsFresh ==
  ASSUME Typed, RoomLeft
  PROVE  NextId \in ChatIds /\ chats[NextId] = Unborn /\ chats[NextId].kind = "unborn"
           /\ chats[NextId].parent = 0
<1> DEFINE free == {c \in ChatIds : chats[c] = Unborn}
<1>1. free \in SUBSET Nat /\ free # {}
  BY RoomsAssumption DEF ChatIds, RoomLeft
<1>2. \E c \in free : \A d \in free : c <= d
  BY <1>1, LeastExists
<1>3. LeastOf(free) \in free
  BY <1>2 DEF LeastOf
<1>4. NextId \in free
  BY <1>3 DEF NextId
<1> QED  BY <1>4 DEF Unborn

\* The snapshot a request takes is no lower than any topic.
LEMMA SnapshotCovers ==
  ASSUME Typed, NEW g
  PROVE  MaxTopicOf(g) \in 0 .. MaxTopic /\ \A t \in TopicsOf(g) : t <= MaxTopicOf(g)
<1>1. \A c \in ChatIds : chats[c].topic \in 0 .. MaxTopic
  BY DEF Typed, RowTypes
<1>2. ASSUME NEW t \in TopicsOf(g) PROVE t \in 0 .. MaxTopic
  BY <1>1 DEF TopicsOf
<1>3. MaxTopic \in Nat \ {0, 1}
  BY RoomsAssumption
<1>4. CASE TopicsOf(g) = {}
  BY <1>3, <1>4 DEF MaxTopicOf
<1>5. CASE TopicsOf(g) # {}
  <2>1. TopicsOf(g) \in SUBSET Nat /\ \A t \in TopicsOf(g) : t <= MaxTopic
    BY <1>2, <1>3
  <2>2. \E t \in TopicsOf(g) : \A s \in TopicsOf(g) : s <= t
    BY <1>3, <1>5, <2>1, GreatestExists
  <2>3. PICK m : m = CHOOSE t \in TopicsOf(g) : \A s \in TopicsOf(g) : s <= t
    OBVIOUS
  <2>4. m \in TopicsOf(g) /\ \A s \in TopicsOf(g) : s <= m
    BY <2>2, <2>3
  <2>5. MaxTopicOf(g) = m
    BY <1>5, <2>3 DEF MaxTopicOf
  <2> QED  BY <1>2, <2>4, <2>5
<1> QED  BY <1>4, <1>5

-----------------------------------------------------------------------------
(* The rows and the requests have their types. *)

LEMMA UnbornRow == Unborn \in RowTypes /\ Unborn.kind = "unborn" /\ Unborn.parent = 0
<1>1. /\ "unborn" \in Kinds \cup {"unborn", "gone"} /\ 0 \in 0 .. MaxChats /\ 0 \in 0 .. MaxTopic
      /\ 0 \in 0 .. MaxTopic + 1
  BY RoomsAssumption
<1> QED  BY <1>1 DEF Unborn, RowTypes

LEMMA RowEdits ==
  ASSUME NEW r \in RowTypes
  PROVE  /\ \A k \in Kinds \cup {"unborn", "gone"} : [r EXCEPT !.kind = k] \in RowTypes
         /\ \A u \in Users \cup {Nobody} : [r EXCEPT !.by = u] \in RowTypes
         /\ \A c \in 0 .. MaxChats : [r EXCEPT !.parent = c] \in RowTypes
         /\ \A t \in 0 .. MaxTopic : [r EXCEPT !.topic = t] \in RowTypes
         /\ \A t \in 0 .. MaxTopic + 1 : [r EXCEPT !.next = t] \in RowTypes
         /\ \A b \in BOOLEAN : [r EXCEPT !.public = b] \in RowTypes
         /\ \A s \in Slugs \cup {"none"} : [r EXCEPT !.slug = s] \in RowTypes
BY DEF RowTypes

LEMMA RowsHaveTypes ==
  ASSUME NEW u \in Users \cup {Nobody}
  PROVE  /\ SavedRow(u) \in RowTypes /\ DirectRow(u) \in RowTypes /\ GroupRow(u) \in RowTypes
         /\ \A g \in 0 .. MaxChats, t \in 0 .. MaxTopic : TopicRow(u, g, t) \in RowTypes
         /\ \A c \in 0 .. MaxChats : ThreadRow(u, c) \in RowTypes
         /\ \A public \in BOOLEAN, s \in Slugs \cup {"none"} : ChannelRow(u, public, s) \in RowTypes
<1> DEFINE Made(k) == [[Unborn EXCEPT !.kind = k] EXCEPT !.by = u]
<1>1. \A k \in Kinds : Made(k) \in RowTypes
  BY UnbornRow, RowEdits
<1>2. SavedRow(u) = Made("saved") /\ DirectRow(u) = Made("direct")
  BY DEF SavedRow, DirectRow
<1>3. GroupRow(u) = [Made("group") EXCEPT !.next = 2]
  BY DEF GroupRow
<1>4. ASSUME NEW g, NEW t
      PROVE  /\ TopicRow(u, g, t) = [[Made("channel") EXCEPT !.parent = g] EXCEPT !.topic = t]
             /\ ThreadRow(u, g) = [Made("comment_thread") EXCEPT !.parent = g]
             /\ ChannelRow(u, g, t) =
                  [[Made("standalone_channel") EXCEPT !.public = g] EXCEPT !.slug = t]
  BY DEF TopicRow, ThreadRow, ChannelRow
<1>5. 2 \in 0 .. MaxTopic + 1
  BY RoomsAssumption
<1>6. \A k \in {"saved", "direct", "group", "channel", "comment_thread", "standalone_channel"} : k \in Kinds
  BY DEF Kinds
<1> HIDE DEF Made
<1>7. SavedRow(u) \in RowTypes /\ DirectRow(u) \in RowTypes /\ GroupRow(u) \in RowTypes
  BY <1>1, <1>2, <1>3, <1>5, <1>6, RowEdits
<1>8. ASSUME NEW g \in 0 .. MaxChats
      PROVE  ThreadRow(u, g) \in RowTypes /\ \A t \in 0 .. MaxTopic : TopicRow(u, g, t) \in RowTypes
  <2>1. [Made("channel") EXCEPT !.parent = g] \in RowTypes /\ [Made("comment_thread") EXCEPT !.parent = g] \in RowTypes
    BY <1>1, <1>6, RowEdits
  <2>2. ASSUME NEW t \in 0 .. MaxTopic PROVE TopicRow(u, g, t) \in RowTypes
    <3>1. [[Made("channel") EXCEPT !.parent = g] EXCEPT !.topic = t] \in RowTypes
      BY <2>1, RowEdits
    <3>2. TopicRow(u, g, t) = [[Made("channel") EXCEPT !.parent = g] EXCEPT !.topic = t]
      BY <1>4
    <3> QED  BY <3>1, <3>2
  <2> QED  BY <1>4, <2>1, <2>2
<1>9. ASSUME NEW public \in BOOLEAN, NEW s \in Slugs \cup {"none"} PROVE ChannelRow(u, public, s) \in RowTypes
  <2>1. [Made("standalone_channel") EXCEPT !.public = public] \in RowTypes
    BY <1>1, <1>6, RowEdits
  <2>2. [[Made("standalone_channel") EXCEPT !.public = public] EXCEPT !.slug = s] \in RowTypes
    BY <2>1, RowEdits
  <2>3. ChannelRow(u, public, s) = [[Made("standalone_channel") EXCEPT !.public = public] EXCEPT !.slug = s]
    BY <1>4
  <2> QED  BY <2>2, <2>3
<1> QED  BY <1>7, <1>8, <1>9

\* What a new row says of itself.
LEMMA RowsSay ==
  ASSUME NEW u, NEW g, NEW t, NEW public, NEW s
  PROVE  /\ SavedRow(u).kind = "saved" /\ SavedRow(u).by = u /\ SavedRow(u).parent = 0
         /\ DirectRow(u).kind = "direct" /\ DirectRow(u).parent = 0
         /\ GroupRow(u).kind = "group" /\ GroupRow(u).parent = 0
         /\ TopicRow(u, g, t).kind = "channel" /\ TopicRow(u, g, t).parent = g
         /\ TopicRow(u, g, t).topic = t
         /\ ThreadRow(u, g).kind = "comment_thread" /\ ThreadRow(u, g).parent = g
         /\ ChannelRow(u, public, s).kind = "standalone_channel" /\ ChannelRow(u, public, s).parent = 0
BY DEF SavedRow, DirectRow, GroupRow, TopicRow, ThreadRow, ChannelRow, Unborn

LEMMA GoneRow == Gone \in RowTypes /\ Gone.kind = "gone" /\ Gone.parent = 0
BY UnbornRow, RowEdits DEF Gone, Unborn

LEMMA IdleInHand == Idle \in InHand /\ Idle.at = "idle"
BY RoomsAssumption DEF Idle, InHand, RequestTypes

LEMMA NoRolesTyped == NoRoles \in [Users -> Roles]
BY DEF NoRoles, Roles
-----------------------------------------------------------------------------
(* What a write does to the depth of chats, their members and threads. *)

LEMMA RowAdded ==
  ASSUME Shaped, NEW n \in ChatIds, chats[n].kind = "unborn",
         \A c \in ChatIds \ {n} : chats'[c].kind = chats[c].kind /\ chats'[c].parent = chats[c].parent
                                    /\ role'[c] = role[c],
         chats'[n].kind \in Kinds,
         chats'[n].kind = "channel" =>
           chats'[n].parent \in ChatIds /\ chats[chats'[n].parent].kind = "group",
         chats'[n].kind = "comment_thread" =>
           chats'[n].parent \in ChatIds /\ TakesComments(chats'[n].parent),
         chats'[n].kind \notin {"channel", "comment_thread"} => chats'[n].parent = 0,
         \A c \in ChatIds, r \in Roots :
           \/ threads'[c][r] = threads[c][r]
           \/ threads'[c][r] = n /\ chats'[n].kind = "comment_thread" /\ chats'[n].parent = c,
         \A c \in ChatIds, r \in Roots : threads[c][r] \in 0 .. MaxChats
  PROVE  Shaped'
<1>1. ASSUME NEW c \in ChatIds PROVE
        /\ chats'[c].kind = "channel" =>
             chats'[c].parent \in ChatIds /\ chats'[chats'[c].parent].kind = "group"
        /\ chats'[c].kind = "comment_thread" =>
             chats'[c].parent \in ChatIds
               /\ chats'[chats'[c].parent].kind \in {"channel", "standalone_channel"}
        /\ chats'[c].kind \notin {"channel", "comment_thread"} => chats'[c].parent = 0
  <2>1. CASE c = n
    BY <2>1 DEF TakesComments
  <2>2. CASE c # n
    BY <2>2 DEF TakesComments, Shaped, DepthByKind
  <2> QED  BY <2>1, <2>2
<1>2. DepthByKind'
  BY <1>1 DEF DepthByKind, TakesComments
<1>3. NobodyInDeadChats'
  BY DEF Shaped, NobodyInDeadChats, Alive
<1>4. ASSUME NEW c \in ChatIds, NEW r \in Roots, threads'[c][r] # 0
      PROVE  chats'[threads'[c][r]].kind = "comment_thread" /\ chats'[threads'[c][r]].parent = c
  <2>1. CASE threads'[c][r] = threads[c][r]
    <3>1. chats[threads[c][r]].kind = "comment_thread" /\ chats[threads[c][r]].parent = c
      BY <1>4, <2>1 DEF Shaped, ThreadsPointBack
    <3>2. threads[c][r] \in ChatIds \ {n}
      BY <1>4, <2>1, <3>1, RoomsAssumption DEF ChatIds
    <3> QED  BY <2>1, <3>1, <3>2
  <2> QED  BY <2>1
<1>5. ThreadsPointBack'
  BY <1>4 DEF ThreadsPointBack
<1> QED  BY <1>2, <1>3, <1>5 DEF Shaped

LEMMA RowsKept ==
  ASSUME Shaped,
         \A c \in ChatIds : chats'[c].kind = chats[c].kind /\ chats'[c].parent = chats[c].parent,
         \A c \in ChatIds : Alive(c) \/ role'[c] = role[c],
         threads' = threads,
         \A c \in ChatIds, r \in Roots : threads[c][r] \in 0 .. MaxChats
  PROVE  Shaped'
<1>1. DepthByKind'
  BY DEF DepthByKind, TakesComments, Shaped
<1>2. NobodyInDeadChats'
  BY DEF Shaped, NobodyInDeadChats, Alive
<1>3. ASSUME NEW c \in ChatIds, NEW r \in Roots, threads[c][r] # 0
      PROVE  chats'[threads[c][r]].kind = "comment_thread" /\ chats'[threads[c][r]].parent = c
  <2>1. threads[c][r] \in ChatIds
    BY <1>3, RoomsAssumption DEF ChatIds
  <2> QED  BY <1>3, <2>1 DEF Shaped, ThreadsPointBack
<1>4. ThreadsPointBack'
  BY <1>3 DEF ThreadsPointBack
<1> QED  BY <1>1, <1>2, <1>4 DEF Shaped

LEMMA RowsDeleted ==
  ASSUME Shaped, NEW S \in SUBSET ChatIds, Delete(S),
         \A c \in ChatIds : chats[c].parent \in S => c \in S,
         \A c \in ChatIds, r \in Roots : threads[c][r] \in 0 .. MaxChats
  PROVE  Shaped'
<1>1. /\ \A c \in ChatIds : chats'[c] = IF c \in S THEN Gone ELSE chats[c]
      /\ \A c \in ChatIds : role'[c] = IF c \in S THEN NoRoles ELSE role[c]
      /\ \A c \in ChatIds, r \in Roots :
           threads'[c][r] = IF c \in S \/ threads[c][r] \in S THEN 0 ELSE threads[c][r]
  BY DEF Delete
<1>2. Gone.kind = "gone" /\ Gone.parent = 0
  BY GoneRow
<1>3. DepthByKind'
  BY <1>1, <1>2 DEF DepthByKind, TakesComments, Shaped
<1>4. ASSUME NEW c \in ChatIds, chats'[c].kind \notin Kinds PROVE role'[c] = NoRoles
  BY <1>1, <1>4 DEF Shaped, NobodyInDeadChats, Alive
<1>5. NobodyInDeadChats'
  BY <1>4 DEF NobodyInDeadChats, Alive, NoRoles
<1>6. ASSUME NEW c \in ChatIds, NEW r \in Roots, threads'[c][r] # 0
      PROVE  chats'[threads'[c][r]].kind = "comment_thread" /\ chats'[threads'[c][r]].parent = c
  <2>1. threads'[c][r] = threads[c][r] /\ threads[c][r] \notin S
    BY <1>1, <1>6
  <2>2. threads[c][r] \in ChatIds
    BY <1>6, <2>1, RoomsAssumption DEF ChatIds
  <2> QED  BY <1>1, <1>6, <2>1, <2>2 DEF Shaped, ThreadsPointBack
<1>7. ThreadsPointBack'
  BY <1>6 DEF ThreadsPointBack
<1> QED  BY <1>3, <1>5, <1>7 DEF Shaped

\* Two levels are all there are.
LEMMA CascadeIsWhole ==
  ASSUME Shaped, NEW c \in ChatIds
  PROVE  /\ {c} \cup Below(c) \in SUBSET ChatIds
         /\ \A d \in ChatIds : chats[d].parent \in {c} \cup Below(c) => d \in {c} \cup Below(c)
<1>1. ASSUME NEW d \in ChatIds, NEW e \in ChatIds, chats[d].parent = e PROVE
        /\ chats[e].kind \in {"group", "channel", "standalone_channel"}
        /\ chats[e].kind \in {"group", "standalone_channel"} => chats[e].parent = 0
        /\ chats[e].kind = "channel" => chats[e].parent \in ChatIds
                                          /\ chats[chats[e].parent].kind = "group"
  BY <1>1, RoomsAssumption DEF Shaped, DepthByKind, TakesComments, ChatIds
<1>2. \A d \in ChatIds : d # 0
  BY RoomsAssumption DEF ChatIds
<1>3. ASSUME NEW d \in ChatIds, chats[d].parent \in {c} \cup Below(c) PROVE d \in {c} \cup Below(c)
  <2>1. CASE chats[d].parent = c
    BY <2>1 DEF Below
  <2>2. CASE chats[d].parent \in ChatIds /\ chats[chats[d].parent].parent = c
    BY <2>2 DEF Below
  <2>3. CASE chats[d].parent \in ChatIds /\ chats[chats[d].parent].parent \in ChatIds
               /\ chats[chats[chats[d].parent].parent].parent = c
    <3>1. PICK e \in ChatIds, f \in ChatIds : chats[d].parent = e /\ chats[e].parent = f /\ chats[f].parent = c
      BY <2>3
    <3>2. chats[e].kind = "channel" /\ chats[f].kind = "group"
      BY <1>1, <1>2, <3>1
    <3>3. chats[f].parent = 0
      BY <3>2 DEF Shaped, DepthByKind
    <3> QED  BY <1>2, <3>1, <3>3
  <2>4. chats[d].parent = c \/ (chats[d].parent \in ChatIds /\ chats[chats[d].parent].parent = c)
        \/ (chats[d].parent \in ChatIds /\ chats[chats[d].parent].parent \in ChatIds
               /\ chats[chats[chats[d].parent].parent].parent = c)
    BY <1>3 DEF Below
  <2> QED  BY <2>1, <2>2, <2>3, <2>4
<1>4. Below(c) \in SUBSET ChatIds
  BY DEF Below
<1> QED  BY <1>3, <1>4
-----------------------------------------------------------------------------
(* Every step keeps the types and the shape. *)

LEMMA ThreadsTyped ==
  ASSUME Typed
  PROVE  \A c \in ChatIds, r \in Roots : threads[c][r] \in 0 .. MaxChats
BY DEF Typed

LEMMA NewReq ==
  ASSUME Typed, NEW q \in Requests, NEW r \in InHand, reqs' = [reqs EXCEPT ![q] = r]
  PROVE  reqs' \in [Requests -> InHand]
BY DEF Typed

LEMMA AnswersTyped ==
  ASSUME Typed, NEW q \in Requests, Answers(q)
  PROVE  reqs' \in [Requests -> InHand]
BY NewReq, IdleInHand DEF Answers

LEMMA InHandIs ==
  ASSUME Typed, NEW q \in Requests
  PROVE  /\ reqs[q] \in InHand /\ reqs[q].me \in Users \cup {Nobody} /\ reqs[q].chat \in 0 .. MaxChats
         /\ reqs[q].max \in 0 .. MaxTopic
         /\ reqs[q].slug \in Slugs \cup {"none", "keep"} /\ reqs[q].root \in Roots
         /\ reqs[q].at \in {"makeTopic", "makeThread", "write"} => reqs[q].chat \in ChatIds
         /\ reqs[q].at \in {"makeSaved", "findAgain", "makeDirect", "makeTopic"} => reqs[q].me \in Users
BY DEF Typed, InHand, RequestTypes

\* What a request takes along to its next step.
LEMMA WaitingTyped ==
  ASSUME NEW u \in Users
  PROVE  /\ [[Idle EXCEPT !.me = u] EXCEPT !.at = "makeSaved"] \in InHand
         /\ \A v \in Users : [Idle EXCEPT !.at = "makeDirect", !.me = u, !.other = v] \in InHand
         /\ \A g \in ChatIds, m \in 0 .. MaxTopic :
              [[Idle EXCEPT !.me = u, !.chat = g, !.max = m] EXCEPT !.at = "makeTopic"] \in InHand
         /\ \A c \in ChatIds, public \in {"keep", "on", "off"}, s \in Slugs \cup {"none", "keep"} :
              [[Idle EXCEPT !.me = u, !.chat = c, !.public = public, !.slug = s] EXCEPT !.at = "write"] \in InHand
         /\ \A c \in ChatIds, r \in Roots :
              [Idle EXCEPT !.at = "makeThread", !.me = u, !.chat = c, !.root = r] \in InHand
<1>1. \A g \in ChatIds : g \in 0 .. MaxChats
  BY RoomsAssumption DEF ChatIds
<1>2. Idle \in RequestTypes
  BY IdleInHand DEF InHand
<1>3. [[Idle EXCEPT !.me = u] EXCEPT !.at = "makeSaved"] \in InHand
  BY <1>2 DEF InHand, RequestTypes
<1>4. \A v \in Users : [Idle EXCEPT !.at = "makeDirect", !.me = u, !.other = v] \in InHand
  BY <1>2 DEF InHand, RequestTypes
<1>5. \A g \in ChatIds, m \in 0 .. MaxTopic :
        [[Idle EXCEPT !.me = u, !.chat = g, !.max = m] EXCEPT !.at = "makeTopic"] \in InHand
  BY <1>1, <1>2 DEF InHand, RequestTypes
<1>6. \A c \in ChatIds, public \in {"keep", "on", "off"}, s \in Slugs \cup {"none", "keep"} :
        [[Idle EXCEPT !.me = u, !.chat = c, !.public = public, !.slug = s] EXCEPT !.at = "write"] \in InHand
  BY <1>1, <1>2 DEF InHand, RequestTypes
<1>7. \A c \in ChatIds, r \in Roots :
        [Idle EXCEPT !.at = "makeThread", !.me = u, !.chat = c, !.root = r] \in InHand
  BY <1>1, <1>2 DEF InHand, RequestTypes
<1> QED  BY <1>3, <1>4, <1>5, <1>6, <1>7

LEMMA OnlyReads ==
  ASSUME RoomsInv, Reads, reqs' \in [Requests -> InHand], told' \in [Users -> SUBSET ChatIds],
         clashed' \in BOOLEAN, ops' \in 0 .. MaxOps
  PROVE  RoomsInv'
<1>1. Typed'
  BY DEF RoomsInv, Typed, Reads
<1>2. Shaped'
  BY DEF RoomsInv, Shaped, Reads, DepthByKind, NobodyInDeadChats, ThreadsPointBack, TakesComments, Alive,
     NoRoles
<1> QED  BY <1>1, <1>2 DEF RoomsInv

LEMMA Inserted ==
  ASSUME Typed, RoomLeft, NEW n, n = NextId, NEW row \in RowTypes, NEW members \in [Users -> Roles],
         Insert(n, row, members)
  PROVE  /\ n \in ChatIds /\ chats[n].kind = "unborn"
         /\ chats' \in [ChatIds -> RowTypes] /\ role' \in [ChatIds -> [Users -> Roles]]
         /\ \A c \in ChatIds \ {n} : chats'[c] = chats[c] /\ role'[c] = role[c]
         /\ chats'[n] = row /\ role'[n] = members
BY NextIdIsFresh DEF Insert, Typed

\* A row that is under none is added.
LEMMA InsertKeeps ==
  ASSUME RoomsInv, RoomLeft, NEW n, n = NextId, NEW row \in RowTypes, NEW members \in [Users -> Roles],
         Insert(n, row, members), row.kind \in Kinds \ {"channel", "comment_thread"}, row.parent = 0,
         UNCHANGED threads, reqs' \in [Requests -> InHand], told' \in [Users -> SUBSET ChatIds],
         clashed' \in BOOLEAN, ops' \in 0 .. MaxOps
  PROVE  RoomsInv'
<1>1. /\ n \in ChatIds /\ chats[n].kind = "unborn"
      /\ chats' \in [ChatIds -> RowTypes] /\ role' \in [ChatIds -> [Users -> Roles]]
      /\ \A c \in ChatIds \ {n} : chats'[c] = chats[c] /\ role'[c] = role[c]
      /\ chats'[n] = row /\ role'[n] = members
  BY Inserted DEF RoomsInv
<1>2. Typed'
  BY <1>1 DEF RoomsInv, Typed
<1>3. Shaped'
  BY <1>1, RowAdded, ThreadsTyped DEF RoomsInv
<1> QED  BY <1>2, <1>3 DEF RoomsInv

LEMMA DeleteKeeps ==
  ASSUME RoomsInv, NEW c \in ChatIds, Delete({c} \cup Below(c)), ops' \in 0 .. MaxOps,
         UNCHANGED <<reqs, told, clashed>>
  PROVE  RoomsInv'
<1>1. PICK S \in SUBSET ChatIds :
        S = {c} \cup Below(c) /\ \A d \in ChatIds : chats[d].parent \in S => d \in S
  BY CascadeIsWhole DEF RoomsInv
<1>2. Delete(S)
  BY <1>1
<1>3. Shaped'
  BY <1>1, <1>2, RowsDeleted, ThreadsTyped DEF RoomsInv
<1>4. /\ chats' \in [ChatIds -> RowTypes] /\ role' \in [ChatIds -> [Users -> Roles]]
      /\ threads' \in [ChatIds -> [Roots -> 0 .. MaxChats]]
  <2>1. 0 \in 0 .. MaxChats
    BY RoomsAssumption
  <2> QED  BY <1>2, <2>1, GoneRow, NoRolesTyped DEF Delete, RoomsInv, Typed
<1>5. Typed'
  BY <1>4 DEF RoomsInv, Typed
<1> QED  BY <1>3, <1>5 DEF RoomsInv

LEMMA StartsCounts == ASSUME Typed, NEW q \in Requests, Starts(q) PROVE ops' \in 0 .. MaxOps
BY RoomsAssumption DEF Typed, Starts

LEMMA EnsureSavedStep ==
  ASSUME RoomsInv, NEW q \in Requests, NEW u \in Users, EnsureSavedChat(q, u)
  PROVE  RoomsInv'
<1>1. ops' \in 0 .. MaxOps /\ clashed' \in BOOLEAN /\ Reads
  BY StartsCounts DEF RoomsInv, Typed, EnsureSavedChat
<1>2. SavedOf(u) \subseteq ChatIds
  BY DEF SavedOf
<1>3. told' \in [Users -> SUBSET ChatIds]
  BY <1>2 DEF RoomsInv, Typed, EnsureSavedChat, Give
<1>4. reqs' \in [Requests -> InHand]
  BY NewReq, WaitingTyped DEF RoomsInv, Typed, EnsureSavedChat, Waits
<1> QED  BY <1>1, <1>3, <1>4, OnlyReads

LEMMA MakeSavedStep ==
  ASSUME RoomsInv, NEW q \in Requests, MakeSaved(q)
  PROVE  RoomsInv'
<1>1. PICK u \in Users : u = reqs[q].me
  BY InHandIs DEF MakeSaved, RoomsInv
<1>2. ops' \in 0 .. MaxOps /\ clashed' \in BOOLEAN /\ UNCHANGED threads
  BY DEF RoomsInv, Typed, MakeSaved
<1>3. CASE ~SavedTaken(u) /\ RoomLeft /\ Insert(NextId, SavedRow(u), [NoRoles EXCEPT ![u] = "owner"])
             /\ Give(u, {NextId}) /\ Answers(q)
  <2>1. PICK n : n = NextId
    OBVIOUS
  <2>2. n \in ChatIds
    BY <1>3, <2>1, NextIdIsFresh DEF RoomsInv
  <2>3. told' \in [Users -> SUBSET ChatIds]
    BY <1>3, <2>1, <2>2 DEF RoomsInv, Typed, Give
  <2>4. reqs' \in [Requests -> InHand]
    BY <1>3, AnswersTyped DEF RoomsInv
  <2>5. [NoRoles EXCEPT ![u] = "owner"] \in [Users -> Roles]
    BY NoRolesTyped DEF Roles
  <2>6. SavedRow(u) \in RowTypes /\ SavedRow(u).kind \in Kinds \ {"channel", "comment_thread"}
          /\ SavedRow(u).parent = 0
    BY RowsHaveTypes, RowsSay DEF Kinds
  <2>7. Insert(n, SavedRow(u), [NoRoles EXCEPT ![u] = "owner"])
    BY <1>3, <2>1
  <2> QED  BY <1>2, <1>3, <2>1, <2>3, <2>4, <2>5, <2>6, <2>7, InsertKeeps
<1>4. CASE Waits(q, "findAgain", reqs[q]) /\ UNCHANGED <<chats, role, told>>
  <2>1. reqs[q] \in RequestTypes /\ reqs[q].me \in Users
    BY <1>1, InHandIs DEF RoomsInv, InHand
  <2>2. [reqs[q] EXCEPT !.at = "findAgain"] \in InHand
    BY <2>1 DEF InHand, RequestTypes
  <2>3. reqs' \in [Requests -> InHand]
    BY <1>4, <2>2, NewReq DEF RoomsInv, Waits
  <2>4. told' \in [Users -> SUBSET ChatIds]
    BY <1>4 DEF RoomsInv, Typed
  <2> QED  BY <1>2, <1>4, <2>3, <2>4, OnlyReads DEF Reads
<1> QED  BY <1>1, <1>3, <1>4 DEF MakeSaved

LEMMA FindAgainStep ==
  ASSUME RoomsInv, NEW q \in Requests, FindAgain(q)
  PROVE  RoomsInv'
<1>1. reqs[q].me \in Users
  BY InHandIs DEF FindAgain, RoomsInv
<1>2. told' \in [Users -> SUBSET ChatIds]
  BY DEF FindAgain, Give, SavedOf, RoomsInv, Typed
<1>3. reqs' \in [Requests -> InHand]
  BY AnswersTyped DEF RoomsInv, FindAgain
<1>4. ops' \in 0 .. MaxOps /\ clashed' \in BOOLEAN /\ Reads
  BY DEF RoomsInv, Typed, FindAgain
<1> QED  BY <1>2, <1>3, <1>4, OnlyReads

LEMMA FindDirectStep ==
  ASSUME RoomsInv, NEW q \in Requests, NEW u \in Users, NEW v \in Users, FindDirectChat(q, u, v)
  PROVE  RoomsInv'
<1>1. ops' \in 0 .. MaxOps /\ clashed' \in BOOLEAN /\ Reads /\ told' \in [Users -> SUBSET ChatIds]
  BY StartsCounts DEF RoomsInv, Typed, FindDirectChat
<1>2. reqs' \in [Requests -> InHand]
  BY NewReq, WaitingTyped, IdleInHand DEF RoomsInv, FindDirectChat
<1> QED  BY <1>1, <1>2, OnlyReads

LEMMA MakeDirectStep ==
  ASSUME RoomsInv, NEW q \in Requests, MakeDirect(q)
  PROVE  RoomsInv'
<1>0. PICK v : v = reqs[q].other
  OBVIOUS
<1>1. PICK u \in Users : u = reqs[q].me /\ v = reqs[q].other
  BY <1>0, InHandIs DEF MakeDirect, RoomsInv
<1>2. PICK n, m : n = NextId /\ m = [NoRoles EXCEPT ![u] = "member", ![v] = "member"]
  OBVIOUS
<1>3. m \in [Users -> Roles]
  BY <1>2, NoRolesTyped DEF Roles
<1>4. Insert(n, DirectRow(u), m) /\ RoomLeft /\ UNCHANGED <<threads, told, clashed, ops>>
  BY <1>1, <1>2 DEF MakeDirect
<1>5. reqs' \in [Requests -> InHand]
  BY AnswersTyped DEF RoomsInv, MakeDirect
<1>6. DirectRow(u) \in RowTypes /\ DirectRow(u).kind \in Kinds \ {"channel", "comment_thread"}
        /\ DirectRow(u).parent = 0
  BY RowsHaveTypes, RowsSay DEF Kinds
<1>7. told' \in [Users -> SUBSET ChatIds] /\ clashed' \in BOOLEAN /\ ops' \in 0 .. MaxOps
  BY <1>4 DEF RoomsInv, Typed
<1> QED  BY <1>2, <1>3, <1>4, <1>5, <1>6, <1>7, InsertKeeps

LEMMA CreateGroupStep ==
  ASSUME RoomsInv, NEW q \in Requests, NEW u \in Users, NEW members, CreateGroup(q, u, members)
  PROVE  RoomsInv'
<1>1. PICK n, m : n = NextId /\ m = [v \in Users |-> IF v = u THEN "owner"
                                       ELSE IF v \in members THEN "member" ELSE "none"]
  OBVIOUS
<1>2. m \in [Users -> Roles]
  BY <1>1 DEF Roles
<1>3. Insert(n, GroupRow(u), m) /\ RoomLeft /\ UNCHANGED <<threads, reqs, told, clashed>>
  BY <1>1 DEF CreateGroup
<1>4. GroupRow(u) \in RowTypes /\ GroupRow(u).kind \in Kinds \ {"channel", "comment_thread"}
        /\ GroupRow(u).parent = 0
  BY RowsHaveTypes, RowsSay DEF Kinds
<1>5. /\ told' \in [Users -> SUBSET ChatIds] /\ clashed' \in BOOLEAN /\ ops' \in 0 .. MaxOps
      /\ reqs' \in [Requests -> InHand]
  BY <1>3, StartsCounts DEF RoomsInv, Typed, CreateGroup
<1> QED  BY <1>1, <1>2, <1>3, <1>4, <1>5, InsertKeeps

LEMMA CreatePublicStep ==
  ASSUME RoomsInv, NEW q \in Requests, NEW u \in Users, NEW public \in BOOLEAN,
         NEW s \in Slugs \cup {"none"}, CreatePublicChannel(q, u, public, s)
  PROVE  RoomsInv'
<1>1. PICK n, m : n = NextId /\ m = [NoRoles EXCEPT ![u] = "owner"]
  OBVIOUS
<1>2. m \in [Users -> Roles]
  BY <1>1, NoRolesTyped DEF Roles
<1>3. Insert(n, ChannelRow(u, public, s), m) /\ RoomLeft /\ UNCHANGED <<threads, reqs, told, clashed>>
  BY <1>1 DEF CreatePublicChannel
<1>4. /\ ChannelRow(u, public, s) \in RowTypes
      /\ ChannelRow(u, public, s).kind \in Kinds \ {"channel", "comment_thread"}
      /\ ChannelRow(u, public, s).parent = 0
  <2>1. ChannelRow(u, public, s) \in RowTypes
    BY RowsHaveTypes
  <2>2. ChannelRow(u, public, s).kind = "standalone_channel" /\ ChannelRow(u, public, s).parent = 0
    BY RowsSay
  <2> QED  BY <2>1, <2>2 DEF Kinds
<1>5. /\ told' \in [Users -> SUBSET ChatIds] /\ clashed' \in BOOLEAN /\ ops' \in 0 .. MaxOps
      /\ reqs' \in [Requests -> InHand]
  BY <1>3, StartsCounts DEF RoomsInv, Typed, CreatePublicChannel
<1> QED  BY <1>1, <1>2, <1>3, <1>4, <1>5, InsertKeeps

LEMMA CreateChannelStep ==
  ASSUME RoomsInv, NEW q \in Requests, NEW u \in Users, NEW g \in ChatIds, CreateChannel(q, u, g)
  PROVE  RoomsInv'
<1>1. /\ ops' \in 0 .. MaxOps /\ clashed' \in BOOLEAN /\ Reads
      /\ told' \in [Users -> SUBSET ChatIds]
  BY StartsCounts DEF RoomsInv, Typed, CreateChannel
<1>2. MaxTopicOf(g) \in 0 .. MaxTopic
  BY SnapshotCovers DEF RoomsInv
<1>3. reqs' \in [Requests -> InHand]
  BY <1>2, NewReq, WaitingTyped DEF RoomsInv, CreateChannel, Waits
<1> QED  BY <1>1, <1>3, OnlyReads

\* The number a group gives next is above the snapshot, and no lower than its counter.
LEMMA AllocationIs ==
  ASSUME Typed, NEW g \in ChatIds, NEW max \in 0 .. MaxTopic
  PROVE  /\ TopicFor(g, max) \in Nat /\ TopicFor(g, max) > max
         /\ TopicFor(g, max) >= chats[g].next
<1>1. PICK n, m : n = chats[g].next /\ m = IF n = 0 THEN 2 ELSE n
  OBVIOUS
<1>2. n \in Nat /\ m \in Nat /\ m >= n
  BY <1>1, RoomsAssumption DEF Typed, RowTypes
<1>3. TopicFor(g, max) = IF m >= max + 1 THEN m ELSE max + 1
  BY <1>1 DEF TopicFor, Allocated, Greatest
<1> QED  BY <1>1, <1>2, <1>3, RoomsAssumption

LEMMA MakeTopicIs ==
  ASSUME Typed, NEW q \in Requests, MakeTopic(q)
  PROVE  \/ UNCHANGED <<chats, role>>
         \/ \E g \in ChatIds, n \in ChatIds, t \in 0 .. MaxTopic :
              /\ g = reqs[q].chat /\ t = TopicFor(g, reqs[q].max) /\ g # n
              /\ chats[g].kind = "group" /\ chats[n].kind = "unborn" /\ ~TopicTaken(g, t)
              /\ chats'[n] = TopicRow(reqs[q].me, g, t)
              /\ chats'[g] = [chats[g] EXCEPT !.next = t + 1]
              /\ \A c \in ChatIds \ {n, g} : chats'[c] = chats[c]
              /\ role' = [role EXCEPT ![n] = role[g]]
              /\ chats' \in [ChatIds -> RowTypes] /\ role' \in [ChatIds -> [Users -> Roles]]
              /\ UNCHANGED clashed
<1>1. reqs[q].chat \in ChatIds /\ reqs[q].me \in Users /\ reqs[q].max \in 0 .. MaxTopic
  BY InHandIs DEF MakeTopic
<1>0. PICK g \in ChatIds : g = reqs[q].chat
  BY <1>1
<1>2. PICK t : g \in ChatIds /\ g = reqs[q].chat /\ t = TopicFor(g, reqs[q].max)
  BY <1>0
<1>3. t \in Nat
  BY <1>1, <1>2, AllocationIs
<1>4. SUFFICES ASSUME ~UNCHANGED <<chats, role>>
      PROVE  \E n \in ChatIds :
              /\ t \in 0 .. MaxTopic /\ g # n
              /\ chats[g].kind = "group" /\ chats[n].kind = "unborn" /\ ~TopicTaken(g, t)
              /\ chats'[n] = TopicRow(reqs[q].me, g, t)
              /\ chats'[g] = [chats[g] EXCEPT !.next = t + 1]
              /\ \A c \in ChatIds \ {n, g} : chats'[c] = chats[c]
              /\ role' = [role EXCEPT ![n] = role[g]]
              /\ chats' \in [ChatIds -> RowTypes] /\ role' \in [ChatIds -> [Users -> Roles]]
              /\ UNCHANGED clashed
  BY <1>2
<1>5. PICK n : n = NextId
  OBVIOUS
<1>6. /\ chats[g].kind = "group" /\ ~TopicTaken(g, t) /\ t <= MaxTopic /\ RoomLeft
      /\ chats' = [chats EXCEPT ![g].next = t + 1, ![n] = TopicRow(reqs[q].me, g, t)]
      /\ role' = [role EXCEPT ![n] = role[g]]
      /\ UNCHANGED clashed
  BY <1>2, <1>4, <1>5 DEF MakeTopic
<1>7. n \in ChatIds /\ chats[n].kind = "unborn"
  BY <1>5, <1>6, NextIdIsFresh
<1>8. g # n
  BY <1>6, <1>7
<1>9. /\ chats'[n] = TopicRow(reqs[q].me, g, t) /\ chats'[g] = [chats[g] EXCEPT !.next = t + 1]
      /\ \A c \in ChatIds \ {n, g} : chats'[c] = chats[c]
      /\ DOMAIN chats' = ChatIds /\ chats' = [c \in ChatIds |-> chats'[c]]
  BY <1>6, <1>7, <1>8 DEF Typed
<1>10. t \in 0 .. MaxTopic /\ t + 1 \in 0 .. MaxTopic + 1 /\ g \in 0 .. MaxChats
  BY <1>3, <1>6, RoomsAssumption DEF ChatIds
<1>11. TopicRow(reqs[q].me, g, t) \in RowTypes
  BY <1>1, <1>10, RowsHaveTypes
<1>12. [chats[g] EXCEPT !.next = t + 1] \in RowTypes
  BY <1>10, RowEdits DEF Typed
<1>13. \A c \in ChatIds : chats'[c] \in RowTypes
  BY <1>9, <1>11, <1>12 DEF Typed
<1>14. role' \in [ChatIds -> [Users -> Roles]]
  BY <1>6 DEF Typed
<1> QED  BY <1>6, <1>7, <1>8, <1>9, <1>10, <1>13, <1>14

LEMMA MakeTopicStep ==
  ASSUME RoomsInv, NEW q \in Requests, MakeTopic(q)
  PROVE  RoomsInv'
<1>1. reqs' \in [Requests -> InHand]
  BY AnswersTyped DEF RoomsInv, MakeTopic
<1>2. /\ UNCHANGED <<threads, told, ops>> /\ clashed' \in BOOLEAN
  BY DEF RoomsInv, Typed, MakeTopic
<1>3. CASE UNCHANGED <<chats, role>>
  BY <1>1, <1>2, <1>3, OnlyReads DEF Reads, RoomsInv, Typed
<1>4. CASE ~UNCHANGED <<chats, role>>
  <2>1. PICK g \in ChatIds, n \in ChatIds, t \in 0 .. MaxTopic :
              /\ g # n /\ chats[g].kind = "group" /\ chats[n].kind = "unborn"
              /\ chats'[n] = TopicRow(reqs[q].me, g, t)
              /\ chats'[g] = [chats[g] EXCEPT !.next = t + 1]
              /\ \A c \in ChatIds \ {n, g} : chats'[c] = chats[c]
              /\ role' = [role EXCEPT ![n] = role[g]]
              /\ chats' \in [ChatIds -> RowTypes] /\ role' \in [ChatIds -> [Users -> Roles]]
    BY <1>4, MakeTopicIs DEF RoomsInv
  <2>2. chats'[n].kind = "channel" /\ chats'[n].parent = g
    <3>1. TopicRow(reqs[q].me, g, t).kind = "channel" /\ TopicRow(reqs[q].me, g, t).parent = g
      BY RowsSay
    <3> QED  BY <2>1, <3>1
  <2>3. chats[g] \in RowTypes
    BY DEF RoomsInv, Typed
  <2>4. chats'[g].kind = chats[g].kind /\ chats'[g].parent = chats[g].parent
    BY <2>1, <2>3 DEF RowTypes
  <2>5. \A c \in ChatIds \ {n} : chats'[c].kind = chats[c].kind /\ chats'[c].parent = chats[c].parent
                                   /\ role'[c] = role[c]
    BY <2>1, <2>4 DEF RoomsInv, Typed
  <2>6. "channel" \in Kinds
    BY DEF Kinds
  <2>7. Shaped'
    BY <1>2, <2>1, <2>2, <2>5, <2>6, RowAdded, ThreadsTyped DEF RoomsInv
  <2>8. Typed'
    BY <1>1, <1>2, <2>1 DEF RoomsInv, Typed
  <2> QED  BY <2>7, <2>8 DEF RoomsInv
<1> QED  BY <1>3, <1>4

LEMMA DeleteChannelStep ==
  ASSUME RoomsInv, NEW q \in Requests, NEW u \in Users, NEW g \in ChatIds, NEW c \in ChatIds,
         DeleteChannel(q, u, g, c)
  PROVE  RoomsInv'
<1>1. ops' \in 0 .. MaxOps /\ Delete({c} \cup Below(c)) /\ UNCHANGED <<reqs, told, clashed>>
  BY StartsCounts DEF RoomsInv, DeleteChannel, DeleteTopic
<1> QED  BY <1>1, DeleteKeeps

LEMMA UpdateChatStep ==
  ASSUME RoomsInv, NEW q \in Requests, NEW u \in Users, NEW c \in ChatIds,
         NEW public \in {"keep", "on", "off"}, NEW s \in Slugs \cup {"keep", "none"},
         UpdateChat(q, u, c, public, s)
  PROVE  RoomsInv'
<1>1. /\ ops' \in 0 .. MaxOps /\ clashed' \in BOOLEAN /\ Reads
      /\ told' \in [Users -> SUBSET ChatIds]
  BY StartsCounts DEF RoomsInv, Typed, UpdateChat
<1>2. NextSlug(chats[c], public, s) \in Slugs \cup {"none", "keep"}
  BY DEF NextSlug, RoomsInv, Typed, RowTypes
<1>3. reqs' \in [Requests -> InHand]
  BY <1>2, NewReq, WaitingTyped DEF RoomsInv, UpdateChat, Waits
<1> QED  BY <1>1, <1>3, OnlyReads

LEMMA WriteChatIs ==
  ASSUME Typed, NEW q \in Requests, WriteChat(q)
  PROVE  /\ chats' \in [ChatIds -> RowTypes]
         /\ \A c \in ChatIds : /\ chats'[c].kind = chats[c].kind /\ chats'[c].parent = chats[c].parent
                               /\ chats'[c].by = chats[c].by /\ chats'[c].topic = chats[c].topic
                               /\ chats'[c].next = chats[c].next
                               /\ chats[c] = Unborn => chats'[c].kind = "unborn"
<1>0. PICK c \in ChatIds : c = reqs[q].chat
  BY InHandIs DEF WriteChat
<1>1. PICK name, p :
        /\ c \in ChatIds /\ c = reqs[q].chat
        /\ name = IF reqs[q].slug = "keep" THEN chats[c].slug ELSE reqs[q].slug
        /\ p = IF reqs[q].public = "keep" THEN chats[c].public ELSE reqs[q].public = "on"
  BY <1>0
<1>2. chats[c] \in RowTypes
  BY DEF Typed
<1>3. name \in Slugs \cup {"none"} /\ p \in BOOLEAN
  BY <1>1, <1>2, InHandIs DEF RowTypes
<1>4. CASE chats' = chats
  BY <1>4 DEF Typed, Unborn
<1>5. CASE chats' = [chats EXCEPT ![c].slug = name, ![c].public = p]
  <2>1. chats' = [chats EXCEPT ![c] = [[chats[c] EXCEPT !.slug = name] EXCEPT !.public = p]]
    BY <1>2, <1>5 DEF Typed
  <2>2. [chats[c] EXCEPT !.slug = name] \in RowTypes
    BY <1>2, <1>3, RowEdits
  <2>3. [[chats[c] EXCEPT !.slug = name] EXCEPT !.public = p] \in RowTypes
    BY <1>3, <2>2, RowEdits
  <2>4. chats' \in [ChatIds -> RowTypes]
    BY <2>1, <2>3 DEF Typed
  <2>5. /\ chats'[c] = [[chats[c] EXCEPT !.slug = name] EXCEPT !.public = p]
        /\ \A d \in ChatIds \ {c} : chats'[d] = chats[d]
    BY <2>1 DEF Typed
  <2>6. /\ chats'[c].kind = chats[c].kind /\ chats'[c].parent = chats[c].parent
        /\ chats'[c].by = chats[c].by /\ chats'[c].topic = chats[c].topic
        /\ chats'[c].next = chats[c].next
    BY <1>2, <2>5 DEF RowTypes
  <2>7. Unborn.kind = "unborn"
    BY UnbornRow
  <2> QED  BY <2>4, <2>5, <2>6, <2>7
<1>6. chats' = chats \/ chats' = [chats EXCEPT ![c].slug = name, ![c].public = p]
  BY <1>1 DEF WriteChat
<1> QED  BY <1>4, <1>5, <1>6

LEMMA WriteChatStep ==
  ASSUME RoomsInv, NEW q \in Requests, WriteChat(q)
  PROVE  RoomsInv'
<1>1. reqs' \in [Requests -> InHand]
  BY AnswersTyped DEF RoomsInv, WriteChat
<1>2. UNCHANGED <<role, threads, told, clashed, ops>>
  BY DEF WriteChat
<1>3. Typed'
  BY <1>1, <1>2, WriteChatIs DEF RoomsInv, Typed
<1>4. Shaped'
  BY <1>2, WriteChatIs, RowsKept, ThreadsTyped DEF RoomsInv
<1> QED  BY <1>3, <1>4 DEF RoomsInv

LEMMA GetThreadStep ==
  ASSUME RoomsInv, NEW q \in Requests, NEW u \in Users, NEW c \in ChatIds, NEW r \in Roots,
         GetOrCreateCommentThread(q, u, c, r)
  PROVE  RoomsInv'
<1>1. /\ ops' \in 0 .. MaxOps /\ clashed' \in BOOLEAN /\ Reads
      /\ told' \in [Users -> SUBSET ChatIds]
  BY StartsCounts DEF RoomsInv, Typed, GetOrCreateCommentThread
<1>2. reqs' \in [Requests -> InHand]
  BY NewReq, WaitingTyped, IdleInHand DEF RoomsInv, GetOrCreateCommentThread
<1> QED  BY <1>1, <1>2, OnlyReads

LEMMA MakeThreadStep ==
  ASSUME RoomsInv, NEW q \in Requests, MakeThread(q)
  PROVE  RoomsInv'
<1>1. reqs' \in [Requests -> InHand]
  BY AnswersTyped DEF RoomsInv, MakeThread
<1>2. UNCHANGED <<told, clashed, ops>>
  BY DEF MakeThread
<1>3. CASE Reads
  BY <1>1, <1>2, <1>3, OnlyReads DEF RoomsInv, Typed
<1>4. CASE ~Reads
  <2> PICK n : n = NextId
    OBVIOUS
  <2>1. PICK c \in ChatIds, r \in Roots, u \in Users \cup {Nobody} :
          c = reqs[q].chat /\ r = reqs[q].root /\ n = NextId /\ u = reqs[q].me
    BY InHandIs DEF MakeThread, RoomsInv
  <2>2. /\ TakesComments(c) /\ RoomLeft /\ Insert(n, ThreadRow(u, c), NoRoles)
        /\ threads' = [threads EXCEPT ![c][r] = n]
    BY <1>4, <2>1 DEF MakeThread
  <2>3. c \in 0 .. MaxChats
    BY RoomsAssumption DEF ChatIds
  <2>4. ThreadRow(u, c) \in RowTypes /\ ThreadRow(u, c).kind = "comment_thread" /\ ThreadRow(u, c).parent = c
    BY <2>3, RowsHaveTypes, RowsSay
  <2>5. /\ n \in ChatIds /\ chats[n].kind = "unborn"
        /\ chats' \in [ChatIds -> RowTypes] /\ role' \in [ChatIds -> [Users -> Roles]]
        /\ \A d \in ChatIds \ {n} : chats'[d] = chats[d] /\ role'[d] = role[d]
        /\ chats'[n] = ThreadRow(u, c) /\ role'[n] = NoRoles
    BY <2>1, <2>2, <2>4, NoRolesTyped, Inserted DEF RoomsInv
  <2>6. n \in 0 .. MaxChats
    BY <2>5, RoomsAssumption DEF ChatIds
  <2>7. /\ threads' \in [ChatIds -> [Roots -> 0 .. MaxChats]]
        /\ \A d \in ChatIds, s \in Roots :
             threads'[d][s] = threads[d][s] \/ (threads'[d][s] = n /\ d = c)
    BY <2>2, <2>6 DEF RoomsInv, Typed
  <2>8. "comment_thread" \in Kinds /\ TakesComments(c)
    BY <2>2 DEF Kinds
  <2>9. /\ \A d \in ChatIds \ {n} : chats'[d].kind = chats[d].kind /\ chats'[d].parent = chats[d].parent
                                    /\ role'[d] = role[d]
        /\ chats'[n].kind = "comment_thread" /\ chats'[n].parent = c
    BY <2>4, <2>5
  <2>10. chats'[n].parent \in ChatIds /\ TakesComments(chats'[n].parent)
    BY <2>8, <2>9
  <2>11. Shaped'
    BY <2>5, <2>7, <2>8, <2>9, <2>10, RowAdded, ThreadsTyped DEF RoomsInv
  <2>12. Typed'
    BY <1>1, <1>2, <2>5, <2>7 DEF RoomsInv, Typed
  <2> QED  BY <2>11, <2>12 DEF RoomsInv
<1> QED  BY <1>3, <1>4

LEMMA DeleteChatStep ==
  ASSUME RoomsInv, NEW q \in Requests, NEW u \in Users, NEW c \in ChatIds, DeleteChat(q, u, c)
  PROVE  RoomsInv'
<1>1. ops' \in 0 .. MaxOps /\ UNCHANGED <<reqs, told, clashed>>
  BY StartsCounts DEF RoomsInv, DeleteChat
<1>2. CASE DeleteOwned(u, c)
  BY <1>1, <1>2, DeleteKeeps DEF DeleteOwned
<1>3. CASE LeaveDirect(u, c)
  <2>1. Alive(c) /\ role' = [role EXCEPT ![c][u] = "none"] /\ UNCHANGED <<chats, threads>>
    BY <1>3 DEF LeaveDirect, Alive, Kinds
  <2>2. \A d \in ChatIds : Alive(d) \/ role'[d] = role[d]
    BY <2>1 DEF RoomsInv, Typed
  <2>3. role' \in [ChatIds -> [Users -> Roles]]
    BY <2>1 DEF RoomsInv, Typed, Roles
  <2>4. Shaped'
    BY <2>1, <2>2, RowsKept, ThreadsTyped DEF RoomsInv
  <2>5. Typed'
    BY <1>1, <2>1, <2>3 DEF RoomsInv, Typed
  <2> QED  BY <2>4, <2>5 DEF RoomsInv
<1> QED  BY <1>2, <1>3 DEF DeleteChat

LEMMA DeleteForEveryoneStep ==
  ASSUME RoomsInv, NEW q \in Requests, NEW u \in Users, NEW c \in ChatIds, DeleteChatForEveryone(q, u, c)
  PROVE  RoomsInv'
BY StartsCounts, OnlyReads DEF RoomsInv, Typed, DeleteChatForEveryone

LEMMA InitRooms == Init => RoomsInv
<1> SUFFICES ASSUME Init PROVE RoomsInv
  OBVIOUS
<1>1. /\ threads \in [ChatIds -> [Roots -> 0 .. MaxChats]] /\ \A c \in ChatIds, r \in Roots : threads[c][r] = 0
      /\ reqs \in [Requests -> InHand] /\ told \in [Users -> SUBSET ChatIds]
      /\ clashed \in BOOLEAN /\ ops \in 0 .. MaxOps
  <2>1. 0 \in 0 .. MaxChats /\ 0 \in 0 .. MaxOps
    BY RoomsAssumption
  <2>2. threads \in [ChatIds -> [Roots -> 0 .. MaxChats]] /\ \A c \in ChatIds, r \in Roots : threads[c][r] = 0
    BY <2>1 DEF Init
  <2>3. reqs \in [Requests -> InHand] /\ told \in [Users -> SUBSET ChatIds]
    BY IdleInHand DEF Init
  <2> QED  BY <2>1, <2>2, <2>3 DEF Init
<1>2. CASE chats = Empty /\ role = [c \in ChatIds |-> NoRoles]
  <2>1. \A c \in ChatIds : chats[c] = Unborn /\ role[c] = NoRoles
    BY <1>2 DEF Empty
  <2>2. Typed
    BY <1>1, <1>2, UnbornRow, NoRolesTyped DEF Typed, Empty
  <2>3. Shaped
    BY <1>1, <2>1, UnbornRow DEF Shaped, DepthByKind, NobodyInDeadChats, ThreadsPointBack
  <2> QED  BY <2>2, <2>3 DEF RoomsInv
<1>3. CASE \E u \in Users, counter \in {0, 2}, t \in {2, 3} :
             /\ MaxChats >= 2 /\ MaxTopic >= 3
             /\ chats = Legacy(u, counter, t)
             /\ role = [c \in ChatIds |-> IF c <= 2 THEN OwnedBy(u) ELSE NoRoles]
  <2>1. PICK u \in Users, counter \in {0, 2}, t \in {2, 3} :
             /\ MaxChats >= 2 /\ MaxTopic >= 3
             /\ chats = Legacy(u, counter, t)
             /\ role = [c \in ChatIds |-> IF c <= 2 THEN OwnedBy(u) ELSE NoRoles]
    BY <1>3
  <2> DEFINE Made(k) == [[Unborn EXCEPT !.kind = k] EXCEPT !.by = u]
  <2>2. /\ 1 \in ChatIds /\ 2 \in ChatIds /\ counter \in 0 .. MaxTopic + 1 /\ t \in 0 .. MaxTopic
        /\ 1 \in 0 .. MaxChats
    BY <2>1, RoomsAssumption DEF ChatIds
  <2>3. /\ chats[1] = [Made("group") EXCEPT !.next = counter]
        /\ chats[2] = [[Made("channel") EXCEPT !.parent = 1] EXCEPT !.topic = t]
        /\ \A c \in ChatIds : c # 1 /\ c # 2 => chats[c] = Unborn
        /\ chats = [c \in ChatIds |-> chats[c]]
    BY <2>1, <2>2 DEF Legacy
  <2>4. \A k \in Kinds : Made(k) \in RowTypes
    BY UnbornRow, RowEdits
  <2>5. "group" \in Kinds /\ "channel" \in Kinds
    BY DEF Kinds
  <2>6. /\ chats[1].kind = "group" /\ chats[1].parent = 0
        /\ chats[2].kind = "channel" /\ chats[2].parent = 1
    BY <2>3 DEF Unborn
  <2> HIDE DEF Made
  <2>7. chats[1] \in RowTypes
    BY <2>2, <2>3, <2>4, <2>5, RowEdits
  <2>8. chats[2] \in RowTypes
    <3>1. [Made("channel") EXCEPT !.parent = 1] \in RowTypes
      BY <2>2, <2>4, <2>5, RowEdits
    <3> QED  BY <2>2, <2>3, <3>1, RowEdits
  <2>9. chats \in [ChatIds -> RowTypes]
    BY <2>3, <2>7, <2>8, UnbornRow
  <2>10. role \in [ChatIds -> [Users -> Roles]] /\ \A c \in ChatIds : c # 1 /\ c # 2 => role[c] = NoRoles
    <3>1. OwnedBy(u) \in [Users -> Roles]
      BY DEF OwnedBy, Roles
    <3>2. \A c \in ChatIds : c <= 2 => c = 1 \/ c = 2
      BY RoomsAssumption DEF ChatIds
    <3> QED  BY <2>1, <3>1, <3>2, NoRolesTyped
  <2>11. Typed
    BY <1>1, <2>9, <2>10 DEF Typed
  <2>12. DepthByKind
    BY <2>2, <2>3, <2>6, UnbornRow DEF DepthByKind, TakesComments
  <2>13. NobodyInDeadChats
    BY <2>5, <2>6, <2>10 DEF NobodyInDeadChats, Alive
  <2>14. Shaped
    BY <1>1, <2>12, <2>13 DEF Shaped, ThreadsPointBack
  <2> QED  BY <2>11, <2>14 DEF RoomsInv
<1> QED  BY <1>2, <1>3 DEF Init

LEMMA StandStill == ASSUME RoomsInv, UNCHANGED vars PROVE RoomsInv'
BY OnlyReads DEF RoomsInv, Typed, Reads, vars

\* What a request is, one action for each.
LEMMA RequestIs ==
  ASSUME NEW q \in Requests, Begins(q) \/ GoesOn(q)
  PROVE  \/ MakeSaved(q) \/ FindAgain(q) \/ MakeDirect(q) \/ MakeTopic(q) \/ WriteChat(q) \/ MakeThread(q)
         \/ \E u \in Users :
              \/ EnsureSavedChat(q, u) \/ \E v \in Users : FindDirectChat(q, u, v)
              \/ \E members \in SUBSET (Users \ {u}) : CreateGroup(q, u, members)
              \/ \E g \in ChatIds : CreateChannel(q, u, g)
              \/ \E g \in ChatIds, c \in ChatIds : DeleteChannel(q, u, g, c)
              \/ \E c \in ChatIds : DeleteChat(q, u, c) \/ DeleteChatForEveryone(q, u, c)
              \/ \E c \in ChatIds, public \in {"keep", "on", "off"}, s \in Slugs \cup {"keep", "none"} :
                   UpdateChat(q, u, c, public, s)
              \/ \E public \in BOOLEAN, s \in Slugs \cup {"none"} : CreatePublicChannel(q, u, public, s)
              \/ \E c \in ChatIds, r \in Roots : GetOrCreateCommentThread(q, u, c, r)
<1>1. CASE GoesOn(q)
  BY <1>1 DEF GoesOn
<1>2. CASE Begins(q)
  <2>1. PICK u \in Users : \/ ChatsRoute(q, u) \/ DirectRoutes(q, u) \/ TopicRoutes(q, u)
                           \/ ChatRoute(q, u) \/ ChannelsRoute(q, u) \/ ThreadRoute(q, u)
    BY <1>2 DEF Begins
  <2>2. CASE ChatsRoute(q, u)
    BY <2>2 DEF ChatsRoute, ListChats, CreateChat
  <2>3. CASE DirectRoutes(q, u)
    BY <2>3 DEF DirectRoutes, OpenDirectChat, CreateDirectMessage
  <2>4. CASE TopicRoutes(q, u)
    BY <2>4 DEF TopicRoutes
  <2>5. CASE ChatRoute(q, u)
    BY <2>5 DEF ChatRoute
  <2>6. CASE ChannelsRoute(q, u)
    BY <2>6 DEF ChannelsRoute
  <2>7. CASE ThreadRoute(q, u)
    BY <2>7 DEF ThreadRoute
  <2> QED  BY <2>1, <2>2, <2>3, <2>4, <2>5, <2>6, <2>7
<1> QED  BY <1>1, <1>2

LEMMA RoomsStep ==
  ASSUME RoomsInv, [Next]_vars
  PROVE  RoomsInv'
<1>1. CASE UNCHANGED vars
  BY <1>1, StandStill
<1>2. ASSUME NEW q \in Requests, Begins(q) \/ GoesOn(q) PROVE RoomsInv'
  <2>1. CASE \/ MakeSaved(q) \/ FindAgain(q) \/ MakeDirect(q) \/ MakeTopic(q) \/ WriteChat(q) \/ MakeThread(q)
    BY <2>1, MakeSavedStep, FindAgainStep, MakeDirectStep, MakeTopicStep, WriteChatStep, MakeThreadStep
  <2>2. CASE ~ ( \/ MakeSaved(q) \/ FindAgain(q) \/ MakeDirect(q) \/ MakeTopic(q) \/ WriteChat(q)
                 \/ MakeThread(q) )
    BY <1>2, <2>2, RequestIs, EnsureSavedStep, FindDirectStep, CreateGroupStep, CreateChannelStep, DeleteChannelStep,
       DeleteChatStep, DeleteForEveryoneStep, UpdateChatStep, CreatePublicStep, GetThreadStep
  <2> QED  BY <2>1, <2>2
<1> QED  BY <1>1, <1>2 DEF Next

LEMMA RoomsTyped == RoomsInv => TypeOK
<1> SUFFICES ASSUME RoomsInv PROVE TypeOK
  OBVIOUS
<1>1. \A c \in ChatIds : chats[c].parent # 0 => Alive(chats[c].parent)
  BY DEF RoomsInv, Shaped, DepthByKind, TakesComments, Alive, Kinds
<1>2. reqs \in [Requests -> RequestTypes]
  BY DEF RoomsInv, Typed, InHand
<1> QED  BY <1>1, <1>2 DEF RoomsInv, Shaped, Typed, NobodyInDeadChats, ThreadsPointBack, TypeOK, Roles

\* Every row is typed, and no topic, thread or seat is left behind by a chat that is deleted
\* (the foreign keys of chats, chat_members and comment_threads).
THEOREM NothingOutlivesItsChat == Spec => []TypeOK
<1>1. RoomsInv /\ [Next]_vars => RoomsInv'
  BY RoomsStep
<1> QED  BY <1>1, InitRooms, RoomsTyped, PTL DEF Spec
-----------------------------------------------------------------------------
(* What most requests leave alone: topics and the counters of groups, the   *)
(* self-chats, and the requests that are about either.                      *)

TopicsUntouched ==
  /\ \A c \in ChatIds : chats'[c].kind = "channel" =>
       /\ chats[c].kind = "channel"
       /\ chats'[c].parent = chats[c].parent /\ chats'[c].topic = chats[c].topic
  /\ \A c \in ChatIds : chats'[c].kind = "group" /\ chats[c].kind = "group" =>
       chats'[c].next = chats[c].next

SelfChatsUntouched ==
  \A c \in ChatIds : chats'[c].kind = "saved" \/ chats[c].kind = "saved" =>
    /\ chats'[c].kind = "saved" /\ chats[c].kind = "saved"
    /\ chats'[c].by = chats[c].by /\ role'[c] = role[c]

NoneOfThem(r) == r.at \notin {"findAgain", "makeTopic"}

Aside ==
  /\ TopicsUntouched /\ SelfChatsUntouched /\ UNCHANGED <<told, clashed>>
  /\ \A r \in Requests : NoneOfThem(reqs'[r]) \/ reqs'[r] = reqs[r]

LEMMA ReadsAside == Reads => TopicsUntouched /\ SelfChatsUntouched
BY DEF Reads, TopicsUntouched, SelfChatsUntouched

LEMMA InsertAside ==
  ASSUME RoomsInv, RoomLeft, NEW n, n = NextId, NEW row \in RowTypes, NEW members \in [Users -> Roles],
         Insert(n, row, members)
  PROVE  /\ row.kind # "channel" => TopicsUntouched
         /\ row.kind # "saved" => SelfChatsUntouched
<1>1. /\ n \in ChatIds /\ chats[n].kind = "unborn"
      /\ \A c \in ChatIds \ {n} : chats'[c] = chats[c] /\ role'[c] = role[c]
      /\ chats'[n] = row
  BY Inserted DEF RoomsInv
<1> QED  BY <1>1 DEF TopicsUntouched, SelfChatsUntouched

LEMMA DeleteAside ==
  ASSUME RoomsInv, NEW c \in ChatIds, chats[c].kind # "saved", Delete({c} \cup Below(c))
  PROVE  TopicsUntouched /\ SelfChatsUntouched
<1>1. PICK S : S = {c} \cup Below(c)
  OBVIOUS
<1>2. ASSUME NEW d \in ChatIds, chats[d].kind = "saved" PROVE d \notin S
  <2>1. chats[d].parent = 0
    BY <1>2 DEF RoomsInv, Shaped, DepthByKind
  <2>2. 0 \notin ChatIds
    BY RoomsAssumption DEF ChatIds
  <2> QED  BY <1>1, <1>2, <2>1, <2>2 DEF Below
<1>3. \A d \in ChatIds : chats'[d] = IF d \in S THEN Gone ELSE chats[d]
  BY <1>1 DEF Delete
<1>4. \A d \in ChatIds : role'[d] = IF d \in S THEN NoRoles ELSE role[d]
  BY <1>1 DEF Delete
<1>5. Gone.kind = "gone"
  BY GoneRow
<1> QED  BY <1>2, <1>3, <1>4, <1>5 DEF TopicsUntouched, SelfChatsUntouched

LEMMA WriteAside ==
  ASSUME RoomsInv, NEW q \in Requests, WriteChat(q)
  PROVE  TopicsUntouched /\ SelfChatsUntouched
BY WriteChatIs DEF RoomsInv, TopicsUntouched, SelfChatsUntouched, WriteChat

LEMMA AnswersAside ==
  ASSUME Typed, NEW q \in Requests, Answers(q)
  PROVE  \A r \in Requests : NoneOfThem(reqs'[r]) \/ reqs'[r] = reqs[r]
BY IdleInHand DEF Answers, Typed, NoneOfThem

LEMMA WaitsAside ==
  ASSUME Typed, NEW q \in Requests, NEW r, NoneOfThem(r), reqs' = [reqs EXCEPT ![q] = r]
  PROVE  \A p \in Requests : NoneOfThem(reqs'[p]) \/ reqs'[p] = reqs[p]
BY DEF Typed

\* A step is aside, or of a self-chat or a topic.
LEMMA StepIsAside ==
  ASSUME RoomsInv, [Next]_vars
  PROVE  \/ Aside
         \/ \E q \in Requests :
              \/ MakeSaved(q) \/ FindAgain(q) \/ MakeTopic(q)
              \/ \E u \in Users : EnsureSavedChat(q, u)
              \/ \E u \in Users, g \in ChatIds : CreateChannel(q, u, g)
<1>1. CASE UNCHANGED vars
  BY <1>1, ReadsAside DEF Aside, Reads, vars
<1>2. ASSUME NEW q \in Requests, MakeDirect(q) PROVE Aside
  <2>1. PICK u \in Users, v \in Users \cup {Nobody} : u = reqs[q].me /\ v = reqs[q].other
    <3>1. reqs[q].other \in Users \cup {Nobody}
      BY DEF RoomsInv, Typed, InHand, RequestTypes
    <3> QED  BY <1>2, <3>1, InHandIs DEF MakeDirect, RoomsInv
  <2>2. PICK m : m = [NoRoles EXCEPT ![u] = "member", ![v] = "member"]
    OBVIOUS
  <2>3. m \in [Users -> Roles]
    BY <2>2, NoRolesTyped DEF Roles
  <2>4. PICK n : n = NextId
    OBVIOUS
  <2>5. Insert(n, DirectRow(u), m) /\ RoomLeft
    BY <1>2, <2>1, <2>2, <2>4 DEF MakeDirect
  <2>6. DirectRow(u) \in RowTypes /\ DirectRow(u).kind = "direct"
    BY RowsHaveTypes, RowsSay
  <2>7. TopicsUntouched /\ SelfChatsUntouched
    BY <2>3, <2>4, <2>5, <2>6, InsertAside
  <2> QED  BY <1>2, <2>7, AnswersAside DEF Aside, MakeDirect, RoomsInv
<1>3. ASSUME NEW q \in Requests, WriteChat(q) PROVE Aside
  BY <1>3, WriteAside, AnswersAside DEF Aside, WriteChat, RoomsInv
<1>4. ASSUME NEW q \in Requests, MakeThread(q) PROVE Aside
  <2>1. CASE Reads
    BY <1>4, <2>1, ReadsAside, AnswersAside DEF Aside, MakeThread, RoomsInv
  <2>2. CASE ~Reads
    <3>1. PICK c \in ChatIds, u \in Users \cup {Nobody} : c = reqs[q].chat /\ u = reqs[q].me
      BY <1>4, InHandIs DEF MakeThread, RoomsInv
    <3>2. PICK n : n = NextId
      OBVIOUS
    <3>3. RoomLeft /\ Insert(n, ThreadRow(u, c), NoRoles)
      BY <1>4, <2>2, <3>1, <3>2 DEF MakeThread
    <3>4. c \in 0 .. MaxChats
      BY RoomsAssumption DEF ChatIds
    <3>5. ThreadRow(u, c) \in RowTypes /\ ThreadRow(u, c).kind = "comment_thread"
      BY <3>4, RowsHaveTypes, RowsSay
    <3>6. TopicsUntouched /\ SelfChatsUntouched
      BY <3>2, <3>3, <3>5, NoRolesTyped, InsertAside
    <3> QED  BY <1>4, <3>6, AnswersAside DEF Aside, MakeThread, RoomsInv
  <2> QED  BY <2>1, <2>2
<1>5. ASSUME NEW q \in Requests, NEW u \in Users, NEW v \in Users, FindDirectChat(q, u, v) PROVE Aside
  <2>1. PICK r : NoneOfThem(r) /\ reqs' = [reqs EXCEPT ![q] = r]
    <3>1. NoneOfThem(Idle) /\ NoneOfThem([Idle EXCEPT !.at = "makeDirect", !.me = u, !.other = v])
      BY DEF Idle, NoneOfThem
    <3> QED  BY <1>5, <3>1 DEF FindDirectChat
  <2>2. \A p \in Requests : NoneOfThem(reqs'[p]) \/ reqs'[p] = reqs[p]
    BY <2>1, WaitsAside DEF RoomsInv
  <2> QED  BY <1>5, <2>2, ReadsAside DEF Aside, FindDirectChat
<1>6. ASSUME NEW q \in Requests, NEW u \in Users, NEW members, CreateGroup(q, u, members) PROVE Aside
  <2>1. PICK m : m = [v \in Users |-> IF v = u THEN "owner" ELSE IF v \in members THEN "member" ELSE "none"]
    OBVIOUS
  <2>2. m \in [Users -> Roles]
    BY <2>1 DEF Roles
  <2>3. PICK n : n = NextId
    OBVIOUS
  <2>4. Insert(n, GroupRow(u), m) /\ RoomLeft
    BY <1>6, <2>1, <2>3 DEF CreateGroup
  <2>5. GroupRow(u) \in RowTypes /\ GroupRow(u).kind = "group"
    BY RowsHaveTypes, RowsSay
  <2>6. TopicsUntouched /\ SelfChatsUntouched
    BY <2>2, <2>3, <2>4, <2>5, InsertAside
  <2> QED  BY <1>6, <2>6 DEF Aside, CreateGroup
<1>7. ASSUME NEW q \in Requests, NEW u \in Users, NEW g \in ChatIds, NEW c \in ChatIds,
             DeleteChannel(q, u, g, c)
      PROVE  Aside
  <2>1. chats[c].kind # "saved" /\ Delete({c} \cup Below(c))
    BY <1>7 DEF DeleteChannel, DeleteTopic
  <2> QED  BY <1>7, <2>1, DeleteAside DEF Aside, DeleteChannel
<1>8. ASSUME NEW q \in Requests, NEW u \in Users, NEW c \in ChatIds, DeleteChat(q, u, c) PROVE Aside
  <2>1. CASE DeleteOwned(u, c)
    <3>1. chats[c].kind # "saved" /\ Delete({c} \cup Below(c))
      BY <2>1 DEF DeleteOwned
    <3> QED  BY <1>8, <3>1, DeleteAside DEF Aside, DeleteChat
  <2>2. CASE LeaveDirect(u, c)
    <3>1. chats' = chats /\ chats[c].kind = "direct" /\ role' = [role EXCEPT ![c][u] = "none"]
      BY <2>2 DEF LeaveDirect
    <3>2. \A d \in ChatIds \ {c} : role'[d] = role[d]
      BY <3>1 DEF RoomsInv, Typed
    <3>3. TopicsUntouched /\ SelfChatsUntouched
      BY <3>1, <3>2 DEF TopicsUntouched, SelfChatsUntouched
    <3> QED  BY <1>8, <3>3 DEF Aside, DeleteChat
  <2> QED  BY <1>8, <2>1, <2>2 DEF DeleteChat
<1>9. ASSUME NEW q \in Requests, NEW u \in Users, NEW c \in ChatIds, DeleteChatForEveryone(q, u, c) PROVE Aside
  BY <1>9, ReadsAside DEF Aside, DeleteChatForEveryone
<1>10. ASSUME NEW q \in Requests, NEW u \in Users, NEW c \in ChatIds, NEW public, NEW s,
              UpdateChat(q, u, c, public, s)
       PROVE  Aside
  <2>1. PICK r : r.at = "write" /\ reqs' = [reqs EXCEPT ![q] = r]
    BY <1>10 DEF UpdateChat, Waits, Idle
  <2>2. \A p \in Requests : NoneOfThem(reqs'[p]) \/ reqs'[p] = reqs[p]
    BY <2>1, WaitsAside DEF RoomsInv, NoneOfThem
  <2> QED  BY <1>10, <2>2, ReadsAside DEF Aside, UpdateChat
<1>11. ASSUME NEW q \in Requests, NEW u \in Users, NEW public \in BOOLEAN, NEW s \in Slugs \cup {"none"},
              CreatePublicChannel(q, u, public, s)
       PROVE  Aside
  <2>1. PICK n : n = NextId
    OBVIOUS
  <2>2. PICK m : m = [NoRoles EXCEPT ![u] = "owner"]
    OBVIOUS
  <2>3. m \in [Users -> Roles]
    BY <2>2, NoRolesTyped DEF Roles
  <2>4. Insert(n, ChannelRow(u, public, s), m) /\ RoomLeft
    BY <1>11, <2>1, <2>2 DEF CreatePublicChannel
  <2>5. ChannelRow(u, public, s) \in RowTypes
    BY RowsHaveTypes
  <2>6. ChannelRow(u, public, s).kind = "standalone_channel"
    BY RowsSay
  <2>7. TopicsUntouched /\ SelfChatsUntouched
    BY <2>1, <2>3, <2>4, <2>5, <2>6, InsertAside
  <2> QED  BY <1>11, <2>7 DEF Aside, CreatePublicChannel
<1>12. ASSUME NEW q \in Requests, NEW u \in Users, NEW c \in ChatIds, NEW r \in Roots,
              GetOrCreateCommentThread(q, u, c, r)
       PROVE  Aside
  <2>1. PICK p : NoneOfThem(p) /\ reqs' = [reqs EXCEPT ![q] = p]
    <3>1. /\ NoneOfThem(Idle)
          /\ NoneOfThem([Idle EXCEPT !.at = "makeThread", !.me = u, !.chat = c, !.root = r])
      BY DEF Idle, NoneOfThem
    <3> QED  BY <1>12, <3>1 DEF GetOrCreateCommentThread
  <2>2. \A o \in Requests : NoneOfThem(reqs'[o]) \/ reqs'[o] = reqs[o]
    BY <2>1, WaitsAside DEF RoomsInv
  <2> QED  BY <1>12, <2>2, ReadsAside DEF Aside, GetOrCreateCommentThread
<1>13. ASSUME NEW q \in Requests, Begins(q) \/ GoesOn(q),
              ~(\/ MakeSaved(q) \/ FindAgain(q) \/ MakeTopic(q)
                \/ \E u \in Users : EnsureSavedChat(q, u)
                \/ \E u \in Users, g \in ChatIds : CreateChannel(q, u, g))
       PROVE  Aside
  BY <1>13, RequestIs, <1>2, <1>3, <1>4, <1>5, <1>6, <1>7, <1>8, <1>9, <1>10, <1>11, <1>12
<1> QED  BY <1>1, <1>13 DEF Next
-----------------------------------------------------------------------------
(* Self-chats. *)

SavedInv == RoomsInv /\ OneSelfChat

\* The self-chats of a user are those he made.
LEMMA SavedOfIs ==
  ASSUME SavedInv, NEW u \in Users
  PROVE  SavedOf(u) = {c \in ChatIds : chats[c].kind = "saved" /\ chats[c].by = u}
<1>1. ASSUME NEW c \in ChatIds, chats[c].kind = "saved"
      PROVE  role[c][u] # "none" <=> chats[c].by = u
  <2>1. Members(c) = {chats[c].by}
    BY <1>1 DEF SavedInv, OneSelfChat
  <2>2. u \in Members(c) <=> role[c][u] # "none"
    BY DEF Members
  <2> QED  BY <2>1, <2>2
<1> QED  BY <1>1 DEF SavedOf

LEMMA SavedStandsAside ==
  ASSUME SavedInv, SelfChatsUntouched, told' = told,
         \A q \in Requests : reqs'[q].at = "findAgain" => reqs'[q] = reqs[q]
  PROVE  OneSelfChat'
<1>1. \A c \in ChatIds : chats'[c].kind = "saved" =>
        chats'[c].by \in Users /\ {u \in Users : role'[c][u] # "none"} = {chats'[c].by}
  BY DEF SelfChatsUntouched, SavedInv, OneSelfChat, Members
<1>2. \A c, d \in ChatIds :
        chats'[c].kind = "saved" /\ chats'[d].kind = "saved" /\ chats'[c].by = chats'[d].by => c = d
  BY DEF SelfChatsUntouched, SavedInv, OneSelfChat
<1>3. ASSUME NEW q \in Requests, reqs'[q].at = "findAgain"
      PROVE  \E c \in ChatIds : chats'[c].kind = "saved" /\ chats'[c].by = reqs'[q].me
  BY <1>3 DEF SelfChatsUntouched, SavedInv, OneSelfChat, SavedTaken
<1>4. ASSUME NEW u \in Users, NEW c \in told'[u]
      PROVE  c \in ChatIds /\ chats'[c].kind = "saved" /\ role'[c][u] # "none"
  <2>1. c \in SavedOf(u)
    BY <1>4 DEF SavedInv, OneSelfChat
  <2> QED  BY <2>1 DEF SavedOf, SelfChatsUntouched
<1> QED  BY <1>1, <1>2, <1>3, <1>4 DEF OneSelfChat, Members, SavedTaken, SavedOf

LEMMA InitSaved == Init => OneSelfChat
<1> SUFFICES ASSUME Init PROVE OneSelfChat
  OBVIOUS
<1>1. \A c \in ChatIds : chats[c].kind # "saved"
  <2>1. CASE chats = Empty
    BY <2>1, UnbornRow DEF Empty
  <2>2. ASSUME NEW u, NEW counter, NEW t, chats = Legacy(u, counter, t)
        PROVE  \A c \in ChatIds : chats[c].kind # "saved"
    BY <2>2, UnbornRow DEF Legacy, Unborn
  <2> QED  BY <2>1, <2>2 DEF Init
<1>2. /\ \A u \in Users : told[u] = {}
      /\ \A q \in Requests : reqs[q].at = "idle"
  BY IdleInHand DEF Init
<1> QED  BY <1>1, <1>2 DEF OneSelfChat

\* What a request is given is a self-chat of who asks.
LEMMA GivenWhatIsFound ==
  ASSUME SavedInv, NEW u \in Users, Give(u, SavedOf(u))
  PROVE  \A v \in Users : told'[v] \subseteq SavedOf(v)
BY DEF SavedInv, OneSelfChat, RoomsInv, Typed, Give

LEMMA SavedReads ==
  ASSUME SavedInv, Reads, \A v \in Users : told'[v] \subseteq SavedOf(v),
         \A q \in Requests : reqs'[q].at = "findAgain" => SavedTaken(reqs'[q].me)
  PROVE  OneSelfChat'
BY DEF SavedInv, OneSelfChat, Reads, SavedOf, SavedTaken, Members

LEMMA EnsureKeepsOne ==
  ASSUME SavedInv, NEW q \in Requests, NEW u \in Users, EnsureSavedChat(q, u)
  PROVE  OneSelfChat'
<1>1. \A v \in Users : told'[v] \subseteq SavedOf(v)
  BY GivenWhatIsFound DEF EnsureSavedChat, SavedInv, OneSelfChat
<1>2. \A p \in Requests : reqs'[p].at = "findAgain" => reqs'[p] = reqs[p]
  <2>1. [[Idle EXCEPT !.me = u] EXCEPT !.at = "makeSaved"].at = "makeSaved"
    BY DEF Idle
  <2> QED  BY <2>1 DEF EnsureSavedChat, Waits, SavedInv, RoomsInv, Typed
<1>3. \A p \in Requests : reqs'[p].at = "findAgain" => SavedTaken(reqs'[p].me)
  BY <1>2 DEF SavedInv, OneSelfChat
<1> QED  BY <1>1, <1>3, SavedReads DEF EnsureSavedChat

LEMMA FindKeepsOne ==
  ASSUME SavedInv, NEW q \in Requests, FindAgain(q)
  PROVE  OneSelfChat' /\ clashed' = clashed
<1>1. PICK u \in Users : u = reqs[q].me
  BY InHandIs DEF FindAgain, SavedInv, RoomsInv
<1>2. Give(u, SavedOf(u)) /\ Reads /\ Answers(q)
  BY <1>1 DEF FindAgain
<1>3. \A v \in Users : told'[v] \subseteq SavedOf(v)
  BY <1>2, GivenWhatIsFound
<1>4. \A p \in Requests : reqs'[p].at = "findAgain" => reqs'[p] = reqs[p]
  BY <1>2, IdleInHand DEF Answers, SavedInv, RoomsInv, Typed
<1>5. \A p \in Requests : reqs'[p].at = "findAgain" => SavedTaken(reqs'[p].me)
  BY <1>4 DEF SavedInv, OneSelfChat
<1>6. OneSelfChat'
  BY <1>2, <1>3, <1>5, SavedReads
<1>7. SavedTaken(u)
  BY <1>1 DEF FindAgain, SavedInv, OneSelfChat
<1>8. SavedOf(u) # {}
  BY <1>7, SavedOfIs DEF SavedTaken
<1>9. clashed' = clashed
  BY <1>1, <1>8 DEF FindAgain, SavedInv, RoomsInv, Typed
<1> QED  BY <1>6, <1>9

LEMMA MakeKeepsOne ==
  ASSUME SavedInv, NEW q \in Requests, MakeSaved(q)
  PROVE  OneSelfChat'
<1>1. PICK u \in Users : u = reqs[q].me
  BY InHandIs DEF MakeSaved, SavedInv, RoomsInv
<1>2. CASE SavedTaken(u) /\ Waits(q, "findAgain", reqs[q]) /\ UNCHANGED <<chats, role, told>>
  <2>1. reqs[q] \in RequestTypes
    BY InHandIs DEF SavedInv, RoomsInv, InHand
  <2>2. [reqs[q] EXCEPT !.at = "findAgain"].me = u
    BY <1>1, <2>1 DEF RequestTypes
  <2>3. \A p \in Requests : reqs'[p] = reqs[p] \/ reqs'[p].me = u
    BY <1>2, <2>2 DEF Waits, SavedInv, RoomsInv, Typed
  <2>4. \A p \in Requests : reqs'[p].at = "findAgain" => SavedTaken(reqs'[p].me)
    BY <1>2, <2>3 DEF SavedInv, OneSelfChat
  <2>5. Reads
    BY <1>2 DEF Reads, MakeSaved
  <2> QED  BY <1>2, <2>4, <2>5, SavedReads DEF SavedInv, OneSelfChat
<1>3. CASE ~SavedTaken(u) /\ RoomLeft /\ Insert(NextId, SavedRow(u), [NoRoles EXCEPT ![u] = "owner"])
             /\ Give(u, {NextId}) /\ Answers(q)
  <2>1. PICK n : n = NextId
    OBVIOUS
  <2>2. PICK m : m = [NoRoles EXCEPT ![u] = "owner"]
    OBVIOUS
  <2>3. m \in [Users -> Roles] /\ {v \in Users : m[v] # "none"} = {u}
    BY <2>2, NoRolesTyped DEF Roles, NoRoles
  <2>4. SavedRow(u) \in RowTypes
    BY RowsHaveTypes
  <2>5. SavedRow(u).kind = "saved" /\ SavedRow(u).by = u
    BY RowsSay
  <2>6. Insert(n, SavedRow(u), m)
    BY <1>3, <2>1, <2>2
  <2>7. /\ n \in ChatIds /\ chats[n].kind = "unborn"
        /\ \A c \in ChatIds \ {n} : chats'[c] = chats[c] /\ role'[c] = role[c]
        /\ chats'[n] = SavedRow(u) /\ role'[n] = m
    BY <1>3, <2>1, <2>3, <2>4, <2>6, Inserted DEF SavedInv, RoomsInv
  <2>8. \A c \in ChatIds : chats'[c].kind = "saved" =>
          chats'[c].by \in Users /\ {v \in Users : role'[c][v] # "none"} = {chats'[c].by}
    BY <2>3, <2>5, <2>7 DEF SavedInv, OneSelfChat, Members
  <2>9. \A c \in ChatIds \ {n} : chats[c].kind = "saved" => chats[c].by # u
    BY <1>3 DEF SavedTaken
  <2>10. \A c, d \in ChatIds :
           chats'[c].kind = "saved" /\ chats'[d].kind = "saved" /\ chats'[c].by = chats'[d].by => c = d
    BY <2>5, <2>7, <2>9 DEF SavedInv, OneSelfChat
  <2>11. ASSUME NEW p \in Requests, reqs'[p].at = "findAgain"
         PROVE  \E c \in ChatIds : chats'[c].kind = "saved" /\ chats'[c].by = reqs'[p].me
    <3>1. reqs'[p] = reqs[p]
      BY <1>3, <2>11, IdleInHand DEF Answers, SavedInv, RoomsInv, Typed
    <3>2. PICK c \in ChatIds : chats[c].kind = "saved" /\ chats[c].by = reqs[p].me
      BY <2>11, <3>1 DEF SavedInv, OneSelfChat, SavedTaken
    <3>3. c # n
      BY <2>7, <3>2
    <3> QED  BY <2>7, <3>1, <3>2, <3>3
  <2>12. ASSUME NEW v \in Users, NEW c \in told'[v]
         PROVE  c \in ChatIds /\ chats'[c].kind = "saved" /\ role'[c][v] # "none"
    <3>1. CASE c \in told[v]
      <4>1. c \in ChatIds /\ chats[c].kind = "saved" /\ role[c][v] # "none"
        BY <3>1 DEF SavedInv, OneSelfChat, SavedOf
      <4>2. c # n
        BY <2>7, <4>1
      <4> QED  BY <2>7, <4>1, <4>2
    <3>2. CASE c \notin told[v]
      <4>1. c = n /\ v = u
        BY <1>3, <2>1, <2>12, <3>2 DEF Give, SavedInv, RoomsInv, Typed
      <4> QED  BY <2>3, <2>5, <2>7, <4>1
    <3> QED  BY <3>1, <3>2
  <2> QED  BY <2>8, <2>10, <2>11, <2>12 DEF OneSelfChat, Members, SavedTaken, SavedOf
<1> QED  BY <1>1, <1>2, <1>3 DEF MakeSaved

\* The rows a new topic touches are no self-chats.
LEMMA TopicsLeaveSelfChats ==
  ASSUME SavedInv, NEW q \in Requests, MakeTopic(q)
  PROVE  OneSelfChat'
<1>1. SelfChatsUntouched
  <2>1. CASE UNCHANGED <<chats, role>>
    BY <2>1 DEF SelfChatsUntouched
  <2>2. CASE ~UNCHANGED <<chats, role>>
    <3>1. PICK g \in ChatIds, n \in ChatIds, t \in 0 .. MaxTopic :
            /\ g # n /\ chats[g].kind = "group" /\ chats[n].kind = "unborn"
            /\ chats'[n] = TopicRow(reqs[q].me, g, t)
            /\ chats'[g] = [chats[g] EXCEPT !.next = t + 1]
            /\ \A c \in ChatIds \ {n, g} : chats'[c] = chats[c]
            /\ role' = [role EXCEPT ![n] = role[g]]
      BY <2>2, MakeTopicIs DEF SavedInv, RoomsInv
    <3>2. chats'[n].kind = "channel"
      BY <3>1, RowsSay
    <3>3. chats'[g].kind = "group"
      BY <3>1 DEF SavedInv, RoomsInv, Typed, RowTypes
    <3>4. \A c \in ChatIds \ {n} : role'[c] = role[c]
      BY <3>1 DEF SavedInv, RoomsInv, Typed
    <3> QED  BY <3>1, <3>2, <3>3, <3>4 DEF SelfChatsUntouched
  <2> QED  BY <2>1, <2>2
<1>2. told' = told /\ \A p \in Requests : reqs'[p].at = "findAgain" => reqs'[p] = reqs[p]
  BY IdleInHand DEF MakeTopic, Answers, SavedInv, RoomsInv, Typed
<1> QED  BY <1>1, <1>2, SavedStandsAside

LEMMA CreateLeavesSelfChats ==
  ASSUME SavedInv, NEW q \in Requests, NEW u, NEW g, CreateChannel(q, u, g)
  PROVE  OneSelfChat'
<1>1. PICK r : r.at = "makeTopic" /\ reqs' = [reqs EXCEPT ![q] = r]
  BY DEF CreateChannel, Waits, Idle
<1>2. \A p \in Requests : reqs'[p].at = "findAgain" => reqs'[p] = reqs[p]
  BY <1>1 DEF SavedInv, RoomsInv, Typed
<1> QED  BY <1>2, ReadsAside, SavedStandsAside DEF CreateChannel

LEMMA SavedStep ==
  ASSUME SavedInv, [Next]_vars
  PROVE  SavedInv'
<1>1. RoomsInv'
  BY RoomsStep DEF SavedInv
<1>2. CASE Aside
  <2>1. \A p \in Requests : reqs'[p].at = "findAgain" => reqs'[p] = reqs[p]
    BY <1>2 DEF Aside, NoneOfThem
  <2> QED  BY <1>1, <1>2, <2>1, SavedStandsAside DEF Aside, SavedInv
<1>3. CASE ~Aside
  BY <1>1, <1>3, StepIsAside, MakeKeepsOne, FindKeepsOne, EnsureKeepsOne, TopicsLeaveSelfChats,
     CreateLeavesSelfChats DEF SavedInv
<1> QED  BY <1>2, <1>3

LEMMA OneAnswerForAll == SavedInv => SavedAgree
<1> SUFFICES ASSUME SavedInv, NEW u \in Users, told[u] # {}
             PROVE  \E c \in ChatIds : told[u] = {c} /\ chats[c].kind = "saved" /\ Members(c) = {u}
  BY DEF SavedAgree
<1>1. told[u] \subseteq {c \in ChatIds : chats[c].kind = "saved" /\ chats[c].by = u}
  BY SavedOfIs DEF SavedInv, OneSelfChat
<1>2. PICK c \in ChatIds : c \in told[u] /\ chats[c].kind = "saved" /\ chats[c].by = u
  BY <1>1
<1>3. \A d \in told[u] : d = c
  BY <1>1, <1>2 DEF SavedInv, OneSelfChat
<1>4. Members(c) = {u}
  BY <1>2 DEF SavedInv, OneSelfChat
<1> QED  BY <1>2, <1>3, <1>4

\* All the requests of a user that race to find or make his self-chat are answered with the
\* same one (ensureSavedChat, uniq_chats_saved_per_user).
THEOREM OneSelfChatEach == Spec => []SavedAgree
<1>1. Init => SavedInv
  BY InitRooms, InitSaved DEF SavedInv
<1>2. SavedInv /\ [Next]_vars => SavedInv'
  BY SavedStep
<1> QED  BY <1>1, <1>2, OneAnswerForAll, PTL DEF Spec
-----------------------------------------------------------------------------
(* Topic numbers. *)

NumbersInv == SavedInv /\ SnapshotOrCounter /\ NobodyClashes

\* A topic is in the group its number is of.
LEMMA TopicIs ==
  ASSUME NEW g, NEW t
  PROVE  t \in TopicsOf(g) <=> \E c \in ChatIds : /\ chats[c].kind = "channel" /\ chats[c].parent = g
                                                  /\ chats[c].topic = t
BY DEF TopicsOf

SnapshotsHold(s) == \A c \in ChatIds : chats[c].kind = "channel" /\ chats[c].parent = s.chat =>
                      chats[c].topic <= s.max \/ chats[c].topic < chats[s.chat].next

LEMMA SnapshotIs ==
  SnapshotOrCounter <=> \A q \in Requests : reqs[q].at = "makeTopic" => SnapshotsHold(reqs[q])
BY TopicIs DEF SnapshotOrCounter, SnapshotsHold

LEMMA SnapshotNext ==
  ASSUME \A q \in Requests : reqs'[q].at = "makeTopic" =>
           \A c \in ChatIds : chats'[c].kind = "channel" /\ chats'[c].parent = reqs'[q].chat =>
             chats'[c].topic <= reqs'[q].max \/ chats'[c].topic < chats'[reqs'[q].chat].next
  PROVE  SnapshotOrCounter'
BY DEF SnapshotOrCounter, TopicsOf

LEMMA TopicsStandAside ==
  ASSUME NumbersInv, RoomsInv', TopicsUntouched,
         \A q \in Requests : reqs'[q].at = "makeTopic" => reqs'[q] = reqs[q]
  PROVE  SnapshotOrCounter'
<1>1. ASSUME NEW q \in Requests, reqs'[q].at = "makeTopic", NEW c \in ChatIds,
             chats'[c].kind = "channel", chats'[c].parent = reqs'[q].chat
      PROVE  chats'[c].topic <= reqs'[q].max \/ chats'[c].topic < chats'[reqs'[q].chat].next
  <2>1. PICK g : g = reqs'[q].chat /\ reqs'[q] = reqs[q]
    BY <1>1
  <2>2. chats[c].kind = "channel" /\ chats[c].parent = g /\ chats'[c].topic = chats[c].topic
    BY <1>1, <2>1 DEF TopicsUntouched
  <2>3. g \in ChatIds /\ chats[g].kind = "group"
    BY <2>2 DEF NumbersInv, SavedInv, RoomsInv, Shaped, DepthByKind
  <2>4. chats'[g].kind = "group"
    BY <1>1, <2>1 DEF RoomsInv, Shaped, DepthByKind
  <2>5. chats'[g].next = chats[g].next
    BY <2>3, <2>4 DEF TopicsUntouched
  <2>6. SnapshotsHold(reqs[q])
    BY <1>1, <2>1, SnapshotIs DEF NumbersInv
  <2> QED  BY <2>1, <2>2, <2>5, <2>6 DEF SnapshotsHold
<1> QED  BY <1>1, SnapshotNext

\* A number above the snapshot and not below the counter is no topic's yet: no request to
\* make one is turned away, and the topics there are keep to one side or the other.
LEMMA MakeKeepsNumbers ==
  ASSUME NumbersInv, NEW q \in Requests, MakeTopic(q)
  PROVE  SnapshotOrCounter' /\ clashed' = clashed
<1>0. PICK g \in ChatIds : g = reqs[q].chat /\ reqs[q].max \in 0 .. MaxTopic
  BY InHandIs DEF MakeTopic, NumbersInv, SavedInv, RoomsInv
<1>1. PICK t : /\ g \in ChatIds /\ g = reqs[q].chat /\ t = TopicFor(g, reqs[q].max)
               /\ reqs[q].max \in 0 .. MaxTopic
  BY <1>0
<1>2. t \in Nat /\ t > reqs[q].max /\ t >= chats[g].next
  BY <1>1, AllocationIs DEF NumbersInv, SavedInv, RoomsInv
<1>3. SnapshotsHold(reqs[q])
  BY SnapshotIs DEF NumbersInv, MakeTopic
<1>4. chats \in [ChatIds -> RowTypes]
  BY DEF NumbersInv, SavedInv, RoomsInv, Typed
<1>5. \A c \in ChatIds : chats[c].topic \in Nat /\ chats[c].next \in Nat
  BY <1>4, RoomsAssumption DEF RowTypes
<1>6. ~TopicTaken(g, t)
  <2> SUFFICES ASSUME NEW c \in ChatIds, chats[c].kind = "channel", chats[c].parent = g, chats[c].topic = t
               PROVE  FALSE
    BY TopicIs DEF TopicTaken
  <2>1. t <= reqs[q].max \/ t < chats[g].next
    BY <1>1, <1>3 DEF SnapshotsHold
  <2> QED  BY <1>1, <1>2, <1>5, <2>1, RoomsAssumption
<1>7. clashed' = clashed
  BY <1>1, <1>6 DEF MakeTopic
<1>8. \A p \in Requests : reqs'[p].at = "makeTopic" => reqs'[p] = reqs[p]
  BY IdleInHand DEF MakeTopic, Answers, NumbersInv, SavedInv, RoomsInv, Typed
<1>9. RoomsInv'
  BY RoomsStep DEF NumbersInv, SavedInv, Next, GoesOn
<1>10. CASE UNCHANGED <<chats, role>>
  BY <1>7, <1>8, <1>9, <1>10, TopicsStandAside DEF TopicsUntouched
<1>11. CASE ~UNCHANGED <<chats, role>>
  <2>1. PICK n \in ChatIds :
          /\ g # n /\ chats[g].kind = "group" /\ chats[n].kind = "unborn"
          /\ chats'[n] = TopicRow(reqs[q].me, g, t)
          /\ chats'[g] = [chats[g] EXCEPT !.next = t + 1]
          /\ \A c \in ChatIds \ {n, g} : chats'[c] = chats[c]
    <3>1. Typed /\ ~UNCHANGED <<chats, role>>
      BY <1>11 DEF NumbersInv, SavedInv, RoomsInv
    <3>2. PICK h \in ChatIds, n \in ChatIds, s \in 0 .. MaxTopic :
            /\ h = reqs[q].chat /\ s = TopicFor(h, reqs[q].max)
            /\ h # n /\ chats[h].kind = "group" /\ chats[n].kind = "unborn"
            /\ chats'[n] = TopicRow(reqs[q].me, h, s)
            /\ chats'[h] = [chats[h] EXCEPT !.next = s + 1]
            /\ \A c \in ChatIds \ {n, h} : chats'[c] = chats[c]
      BY <3>1, MakeTopicIs
    <3> QED  BY <1>1, <3>2
  <2>2. TopicRow(reqs[q].me, g, t).kind = "channel" /\ TopicRow(reqs[q].me, g, t).parent = g
          /\ TopicRow(reqs[q].me, g, t).topic = t
    BY RowsSay
  <2>3. chats'[g].next = t + 1 /\ chats'[g].kind = "group"
    BY <1>4, <2>1 DEF RowTypes
  <2>4. ASSUME NEW p \in Requests, reqs'[p].at = "makeTopic", NEW c \in ChatIds,
               chats'[c].kind = "channel", chats'[c].parent = reqs'[p].chat
        PROVE  chats'[c].topic <= reqs'[p].max \/ chats'[c].topic < chats'[reqs'[p].chat].next
    <3>1. reqs'[p] = reqs[p] /\ SnapshotsHold(reqs[p]) /\ reqs[p].max \in 0 .. MaxTopic
      BY <1>8, <2>4, SnapshotIs, InHandIs DEF NumbersInv, SavedInv, RoomsInv
    <3>2. CASE c = n
      <4>1. reqs'[p].chat = g /\ chats'[c].topic = t
        BY <2>1, <2>2, <2>4, <3>2
      <4> QED  BY <1>2, <2>3, <4>1
    <3>3. CASE c # n
      <4>1. c # g
        BY <2>3, <2>4
      <4>2. chats'[c] = chats[c]
        BY <2>1, <3>3, <4>1
      <4>3. PICK h : h = reqs[p].chat
        OBVIOUS
      <4>4. chats[c].topic <= reqs[p].max \/ chats[c].topic < chats[h].next
        BY <2>4, <3>1, <4>2, <4>3 DEF SnapshotsHold
      <4>5. h \in ChatIds /\ chats[h].kind = "group"
        BY <2>4, <3>1, <4>2, <4>3 DEF NumbersInv, SavedInv, RoomsInv, Shaped, DepthByKind
      <4>6. h # n
        BY <2>1, <4>5
      <4>7. CASE h = g
        BY <1>2, <1>5, <2>3, <3>1, <4>2, <4>3, <4>4, <4>7
      <4>8. CASE h # g
        <5>1. chats'[h] = chats[h]
          BY <2>1, <4>5, <4>6, <4>8
        <5> QED  BY <3>1, <4>2, <4>3, <4>4, <5>1
      <4> QED  BY <4>7, <4>8
    <3> QED  BY <3>2, <3>3
  <2> QED  BY <1>7, <2>4, SnapshotNext
<1> QED  BY <1>10, <1>11

\* A snapshot is above all there is when it is taken.
LEMMA CreateKeepsNumbers ==
  ASSUME NumbersInv, NEW q \in Requests, NEW u \in Users, NEW g \in ChatIds, CreateChannel(q, u, g)
  PROVE  SnapshotOrCounter' /\ clashed' = clashed
<1>1. PICK r : /\ reqs' = [reqs EXCEPT ![q] = r]
               /\ r = [[Idle EXCEPT !.me = u, !.chat = g, !.max = MaxTopicOf(g)] EXCEPT !.at = "makeTopic"]
  BY DEF CreateChannel, Waits
<1>2. r.chat = g /\ r.max = MaxTopicOf(g)
  BY <1>1 DEF Idle
<1>3. \A c \in ChatIds : chats[c].kind = "channel" /\ chats[c].parent = g => chats[c].topic <= r.max
  BY <1>2, SnapshotCovers, TopicIs DEF NumbersInv, SavedInv, RoomsInv
<1>4. SnapshotsHold(r)
  BY <1>2, <1>3 DEF SnapshotsHold
<1>5. \A p \in Requests : reqs'[p] = IF p = q THEN r ELSE reqs[p]
  BY <1>1 DEF NumbersInv, SavedInv, RoomsInv, Typed
<1>6. \A p \in Requests : reqs'[p].at = "makeTopic" => SnapshotsHold(reqs'[p])
  BY <1>4, <1>5, SnapshotIs DEF NumbersInv
<1>7. chats' = chats /\ clashed' = clashed
  BY DEF CreateChannel, Reads
<1> QED  BY <1>6, <1>7, SnapshotNext DEF SnapshotsHold

LEMMA SavedStepIsNext ==
  ASSUME NEW q \in Requests, MakeSaved(q) \/ FindAgain(q) \/ \E u \in Users : EnsureSavedChat(q, u)
  PROVE  Next
BY DEF Next, GoesOn, Begins, ChatsRoute, ListChats

LEMMA SavedStepsLeaveTopics ==
  ASSUME NumbersInv, NEW q \in Requests,
         MakeSaved(q) \/ FindAgain(q) \/ \E u \in Users : EnsureSavedChat(q, u)
  PROVE  SnapshotOrCounter' /\ clashed' = clashed /\ TopicsUntouched
<1>1. RoomsInv'
  BY RoomsStep, SavedStepIsNext DEF NumbersInv, SavedInv
<1>2. clashed' = clashed
  BY FindKeepsOne DEF NumbersInv, MakeSaved, EnsureSavedChat
<1>3. TopicsUntouched
  <2>1. CASE MakeSaved(q) /\ ~Reads
    <3>1. PICK u \in Users : u = reqs[q].me
      BY <2>1, InHandIs DEF MakeSaved, NumbersInv, SavedInv, RoomsInv
    <3>2. PICK n, m : n = NextId /\ m = [NoRoles EXCEPT ![u] = "owner"]
      OBVIOUS
    <3>3. m \in [Users -> Roles]
      BY <3>2, NoRolesTyped DEF Roles
    <3>4. RoomLeft /\ Insert(n, SavedRow(u), m)
      BY <2>1, <3>1, <3>2 DEF MakeSaved, Reads
    <3>5. SavedRow(u) \in RowTypes
      BY RowsHaveTypes
    <3>6. SavedRow(u).kind = "saved"
      BY RowsSay
    <3> QED  BY <3>2, <3>3, <3>4, <3>5, <3>6, InsertAside DEF NumbersInv, SavedInv
  <2>2. CASE Reads
    BY <2>2, ReadsAside
  <2> QED  BY <2>1, <2>2 DEF FindAgain, EnsureSavedChat
<1>4. \A p \in Requests : reqs'[p].at = "makeTopic" => reqs'[p] = reqs[p]
  <2>1. PICK r : r.at # "makeTopic" /\ (reqs' = reqs \/ reqs' = [reqs EXCEPT ![q] = r])
    <3>1. Idle.at # "makeTopic"
      BY IdleInHand
    <3>2. \A u : [[Idle EXCEPT !.me = u] EXCEPT !.at = "makeSaved"].at = "makeSaved"
      BY DEF Idle
    <3>3. [reqs[q] EXCEPT !.at = "findAgain"].at = "findAgain"
      BY InHandIs DEF NumbersInv, SavedInv, RoomsInv, InHand, RequestTypes
    <3>4. CASE MakeSaved(q)
      BY <3>1, <3>3, <3>4 DEF MakeSaved, Waits, Answers
    <3>5. CASE FindAgain(q)
      BY <3>1, <3>5 DEF FindAgain, Answers
    <3>6. CASE \E u \in Users : EnsureSavedChat(q, u)
      BY <3>1, <3>2, <3>6 DEF EnsureSavedChat, Waits
    <3> QED  BY <3>4, <3>5, <3>6
  <2> QED  BY <2>1 DEF NumbersInv, SavedInv, RoomsInv, Typed
<1> QED  BY <1>1, <1>2, <1>3, <1>4, TopicsStandAside

LEMMA InitNumbers == Init => NumbersInv
<1> SUFFICES ASSUME Init PROVE NumbersInv
  OBVIOUS
<1>1. \A q \in Requests : reqs[q].at = "idle"
  BY IdleInHand DEF Init
<1> QED  BY <1>1, InitRooms, InitSaved DEF NumbersInv, SavedInv, SnapshotOrCounter, NobodyClashes, Init

LEMMA NumbersStep ==
  ASSUME NumbersInv, [Next]_vars
  PROVE  NumbersInv'
<1>1. SavedInv'
  BY SavedStep DEF NumbersInv
<1>2. CASE Aside
  <2>1. \A p \in Requests : reqs'[p].at = "makeTopic" => reqs'[p] = reqs[p]
    BY <1>2 DEF Aside, NoneOfThem
  <2>2. TopicsUntouched /\ clashed' = clashed
    BY <1>2 DEF Aside
  <2>3. RoomsInv'
    BY <1>1 DEF SavedInv
  <2>4. SnapshotOrCounter'
    BY <2>1, <2>2, <2>3, TopicsStandAside
  <2> QED  BY <1>1, <2>2, <2>4 DEF NumbersInv, NobodyClashes
<1>3. CASE ~Aside
  <2>1. SnapshotOrCounter' /\ clashed' = clashed
    BY <1>3, StepIsAside, MakeKeepsNumbers, CreateKeepsNumbers, SavedStepsLeaveTopics DEF NumbersInv, SavedInv
  <2> QED  BY <1>1, <2>1 DEF NumbersInv, NobodyClashes
<1> QED  BY <1>2, <1>3

\* No unique index turns away the creation of a self-chat or of a topic, whatever the counter
\* of a legacy group says (allocTopicQuery, ensureSavedChat).
THEOREM NoRequestLosesItsClaim == Spec => []NobodyClashes
<1>1. NumbersInv /\ [Next]_vars => NumbersInv'
  BY NumbersStep
<1>2. NumbersInv => NobodyClashes
  BY DEF NumbersInv
<1> QED  BY <1>1, <1>2, InitNumbers, PTL DEF Spec

LEMMA NewTopicIsFresh ==
  ASSUME NumbersInv, [Next]_vars, NEW c \in ChatIds, chats[c] = Unborn, chats'[c].kind = "channel"
  PROVE  chats'[c].topic >= chats[chats'[c].parent].next
<1>1. chats[c].kind = "unborn"
  BY UnbornRow
<1>2. ~TopicsUntouched
  BY <1>1 DEF TopicsUntouched
<1>3. PICK q \in Requests : MakeTopic(q)
  <2>1. ~Aside
    BY <1>2 DEF Aside
  <2>2. ASSUME NEW q \in Requests, MakeSaved(q) \/ FindAgain(q) \/ \E u \in Users : EnsureSavedChat(q, u)
        PROVE  FALSE
    BY <1>2, <2>2, SavedStepsLeaveTopics
  <2>3. ASSUME NEW q \in Requests, NEW u, NEW g, CreateChannel(q, u, g)
        PROVE  FALSE
    BY <1>2, <2>3, ReadsAside DEF CreateChannel
  <2> QED  BY <2>1, <2>2, <2>3, StepIsAside DEF NumbersInv, SavedInv
<1>4. reqs[q].chat \in ChatIds /\ reqs[q].max \in 0 .. MaxTopic
  BY <1>3, InHandIs DEF MakeTopic, NumbersInv, SavedInv, RoomsInv
<1>5. PICK g \in ChatIds, n \in ChatIds, t \in 0 .. MaxTopic :
        /\ g = reqs[q].chat /\ t = TopicFor(g, reqs[q].max)
        /\ chats'[n] = TopicRow(reqs[q].me, g, t) /\ chats[g].kind = "group"
        /\ \A d \in ChatIds \ {n, g} : chats'[d] = chats[d]
  <2>1. Typed /\ ~UNCHANGED <<chats, role>>
    BY <1>1 DEF NumbersInv, SavedInv, RoomsInv
  <2>2. PICK h \in ChatIds, n \in ChatIds, s \in 0 .. MaxTopic :
          /\ h = reqs[q].chat /\ s = TopicFor(h, reqs[q].max)
          /\ h # n /\ chats[h].kind = "group" /\ chats[n].kind = "unborn"
          /\ chats'[n] = TopicRow(reqs[q].me, h, s)
          /\ chats'[h] = [chats[h] EXCEPT !.next = s + 1]
          /\ \A d \in ChatIds \ {n, h} : chats'[d] = chats[d]
    BY <1>3, <2>1, MakeTopicIs
  <2> QED  BY <2>2
<1>6. c = n
  BY <1>1, <1>5
<1>7. TopicRow(reqs[q].me, g, t).parent = g /\ TopicRow(reqs[q].me, g, t).topic = t
  BY RowsSay
<1>8. t >= chats[g].next
  BY <1>4, <1>5, AllocationIs DEF NumbersInv, SavedInv, RoomsInv
<1> QED  BY <1>5, <1>6, <1>7, <1>8

\* A new topic is never numbered below the counter of its group (allocTopicQuery).
THEOREM NumbersAreNotReused == Spec => TopicsAreFresh
<1>1. NumbersInv /\ [Next]_vars => NumbersInv'
  BY NumbersStep
<1>2. NumbersInv /\ [Next]_vars =>
        [\A c \in ChatIds : (chats[c] = Unborn /\ chats'[c].kind = "channel")
            => chats'[c].topic >= chats[chats'[c].parent].next]_vars
  BY NewTopicIsFresh
<1> QED  BY <1>1, <1>2, InitNumbers, PTL DEF Spec, TopicsAreFresh

=============================================================================
