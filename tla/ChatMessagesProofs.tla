------------------------- MODULE ChatMessagesProofs -------------------------
(***************************************************************************)
(* Proofs about ChatMessages, for any users and any number of requests and *)
(* messages: all its properties follow from what a request that is not     *)
(* stale may still rely on.                                                *)
(***************************************************************************)
EXTENDS ChatMessages, FiniteSetTheorems, TLAPS

\* A request that goes on to write is about what is there, and of somebody.
Placed(r) ==
  /\ r.at \in {"forward", "poll", "Edit", "Delete", "React", "Vote", "ClosePoll", "Receipt"} => r.m \in Posted
  /\ r.at = "Pin" => r.m \in Posted \union {0}
  /\ r.at \in {"React", "Vote", "Receipt", "Clear"} => r.me \in Users
  /\ r.at = "Moderate" => r.whom \in Users
  /\ r.at = "Receipt" => /\ r.n \in 0..2 /\ r.of \in {"own", "both", "own misread", "both misread"}
                         /\ r.n = 2 => r.of \in {"both", "both misread"}
  /\ r.at = "Clear" => r.n <= Cardinality(Posted)

\* What it has read and relies on.
Holds(r) ==
  /\ r.at = "Insert" => \/ r.me = Nobody \/ MayPost(r.me)
                        \/ MayReply(r.me, r.m) /\ r.whom = author[r.m]
  /\ r.at = "Edit" => files[r.m] \subseteq r.rows
  /\ r.at \in {"React", "Vote"} => r.m \in Live
  /\ r.at = "Vote" => poll[r.m] = "open" /\ (ballot[r.m][r.me] # 0 => revoting)
  /\ r.at = "Receipt" /\ r.of \in {"own", "both"} =>
       own[r.m][r.me] <= r.n /\ (r.of = "both" <=> latest[r.m] <= r.n)
  /\ r.at = "Clear" => cleared[r.me] <= r.n

AllPlaced == \A x \in Requests : Placed(req[x])
\* A history begins at a message that was posted.
ClearedPosted == \A u \in Users : cleared[u] <= Cardinality(Posted)
TypesInv == TypeOK /\ AllPlaced /\ ClearedPosted

\* What was read still holds, or whose request it was is stale.
FreshOrStale == \A x \in Requests : req[x].stale \/ Holds(req[x])
MessagesInv == TypesInv /\ FreshOrStale /\ EditWhole /\ ReceiptsAgree
-----------------------------------------------------------------------------
(* Numbers of messages, and records of requests.                           *)

LEMMA Counting == ASSUME TypeOK
  PROVE  /\ Cardinality(Posted) \in 0..MaxMessages /\ Posted \subseteq Messages
         /\ \A m \in Messages : m \in Posted <=> m <= Cardinality(Posted)
<1>1. Posted \subseteq Messages /\ IsFiniteSet(Messages) /\ Cardinality(Messages) = MaxMessages
  BY FS_Interval, MessagesAssumption DEF Posted, Messages
<1>2. Cardinality(Posted) \in Nat /\ Cardinality(Posted) <= MaxMessages
  BY <1>1, FS_Subset, FS_CardinalityType
<1>3. Posted = 1..Cardinality(Posted)
  BY DEF TypeOK
<1> QED  BY <1>1, <1>2, <1>3, MessagesAssumption DEF Messages

LEMMA SamePosted ==
  ASSUME \A m \in Messages : state'[m] = "none" <=> state[m] = "none"
  PROVE  Posted' = Posted
BY DEF Posted, Messages

\* Messages are numbered one after the other.
LEMMA InsertCounts ==
  ASSUME TypeOK, NEW m, m = Cardinality(Posted) + 1, m \in Messages,
         state' = [state EXCEPT ![m] = "live"]
  PROVE  /\ m \notin Posted /\ state[m] = "none" /\ Posted' = Posted \union {m}
         /\ Posted' = 1..Cardinality(Posted)' /\ Cardinality(Posted)' = Cardinality(Posted) + 1
<1>1. Cardinality(Posted) \in 0..MaxMessages /\ m \notin Posted
  BY Counting
<1>2. state \in [Messages -> {"none", "live", "deleted"}]
  BY DEF TypeOK
<1>3. state[m] = "none" /\ Posted' = Posted \union {m}
  BY <1>1, <1>2 DEF Posted, Messages
<1>4. Posted = 1..Cardinality(Posted)
  BY DEF TypeOK
<1>5. Posted' = 1..m
  BY <1>1, <1>3, <1>4
<1>6. Cardinality(1..m) = m
  BY <1>1, FS_Interval
<1> QED  BY <1>1, <1>3, <1>5, <1>6

LEMMA RecordIs ==
  ASSUME TypeOK, NEW x \in Requests
  PROVE  /\ req[x] \in RequestType /\ req[x].me \in Users \union {Nobody}
         /\ req[x].m \in Messages \union {0} /\ req[x].tag \in Tags /\ req[x].whom \in Users \union {Nobody}
         /\ req[x].n \in Nat /\ req[x].rows \subseteq Tags /\ req[x].stale \in BOOLEAN
         /\ req[x].at \in Labels
<1>1. req[x] \in RequestType
  BY DEF TypeOK
<1> QED  BY <1>1 DEF RequestType

LEMMA IdleIs == /\ Idle \in RequestType /\ Idle.at = "idle" /\ Placed(Idle) /\ Holds(Idle)
                /\ Placed(Idle)' /\ Holds(Idle)'
<1>1. Idle \in RequestType /\ Idle.at = "idle"
  BY MessagesAssumption DEF Idle, RequestType, Labels, Wants, Tags
<1> QED  BY <1>1 DEF Placed, Holds

\* The requests after a step that ends in Then.
LEMMA ThenIs ==
  ASSUME TypeOK, NEW x \in Requests, NEW r \in RequestType, NEW hit, Then(x, r, hit)
  PROVE  /\ req' \in [Requests -> RequestType] /\ req'[x] = r /\ ops' = ops
         /\ \A y \in Requests \ {x} :
              /\ req'[y].at = req[y].at /\ req'[y].me = req[y].me /\ req'[y].m = req[y].m
              /\ req'[y].of = req[y].of /\ req'[y].whom = req[y].whom /\ req'[y].n = req[y].n
              /\ req'[y].rows = req[y].rows /\ req'[y].tag = req[y].tag
              /\ req'[y].stale = (req[y].stale \/ y \in hit)
<1>1. \A y \in Requests : req[y] \in RequestType
  BY DEF TypeOK
<1>2. ASSUME NEW y \in Requests, y # x
      PROVE  /\ req'[y] = [req[y] EXCEPT !.stale = @ \/ y \in hit] /\ req'[y] \in RequestType
             /\ req'[y].stale = (req[y].stale \/ y \in hit)
  <2>1. req'[y] = [req[y] EXCEPT !.stale = @ \/ y \in hit]
    BY <1>2 DEF Then
  <2>2. (req[y].stale \/ y \in hit) \in BOOLEAN
    BY <1>1 DEF RequestType
  <2> QED  BY <1>1, <2>1, <2>2 DEF RequestType
<1>3. req'[x] = r
  BY DEF Then
<1>4. req' \in [Requests -> RequestType]
  BY <1>2, <1>3 DEF Then
<1>5. ASSUME NEW y \in Requests, y # x
      PROVE  /\ req'[y].at = req[y].at /\ req'[y].me = req[y].me /\ req'[y].m = req[y].m
             /\ req'[y].of = req[y].of /\ req'[y].whom = req[y].whom /\ req'[y].n = req[y].n
             /\ req'[y].rows = req[y].rows /\ req'[y].tag = req[y].tag
  BY <1>1, <1>2, <1>5 DEF RequestType
<1> QED  BY <1>2, <1>3, <1>4, <1>5 DEF Then
-----------------------------------------------------------------------------
(* Requests that begin.                                                    *)

\* Request x begins with r, and nothing else happens.
Begins(x, r) ==
  /\ r \in RequestType /\ Placed(r) /\ Holds(r)
  /\ ops' = ops + 1 /\ req' = [req EXCEPT ![x] = r]
  /\ UNCHANGED <<chatVars, standingVars, messageVars, reactions, pinned, pollVars, statusVars,
                 memberVars, overtaken>>

\* A request with these in hand is about what is there, and what it relies on is so.
Suits(u, m, of, label, whom, n, rows) ==
  \A r \in RequestType :
    r.at = label /\ r.me = u /\ r.m = m /\ r.of = of /\ r.whom = whom /\ r.n = n /\ r.rows = rows
      => Placed(r) /\ Holds(r)

LEMMA BeginsIs ==
  ASSUME TypeOK, NEW x \in Requests, ops < MaxOps,
         NEW u \in Users \union {Nobody}, NEW m \in Messages \union {0}, NEW of \in Wants,
         NEW label \in Labels, NEW whom \in Users \union {Nobody}, NEW n \in Nat,
         NEW rows \in SUBSET Tags, BeginWith(x, u, m, of, label, whom, n, rows),
         Suits(u, m, of, label, whom, n, rows)
  PROVE  \E r : Begins(x, r)
<1>1. PICK r : r = [at |-> label, me |-> u, m |-> m, tag |-> ops + 1, of |-> of,
                    whom |-> whom, n |-> n, rows |-> rows, stale |-> FALSE]
  OBVIOUS
<1>2. ops + 1 \in Tags
  BY MessagesAssumption DEF TypeOK, Tags
<1>3. r \in RequestType
  BY <1>1, <1>2 DEF RequestType
<1>4. Placed(r) /\ Holds(r)
  BY <1>1, <1>3 DEF Suits
<1>5. Begins(x, r)
  BY <1>1, <1>3, <1>4 DEF BeginWith, Begins
<1> QED  BY <1>5

LEMMA PostBegins ==
  ASSUME TypesInv, NEW x \in Requests, ops < MaxOps,
         PostRequests(x) \/ CreatePoll(x) \/ ForwardMessage(x)
  PROVE  \E r : Begins(x, r)
<1>0. TypeOK /\ {} \in SUBSET Tags /\ 0 \in Nat
  BY DEF TypesInv
<1>1. ASSUME NEW u \in Users, NEW of \in {"plain", "files"}, MayPost(u), Begin(x, u, 0, of, "Insert")
      PROVE  \E r : Begins(x, r)
  <2>1. Suits(u, 0, of, "Insert", Nobody, 0, {})
    BY <1>1 DEF Suits, Placed, Holds
  <2>2. of \in Wants /\ "Insert" \in Labels
    BY DEF Wants, Labels
  <2> QED  BY <1>0, <1>1, <2>1, <2>2, BeginsIs DEF Begin
<1>2. ASSUME NEW u \in Users, NEW of \in {"plain", "files"}, NEW m \in Live, MayReply(u, m),
             BeginWith(x, u, m, of, "Insert", author[m], 0, {})
      PROVE  \E r : Begins(x, r)
  <2>1. m \in Messages /\ author[m] \in Users \union {Nobody}
    BY <1>0, Counting DEF Live, TypeOK
  <2>2. Suits(u, m, of, "Insert", author[m], 0, {})
    BY <1>2 DEF Suits, Placed, Holds
  <2>3. of \in Wants /\ "Insert" \in Labels
    BY DEF Wants, Labels
  <2> QED  BY <1>0, <1>2, <2>1, <2>2, <2>3, BeginsIs
<1>3. CASE CreatePoll(x)
  <2>1. PICK u \in Users : MayPost(u) /\ BeginWith(x, u, 0, "poll", "Insert", Nobody, 0, {})
    BY <1>3 DEF Begin, CreatePoll
  <2>2. Suits(u, 0, "poll", "Insert", Nobody, 0, {})
    BY <2>1 DEF Suits, Placed, Holds
  <2> QED  BY <1>0, <2>1, <2>2, BeginsIs DEF Labels, Wants
<1>4. CASE CreateMessageAsBot(x)
  <2>1. BeginWith(x, Nobody, 0, "plain", "Insert", Nobody, 0, {})
    BY <1>4 DEF Begin, CreateMessageAsBot
  <2>2. Suits(Nobody, 0, "plain", "Insert", Nobody, 0, {})
    BY DEF Suits, Placed, Holds
  <2> QED  BY <1>0, <2>1, <2>2, BeginsIs DEF Labels, Wants
<1>5. CASE ForwardMessage(x)
  <2>1. PICK u \in Users, m \in Live : MayPost(u) /\ BeginWith(x, u, m, "forward", "Insert", OriginOf(m), 0, {})
    BY <1>5 DEF ForwardMessage
  <2>2. m \in Messages /\ OriginOf(m) \in Users \union {Nobody}
    BY <1>0 DEF Live, TypeOK, OriginOf
  <2>3. Suits(u, m, "forward", "Insert", OriginOf(m), 0, {})
    BY <2>1 DEF Suits, Placed, Holds
  <2> QED  BY <1>0, <2>1, <2>2, <2>3, BeginsIs DEF Labels, Wants
<1> QED  BY <1>1, <1>2, <1>3, <1>4, <1>5 DEF PostRequests, CreateMessage

LEMMA MessageBegins ==
  ASSUME TypesInv, NEW x \in Requests, ops < MaxOps,
         MessageRequests(x) \/ UpsertMessageStatus(x) \/ EditMessage(x)
  PROVE  \E r : Begins(x, r)
<1>0. /\ TypeOK /\ {} \in SUBSET Tags /\ 0 \in Nat /\ Live \subseteq Posted /\ Posted \subseteq Messages
  BY Counting DEF TypesInv, Live, Posted
<1>1. ASSUME NEW u \in Users, NEW m \in Live, NEW of \in {"plain", "files"}, Edit(x, u, m, of)
      PROVE  \E r : Begins(x, r)
  <2>1. files[m] \in SUBSET Tags /\ m \in Messages
    BY <1>0 DEF TypeOK
  <2>2. Suits(u, m, of, "Edit", Nobody, 0, files[m])
    BY <1>0 DEF Suits, Placed, Holds
  <2> QED  BY <1>0, <1>1, <2>1, <2>2, BeginsIs DEF Edit, Labels, Wants
<1>2. ASSUME NEW u \in Users, NEW m \in Live, Begin(x, u, m, "", "Delete")
      PROVE  \E r : Begins(x, r)
  <2>1. Suits(u, m, "", "Delete", Nobody, 0, {})
    BY <1>0 DEF Suits, Placed, Holds
  <2> QED  BY <1>0, <1>2, <2>1, BeginsIs DEF Begin, Labels, Wants
<1>3. ASSUME NEW u \in Users, NEW m \in Live, NEW of \in {"set", "removed"}, Begin(x, u, m, of, "React")
      PROVE  \E r : Begins(x, r)
  <2>1. Suits(u, m, of, "React", Nobody, 0, {})
    BY <1>0 DEF Suits, Placed, Holds
  <2>2. of \in Wants /\ "React" \in Labels
    BY DEF Wants, Labels
  <2> QED  BY <1>0, <1>3, <2>1, <2>2, BeginsIs DEF Begin
<1>4. ASSUME NEW u \in Users, NEW m \in Posted, NEW s \in {1, 2}, Receipt(x, u, m, s)
      PROVE  \E r : Begins(x, r)
  <2>1. m \in Messages /\ own[m][u] \in 0..2 /\ latest[m] \in 0..2
    BY <1>0 DEF TypeOK
  <2>2. PICK found \in {own[m][u], 0}, shown \in {latest[m], 0}, t \in 0..2, misread \in BOOLEAN,
               whom \in Users \union {Nobody} :
          /\ t = StatusToWrite(found, s) /\ misread = (found # own[m][u] \/ shown # latest[m])
          /\ whom = IF s = 2 THEN u ELSE Nobody
          /\ BeginWith(x, u, m, Wanted(shown <= t, misread), "Receipt", whom, t, {})
    <3>1. PICK found \in {own[m][u], 0}, shown \in {latest[m], 0} :
            LET t == StatusToWrite(found, s)
                misread == found # own[m][u] \/ shown # latest[m]
            IN  BeginWith(x, u, m, Wanted(shown <= t, misread), "Receipt",
                          IF s = 2 THEN u ELSE Nobody, t, {})
      BY <1>4 DEF Receipt
    <3>2. StatusToWrite(found, s) \in 0..2 /\ (found # own[m][u] \/ shown # latest[m]) \in BOOLEAN
      BY <2>1 DEF StatusToWrite, Max2
    <3> QED  BY <3>1, <3>2
  <2>3. PICK of : of = Wanted(shown <= t, misread)
    OBVIOUS
  <2>4. t \in 0..2 /\ found <= t
    BY <2>1, <2>2 DEF StatusToWrite, Max2
  <2>5. /\ of \in {"own", "both", "own misread", "both misread"}
        /\ of \in {"both", "both misread"} <=> shown <= t
        /\ of \in {"own misread", "both misread"} <=> misread
    BY <2>3 DEF Wanted
  <2>6. /\ t = 2 => of \in {"both", "both misread"}
        /\ of \in {"own", "both"} => own[m][u] <= t /\ (of = "both" <=> latest[m] <= t)
    <3>1. of \in {"own", "both"} => ~misread
      BY <2>5
    <3>2. ~misread => found = own[m][u] /\ shown = latest[m]
      BY <2>2
    <3>3. shown \in 0..2
      BY <2>1, <2>2
    <3>4. t = 2 => of \in {"both", "both misread"}
      <4>1. of \in {"both", "both misread"} <=> shown <= t
        BY <2>5
      <4>2. t = 2 => shown <= t
        BY <3>3
      <4> QED  BY <4>1, <4>2
    <3>5. of \in {"own", "both"} => (of = "both" <=> shown <= t)
      BY <2>5, <3>1
    <3> QED  BY <2>4, <3>1, <3>2, <3>4, <3>5
  <2>7. whom \in Users \union {Nobody} /\ t \in Nat
    BY <2>2, <2>4
  <2>8. Suits(u, m, of, "Receipt", whom, t, {})
    BY <1>0, <2>4, <2>5, <2>6 DEF Suits, Placed, Holds
  <2>9. of \in Wants /\ "Receipt" \in Labels
    BY <2>5 DEF Wants, Labels
  <2> QED  BY <1>0, <2>1, <2>2, <2>3, <2>7, <2>8, <2>9, BeginsIs
<1>5. CASE EditMessage(x) \/ EditMessageByID(x)
  BY <1>1, <1>5 DEF EditMessage, EditMessageByID
<1>6. CASE DeleteMessage(x)
  BY <1>2, <1>6 DEF DeleteMessage
<1>7. CASE ToggleMessageReaction(x)
  <2>1. PICK u \in Users, m \in Live : Begin(x, u, m, IF u \in reactions[m] THEN "removed" ELSE "set", "React")
    BY <1>7 DEF ToggleMessageReaction
  <2>2. (IF u \in reactions[m] THEN "removed" ELSE "set") \in {"set", "removed"}
    OBVIOUS
  <2> QED  BY <1>3, <2>1, <2>2
<1>8. CASE UpsertMessageStatus(x) \/ MarkMessageReadByID(x)
  BY <1>0, <1>4, <1>8 DEF UpsertMessageStatus, MarkMessageReadByID
<1> QED  BY <1>5, <1>6, <1>7, <1>8 DEF MessageRequests

LEMMA OthersBegin ==
  ASSUME TypesInv, NEW x \in Requests, ops < MaxOps,
         PollRequests(x) \/ PinMessage(x) \/ ClearChatHistory(x) \/ ModerationRequests(x)
  PROVE  \E r : Begins(x, r)
<1>0. /\ TypeOK /\ {} \in SUBSET Tags /\ 0 \in Nat /\ Live \subseteq Posted /\ Posted \subseteq Messages
      /\ Cardinality(Posted) \in Nat
  BY Counting DEF TypesInv, Live, Posted
<1>1. CASE VotePoll(x)
  <2>1. PICK u \in Users, m \in Messages :
          /\ poll[m] = "open" /\ m \in Live /\ (ballot[m][u] # 0 => revoting)
          /\ BeginWith(x, u, m, "", "Vote", Nobody, 0, {})
    BY <1>1 DEF VotePoll, PollReadable, Begin, GetMessageByID
  <2>2. Suits(u, m, "", "Vote", Nobody, 0, {})
    BY <1>0, <2>1 DEF Suits, Placed, Holds
  <2> QED  BY <1>0, <2>1, <2>2, BeginsIs DEF Labels, Wants
<1>2. CASE ClosePoll(x)
  <2>1. PICK u \in Users, m \in Messages : m \in Live /\ BeginWith(x, u, m, "", "ClosePoll", Nobody, 0, {})
    BY <1>2 DEF ClosePoll, PollReadable, Begin, GetMessageByID
  <2>2. Suits(u, m, "", "ClosePoll", Nobody, 0, {})
    BY <1>0, <2>1 DEF Suits, Placed, Holds
  <2> QED  BY <1>0, <2>1, <2>2, BeginsIs DEF Labels, Wants
<1>3. CASE PinMessage(x)
  <2>1. PICK u \in Users, m \in Posted \union {0} : BeginWith(x, u, m, "", "Pin", Nobody, 0, {})
    BY <1>3 DEF PinMessage, Begin
  <2>2. Suits(u, m, "", "Pin", Nobody, 0, {})
    BY <1>0, <2>1 DEF Suits, Placed, Holds
  <2> QED  BY <1>0, <2>1, <2>2, BeginsIs DEF Labels, Wants
<1>4. CASE ClearChatHistory(x)
  <2>1. PICK u \in Users : BeginWith(x, u, 0, "", "Clear", Nobody, Cardinality(Posted), {})
    BY <1>4 DEF ClearChatHistory
  <2>2. PICK k \in Nat : k = Cardinality(Posted)
    BY <1>0
  <2>3. cleared[u] <= k /\ k <= Cardinality(Posted)
    BY <1>0, <2>2 DEF TypesInv, ClearedPosted
  <2>4. Suits(u, 0, "", "Clear", Nobody, k, {})
    BY <2>3 DEF Suits, Placed, Holds
  <2> QED  BY <1>0, <2>1, <2>2, <2>4, BeginsIs DEF Labels, Wants
<1>5. ASSUME NEW what \in {"ban", "unban", "mute", "unmute"}, Moderate(x, what)
      PROVE  \E r : Begins(x, r)
  <2>1. PICK u \in Users, w \in Users : BeginWith(x, u, 0, what, "Moderate", w, 0, {})
    BY <1>5 DEF Moderate
  <2>2. Suits(u, 0, what, "Moderate", w, 0, {})
    BY DEF Suits, Placed, Holds
  <2>3. what \in Wants /\ "Moderate" \in Labels
    BY DEF Wants, Labels
  <2> QED  BY <1>0, <2>1, <2>2, <2>3, BeginsIs
<1>6. CASE ModerationRequests(x)
  BY <1>5, <1>6 DEF ModerationRequests, BanPublicChannelUser, UnbanPublicChannelUser,
                    MutePublicChannelUser, UnmutePublicChannelUser
<1> QED  BY <1>1, <1>2, <1>3, <1>4, <1>6 DEF PollRequests

LEMMA RequestBegins ==
  ASSUME TypesInv, NEW x \in Requests, Requested(x) PROVE \E r : Begins(x, r)
<1>1. ops < MaxOps /\ x \in Requests
  BY DEF Requested
<1> QED  BY <1>1, PostBegins, MessageBegins, OthersBegin DEF Requested, ChatRequests

LEMMA BeginsKeeps ==
  ASSUME TypesInv, NEW x \in Requests, ops < MaxOps, NEW r, Begins(x, r) 
  PROVE  /\ TypesInv' /\ (FreshOrStale => FreshOrStale') /\ Posted' = Posted
         /\ (EditWhole => EditWhole') /\ (ReceiptsAgree => ReceiptsAgree')
<1> USE DEF chatVars, standingVars, messageVars, pollVars, statusVars, memberVars
<1>0. /\ req' = [req EXCEPT ![x] = r] /\ r \in RequestType /\ ops' = ops + 1 /\ req \in [Requests -> RequestType]
  BY DEF Begins, TypesInv, TypeOK
<1>1. Posted' = Posted /\ Cardinality(Posted)' = Cardinality(Posted) /\ Live' = Live
  BY DEF Begins, Posted, Live
<1>2. TypeOK'
  BY <1>0, <1>1, MessagesAssumption DEF Begins, TypesInv, TypeOK
<1>3. ASSUME NEW s, Placed(s) PROVE Placed(s)'
  BY <1>1, <1>3 DEF Placed
<1>4. AllPlaced'
  <2>1. \A y \in Requests : \A s : s = req'[y] => Placed(s)
    BY <1>0 DEF Begins, TypesInv, AllPlaced
  <2>2. \A y \in Requests : \A s : s = req'[y] => Placed(s)'
    BY <1>3, <2>1
  <2> QED  BY <2>2 DEF AllPlaced
<1>5. ClearedPosted'
  BY <1>1 DEF TypesInv, ClearedPosted, Begins
<1>6. ASSUME NEW s, Holds(s) PROVE Holds(s)'
  BY <1>1, <1>6 DEF Holds, Begins, MayPost, MayReply, Member, CanPostIntoChannel, Standalone
<1>7. ASSUME FreshOrStale PROVE FreshOrStale'
  <2>1. \A y \in Requests : \A s : s = req'[y] => s.stale \/ Holds(s)
    BY <1>0, <1>7 DEF Begins, FreshOrStale
  <2>2. \A y \in Requests : \A s : s = req'[y] => s.stale \/ Holds(s)'
    BY <1>6, <2>1
  <2> QED  BY <2>2 DEF FreshOrStale
<1> QED  BY <1>1, <1>2, <1>4, <1>5, <1>7 DEF TypesInv, Begins, EditWhole, ReceiptsAgree
-----------------------------------------------------------------------------
(* Statements.                                                             *)

\* What the requests in hand say after a statement: they are as well placed as before ...
LEMMA ThenPlaces ==
  ASSUME TypesInv, NEW x \in Requests, NEW r \in RequestType, NEW hit, Then(x, r, hit), Placed(r)',
         Posted \subseteq Posted', Cardinality(Posted)' \in Nat, Cardinality(Posted) <= Cardinality(Posted)'
  PROVE  req' \in [Requests -> RequestType] /\ ops' = ops /\ AllPlaced'
<1>1. ASSUME NEW s \in RequestType, Placed(s) PROVE Placed(s)'
  <2>1. s.n \in Nat /\ Cardinality(Posted) \in Nat
    BY Counting DEF RequestType, TypesInv
  <2>2. s.n <= Cardinality(Posted) => s.n <= Cardinality(Posted)'
    BY <2>1
  <2> QED  BY <1>1, <2>2 DEF Placed
<1>2. TypeOK
  BY DEF TypesInv
<1>3. \A y \in Requests \ {x} : \A s : s = req[y] => Placed(s)'
  BY <1>1, <1>2, RecordIs DEF TypesInv, AllPlaced
<1>4. ASSUME NEW y \in Requests, NEW t, t = req'[y] PROVE Placed(t)'
  <2>1. CASE y = x
    BY <1>2, <1>4, <2>1, ThenIs
  <2>2. CASE y # x
    <3>1. PICK s : s = req[y]
      OBVIOUS
    <3>2. Placed(s)'
      BY <1>3, <2>2, <3>1
    <3>3. t.at = s.at /\ t.m = s.m /\ t.me = s.me /\ t.whom = s.whom /\ t.n = s.n /\ t.of = s.of
      BY <1>2, <1>4, <2>2, <3>1, ThenIs
    <3> QED  BY <3>2, <3>3 DEF Placed
  <2> QED  BY <2>1, <2>2
<1>5. AllPlaced'
  BY <1>4 DEF AllPlaced
<1> QED  BY <1>2, <1>5, ThenIs

\* ... and what they read still holds if the statement makes those stale for which it does not.
LEMMA ThenFresh ==
  ASSUME TypesInv, FreshOrStale, NEW x \in Requests, NEW r \in RequestType, NEW hit, Then(x, r, hit), Holds(r)',
         \A y \in Requests \ {x} : \A s \in RequestType :
           s = req[y] /\ y \notin hit /\ Placed(s) /\ Holds(s) => Holds(s)'
  PROVE  FreshOrStale'
<1>1. TypeOK
  BY DEF TypesInv
<1>2. ASSUME NEW y \in Requests, NEW t, t = req'[y] PROVE t.stale \/ Holds(t)'
  <2>1. CASE y = x
    BY <1>1, <1>2, <2>1, ThenIs
  <2>2. CASE y # x
    <3>1. PICK s \in RequestType : s = req[y]
      BY <1>1, RecordIs
    <3>2. t.stale = (s.stale \/ y \in hit)
      BY <1>1, <1>2, <2>2, <3>1, ThenIs
    <3>3. Placed(s) /\ (s.stale \/ Holds(s))
      BY <3>1 DEF TypesInv, AllPlaced, FreshOrStale
    <3>4. s.stale \/ y \in hit \/ Holds(s)'
      BY <2>2, <3>1, <3>3
    <3>5. /\ t.at = s.at /\ t.m = s.m /\ t.me = s.me /\ t.whom = s.whom /\ t.n = s.n /\ t.of = s.of
          /\ t.rows = s.rows
      BY <1>1, <1>2, <2>2, <3>1, ThenIs
    <3>6. Holds(s)' => Holds(t)'
      BY <3>5 DEF Holds
    <3> QED  BY <3>2, <3>4, <3>6
  <2> QED  BY <2>1, <2>2
<1> QED  BY <1>2 DEF FreshOrStale

\* Who may post, and reply, may still do so.
LEMMA RightsStand ==
  ASSUME UNCHANGED <<chatVars, standingVars>>
  PROVE  /\ \A u : MayPost(u) => MayPost(u)'
         /\ \A u, m : MayReply(u, m) /\ m \in Live' /\ author'[m] = author[m] => MayReply(u, m)'
BY DEF MayPost, MayReply, Member, CanPostIntoChannel, Standalone, chatVars, standingVars

LEMMA AboutIs ==
  ASSUME NEW y \in Requests, NEW m, NEW labels, NEW u
  PROVE  /\ y \in About(m, labels) <=> req[y].m = m /\ req[y].at \in labels
         /\ y \in By(u) <=> req[y].me = u /\ u # Nobody
BY DEF About, By

\* A statement that posts nothing.
LEMMA PostedStands ==
  ASSUME TypesInv, NEW x \in Requests, NEW r \in RequestType, NEW hit, Then(x, r, hit), Placed(r), UNCHANGED state
  PROVE  /\ req' \in [Requests -> RequestType] /\ ops' = ops /\ AllPlaced'
         /\ Posted' = Posted /\ Cardinality(Posted)' = Cardinality(Posted) /\ Live' = Live
<1>1. Posted' = Posted /\ Live' = Live
  BY DEF Posted, Live
<1>2. Placed(r)'
  BY <1>1 DEF Placed
<1>3. Cardinality(Posted) \in Nat
  BY Counting DEF TypesInv
<1> QED  BY <1>1, <1>2, <1>3, ThenPlaces

Kept == TypesInv' /\ FreshOrStale' /\ EditWhole' /\ ReceiptsAgree'

LEMMA InsertKeeps == ASSUME MessagesInv, NEW x \in Requests, Insert(x) PROVE Kept
<1> USE DEF chatVars, standingVars, messageVars, pollVars, statusVars, memberVars
<1>a. PICK m : m = Cardinality(Posted) + 1
  OBVIOUS
<1>b. PICK r : r = IF req[x].of \in {"forward", "poll"} THEN [Goto(x, req[x].of) EXCEPT !.m = m] ELSE Idle
  OBVIOUS
<1>0. /\ TypesInv /\ TypeOK /\ m \in Messages /\ Then(x, r, {}) /\ At(x, "Insert")
      /\ state' = [state EXCEPT ![m] = "live"] /\ author' = [author EXCEPT ![m] = req[x].me]
      /\ text' = [text EXCEPT ![m] = req[x].tag] /\ files' = [files EXCEPT ![m] = Attached(x)]
  BY <1>a, <1>b DEF MessagesInv, TypesInv, Insert
<1>1. /\ m \notin Posted /\ state[m] = "none" /\ Posted' = Posted \union {m}
      /\ Posted' = 1..Cardinality(Posted)' /\ Cardinality(Posted)' = Cardinality(Posted) + 1
  BY <1>0, <1>a, InsertCounts
<1>2. Live' = Live \union {m} /\ m \notin Live
  BY <1>0, <1>1 DEF Live, Insert, TypeOK
<1>3. r \in RequestType /\ Placed(r)' /\ Holds(r)'
  <2>1. CASE req[x].of \in {"forward", "poll"}
    <3>1. PICK of, s : of = req[x].of /\ s = req[x]
      OBVIOUS
    <3>2. r = [[s EXCEPT !.at = of] EXCEPT !.m = m] /\ s \in RequestType
      BY <1>0, <1>b, <2>1, <3>1, RecordIs DEF Goto
    <3>3. r \in RequestType /\ r.at = of /\ r.m = m
      BY <1>0, <2>1, <3>1, <3>2 DEF RequestType, Labels
    <3> QED  BY <1>1, <2>1, <3>1, <3>3 DEF Placed, Holds
  <2>2. CASE req[x].of \notin {"forward", "poll"}
    BY <1>b, <2>2, IdleIs
  <2> QED  BY <2>1, <2>2
<1>4. Cardinality(Posted) \in Nat
  BY <1>0, Counting
<1>5. req' \in [Requests -> RequestType] /\ ops' = ops /\ AllPlaced'
  BY <1>0, <1>1, <1>3, <1>4, ThenPlaces
<1>6. req[x].me \in Users \union {Nobody} /\ req[x].tag \in Tags /\ Attached(x) \subseteq {req[x].tag}
  BY <1>0, RecordIs DEF Attached
<1>7. /\ author' \in [Messages -> Users \union {Nobody}] /\ state' \in [Messages -> {"none", "live", "deleted"}]
      /\ text' \in [Messages -> Tags] /\ files' \in [Messages -> SUBSET Tags]
  BY <1>0, <1>6 DEF Insert, TypeOK
<1>8. \A n \in Messages \ {m} : text'[n] = text[n] /\ files'[n] = files[n] /\ author'[n] = author[n]
  BY <1>0 DEF Insert, TypeOK
<1>9. badge' \subseteq Users /\ overtaken' \in BOOLEAN
  BY <1>0, RecordIs DEF Insert, TypeOK, ListChatMemberIDs, Writes
<1>10. pinned' \in Posted' \union {0}
  BY <1>0, <1>1 DEF Insert, TypeOK
<1>11. \A n \in Messages \ Posted' :
       /\ text'[n] = 0 /\ files'[n] = {} /\ origin'[n] = Nobody /\ reactions'[n] = {} /\ poll'[n] = "none"
       /\ latest'[n] = 0 /\ \A u \in Users : ballot'[n][u] = 0 /\ own'[n][u] = 0
  BY <1>0, <1>1, <1>8 DEF Insert, TypeOK
<1>12. TypeOK'
  BY <1>0, <1>1, <1>5, <1>7, <1>9, <1>10, <1>11 DEF TypeOK, Insert
<1>13. ClearedPosted'
  BY <1>0, <1>1, <1>4 DEF TypesInv, ClearedPosted, Insert, TypeOK
<1>14. ASSUME NEW y \in Requests \ {x}, NEW s \in RequestType, s = req[y], Placed(s), Holds(s) PROVE Holds(s)'
  <2>1. \A u : MayPost(u) => MayPost(u)'
    BY RightsStand DEF Insert
  <2>2. \A u, n : MayReply(u, n) => MayReply(u, n)' /\ author'[n] = author[n]
    <3>1. \A u, n : MayReply(u, n) => n \in Live
      BY DEF MayReply
    <3>2. \A n \in Live : n \in Live' /\ author'[n] = author[n]
      BY <1>2, <1>8 DEF Live
    <3> QED  BY <3>1, <3>2, RightsStand DEF Insert
  <2>3. s.at = "Edit" => s.m \in Posted /\ files'[s.m] = files[s.m]
    BY <1>0, <1>1, <1>8, <1>14, Counting DEF Placed
  <2> QED  BY <1>2, <1>14, <2>1, <2>2, <2>3 DEF Holds, Insert
<1>15. FreshOrStale'
  BY <1>0, <1>3, <1>14, ThenFresh DEF MessagesInv
<1>16. EditWhole'
  <2>1. files'[m] \subseteq {text'[m]}
    BY <1>0, <1>6 DEF Insert, TypeOK
  <2> QED  BY <1>8, <2>1 DEF MessagesInv, EditWhole, Insert, Writes
<1>17. ReceiptsAgree'
  BY DEF MessagesInv, ReceiptsAgree, Insert, Writes
<1> QED  BY <1>5, <1>12, <1>13, <1>15, <1>16, <1>17 DEF Kept, TypesInv

\* A statement that touches nothing that requests rely on and no message's content.
LEMMA ForwardOriginKeeps == ASSUME MessagesInv, NEW x \in Requests, ForwardOrigin(x) PROVE Kept
<1> USE DEF chatVars, standingVars, messageVars, pollVars, statusVars, memberVars
<1>0. TypesInv /\ TypeOK /\ Then(x, Idle, {}) /\ UNCHANGED state
  BY DEF MessagesInv, TypesInv, ForwardOrigin
<1>1. /\ req' \in [Requests -> RequestType] /\ ops' = ops /\ AllPlaced'
      /\ Posted' = Posted /\ Cardinality(Posted)' = Cardinality(Posted) /\ Live' = Live
  BY <1>0, IdleIs, PostedStands
<1>2. req[x].m \in Posted /\ Posted \subseteq Messages /\ req[x].whom \in Users \union {Nobody}
  BY <1>0, RecordIs, Counting DEF TypesInv, AllPlaced, Placed, ForwardOrigin, At
<1>3. TypeOK' /\ ClearedPosted'
  BY <1>0, <1>1, <1>2 DEF TypeOK, ForwardOrigin, TypesInv, ClearedPosted
<1>4. ASSUME NEW s \in RequestType, Holds(s) PROVE Holds(s)'
  BY <1>1, <1>4, RightsStand DEF Holds, ForwardOrigin, MayReply
<1>5. FreshOrStale'
  BY <1>0, <1>4, IdleIs, ThenFresh DEF MessagesInv
<1> QED  BY <1>1, <1>3, <1>5 DEF Kept, TypesInv, MessagesInv, EditWhole, ReceiptsAgree, ForwardOrigin

LEMMA PollRowKeeps == ASSUME MessagesInv, NEW x \in Requests, PollRow(x) PROVE Kept
<1> USE DEF chatVars, standingVars, messageVars, pollVars, statusVars, memberVars
<1>0. TypesInv /\ TypeOK /\ Then(x, Idle, {}) /\ UNCHANGED state
  BY DEF MessagesInv, TypesInv, PollRow
<1>1. /\ req' \in [Requests -> RequestType] /\ ops' = ops /\ AllPlaced'
      /\ Posted' = Posted /\ Cardinality(Posted)' = Cardinality(Posted) /\ Live' = Live
  BY <1>0, IdleIs, PostedStands
<1>2. req[x].m \in Posted /\ Posted \subseteq Messages
  BY <1>0, Counting DEF TypesInv, AllPlaced, Placed, PollRow, At
<1>3. TypeOK' /\ ClearedPosted'
  BY <1>0, <1>1, <1>2 DEF TypeOK, PollRow, TypesInv, ClearedPosted
<1>4. ASSUME NEW s \in RequestType, Placed(s), Holds(s) PROVE Holds(s)'
  <2>1. s.at = "Vote" => s.m \in Messages
    BY <1>2, <1>4 DEF Placed
  <2> QED  BY <1>0, <1>1, <1>4, <2>1, RightsStand DEF Holds, PollRow, MayReply, TypeOK
<1>5. FreshOrStale'
  BY <1>0, <1>4, IdleIs, ThenFresh DEF MessagesInv
<1> QED  BY <1>1, <1>3, <1>5 DEF Kept, TypesInv, MessagesInv, EditWhole, ReceiptsAgree, PollRow

LEMMA EditKeeps == ASSUME MessagesInv, NEW x \in Requests, UpdateMessageContent(x) PROVE Kept
<1> USE DEF chatVars, standingVars, messageVars, pollVars, statusVars, memberVars, Edited
<1>a. PICK m : m = req[x].m
  OBVIOUS
<1>0. TypesInv /\ TypeOK /\ Then(x, Idle, About(m, {"Edit"})) /\ UNCHANGED state /\ req[x].at = "Edit"
  BY <1>a DEF MessagesInv, TypesInv, UpdateMessageContent, At
<1>1. /\ req' \in [Requests -> RequestType] /\ ops' = ops /\ AllPlaced'
      /\ Posted' = Posted /\ Cardinality(Posted)' = Cardinality(Posted) /\ Live' = Live
  BY <1>0, IdleIs, PostedStands
<1>2. /\ m \in Posted /\ m \in Messages /\ req[x].tag \in Tags /\ Attached(x) \subseteq {req[x].tag}
      /\ req[x].stale \in BOOLEAN
  BY <1>0, <1>a, Counting, RecordIs DEF TypesInv, AllPlaced, Placed, Attached
<1>3. \/ /\ text' = [text EXCEPT ![m] = req[x].tag]
         /\ files' = [files EXCEPT ![m] = (files[m] \ req[x].rows) \union Attached(x)]
         /\ mixed' = IF req[x].stale THEN mixed \union {m} ELSE mixed \ {m}
      \/ UNCHANGED <<text, files, mixed>>
  BY <1>a DEF UpdateMessageContent, UpdateTo
<1>4. /\ text' \in [Messages -> Tags] /\ files' \in [Messages -> SUBSET Tags] /\ mixed' \subseteq Posted
      /\ \A n \in Messages \ {m} : text'[n] = text[n] /\ files'[n] = files[n] /\ (n \in mixed' <=> n \in mixed)
  <2>1. mixed' \subseteq Posted /\ \A n \in Messages \ {m} : n \in mixed' <=> n \in mixed
    BY <1>0, <1>2, <1>3 DEF TypeOK
  <2>2. PICK fs \in SUBSET Tags : fs = (files[m] \ req[x].rows) \union Attached(x)
    BY <1>0, <1>2 DEF TypeOK
  <2>3. \/ files' = [files EXCEPT ![m] = fs] /\ text' = [text EXCEPT ![m] = req[x].tag]
        \/ UNCHANGED <<text, files>>
    BY <1>3, <2>2
  <2> QED  BY <1>0, <1>2, <2>1, <2>3 DEF TypeOK
<1>5. TypeOK' /\ ClearedPosted'
  BY <1>0, <1>1, <1>2, <1>4 DEF TypeOK, UpdateMessageContent, TypesInv, ClearedPosted
<1>6. ASSUME NEW y \in Requests \ {x}, NEW s \in RequestType, s = req[y], y \notin About(m, {"Edit"}), Placed(s), Holds(s)
      PROVE  Holds(s)'
  <2>1. s.at = "Edit" => s.m # m /\ s.m \in Messages
    BY <1>0, <1>6, AboutIs, Counting DEF Placed
  <2>2. s.at = "Edit" => files'[s.m] = files[s.m]
    BY <1>4, <2>1
  <2> QED  BY <1>1, <1>6, <2>2, RightsStand DEF Holds, UpdateMessageContent, MayReply
<1>7. FreshOrStale'
  BY <1>0, <1>6, IdleIs, ThenFresh DEF MessagesInv
<1>8. EditWhole'
  <2>1. CASE UNCHANGED <<text, files, mixed>>
    BY <2>1 DEF MessagesInv, EditWhole
  <2>2. CASE /\ text' = [text EXCEPT ![m] = req[x].tag]
             /\ files' = [files EXCEPT ![m] = (files[m] \ req[x].rows) \union Attached(x)]
             /\ mixed' = IF req[x].stale THEN mixed \union {m} ELSE mixed \ {m}
    <3>1. req[x].stale \/ files[m] \subseteq req[x].rows
      BY <1>0, <1>a DEF MessagesInv, FreshOrStale, Holds
    <3>2. m \notin mixed' => files'[m] \subseteq {text'[m]}
      BY <1>0, <1>2, <2>2, <3>1 DEF TypeOK
    <3> QED  BY <1>4, <3>2 DEF MessagesInv, EditWhole
  <2> QED  BY <1>3, <2>1, <2>2
<1>9. ReceiptsAgree'
  BY DEF MessagesInv, ReceiptsAgree, UpdateMessageContent
<1> QED  BY <1>1, <1>5, <1>7, <1>8, <1>9 DEF Kept, TypesInv

LEMMA DeleteKeeps == ASSUME MessagesInv, NEW x \in Requests, SoftDeleteMessage(x) PROVE Kept
<1> USE DEF chatVars, standingVars, messageVars, pollVars, statusVars, memberVars
<1>a. PICK m : m = req[x].m
  OBVIOUS
<1>b. PICK hit : hit = About(m, {"React", "Vote", "ClosePoll", "Pin", "Insert"})
  OBVIOUS
<1>0. /\ TypesInv /\ TypeOK /\ Then(x, Idle, hit)
      /\ \/ m \in Live /\ state' = [state EXCEPT ![m] = "deleted"] /\ Writes(x)
         \/ UNCHANGED <<state, overtaken>>
  BY <1>a, <1>b DEF MessagesInv, TypesInv, SoftDeleteMessage
<1>1. /\ \A n \in Messages : state'[n] = "none" <=> state[n] = "none"
      /\ \A n \in Messages \ {m} : state'[n] = state[n]
  BY <1>0 DEF TypeOK, Live
<1>2. Posted' = Posted /\ Live \ {m} \subseteq Live'
  BY <1>1, SamePosted DEF Live
<1>3. Placed(Idle)' /\ Cardinality(Posted)' = Cardinality(Posted) /\ Cardinality(Posted) \in Nat
  BY <1>0, <1>2, IdleIs, Counting
<1>4. req' \in [Requests -> RequestType] /\ ops' = ops /\ AllPlaced'
  BY <1>0, <1>2, <1>3, IdleIs, ThenPlaces
<1>5. state' \in [Messages -> {"none", "live", "deleted"}] /\ overtaken' \in BOOLEAN
  <2>1. req[x].stale \in BOOLEAN
    BY <1>0, RecordIs
  <2> QED  BY <1>0, <2>1 DEF TypeOK, Writes
<1>6. TypeOK' /\ ClearedPosted'
  BY <1>0, <1>2, <1>3, <1>4, <1>5 DEF TypeOK, SoftDeleteMessage, TypesInv, ClearedPosted
<1>7. ASSUME NEW y \in Requests \ {x}, NEW s \in RequestType, s = req[y], y \notin hit, Placed(s), Holds(s)
      PROVE  Holds(s)'
  <2>1. s.at \in {"React", "Vote", "Insert"} => s.m # m
    BY <1>7, <1>b, AboutIs
  <2>2. s.at \in {"React", "Vote"} => s.m \in Live'
    BY <1>2, <1>7, <2>1 DEF Holds
  <2>3. s.at = "Insert" /\ MayReply(s.me, s.m) => MayReply(s.me, s.m)'
    BY <1>2, <2>1, RightsStand DEF MayReply, SoftDeleteMessage
  <2>4. MayPost(s.me) => MayPost(s.me)'
    BY RightsStand DEF SoftDeleteMessage
  <2> QED  BY <1>7, <2>2, <2>3, <2>4 DEF Holds, SoftDeleteMessage
<1>8. FreshOrStale'
  BY <1>0, <1>7, IdleIs, ThenFresh DEF MessagesInv
<1>9. EditWhole' /\ ReceiptsAgree'
  <2>1. overtaken => overtaken'
    BY <1>0 DEF Writes
  <2> QED  BY <2>1 DEF MessagesInv, EditWhole, ReceiptsAgree, SoftDeleteMessage, messageVars, statusVars
<1> QED  BY <1>4, <1>6, <1>8, <1>9 DEF Kept, TypesInv

LEMMA ReactionKeeps == ASSUME MessagesInv, NEW x \in Requests, ReactionWrite(x) PROVE Kept
<1> USE DEF chatVars, standingVars, messageVars, pollVars, statusVars, memberVars
<1>a. PICK hit : hit = About(req[x].m, {"React"}) \intersect By(req[x].me)
  OBVIOUS
<1>0. TypesInv /\ TypeOK /\ Then(x, Idle, hit) /\ UNCHANGED state /\ req[x].at = "React"
  BY <1>a DEF MessagesInv, TypesInv, ReactionWrite, At
<1>1. /\ req' \in [Requests -> RequestType] /\ ops' = ops /\ AllPlaced'
      /\ Posted' = Posted /\ Cardinality(Posted)' = Cardinality(Posted) /\ Live' = Live
  BY <1>0, IdleIs, PostedStands
<1>2. req[x].m \in Posted /\ req[x].me \in Users /\ req[x].stale \in BOOLEAN
  BY <1>0, RecordIs DEF TypesInv, AllPlaced, Placed
<1>3. PICK who : who \in SUBSET Users /\ reactions' = [reactions EXCEPT ![req[x].m] = who]
  <2>1. \A n \in Messages : reactions[n] \subseteq Users
    BY <1>0 DEF TypeOK
  <2>2. req[x].m \in Messages
    BY <1>0, <1>2, Counting
  <2> QED  BY <1>2, <2>1, <2>2 DEF ReactionWrite
<1>4. TypeOK' /\ ClearedPosted'
  <2>1. reactions' \in [Messages -> SUBSET Users] /\ Posted \subseteq Messages
    BY <1>0, <1>3, Counting DEF TypeOK
  <2>2. \A n \in Messages \ Posted : reactions'[n] = {}
    BY <1>0, <1>2, <1>3 DEF TypeOK
  <2>3. overtaken' \in BOOLEAN
    BY <1>0, <1>2 DEF TypeOK, ReactionWrite, Writes
  <2>4. UNCHANGED <<chatVars, standingVars, messageVars, pinned, pollVars, statusVars, memberVars>>
    BY <1>0 DEF ReactionWrite
  <2>5. TypeOK'
    BY <1>0, <1>1, <2>1, <2>2, <2>3, <2>4 DEF TypeOK
  <2> QED  BY <1>0, <1>1, <2>4, <2>5 DEF TypesInv, ClearedPosted
<1>5. ASSUME NEW s \in RequestType, Holds(s) PROVE Holds(s)'
  BY <1>1, <1>5, RightsStand DEF Holds, ReactionWrite, MayReply
<1>6. FreshOrStale'
  BY <1>0, <1>5, IdleIs, ThenFresh DEF MessagesInv
<1> QED  BY <1>1, <1>4, <1>6 DEF Kept, TypesInv, MessagesInv, EditWhole, ReceiptsAgree, ReactionWrite, Writes

LEMMA PinKeeps == ASSUME MessagesInv, NEW x \in Requests, SetChatPinnedMessage(x) PROVE Kept
<1> USE DEF chatVars, standingVars, messageVars, pollVars, statusVars, memberVars
<1>0. TypesInv /\ TypeOK /\ Then(x, Idle, {}) /\ UNCHANGED state /\ req[x].at = "Pin"
  BY DEF MessagesInv, TypesInv, SetChatPinnedMessage, At
<1>1. /\ req' \in [Requests -> RequestType] /\ ops' = ops /\ AllPlaced'
      /\ Posted' = Posted /\ Cardinality(Posted)' = Cardinality(Posted) /\ Live' = Live
  BY <1>0, IdleIs, PostedStands
<1>2. req[x].m \in Posted \union {0} /\ req[x].stale \in BOOLEAN
  BY <1>0, RecordIs DEF TypesInv, AllPlaced, Placed
<1>3. TypeOK' /\ ClearedPosted'
  BY <1>0, <1>1, <1>2 DEF TypeOK, SetChatPinnedMessage, TypesInv, ClearedPosted, Writes
<1>4. ASSUME NEW s \in RequestType, Holds(s) PROVE Holds(s)'
  BY <1>1, <1>4, RightsStand DEF Holds, SetChatPinnedMessage, MayReply
<1>5. FreshOrStale'
  BY <1>0, <1>4, IdleIs, ThenFresh DEF MessagesInv
<1> QED  BY <1>1, <1>3, <1>5 DEF Kept, TypesInv, MessagesInv, EditWhole, ReceiptsAgree, SetChatPinnedMessage, Writes

LEMMA VoteKeeps == ASSUME MessagesInv, NEW x \in Requests, UpsertVote(x) PROVE Kept
<1> USE DEF chatVars, standingVars, messageVars, pollVars, statusVars, memberVars
<1>a. PICK m, u, hit : m = req[x].m /\ u = req[x].me /\ hit = About(m, {"Vote"}) \intersect By(u)
  OBVIOUS
<1>0. /\ TypesInv /\ TypeOK /\ Then(x, Idle, hit) /\ UNCHANGED state /\ req[x].at = "Vote"
      /\ ballot' = [ballot EXCEPT ![m][u] = req[x].tag] /\ Writes(x)
  BY <1>a DEF MessagesInv, TypesInv, UpsertVote, At
<1>1. /\ req' \in [Requests -> RequestType] /\ ops' = ops /\ AllPlaced'
      /\ Posted' = Posted /\ Cardinality(Posted)' = Cardinality(Posted) /\ Live' = Live
  BY <1>0, IdleIs, PostedStands
<1>2. m \in Posted /\ m \in Messages /\ u \in Users /\ req[x].stale \in BOOLEAN /\ req[x].tag \in Tags
  BY <1>0, <1>a, RecordIs, Counting DEF TypesInv, AllPlaced, Placed
<1>3. /\ ballot' \in [Messages -> [Users -> Tags]]
      /\ \A n \in Messages, v \in Users : n # m \/ v # u => ballot'[n][v] = ballot[n][v]
  BY <1>0, <1>2 DEF TypeOK
<1>4. TypeOK' /\ ClearedPosted'
  BY <1>0, <1>1, <1>2, <1>3 DEF TypeOK, UpsertVote, TypesInv, ClearedPosted, Writes
<1>5. ASSUME NEW y \in Requests \ {x}, NEW s \in RequestType, s = req[y], y \notin hit, Placed(s), Holds(s)
      PROVE  Holds(s)'
  <2>1. s.at = "Vote" => s.m \in Messages /\ s.me \in Users /\ (s.m # m \/ s.me # u)
    BY <1>0, <1>2, <1>5, <1>a, AboutIs, Counting, MessagesAssumption DEF Placed
  <2> QED  BY <1>1, <1>3, <1>5, <2>1, RightsStand DEF Holds, UpsertVote, MayReply
<1>6. FreshOrStale'
  BY <1>0, <1>5, IdleIs, ThenFresh DEF MessagesInv
<1> QED  BY <1>1, <1>4, <1>6 DEF Kept, TypesInv, MessagesInv, EditWhole, ReceiptsAgree, UpsertVote, Writes

LEMMA ClosePollKeeps == ASSUME MessagesInv, NEW x \in Requests, ClosePollRow(x) PROVE Kept
<1> USE DEF chatVars, standingVars, messageVars, pollVars, statusVars, memberVars
<1>a. PICK m, hit : m = req[x].m /\ hit = About(m, {"Vote"})
  OBVIOUS
<1>0. /\ TypesInv /\ TypeOK /\ Then(x, Idle, hit) /\ UNCHANGED state /\ req[x].at = "ClosePoll"
      /\ poll' = [poll EXCEPT ![m] = "closed"] /\ Writes(x)
  BY <1>a DEF MessagesInv, TypesInv, ClosePollRow, At
<1>1. /\ req' \in [Requests -> RequestType] /\ ops' = ops /\ AllPlaced'
      /\ Posted' = Posted /\ Cardinality(Posted)' = Cardinality(Posted) /\ Live' = Live
  BY <1>0, IdleIs, PostedStands
<1>2. m \in Posted /\ m \in Messages /\ req[x].stale \in BOOLEAN
  BY <1>0, <1>a, RecordIs, Counting DEF TypesInv, AllPlaced, Placed
<1>3. TypeOK' /\ ClearedPosted'
  <2>1. poll' \in [Messages -> {"none", "open", "over", "closed"}]
    BY <1>0, <1>2 DEF TypeOK
  <2>2. \A n \in Messages \ Posted : poll'[n] = "none"
    BY <1>0, <1>2 DEF TypeOK
  <2>3. overtaken' \in BOOLEAN
    BY <1>0, <1>2 DEF TypeOK, Writes
  <2>4. TypeOK'
    BY <1>0, <1>1, <2>1, <2>2, <2>3 DEF TypeOK, ClosePollRow
  <2> QED  BY <1>0, <1>1, <2>4 DEF ClosePollRow, TypesInv, ClearedPosted
<1>4. ASSUME NEW y \in Requests \ {x}, NEW s \in RequestType, s = req[y], y \notin hit, Placed(s), Holds(s)
      PROVE  Holds(s)'
  <2>1. s.at = "Vote" => s.m \in Messages /\ s.m # m
    BY <1>0, <1>2, <1>4, <1>a, AboutIs, Counting DEF Placed
  <2>2. s.at = "Vote" => poll'[s.m] = poll[s.m]
    BY <1>0, <2>1 DEF TypeOK
  <2> QED  BY <1>1, <1>4, <2>2, RightsStand DEF Holds, ClosePollRow, MayReply
<1>5. FreshOrStale'
  BY <1>0, <1>4, IdleIs, ThenFresh DEF MessagesInv
<1> QED  BY <1>1, <1>3, <1>5 DEF Kept, TypesInv, MessagesInv, EditWhole, ReceiptsAgree, ClosePollRow, Writes

\* What a receipt writes for the message, whole or broken off.
ReceiptDone(x, whole) == LET m == req[x].m IN
  /\ At(x, "Receipt")
  /\ own' = [own EXCEPT ![m][req[x].me] = req[x].n]
  /\ latest' = IF whole /\ WritesLatest(x) THEN [latest EXCEPT ![m] = req[x].n] ELSE latest
  /\ lapsed' = IF whole /\ req[x].n = 2 THEN lapsed \ {m}
               ELSE IF ~whole \/ Misread(x) \/ req[x].stale THEN lapsed \union {m} ELSE lapsed
  /\ badge' \subseteq badge
  /\ Then(x, Idle, About(m, {"Receipt"}))
  /\ UNCHANGED <<chatVars, standingVars, messageVars, reactions, pinned, pollVars, cleared, overtaken>>

\* The latest status is that of a reader, and no reader has a higher one: the request that
\* writes has read both, is stale, has misread one, or marks the message as read.
LEMMA ReceiptKeeps ==
  ASSUME MessagesInv, NEW x \in Requests, NEW whole \in BOOLEAN, ReceiptDone(x, whole) PROVE Kept
<1> USE DEF chatVars, standingVars, messageVars, pollVars, statusVars, memberVars
<1>a. PICK m, u, n, hit : m = req[x].m /\ u = req[x].me /\ n = req[x].n /\ hit = About(m, {"Receipt"})
  OBVIOUS
<1>b. PICK both \in BOOLEAN : both = (whole /\ WritesLatest(x))
  OBVIOUS
<1>0. /\ TypesInv /\ TypeOK /\ Then(x, Idle, hit) /\ UNCHANGED state /\ req[x].at = "Receipt"
      /\ own' = [own EXCEPT ![m][u] = n]
      /\ latest' = IF both THEN [latest EXCEPT ![m] = n] ELSE latest
      /\ lapsed' = IF whole /\ n = 2 THEN lapsed \ {m}
                   ELSE IF ~whole \/ Misread(x) \/ req[x].stale THEN lapsed \union {m} ELSE lapsed
  BY <1>a, <1>b DEF MessagesInv, TypesInv, ReceiptDone, At
<1>1. /\ req' \in [Requests -> RequestType] /\ ops' = ops /\ AllPlaced'
      /\ Posted' = Posted /\ Cardinality(Posted)' = Cardinality(Posted) /\ Live' = Live
  BY <1>0, IdleIs, PostedStands
<1>2. /\ m \in Posted /\ m \in Messages /\ u \in Users /\ req[x].stale \in BOOLEAN /\ n \in 0..2
      /\ n = 2 => WritesLatest(x)
  <2>1. Placed(req[x]) /\ req[x].stale \in BOOLEAN
    BY <1>0, RecordIs DEF TypesInv, AllPlaced
  <2>2. req[x].m \in Posted /\ req[x].me \in Users /\ req[x].n \in 0..2
    BY <1>0, <2>1 DEF Placed
  <2>3. req[x].n = 2 => WritesLatest(x)
    BY <1>0, <2>1 DEF Placed, WritesLatest
  <2> QED  BY <1>0, <1>a, <2>1, <2>2, <2>3, Counting
<1>3. /\ own' \in [Messages -> [Users -> 0..2]] /\ latest' \in [Messages -> 0..2]
      /\ \A k \in Messages \ {m} : own'[k] = own[k] /\ latest'[k] = latest[k]
      /\ \A v \in Users \ {u} : own'[m][v] = own[m][v]
      /\ own'[m][u] = n /\ latest'[m] = IF both THEN n ELSE latest[m]
  BY <1>0, <1>2 DEF TypeOK
<1>4. badge' \subseteq Users /\ lapsed' \subseteq Posted /\ \A k \in Messages \ {m} : k \in lapsed' <=> k \in lapsed
  BY <1>0, <1>2 DEF TypeOK, ReceiptDone
<1>5. TypeOK' /\ ClearedPosted'
  BY <1>0, <1>1, <1>2, <1>3, <1>4 DEF TypeOK, ReceiptDone, TypesInv, ClearedPosted
<1>6. ASSUME NEW y \in Requests \ {x}, NEW s \in RequestType, s = req[y], y \notin hit, Placed(s), Holds(s)
      PROVE  Holds(s)'
  <2>1. s.at = "Receipt" => s.m \in Messages /\ s.m # m
    <3>1. s.at = "Receipt" => s.m \in Posted
      BY <1>6 DEF Placed
    <3>2. s.at = "Receipt" => s.m # m
      BY <1>6, <1>a DEF About
    <3> QED  BY <1>0, <3>1, <3>2, Counting
  <2>2. s.at = "Receipt" => own'[s.m] = own[s.m] /\ latest'[s.m] = latest[s.m]
    BY <1>3, <2>1
  <2> QED  BY <1>1, <1>6, <2>2, RightsStand DEF Holds, ReceiptDone, MayReply
<1>7. FreshOrStale'
  BY <1>0, <1>6, IdleIs, ThenFresh DEF MessagesInv
<1>8. ReceiptsAgree'
  <2> DEFINE Agrees(k) == /\ \A v \in Users : own[k][v] <= latest[k]
                          /\ latest[k] # 0 => \E v \in Users : own[k][v] = latest[k]
  <2>1. \A k \in Messages \ {m} : k \notin lapsed' =>
          /\ \A v \in Users : own'[k][v] <= latest'[k]
          /\ latest'[k] # 0 => \E v \in Users : own'[k][v] = latest'[k]
    <3>1. \A k \in Messages \ lapsed : Agrees(k)
      BY DEF MessagesInv, ReceiptsAgree
    <3> QED  BY <1>3, <1>4, <3>1
  <2>2. ASSUME m \notin lapsed'
        PROVE  /\ \A v \in Users : own'[m][v] <= latest'[m]
               /\ latest'[m] # 0 => \E v \in Users : own'[m][v] = latest'[m]
    <3>1. CASE whole /\ n = 2
      <4>1. latest'[m] = 2 /\ own'[m][u] = 2
        BY <1>2, <1>3, <1>b, <3>1
      <4> QED  BY <1>2, <1>3, <4>1
    <3>2. CASE ~(whole /\ n = 2)
      <4>1. whole /\ ~Misread(x) /\ ~req[x].stale /\ m \notin lapsed
        BY <1>0, <2>2, <3>2
      <4>2. own[m][u] <= n /\ (both <=> latest[m] <= n)
        <5>1. req[x].of \in {"own", "both"}
          <6>1. Placed(req[x])
            BY <1>0 DEF TypesInv, AllPlaced
          <6>2. req[x].of \in {"own", "both", "own misread", "both misread"}
            BY <1>0, <6>1 DEF Placed
          <6> QED  BY <4>1, <6>2 DEF Misread
        <5> QED  BY <1>0, <1>a, <1>b, <4>1, <5>1 DEF MessagesInv, FreshOrStale, Holds, WritesLatest
      <4>3. Agrees(m)
        BY <1>2, <4>1 DEF MessagesInv, ReceiptsAgree
      <4>4. own[m] \in [Users -> 0..2] /\ latest[m] \in 0..2
        BY <1>0, <1>2 DEF TypeOK
      <4>5. \A v \in Users : own'[m][v] <= latest'[m]
        BY <1>2, <1>3, <4>2, <4>3, <4>4
      <4>6. ASSUME latest'[m] # 0 PROVE \E v \in Users : own'[m][v] = latest'[m]
        <5>1. CASE both
          BY <1>2, <1>3, <5>1
        <5>2. CASE ~both
          <6>1. latest'[m] = latest[m] /\ n < latest[m]
            BY <1>2, <1>3, <4>2, <4>4, <5>2
          <6>2. PICK v \in Users : own[m][v] = latest[m]
            BY <1>2, <4>3, <4>6, <6>1
          <6>3. v # u
            BY <1>2, <4>2, <4>4, <6>1, <6>2
          <6> QED  BY <1>3, <6>1, <6>2, <6>3
        <5> QED  BY <5>1, <5>2
      <4> QED  BY <4>5, <4>6
    <3> QED  BY <3>1, <3>2
  <2> QED  BY <2>1, <2>2 DEF ReceiptsAgree
<1>9. EditWhole'
  BY DEF MessagesInv, EditWhole, ReceiptDone
<1> QED  BY <1>1, <1>5, <1>7, <1>8, <1>9 DEF Kept, TypesInv

LEMMA ClearKeeps == ASSUME MessagesInv, NEW x \in Requests, SetChatHistoryCleared(x) PROVE Kept
<1> USE DEF chatVars, standingVars, messageVars, pollVars, statusVars, memberVars
<1>a. PICK u, hit : u = req[x].me /\ hit = {y \in By(u) : At(y, "Clear")}
  OBVIOUS
<1>0. TypesInv /\ TypeOK /\ Then(x, Idle, hit) /\ UNCHANGED state /\ req[x].at = "Clear" /\ Writes(x)
  BY <1>a DEF MessagesInv, TypesInv, SetChatHistoryCleared, At
<1>1. /\ req' \in [Requests -> RequestType] /\ ops' = ops /\ AllPlaced'
      /\ Posted' = Posted /\ Cardinality(Posted)' = Cardinality(Posted) /\ Live' = Live
  BY <1>0, IdleIs, PostedStands
<1>2. u \in Users /\ req[x].stale \in BOOLEAN /\ req[x].n \in Nat /\ Cardinality(Posted) \in 0..MaxMessages
  BY <1>0, <1>a, RecordIs, Counting DEF TypesInv, AllPlaced, Placed
<1>3. PICK t \in req[x].n..Cardinality(Posted) : cleared' = [cleared EXCEPT ![u] = t]
  BY <1>a DEF SetChatHistoryCleared
<1>4. /\ cleared' \in [Users -> 0..MaxMessages] /\ \A v \in Users \ {u} : cleared'[v] = cleared[v]
      /\ cleared'[u] <= Cardinality(Posted)
  BY <1>0, <1>2, <1>3, MessagesAssumption DEF TypeOK
<1>5. badge' \subseteq Users
  BY <1>0 DEF TypeOK, SetChatHistoryCleared, ResetChatUnread
<1>6. TypeOK' /\ ClearedPosted'
  BY <1>0, <1>1, <1>2, <1>4, <1>5 DEF TypeOK, SetChatHistoryCleared, TypesInv, ClearedPosted, Writes
<1>7. ASSUME NEW y \in Requests \ {x}, NEW s \in RequestType, s = req[y], y \notin hit, Placed(s), Holds(s)
      PROVE  Holds(s)'
  <2>1. s.at = "Clear" => s.me \in Users /\ s.me # u
    BY <1>0, <1>2, <1>7, <1>a, MessagesAssumption DEF Placed, By, At
  <2>2. s.at = "Clear" => cleared'[s.me] = cleared[s.me]
    BY <1>4, <2>1
  <2> QED  BY <1>1, <1>7, <2>2, RightsStand DEF Holds, SetChatHistoryCleared, MayReply
<1>8. FreshOrStale'
  BY <1>0, <1>7, IdleIs, ThenFresh DEF MessagesInv
<1> QED  BY <1>1, <1>6, <1>8 DEF Kept, TypesInv, MessagesInv, EditWhole, ReceiptsAgree, SetChatHistoryCleared, Writes

LEMMA ModerationKeeps ==
  ASSUME MessagesInv, NEW x \in Requests, NEW what, ModerationRow(x, what), 
         banned' \subseteq Users, muted' \subseteq Users,
         \A v \in Users \ {req[x].whom} : (v \in banned' <=> v \in banned) /\ (v \in muted' <=> v \in muted)
  PROVE  Kept
<1> USE DEF chatVars, messageVars, pollVars, statusVars, memberVars
<1>a. PICK u, hit : u = req[x].whom /\ hit = By(u)
  OBVIOUS
<1>0. /\ TypesInv /\ TypeOK /\ Then(x, Idle, hit) /\ UNCHANGED state /\ req[x].at = "Moderate" /\ Writes(x)
  BY <1>a DEF MessagesInv, TypesInv, ModerationRow, At
<1>1. /\ req' \in [Requests -> RequestType] /\ ops' = ops /\ AllPlaced'
      /\ Posted' = Posted /\ Cardinality(Posted)' = Cardinality(Posted) /\ Live' = Live
  BY <1>0, IdleIs, PostedStands
<1>2. u \in Users /\ req[x].stale \in BOOLEAN
  BY <1>0, <1>a, RecordIs DEF TypesInv, AllPlaced, Placed
<1>3. TypeOK' /\ ClearedPosted'
  <2>1. overtaken' \in BOOLEAN
    BY <1>0, <1>2 DEF TypeOK, Writes
  <2>2. TypeOK'
    BY <1>0, <1>1, <2>1 DEF TypeOK, ModerationRow
  <2> QED  BY <1>0, <1>1, <2>2 DEF ModerationRow, TypesInv, ClearedPosted
<1>4. ASSUME NEW y \in Requests \ {x}, NEW s \in RequestType, s = req[y], y \notin hit, Placed(s), Holds(s)
      PROVE  Holds(s)'
  <2>1. s.me \in Users \union {Nobody} /\ s.me # u
    BY <1>0, <1>2, <1>4, <1>a, AboutIs, RecordIs, MessagesAssumption
  <2>2. ASSUME s.me # Nobody PROVE (MayPost(s.me) => MayPost(s.me)') /\ (MayReply(s.me, s.m) => MayReply(s.me, s.m)')
    <3>1. (s.me \in banned' <=> s.me \in banned) /\ (s.me \in muted' <=> s.me \in muted)
      BY <1>a, <2>1, <2>2
    <3> QED  BY <1>1, <3>1 DEF MayPost, MayReply, Member, CanPostIntoChannel, Standalone, ModerationRow
  <2> QED  BY <1>1, <1>4, <2>2 DEF Holds, ModerationRow
<1>5. FreshOrStale'
  BY <1>0, <1>4, IdleIs, ThenFresh DEF MessagesInv
<1> QED  BY <1>1, <1>3, <1>5 DEF Kept, TypesInv, MessagesInv, EditWhole, ReceiptsAgree, ModerationRow, Writes

LEMMA StatementKeeps == ASSUME MessagesInv, NEW x \in Requests, Statements(x) PROVE Kept
<1>1. ASSUME \/ UpsertPublicChannelBan(x) \/ DeletePublicChannelBan(x)
             \/ UpsertPublicChannelMute(x) \/ DeletePublicChannelMute(x)
      PROVE  Kept
  <2>1. PICK what : /\ ModerationRow(x, what)
                    /\ \/ banned' \in {banned \union {req[x].whom}, banned \ {req[x].whom}} /\ UNCHANGED muted
                       \/ muted' \in {muted \union {req[x].whom}, muted \ {req[x].whom}} /\ UNCHANGED banned
    BY <1>1 DEF UpsertPublicChannelBan, DeletePublicChannelBan, UpsertPublicChannelMute, DeletePublicChannelMute
  <2>2. banned \subseteq Users /\ muted \subseteq Users /\ req[x].whom \in Users
    BY <2>1 DEF MessagesInv, TypesInv, TypeOK, AllPlaced, Placed, ModerationRow, At
  <2>3. /\ banned' \subseteq Users /\ muted' \subseteq Users
        /\ \A v \in Users \ {req[x].whom} : (v \in banned' <=> v \in banned) /\ (v \in muted' <=> v \in muted)
    BY <2>1, <2>2
  <2> QED  BY <2>1, <2>3, ModerationKeeps
<1>2. ASSUME ReceiptWrite(x) \/ ReceiptBreaksOff(x) PROVE Kept
  <2>1. ReceiptWrite(x) => ReceiptDone(x, TRUE)
    BY DEF ReceiptWrite, ReceiptDone, ResetChatUnread
  <2>2. ReceiptBreaksOff(x) => ReceiptDone(x, FALSE)
    BY DEF ReceiptBreaksOff, ReceiptDone, memberVars
  <2> QED  BY <1>2, <2>1, <2>2, ReceiptKeeps
<1> QED  BY <1>1, <1>2, InsertKeeps, ForwardOriginKeeps, PollRowKeeps, EditKeeps, DeleteKeeps, ReactionKeeps, PinKeeps,
            VoteKeeps, ClosePollKeeps, ClearKeeps DEF Statements
-----------------------------------------------------------------------------
(* Steps that are nobody's statement.                                      *)

LEMMA MarkChatReadKeeps == ASSUME MessagesInv, MarkChatRead PROVE Kept
<1> USE DEF chatVars, standingVars, messageVars, pollVars, statusVars, memberVars
<1>0. TypesInv /\ TypeOK
  BY DEF MessagesInv, TypesInv
<1>1. /\ Posted' = Posted /\ Cardinality(Posted)' = Cardinality(Posted) /\ Live' = Live
      /\ ops < MaxOps /\ ops' = ops + 1 /\ badge' \subseteq badge /\ UNCHANGED <<req, overtaken>>
  BY DEF MarkChatRead, Posted, Live, ResetChatUnread
<1>2. TypeOK'
  BY <1>0, <1>1, MessagesAssumption DEF TypeOK, MarkChatRead
<1>3. AllPlaced' /\ ClearedPosted'
  BY <1>0, <1>1 DEF TypesInv, AllPlaced, Placed, ClearedPosted, MarkChatRead
<1>4. \A s : Holds(s) => Holds(s)'
  BY <1>1, RightsStand DEF Holds, MarkChatRead, MayReply
<1>5. FreshOrStale'
  <2>1. \A y \in Requests : \A s : s = req[y] => s.stale \/ Holds(s)'
    BY <1>4 DEF MessagesInv, FreshOrStale
  <2> QED  BY <1>1, <2>1 DEF FreshOrStale
<1> QED  BY <1>2, <1>3, <1>5 DEF Kept, TypesInv, MessagesInv, EditWhole, ReceiptsAgree, MarkChatRead

\* The requests that are stale after a step of nobody's.
LEMMA StaleIs ==
  ASSUME TypeOK, NEW hit, req' = [y \in Requests |-> [req[y] EXCEPT !.stale = @ \/ y \in hit]]
  PROVE  /\ req' \in [Requests -> RequestType]
         /\ \A y \in Requests :
              /\ req'[y].at = req[y].at /\ req'[y].me = req[y].me /\ req'[y].m = req[y].m
              /\ req'[y].of = req[y].of /\ req'[y].whom = req[y].whom /\ req'[y].n = req[y].n
              /\ req'[y].rows = req[y].rows /\ req'[y].stale = (req[y].stale \/ y \in hit)
<1>1. ASSUME NEW y \in Requests
      PROVE  /\ req'[y] \in RequestType
             /\ req'[y].at = req[y].at /\ req'[y].me = req[y].me /\ req'[y].m = req[y].m
             /\ req'[y].of = req[y].of /\ req'[y].whom = req[y].whom /\ req'[y].n = req[y].n
             /\ req'[y].rows = req[y].rows /\ req'[y].stale = (req[y].stale \/ y \in hit)
  <2>1. req[y] \in RequestType
    BY DEF TypeOK
  <2>2. req'[y] = [req[y] EXCEPT !.stale = @ \/ y \in hit]
    OBVIOUS
  <2>3. (req[y].stale \/ y \in hit) \in BOOLEAN
    BY <2>1 DEF RequestType
  <2> QED  BY <2>1, <2>2, <2>3 DEF RequestType
<1> QED  BY <1>1

LEMMA StaleKeeps ==
  ASSUME TypesInv, FreshOrStale, NEW hit,
         req' = [y \in Requests |-> [req[y] EXCEPT !.stale = @ \/ y \in hit]], UNCHANGED state,
         \A y \in Requests : \A s \in RequestType :
           s = req[y] /\ y \notin hit /\ Placed(s) /\ Holds(s) => Holds(s)'
  PROVE  req' \in [Requests -> RequestType] /\ AllPlaced' /\ FreshOrStale'
<1>1. TypeOK /\ Posted' = Posted /\ Cardinality(Posted)' = Cardinality(Posted)
  BY DEF TypesInv, Posted
<1>3. /\ req' \in [Requests -> RequestType]
      /\ \A y \in Requests :
           /\ req'[y].at = req[y].at /\ req'[y].me = req[y].me /\ req'[y].m = req[y].m
           /\ req'[y].of = req[y].of /\ req'[y].whom = req[y].whom /\ req'[y].n = req[y].n
           /\ req'[y].rows = req[y].rows /\ req'[y].stale = (req[y].stale \/ y \in hit)
  BY <1>1, StaleIs, Zenon
<1>2. ASSUME NEW y \in Requests, NEW t, t = req'[y] PROVE Placed(t)' /\ (t.stale \/ Holds(t)')
  <2>1. PICK s \in RequestType : s = req[y]
    BY <1>1, RecordIs
  <2>2. t.stale = (s.stale \/ y \in hit)
    BY <1>2, <1>3, <2>1
  <2>3. Placed(s) /\ (s.stale \/ Holds(s))
    BY <2>1 DEF TypesInv, AllPlaced, FreshOrStale
  <2>4. s.stale \/ y \in hit \/ Holds(s)'
    BY <2>1, <2>3
  <2>5. /\ t.at = s.at /\ t.m = s.m /\ t.me = s.me /\ t.whom = s.whom /\ t.n = s.n /\ t.of = s.of
        /\ t.rows = s.rows
    BY <1>2, <1>3, <2>1
  <2>6. Holds(s)' => Holds(t)'
    BY <2>5 DEF Holds
  <2>7. Placed(t)'
    BY <1>1, <2>3, <2>5 DEF Placed
  <2> QED  BY <2>2, <2>4, <2>6, <2>7
<1> QED  BY <1>2, <1>3 DEF AllPlaced, FreshOrStale

LEMMA ExpiryKeeps == ASSUME MessagesInv, PollExpires PROVE Kept
<1> USE DEF chatVars, standingVars, messageVars, pollVars, statusVars, memberVars
<1>0. TypesInv /\ TypeOK /\ FreshOrStale /\ UNCHANGED state
  BY DEF MessagesInv, TypesInv, PollExpires
<1>1. PICK m \in Messages :
        /\ poll[m] = "open" /\ poll' = [poll EXCEPT ![m] = "over"]
        /\ req' = [y \in Requests |-> [req[y] EXCEPT !.stale = @ \/ y \in About(m, {"Vote"})]]
  BY DEF PollExpires
<1>2. Posted' = Posted /\ Cardinality(Posted)' = Cardinality(Posted) /\ Live' = Live /\ Posted \subseteq Messages
  BY <1>0, Counting DEF Posted, Live
<1>3. ASSUME NEW y \in Requests, NEW s \in RequestType, s = req[y], y \notin About(m, {"Vote"}), Placed(s), Holds(s)
      PROVE  Holds(s)'
  <2>1. s.at = "Vote" => s.m \in Messages /\ s.m # m
    BY <1>2, <1>3, AboutIs DEF Placed
  <2>2. s.at = "Vote" => poll'[s.m] = poll[s.m]
    BY <1>0, <1>1, <2>1 DEF TypeOK
  <2> QED  BY <1>2, <1>3, <2>2, RightsStand DEF Holds, PollExpires, MayReply
<1>4. req' \in [Requests -> RequestType] /\ AllPlaced' /\ FreshOrStale'
  BY <1>0, <1>1, <1>3, StaleKeeps
<1>5. TypeOK' /\ ClearedPosted'
  <2>1. poll' \in [Messages -> {"none", "open", "over", "closed"}]
    BY <1>0, <1>1 DEF TypeOK
  <2>2. \A n \in Messages \ Posted : poll'[n] = "none"
    BY <1>0, <1>1 DEF TypeOK
  <2>3. TypeOK'
    BY <1>0, <1>2, <1>4, <2>1, <2>2 DEF TypeOK, PollExpires
  <2> QED  BY <1>0, <1>2, <2>3 DEF PollExpires, TypesInv, ClearedPosted
<1> QED  BY <1>4, <1>5 DEF Kept, TypesInv, MessagesInv, EditWhole, ReceiptsAgree, PollExpires

LEMMA RoleChangesKeep == ASSUME MessagesInv, RoleChanges PROVE Kept
<1> USE DEF chatVars, messageVars, pollVars, statusVars, memberVars
<1>0. TypesInv /\ TypeOK /\ FreshOrStale /\ UNCHANGED state
  BY DEF MessagesInv, TypesInv, RoleChanges
<1>1. PICK u \in Users, r \in {"admin", "member", "absent"} :
        /\ role' = [role EXCEPT ![u] = r] /\ ops < MaxOps /\ ops' = ops + 1
        /\ req' = [y \in Requests |-> [req[y] EXCEPT !.stale = @ \/ y \in By(u) \/ req[y].whom = u]]
  BY DEF RoleChanges
<1>2. PICK hit : hit = {y \in Requests : y \in By(u) \/ req[y].whom = u}
  OBVIOUS
<1>3. req' = [y \in Requests |-> [req[y] EXCEPT !.stale = @ \/ y \in hit]]
  BY <1>1, <1>2
<1>4. Posted' = Posted /\ Cardinality(Posted)' = Cardinality(Posted) /\ Live' = Live
  BY <1>0 DEF Posted, Live
<1>5. /\ role' \in [Users -> Roles] /\ \A v \in Users \ {u} : role'[v] = role[v]
  BY <1>0, <1>1 DEF TypeOK, Roles
<1>6. ASSUME NEW y \in Requests, NEW s \in RequestType, s = req[y], y \notin hit, Placed(s), Holds(s)
      PROVE  Holds(s)'
  <2>1. s.me \in Users \union {Nobody} /\ s.me # u /\ s.whom # u
    BY <1>0, <1>2, <1>6, AboutIs, RecordIs, MessagesAssumption
  <2>2. ASSUME s.me # Nobody PROVE MayPost(s.me) => MayPost(s.me)'
    BY <1>5, <2>1, <2>2 DEF MayPost, Member, CanPostIntoChannel, Standalone, RoleChanges, standingVars
  <2>3. ASSUME s.me # Nobody, MayReply(s.me, s.m), s.whom = author[s.m] PROVE MayReply(s.me, s.m)'
    <3>1. author[s.m] \in Users
      BY <1>0, <2>3 DEF MayReply, TypeOK, Live
    <3> QED  BY <1>4, <1>5, <2>1, <2>3, <3>1 DEF MayReply, Standalone, RoleChanges
  <2> QED  BY <1>4, <1>6, <2>2, <2>3 DEF Holds, RoleChanges
<1>7. req' \in [Requests -> RequestType] /\ AllPlaced' /\ FreshOrStale'
  BY <1>0, <1>3, <1>6, StaleKeeps
<1>8. TypeOK' /\ ClearedPosted'
  <2>1. TypeOK'
    BY <1>0, <1>1, <1>4, <1>5, <1>7, MessagesAssumption DEF TypeOK, RoleChanges
  <2> QED  BY <1>0, <1>4, <2>1 DEF RoleChanges, TypesInv, ClearedPosted
<1> QED  BY <1>7, <1>8 DEF Kept, TypesInv, MessagesInv, EditWhole, ReceiptsAgree, RoleChanges
-----------------------------------------------------------------------------
(* The invariant, and the properties that follow from it.                  *)

LEMMA MessagesStart == Init => MessagesInv
<1> SUFFICES ASSUME Init PROVE MessagesInv
  OBVIOUS
<1>1. 1 \in Messages /\ \A m \in Messages : state[m] # "none" <=> m = 1
  BY MessagesAssumption DEF Init, Messages
<1>2. Posted = 1..1
  BY <1>1 DEF Posted
<1>3. Cardinality(Posted) = 1
  <2>1. Cardinality({1}) = 1
    BY FS_Singleton
  <2>2. 1..1 = {1}
    OBVIOUS
  <2> QED  BY <1>2, <2>1, <2>2
<1>4. \A x \in Requests : req[x] = Idle
  BY DEF Init
<1>5. role \in [Users -> Roles]
  BY DEF Init, Roles
<1>6. /\ author \in [Messages -> Users \union {Nobody}] /\ state \in [Messages -> {"none", "live", "deleted"}]
      /\ poll \in [Messages -> {"none", "open", "over", "closed"}]
      /\ \A m \in Messages : m # 1 => poll[m] = "none"
  BY <1>1 DEF Init
<1>7. revoting \in BOOLEAN /\ restricted \in BOOLEAN /\ comments \in BOOLEAN
  BY DEF Init
<1>8. TypeOK
  <2>1. req \in [Requests -> RequestType] /\ 0 \in Tags /\ 0 \in 0..MaxMessages /\ ops \in 0..MaxOps
    BY IdleIs, MessagesAssumption DEF Init, Tags
  <2>2. \A m \in Messages \ Posted :
       /\ text[m] = 0 /\ files[m] = {} /\ origin[m] = Nobody /\ reactions[m] = {} /\ poll[m] = "none"
       /\ latest[m] = 0 /\ \A u \in Users : ballot[m][u] = 0 /\ own[m][u] = 0
    BY <1>2, <1>6 DEF Init
  <2>3. /\ text \in [Messages -> Tags] /\ files \in [Messages -> SUBSET Tags]
        /\ origin \in [Messages -> Users \union {Nobody}] /\ reactions \in [Messages -> SUBSET Users]
        /\ ballot \in [Messages -> [Users -> Tags]] /\ cleared \in [Users -> 0..MaxMessages]
        /\ own \in [Messages -> [Users -> 0..2]] /\ latest \in [Messages -> 0..2]
    BY <2>1 DEF Init
  <2>4. /\ kind \in Kinds /\ banned \subseteq Users /\ muted \subseteq Users /\ badge \subseteq Users
        /\ pinned = 0 /\ overtaken \in BOOLEAN /\ mixed = {} /\ lapsed = {}
    BY DEF Init
  <2> QED  BY <1>2, <1>3, <1>5, <1>6, <1>7, <2>1, <2>2, <2>3, <2>4 DEF TypeOK
<1>9. AllPlaced /\ FreshOrStale
  BY <1>4, IdleIs DEF AllPlaced, FreshOrStale
<1>10. ClearedPosted
  BY <1>3 DEF Init, ClearedPosted
<1>11. EditWhole /\ ReceiptsAgree
  BY DEF Init, EditWhole, ReceiptsAgree
<1> QED  BY <1>8, <1>9, <1>10, <1>11 DEF MessagesInv, TypesInv

LEMMA MessagesStep == MessagesInv /\ [Next]_vars => MessagesInv'
<1> SUFFICES ASSUME MessagesInv, [Next]_vars PROVE Kept
  BY DEF Kept, MessagesInv
<1>1. ASSUME NEW x \in Requests, Requested(x) PROVE Kept
  <2>1. TypesInv /\ ops < MaxOps
    BY <1>1 DEF Requested, MessagesInv
  <2>2. PICK r : Begins(x, r)
    BY <1>1, <2>1, RequestBegins
  <2> QED  BY <2>1, <2>2, BeginsKeeps DEF Kept, MessagesInv
<1>2. CASE UNCHANGED vars
  <2> USE DEF vars, chatVars, standingVars, messageVars, pollVars, statusVars, memberVars
  <2>1. Posted' = Posted /\ Live' = Live
    BY <1>2 DEF Posted, Live
  <2>2. TypeOK' /\ ClearedPosted'
    BY <1>2, <2>1 DEF MessagesInv, TypesInv, TypeOK, ClearedPosted
  <2>3. \A s : (Placed(s) => Placed(s)') /\ (Holds(s) => Holds(s)')
    <3>1. ASSUME NEW s, Placed(s) PROVE Placed(s)'
      BY <2>1, <3>1 DEF Placed
    <3>2. ASSUME NEW s, Holds(s) PROVE Holds(s)'
      BY <1>2, <2>1, <3>2, RightsStand DEF Holds, MayReply
    <3> QED  BY <3>1, <3>2
  <2>4. \A x \in Requests : \A s : s = req[x] => Placed(s)' /\ (s.stale \/ Holds(s)')
    BY <2>3 DEF MessagesInv, TypesInv, AllPlaced, FreshOrStale
  <2>5. AllPlaced' /\ FreshOrStale'
    BY <1>2, <2>4 DEF AllPlaced, FreshOrStale
  <2> QED  BY <1>2, <2>2, <2>5 DEF Kept, MessagesInv, TypesInv, EditWhole, ReceiptsAgree
<1> QED  BY <1>1, <1>2, StatementKeeps, MarkChatReadKeeps, ExpiryKeeps, RoleChangesKeep DEF Next

LEMMA MessagesAlways == Spec => []MessagesInv
BY MessagesStart, MessagesStep, PTL DEF Spec

\* What is posted is numbered in its order, and only what is posted has content, reactions, votes,
\* receipts or a place on top.
THEOREM OnlyThePostedHasAnything == Spec => []TypeOK
<1>1. MessagesInv => TypeOK
  BY DEF MessagesInv, TypesInv
<1> QED  BY <1>1, MessagesAlways, PTL

\* However many edits of a message are under way, it has the files of the edit its text is of
\* (UpdateMessageContent), from the first edit on that no other one and no change of standing
\* overlapped (EditWhole).
THEOREM EditsStayWhole == Spec => []EditWhole
<1>1. MessagesInv => EditWhole
  BY DEF MessagesInv
<1> QED  BY <1>1, MessagesAlways, PTL

\* For any number of readers, the status an author is shown is the highest any of them has
\* (UpsertMessageStatus): what a race, a failed read or a broken pipeline makes of it ends
\* when the message is next marked as read (ReceiptsAgree).
THEOREM ReceiptsStayAgreed == Spec => []ReceiptsAgree
<1>1. MessagesInv => ReceiptsAgree
  BY DEF MessagesInv
<1> QED  BY <1>1, MessagesAlways, PTL

\* What statements there are, as far as they post, vote or touch what is deleted or cleared.
LEMMA StatementsAre ==
  ASSUME MessagesInv, [Next]_vars
  PROVE  \/ \E x \in Requests : Insert(x)
         \/ \E x \in Requests : UpdateMessageContent(x)
         \/ \E x \in Requests : SoftDeleteMessage(x)
         \/ \E x \in Requests : ReactionWrite(x)
         \/ \E x \in Requests : UpsertVote(x)
         \/ \E x \in Requests : SetChatHistoryCleared(x)
         \/ UNCHANGED <<author, state, text, files, reactions, ballot, cleared>>
<1> USE DEF chatVars, standingVars, messageVars, pollVars, statusVars, memberVars
<1>1. ASSUME NEW x \in Requests, Requested(x) PROVE UNCHANGED <<author, state, text, files, reactions, ballot, cleared>>
  <2>1. PICK r : Begins(x, r)
    BY <1>1, RequestBegins DEF MessagesInv
  <2> QED  BY <2>1 DEF Begins
<1>2. ASSUME NEW x \in Requests, Statements(x),
             ~(\/ Insert(x) \/ UpdateMessageContent(x) \/ SoftDeleteMessage(x) \/ ReactionWrite(x) \/ UpsertVote(x)
               \/ SetChatHistoryCleared(x))
      PROVE  UNCHANGED <<author, state, text, files, reactions, ballot, cleared>>
  BY <1>2 DEF Statements, ForwardOrigin, PollRow, SetChatPinnedMessage, ClosePollRow, ReceiptWrite, ReceiptBreaksOff, ModerationRow,
              UpsertPublicChannelBan, DeletePublicChannelBan, UpsertPublicChannelMute, DeletePublicChannelMute
<1>3. CASE MarkChatRead \/ PollExpires \/ RoleChanges \/ UNCHANGED vars
  BY <1>3 DEF MarkChatRead, PollExpires, RoleChanges, vars
<1> QED  BY <1>1, <1>2, <1>3 DEF Next

\* Forwarding, sending a poll, replying and posting: whoever posts may do so at that moment
\* (CreateMessage, ForwardMessage), unless his standing was changed after it was read.
THEOREM OnlyTheEntitledPost == Spec => EntitledToPost
<1> DEFINE Entitled == \A m \in Messages : state[m] = "none" /\ state'[m] = "live" =>
             \/ author'[m] = Nobody \/ overtaken'
             \/ MayPost(author'[m]) \/ \E n \in Live : MayReply(author'[m], n)
<1>1. ASSUME MessagesInv, [Next]_vars PROVE Entitled
  <2>0. TypeOK
    BY <1>1 DEF MessagesInv, TypesInv
  <2>1. ASSUME NEW x \in Requests, Insert(x) PROVE Entitled
    <3>1. PICK k : k = Cardinality(Posted) + 1
      OBVIOUS
    <3>2. /\ state' = [state EXCEPT ![k] = "live"] /\ author' = [author EXCEPT ![k] = req[x].me] /\ k \in Messages
          /\ Writes(x) /\ req[x].at = "Insert"
      BY <2>1, <3>1 DEF Insert, At
    <3>3. req[x].stale \/ req[x].me = Nobody \/ MayPost(req[x].me) \/ MayReply(req[x].me, req[x].m)
      BY <1>1, <3>2 DEF MessagesInv, FreshOrStale, Holds
    <3>4. \A u, n : MayReply(u, n) => n \in Live
      BY DEF MayReply
    <3>5. ASSUME NEW m \in Messages, state[m] = "none", state'[m] = "live" PROVE author'[m] = req[x].me
      BY <2>0, <3>2, <3>5 DEF TypeOK
    <3> QED  BY <3>2, <3>3, <3>4, <3>5 DEF Writes
  <2>2. ASSUME NEW x \in Requests, SoftDeleteMessage(x) PROVE Entitled
    BY <2>0, <2>2 DEF SoftDeleteMessage, TypeOK
  <2>3. CASE UNCHANGED state
    BY <2>3
  <2>4. ASSUME NEW x \in Requests, UpdateMessageContent(x) \/ ReactionWrite(x) \/ UpsertVote(x) \/ SetChatHistoryCleared(x)
        PROVE  UNCHANGED state
    BY <2>4 DEF UpdateMessageContent, Edited, ReactionWrite, UpsertVote, SetChatHistoryCleared, messageVars
  <2> QED  BY <1>1, <2>1, <2>2, <2>3, <2>4, StatementsAre
<1>2. MessagesInv /\ [Next]_vars => [Entitled]_vars
  BY <1>1
<1> QED  BY <1>2, MessagesAlways, PTL DEF Spec, EntitledToPost

\* What is deleted is not touched by an edit, a vote or a reaction on its way, and what a user has
\* cleared away stays away (SoftDeleteMessage, SetChatHistoryCleared), however they cross.
THEOREM NothingEverComesBack == Spec => NothingComesBack
<1> DEFINE StaysDeleted == \A m \in Messages : state[m] = "deleted" =>
             /\ state'[m] = "deleted" /\ text'[m] = text[m] /\ files'[m] = files[m]
             /\ (overtaken' \/ (reactions'[m] = reactions[m] /\ ballot'[m] = ballot[m]))
           StaysAway == \/ overtaken'
                        \/ \A u \in Users : ListMessages(u)' \intersect Posted \subseteq ListMessages(u)
<1> USE DEF messageVars, pollVars, memberVars
<1>1. ASSUME MessagesInv, [Next]_vars PROVE StaysDeleted /\ StaysAway
  <2>0. TypeOK
    BY <1>1 DEF MessagesInv, TypesInv
  <2>1. ASSUME NEW x \in Requests, Insert(x) PROVE StaysDeleted /\ UNCHANGED cleared /\ Live' \intersect Posted \subseteq Live
    <3>1. PICK k \in Messages :
            /\ k = Cardinality(Posted) + 1 /\ state' = [state EXCEPT ![k] = "live"]
            /\ text' = [text EXCEPT ![k] = req[x].tag] /\ files' = [files EXCEPT ![k] = Attached(x)]
            /\ UNCHANGED <<reactions, ballot, cleared>>
      BY <2>1 DEF Insert
    <3>2. k \notin Posted /\ state[k] = "none"
      BY <2>0, <3>1, InsertCounts
    <3>3. \A m \in Messages \ {k} : state'[m] = state[m] /\ text'[m] = text[m] /\ files'[m] = files[m]
      BY <2>0, <3>1 DEF TypeOK
    <3>4. Live' \intersect Posted \subseteq Live
      BY <3>2, <3>3 DEF Live
    <3> QED  BY <3>1, <3>2, <3>3, <3>4
  <2>2. ASSUME NEW x \in Requests, UpdateMessageContent(x)
        PROVE  StaysDeleted /\ UNCHANGED cleared /\ Live' \intersect Posted \subseteq Live
    <3>1. PICK k : k = req[x].m
      OBVIOUS
    <3>2. \/ UNCHANGED <<text, files>>
          \/ /\ state[k] = "live" /\ text' = [text EXCEPT ![k] = req[x].tag]
             /\ files' = [files EXCEPT ![k] = (files[k] \ req[x].rows) \union Attached(x)]
      BY <2>2, <3>1 DEF UpdateMessageContent, UpdateTo, Live
    <3>3. UNCHANGED <<state, reactions, ballot, cleared>>
      BY <2>2 DEF UpdateMessageContent, Edited
    <3>4. \A m \in Messages : state[m] = "deleted" => text'[m] = text[m] /\ files'[m] = files[m]
      BY <2>0, <3>2 DEF TypeOK
    <3> QED  BY <3>3, <3>4 DEF Live
  <2>3. ASSUME NEW x \in Requests, SoftDeleteMessage(x)
        PROVE  StaysDeleted /\ UNCHANGED cleared /\ Live' \intersect Posted \subseteq Live
    <3>1. PICK k : k = req[x].m
      OBVIOUS
    <3>2. \A m \in Messages : state'[m] = state[m] \/ state'[m] = "deleted"
      BY <2>0, <2>3, <3>1 DEF SoftDeleteMessage, TypeOK
    <3>3. UNCHANGED <<text, files, reactions, ballot, cleared>>
      BY <2>3 DEF SoftDeleteMessage
    <3> QED  BY <3>2, <3>3 DEF Live
  <2>4. ASSUME NEW x \in Requests, ReactionWrite(x) \/ UpsertVote(x)
        PROVE  StaysDeleted /\ UNCHANGED cleared /\ Live' \intersect Posted \subseteq Live
    <3>1. PICK k : k = req[x].m
      OBVIOUS
    <3>2. /\ UNCHANGED <<state, text, files, cleared>> /\ overtaken' = (overtaken \/ req[x].stale)
          /\ req[x].at \in {"React", "Vote"}
      BY <2>4 DEF ReactionWrite, UpsertVote, Writes, At
    <3>3. req[x].stale \/ state[k] = "live"
      BY <1>1, <3>1, <3>2 DEF MessagesInv, FreshOrStale, Holds, Live
    <3>4. \/ reactions' = reactions /\ \E u, t : ballot' = [ballot EXCEPT ![k][u] = t]
          \/ ballot' = ballot /\ \E us : reactions' = [reactions EXCEPT ![k] = us]
      <4>1. UpsertVote(x) => reactions' = reactions /\ \E u, t : ballot' = [ballot EXCEPT ![k][u] = t]
        BY <3>1 DEF UpsertVote
      <4>2. ReactionWrite(x) => ballot' = ballot /\ \E us : reactions' = [reactions EXCEPT ![k] = us]
        BY <3>1 DEF ReactionWrite
      <4> QED  BY <2>4, <4>1, <4>2
    <3>5. \A m \in Messages : m # k => reactions'[m] = reactions[m] /\ ballot'[m] = ballot[m]
      BY <2>0, <3>4 DEF TypeOK
    <3>6. \A m \in Messages : state[m] = "deleted" => m # k \/ req[x].stale
      BY <3>3
    <3> QED  BY <3>2, <3>5, <3>6 DEF Live
  <2>5. ASSUME NEW x \in Requests, SetChatHistoryCleared(x)
        PROVE  /\ StaysDeleted /\ Live' \intersect Posted \subseteq Live
               /\ overtaken' \/ \A u \in Users : cleared[u] <= cleared'[u]
    <3>1. PICK u : u = req[x].me
      OBVIOUS
    <3>2. PICK t \in req[x].n..Cardinality(Posted) : cleared' = [cleared EXCEPT ![u] = t]
      BY <2>5, <3>1 DEF SetChatHistoryCleared
    <3>3. /\ UNCHANGED <<state, text, files, reactions, ballot>> /\ overtaken' = (overtaken \/ req[x].stale)
          /\ req[x].at = "Clear"
      BY <2>5 DEF SetChatHistoryCleared, Writes, At
    <3>4. req[x].stale \/ cleared[u] <= req[x].n
      BY <1>1, <3>1, <3>3 DEF MessagesInv, FreshOrStale, Holds
    <3>5. u \in Users /\ req[x].n \in Nat /\ cleared \in [Users -> 0..MaxMessages] /\ Cardinality(Posted) \in Nat
      <4>1. TypeOK /\ Placed(req[x])
        BY <1>1, <2>5 DEF MessagesInv, TypesInv, AllPlaced
      <4>2. req[x].me \in Users
        BY <3>3, <4>1 DEF Placed
      <4> QED  BY <3>1, <4>1, <4>2, RecordIs, Counting DEF TypeOK
    <3>6. req[x].stale \/ \A v \in Users : cleared[v] <= cleared'[v]
      BY <3>2, <3>4, <3>5, MessagesAssumption
    <3> QED  BY <3>3, <3>6 DEF Live
  <2>6. CASE UNCHANGED <<author, state, text, files, reactions, ballot, cleared>>
    BY <2>6 DEF ListMessages, Live
  <2>7. ASSUME UNCHANGED cleared, Live' \intersect Posted \subseteq Live PROVE StaysAway
    BY <2>7 DEF ListMessages
  <2>8. ASSUME \A u \in Users : cleared[u] <= cleared'[u], Live' \intersect Posted \subseteq Live PROVE StaysAway
    <3>1. TypeOK'
      BY <1>1, MessagesStep DEF MessagesInv, TypesInv
    <3>2. \A u \in Users, m \in Messages : cleared'[u] < m => cleared[u] < m
      BY <2>0, <2>8, <3>1, MessagesAssumption DEF TypeOK, Messages
    <3> QED  BY <2>8, <3>2 DEF ListMessages, Live
  <2> QED  BY <1>1, <2>1, <2>2, <2>3, <2>4, <2>5, <2>6, <2>7, <2>8, StatementsAre
<1>2. MessagesInv /\ [Next]_vars => [StaysDeleted /\ StaysAway]_vars
  BY <1>1
<1> QED  BY <1>2, MessagesAlways, PTL DEF Spec, NothingComesBack

\* A vote is not changed where votes cannot be, nor cast or changed once the poll is closed or its
\* time is over (VotePoll), unless the request was overtaken.
THEOREM BallotsStand == Spec => BallotStands
<1> DEFINE Stands == overtaken' \/ \A m \in Messages, u \in Users :
             ballot'[m][u] # ballot[m][u] => poll[m] = "open" /\ (ballot[m][u] # 0 => revoting)
<1>1. ASSUME MessagesInv, [Next]_vars PROVE Stands
  <2>0. TypeOK
    BY <1>1 DEF MessagesInv, TypesInv
  <2>1. ASSUME NEW x \in Requests, UpsertVote(x) PROVE Stands
    <3>1. PICK k, u : k = req[x].m /\ u = req[x].me
      OBVIOUS
    <3>2. /\ ballot' = [ballot EXCEPT ![k][u] = req[x].tag] /\ overtaken' = (overtaken \/ req[x].stale)
          /\ req[x].at = "Vote"
      BY <2>1, <3>1 DEF UpsertVote, Writes, At
    <3>3. req[x].stale \/ (poll[k] = "open" /\ (ballot[k][u] # 0 => revoting))
      BY <1>1, <3>1, <3>2 DEF MessagesInv, FreshOrStale, Holds
    <3>4. \A m \in Messages, v \in Users : ballot'[m][v] # ballot[m][v] => m = k /\ v = u
      BY <2>0, <3>2 DEF TypeOK
    <3> QED  BY <3>2, <3>3, <3>4
  <2>2. CASE UNCHANGED ballot
    BY <2>2
  <2>3. ASSUME NEW x \in Requests, \/ Insert(x) \/ UpdateMessageContent(x) \/ SoftDeleteMessage(x)
                                   \/ ReactionWrite(x) \/ SetChatHistoryCleared(x)
        PROVE  UNCHANGED ballot
    BY <2>3 DEF Insert, UpdateMessageContent, Edited, SoftDeleteMessage, ReactionWrite, SetChatHistoryCleared, pollVars
  <2> QED  BY <1>1, <2>1, <2>2, <2>3, StatementsAre
<1>2. MessagesInv /\ [Next]_vars => [Stands]_vars
  BY <1>1
<1> QED  BY <1>2, MessagesAlways, PTL DEF Spec, BallotStands
=============================================================================
