------------------------- MODULE CallSignalsProofs -------------------------
(***************************************************************************)
(* Proofs about the signalling of a call, for any users, connections and   *)
(* bounds: a participant hears nothing before his joined frame, misses no  *)
(* announcement of tracks, and is told that the call has ended.            *)
(*                                                                         *)
(* The inductive invariant has three layers.                               *)
(*   PlaceInv     which goroutine is where: whose gate may hold frames,    *)
(*                which connection a Participant has, that there are no    *)
(*                more Participants than joins (JoinsCounted).             *)
(*   ExpectedInv  a frame is written to a connection, or is about to be,   *)
(*                or waits for it, only if the joined frame went before it *)
(*                or is certain to.                                        *)
(*   MapsOnTheirWay, EndsOnTheirWay                                        *)
(*                the map that stands, and the end of the call, are with   *)
(*                each participant, or in his gate, or in the batch his    *)
(*                endGate writes, or in the hands of a goroutine that will *)
(*                send them.                                               *)
(***************************************************************************)
EXTENDS CallSignals, FiniteSetTheorems, SequenceTheorems, TLAPS

(***************************************************************************)
(* What is sent to whom, typed.                                            *)

Kind == {"none", "joined", "peer_joined", "tracks", "relay", "peer_left", "ended"}
Frames == [kind : Kind, from : Users \union {None}, n : Nat]
Writings == [kind : Kind, from : Users \union {None}, n : Nat, for : Participants]

Sending == {"send", "gate", "write"}
Labels == Sending \union {"idle", "register", "announce", "joined", "replay", "flush",
                          "unbind", "left", "end"}

Types ==
  /\ present \in SUBSET Users
  /\ life \in [Users -> 0..MaxJoins]
  /\ sender \in [Participants -> Conns \union {None}]
  /\ sources \in [Users -> Nat]
  /\ closed \in BOOLEAN
  /\ frames \in Nat
  /\ inside \subseteq Conns /\ dead \subseteq Conns /\ gated \subseteq Conns
  /\ queued \in [Conns -> Seq(Writings)]
  /\ inbox \in [Conns -> Seq(Writings)]
  /\ batch \in [Conns -> Seq(Writings)]
  /\ pc \in [Conns -> Labels]
  /\ then \in [Conns -> {"idle", "joined", "end", "stay"}]
  /\ frame \in [Conns -> Frames]
  /\ todo \in [Conns -> SUBSET Participants]
  /\ to \in [Conns -> (Participants \X Conns) \union {<<None, None>>}]
  /\ mine \in [Conns -> Participants \union {None}]
  /\ maps \in [Conns -> SUBSET (Users \X Nat)]

\* The Participants made, and the joins that may make one: no more than there
\* were joins.
Ledger == {x \in (Users \union Conns) \X (0..MaxJoins) :
              \/ x[1] \in Users /\ x[2] \in 1..life[x[1]]
              \/ x[1] \in Conns /\ x[2] = 0 /\ pc[x[1]] = "register"}
JoinsCounted == IsFiniteSet(Ledger) /\ Cardinality(Ledger) <= joins /\ joins \in 0..MaxJoins

\* c has been registered, and its reply is yet to be written.
BeforeReply(c) == \/ pc[c] \in {"announce", "joined"}
                  \/ pc[c] \in Sending /\ then[c] = "joined"
Joining(c) == BeforeReply(c) \/ pc[c] = "replay"

\* What is so of connection c.
InPlace(c) ==
  /\ c \in gated <=> pc[c] = "register" \/ Joining(c)
  /\ queued[c] # <<>> => c \in gated
  /\ batch[c] # <<>> => pc[c] = "flush"
  /\ maps[c] # {} => Joining(c)
  /\ pc[c] \in {"register", "unbind"} \/ BeforeReply(c) => c \notin inside
  /\ c \in dead => c \notin inside /\ c \notin gated /\ pc[c] # "flush"
  /\ pc[c] \in Sending => then[c] # "stay"
  /\ pc[c] = "left" => then[c] # "joined"
  /\ pc[c] = "unbind" => then[c] # "joined"
  /\ pc[c] \in {"gate", "write"} => to[c] \in Participants \X Conns
  /\ Joining(c) \/ c \in inside => mine[c] \in Participants
  /\ pc[c] = "unbind" =>
       /\ mine[c] \in Participants /\ mine[c][1] = UserOf[c] /\ mine[c][2] <= life[UserOf[c]]
       /\ UserOf[c] \in present => mine[c][2] < life[UserOf[c]]

\* A step of c leaves what is the others' alone, but for frames in their gates.
Alone(c) ==
  \A d \in Conns \ {c} :
    /\ pc'[d] = pc[d] /\ then'[d] = then[d] /\ frame'[d] = frame[d] /\ todo'[d] = todo[d]
    /\ to'[d] = to[d] /\ mine'[d] = mine[d] /\ maps'[d] = maps[d] /\ batch'[d] = batch[d]
    /\ d \in gated' <=> d \in gated
    /\ d \in inside' <=> d \in inside
    /\ d \in dead' <=> d \in dead
    /\ queued'[d] # queued[d] => d \in gated

\* Who comes in is a new Participant.
LivesOn ==
  \A u \in Users : life'[u] >= life[u] /\ (u \in present' \ present => life'[u] > life[u])

\* c is in the call, or on its way into it.
In(c) == c \in inside \/ BeforeReply(c)

\* What is so of the connection of a Participant.
Bound(p) == sender[p] # None =>
  LET c == sender[p] IN
  /\ mine[c] = p /\ p[1] = UserOf[c]
  /\ \/ closed \/ pc[c] = "unbind"
     \/ In(c) /\ p[1] \in present /\ p = This(p[1])

PlaceInv ==
  /\ Types /\ JoinsCounted
  /\ \A c \in Conns : InPlace(c)
  /\ \A p \in Participants : Bound(p)
  /\ \A u \in present : This(u) \in Participants /\ sender[This(u)] # None
  /\ closed => present = {}

\* Connection c was told that it is in the call as Participant p.
Welcomed(c, p) == \E i \in DOMAIN inbox[c] : inbox[c][i].for = p /\ inbox[c][i].kind = "joined"
Expected(c, p) == c \in dead \/ Welcomed(c, p) \/ (mine[c] = p /\ BeforeReply(c))

\* What connection c is sent, and is sending, comes after its welcome.
InOrder(c) ==
  /\ pc[c] = "gate" => Expected(to[c][2], to[c][1])
  /\ pc[c] = "write" => to[c][2] \in dead \/ Welcomed(to[c][2], to[c][1])
  /\ pc[c] = "replay" => Welcomed(c, mine[c])
  /\ \A i \in DOMAIN batch[c] : Welcomed(c, batch[c][i].for)

ExpectedInv ==
  /\ NothingBeforeJoined
  /\ \A p \in Participants : sender[p] # None => Expected(sender[p], p)
  /\ \A c \in Conns :
       InOrder(c) /\ \A i \in DOMAIN queued[c] : Expected(c, queued[c][i].for)

\* Who was welcomed stays so, and who is about to be is told before all else.
Stands ==
  \A d \in Conns : \A p :
    /\ Expected(d, p) => Expected(d, p)'
    /\ d \in dead \/ Welcomed(d, p) => d \in dead' \/ Welcomed(d, p)'

Holds(q, w) == \E i \in DOMAIN q : q[i] = w
Carries(d, c, w) ==
  /\ pc[d] \in Sending /\ Addressed(frame[d], w.for) = w
  /\ \/ w.for \in todo[d]
     \/ pc[d] \in {"gate", "write"} /\ to[d] = <<w.for, c>>
OnItsWay(c, w) ==
  \/ Holds(inbox[c], w) \/ Holds(queued[c], w) \/ Holds(batch[c], w)
  \/ w.kind = "tracks" /\ <<w.from, w.n>> \in maps[c]
  \/ \E d \in Conns : Carries(d, c, w)

TheMap(u, v) == Addressed(Frame("tracks", v, sources[v]), This(u))
TheEnd(p) == Addressed(Frame("ended", None, 0), p)

MapsOnTheirWay ==
  \A u \in present, v \in Users :
    u # v /\ sources[v] # 0 /\ sender[This(u)] \notin lossy => OnItsWay(sender[This(u)], TheMap(u, v))
EndsOnTheirWay ==
  closed => \A p \in Participants :
    sender[p] # None /\ In(sender[p]) /\ sender[p] \notin lossy => OnItsWay(sender[p], TheEnd(p))
-----------------------------------------------------------------------------
(* Types.                                                                  *)

USE SignalsAssumption

LEMMA Written ==
  ASSUME NEW f \in Frames, NEW p \in Participants
  PROVE  Addressed(f, p) \in Writings
BY DEF Frames, Writings, Addressed

LEMMA Framed ==
  ASSUME NEW k \in Kind, NEW v \in Users \union {None}, NEW n \in Nat
  PROVE  Frame(k, v, n) \in Frames
BY DEF Frames, Frame

LEMMA PcTyped ==
  ASSUME Types, NEW c \in Conns, NEW l \in Labels, pc' = [pc EXCEPT ![c] = l]
  PROVE  pc' \in [Conns -> Labels]
BY DEF Types

LEMMA SendToTyped ==
  ASSUME Types, NEW c \in Conns, NEW f \in Frames, NEW T \in SUBSET Participants,
         NEW n \in {"idle", "joined", "end"}, SendTo(c, f, T, n)
  PROVE  /\ pc' \in [Conns -> Labels] /\ then' \in [Conns -> {"idle", "joined", "end", "stay"}]
         /\ frame' \in [Conns -> Frames] /\ todo' \in [Conns -> SUBSET Participants]
         /\ to' \in [Conns -> (Participants \X Conns) \union {<<None, None>>}]
<1>1. todo' \in [Conns -> SUBSET Participants]
  BY DEF SendTo, Types
<1>2. CASE T # {}
  <2>1. /\ pc' = [pc EXCEPT ![c] = "send"] /\ then' = [then EXCEPT ![c] = n]
        /\ frame' = [frame EXCEPT ![c] = f] /\ to' = to
    BY <1>2 DEF SendTo, Goto
  <2>2. QED  BY <1>1, <2>1, PcTyped DEF Types, Labels, Sending
<1>3. CASE T = {}
  <2>1. /\ pc' = [pc EXCEPT ![c] = n] /\ then' = [then EXCEPT ![c] = "idle"]
        /\ frame' = frame /\ to' = to
    BY <1>3 DEF SendTo, Goto
  <2>2. QED  BY <1>1, <2>1, PcTyped DEF Types, Labels, Sending
<1>4. QED  BY <1>2, <1>3

LEMMA SentOneTyped ==
  ASSUME Types, NEW c \in Conns, NEW rest, SentOne(c, rest), then[c] # "stay"
  PROVE  /\ pc' \in [Conns -> Labels] /\ then' \in [Conns -> {"idle", "joined", "end", "stay"}]
         /\ frame' \in [Conns -> Frames]
         /\ to' \in [Conns -> (Participants \X Conns) \union {<<None, None>>}]
<1>1. NoFrame \in Frames
  BY DEF NoFrame, Frame, Frames, Kind
<1>2. CASE rest # {}
  BY <1>2 DEF SentOne, Types, Goto, Labels, Sending
<1>3. CASE rest = {}
  <2>1. /\ pc' = [pc EXCEPT ![c] = then[c]] /\ then' = [then EXCEPT ![c] = "idle"]
        /\ frame' = [frame EXCEPT ![c] = NoFrame] /\ to' = [to EXCEPT ![c] = <<None, None>>]
    BY <1>3 DEF SentOne, Goto
  <2>2. then[c] \in Labels
    BY DEF Types, Labels
  <2>3. QED  BY <1>1, <2>1, <2>2, PcTyped DEF Types
<1>4. QED  BY <1>2, <1>3 DEF SentOne

LEMMA ThisTyped ==
  ASSUME PlaceInv
  PROVE  \A u \in Users : Others(u) \in SUBSET Participants /\ {This(v) : v \in present} \in SUBSET Participants
BY DEF PlaceInv, Others

LEMMA AppendTyped ==
  ASSUME NEW q \in Seq(Writings), NEW w \in Writings
  PROVE  Append(q, w) \in Seq(Writings)
OBVIOUS

LEMMA BufferTyped ==
  ASSUME Types, NEW d \in Conns, NEW w \in Writings, Buffer(d, w)
  PROVE  queued' \in [Conns -> Seq(Writings)]
<1>1. Append(queued[d], w) \in Seq(Writings)
  BY AppendTyped DEF Types
<1>2. QED  BY <1>1 DEF Buffer, Types

LEMMA WriteTyped ==
  ASSUME Types, NEW d \in Conns, NEW w \in Writings, Write(d, w)
  PROVE  inbox' \in [Conns -> Seq(Writings)]
<1>1. Append(inbox[d], w) \in Seq(Writings)
  BY AppendTyped DEF Types
<1>2. QED  BY <1>1 DEF Write, Types

LEMMA PickTargetTyped == ASSUME PlaceInv, NEW c \in Conns, PickTarget(c) PROVE Types'
<1>1. Types /\ InPlace(c) /\ then[c] # "stay"
  BY DEF PlaceInv, InPlace, PickTarget, Sending
<1>2. PICK p \in todo[c] :
        /\ todo' = [todo EXCEPT ![c] = @ \ {p}]
        /\ \/ sender[p] = None /\ SentOne(c, todo[c] \ {p})
           \/ /\ sender[p] # None
              /\ to' = [to EXCEPT ![c] = <<p, sender[p]>>]
              /\ Goto(c, "gate")
              /\ UNCHANGED <<frame, then>>
  BY DEF PickTarget
<1>3. UNCHANGED <<roomVars, joins, frames, inside, dead, wireVars, joinVars>>
  BY DEF PickTarget
<1>4. p \in Participants /\ todo' \in [Conns -> SUBSET Participants]
  BY <1>1, <1>2 DEF Types
<1>5. CASE sender[p] = None /\ SentOne(c, todo[c] \ {p})
  BY <1>1, <1>3, <1>4, <1>5, SentOneTyped DEF Types, roomVars, wireVars, gateVars, joinVars
<1>6. CASE /\ sender[p] # None
           /\ to' = [to EXCEPT ![c] = <<p, sender[p]>>]
           /\ Goto(c, "gate") /\ UNCHANGED <<frame, then>>
  <2>1. <<p, sender[p]>> \in Participants \X Conns
    BY <1>1, <1>4, <1>6 DEF Types
  <2>2. to' \in [Conns -> (Participants \X Conns) \union {<<None, None>>}]
    BY <1>1, <1>6, <2>1 DEF Types
  <2>3. pc' \in [Conns -> Labels]
    BY <1>1, <1>6 DEF Types, Goto, Labels, Sending
  <2>4. QED  BY <1>1, <1>3, <1>4, <1>6, <2>2, <2>3 DEF Types, roomVars, wireVars, gateVars, joinVars
<1>7. QED  BY <1>2, <1>5, <1>6

LEMMA PassGateTyped == ASSUME PlaceInv, NEW c \in Conns, PassGate(c) PROVE Types'
<1>1. Types /\ then[c] # "stay" /\ to[c] \in Participants \X Conns
  BY DEF PlaceInv, InPlace, PassGate, Sending
<1>2. Addressed(frame[c], to[c][1]) \in Writings /\ to[c][2] \in Conns
  BY <1>1, Written DEF Types
<1>3. UNCHANGED <<roomVars, joins, frames, inside, dead, gated, inbox, todo, joinVars>>
  BY DEF PassGate
<1>4. CASE Buffer(to[c][2], Addressed(frame[c], to[c][1])) /\ SentOne(c, todo[c])
  BY <1>1, <1>2, <1>3, <1>4, SentOneTyped, BufferTyped DEF Types, roomVars, joinVars
<1>5. CASE Goto(c, "write") /\ UNCHANGED <<gateVars, frame, then, to>>
  BY <1>1, <1>3, <1>5 DEF Types, roomVars, joinVars, gateVars, Goto, Labels, Sending
<1>6. QED  BY <1>4, <1>5 DEF PassGate

LEMMA WriteFrameTyped == ASSUME PlaceInv, NEW c \in Conns, WriteFrame(c) PROVE Types'
<1>1. Types /\ then[c] # "stay" /\ to[c] \in Participants \X Conns
  BY DEF PlaceInv, InPlace, WriteFrame, Sending
<1>2. Addressed(frame[c], to[c][1]) \in Writings /\ to[c][2] \in Conns
  BY <1>1, Written DEF Types
<1>3. QED
  BY <1>1, <1>2, SentOneTyped, WriteTyped DEF WriteFrame, Types, roomVars, joinVars, gateVars

LEMMA JoinFrameTyped == ASSUME PlaceInv, NEW c \in Conns, JoinFrame(c) PROVE Types'
<1>1. Types /\ <<>> \in Seq(Writings)
  BY DEF PlaceInv
<1>2. queued' \in [Conns -> Seq(Writings)]
  BY <1>1 DEF JoinFrame, Types
<1>3. QED  BY <1>1, <1>2 DEF JoinFrame, Types, roomVars, sendVars, joinVars, Goto, Labels, Sending

LEMMA RegisterRefusedTyped == ASSUME PlaceInv, NEW c \in Conns, RegisterRefused(c) PROVE Types'
<1>1. Types /\ <<>> \in Seq(Writings)
  BY DEF PlaceInv
<1>2. queued' \in [Conns -> Seq(Writings)]
  BY <1>1 DEF RegisterRefused, Types
<1>3. QED  BY <1>1, <1>2 DEF RegisterRefused, Types, roomVars, sendVars, joinVars, Goto, Labels, Sending

LEMMA SnapshotTyped ==
  ASSUME Types, NEW c \in Conns, Snapshot(c)
  PROVE  maps' \in [Conns -> SUBSET (Users \X Nat)]
BY DEF Types, Snapshot

LEMMA RebindTyped == ASSUME PlaceInv, NEW c \in Conns, Rebind(c) PROVE Types'
<1>1. Types /\ This(UserOf[c]) \in Participants
  BY DEF PlaceInv, Rebind
<1>2. QED
  BY <1>1, SnapshotTyped DEF Rebind, Types, wireVars, gateVars, sendVars, Goto, Labels, Sending

LEMMA PeerJoinedTyped == ASSUME PlaceInv, NEW c \in Conns, PeerJoined(c) PROVE Types'
<1>1. Types /\ Others(UserOf[c]) \in SUBSET Participants
  BY ThisTyped DEF PlaceInv
<1>2. Frame("peer_joined", UserOf[c], 0) \in Frames
  BY Framed DEF Kind
<1>3. QED
  BY <1>1, <1>2, SendToTyped DEF PeerJoined, Types, roomVars, wireVars, gateVars, joinVars

LEMMA JoinedTyped == ASSUME PlaceInv, NEW c \in Conns, Joined(c) PROVE Types'
<1>1. Types /\ mine[c] \in Participants
  BY DEF PlaceInv, InPlace, Joined, Joining, BeforeReply
<1>2. Addressed(Frame("joined", UserOf[c], 0), mine[c]) \in Writings
  BY <1>1, Framed, Written DEF Kind
<1>3. inbox' \in [Conns -> Seq(Writings)]
  BY <1>1, <1>2, WriteTyped DEF Joined, Reply
<1>4. QED
  BY <1>1, <1>3 DEF Joined, Types, roomVars, gateVars, sendVars, joinVars, Goto, Labels, Sending

LEMMA ReplayTyped == ASSUME PlaceInv, NEW c \in Conns, Replay(c) PROVE Types'
<1>1. Types /\ mine[c] \in Participants
  BY DEF PlaceInv, InPlace, Replay, Joining
<1>2. PICK m \in maps[c] :
        /\ maps' = [maps EXCEPT ![c] = @ \ {m}]
        /\ Buffer(c, Addressed(Frame("tracks", m[1], m[2]), mine[c]))
  BY DEF Replay
<1>3. m \in Users \X Nat
  BY <1>1 DEF Types
<1>4. Addressed(Frame("tracks", m[1], m[2]), mine[c]) \in Writings
  BY <1>1, <1>3, Framed, Written DEF Kind
<1>5. queued' \in [Conns -> Seq(Writings)]
  BY <1>1, <1>2, <1>4, BufferTyped
<1>6. maps' \in [Conns -> SUBSET (Users \X Nat)]
  BY <1>1, <1>2 DEF Types
<1>7. QED
  BY <1>1, <1>5, <1>6 DEF Replay, Types, roomVars, sendVars

LEMMA EndGateTyped == ASSUME PlaceInv, NEW c \in Conns, EndGate(c) PROVE Types'
<1>1. Types /\ <<>> \in Seq(Writings)
  BY DEF PlaceInv
<1>2. queued' \in [Conns -> Seq(Writings)]
  BY <1>1 DEF EndGate, Types
<1>3. QED  BY <1>1, <1>2 DEF EndGate, Types, roomVars, sendVars, Goto, Labels, Sending

LEMMA FlushTyped == ASSUME PlaceInv, NEW c \in Conns, Flush(c) PROVE Types'
<1>1. Types
  BY DEF PlaceInv
<1>2. UNCHANGED <<roomVars, joins, frames, inside, dead, gated, gateVars, then, sendVars, mine, maps>>
  BY DEF Flush
<1>3. CASE batch[c] # <<>> /\ Write(c, Head(batch[c])) /\ batch' = [batch EXCEPT ![c] = Tail(@)] /\ UNCHANGED pc
  <2>1. Head(batch[c]) \in Writings /\ Tail(batch[c]) \in Seq(Writings)
    BY <1>1, <1>3 DEF Types
  <2>2. inbox' \in [Conns -> Seq(Writings)]
    BY <1>1, <1>3, <2>1, WriteTyped
  <2>3. batch' \in [Conns -> Seq(Writings)]
    BY <1>1, <1>3, <2>1 DEF Types
  <2>4. QED  BY <1>1, <1>2, <1>3, <2>2, <2>3 DEF Types, roomVars, gateVars, sendVars
<1>4. CASE Goto(c, "idle") /\ UNCHANGED <<inbox, batch>>
  BY <1>1, <1>2, <1>4 DEF Types, roomVars, gateVars, sendVars, Goto, Labels
<1>5. QED  BY <1>3, <1>4 DEF Flush

LEMMA SetTrackSourcesTyped == ASSUME PlaceInv, NEW c \in Conns, SetTrackSources(c) PROVE Types'
<1>1. Types /\ Others(UserOf[c]) \in SUBSET Participants
  BY ThisTyped DEF PlaceInv
<1>2. PICK n \in {0, frames + 1} :
        /\ sources' = [sources EXCEPT ![UserOf[c]] = n]
        /\ SendTo(c, Frame("tracks", UserOf[c], n), Others(UserOf[c]), "idle")
  BY DEF SetTrackSources
<1>3. n \in Nat
  BY <1>1 DEF Types
<1>4. Frame("tracks", UserOf[c], n) \in Frames
  BY <1>3, Framed DEF Kind
<1>5. sources' \in [Users -> Nat] /\ frames' \in Nat
  BY <1>1, <1>2, <1>3 DEF Types, SetTrackSources, ClientFrame
<1>6. QED
  BY <1>1, <1>2, <1>4, <1>5, SendToTyped DEF SetTrackSources, Types, wireVars, gateVars, joinVars

LEMMA RelayTyped == ASSUME PlaceInv, NEW c \in Conns, Relay(c) PROVE Types'
<1>1. Types /\ \A v \in present : {This(v)} \in SUBSET Participants
  BY DEF PlaceInv
<1>2. PICK v \in present \ {UserOf[c]} :
        SendTo(c, Frame("relay", UserOf[c], frames + 1), {This(v)}, "idle")
  BY DEF Relay
<1>3. frames + 1 \in Nat
  BY <1>1 DEF Types
<1>4. Frame("relay", UserOf[c], frames + 1) \in Frames
  BY <1>3, Framed DEF Kind
<1>5. frames' \in Nat
  BY <1>1 DEF Relay, ClientFrame, Types
<1>6. QED
  BY <1>1, <1>2, <1>4, <1>5, SendToTyped DEF Relay, Types, roomVars, wireVars, gateVars, joinVars

LEMMA QuitTyped ==
  ASSUME Types, NEW c \in Conns, NEW dies \in BOOLEAN, Quit(c, dies)
  PROVE  inside' \subseteq Conns /\ dead' \subseteq Conns /\ inbox' \in [Conns -> Seq(Writings)]
<1>1. <<>> \in Seq(Writings)
  OBVIOUS
<1>2. /\ inside' = inside \ {c}
      /\ \/ dead' = dead \union {c} /\ inbox' = [inbox EXCEPT ![c] = <<>>]
         \/ dead' = dead /\ inbox' = inbox
  BY Zenon DEF Quit
<1>3. /\ inside \subseteq Conns /\ dead \subseteq Conns /\ inbox \in [Conns -> Seq(Writings)]
      /\ [inbox EXCEPT ![c] = <<>>] \in [Conns -> Seq(Writings)]
  BY <1>1 DEF Types
<1>4. QED  BY <1>2, <1>3

LEMMA LeaveTyped == ASSUME PlaceInv, NEW c \in Conns, Leave(c) PROVE Types'
<1>1. Types
  BY DEF PlaceInv
<1>2. ASSUME NEW dies \in BOOLEAN, LeaveNothing(c, dies) PROVE Types'
  <2>1. Quit(c, dies) /\ UNCHANGED <<roomVars, joins, frames, gated, gateVars, pc, then, sendVars, joinVars>>
    BY <1>2 DEF LeaveNothing
  <2>2. inside' \subseteq Conns /\ dead' \subseteq Conns /\ inbox' \in [Conns -> Seq(Writings)]
    BY <1>1, <1>2, <2>1, QuitTyped
  <2>3. QED  BY <1>1, <2>1, <2>2 DEF Types, roomVars, gateVars, sendVars, joinVars
<1>3. ASSUME NEW dies \in BOOLEAN, LeaveSlot(c, dies) PROVE Types'
  <2>1. This(UserOf[c]) \in Participants
    BY <1>3 DEF PlaceInv, LeaveSlot, Owns
  <2>2. then' \in [Conns -> {"idle", "joined", "end", "stay"}]
    BY <1>1, <1>3 DEF LeaveSlot, Types
  <2>3. closed' \in BOOLEAN
    BY <1>3 DEF LeaveSlot
  <2>4. /\ Quit(c, dies) /\ present' = present \ {UserOf[c]}
        /\ mine' = [mine EXCEPT ![c] = This(UserOf[c])]
        /\ pc' = [pc EXCEPT ![c] = "unbind"]
        /\ UNCHANGED <<life, sender, sources, joins, frames, gated, gateVars, sendVars, maps, batch>>
    BY <1>3 DEF LeaveSlot, Goto
  <2>5. inside' \subseteq Conns /\ dead' \subseteq Conns /\ inbox' \in [Conns -> Seq(Writings)]
    BY <1>1, <1>3, <2>4, QuitTyped
  <2>6. QED
    BY <1>1, <2>1, <2>2, <2>3, <2>4, <2>5, PcTyped DEF Types, gateVars, sendVars, Labels
<1>4. QED  BY <1>2, <1>3 DEF Leave

LEMMA UnbindTyped == ASSUME PlaceInv, NEW c \in Conns, Unbind(c) PROVE Types'
BY DEF PlaceInv, Unbind, Types, wireVars, gateVars, sendVars, joinVars, Goto, Labels, Sending

LEMMA PeerLeftTyped == ASSUME PlaceInv, NEW c \in Conns, PeerLeft(c) PROVE Types'
<1>1. Types /\ {This(v) : v \in present} \in SUBSET Participants
  BY ThisTyped DEF PlaceInv
<1>2. Frame("peer_left", UserOf[c], 0) \in Frames
  BY Framed DEF Kind
<1>3. QED
  BY <1>1, <1>2, SendToTyped DEF PeerLeft, Types, roomVars, wireVars, gateVars, joinVars

LEMMA EndTyped == ASSUME PlaceInv, NEW c \in Conns, End(c) PROVE Types'
<1>1. Types /\ {This(v) : v \in present} \in SUBSET Participants
  BY ThisTyped DEF PlaceInv
<1>2. Frame("ended", None, 0) \in Frames
  BY Framed DEF Kind
<1>3. UNCHANGED <<life, sender, sources, joins, frames, inside, dead, wireVars, joinVars>>
  BY DEF End
<1>4. CASE Goto(c, "idle") /\ UNCHANGED <<present, closed, then, sendVars>>
  BY <1>1, <1>3, <1>4 DEF Types, wireVars, gateVars, joinVars, sendVars, Goto, Labels
<1>5. CASE /\ closed' = TRUE /\ present' = {}
           /\ SendTo(c, Frame("ended", None, 0), {This(v) : v \in present}, "idle")
  BY <1>1, <1>2, <1>3, <1>5, SendToTyped DEF Types, wireVars, gateVars, joinVars
<1>6. QED  BY <1>4, <1>5 DEF End
-----------------------------------------------------------------------------
(* No more Participants than joins.                                        *)

LEMMA LedgerKept ==
  ASSUME Types, JoinsCounted, joins' = joins, life' = life,
         \A d \in Conns : pc'[d] = "register" <=> pc[d] = "register"
  PROVE  JoinsCounted'
<1>1. Ledger' = Ledger
  BY DEF Ledger
<1>2. QED  BY <1>1 DEF JoinsCounted

LEMMA LedgerLeft ==
  ASSUME Types, JoinsCounted, joins' = joins, life' = life,
         \A d \in Conns : pc'[d] = "register" => pc[d] = "register"
  PROVE  JoinsCounted'
<1>1. Ledger' \in SUBSET Ledger
  BY DEF Ledger
<1>2. IsFiniteSet(Ledger') /\ Cardinality(Ledger') <= Cardinality(Ledger)
  BY <1>1, FS_Subset DEF JoinsCounted
<1>3. Cardinality(Ledger) \in Nat /\ Cardinality(Ledger') \in Nat
  BY <1>2, FS_CardinalityType DEF JoinsCounted
<1>4. QED  BY <1>2, <1>3 DEF JoinsCounted

LEMMA OneMore ==
  ASSUME NEW S, IsFiniteSet(S), NEW x
  PROVE  /\ IsFiniteSet(S \union {x}) /\ Cardinality(S \union {x}) \in Nat /\ Cardinality(S) \in Nat
         /\ Cardinality(S \union {x}) <= Cardinality(S) + 1
<1>1. IsFiniteSet(S \union {x}) /\ Cardinality(S) \in Nat
  BY FS_AddElement, FS_CardinalityType
<1>2. Cardinality(S \union {x}) = IF x \in S THEN Cardinality(S) ELSE Cardinality(S) + 1
  BY FS_AddElement
<1>3. QED  BY <1>1, <1>2

LEMMA JoinFrameCounted ==
  ASSUME PlaceInv, NEW c \in Conns, JoinFrame(c)
  PROVE  JoinsCounted'
<1>1. Types /\ JoinsCounted
  BY DEF PlaceInv
<1>2. pc' = [pc EXCEPT ![c] = "register"] /\ life' = life /\ joins' = joins + 1 /\ joins < MaxJoins
  BY DEF JoinFrame, Goto, roomVars
<1>3. Ledger' = Ledger \union {<<c, 0>>}
  <2>1. \A x \in (Users \union Conns) \X (0..MaxJoins) :
          x \in Ledger' <=> x \in Ledger \/ x = <<c, 0>>
    BY <1>1, <1>2 DEF Ledger, Types
  <2>2. <<c, 0>> \in (Users \union Conns) \X (0..MaxJoins)
    OBVIOUS
  <2>3. QED  BY <2>1, <2>2 DEF Ledger
<1>4. /\ IsFiniteSet(Ledger') /\ Cardinality(Ledger') \in Nat /\ Cardinality(Ledger) \in Nat
      /\ Cardinality(Ledger') <= Cardinality(Ledger) + 1
  <2>1. IsFiniteSet(Ledger)
    BY <1>1 DEF JoinsCounted
  <2>2. QED  BY <2>1, <1>3, OneMore
<1>5. QED  BY <1>1, <1>2, <1>4 DEF JoinsCounted

\* There is room for the Participant of a connection that is to register.
LEMMA RoomForOne ==
  ASSUME PlaceInv, NEW c \in Conns, pc[c] = "register", NEW u \in Users
  PROVE  life[u] + 1 \in 1..MaxJoins
<1>1. Types /\ JoinsCounted /\ life[u] \in 0..MaxJoins
  BY DEF PlaceInv, Types
<1> DEFINE f == [k \in 0..life[u] |-> IF k = 0 THEN <<c, 0>> ELSE <<u, k>>]
<1>2. \A k \in 0..life[u] : f[k] \in Ledger
  BY <1>1 DEF Ledger
<1>3. \A j, k \in 0..life[u] : f[j] = f[k] => j = k
  <2>1. \A k \in 0..life[u] : f[k][2] = k
    OBVIOUS
  <2>2. QED  BY <2>1
<1>4. f \in Injection(0..life[u], Ledger)
  BY <1>2, <1>3 DEF Injection, IsInjective
<1> HIDE DEF f
<1>5. Cardinality(0..life[u]) <= Cardinality(Ledger)
  BY <1>1, <1>4, FS_Injection DEF JoinsCounted
<1>6. Cardinality(0..life[u]) = life[u] + 1
  BY <1>1, FS_Interval
<1>7. Cardinality(Ledger) \in Nat
  BY <1>1, FS_CardinalityType DEF JoinsCounted
<1>8. QED  BY <1>1, <1>5, <1>6, <1>7 DEF JoinsCounted

LEMMA RegisterTyped == ASSUME PlaceInv, NEW c \in Conns, Register(c) PROVE Types'
<1>1. Types /\ <<UserOf[c], life[UserOf[c]] + 1>> \in Participants /\ life[UserOf[c]] + 1 \in 1..MaxJoins
  BY RoomForOne DEF PlaceInv, Register, Participants
<1>2. maps' \in [Conns -> SUBSET (Users \X Nat)]
  BY <1>1, SnapshotTyped DEF Register
<1>3. life' \in [Users -> 0..MaxJoins]
  BY <1>1 DEF Register, Types
<1>4. QED
  BY <1>1, <1>2, <1>3 DEF Register, Types, wireVars, gateVars, sendVars, Goto, Labels, Sending

LEMMA RegisterCounted ==
  ASSUME PlaceInv, NEW c \in Conns, Register(c)
  PROVE  JoinsCounted'
<1> DEFINE u == UserOf[c]
           n == life[u] + 1
<1>1. Types /\ JoinsCounted /\ u \in Users /\ n \in 1..MaxJoins /\ life[u] \in 0..MaxJoins
  BY RoomForOne DEF PlaceInv, Register, Types
<1>2. /\ pc[c] = "register" /\ pc' = [pc EXCEPT ![c] = "announce"]
      /\ life' = [life EXCEPT ![u] = n] /\ joins' = joins
  BY DEF Register, Goto
<1>3. Ledger' = (Ledger \ {<<c, 0>>}) \union {<<u, n>>}
  <2>1. \A x \in (Users \union Conns) \X (0..MaxJoins) :
          x \in Ledger' <=> (x \in Ledger /\ x # <<c, 0>>) \/ x = <<u, n>>
    <3> SUFFICES ASSUME NEW v \in Users \union Conns, NEW k \in 0..MaxJoins
                 PROVE  <<v, k>> \in Ledger' <=> (<<v, k>> \in Ledger /\ <<v, k>> # <<c, 0>>) \/ <<v, k>> = <<u, n>>
      OBVIOUS
    <3>1. CASE k = 0
      BY <1>1, <1>2, <3>1 DEF Ledger, Types
    <3>2. CASE k # 0 /\ v \in Users
      <4>1. life'[v] = IF v = u THEN n ELSE life[v]
        BY <1>1, <1>2, <3>2 DEF Types
      <4>2. life[v] \in 0..MaxJoins
        BY <1>1, <3>2 DEF Types
      <4>3. QED  BY <1>1, <3>2, <4>1, <4>2 DEF Ledger
    <3>3. CASE k # 0 /\ v \notin Users
      BY <1>1, <3>3 DEF Ledger
    <3>4. QED  BY <3>1, <3>2, <3>3
  <2>2. <<u, n>> \in (Users \union Conns) \X (0..MaxJoins)
    BY <1>1
  <2>3. Ledger \subseteq (Users \union Conns) \X (0..MaxJoins) /\ Ledger' \subseteq (Users \union Conns) \X (0..MaxJoins)
    BY DEF Ledger
  <2>4. QED  BY <2>1, <2>2, <2>3
<1>4. <<c, 0>> \in Ledger
  BY <1>1, <1>2 DEF Ledger
<1>5. IsFiniteSet(Ledger \ {<<c, 0>>}) /\ Cardinality(Ledger \ {<<c, 0>>}) = Cardinality(Ledger) - 1
  BY <1>1, <1>4, FS_RemoveElement DEF JoinsCounted
<1>6. Cardinality(Ledger) \in Nat /\ Cardinality(Ledger \ {<<c, 0>>}) \in Nat
  BY <1>1, <1>5, FS_CardinalityType DEF JoinsCounted
<1>7. /\ IsFiniteSet(Ledger') /\ Cardinality(Ledger') \in Nat
      /\ Cardinality(Ledger') <= Cardinality(Ledger \ {<<c, 0>>}) + 1
  BY <1>3, <1>5, OneMore
<1>8. QED  BY <1>1, <1>2, <1>5, <1>6, <1>7 DEF JoinsCounted
-----------------------------------------------------------------------------
(* Who is where.                                                           *)

LEMMA OthersInPlace ==
  ASSUME PlaceInv, NEW c \in Conns, Alone(c), LivesOn, Types', NEW d \in Conns, d # c
  PROVE  InPlace(d)'
<1>1. InPlace(d) /\ Types
  BY DEF PlaceInv
<1>2. /\ pc'[d] = pc[d] /\ then'[d] = then[d] /\ to'[d] = to[d] /\ mine'[d] = mine[d]
      /\ maps'[d] = maps[d] /\ batch'[d] = batch[d]
      /\ d \in gated' <=> d \in gated
      /\ d \in inside' <=> d \in inside
      /\ d \in dead' <=> d \in dead
      /\ queued'[d] # queued[d] => d \in gated
  BY DEF Alone
<1>3. UserOf[d] \in Users /\ life[UserOf[d]] \in Nat /\ life'[UserOf[d]] \in Nat
  BY <1>1 DEF Types
<1>4. /\ life'[UserOf[d]] >= life[UserOf[d]]
      /\ UserOf[d] \in present' \ present => life'[UserOf[d]] > life[UserOf[d]]
  BY <1>3 DEF LivesOn
<1>6. (BeforeReply(d))' <=> BeforeReply(d)
  BY <1>2 DEF BeforeReply
<1>7. (Joining(d))' <=> Joining(d)
  BY <1>2, <1>6 DEF Joining
<1>8. /\ (d \in gated <=> pc[d] = "register" \/ Joining(d))'
      /\ (queued[d] # <<>> => d \in gated)'
      /\ (batch[d] # <<>> => pc[d] = "flush")'
      /\ (maps[d] # {} => Joining(d))'
      /\ (pc[d] \in {"register", "unbind"} \/ BeforeReply(d) => d \notin inside)'
      /\ (d \in dead => d \notin inside /\ d \notin gated /\ pc[d] # "flush")'
  BY <1>1, <1>2, <1>6, <1>7 DEF InPlace
<1>9. /\ (pc[d] \in Sending => then[d] # "stay")'
      /\ (pc[d] = "left" => then[d] # "joined")'
      /\ (pc[d] = "unbind" => then[d] # "joined")'
      /\ (pc[d] \in {"gate", "write"} => to[d] \in Participants \X Conns)'
      /\ (Joining(d) \/ d \in inside => mine[d] \in Participants)'
  BY <1>1, <1>2, <1>7 DEF InPlace
<1>10. (pc[d] = "unbind" => /\ mine[d] \in Participants /\ mine[d][1] = UserOf[d] /\ mine[d][2] <= life[UserOf[d]]
                            /\ UserOf[d] \in present => mine[d][2] < life[UserOf[d]])'
  <2> SUFFICES ASSUME pc[d] = "unbind"
               PROVE  /\ mine[d] \in Participants /\ mine[d][1] = UserOf[d] /\ mine[d][2] <= life'[UserOf[d]]
                      /\ UserOf[d] \in present' => mine[d][2] < life'[UserOf[d]]
    BY <1>2
  <2>1. /\ mine[d] \in Participants /\ mine[d][1] = UserOf[d] /\ mine[d][2] <= life[UserOf[d]]
        /\ UserOf[d] \in present => mine[d][2] < life[UserOf[d]]
    BY <1>1 DEF InPlace
  <2>2. mine[d][2] \in Nat
    BY <2>1 DEF Participants
  <2>3. QED  BY <1>3, <1>4, <2>1, <2>2
<1>11. QED  BY <1>8, <1>9, <1>10 DEF InPlace

\* A step that unbinds nobody, and lets nobody in or out.
LEMMA CalmKeepsPlaces ==
  ASSUME PlaceInv, NEW c \in Conns, Alone(c), Types', JoinsCounted', InPlace(c)',
         UNCHANGED <<present, life, sender, closed>>, mine'[c] = mine[c],
         In(c) => In(c)', pc[c] # "unbind"
  PROVE  PlaceInv'
<1>1. Types
  BY DEF PlaceInv
<1>2. LivesOn
  BY <1>1 DEF LivesOn, Types
<1>3. \A d \in Conns : InPlace(d)'
  BY <1>2, OthersInPlace
<1>4. ASSUME NEW p \in Participants PROVE Bound(p)'
  <2> SUFFICES ASSUME sender[p] # None PROVE Bound(p)'
    BY DEF Bound
  <2>1. PICK d \in Conns : d = sender[p]
    BY <1>1 DEF Types
  <2>2. Bound(p)
    BY DEF PlaceInv
  <2>3. mine'[d] = mine[d] /\ (pc[d] = "unbind" => pc'[d] = "unbind") /\ (In(d) => In(d)')
    BY DEF Alone, In, BeforeReply
  <2>4. This(p[1])' = This(p[1])
    BY DEF This
  <2>5. QED  BY <2>1, <2>2, <2>3, <2>4 DEF Bound
<1>5. \A u \in present' : This(u)' \in Participants /\ sender'[This(u)'] # None
  BY DEF PlaceInv, This
<1>6. QED  BY <1>3, <1>4, <1>5 DEF PlaceInv

\* Who sends goes on where he said he would.
LEMMA SendToGoes ==
  ASSUME Types, NEW c \in Conns, NEW f, NEW T, NEW n, SendTo(c, f, T, n)
  PROVE  /\ todo'[c] = T /\ to'[c] = to[c]
         /\ \/ pc'[c] = "send" /\ frame'[c] = f /\ then'[c] = n /\ T # {}
            \/ pc'[c] = n /\ then'[c] = "idle" /\ frame' = frame /\ T = {}
         /\ \A d \in Conns \ {c} : /\ pc'[d] = pc[d] /\ then'[d] = then[d] /\ frame'[d] = frame[d]
                                   /\ todo'[d] = todo[d] /\ to'[d] = to[d]
<1>1. CASE T # {}
  BY <1>1 DEF SendTo, Goto, Types
<1>2. CASE T = {}
  BY <1>2 DEF SendTo, Goto, Types
<1>3. QED  BY <1>1, <1>2

LEMMA SentOneGoes ==
  ASSUME Types, NEW c \in Conns, NEW rest, SentOne(c, rest)
  PROVE  /\ to'[c] = <<None, None>>
         /\ \/ pc'[c] = "send" /\ frame' = frame /\ then'[c] = then[c] /\ rest # {}
            \/ pc'[c] = then[c] /\ then'[c] = "idle" /\ rest = {}
         /\ \A d \in Conns \ {c} : /\ pc'[d] = pc[d] /\ then'[d] = then[d] /\ frame'[d] = frame[d]
                                   /\ to'[d] = to[d]
<1>1. CASE rest # {}
  BY <1>1 DEF SentOne, Goto, Types
<1>2. CASE rest = {}
  BY <1>2 DEF SentOne, Goto, Types
<1>3. QED  BY <1>1, <1>2

LEMMA BufferGoes ==
  ASSUME Types, NEW e \in Conns, NEW w, Buffer(e, w)
  PROVE  /\ \A d \in Conns \ {e} : queued'[d] = queued[d]
         /\ \/ queued'[e] = Append(queued[e], w) /\ lossy' = lossy
            \/ queued' = queued /\ lossy' = lossy \union {e}
BY DEF Buffer, Types

\* A goroutine that sends goes on to the next target, or where it said it would.
SendsOn(c) ==
  /\ UNCHANGED <<present, life, sender, closed, joins, inside, dead, gated, mine, maps, batch>>
  /\ pc[c] \in Sending
  /\ \A d \in Conns : queued'[d] # queued[d] => d \in gated
  /\ \/ pc'[c] \in Sending /\ then'[c] = then[c]
     \/ pc'[c] = then[c] /\ then'[c] = "idle"
  /\ pc'[c] \in {"gate", "write"} => to'[c] \in Participants \X Conns
  /\ \A d \in Conns \ {c} : /\ pc'[d] = pc[d] /\ then'[d] = then[d] /\ frame'[d] = frame[d]
                            /\ todo'[d] = todo[d] /\ to'[d] = to[d]

LEMMA SendGoes ==
  ASSUME PlaceInv, NEW c \in Conns, Send(c)
  PROVE  /\ SendsOn(c)
         /\ (BeforeReply(c)' <=> BeforeReply(c)) /\ pc'[c] # "replay" /\ then[c] \in {"idle", "joined", "end"}
<1>0. Types /\ JoinsCounted /\ InPlace(c) /\ then[c] \in {"idle", "joined", "end", "stay"}
  BY DEF PlaceInv, Types
<1>1. ASSUME PickTarget(c) PROVE SendsOn(c)
  <2>1. PICK p \in todo[c] :
          /\ todo' = [todo EXCEPT ![c] = @ \ {p}]
          /\ \/ sender[p] = None /\ SentOne(c, todo[c] \ {p})
             \/ /\ sender[p] # None
                /\ to' = [to EXCEPT ![c] = <<p, sender[p]>>]
                /\ Goto(c, "gate")
                /\ UNCHANGED <<frame, then>>
    BY <1>1 DEF PickTarget
  <2>2. UNCHANGED <<roomVars, joins, frames, inside, dead, wireVars, joinVars>> /\ pc[c] = "send"
    BY <1>1 DEF PickTarget
  <2>3. \A d \in Conns \ {c} : todo'[d] = todo[d]
    BY <1>0, <2>1 DEF Types
  <2>4. CASE SentOne(c, todo[c] \ {p})
    BY <1>0, <2>2, <2>3, <2>4, SentOneGoes DEF SendsOn, roomVars, wireVars, gateVars, joinVars, Sending,
                                               InPlace
  <2>5. CASE /\ sender[p] # None
             /\ to' = [to EXCEPT ![c] = <<p, sender[p]>>]
             /\ Goto(c, "gate")
             /\ UNCHANGED <<frame, then>>
    <3>1. to'[c] \in Participants \X Conns
      BY <1>0, <2>1, <2>5 DEF Types
    <3>2. QED  BY <1>0, <2>2, <2>3, <2>5, <3>1 DEF SendsOn, Types, roomVars, wireVars, gateVars, joinVars,
                                                   Sending, Goto
  <2>6. QED  BY <2>1, <2>4, <2>5
<1>2. ASSUME PassGate(c) PROVE SendsOn(c)
  <2>1. UNCHANGED <<roomVars, joins, frames, inside, dead, gated, inbox, todo, joinVars>> /\ pc[c] = "gate"
    BY <1>2 DEF PassGate
  <2>2. to[c] \in Participants \X Conns
    BY <1>0, <2>1 DEF InPlace
  <2>3. CASE to[c][2] \in gated /\ Buffer(to[c][2], Addressed(frame[c], to[c][1])) /\ SentOne(c, todo[c])
    <3>1. \A d \in Conns : queued'[d] # queued[d] => d \in gated
      BY <1>0, <2>2, <2>3, BufferGoes
    <3>2. QED
      BY <1>0, <2>1, <2>3, <3>1, SentOneGoes DEF SendsOn, roomVars, joinVars, Sending, InPlace
  <2>4. CASE Goto(c, "write") /\ UNCHANGED <<gateVars, frame, then, to>>
    BY <1>0, <2>1, <2>2, <2>4 DEF SendsOn, Types, roomVars, gateVars, joinVars, Sending, Goto
  <2>5. QED  BY <1>2, <2>3, <2>4 DEF PassGate
<1>3. ASSUME WriteFrame(c) PROVE SendsOn(c)
  BY <1>0, <1>3, SentOneGoes DEF SendsOn, WriteFrame, roomVars, gateVars, joinVars, Sending, InPlace
<1>4. SendsOn(c)
  BY <1>1, <1>2, <1>3 DEF Send
<1>5. then[c] \in {"idle", "joined", "end"}
  BY <1>0, <1>4 DEF SendsOn, InPlace, Types
<1>6. (BeforeReply(c)' <=> BeforeReply(c)) /\ pc'[c] # "replay"
  BY <1>4, <1>5 DEF SendsOn, BeforeReply, Sending
<1>7. QED  BY <1>4, <1>5, <1>6

\* What a step of c leaves alone.
LEMMA StepAlone ==
  ASSUME PlaceInv, NEW c \in Conns, Client(c) \/ Send(c) \/ Join(c) \/ LeaveOn(c)
  PROVE  Alone(c)
<1>1. Types
  BY DEF PlaceInv
<1>2. ASSUME NEW f, NEW T, NEW n, SendTo(c, f, T, n), UNCHANGED <<inside, dead, wireVars, joinVars>>
      PROVE  Alone(c)
  BY <1>1, <1>2, SendToGoes DEF Alone, wireVars, gateVars, joinVars
<1>3. CASE Client(c)
  <2>1. CASE JoinFrame(c)
    BY <1>1, <2>1 DEF JoinFrame, Alone, Types, Goto, roomVars, sendVars, joinVars
  <2>2. CASE SetTrackSources(c) \/ Relay(c)
    BY <1>2, <2>2 DEF SetTrackSources, Relay
  <2>3. ASSUME NEW dies \in BOOLEAN, LeaveNothing(c, dies) PROVE Alone(c)
    BY <1>1, <2>3 DEF LeaveNothing, Quit, Alone, gateVars, sendVars, joinVars
  <2>4. ASSUME NEW dies \in BOOLEAN, LeaveSlot(c, dies) PROVE Alone(c)
    BY <1>1, <2>4 DEF LeaveSlot, Quit, Alone, Goto, Types, gateVars, sendVars
  <2>5. QED  BY <1>3, <2>1, <2>2, <2>3, <2>4 DEF Client, Leave
<1>4. CASE Send(c)
  BY <1>4, SendGoes DEF SendsOn, Alone
<1>5. CASE Join(c)
  <2>1. CASE RegisterRefused(c)
    BY <1>1, <2>1 DEF RegisterRefused, Alone, Types, Goto, roomVars, sendVars, joinVars
  <2>2. CASE Rebind(c)
    BY <1>1, <2>2 DEF Rebind, Snapshot, Alone, Types, Goto, wireVars, gateVars, sendVars
  <2>3. CASE Register(c)
    BY <1>1, <2>3 DEF Register, Snapshot, Alone, Types, Goto, wireVars, gateVars, sendVars
  <2>4. CASE PeerJoined(c)
    BY <1>2, <2>4 DEF PeerJoined
  <2>5. CASE Joined(c)
    BY <1>1, <2>5 DEF Joined, Alone, Types, Goto, roomVars, gateVars, sendVars, joinVars
  <2>6. CASE Replay(c)
    <3>1. c \in gated
      BY <2>6 DEF PlaceInv, InPlace, Joining, Replay
    <3>2. \A d \in Conns \ {c} : queued'[d] = queued[d]
      BY <1>1, <2>6, BufferGoes DEF Replay
    <3>3. QED  BY <1>1, <2>6, <3>1, <3>2 DEF Replay, Alone, Types, sendVars
  <2>7. CASE EndGate(c)
    BY <1>1, <2>7 DEF EndGate, Alone, Types, Goto, roomVars, sendVars
  <2>8. CASE Flush(c)
    BY <1>1, <2>8 DEF Flush, Alone, Types, Goto, gateVars, sendVars
  <2>9. QED  BY <1>5, <2>1, <2>2, <2>3, <2>4, <2>5, <2>6, <2>7, <2>8 DEF Join
<1>6. CASE LeaveOn(c)
  <2>1. CASE Unbind(c)
    BY <1>1, <2>1 DEF Unbind, Goto, Alone, wireVars, gateVars, sendVars, joinVars, Types
  <2>2. CASE PeerLeft(c)
    BY <1>2, <2>2 DEF PeerLeft
  <2>3. CASE End(c)
    <3>1. CASE closed
      BY <1>1, <2>3, <3>1 DEF End, Goto, Types, Alone, sendVars, wireVars, gateVars, joinVars
    <3>2. CASE ~closed
      BY <1>2, <2>3, <3>2 DEF End
    <3>3. QED  BY <3>1, <3>2
  <2>4. QED  BY <1>6, <2>1, <2>2, <2>3 DEF LeaveOn
<1>7. QED  BY <1>3, <1>4, <1>5, <1>6

LEMMA SendPlaced ==
  ASSUME PlaceInv, NEW c \in Conns, Send(c), Types'
  PROVE  PlaceInv'
<1>1. Types /\ JoinsCounted /\ InPlace(c)
  BY DEF PlaceInv
<1>2. SendsOn(c) /\ (BeforeReply(c)' <=> BeforeReply(c)) /\ pc'[c] # "replay" /\ then[c] \in {"idle", "joined", "end"}
  BY SendGoes
<1>3. Joining(c)' <=> Joining(c)
  BY <1>2 DEF SendsOn, Joining, Sending
<1>4. Alone(c)
  BY StepAlone
<1>5. InPlace(c)'
  BY <1>1, <1>2, <1>3 DEF SendsOn, InPlace, Sending
<1>6. JoinsCounted'
  BY <1>1, <1>2, LedgerKept DEF SendsOn, Sending
<1>7. In(c) => In(c)'
  BY <1>2 DEF SendsOn, In
<1>8. QED  BY <1>2, <1>4, <1>5, <1>6, <1>7, CalmKeepsPlaces DEF SendsOn, Sending

LEMMA JoinFramePlaced == ASSUME PlaceInv, NEW c \in Conns, JoinFrame(c), Types' PROVE PlaceInv'
<1>1. Types /\ InPlace(c)
  BY DEF PlaceInv
<1>2. Alone(c)
  BY StepAlone DEF Client
<1>3. InPlace(c)'
  BY <1>1 DEF JoinFrame, InPlace, Joining, BeforeReply, Types, Goto, Sending, roomVars, sendVars, joinVars
<1>4. ~In(c) /\ pc[c] # "unbind"
  BY DEF JoinFrame, In, BeforeReply, Sending
<1>5. QED
  BY <1>2, <1>3, <1>4, JoinFrameCounted, CalmKeepsPlaces DEF JoinFrame, roomVars, joinVars

LEMMA RegisterRefusedPlaced == ASSUME PlaceInv, NEW c \in Conns, RegisterRefused(c), Types' PROVE PlaceInv'
<1>1. Types /\ InPlace(c) /\ JoinsCounted
  BY DEF PlaceInv
<1>2. Alone(c)
  BY StepAlone DEF Join
<1>3. InPlace(c)'
  BY <1>1 DEF RegisterRefused, InPlace, Joining, BeforeReply, Types, Goto, Sending, roomVars, sendVars,
              joinVars
<1>4. ~BeforeReply(c) /\ c \notin inside /\ pc[c] # "unbind"
  BY <1>1 DEF RegisterRefused, BeforeReply, Sending, InPlace
<1>5. JoinsCounted'
  BY <1>1, LedgerLeft DEF RegisterRefused, Goto, Types, roomVars
<1>6. QED
  BY <1>2, <1>3, <1>4, <1>5, CalmKeepsPlaces DEF RegisterRefused, roomVars, joinVars, In

LEMMA PeerJoinedPlaced == ASSUME PlaceInv, NEW c \in Conns, PeerJoined(c), Types' PROVE PlaceInv'
<1>1. Types /\ InPlace(c) /\ JoinsCounted
  BY DEF PlaceInv
<1>2. /\ pc[c] = "announce"
      /\ SendTo(c, Frame("peer_joined", UserOf[c], 0), Others(UserOf[c]), "joined")
      /\ UNCHANGED <<roomVars, joins, frames, inside, dead, wireVars, joinVars>>
  BY DEF PeerJoined
<1>3. \/ pc'[c] = "send" /\ then'[c] = "joined"
      \/ pc'[c] = "joined"
  BY <1>1, <1>2, SendToGoes
<1>4. Alone(c)
  BY StepAlone DEF Join
<1>5. InPlace(c)'
  BY <1>1, <1>2, <1>3 DEF InPlace, Joining, BeforeReply, Sending, roomVars, wireVars, gateVars, joinVars
<1>6. BeforeReply(c)'
  BY <1>3 DEF BeforeReply, Sending
<1>7. \A d \in Conns : pc'[d] = "register" <=> pc[d] = "register"
  BY <1>2, <1>3, <1>4 DEF Alone
<1>8. JoinsCounted'
  BY <1>1, <1>2, <1>7, LedgerKept DEF roomVars
<1>9. QED
  BY <1>2, <1>4, <1>5, <1>6, <1>8, CalmKeepsPlaces DEF roomVars, joinVars, In

LEMMA JoinedPlaced == ASSUME PlaceInv, NEW c \in Conns, Joined(c), Types' PROVE PlaceInv'
<1>1. Types /\ InPlace(c) /\ JoinsCounted
  BY DEF PlaceInv
<1>2. Alone(c)
  BY StepAlone DEF Join
<1>3. InPlace(c)'
  BY <1>1 DEF Joined, InPlace, Joining, BeforeReply, Types, Goto, Sending, roomVars, gateVars, sendVars,
              joinVars
<1>4. In(c)' /\ pc[c] # "unbind"
  BY DEF Joined, In
<1>5. JoinsCounted'
  BY <1>1, LedgerKept DEF Joined, Goto, Types, roomVars
<1>6. QED
  BY <1>2, <1>3, <1>4, <1>5, CalmKeepsPlaces DEF Joined, roomVars, joinVars

LEMMA ReplayPlaced == ASSUME PlaceInv, NEW c \in Conns, Replay(c), Types' PROVE PlaceInv'
<1>1. Types /\ InPlace(c) /\ JoinsCounted /\ c \in gated
  BY DEF PlaceInv, InPlace, Joining, Replay
<1>3. UNCHANGED <<roomVars, joins, frames, inside, dead, gated, inbox, pc, then, sendVars, mine, batch>> /\ pc[c] = "replay"
  BY DEF Replay
<1>5. Alone(c)
  BY StepAlone DEF Join
<1>6. InPlace(c)'
  BY <1>1, <1>3 DEF InPlace, Joining, BeforeReply, Sending, roomVars, sendVars
<1>7. In(c) => In(c)'
  BY <1>3 DEF In, BeforeReply
<1>8. JoinsCounted'
  BY <1>1, <1>3, LedgerKept DEF roomVars
<1>9. QED
  BY <1>3, <1>5, <1>6, <1>7, <1>8, CalmKeepsPlaces DEF roomVars

LEMMA EndGatePlaced == ASSUME PlaceInv, NEW c \in Conns, EndGate(c), Types' PROVE PlaceInv'
<1>1. Types /\ InPlace(c) /\ JoinsCounted
  BY DEF PlaceInv
<1>2. Alone(c)
  BY StepAlone DEF Join
<1>3. InPlace(c)'
  BY <1>1 DEF EndGate, InPlace, Joining, BeforeReply, Types, Goto, Sending, roomVars, sendVars
<1>4. (In(c) => In(c)') /\ pc[c] # "unbind"
  BY DEF EndGate, In, BeforeReply, Sending
<1>5. JoinsCounted'
  BY <1>1, LedgerKept DEF EndGate, Goto, Types, roomVars
<1>6. QED
  BY <1>2, <1>3, <1>4, <1>5, CalmKeepsPlaces DEF EndGate, roomVars

LEMMA FlushPlaced == ASSUME PlaceInv, NEW c \in Conns, Flush(c), Types' PROVE PlaceInv'
<1>1. Types /\ InPlace(c) /\ JoinsCounted
  BY DEF PlaceInv
<1>2. /\ pc[c] = "flush" /\ UNCHANGED <<roomVars, joins, frames, inside, dead, gated, gateVars, then, sendVars, mine, maps>>
      /\ \A d \in Conns \ {c} : pc'[d] = pc[d] /\ batch'[d] = batch[d]
      /\ \/ pc'[c] = "flush"
         \/ pc'[c] = "idle" /\ batch'[c] = <<>>
  BY <1>1 DEF Flush, Goto, Types
<1>3. Alone(c)
  BY StepAlone DEF Join
<1>4. InPlace(c)'
  BY <1>1, <1>2 DEF InPlace, Joining, BeforeReply, Sending, roomVars, gateVars, sendVars
<1>5. In(c) => In(c)'
  BY <1>2 DEF In, BeforeReply, Sending
<1>6. \A d \in Conns : pc'[d] = "register" <=> pc[d] = "register"
  BY <1>2
<1>7. JoinsCounted'
  BY <1>1, <1>2, <1>6, LedgerKept DEF roomVars
<1>8. QED
  BY <1>2, <1>3, <1>4, <1>5, <1>7, CalmKeepsPlaces DEF roomVars

\* A client's frame, and what others are told of a leaver.
LEMMA TellingPlaced ==
  ASSUME PlaceInv, NEW c \in Conns, NEW f, NEW T, NEW n \in {"idle", "end"}, SendTo(c, f, T, n),
         pc[c] \in {"idle", "left"}, Types',
         UNCHANGED <<present, life, sender, closed, joins, inside, dead, wireVars, joinVars>>
  PROVE  PlaceInv'
<1>1. Types /\ InPlace(c) /\ JoinsCounted
  BY DEF PlaceInv
<1>2. \/ pc'[c] = "send" /\ then'[c] = n
      \/ pc'[c] = n
  BY <1>1, SendToGoes
<1>3. Alone(c)
  BY <1>1, SendToGoes DEF Alone, wireVars, gateVars, joinVars
<1>4. InPlace(c)'
  BY <1>1, <1>2 DEF InPlace, Joining, BeforeReply, Sending, wireVars, gateVars, joinVars
<1>5. In(c) => In(c)'
  BY DEF In, BeforeReply, Sending
<1>6. \A d \in Conns : pc'[d] = "register" <=> pc[d] = "register"
  BY <1>2, <1>3 DEF Alone
<1>7. JoinsCounted'
  BY <1>1, <1>6, LedgerKept
<1>8. QED
  BY <1>3, <1>4, <1>5, <1>7, CalmKeepsPlaces DEF joinVars

LEMMA SetTrackSourcesPlaced ==
  ASSUME PlaceInv, NEW c \in Conns, SetTrackSources(c), Types'
  PROVE  PlaceInv'
BY TellingPlaced DEF SetTrackSources, ClientFrame

LEMMA RelayPlaced ==
  ASSUME PlaceInv, NEW c \in Conns, Relay(c), Types'
  PROVE  PlaceInv'
BY TellingPlaced DEF Relay, ClientFrame, roomVars

LEMMA PeerLeftPlaced ==
  ASSUME PlaceInv, NEW c \in Conns, PeerLeft(c), Types'
  PROVE  PlaceInv'
BY TellingPlaced DEF PeerLeft, roomVars

\* c registers as Participant p: it had none before.
LEMMA ComerPlaced ==
  ASSUME PlaceInv, NEW c \in Conns, Alone(c), LivesOn, Types', JoinsCounted', InPlace(c)',
         pc[c] = "register", ~closed, ~closed', NEW p \in Participants, p[1] = UserOf[c],
         sender' = [sender EXCEPT ![p] = c], mine'[c] = p, In(c)',
         present' = present \union {p[1]}, p = This(p[1])',
         \A v \in Users \ {p[1]} : life'[v] = life[v], p[1] \in present => life' = life
  PROVE  PlaceInv'
<1>1. Types /\ InPlace(c) /\ p[1] \in Users
  BY DEF PlaceInv, Participants
<1>2. \A d \in Conns : InPlace(d)'
  BY OthersInPlace
<1>3. ~In(c)
  BY <1>1 DEF InPlace, In, BeforeReply, Sending
<1>4. ASSUME NEW q \in Participants PROVE Bound(q)'
  <2>1. CASE q = p
    BY <1>1, <2>1 DEF Bound, Types
  <2>2. CASE q # p
    <3> SUFFICES ASSUME sender[q] # None PROVE Bound(q)'
      BY <1>1, <2>2 DEF Bound, Types
    <3>1. PICK d \in Conns : d = sender[q]
      BY <1>1 DEF Types
    <3>2. Bound(q) /\ q[1] \in Users
      BY DEF PlaceInv, Participants
    <3>3. d # c
      BY <1>3, <3>1, <3>2 DEF Bound
    <3>4. mine'[d] = mine[d] /\ pc'[d] = pc[d] /\ (In(d) => In(d)') /\ sender'[q] = d
      BY <1>1, <2>2, <3>1, <3>3 DEF Alone, In, BeforeReply, Types
    <3>5. q[1] \in present => life'[q[1]] = life[q[1]]
      BY <3>2
    <3>6. QED  BY <3>1, <3>2, <3>4, <3>5 DEF Bound, This
  <2>3. QED  BY <2>1, <2>2
<1>5. ASSUME NEW u \in present' PROVE This(u)' \in Participants /\ sender'[This(u)'] # None
  <2>1. CASE u = p[1]
    BY <1>1, <2>1 DEF Types
  <2>2. CASE u # p[1]
    <3>1. u \in present /\ u \in Users
      BY <1>1, <2>2 DEF Types
    <3>2. This(u)' = This(u) /\ This(u) # p
      BY <2>2, <3>1 DEF This
    <3>3. QED  BY <1>1, <3>1, <3>2 DEF PlaceInv, Types
  <2>3. QED  BY <2>1, <2>2
<1>6. QED  BY <1>2, <1>4, <1>5 DEF PlaceInv

LEMMA RebindPlaced == ASSUME PlaceInv, NEW c \in Conns, Rebind(c), Types' PROVE PlaceInv'
<1> DEFINE u == UserOf[c]
<1> PICK p \in Participants : p = This(u)
  BY DEF PlaceInv, Rebind
<1>1. Types /\ InPlace(c) /\ JoinsCounted /\ p[1] = u
  BY DEF PlaceInv, This
<1>2. Alone(c)
  BY StepAlone DEF Join
<1>3. pc'[c] = "joined" /\ mine'[c] = p /\ LivesOn
  BY <1>1 DEF Rebind, Goto, Types, LivesOn
<1>4. InPlace(c)'
  BY <1>1, <1>3 DEF Rebind, InPlace, Joining, BeforeReply, Sending, wireVars, gateVars, sendVars
<1>5. In(c)'
  BY <1>3 DEF In, BeforeReply
<1>6. JoinsCounted'
  BY <1>1, LedgerLeft DEF Rebind, Goto, Types
<1>7. /\ present' = present \union {p[1]} /\ p = This(p[1])' /\ life' = life /\ pc[c] = "register"
      /\ ~closed /\ ~closed' /\ sender' = [sender EXCEPT ![p] = c]
  BY <1>1 DEF Rebind, This
<1>8. QED
  BY <1>1, <1>2, <1>3, <1>4, <1>5, <1>6, <1>7, ComerPlaced

LEMMA RegisterPlaced == ASSUME PlaceInv, NEW c \in Conns, Register(c), Types' PROVE PlaceInv'
<1> DEFINE u == UserOf[c]
<1>0. Types /\ InPlace(c) /\ u \in Users /\ life[u] \in Nat /\ life[u] + 1 \in 1..MaxJoins
  <2>1. Types /\ InPlace(c) /\ u \in Users /\ pc[c] = "register"
    BY DEF PlaceInv, Register, Types
  <2>2. life[u] + 1 \in 1..MaxJoins
    BY <2>1, RoomForOne
  <2>3. life[u] \in Nat
    BY <2>1 DEF Types
  <2>4. QED  BY <2>1, <2>2, <2>3
<1> PICK p \in Participants : p = <<u, life[u] + 1>>
  BY <1>0 DEF Participants
<1>1. Types /\ InPlace(c) /\ p[1] = u /\ u \in Users /\ life[u] \in Nat
  BY <1>0
<1>2. Alone(c)
  BY StepAlone DEF Join
<1>3. pc'[c] = "announce" /\ mine'[c] = p /\ life' = [life EXCEPT ![u] = life[u] + 1]
  BY <1>1 DEF Register, Goto, Types
<1>4. InPlace(c)'
  BY <1>1, <1>3 DEF Register, InPlace, Joining, BeforeReply, Sending, wireVars, gateVars, sendVars
<1>5. In(c)'
  BY <1>3 DEF In, BeforeReply
<1>6. JoinsCounted'
  BY RegisterCounted
<1>7. \A v \in Users : life'[v] = IF v = u THEN life[u] + 1 ELSE life[v]
  BY <1>1, <1>3 DEF Types
<1>8. /\ present' = present \union {p[1]} /\ p = This(p[1])' /\ p[1] \notin present /\ pc[c] = "register"
      /\ ~closed /\ ~closed' /\ sender' = [sender EXCEPT ![p] = c]
  BY <1>1, <1>7 DEF Register, This
<1>9. LivesOn
  <2> SUFFICES ASSUME NEW v \in Users
               PROVE  life'[v] >= life[v] /\ (v \in present' \ present => life'[v] > life[v])
    BY DEF LivesOn
  <2>1. life[v] \in Nat
    BY <1>1 DEF Types
  <2>2. CASE v = u
    BY <1>1, <1>7, <2>2
  <2>3. CASE v # u
    BY <1>1, <1>7, <1>8, <2>1, <2>3
  <2>4. QED  BY <2>2, <2>3
<1>10. \A v \in Users \ {p[1]} : life'[v] = life[v]
  BY <1>7
<1>11. QED
  BY <1>1, <1>2, <1>3, <1>4, <1>5, <1>6, <1>8, <1>9, <1>10, ComerPlaced

LEMMA LeaveNothingPlaced ==
  ASSUME PlaceInv, NEW c \in Conns, NEW dies \in BOOLEAN, LeaveNothing(c, dies), Types'
  PROVE  PlaceInv'
<1>1. Types /\ InPlace(c) /\ JoinsCounted /\ pc[c] = "idle" /\ c \in inside /\ ~Owns(c)
  BY DEF PlaceInv, LeaveNothing, Quit
<1>2. UNCHANGED <<roomVars, joins, frames, gated, gateVars, pc, then, sendVars, joinVars>>
  BY DEF LeaveNothing
<1>3. inside' = inside \ {c} /\ (dead' = dead \union {c} \/ dead' = dead)
  BY DEF LeaveNothing, Quit
<1>4. Alone(c)
  BY StepAlone DEF Client, Leave
<1>5. InPlace(c)'
  BY <1>1, <1>2, <1>3 DEF InPlace, Joining, BeforeReply, Sending, roomVars, gateVars, sendVars, joinVars
<1>6. LivesOn
  BY <1>1, <1>2 DEF LivesOn, roomVars, Types
<1>7. \A d \in Conns : InPlace(d)'
  BY <1>4, <1>5, <1>6, OthersInPlace
<1>8. JoinsCounted'
  BY <1>1, <1>2, LedgerKept DEF roomVars
<1>9. ASSUME NEW p \in Participants PROVE Bound(p)'
  <2> SUFFICES ASSUME sender[p] # None PROVE Bound(p)'
    BY <1>2 DEF Bound, roomVars
  <2>1. PICK d \in Conns : d = sender[p]
    BY <1>1 DEF Types
  <2>2. Bound(p)
    BY DEF PlaceInv
  <2>3. CASE d = c
    <3>1. closed
      BY <1>1, <2>1, <2>2, <2>3 DEF Bound, Owns
    <3>2. QED  BY <1>2, <2>1, <2>2, <3>1 DEF Bound, roomVars, joinVars
  <2>4. CASE d # c
    <3>1. In(d) => In(d)'
      BY <1>2, <1>3, <2>4 DEF In, BeforeReply
    <3>2. QED  BY <1>2, <2>1, <2>2, <3>1 DEF Bound, roomVars, joinVars, This
  <2>5. QED  BY <2>3, <2>4
<1>10. \A u \in present' : This(u)' \in Participants /\ sender'[This(u)'] # None
  BY <1>2 DEF PlaceInv, This, roomVars
<1>11. closed' => present' = {}
  BY <1>2 DEF PlaceInv, roomVars
<1>12. QED  BY <1>7, <1>8, <1>9, <1>10, <1>11 DEF PlaceInv

LEMMA LeaveSlotPlaced ==
  ASSUME PlaceInv, NEW c \in Conns, NEW dies \in BOOLEAN, LeaveSlot(c, dies), Types'
  PROVE  PlaceInv'
<1> DEFINE u == UserOf[c]
<1>1. /\ Types /\ InPlace(c) /\ JoinsCounted /\ pc[c] = "idle" /\ c \in inside
      /\ ~closed /\ u \in present /\ sender[This(u)] = c /\ This(u) \in Participants
  BY DEF PlaceInv, LeaveSlot, Quit, Owns
<1>2. UNCHANGED <<life, sender, sources, joins, frames, gated, gateVars, sendVars, maps, batch>>
  BY DEF LeaveSlot
<1>3. inside' = inside \ {c} /\ (dead' = dead \union {c} \/ dead' = dead)
  BY DEF LeaveSlot, Quit
<1>4. /\ present' = present \ {u} /\ closed' = (present = {u})
      /\ pc' = [pc EXCEPT ![c] = "unbind"] /\ mine' = [mine EXCEPT ![c] = This(u)]
  BY DEF LeaveSlot, Goto
<1>5. then'[c] # "joined" /\ \A d \in Conns \ {c} : then'[d] = then[d]
  BY <1>1 DEF LeaveSlot, Types
<1>6. pc'[c] = "unbind" /\ mine'[c] = This(u)
  BY <1>1, <1>4 DEF Types
<1>7. Alone(c)
  BY StepAlone DEF Client, Leave
<1>8. InPlace(c)'
  <2>1. This(u)[1] = u /\ This(u)[2] = life[u] /\ life[u] \in Nat
    BY <1>1 DEF This, Types
  <2>2. QED
    BY <1>1, <1>2, <1>3, <1>4, <1>5, <1>6, <2>1 DEF InPlace, Joining, BeforeReply, Sending, gateVars,
                                                    sendVars
<1>9. LivesOn
  BY <1>1, <1>2, <1>4 DEF LivesOn, Types
<1>10. \A d \in Conns : InPlace(d)'
  BY <1>7, <1>8, <1>9, OthersInPlace
<1>11. JoinsCounted'
  BY <1>1, <1>2, <1>4, LedgerKept DEF Types
<1>12. ASSUME NEW p \in Participants PROVE Bound(p)'
  <2> SUFFICES ASSUME sender[p] # None PROVE Bound(p)'
    BY <1>2 DEF Bound
  <2>1. PICK d \in Conns : d = sender[p]
    BY <1>1 DEF Types
  <2>2. Bound(p)
    BY DEF PlaceInv
  <2>3. CASE d = c
    <3>1. p = This(u) /\ p[1] = u
      BY <1>1, <2>1, <2>2, <2>3 DEF Bound, PlaceInv
    <3>2. QED  BY <1>2, <1>6, <2>1, <2>3, <3>1 DEF Bound
  <2>4. CASE d # c
    <3>1. (In(d) => In(d)') /\ pc'[d] = pc[d] /\ mine'[d] = mine[d]
      BY <1>3, <1>7, <2>4 DEF In, BeforeReply, Alone
    <3>2. p[1] \in present /\ p = This(p[1]) => p[1] # u
      BY <1>1, <2>1, <2>4
    <3>3. This(p[1])' = This(p[1])
      BY <1>2 DEF This
    <3>4. QED  BY <1>1, <1>2, <1>4, <2>1, <2>2, <3>1, <3>2, <3>3 DEF Bound
  <2>5. QED  BY <2>3, <2>4
<1>13. \A v \in present' : This(v)' \in Participants /\ sender'[This(v)'] # None
  BY <1>2, <1>4 DEF PlaceInv, This
<1>14. closed' => present' = {}
  BY <1>4
<1>15. QED  BY <1>10, <1>11, <1>12, <1>13, <1>14 DEF PlaceInv

LEMMA UnbindPlaced == ASSUME PlaceInv, NEW c \in Conns, Unbind(c), Types' PROVE PlaceInv'
<1>1. /\ Types /\ InPlace(c) /\ JoinsCounted /\ pc[c] = "unbind" /\ mine[c] \in Participants
  BY DEF PlaceInv, Unbind, InPlace
<1>2. /\ UNCHANGED <<present, life, sources, closed, joins, frames, inside, dead, wireVars, then, sendVars, joinVars>>
      /\ sender' = [sender EXCEPT ![mine[c]] = None]
      /\ pc' = [pc EXCEPT ![c] = IF then[c] = "idle" THEN "idle" ELSE "left"]
  BY DEF Unbind, Goto
<1>3. pc'[c] \in {"idle", "left"}
  BY <1>1, <1>2 DEF Types
<1>4. Alone(c)
  BY StepAlone DEF LeaveOn
<1>5. InPlace(c)'
  BY <1>1, <1>2, <1>3 DEF InPlace, Joining, BeforeReply, Sending, wireVars, gateVars, sendVars, joinVars
<1>6. LivesOn
  BY <1>1, <1>2 DEF LivesOn, Types
<1>7. \A d \in Conns : InPlace(d)'
  BY <1>4, <1>5, <1>6, OthersInPlace
<1>8. \A d \in Conns : pc'[d] = "register" <=> pc[d] = "register"
  BY <1>1, <1>3, <1>4 DEF Alone
<1>9. JoinsCounted'
  BY <1>1, <1>2, <1>8, LedgerKept
<1>10. ASSUME NEW p \in Participants PROVE Bound(p)'
  <2> SUFFICES ASSUME p # mine[c], sender[p] # None PROVE Bound(p)'
    BY <1>1, <1>2 DEF Bound, Types
  <2>1. PICK d \in Conns : d = sender[p]
    BY <1>1 DEF Types
  <2>2. Bound(p) /\ sender'[p] = d
    BY <1>1, <1>2, <2>1 DEF PlaceInv, Types
  <2>3. d # c
    BY <2>1, <2>2 DEF Bound
  <2>4. (In(d) => In(d)') /\ pc'[d] = pc[d] /\ mine'[d] = mine[d]
    BY <1>4, <2>3 DEF In, BeforeReply, Alone
  <2>5. This(p[1])' = This(p[1])
    BY <1>2 DEF This
  <2>6. QED  BY <1>2, <2>1, <2>2, <2>4, <2>5 DEF Bound
<1>11. ASSUME NEW v \in present' PROVE This(v)' \in Participants /\ sender'[This(v)'] # None
  <2>1. v \in present /\ This(v)' = This(v) /\ life[v] \in Nat
    BY <1>1, <1>2 DEF This, Types
  <2>2. This(v) # mine[c]
    BY <1>1, <2>1 DEF InPlace, This
  <2>3. QED  BY <1>1, <1>2, <2>1, <2>2 DEF PlaceInv, Types
<1>12. closed' => present' = {}
  BY <1>2 DEF PlaceInv
<1>13. QED  BY <1>7, <1>9, <1>10, <1>11, <1>12 DEF PlaceInv

LEMMA EndPlaced == ASSUME PlaceInv, NEW c \in Conns, End(c), Types' PROVE PlaceInv'
<1>1. Types /\ InPlace(c) /\ JoinsCounted /\ pc[c] = "end"
  BY DEF PlaceInv, End
<1>2. UNCHANGED <<life, sender, sources, joins, frames, inside, dead, wireVars, joinVars>>
  BY DEF End
<1>3. /\ pc'[c] \in {"idle", "send"} /\ (pc'[c] = "send" => then'[c] = "idle")
      /\ \A d \in Conns \ {c} : /\ pc'[d] = pc[d] /\ then'[d] = then[d] /\ frame'[d] = frame[d]
                                /\ todo'[d] = todo[d] /\ to'[d] = to[d]
  <2>1. CASE closed
    BY <1>1, <2>1 DEF End, Goto, Types, sendVars
  <2>2. CASE ~closed
    BY <1>1, <2>2, SendToGoes DEF End
  <2>3. QED  BY <2>1, <2>2
<1>4. Alone(c)
  BY StepAlone DEF LeaveOn
<1>5. InPlace(c)'
  BY <1>1, <1>2, <1>3 DEF InPlace, Joining, BeforeReply, Sending, wireVars, gateVars, joinVars
<1>6. \A d \in Conns : pc'[d] = "register" <=> pc[d] = "register"
  BY <1>1, <1>3
<1>7. JoinsCounted'
  BY <1>1, <1>2, <1>6, LedgerKept
<1>8. CASE closed
  <2>1. UNCHANGED <<present, closed>>
    BY <1>8 DEF End
  <2>2. In(c) => In(c)'
    BY <1>1, <1>2 DEF In, BeforeReply, Sending
  <2>3. QED
    BY <1>1, <1>2, <1>4, <1>5, <1>7, <2>1, <2>2, CalmKeepsPlaces DEF joinVars
<1>9. CASE ~closed
  <2>1. closed' = TRUE /\ present' = {}
    BY <1>9 DEF End
  <2>2. LivesOn
    BY <1>1, <1>2, <2>1 DEF LivesOn, Types
  <2>3. \A d \in Conns : InPlace(d)'
    BY <1>4, <1>5, <2>2, OthersInPlace
  <2>4. \A p \in Participants : Bound(p)'
    BY <1>2, <2>1 DEF PlaceInv, Bound, joinVars
  <2>5. QED  BY <1>7, <2>1, <2>3, <2>4 DEF PlaceInv
<1>10. QED  BY <1>8, <1>9

LEMMA InitPlaced == Init => PlaceInv
<1> SUFFICES ASSUME Init PROVE PlaceInv
  OBVIOUS
<1>1. <<>> \in Seq(Writings)
  OBVIOUS
<1>2. NoFrame \in Frames
  BY DEF NoFrame, Frame, Frames, Kind
<1>3. Types
  <2>1. /\ queued \in [Conns -> Seq(Writings)] /\ inbox \in [Conns -> Seq(Writings)]
        /\ batch \in [Conns -> Seq(Writings)] /\ frame \in [Conns -> Frames]
    BY <1>1, <1>2 DEF Init
  <2>2. /\ present \in SUBSET Users /\ life \in [Users -> 0..MaxJoins]
        /\ sender \in [Participants -> Conns \union {None}] /\ sources \in [Users -> Nat]
    BY DEF Init
  <2>5. closed \in BOOLEAN /\ inside \subseteq Conns /\ dead \subseteq Conns /\ gated \subseteq Conns
    BY DEF Init
  <2>6. frames \in Nat
    BY DEF Init
  <2>3. /\ pc \in [Conns -> Labels] /\ then \in [Conns -> {"idle", "joined", "end", "stay"}]
        /\ todo \in [Conns -> SUBSET Participants]
        /\ to \in [Conns -> (Participants \X Conns) \union {<<None, None>>}]
        /\ mine \in [Conns -> Participants \union {None}]
        /\ maps \in [Conns -> SUBSET (Users \X Nat)]
    BY DEF Init, Labels
  <2>4. QED  BY <2>1, <2>2, <2>3, <2>5, <2>6 DEF Types
<1>4. Ledger = {}
  BY DEF Ledger, Init
<1>5. JoinsCounted
  BY <1>4, FS_EmptySet DEF JoinsCounted, Init
<1>6. \A c \in Conns : InPlace(c)
  BY DEF Init, InPlace, Joining, BeforeReply, Sending
<1>7. \A p \in Participants : Bound(p)
  BY DEF Init, Bound
<1>8. QED  BY <1>3, <1>5, <1>6, <1>7 DEF PlaceInv, Init

LEMMA StepPlaced == PlaceInv /\ [Next]_vars => PlaceInv'
<1> SUFFICES ASSUME PlaceInv, [Next]_vars PROVE PlaceInv'
  OBVIOUS
<1>1. CASE UNCHANGED vars
  <2>1. UNCHANGED <<present, life, sender, sources, closed, joins, frames, inside, dead, gated, queued, lossy, inbox>>
    BY <1>1 DEF vars, roomVars, wireVars, gateVars
  <2>2. UNCHANGED <<pc, then, frame, todo, to, mine, maps, batch>>
    BY <1>1 DEF vars, sendVars, joinVars
  <2>3. Types' <=> Types
    BY <2>1, <2>2 DEF Types
  <2>4. JoinsCounted' <=> JoinsCounted
    BY <2>1, <2>2 DEF JoinsCounted, Ledger
  <2>5. \A c \in Conns : InPlace(c)' <=> InPlace(c)
    BY <2>1, <2>2 DEF InPlace, Joining, BeforeReply
  <2>6. \A p \in Participants : Bound(p)' <=> Bound(p)
    BY <2>1, <2>2 DEF Bound, In, BeforeReply, This
  <2>7. QED  BY <2>1, <2>3, <2>4, <2>5, <2>6 DEF PlaceInv, This
<1>2. ASSUME NEW c \in Conns, Client(c) PROVE PlaceInv'
  <2>1. CASE Leave(c)
    <3>1. Types'
      BY <2>1, LeaveTyped
    <3>2. QED
      BY <2>1, <3>1, LeaveNothingPlaced, LeaveSlotPlaced DEF Leave
  <2>2. QED
    BY <1>2, <2>1, JoinFrameTyped, JoinFramePlaced, SetTrackSourcesTyped, SetTrackSourcesPlaced,
       RelayTyped, RelayPlaced DEF Client
<1>3. ASSUME NEW c \in Conns, Send(c) PROVE PlaceInv'
  BY <1>3, PickTargetTyped, PassGateTyped, WriteFrameTyped, SendPlaced DEF Send
<1>4. ASSUME NEW c \in Conns, Join(c) PROVE PlaceInv'
  BY <1>4, RegisterRefusedTyped, RegisterRefusedPlaced, RebindTyped, RebindPlaced,
     RegisterTyped, RegisterPlaced, PeerJoinedTyped, PeerJoinedPlaced, JoinedTyped, JoinedPlaced,
     ReplayTyped, ReplayPlaced, EndGateTyped, EndGatePlaced, FlushTyped, FlushPlaced DEF Join
<1>5. ASSUME NEW c \in Conns, LeaveOn(c) PROVE PlaceInv'
  BY <1>5, UnbindTyped, UnbindPlaced, PeerLeftTyped, PeerLeftPlaced, EndTyped, EndPlaced DEF LeaveOn
<1>6. QED  BY <1>1, <1>2, <1>3, <1>4, <1>5 DEF Next
-----------------------------------------------------------------------------
(* Welcomed first.                                                         *)

\* A step of c that shuts nobody up: who was written to keeps what he got.
LEMMA StandsStill ==
  ASSUME PlaceInv, NEW c \in Conns, Alone(c), dead \subseteq dead',
         \A d \in Conns : d \in dead' \/ \A p : Welcomed(d, p) => Welcomed(d, p)',
         BeforeReply(c) => mine'[c] = mine[c] /\ (BeforeReply(c)' \/ Welcomed(c, mine[c])')
  PROVE  Stands
<1> SUFFICES ASSUME NEW d \in Conns, NEW p
             PROVE  /\ Expected(d, p) => Expected(d, p)'
                    /\ d \in dead \/ Welcomed(d, p) => d \in dead' \/ Welcomed(d, p)'
  BY DEF Stands
<1>1. d \in dead \/ Welcomed(d, p) => d \in dead' \/ Welcomed(d, p)'
  OBVIOUS
<1>2. mine[d] = p /\ BeforeReply(d) => Expected(d, p)'
  <2>1. CASE d = c
    <3> SUFFICES ASSUME mine[c] = p, BeforeReply(c) PROVE Expected(c, p)'
      BY <2>1
    <3>1. CASE BeforeReply(c)'
      BY <3>1 DEF Expected
    <3>2. CASE Welcomed(c, mine[c])'
      BY <3>2 DEF Expected, Welcomed
    <3>3. QED  BY <3>1, <3>2
  <2>2. CASE d # c
    BY <2>2 DEF Alone, Expected, BeforeReply
  <2>3. QED  BY <2>1, <2>2
<1>3. QED  BY <1>1, <1>2 DEF Expected

\* A step that writes nothing.
LEMMA StillWelcome ==
  ASSUME inbox' = inbox, NEW d, NEW p
  PROVE  Welcomed(d, p)' <=> Welcomed(d, p)
BY DEF Welcomed

\* What is written is written behind the rest.
LEMMA WriteGoes ==
  ASSUME Types, NEW d \in Conns, NEW w \in Writings, Write(d, w), d \notin dead
  PROVE  /\ inbox'[d] = Append(inbox[d], w)
         /\ \A e \in Conns \ {d} : inbox'[e] = inbox[e]
         /\ DOMAIN inbox[d] = 1..Len(inbox[d]) /\ DOMAIN inbox'[d] = 1..(Len(inbox[d]) + 1)
         /\ Len(inbox[d]) \in Nat
         /\ \A i \in DOMAIN inbox[d] : inbox'[d][i] = inbox[d][i]
         /\ inbox'[d][Len(inbox[d]) + 1] = w
<1>1. inbox[d] \in Seq(Writings)
  BY DEF Types
<1>2. inbox'[d] = Append(inbox[d], w) /\ \A e \in Conns \ {d} : inbox'[e] = inbox[e]
  BY DEF Write, Types
<1>3. QED  BY <1>1, <1>2

LEMMA WriteWelcomes ==
  ASSUME Types, NEW d \in Conns, NEW w \in Writings, Write(d, w)
  PROVE  /\ \A e \in Conns : \A p : Welcomed(e, p) => Welcomed(e, p)'
         /\ d \notin dead /\ w.kind = "joined" => Welcomed(d, w.for)'
<1>1. CASE d \in dead
  BY <1>1 DEF Write, Welcomed
<1>2. CASE d \notin dead
  <2> DEFINE n == Len(inbox[d])
  <2>1. /\ \A e \in Conns \ {d} : inbox'[e] = inbox[e]
        /\ DOMAIN inbox[d] = 1..n /\ DOMAIN inbox'[d] = 1..(n + 1) /\ n \in Nat
        /\ \A i \in DOMAIN inbox[d] : inbox'[d][i] = inbox[d][i]
        /\ inbox'[d][n + 1] = w
    BY <1>2, WriteGoes
  <2> HIDE DEF n
  <2>2. \A p : Welcomed(d, p) => Welcomed(d, p)'
    BY <2>1 DEF Welcomed
  <2>3. \A e \in Conns \ {d} : \A p : Welcomed(e, p) => Welcomed(e, p)'
    BY <2>1 DEF Welcomed
  <2>4. w.kind = "joined" => Welcomed(d, w.for)'
    <3>1. n + 1 \in DOMAIN inbox'[d]
      BY <2>1
    <3>2. QED  BY <2>1, <3>1 DEF Welcomed
  <2>5. QED  BY <2>2, <2>3, <2>4
<1>3. QED  BY <1>1, <1>2

LEMMA WriteInOrder ==
  ASSUME Types, NothingBeforeJoined, NEW d \in Conns, NEW w \in Writings, Write(d, w),
         w.kind = "joined" \/ d \in dead \/ Welcomed(d, w.for)
  PROVE  NothingBeforeJoined'
<1>1. CASE d \in dead
  BY <1>1 DEF Write, NothingBeforeJoined, Received
<1>2. CASE d \notin dead
  <2> DEFINE n == Len(inbox[d])
  <2>1. /\ \A e \in Conns \ {d} : inbox'[e] = inbox[e]
        /\ DOMAIN inbox[d] = 1..n /\ DOMAIN inbox'[d] = 1..(n + 1) /\ n \in Nat
        /\ \A i \in DOMAIN inbox[d] : inbox'[d][i] = inbox[d][i]
        /\ inbox'[d][n + 1] = w
    BY <1>2, WriteGoes
  <2> HIDE DEF n
  <2> SUFFICES ASSUME NEW e \in Conns, NEW i \in DOMAIN inbox'[e]
               PROVE  \E j \in DOMAIN inbox'[e] : /\ inbox'[e][j].for = inbox'[e][i].for
                                                  /\ j <= i /\ inbox'[e][j].kind = "joined"
    BY DEF NothingBeforeJoined, Received
  <2>2. \A k \in DOMAIN inbox[e] : \E j \in DOMAIN inbox[e] :
           /\ inbox[e][j].for = inbox[e][k].for
           /\ j <= k /\ inbox[e][j].kind = "joined"
    BY DEF NothingBeforeJoined, Received
  <2>3. CASE e # d
    BY <2>1, <2>2, <2>3
  <2>4. CASE e = d /\ i \in 1..n
    <3>1. PICK j \in DOMAIN inbox[e] : /\ inbox[e][j].for = inbox[e][i].for
                                       /\ j <= i /\ inbox[e][j].kind = "joined"
      BY <2>1, <2>2, <2>4
    <3>2. j \in 1..(n + 1)
      BY <2>1, <2>4, <3>1
    <3>3. QED  BY <2>1, <2>4, <3>1, <3>2
  <2>5. CASE e = d /\ i = n + 1
    <3>1. CASE w.kind = "joined"
      BY <2>1, <2>5, <3>1
    <3>2. CASE Welcomed(d, w.for)
      <4>1. PICK j \in DOMAIN inbox[d] : inbox[d][j].for = w.for /\ inbox[d][j].kind = "joined"
        BY <3>2 DEF Welcomed
      <4>2. j \in 1..(n + 1) /\ j <= n + 1
        BY <2>1, <4>1
      <4>3. QED  BY <2>1, <2>5, <4>1, <4>2
    <3>3. QED  BY <1>2, <3>1, <3>2
  <2>6. QED  BY <2>1, <2>3, <2>4, <2>5
<1>3. QED  BY <1>1, <1>2

\* What a step of c has to see to.
LEMMA StillExpected ==
  ASSUME ExpectedInv, PlaceInv, NEW c \in Conns, Alone(c), Stands, NothingBeforeJoined', InOrder(c)',
         \A p \in Participants, d \in Conns : sender'[p] = d => sender[p] = d \/ Expected(d, p)',
         sender' \in [Participants -> Conns \union {None}],
         \A d \in Conns : \/ queued'[d] = queued[d]
                           \/ (\A i \in DOMAIN queued[d] : Expected(d, queued[d][i].for))'
  PROVE  ExpectedInv'
<1>1. ASSUME NEW p \in Participants, sender'[p] # None PROVE Expected(sender[p], p)'
  <2>1. PICK d \in Conns : d = sender'[p]
    BY <1>1
  <2>2. CASE sender[p] = d
    <3>1. Expected(d, p)
      BY <2>1, <2>2 DEF ExpectedInv, SignalsAssumption
    <3>2. Expected(d, p)'
      BY <3>1 DEF Stands
    <3>3. QED  BY <2>1, <3>2 DEF Expected, Welcomed, BeforeReply
  <2>3. CASE Expected(d, p)'
    BY <2>1, <2>3 DEF Expected, Welcomed, BeforeReply
  <2>4. QED  BY <2>1, <2>2, <2>3
<1>2. ASSUME NEW d \in Conns PROVE InOrder(d)'
  <2>1. CASE d = c
    BY <2>1
  <2>2. CASE d # c
    <3>1. pc'[d] = pc[d] /\ to'[d] = to[d] /\ mine'[d] = mine[d] /\ batch'[d] = batch[d]
      BY <2>2 DEF Alone
    <3>2. InOrder(d) /\ InPlace(d)
      BY DEF ExpectedInv, PlaceInv
    <3>3. PICK q, e : q = to[d][1] /\ e = to[d][2]
      OBVIOUS
    <3>4. pc[d] \in {"gate", "write"} => e \in Conns
      BY <3>2, <3>3 DEF InPlace
    <3>5. /\ pc[d] = "gate" => Expected(e, q)'
          /\ pc[d] = "write" => e \in dead' \/ Welcomed(e, q)'
      BY <3>2, <3>3, <3>4 DEF InOrder, Stands
    <3>6. /\ (pc[d] = "gate" => Expected(to[d][2], to[d][1]))'
          /\ (pc[d] = "write" => to[d][2] \in dead \/ Welcomed(to[d][2], to[d][1]))'
      BY <3>1, <3>3, <3>5 DEF Expected, Welcomed, BeforeReply
    <3>7. pc[d] = "replay" => d \in dead' \/ Welcomed(d, mine[d])'
      <4>1. PICK p : p = mine[d]
        OBVIOUS
      <4>2. pc[d] = "replay" => d \in dead' \/ Welcomed(d, p)'
        BY <3>2, <4>1 DEF InOrder, Stands
      <4>3. QED  BY <3>1, <4>1, <4>2 DEF Welcomed
    <3>8. \A i \in DOMAIN batch[d] : d \in dead' \/ Welcomed(d, batch[d][i].for)'
      <4> SUFFICES ASSUME NEW i \in DOMAIN batch[d] PROVE d \in dead' \/ Welcomed(d, batch[d][i].for)'
        OBVIOUS
      <4>1. PICK p : p = batch[d][i].for
        OBVIOUS
      <4>2. d \in dead' \/ Welcomed(d, p)'
        BY <3>2, <4>1 DEF InOrder, Stands
      <4>3. QED  BY <3>1, <4>1, <4>2 DEF Welcomed
    <3>9. d \in dead' <=> d \in dead
      BY <2>2 DEF Alone
    <3>10. (pc[d] = "replay" => d \notin dead) /\ (\A i \in DOMAIN batch[d] : d \notin dead)
      <4>1. batch[d] \in Seq(Writings)
        BY DEF PlaceInv, Types
      <4>2. \A i \in DOMAIN batch[d] : batch[d] # <<>>
        BY <4>1
      <4>3. QED  BY <3>2, <4>2 DEF InPlace, Joining
    <3>11. QED  BY <3>1, <3>6, <3>7, <3>8, <3>9, <3>10 DEF InOrder
  <2>3. QED  BY <2>1, <2>2
<1>3. ASSUME NEW d \in Conns PROVE (\A i \in DOMAIN queued[d] : Expected(d, queued[d][i].for))'
  <2>1. CASE (\A i \in DOMAIN queued[d] : Expected(d, queued[d][i].for))'
    BY <2>1
  <2>2. CASE queued'[d] = queued[d]
    <3> SUFFICES ASSUME NEW i \in DOMAIN queued[d] PROVE Expected(d, queued[d][i].for)'
      BY <2>2
    <3>1. PICK p : p = queued[d][i].for
      OBVIOUS
    <3>2. Expected(d, p)'
      BY <3>1 DEF ExpectedInv, Stands
    <3>3. QED  BY <2>2, <3>1, <3>2 DEF Expected, Welcomed, BeforeReply
  <2>3. QED  BY <2>1, <2>2
<1>4. QED  BY <1>1, <1>2, <1>3 DEF ExpectedInv

\* A step that writes nothing, and sends nothing to anybody.
LEMMA CalmExpected ==
  ASSUME ExpectedInv, PlaceInv, Types', NEW c \in Conns, Alone(c), UNCHANGED <<inbox, dead>>,
         batch'[c] = batch[c], pc'[c] \notin {"gate", "write", "replay"},
         BeforeReply(c) => mine'[c] = mine[c] /\ BeforeReply(c)',
         \A d \in Conns : queued'[d] = queued[d] \/ queued'[d] = <<>>,
         \A p \in Participants : \/ sender'[p] = sender[p] \/ sender'[p] = None
                                 \/ sender'[p] = c /\ mine'[c] = p /\ BeforeReply(c)'
  PROVE  ExpectedInv'
<1>1. Stands
  BY StillWelcome, StandsStill
<1>2. NothingBeforeJoined'
  BY DEF ExpectedInv, NothingBeforeJoined, Received
<1>3. InOrder(c)'
  BY DEF ExpectedInv, InOrder, Welcomed
<1>4. \A p \in Participants, d \in Conns : sender'[p] = d => sender[p] = d \/ Expected(d, p)'
  BY SignalsAssumption DEF Expected
<1>5. \A d \in Conns : \/ queued'[d] = queued[d]
                       \/ (\A i \in DOMAIN queued[d] : Expected(d, queued[d][i].for))'
  OBVIOUS
<1>6. sender' \in [Participants -> Conns \union {None}]
  BY DEF Types
<1>7. QED  BY <1>1, <1>2, <1>3, <1>4, <1>5, <1>6, StillExpected

LEMMA BatchInOrder ==
  ASSUME NEW c \in Conns, InOrder(c), batch'[c] = batch[c], \A p : Welcomed(c, p) => Welcomed(c, p)'
  PROVE  (\A i \in DOMAIN batch[c] : Welcomed(c, batch[c][i].for))'
<1> SUFFICES ASSUME NEW i \in DOMAIN batch[c] PROVE Welcomed(c, batch[c][i].for)'
  OBVIOUS
<1>1. PICK p : p = batch[c][i].for
  OBVIOUS
<1>2. Welcomed(c, p)'
  BY <1>1 DEF InOrder
<1>3. QED  BY <1>1, <1>2 DEF Welcomed

LEMMA SendExpected ==
  ASSUME PlaceInv, ExpectedInv, Types', NEW c \in Conns, Send(c)
  PROVE  ExpectedInv'
<1>1. Types /\ InPlace(c) /\ InOrder(c) /\ Alone(c) /\ SendsOn(c)
  BY StepAlone, SendGoes DEF PlaceInv, ExpectedInv
<1>2. /\ UNCHANGED <<sender, dead, gated, mine, batch>> /\ (BeforeReply(c)' <=> BeforeReply(c))
      /\ pc'[c] # "replay" /\ then[c] \in {"idle", "joined", "end"}
  BY SendGoes DEF SendsOn
<1>3. \A p \in Participants, d \in Conns : sender'[p] = d => sender[p] = d \/ Expected(d, p)'
  BY <1>2
<1>4. sender' \in [Participants -> Conns \union {None}] /\ mine'[c] = mine[c] /\ batch'[c] = batch[c]
  BY <1>2 DEF Types
<1>5. CASE PickTarget(c)
  <2>1. UNCHANGED <<queued, inbox>> /\ pc[c] = "send"
    BY <1>5 DEF PickTarget, wireVars, gateVars
  <2>2. Stands
    BY <1>1, <1>2, <1>4, <2>1, StillWelcome, StandsStill
  <2>3. PICK p \in todo[c] :
             \/ sender[p] = None /\ SentOne(c, todo[c] \ {p})
             \/ /\ sender[p] # None
                /\ to' = [to EXCEPT ![c] = <<p, sender[p]>>]
                /\ Goto(c, "gate")
    BY <1>5 DEF PickTarget
  <2>4. CASE sender[p] = None /\ SentOne(c, todo[c] \ {p})
    <3>1. pc'[c] \notin {"gate", "write", "replay"}
      BY <1>1, <1>2, <2>4, SentOneGoes
    <3>2. QED  BY <1>1, <1>2, <1>4, <2>1, <3>1, CalmExpected
  <2>5. CASE sender[p] # None /\ to' = [to EXCEPT ![c] = <<p, sender[p]>>] /\ Goto(c, "gate")
    <3>1. PICK d \in Conns : d = sender[p]
      BY <1>1, <2>5 DEF Types
    <3>2. p \in Participants /\ pc'[c] = "gate" /\ to'[c] = <<p, d>>
      BY <1>1, <2>3, <2>5, <3>1 DEF Types, Goto
    <3>3. Expected(d, p)'
      BY <2>2, <2>5, <3>1, <3>2 DEF ExpectedInv, Stands
    <3>4. Expected(to[c][2], to[c][1])'
      BY <3>2, <3>3 DEF Expected, Welcomed, BeforeReply
    <3>5. (\A i \in DOMAIN batch[c] : Welcomed(c, batch[c][i].for))'
      BY <1>1, <1>4, <2>1, StillWelcome, BatchInOrder
    <3>6. InOrder(c)'
      BY <3>2, <3>4, <3>5 DEF InOrder
    <3>7. NothingBeforeJoined'
      BY <2>1 DEF ExpectedInv, NothingBeforeJoined, Received
    <3>8. QED  BY <1>1, <1>3, <1>4, <2>1, <2>2, <3>6, <3>7, StillExpected
  <2>6. QED  BY <2>3, <2>4, <2>5
<1>6. CASE PassGate(c)
  <2>1. UNCHANGED inbox /\ pc[c] = "gate"
    BY <1>6 DEF PassGate
  <2>2. Stands
    BY <1>1, <1>2, <1>4, <2>1, StillWelcome, StandsStill
  <2>3. PICK p \in Participants, d \in Conns : to[c] = <<p, d>>
    BY <1>1, <2>1 DEF InPlace
  <2>4. Expected(d, p)
    BY <1>1, <2>1, <2>3 DEF InOrder
  <2>5. NothingBeforeJoined'
    BY <2>1 DEF ExpectedInv, NothingBeforeJoined, Received
  <2>6. (\A i \in DOMAIN batch[c] : Welcomed(c, batch[c][i].for))'
    BY <1>1, <1>4, <2>1, StillWelcome, BatchInOrder
  <2>7. CASE d \in gated /\ Buffer(d, Addressed(frame[c], p)) /\ SentOne(c, todo[c])
    <3>1. pc'[c] \notin {"gate", "write", "replay"}
      BY <1>1, <1>2, <2>7, SentOneGoes
    <3>2. InOrder(c)'
      BY <2>6, <3>1 DEF InOrder
    <3>3. PICK w : w = Addressed(frame[c], p)
      OBVIOUS
    <3>4. w \in Writings /\ w.for = p
      <4>1. frame[c] \in Frames
        BY <1>1 DEF Types
      <4>2. QED  BY <3>3, <4>1, Written DEF Addressed
    <3>5. /\ \A e \in Conns \ {d} : queued'[e] = queued[e]
          /\ queued'[d] = Append(queued[d], w) \/ queued'[d] = queued[d]
      BY <1>1, <2>7, <3>3, BufferGoes
    <3>6. ASSUME queued'[d] = Append(queued[d], w), NEW i \in DOMAIN queued'[d]
          PROVE  Expected(d, queued[d][i].for)'
      <4>0. queued[d] \in Seq(Writings)
        BY <1>1 DEF Types
      <4>1. i \in DOMAIN queued[d] \/ i = Len(queued[d]) + 1
        BY <3>4, <3>6, <4>0
      <4>2. PICK q : q = queued'[d][i].for
        OBVIOUS
      <4>3. Expected(d, q)
        <5>1. CASE i \in DOMAIN queued[d]
          BY <3>4, <3>6, <4>0, <4>2, <5>1 DEF ExpectedInv
        <5>2. CASE i = Len(queued[d]) + 1
          BY <2>4, <3>4, <3>6, <4>0, <4>2, <5>2
        <5>3. QED  BY <4>1, <5>1, <5>2
      <4>4. Expected(d, q)'
        BY <2>2, <4>3 DEF Stands
      <4>5. QED  BY <4>2, <4>4 DEF Expected, Welcomed, BeforeReply
    <3>7. \A e \in Conns : \/ queued'[e] = queued[e]
                           \/ (\A i \in DOMAIN queued[e] : Expected(e, queued[e][i].for))'
      <4> SUFFICES ASSUME queued'[d] = Append(queued[d], w)
                   PROVE  (\A i \in DOMAIN queued[d] : Expected(d, queued[d][i].for))'
        BY <3>5
      <4>1. QED  BY <3>6
    <3>8. QED  BY <1>1, <1>3, <1>4, <2>2, <2>5, <3>2, <3>7, StillExpected
  <2>8. CASE d \notin gated /\ Goto(c, "write") /\ UNCHANGED <<gateVars, frame, then, to>>
    <3>1. ~BeforeReply(d)
      BY <2>8 DEF PlaceInv, InPlace, Joining
    <3>2. d \in dead' \/ Welcomed(d, p)'
      BY <2>2, <2>4, <3>1 DEF Expected, Stands
    <3>3. to'[c] = <<p, d>> /\ pc'[c] = "write" /\ queued' = queued
      BY <1>1, <2>3, <2>8 DEF Types, Goto, gateVars
    <3>4. (to[c][2] \in dead \/ Welcomed(to[c][2], to[c][1]))'
      BY <3>2, <3>3 DEF Welcomed
    <3>5. InOrder(c)'
      BY <2>6, <3>3, <3>4 DEF InOrder
    <3>6. QED  BY <1>1, <1>3, <1>4, <2>2, <2>5, <3>3, <3>5, StillExpected
  <2>9. QED  BY <1>6, <2>3, <2>7, <2>8 DEF PassGate
<1>7. CASE WriteFrame(c)
  <2>1. UNCHANGED <<dead, queued>> /\ pc[c] = "write" /\ Write(to[c][2], Addressed(frame[c], to[c][1])) /\ SentOne(c, todo[c])
    BY <1>7 DEF WriteFrame, gateVars
  <2>2. PICK p \in Participants, d \in Conns : to[c] = <<p, d>>
    BY <1>1, <2>1 DEF InPlace
  <2>3. PICK w \in Writings : w = Addressed(frame[c], p) /\ w.for = p
    <3>1. frame[c] \in Frames
      BY <1>1 DEF Types
    <3>2. QED  BY <3>1, Written DEF Addressed
  <2>4. d \in dead \/ Welcomed(d, w.for)
    BY <1>1, <2>1, <2>2, <2>3 DEF InOrder
  <2>5. Write(d, w)
    BY <2>1, <2>2, <2>3
  <2>6. NothingBeforeJoined'
    BY <1>1, <2>4, <2>5, WriteInOrder DEF ExpectedInv
  <2>7. \A e \in Conns : \A q : Welcomed(e, q) => Welcomed(e, q)'
    BY <1>1, <2>5, WriteWelcomes
  <2>8. Stands
    BY <1>1, <1>2, <1>4, <2>1, <2>7, StandsStill
  <2>9. pc'[c] \notin {"gate", "write", "replay"}
    BY <1>1, <1>2, <2>1, SentOneGoes
  <2>10. (\A i \in DOMAIN batch[c] : Welcomed(c, batch[c][i].for))'
    BY <1>1, <1>4, <2>7, BatchInOrder
  <2>11. InOrder(c)'
    BY <2>9, <2>10 DEF InOrder
  <2>12. QED  BY <1>1, <1>3, <1>4, <2>1, <2>6, <2>8, <2>11, StillExpected
<1>8. QED  BY <1>5, <1>6, <1>7 DEF Send

LEMMA JoinFrameExpected == ASSUME PlaceInv, ExpectedInv, Types', NEW c \in Conns, JoinFrame(c)
  PROVE ExpectedInv'
<1>1. Types /\ Alone(c)
  BY StepAlone DEF PlaceInv, Client
<1>2. /\ UNCHANGED <<inbox, dead, sender>> /\ batch'[c] = batch[c] /\ pc[c] = "idle" /\ pc'[c] = "register"
      /\ \A d \in Conns : queued'[d] = queued[d] \/ queued'[d] = <<>>
  BY <1>1 DEF JoinFrame, Goto, Types, roomVars, joinVars
<1>3. ~BeforeReply(c)
  BY <1>2 DEF BeforeReply, Sending
<1>4. QED  BY <1>1, <1>2, <1>3, CalmExpected

LEMMA RegisterRefusedExpected ==
  ASSUME PlaceInv, ExpectedInv, Types', NEW c \in Conns, RegisterRefused(c)
  PROVE  ExpectedInv'
<1>1. Types /\ Alone(c)
  BY StepAlone DEF PlaceInv, Join
<1>2. /\ UNCHANGED <<inbox, dead, sender>> /\ batch'[c] = batch[c] /\ pc[c] = "register" /\ pc'[c] = "idle"
      /\ \A d \in Conns : queued'[d] = queued[d] \/ queued'[d] = <<>>
  BY <1>1 DEF RegisterRefused, Goto, Types, roomVars, joinVars
<1>3. ~BeforeReply(c)
  BY <1>2 DEF BeforeReply, Sending
<1>4. QED  BY <1>1, <1>2, <1>3, CalmExpected

LEMMA ComerExpected ==
  ASSUME PlaceInv, ExpectedInv, Types', NEW c \in Conns, Rebind(c) \/ Register(c)
  PROVE  ExpectedInv'
<1>1. Types /\ Alone(c)
  BY StepAlone DEF PlaceInv, Join
<1>2. /\ UNCHANGED <<inbox, dead, queued>> /\ batch'[c] = batch[c] /\ pc[c] = "register"
      /\ pc'[c] \in {"joined", "announce"}
  BY <1>1 DEF Rebind, Register, Goto, Types, wireVars, gateVars
<1>3. PICK x : sender' = [sender EXCEPT ![x] = c] /\ mine' = [mine EXCEPT ![c] = x]
  BY DEF Rebind, Register
<1>4. \A p \in Participants : sender'[p] = sender[p] \/ (sender'[p] = c /\ mine'[c] = p)
  BY <1>1, <1>3 DEF Types
<1>5. ~BeforeReply(c) /\ BeforeReply(c)'
  BY <1>2 DEF BeforeReply, Sending
<1>6. QED  BY <1>1, <1>2, <1>4, <1>5, CalmExpected

\* Who starts to send.
LEMMA SendToExpected ==
  ASSUME PlaceInv, ExpectedInv, Types', NEW c \in Conns, NEW f, NEW T, NEW n \in {"idle", "joined", "end"},
         SendTo(c, f, T, n), Alone(c), UNCHANGED <<sender, dead, wireVars, joinVars>>,
         BeforeReply(c) => n = "joined"
  PROVE  ExpectedInv'
<1>1. Types
  BY DEF PlaceInv
<1>2. \/ pc'[c] = "send" /\ then'[c] = n
      \/ pc'[c] = n
  BY <1>1, SendToGoes
<1>3. BeforeReply(c) => BeforeReply(c)'
  BY <1>2 DEF BeforeReply, Sending
<1>4. UNCHANGED <<inbox, dead, batch, mine, queued, sender>>
  BY DEF wireVars, gateVars, joinVars
<1>5. pc'[c] \notin {"gate", "write", "replay"}
  BY <1>2
<1>6. QED  BY <1>3, <1>4, <1>5, CalmExpected

LEMMA TellingExpected ==
  ASSUME PlaceInv, ExpectedInv, Types', NEW c \in Conns,
         PeerJoined(c) \/ SetTrackSources(c) \/ Relay(c) \/ PeerLeft(c)
  PROVE  ExpectedInv'
<1>1. Alone(c)
  BY StepAlone DEF Client, Join, LeaveOn
<1>2. CASE PeerJoined(c)
  BY <1>1, <1>2, SendToExpected DEF PeerJoined, roomVars
<1>3. CASE SetTrackSources(c)
  <2>1. ~BeforeReply(c)
    BY <1>3 DEF SetTrackSources, ClientFrame, BeforeReply, Sending
  <2>2. QED  BY <1>1, <1>3, <2>1, SendToExpected DEF SetTrackSources
<1>4. CASE Relay(c)
  <2>1. ~BeforeReply(c)
    BY <1>4 DEF Relay, ClientFrame, BeforeReply, Sending
  <2>2. QED  BY <1>1, <1>4, <2>1, SendToExpected DEF Relay, roomVars
<1>5. CASE PeerLeft(c)
  <2>1. ~BeforeReply(c)
    BY <1>5 DEF PeerLeft, BeforeReply, Sending
  <2>2. QED  BY <1>1, <1>5, <2>1, SendToExpected DEF PeerLeft, roomVars
<1>6. QED  BY <1>2, <1>3, <1>4, <1>5

LEMMA JoinedExpected == ASSUME PlaceInv, ExpectedInv, Types', NEW c \in Conns, Joined(c) PROVE ExpectedInv'
<1>1. /\ Types /\ Alone(c) /\ InPlace(c) /\ InOrder(c) /\ pc[c] = "joined"
  BY StepAlone DEF PlaceInv, ExpectedInv, Join, Joined
<1>2. c \notin dead /\ mine[c] \in Participants
  BY <1>1 DEF InPlace, Joining, BeforeReply
<1>3. UNCHANGED <<dead, queued, sender, mine, batch>> /\ pc'[c] = "replay" /\ Reply(c)
  BY <1>1 DEF Joined, Goto, Types, roomVars, gateVars, joinVars
<1>4. PICK p \in Participants : p = mine[c]
  BY <1>2
<1>5. PICK w \in Writings : w = Addressed(Frame("joined", UserOf[c], 0), p) /\ w.for = p /\ w.kind = "joined"
  <2>1. Frame("joined", UserOf[c], 0) \in Frames
    BY Framed, SignalsAssumption DEF Kind
  <2>2. QED  BY <2>1, Written DEF Addressed, Frame
<1>6. Write(c, w)
  BY <1>3, <1>4, <1>5 DEF Reply
<1>7. NothingBeforeJoined'
  BY <1>1, <1>5, <1>6, WriteInOrder DEF ExpectedInv
<1>8. (\A e \in Conns : \A q : Welcomed(e, q) => Welcomed(e, q)') /\ Welcomed(c, p)'
  BY <1>1, <1>2, <1>5, <1>6, WriteWelcomes
<1>9. Welcomed(c, mine[c])'
  BY <1>3, <1>4, <1>8 DEF Welcomed
<1>10. Stands
  BY <1>1, <1>3, <1>8, <1>9, StandsStill
<1>11. (\A i \in DOMAIN batch[c] : Welcomed(c, batch[c][i].for))'
  BY <1>1, <1>3, <1>8, BatchInOrder
<1>12. InOrder(c)'
  BY <1>3, <1>9, <1>11 DEF InOrder
<1>13. sender' \in [Participants -> Conns \union {None}]
  BY DEF Types
<1>14. QED  BY <1>1, <1>3, <1>7, <1>10, <1>12, <1>13, StillExpected

LEMMA ReplayExpected == ASSUME PlaceInv, ExpectedInv, Types', NEW c \in Conns, Replay(c) PROVE ExpectedInv'
<1>1. Types /\ Alone(c) /\ InPlace(c) /\ InOrder(c) /\ pc[c] = "replay"
  BY StepAlone DEF PlaceInv, ExpectedInv, Join, Replay
<1>2. UNCHANGED <<inbox, dead, sender, mine, batch>> /\ pc'[c] = "replay"
  BY <1>1 DEF Replay, roomVars
<1>3. ~BeforeReply(c) /\ mine[c] \in Participants
  BY <1>1 DEF BeforeReply, Sending, InPlace, Joining
<1>4. PICK p \in Participants : p = mine[c]
  BY <1>3
<1>5. Stands
  BY <1>1, <1>2, <1>3, StillWelcome, StandsStill
<1>6. NothingBeforeJoined'
  BY <1>2 DEF ExpectedInv, NothingBeforeJoined, Received
<1>7. Welcomed(c, p)'
  BY <1>1, <1>2, <1>4, StillWelcome DEF InOrder
<1>8. Welcomed(c, mine[c])'
  BY <1>2, <1>4, <1>7 DEF Welcomed
<1>9. (\A i \in DOMAIN batch[c] : Welcomed(c, batch[c][i].for))'
  BY <1>1, <1>2, StillWelcome, BatchInOrder
<1>10. InOrder(c)'
  BY <1>2, <1>8, <1>9 DEF InOrder
<1>11. PICK w \in Writings : w.for = p /\ Buffer(c, w)
  <2>1. PICK m \in maps[c] : Buffer(c, Addressed(Frame("tracks", m[1], m[2]), p))
    BY <1>4 DEF Replay
  <2>2. m[1] \in Users /\ m[2] \in Nat
    BY <1>1 DEF Types
  <2>3. Frame("tracks", m[1], m[2]) \in Frames
    BY <2>2, Framed DEF Kind
  <2>4. QED  BY <2>1, <2>3, Written DEF Addressed
<1>12. /\ \A e \in Conns \ {c} : queued'[e] = queued[e]
       /\ queued'[c] = Append(queued[c], w) \/ queued'[c] = queued[c]
  BY <1>1, <1>11, BufferGoes
<1>13. ASSUME queued'[c] = Append(queued[c], w), NEW i \in DOMAIN queued'[c]
       PROVE  Expected(c, queued[c][i].for)'
  <2>1. queued[c] \in Seq(Writings)
    BY <1>1 DEF Types
  <2>2. i \in DOMAIN queued[c] \/ i = Len(queued[c]) + 1
    BY <1>11, <1>13, <2>1
  <2>3. PICK q : q = queued'[c][i].for
    OBVIOUS
  <2>4. Expected(c, q)'
    <3>1. CASE i \in DOMAIN queued[c]
      <4>1. Expected(c, q)
        BY <1>11, <1>13, <2>1, <2>3, <3>1 DEF ExpectedInv
      <4>2. QED  BY <1>5, <4>1 DEF Stands
    <3>2. CASE i = Len(queued[c]) + 1
      <4>1. q = p
        BY <1>11, <1>13, <2>1, <2>3, <3>2
      <4>2. QED  BY <1>7, <4>1 DEF Expected
    <3>3. QED  BY <2>2, <3>1, <3>2
  <2>5. QED  BY <2>3, <2>4 DEF Expected, Welcomed, BeforeReply
<1>14. \A e \in Conns : \/ queued'[e] = queued[e]
                        \/ (\A i \in DOMAIN queued[e] : Expected(e, queued[e][i].for))'
  <2> SUFFICES ASSUME queued'[c] = Append(queued[c], w)
               PROVE  (\A i \in DOMAIN queued[c] : Expected(c, queued[c][i].for))'
    BY <1>12
  <2>1. QED  BY <1>13
<1>15. sender' \in [Participants -> Conns \union {None}]
  BY DEF Types
<1>16. QED  BY <1>1, <1>2, <1>5, <1>6, <1>10, <1>14, <1>15, StillExpected

LEMMA EndGateExpected == ASSUME PlaceInv, ExpectedInv, Types', NEW c \in Conns, EndGate(c)
  PROVE ExpectedInv'
<1>1. Types /\ Alone(c) /\ InPlace(c) /\ pc[c] = "replay"
  BY StepAlone DEF PlaceInv, Join, EndGate
<1>2. /\ UNCHANGED <<inbox, dead, sender, mine>> /\ pc'[c] = "flush" /\ batch'[c] = queued[c]
      /\ \A d \in Conns : queued'[d] = queued[d] \/ queued'[d] = <<>>
  BY <1>1 DEF EndGate, Goto, Types, roomVars
<1>3. ~BeforeReply(c) /\ c \notin dead
  BY <1>1 DEF BeforeReply, Sending, InPlace, Joining
<1>4. Stands
  BY <1>1, <1>2, <1>3, StillWelcome, StandsStill
<1>5. NothingBeforeJoined'
  BY <1>2 DEF ExpectedInv, NothingBeforeJoined, Received
<1>6. (\A i \in DOMAIN batch[c] : Welcomed(c, batch[c][i].for))'
  <2> SUFFICES ASSUME NEW i \in DOMAIN queued[c] PROVE Welcomed(c, batch[c][i].for)'
    BY <1>2
  <2>1. PICK p : p = queued[c][i].for
    OBVIOUS
  <2>2. Expected(c, p)
    BY <2>1 DEF ExpectedInv
  <2>3. Welcomed(c, p)'
    BY <1>2, <1>3, <2>2, StillWelcome DEF Expected
  <2>4. QED  BY <1>2, <2>1, <2>3 DEF Welcomed
<1>7. InOrder(c)'
  BY <1>2, <1>6 DEF InOrder
<1>8. \A e \in Conns : \/ queued'[e] = queued[e]
                       \/ (\A i \in DOMAIN queued[e] : Expected(e, queued[e][i].for))'
  BY <1>2
<1>9. sender' \in [Participants -> Conns \union {None}]
  BY DEF Types
<1>10. QED  BY <1>1, <1>2, <1>4, <1>5, <1>7, <1>8, <1>9, StillExpected

LEMMA FlushExpected == ASSUME PlaceInv, ExpectedInv, Types', NEW c \in Conns, Flush(c) PROVE ExpectedInv'
<1>1. Types /\ Alone(c) /\ InOrder(c) /\ pc[c] = "flush"
  BY StepAlone DEF PlaceInv, ExpectedInv, Join, Flush
<1>2. UNCHANGED <<dead, sender, mine, queued, then>> /\ ~BeforeReply(c)
  BY <1>1 DEF Flush, roomVars, gateVars, BeforeReply, Sending
<1>3. CASE batch[c] = <<>>
  <2>1. UNCHANGED <<inbox, batch>> /\ pc'[c] = "idle"
    BY <1>1, <1>3 DEF Flush, Goto, Types
  <2>2. QED  BY <1>1, <1>2, <2>1, CalmExpected
<1>4. CASE batch[c] # <<>>
  <2>1. batch[c] \in Seq(Writings)
    BY <1>1 DEF Types
  <2>2. PICK w \in Writings : w = Head(batch[c]) /\ w = batch[c][1] /\ 1 \in DOMAIN batch[c]
    BY <1>4, <2>1
  <2>3. Write(c, w) /\ batch'[c] = Tail(batch[c]) /\ pc'[c] = "flush"
    BY <1>1, <1>4, <2>2 DEF Flush, Types
  <2>4. Welcomed(c, w.for)
    BY <1>1, <2>2 DEF InOrder
  <2>5. NothingBeforeJoined'
    BY <1>1, <2>3, <2>4, WriteInOrder DEF ExpectedInv
  <2>6. \A e \in Conns : \A q : Welcomed(e, q) => Welcomed(e, q)'
    BY <1>1, <2>3, WriteWelcomes
  <2>7. Stands
    BY <1>1, <1>2, <2>6, StandsStill
  <2>8. \A i \in DOMAIN Tail(batch[c]) : i + 1 \in DOMAIN batch[c] /\ Tail(batch[c])[i] = batch[c][i + 1]
    BY <1>4, <2>1
  <2>9. (\A i \in DOMAIN batch[c] : Welcomed(c, batch[c][i].for))'
    <3> SUFFICES ASSUME NEW i \in DOMAIN batch'[c] PROVE Welcomed(c, batch[c][i].for)'
      OBVIOUS
    <3>1. PICK p : p = batch'[c][i].for
      OBVIOUS
    <3>2. i + 1 \in DOMAIN batch[c] /\ p = batch[c][i + 1].for
      BY <2>3, <2>8, <3>1
    <3>3. Welcomed(c, p)'
      BY <1>1, <2>6, <3>2 DEF InOrder
    <3>4. QED  BY <3>1, <3>3 DEF Welcomed
  <2>10. InOrder(c)'
    BY <2>3, <2>9 DEF InOrder
  <2>11. sender' \in [Participants -> Conns \union {None}]
    BY DEF Types
  <2>12. QED  BY <1>1, <1>2, <2>5, <2>7, <2>10, <2>11, StillExpected
<1>5. QED  BY <1>3, <1>4

LEMMA LeaveExpected == ASSUME PlaceInv, ExpectedInv, Types', NEW c \in Conns, Leave(c) PROVE ExpectedInv'
<1>1. Types /\ Alone(c) /\ InOrder(c)
  BY StepAlone DEF PlaceInv, ExpectedInv, Client
<1>2. PICK dies \in BOOLEAN : Quit(c, dies) /\ (LeaveNothing(c, dies) \/ LeaveSlot(c, dies))
  BY DEF Leave, LeaveNothing, LeaveSlot
<1>3. /\ UNCHANGED <<sender, queued, batch>> /\ pc[c] = "idle" /\ pc'[c] \in {"idle", "unbind"}
      /\ dead \subseteq dead'
      /\ \/ c \in dead' /\ inbox' = [inbox EXCEPT ![c] = <<>>]
         \/ inbox' = inbox
  BY <1>1, <1>2 DEF Quit, LeaveNothing, LeaveSlot, Goto, Types, roomVars, gateVars, joinVars
<1>4. InPlace(c) /\ ~BeforeReply(c)
  BY <1>3 DEF BeforeReply, Sending, PlaceInv
<1>5. \A d \in Conns : d \in dead' \/ \A p : Welcomed(d, p) => Welcomed(d, p)'
  <2>1. \A d \in Conns : d \in dead' \/ inbox'[d] = inbox[d]
    BY <1>1, <1>3 DEF Types
  <2>2. QED  BY <2>1 DEF Welcomed
<1>6. Stands
  BY <1>1, <1>3, <1>4, <1>5, StandsStill
<1>7. NothingBeforeJoined'
  <2>1. \A d \in Conns : inbox'[d] = <<>> \/ inbox'[d] = inbox[d]
    BY <1>1, <1>3 DEF Types
  <2>2. QED  BY <2>1 DEF ExpectedInv, NothingBeforeJoined, Received
<1>8. batch'[c] = <<>>
  BY <1>3, <1>4 DEF InPlace
<1>9. InOrder(c)'
  BY <1>3, <1>8 DEF InOrder
<1>10. sender' \in [Participants -> Conns \union {None}]
  BY DEF Types
<1>11. QED  BY <1>1, <1>3, <1>6, <1>7, <1>9, <1>10, StillExpected

LEMMA UnbindExpected == ASSUME PlaceInv, ExpectedInv, Types', NEW c \in Conns, Unbind(c) PROVE ExpectedInv'
<1>1. Types /\ Alone(c)
  BY StepAlone DEF PlaceInv, LeaveOn
<1>2. /\ UNCHANGED <<inbox, dead, batch, queued, mine>> /\ pc[c] = "unbind" /\ pc'[c] \in {"idle", "left"}
  BY <1>1 DEF Unbind, Goto, Types, wireVars, gateVars, joinVars
<1>3. \A p \in Participants : sender'[p] = sender[p] \/ sender'[p] = None
  BY <1>1 DEF Unbind, Types
<1>4. ~BeforeReply(c)
  BY <1>2 DEF BeforeReply, Sending
<1>5. QED  BY <1>1, <1>2, <1>3, <1>4, CalmExpected

LEMMA EndExpected == ASSUME PlaceInv, ExpectedInv, Types', NEW c \in Conns, End(c) PROVE ExpectedInv'
<1>1. Types /\ Alone(c) /\ pc[c] = "end"
  BY StepAlone DEF PlaceInv, LeaveOn, End
<1>2. UNCHANGED <<sender, inbox, dead, batch, queued, mine>> /\ ~BeforeReply(c)
  BY <1>1 DEF End, wireVars, gateVars, joinVars, BeforeReply, Sending
<1>3. pc'[c] \in {"idle", "send"}
  <2>1. CASE closed
    BY <1>1, <2>1 DEF End, Goto, Types
  <2>2. CASE ~closed
    BY <1>1, <2>2, SendToGoes DEF End
  <2>3. QED  BY <2>1, <2>2
<1>4. QED  BY <1>1, <1>2, <1>3, CalmExpected

LEMMA StepExpected == PlaceInv /\ PlaceInv' /\ ExpectedInv /\ [Next]_vars => ExpectedInv'
<1> SUFFICES ASSUME PlaceInv, PlaceInv', ExpectedInv, [Next]_vars PROVE ExpectedInv'
  OBVIOUS
<1>1. Types'
  BY DEF PlaceInv
<1>2. CASE UNCHANGED vars
  <2>1. UNCHANGED <<sender, dead, queued, inbox, pc, then, to, mine, batch>>
    BY <1>2 DEF vars, roomVars, wireVars, gateVars, sendVars, joinVars
  <2>2. NothingBeforeJoined'
    BY <2>1 DEF ExpectedInv, NothingBeforeJoined, Received
  <2>3. \A c \in Conns : InOrder(c)'
    BY <2>1 DEF ExpectedInv, InOrder, Expected, Welcomed, BeforeReply
  <2>4. \A c \in Conns : (\A i \in DOMAIN queued[c] : Expected(c, queued[c][i].for))'
    BY <2>1 DEF ExpectedInv, Expected, Welcomed, BeforeReply
  <2>5. (\A p \in Participants : sender[p] # None => Expected(sender[p], p))'
    BY <2>1 DEF ExpectedInv, Expected, Welcomed, BeforeReply
  <2>6. QED  BY <2>2, <2>3, <2>4, <2>5 DEF ExpectedInv
<1>3. ASSUME NEW c \in Conns, Client(c) PROVE ExpectedInv'
  BY <1>1, <1>3, JoinFrameExpected, TellingExpected, LeaveExpected DEF Client
<1>4. ASSUME NEW c \in Conns, Send(c) PROVE ExpectedInv'
  BY <1>1, <1>4, SendExpected
<1>5. ASSUME NEW c \in Conns, Join(c) PROVE ExpectedInv'
  BY <1>1, <1>5, RegisterRefusedExpected, ComerExpected, TellingExpected, JoinedExpected,
     ReplayExpected, EndGateExpected, FlushExpected DEF Join
<1>6. ASSUME NEW c \in Conns, LeaveOn(c) PROVE ExpectedInv'
  BY <1>1, <1>6, UnbindExpected, TellingExpected, EndExpected DEF LeaveOn
<1>7. QED  BY <1>2, <1>3, <1>4, <1>5, <1>6 DEF Next

LEMMA InitExpected == Init => ExpectedInv
<1> SUFFICES ASSUME Init PROVE ExpectedInv
  OBVIOUS
<1>1. NothingBeforeJoined
  BY DEF Init, NothingBeforeJoined
<1>2. \A c \in Conns : InOrder(c)
  BY DEF Init, InOrder
<1>3. QED  BY <1>1, <1>2 DEF ExpectedInv, Init

\* Who is where, in every state: a Participant in the call has a connection that is in it
\* for him or is about to be (Hub.Join and Leave, hub.go), and only the gate of a
\* session that is joining holds frames (session.go).
THEOREM SpecPlaceInv == Spec => []PlaceInv
<1>1. QED  BY InitPlaced, StepPlaced, PTL DEF Spec

\* No frame of the call reaches a connection before the joined frame of that Participant:
\* gate and endGate (session.go) hold back what Send is given while handleJoin registers
\* and replies, whatever the others send meanwhile.
THEOREM SpecNothingBeforeJoined == Spec => []NothingBeforeJoined
<1>1. ExpectedInv => NothingBeforeJoined
  BY DEF ExpectedInv
<1>2. QED  BY <1>1, InitExpected, StepExpected, SpecPlaceInv, PTL DEF Spec
-----------------------------------------------------------------------------
(* Nothing that is on its way to a participant is lost, but in a full gate. *)

\* c is, and stays, the connection of the Participant w is for.
Awaits(c, w) ==
  /\ w.for \in Participants /\ sender[w.for] = c /\ mine[c] = w.for /\ In(c)
  /\ c \notin dead' /\ c \notin lossy'

LEMMA StillOnItsWay ==
  ASSUME NEW a \in Conns, Alone(a), NEW c \in Conns, NEW w, OnItsWay(c, w),
         Holds(inbox[c], w) => OnItsWay(c, w)', Holds(queued[c], w) => OnItsWay(c, w)',
         Holds(batch[c], w) => OnItsWay(c, w)',
         w.kind = "tracks" /\ <<w.from, w.n>> \in maps[c] => OnItsWay(c, w)',
         Carries(a, c, w) => OnItsWay(c, w)'
  PROVE  OnItsWay(c, w)'
<1>1. ASSUME NEW d \in Conns, Carries(d, c, w), d # a PROVE OnItsWay(c, w)'
  <2>1. Carries(d, c, w)'
    BY <1>1 DEF Alone, Carries
  <2>2. QED  BY <2>1 DEF OnItsWay
<1>2. QED  BY <1>1 DEF OnItsWay

\* A goroutine that neither sends nor joins.
LEMMA InertKeeps ==
  ASSUME NEW a \in Conns, Alone(a), NEW c \in Conns, NEW w, OnItsWay(c, w), pc[a] \notin Sending,
         inbox'[c] = inbox[c], queued'[c] = queued[c], batch'[c] = batch[c], maps'[c] = maps[c]
  PROVE  OnItsWay(c, w)'
<1>1. Holds(inbox[c], w) => OnItsWay(c, w)'
  BY DEF OnItsWay
<1>2. Holds(queued[c], w) => OnItsWay(c, w)'
  BY DEF OnItsWay
<1>3. Holds(batch[c], w) => OnItsWay(c, w)'
  BY DEF OnItsWay
<1>4. w.kind = "tracks" /\ <<w.from, w.n>> \in maps[c] => OnItsWay(c, w)'
  BY DEF OnItsWay
<1>5. Carries(a, c, w) => OnItsWay(c, w)'
  BY DEF Carries
<1>6. QED  BY <1>1, <1>2, <1>3, <1>4, <1>5, StillOnItsWay

LEMMA AppendHolds ==
  ASSUME NEW q \in Seq(Writings), NEW w \in Writings
  PROVE  /\ Holds(Append(q, w), w)
         /\ \A v : Holds(q, v) => Holds(Append(q, w), v)
<1>1. Append(q, w)[Len(q) + 1] = w /\ Len(q) + 1 \in DOMAIN Append(q, w)
  OBVIOUS
<1>2. \A i \in DOMAIN q : i \in DOMAIN Append(q, w) /\ Append(q, w)[i] = q[i]
  OBVIOUS
<1>3. QED  BY <1>1, <1>2 DEF Holds

LEMMA WriteHolds ==
  ASSUME Types, NEW d \in Conns, NEW w \in Writings, Write(d, w), NEW c \in Conns
  PROVE  /\ \A v : Holds(inbox[c], v) => Holds(inbox'[c], v)
         /\ c = d /\ c \notin dead => Holds(inbox'[c], w)
<1>1. CASE d \in dead
  BY <1>1 DEF Write
<1>2. CASE d \notin dead
  <2>1. /\ inbox'[d] = Append(inbox[d], w) /\ inbox[d] \in Seq(Writings)
        /\ \A e \in Conns \ {d} : inbox'[e] = inbox[e]
    BY <1>2, WriteGoes DEF Types
  <2>2. QED  BY <2>1, AppendHolds
<1>3. QED  BY <1>1, <1>2

LEMMA BufferHolds ==
  ASSUME Types, NEW d \in Conns, NEW w \in Writings, Buffer(d, w), NEW c \in Conns, c \notin lossy'
  PROVE  /\ \A v : Holds(queued[c], v) => Holds(queued'[c], v)
         /\ c = d => Holds(queued'[c], w)
<1>1. /\ \A e \in Conns \ {d} : queued'[e] = queued[e]
      /\ \/ queued'[d] = Append(queued[d], w)
         \/ queued' = queued /\ lossy' = lossy \union {d}
  BY BufferGoes
<1>2. queued[d] \in Seq(Writings)
  BY DEF Types
<1>3. QED  BY <1>1, <1>2, AppendHolds

LEMMA SendKeeps ==
  ASSUME PlaceInv, NEW a \in Conns, Send(a), NEW c \in Conns, NEW w, OnItsWay(c, w), Awaits(c, w)
  PROVE  OnItsWay(c, w)'
<1>1. Types /\ Alone(a) /\ InPlace(a)
  BY StepAlone DEF PlaceInv
<1>2. UNCHANGED <<sender, dead, batch, maps>> /\ pc[a] \in Sending
  BY SendGoes DEF SendsOn
<1>3. (Holds(batch[c], w) => OnItsWay(c, w)') /\ (w.kind = "tracks" /\ <<w.from, w.n>> \in maps[c] => OnItsWay(c, w)')
  BY <1>2 DEF OnItsWay
<1>4. c \notin dead /\ c # None
  BY <1>2, SignalsAssumption DEF Awaits
<1>5. ASSUME NEW rest, SentOne(a, rest), w.for \in rest, todo'[a] = rest, Addressed(frame[a], w.for) = w
      PROVE  OnItsWay(c, w)'
  <2>1. pc'[a] = "send" /\ frame' = frame
    BY <1>1, <1>5, SentOneGoes
  <2>2. Carries(a, c, w)'
    BY <1>5, <2>1 DEF Carries, Sending
  <2>3. QED  BY <2>2 DEF OnItsWay
<1>6. CASE PickTarget(a)
  <2>1. UNCHANGED <<inbox, queued>> /\ pc[a] = "send"
    BY <1>6 DEF PickTarget, wireVars, gateVars
  <2>2. PICK p \in todo[a] :
             /\ todo' = [todo EXCEPT ![a] = @ \ {p}]
             /\ \/ sender[p] = None /\ SentOne(a, todo[a] \ {p})
                \/ /\ sender[p] # None
                   /\ to' = [to EXCEPT ![a] = <<p, sender[p]>>]
                   /\ Goto(a, "gate")
                   /\ UNCHANGED frame
    BY <1>6 DEF PickTarget
  <2>3. todo'[a] = todo[a] \ {p}
    BY <1>1, <2>2 DEF Types
  <2>4. ASSUME Carries(a, c, w) PROVE OnItsWay(c, w)'
    <3>1. Addressed(frame[a], w.for) = w /\ w.for \in todo[a]
      BY <2>1, <2>4 DEF Carries
    <3>2. CASE sender[p] = None /\ SentOne(a, todo[a] \ {p})
      <4>1. w.for # p
        BY <1>4, <3>2 DEF Awaits
      <4>2. QED  BY <1>5, <2>3, <3>1, <3>2, <4>1
    <3>3. CASE /\ sender[p] # None /\ to' = [to EXCEPT ![a] = <<p, sender[p]>>]
               /\ Goto(a, "gate") /\ UNCHANGED frame
      <4>1. pc'[a] = "gate" /\ frame' = frame /\ to'[a] = <<p, sender[p]>>
        BY <1>1, <3>3 DEF Types, Goto
      <4>2. w.for \in todo'[a] \/ to'[a] = <<w.for, c>>
        BY <2>3, <3>1, <4>1 DEF Awaits
      <4>3. Carries(a, c, w)'
        BY <3>1, <4>1, <4>2 DEF Carries, Sending
      <4>4. QED  BY <4>3 DEF OnItsWay
    <3>4. QED  BY <2>2, <3>2, <3>3
  <2>5. (Holds(inbox[c], w) => OnItsWay(c, w)') /\ (Holds(queued[c], w) => OnItsWay(c, w)')
    BY <2>1 DEF OnItsWay
  <2>6. QED  BY <1>1, <1>3, <2>4, <2>5, StillOnItsWay
<1>7. CASE PassGate(a)
  <2>1. UNCHANGED <<inbox, todo>> /\ pc[a] = "gate"
    BY <1>7 DEF PassGate
  <2>2. PICK p \in Participants, d \in Conns : to[a] = <<p, d>>
    BY <1>1, <2>1 DEF InPlace
  <2>3. PICK x \in Writings : x = Addressed(frame[a], p)
    <3>1. frame[a] \in Frames
      BY <1>1 DEF Types
    <3>2. QED  BY <3>1, Written
  <2>4. Holds(inbox[c], w) => OnItsWay(c, w)'
    BY <2>1 DEF OnItsWay
  <2>5. CASE d \in gated /\ Buffer(d, x) /\ SentOne(a, todo[a])
    <3>1. (Holds(queued[c], w) => Holds(queued'[c], w)) /\ (c = d => Holds(queued'[c], x))
      BY <1>1, <2>5, BufferHolds DEF Awaits
    <3>2. ASSUME Carries(a, c, w) PROVE OnItsWay(c, w)'
      <4>1. CASE w.for \in todo[a]
        BY <1>5, <2>1, <2>5, <3>2, <4>1 DEF Carries
      <4>2. CASE to[a] = <<w.for, c>>
        <5>1. c = d /\ x = w
          BY <2>2, <2>3, <3>2, <4>2 DEF Carries
        <5>2. Holds(queued[c], w)'
          BY <3>1, <5>1
        <5>3. QED  BY <5>2 DEF OnItsWay
      <4>3. QED  BY <3>2, <4>1, <4>2 DEF Carries
    <3>3. Holds(queued[c], w) => OnItsWay(c, w)'
      BY <3>1 DEF OnItsWay
    <3>4. QED  BY <1>1, <1>3, <2>4, <3>2, <3>3, StillOnItsWay
  <2>6. CASE Goto(a, "write") /\ UNCHANGED <<gateVars, frame, then, to>>
    <3>1. pc'[a] = "write" /\ UNCHANGED <<queued, frame, to, todo>>
      BY <1>1, <2>1, <2>6 DEF Types, Goto, gateVars
    <3>2. ASSUME Carries(a, c, w) PROVE OnItsWay(c, w)'
      <4>1. Carries(a, c, w)'
        BY <2>1, <3>1, <3>2 DEF Carries, Sending
      <4>2. QED  BY <4>1 DEF OnItsWay
    <3>3. Holds(queued[c], w) => OnItsWay(c, w)'
      BY <3>1 DEF OnItsWay
    <3>4. QED  BY <1>1, <1>3, <2>4, <3>2, <3>3, StillOnItsWay
  <2>7. QED  BY <1>7, <2>2, <2>3, <2>5, <2>6 DEF PassGate
<1>8. CASE WriteFrame(a)
  <2>1. /\ UNCHANGED <<queued, todo>> /\ pc[a] = "write" /\ SentOne(a, todo[a])
        /\ Write(to[a][2], Addressed(frame[a], to[a][1]))
    BY <1>8 DEF WriteFrame, gateVars
  <2>2. PICK p \in Participants, d \in Conns : to[a] = <<p, d>>
    BY <1>1, <2>1 DEF InPlace
  <2>3. PICK x \in Writings : x = Addressed(frame[a], p)
    <3>1. frame[a] \in Frames
      BY <1>1 DEF Types
    <3>2. QED  BY <3>1, Written
  <2>4. Write(d, x)
    BY <2>1, <2>2, <2>3
  <2>5. (Holds(inbox[c], w) => Holds(inbox'[c], w)) /\ (c = d => Holds(inbox'[c], x))
    BY <1>1, <1>4, <2>4, WriteHolds
  <2>6. ASSUME Carries(a, c, w) PROVE OnItsWay(c, w)'
    <3>1. CASE w.for \in todo[a]
      BY <1>5, <2>1, <2>6, <3>1 DEF Carries
    <3>2. CASE to[a] = <<w.for, c>>
      <4>1. c = d /\ x = w
        BY <2>2, <2>3, <2>6, <3>2 DEF Carries
      <4>2. Holds(inbox[c], w)'
        BY <2>5, <4>1
      <4>3. QED  BY <4>2 DEF OnItsWay
    <3>3. QED  BY <2>6, <3>1, <3>2 DEF Carries
  <2>7. (Holds(inbox[c], w) => OnItsWay(c, w)') /\ (Holds(queued[c], w) => OnItsWay(c, w)')
    BY <2>1, <2>5 DEF OnItsWay
  <2>8. QED  BY <1>1, <1>3, <2>6, <2>7, StillOnItsWay
<1>9. QED  BY <1>6, <1>7, <1>8 DEF Send

LEMMA ClientKeeps ==
  ASSUME PlaceInv, NEW a \in Conns, Client(a), NEW c \in Conns, NEW w, OnItsWay(c, w), Awaits(c, w)
  PROVE  OnItsWay(c, w)'
<1>1. Types /\ Alone(a)
  BY StepAlone DEF PlaceInv
<1>2. pc[a] = "idle" /\ pc[a] \notin Sending
  BY DEF Client, JoinFrame, SetTrackSources, Relay, ClientFrame, Leave, LeaveNothing, LeaveSlot, Quit,
         Sending
<1>3. CASE JoinFrame(a)
  <2>1. a # c
    BY <1>2, <1>3 DEF JoinFrame, Awaits, In, BeforeReply, Sending
  <2>2. QED
    BY <1>1, <1>2, <1>3, <2>1, InertKeeps DEF JoinFrame, Types, joinVars
<1>4. CASE SetTrackSources(a) \/ Relay(a)
  BY <1>1, <1>2, <1>4, InertKeeps DEF SetTrackSources, Relay, wireVars, gateVars, joinVars
<1>5. ASSUME NEW dies \in BOOLEAN, Quit(a, dies), UNCHANGED <<gateVars, maps, batch>> PROVE OnItsWay(c, w)'
  <2>1. inbox'[c] = inbox[c]
    BY <1>1, <1>5 DEF Quit, Awaits, Types
  <2>2. QED  BY <1>1, <1>2, <1>5, <2>1, InertKeeps DEF gateVars
<1>6. QED  BY <1>3, <1>4, <1>5 DEF Client, Leave, LeaveNothing, LeaveSlot, joinVars

LEMMA LeaveOnKeeps ==
  ASSUME PlaceInv, NEW a \in Conns, LeaveOn(a), NEW c \in Conns, NEW w, OnItsWay(c, w)
  PROVE  OnItsWay(c, w)'
<1>1. Types /\ Alone(a)
  BY StepAlone DEF PlaceInv
<1>2. UNCHANGED <<inbox, queued, batch, maps>> /\ pc[a] \notin Sending
  BY DEF LeaveOn, Unbind, PeerLeft, End, wireVars, gateVars, joinVars, Sending
<1>3. QED  BY <1>1, <1>2, InertKeeps

LEMMA JoinKeeps ==
  ASSUME PlaceInv, NEW a \in Conns, Join(a), NEW c \in Conns, NEW w \in Writings, OnItsWay(c, w), Awaits(c, w)
  PROVE  OnItsWay(c, w)'
<1>1. Types /\ Alone(a) /\ InPlace(a)
  BY StepAlone DEF PlaceInv
<1>2. pc[a] \notin Sending /\ (pc[a] = "register" => a # c)
  <2>1. pc[a] \notin Sending
    BY DEF Join, RegisterRefused, Rebind, Register, PeerJoined, Joined, Replay, EndGate, Flush, Sending
  <2>2. QED  BY <1>1, <2>1 DEF Awaits, In, InPlace, BeforeReply
<1>3. ~Carries(a, c, w)
  BY <1>2 DEF Carries
<1>4. CASE RegisterRefused(a) \/ Rebind(a) \/ Register(a)
  <2>1. a # c /\ UNCHANGED <<inbox, batch>> /\ queued'[c] = queued[c] /\ maps'[c] = maps[c]
    BY <1>1, <1>2, <1>4 DEF RegisterRefused, Rebind, Register, Snapshot, wireVars, gateVars, joinVars, Types
  <2>2. QED  BY <1>1, <1>2, <2>1, InertKeeps
<1>5. CASE PeerJoined(a)
  BY <1>1, <1>2, <1>5, InertKeeps DEF PeerJoined, wireVars, gateVars, joinVars
<1>6. CASE Joined(a)
  <2>1. UNCHANGED <<queued, batch, maps, dead>> /\ Reply(a) /\ mine[a] \in Participants
    BY <1>1, <1>6 DEF Joined, gateVars, joinVars, InPlace, Joining, BeforeReply
  <2>2. PICK x \in Writings : Write(a, x)
    <3>1. Frame("joined", UserOf[a], 0) \in Frames
      BY Framed, SignalsAssumption DEF Kind
    <3>2. QED  BY <2>1, <3>1, Written DEF Reply
  <2>3. Holds(inbox[c], w) => Holds(inbox'[c], w)
    BY <1>1, <2>2, WriteHolds
  <2>4. /\ Holds(inbox[c], w) => OnItsWay(c, w)'
        /\ Holds(queued[c], w) => OnItsWay(c, w)'
        /\ Holds(batch[c], w) => OnItsWay(c, w)'
        /\ w.kind = "tracks" /\ <<w.from, w.n>> \in maps[c] => OnItsWay(c, w)'
    BY <2>1, <2>3 DEF OnItsWay
  <2>5. QED  BY <1>1, <1>3, <2>4, StillOnItsWay
<1>7. CASE Replay(a)
  <2>1. UNCHANGED <<inbox, batch, mine>>
    BY <1>7 DEF Replay
  <2>2. PICK m \in maps[a] : /\ maps' = [maps EXCEPT ![a] = @ \ {m}]
                             /\ Buffer(a, Addressed(Frame("tracks", m[1], m[2]), mine[a]))
    BY <1>7 DEF Replay
  <2>3. m = <<m[1], m[2]>> /\ m[1] \in Users /\ m[2] \in Nat /\ mine[a] \in Participants
    BY <1>1, <1>7 DEF Types, Replay, InPlace, Joining
  <2>4. PICK x \in Writings : x = Addressed(Frame("tracks", m[1], m[2]), mine[a])
    <3>1. Frame("tracks", m[1], m[2]) \in Frames
      BY <2>3, Framed DEF Kind
    <3>2. QED  BY <2>3, <3>1, Written
  <2>5. Buffer(a, x)
    BY <2>2, <2>4
  <2>6. (Holds(queued[c], w) => Holds(queued'[c], w)) /\ (c = a => Holds(queued'[c], x))
    BY <1>1, <2>5, BufferHolds DEF Awaits
  <2>7. maps'[c] = IF c = a THEN maps[c] \ {m} ELSE maps[c]
    BY <1>1, <2>2 DEF Types
  <2>8. ASSUME w.kind = "tracks", <<w.from, w.n>> \in maps[c] PROVE OnItsWay(c, w)'
    <3>1. CASE c = a /\ m = <<w.from, w.n>>
      <4>1. x = w
        <5>1. mine[a] = w.for /\ m[1] = w.from /\ m[2] = w.n
          BY <3>1 DEF Awaits
        <5>2. x = [kind |-> "tracks", from |-> w.from, n |-> w.n, for |-> w.for]
          BY <2>4, <5>1 DEF Addressed, Frame
        <5>3. w = [kind |-> w.kind, from |-> w.from, n |-> w.n, for |-> w.for]
          BY DEF Writings
        <5>4. QED  BY <2>8, <5>2, <5>3
      <4>2. QED  BY <2>6, <3>1, <4>1 DEF OnItsWay
    <3>2. CASE ~(c = a /\ m = <<w.from, w.n>>)
      BY <2>7, <2>8, <3>2 DEF OnItsWay
    <3>3. QED  BY <3>1, <3>2
  <2>9. /\ Holds(inbox[c], w) => OnItsWay(c, w)'
        /\ Holds(queued[c], w) => OnItsWay(c, w)'
        /\ Holds(batch[c], w) => OnItsWay(c, w)'
    BY <2>1, <2>6 DEF OnItsWay
  <2>10. QED  BY <1>1, <1>3, <2>8, <2>9, StillOnItsWay
<1>8. CASE EndGate(a)
  <2>1. /\ UNCHANGED <<inbox, maps>> /\ pc[a] = "replay"
        /\ queued' = [queued EXCEPT ![a] = <<>>] /\ batch' = [batch EXCEPT ![a] = queued[a]]
    BY <1>8 DEF EndGate
  <2>2. batch[a] = <<>>
    BY <1>1, <2>1 DEF InPlace
  <2>3. ~Holds(<<>>, w)
    BY DEF Holds
  <2>4. Holds(queued[c], w) => Holds(queued'[c], w) \/ Holds(batch'[c], w)
    BY <1>1, <2>1 DEF Types
  <2>5. Holds(batch[c], w) => Holds(batch'[c], w)
    BY <1>1, <2>1, <2>2, <2>3 DEF Types
  <2>6. /\ Holds(inbox[c], w) => OnItsWay(c, w)'
        /\ Holds(queued[c], w) => OnItsWay(c, w)'
        /\ Holds(batch[c], w) => OnItsWay(c, w)'
        /\ w.kind = "tracks" /\ <<w.from, w.n>> \in maps[c] => OnItsWay(c, w)'
    BY <2>1, <2>4, <2>5 DEF OnItsWay
  <2>7. QED  BY <1>1, <1>3, <2>6, StillOnItsWay
<1>9. CASE Flush(a)
  <2>1. UNCHANGED <<queued, maps, dead>>
    BY <1>9 DEF Flush, gateVars
  <2>2. c \notin dead
    BY <2>1 DEF Awaits
  <2>3. CASE batch[a] = <<>>
    <3>1. UNCHANGED <<inbox, batch>>
      BY <1>9, <2>3 DEF Flush
    <3>2. QED  BY <1>1, <1>2, <2>1, <3>1, InertKeeps
  <2>4. CASE batch[a] # <<>>
    <3>1. batch[a] \in Seq(Writings)
      BY <1>1 DEF Types
    <3>2. PICK x \in Writings : x = Head(batch[a])
      BY <2>4, <3>1
    <3>3. Write(a, x) /\ batch' = [batch EXCEPT ![a] = Tail(@)]
      BY <1>9, <2>4, <3>2 DEF Flush
    <3>4. (Holds(inbox[c], w) => Holds(inbox'[c], w)) /\ (c = a => Holds(inbox'[c], x))
      BY <1>1, <2>2, <3>3, WriteHolds
    <3>5. Holds(batch[a], w) => w = x \/ Holds(Tail(batch[a]), w)
      <4> SUFFICES ASSUME NEW i \in DOMAIN batch[a], batch[a][i] = w, w # x PROVE Holds(Tail(batch[a]), w)
        BY DEF Holds
      <4>1. i # 1
        BY <2>4, <3>1, <3>2
      <4>2. i - 1 \in DOMAIN Tail(batch[a]) /\ Tail(batch[a])[i - 1] = w
        BY <2>4, <3>1, <4>1
      <4>3. QED  BY <4>2 DEF Holds
    <3>6. Holds(batch[c], w) => Holds(batch'[c], w) \/ Holds(inbox'[c], w)
      BY <1>1, <3>3, <3>4, <3>5 DEF Types
    <3>7. /\ Holds(inbox[c], w) => OnItsWay(c, w)'
          /\ Holds(queued[c], w) => OnItsWay(c, w)'
          /\ Holds(batch[c], w) => OnItsWay(c, w)'
          /\ w.kind = "tracks" /\ <<w.from, w.n>> \in maps[c] => OnItsWay(c, w)'
      BY <2>1, <3>4, <3>6 DEF OnItsWay
    <3>8. QED  BY <1>1, <1>3, <3>7, StillOnItsWay
  <2>5. QED  BY <2>3, <2>4
<1>10. QED  BY <1>4, <1>5, <1>6, <1>7, <1>8, <1>9 DEF Join

\* The connection of a user in the call.
LEMMA HolderIn ==
  ASSUME PlaceInv, NEW u \in present, NEW c, c = sender[This(u)]
  PROVE  /\ c \in Conns /\ In(c) /\ c \notin dead /\ mine[c] = This(u) /\ UserOf[c] = u
         /\ ~closed /\ u \in Users /\ This(u) \in Participants /\ This(u)[1] = u
<1>1. /\ Types /\ u \in Users /\ This(u) \in Participants /\ sender[This(u)] # None /\ ~closed
      /\ Bound(This(u)) /\ This(u)[1] = u /\ This(u)[2] = life[u] /\ life[u] \in Nat
  BY DEF PlaceInv, Types, This
<1>2. c \in Conns /\ mine[c] = This(u) /\ UserOf[c] = u /\ (pc[c] = "unbind" \/ In(c))
  BY <1>1 DEF Types, Bound
<1>3. InPlace(c)
  BY <1>2 DEF PlaceInv
<1>4. pc[c] # "unbind"
  BY <1>1, <1>2, <1>3 DEF InPlace
<1>5. c \notin dead
  BY <1>2, <1>3, <1>4 DEF InPlace, In, Joining
<1>6. QED  BY <1>1, <1>2, <1>4, <1>5

\* Who is in the call after a step was in it before, bound as he is, unless he
\* has just come in.
LEMMA SlotKept ==
  ASSUME PlaceInv, PlaceInv', NEW a \in Conns, Client(a) \/ Send(a) \/ Join(a) \/ LeaveOn(a),
         NEW u \in present', UserOf[a] = u => ~Rebind(a) /\ ~Register(a)
  PROVE  /\ u \in present /\ This(u)' = This(u) /\ sender'[This(u)] = sender[This(u)]
         /\ sender[This(u)] \in lossy => sender[This(u)] \in lossy'
<1>1. Types /\ Types' /\ u \in Users /\ This(u)' \in Participants /\ sender'[This(u)'] # None
  BY DEF PlaceInv, Types
<1> DEFINE Kept == /\ u \in present /\ This(u)' = This(u) /\ sender'[This(u)] = sender[This(u)]
                   /\ sender[This(u)] \in lossy => sender[This(u)] \in lossy'
<1>2. CASE Send(a)
  <2>1. UNCHANGED <<present, life, sender>>
    BY <1>2, SendGoes DEF SendsOn
  <2>2. lossy \subseteq lossy'
    BY <1>2 DEF Send, PickTarget, PassGate, WriteFrame, Buffer, wireVars, gateVars
  <2>3. QED  BY <2>1, <2>2 DEF This
<1>3. CASE Client(a)
  <2>1. UNCHANGED <<life, sender>> /\ present' \subseteq present
    BY <1>3 DEF Client, JoinFrame, SetTrackSources, Relay, ClientFrame, Leave, LeaveNothing, LeaveSlot,
                roomVars
  <2>2. CASE JoinFrame(a)
    <3>1. lossy' = lossy \ {a} /\ pc[a] = "idle" /\ a \notin inside
      BY <2>2 DEF JoinFrame
    <3>2. In(sender[This(u)])
      BY <2>1, HolderIn
    <3>3. sender[This(u)] # a
      BY <3>1, <3>2 DEF In, BeforeReply, Sending
    <3>4. QED  BY <2>1, <3>1, <3>3 DEF This
  <2>3. CASE ~JoinFrame(a)
    <3>1. lossy' = lossy
      BY <1>3, <2>3 DEF Client, SetTrackSources, Relay, Leave, LeaveNothing, LeaveSlot, wireVars, gateVars
    <3>2. QED  BY <2>1, <3>1 DEF This
  <2>4. QED  BY <2>2, <2>3
<1>4. CASE Join(a)
  <2>1. lossy \subseteq lossy'
    BY <1>4 DEF Join, RegisterRefused, Rebind, Register, PeerJoined, Joined, Replay, EndGate, Flush, Buffer,
       wireVars, gateVars
  <2>2. CASE Rebind(a)
    <3>1. u # UserOf[a] /\ sender' = [sender EXCEPT ![This(UserOf[a])] = a] /\ UNCHANGED <<present, life>>
      BY <2>2 DEF Rebind
    <3>2. This(u) # This(UserOf[a]) /\ This(u)' = This(u)
      BY <3>1 DEF This
    <3>3. QED  BY <1>1, <2>1, <3>1, <3>2 DEF Types
  <2>3. CASE Register(a)
    <3>1. /\ u # UserOf[a] /\ sender' = [sender EXCEPT ![<<UserOf[a], life[UserOf[a]] + 1>>] = a]
          /\ present' = present \union {UserOf[a]} /\ life' = [life EXCEPT ![UserOf[a]] = @ + 1]
      BY <2>3 DEF Register
    <3>2. This(u)' = This(u) /\ This(u) # <<UserOf[a], life[UserOf[a]] + 1>> /\ u \in present
      BY <1>1, <3>1 DEF This, Types
    <3>3. QED  BY <1>1, <2>1, <3>1, <3>2 DEF Types
  <2>4. CASE ~Rebind(a) /\ ~Register(a)
    <3>1. UNCHANGED <<present, life, sender>>
      BY <1>4, <2>4 DEF Join, RegisterRefused, PeerJoined, Joined, Replay, EndGate, Flush, roomVars
    <3>2. QED  BY <2>1, <3>1 DEF This
  <2>5. QED  BY <2>2, <2>3, <2>4
<1>5. CASE LeaveOn(a)
  <2>1. present' \subseteq present /\ UNCHANGED <<life, lossy>>
    BY <1>5 DEF LeaveOn, Unbind, PeerLeft, End, roomVars, wireVars, gateVars
  <2>2. This(u)' = This(u) /\ u \in present
    BY <2>1 DEF This
  <2>3. sender'[This(u)] = sender[This(u)]
    <3>1. CASE Unbind(a)
      BY <1>1, <2>2, <3>1 DEF Unbind, Types
    <3>2. CASE ~Unbind(a)
      BY <1>5, <3>2 DEF LeaveOn, PeerLeft, End, roomVars
    <3>3. QED  BY <3>1, <3>2
  <2>4. QED  BY <2>1, <2>2, <2>3
<1>6. QED  BY <1>2, <1>3, <1>4, <1>5

LEMMA StepKeeps ==
  ASSUME PlaceInv, NEW a \in Conns, Client(a) \/ Send(a) \/ Join(a) \/ LeaveOn(a),
         NEW c \in Conns, NEW w \in Writings, OnItsWay(c, w), Awaits(c, w)
  PROVE  OnItsWay(c, w)'
BY ClientKeeps, SendKeeps, JoinKeeps, LeaveOnKeeps

LEMMA MapTyped ==
  ASSUME Types, NEW u \in Users, NEW v \in Users, This(u) \in Participants
  PROVE  /\ TheMap(u, v) \in Writings /\ TheMap(u, v).for = This(u) /\ TheMap(u, v).kind = "tracks"
         /\ TheMap(u, v).from = v /\ TheMap(u, v).n = sources[v]
<1>1. Frame("tracks", v, sources[v]) \in Frames
  BY Framed DEF Kind, Types
<1>2. QED  BY <1>1, Written DEF TheMap, Addressed, Frame

HoldersAlive ==
  \A u \in present : /\ sender[This(u)] \in Conns /\ sender[This(u)] \notin dead
                     /\ u \in Users /\ This(u) \in Participants

LEMMA HoldersLive == PlaceInv => HoldersAlive
BY HolderIn DEF HoldersAlive

\* Nobody gets in but by registering.
LEMMA InBefore ==
  ASSUME PlaceInv, NEW a \in Conns, Client(a) \/ Send(a) \/ Join(a) \/ LeaveOn(a), ~Rebind(a), ~Register(a),
         NEW c \in Conns, In(c)'
  PROVE  In(c)
<1>1. Types /\ Alone(a)
  BY StepAlone DEF PlaceInv
<1>2. CASE c # a
  BY <1>1, <1>2 DEF Alone, In, BeforeReply
<1>3. ASSUME NEW f, NEW T, NEW n, n # "joined", SendTo(a, f, T, n), inside' = inside, c = a, n # "announce"
      PROVE  In(c)
  BY <1>1, <1>3, SendToGoes DEF In, BeforeReply, Sending
<1>4. CASE c = a /\ Send(a)
  BY <1>4, SendGoes DEF SendsOn, In
<1>5. CASE c = a /\ Client(a)
  <2>1. CASE JoinFrame(a)
    BY <1>1, <1>5, <2>1 DEF JoinFrame, Goto, Types, In, BeforeReply, Sending
  <2>2. CASE a \in inside
    BY <1>5, <2>2 DEF In
  <2>3. QED
    BY <1>5, <2>1, <2>2 DEF Client, SetTrackSources, Relay, ClientFrame, Leave, LeaveNothing, LeaveSlot,
                            Quit
<1>6. CASE c = a /\ Join(a)
  <2>1. CASE BeforeReply(a)
    BY <1>6, <2>1 DEF In
  <2>2. CASE RegisterRefused(a) \/ Replay(a) \/ EndGate(a) \/ Flush(a)
    BY <1>1, <1>6, <2>2 DEF RegisterRefused, Replay, EndGate, Flush, Goto, Types, In, BeforeReply, Sending
  <2>3. QED  BY <1>6, <2>1, <2>2 DEF Join, PeerJoined, Joined, BeforeReply
<1>7. CASE c = a /\ LeaveOn(a)
  <2>1. CASE Unbind(a)
    BY <1>1, <1>7, <2>1 DEF Unbind, Goto, Types, In, BeforeReply, Sending
  <2>2. CASE PeerLeft(a)
    BY <1>3, <1>7, <2>2 DEF PeerLeft
  <2>3. CASE End(a) /\ closed
    BY <1>1, <1>7, <2>3 DEF End, Goto, Types, In, BeforeReply, Sending
  <2>4. CASE End(a) /\ ~closed
    BY <1>3, <1>7, <2>4 DEF End
  <2>5. QED  BY <1>7, <2>1, <2>2, <2>3, <2>4 DEF LeaveOn
<1>8. QED  BY <1>2, <1>4, <1>5, <1>6, <1>7

\* The map of v reaches u: by the snapshot, by the relay, or is on its way already.
LEMMA MapsKept ==
  ASSUME PlaceInv, PlaceInv', MapsOnTheirWay,
         NEW a \in Conns, Client(a) \/ Send(a) \/ Join(a) \/ LeaveOn(a)
  PROVE  MapsOnTheirWay'
<1> SUFFICES ASSUME NEW u \in present', NEW v \in Users, u # v, sources'[v] # 0,
                    sender'[This(u)'] \notin lossy'
             PROVE  OnItsWay(sender[This(u)], TheMap(u, v))'
  BY DEF MapsOnTheirWay
<1>1. HoldersAlive'
  BY HoldersLive, PTL
<1>2. Types /\ Types' /\ u \in Users /\ This(u)' \in Participants
  BY <1>1 DEF PlaceInv, HoldersAlive
<1>3. PICK c \in Conns : c = sender'[This(u)'] /\ c \notin dead' /\ c \notin lossy'
  BY <1>1 DEF HoldersAlive
<1>4. PICK p \in Participants, n \in Nat : p = This(u)' /\ n = sources'[v]
  BY <1>2 DEF Types
<1>5. PICK w \in Writings : w = Addressed(Frame("tracks", v, n), p)
  BY <1>4, Framed, Written DEF Kind
<1>6. w.for = p /\ w.kind = "tracks" /\ w.from = v /\ w.n = n /\ w = TheMap(u, v)'
  BY <1>4, <1>5 DEF Addressed, Frame, TheMap
<1>7. SUFFICES OnItsWay(c, w)'
  BY <1>3, <1>6 DEF OnItsWay, Carries
<1>8. CASE UserOf[a] = u /\ (Rebind(a) \/ Register(a))
  <2>1. c = a
    <3>1. CASE Rebind(a)
      BY <1>2, <1>3, <1>8, <3>1 DEF Rebind, This, Types
    <3>2. CASE Register(a)
      <4>1. life[u] \in Nat /\ life'[u] = life[u] + 1
        BY <1>2, <1>8, <3>2 DEF Register, Types
      <4>2. This(u)' = <<u, life[u] + 1>>
        BY <4>1 DEF This
      <4>3. QED  BY <1>2, <1>3, <1>8, <3>2, <4>2 DEF Register, Types
    <3>3. QED  BY <1>8, <3>1, <3>2
  <2>2. sources' = sources /\ Snapshot(a)
    BY <1>8 DEF Rebind, Register
  <2>3. <<v, n>> \in maps'[a]
    BY <1>2, <1>4, <1>8, <2>2 DEF Snapshot, Types
  <2>4. QED  BY <1>6, <2>1, <2>3 DEF OnItsWay
<1>9. CASE UserOf[a] = u => ~Rebind(a) /\ ~Register(a)
  <2>1. u \in present /\ p = This(u) /\ c = sender[p] /\ c \notin lossy
    BY <1>3, <1>4, <1>9, SlotKept
  <2>2. In(c) /\ mine[c] = p
    BY <2>1, HolderIn
  <2>3. Awaits(c, w)
    BY <1>3, <1>6, <2>1, <2>2 DEF Awaits
  <2>4. CASE sources'[v] = sources[v]
    <3>1. OnItsWay(c, w)
      <4>1. w = TheMap(u, v)
        BY <1>4, <1>5, <2>1, <2>4 DEF TheMap
      <4>2. QED  BY <1>2, <2>1, <2>4, <4>1 DEF MapsOnTheirWay
    <3>2. QED  BY <2>3, <3>1, StepKeeps
  <2>5. CASE sources'[v] # sources[v]
    <3>1. SetTrackSources(a)
      BY <2>5 DEF Client, JoinFrame, Relay, Leave, LeaveNothing, LeaveSlot, Send, PickTarget, PassGate,
         WriteFrame, Join, RegisterRefused, Rebind, Register, PeerJoined, Joined, Replay, EndGate, Flush,
         LeaveOn, Unbind, PeerLeft, End, roomVars
    <3>2. PICK m \in {0, frames + 1} :
            /\ sources' = [sources EXCEPT ![UserOf[a]] = m]
            /\ SendTo(a, Frame("tracks", UserOf[a], m), Others(UserOf[a]), "idle")
      BY <3>1 DEF SetTrackSources
    <3>3. v = UserOf[a] /\ m = n
      BY <1>2, <1>4, <2>5, <3>2 DEF Types
    <3>4. p \in Others(v)
      BY <2>1 DEF Others
    <3>5. todo'[a] = Others(v) /\ pc'[a] = "send" /\ frame'[a] = Frame("tracks", v, n)
      BY <1>2, <3>2, <3>3, <3>4, SendToGoes
    <3>6. Carries(a, c, w)'
      BY <1>5, <1>6, <3>4, <3>5 DEF Carries, Sending
    <3>7. QED  BY <3>6 DEF OnItsWay
  <2>6. QED  BY <2>4, <2>5
<1>10. QED  BY <1>8, <1>9

\* Who is in the call when it ends is told.
LEMMA EndsKept ==
  ASSUME PlaceInv, PlaceInv', EndsOnTheirWay,
         NEW a \in Conns, Client(a) \/ Send(a) \/ Join(a) \/ LeaveOn(a)
  PROVE  EndsOnTheirWay'
<1> SUFFICES ASSUME closed', NEW p \in Participants, sender'[p] # None, In(sender[p])',
                    sender'[p] \notin lossy'
             PROVE  OnItsWay(sender[p], TheEnd(p))'
  BY DEF EndsOnTheirWay
<1>1. Types /\ Types' /\ Alone(a)
  BY StepAlone DEF PlaceInv
<1>2. PICK c \in Conns : c = sender'[p]
  BY <1>1 DEF Types
<1>3. In(c)' /\ c \notin lossy'
  BY <1>2 DEF In, BeforeReply
<1>4. PICK w \in Writings : w = TheEnd(p) /\ w.for = p
  <2>1. Frame("ended", None, 0) \in Frames
    BY Framed DEF Kind
  <2>2. QED  BY <2>1, Written DEF TheEnd, Addressed
<1>5. SUFFICES OnItsWay(c, w)'
  BY <1>2, <1>4 DEF OnItsWay, Carries, TheEnd
<1>6. c \notin dead'
  <2>1. InPlace(c)'
    BY DEF PlaceInv
  <2>2. QED  BY <1>3, <2>1 DEF InPlace, In, Joining
<1>7. ~Rebind(a) /\ ~Register(a)
  BY DEF Rebind, Register
<1>8. sender[p] = c
  <2>1. sender' = sender \/ Unbind(a)
    BY <1>7 DEF Client, JoinFrame, SetTrackSources, Relay, Leave, LeaveNothing, LeaveSlot, Send, PickTarget,
       PassGate, WriteFrame, Join, RegisterRefused, PeerJoined, Joined, Replay, EndGate, Flush,
       LeaveOn, PeerLeft, End, roomVars
  <2>2. QED  BY <1>1, <1>2, <2>1 DEF Unbind, Types
<1>9. Bound(p) /\ InPlace(c)
  BY DEF PlaceInv
<1>10. In(c)
  BY <1>3, <1>7, InBefore
<1>11. CASE closed
  <2>1. c \notin lossy
    <3>1. ~JoinFrame(a)
      BY <1>11 DEF JoinFrame
    <3>2. lossy \subseteq lossy'
      BY <3>1 DEF Client, SetTrackSources, Relay, Leave, LeaveNothing, LeaveSlot, Send, PickTarget,
                  PassGate,
         WriteFrame, Join, RegisterRefused, Rebind, Register, PeerJoined, Joined, Replay, EndGate, Flush,
         LeaveOn, Unbind, PeerLeft, End, Buffer, wireVars, gateVars
    <3>3. QED  BY <1>3, <3>2
  <2>2. OnItsWay(c, w)
    BY <1>4, <1>8, <1>10, <1>11, <2>1, SignalsAssumption DEF EndsOnTheirWay
  <2>3. Awaits(c, w)
    BY <1>3, <1>4, <1>6, <1>8, <1>9, <1>10, SignalsAssumption DEF Awaits, Bound
  <2>4. QED  BY <2>2, <2>3, StepKeeps
<1>12. CASE ~closed
  <2>1. pc[c] # "unbind"
    BY <1>9, <1>10 DEF InPlace, In, BeforeReply, Sending
  <2>2. p[1] \in present /\ p = This(p[1])
    BY <1>8, <1>9, <1>12, <2>1, SignalsAssumption DEF Bound
  <2>3. End(a) \/ \E dies \in BOOLEAN : LeaveSlot(a, dies)
    BY <1>12 DEF Client, JoinFrame, SetTrackSources, Relay, Leave, LeaveNothing, Send, PickTarget, PassGate,
       WriteFrame, Join, RegisterRefused, Rebind, Register, PeerJoined, Joined, Replay, EndGate, Flush,
       LeaveOn, Unbind, PeerLeft, roomVars
  <2>4. CASE End(a)
    <3>1. SendTo(a, Frame("ended", None, 0), {This(v) : v \in present}, "idle")
      BY <1>12, <2>4 DEF End
    <3>2. p \in {This(v) : v \in present}
      BY <2>2
    <3>3. p \in todo'[a] /\ pc'[a] = "send" /\ frame'[a] = Frame("ended", None, 0)
      BY <1>1, <3>1, <3>2, SendToGoes
    <3>4. Carries(a, c, w)'
      BY <1>4, <3>3 DEF Carries, TheEnd, Sending
    <3>5. QED  BY <3>4 DEF OnItsWay
  <2>5. ASSUME NEW dies \in BOOLEAN, LeaveSlot(a, dies) PROVE FALSE
    <3>1. present = {UserOf[a]} /\ sender[This(UserOf[a])] = a /\ inside' = inside \ {a} /\ pc'[a] = "unbind"
      BY <1>1, <2>5 DEF LeaveSlot, Owns, Quit, Goto, Types
    <3>2. c = a
      BY <1>8, <2>2, <3>1
    <3>3. QED  BY <1>3, <3>1, <3>2 DEF In, BeforeReply, Sending
  <2>6. QED  BY <2>3, <2>4, <2>5
<1>13. QED  BY <1>11, <1>12

LEMMA InitOnTheirWay == Init => MapsOnTheirWay /\ EndsOnTheirWay
BY DEF Init, MapsOnTheirWay, EndsOnTheirWay

LEMMA StepOnTheirWay ==
  PlaceInv /\ PlaceInv' /\ MapsOnTheirWay /\ EndsOnTheirWay /\ [Next]_vars
    => MapsOnTheirWay' /\ EndsOnTheirWay'
<1> SUFFICES ASSUME PlaceInv, PlaceInv', MapsOnTheirWay, EndsOnTheirWay, [Next]_vars
             PROVE  MapsOnTheirWay' /\ EndsOnTheirWay'
  OBVIOUS
<1>1. CASE UNCHANGED vars
  <2>1. /\ UNCHANGED <<present, life, sender, sources, closed, inside, lossy, queued, inbox>>
        /\ UNCHANGED <<pc, then, frame, todo, to, maps, batch>>
    BY <1>1 DEF vars, roomVars, wireVars, gateVars, sendVars, joinVars
  <2>2. \A c : (In(c)' <=> In(c)) /\ \A w : OnItsWay(c, w)' <=> OnItsWay(c, w)
    BY <2>1 DEF In, BeforeReply, OnItsWay, Carries
  <2>3. (\A u : This(u)' = This(u)) /\ (\A u, v : TheMap(u, v)' = TheMap(u, v))
    BY <2>1 DEF This, TheMap
  <2>4. QED
    BY <2>1, <2>2, <2>3 DEF MapsOnTheirWay, EndsOnTheirWay
<1>2. CASE Next
  BY <1>2, MapsKept, EndsKept DEF Next
<1>3. QED  BY <1>1, <1>2

\* When all is quiet nothing is on its way any more.
LEMMA QuietArrived ==
  ASSUME PlaceInv, Quiet, NEW c \in Conns, NEW w, OnItsWay(c, w)
  PROVE  Holds(inbox[c], w)
<1>1. InPlace(c) /\ pc[c] = "idle"
  BY DEF PlaceInv, Quiet
<1>2. queued[c] = <<>> /\ batch[c] = <<>> /\ maps[c] = {}
  BY <1>1 DEF InPlace, Joining, BeforeReply, Sending
<1>3. \A d \in Conns : ~Carries(d, c, w)
  BY DEF Quiet, Carries, Sending
<1>4. ~Holds(<<>>, w)
  BY DEF Holds
<1>5. QED  BY <1>2, <1>3, <1>4 DEF OnItsWay

LEMMA NoneMissed == PlaceInv /\ MapsOnTheirWay => NoAnnouncementMissed
<1> SUFFICES ASSUME PlaceInv, MapsOnTheirWay, Quiet, NEW u \in present, NEW v \in Users \ {u},
                    sources[v] # 0, Holder(u) \notin lossy
             PROVE  Told(Holder(u), v, sources[v])
  BY DEF NoAnnouncementMissed
<1>1. PICK c : c = Holder(u)
  OBVIOUS
<1>2. /\ c = sender[This(u)] /\ c \in Conns /\ mine[c] = This(u) /\ u \in Users /\ This(u) \in Participants
  BY <1>1, HolderIn DEF Holder
<1>3. OnItsWay(c, TheMap(u, v))
  BY <1>1, <1>2 DEF MapsOnTheirWay
<1>4. Holds(inbox[c], TheMap(u, v))
  BY <1>2, <1>3, QuietArrived
<1>5. PICK i \in DOMAIN inbox[c] : inbox[c][i] = TheMap(u, v)
  BY <1>4 DEF Holds
<1>6. Types
  BY DEF PlaceInv
<1>7. QED  BY <1>1, <1>2, <1>5, <1>6, MapTyped DEF Told, Received

LEMMA NoneStranded == PlaceInv /\ EndsOnTheirWay => NobodyStranded
<1> SUFFICES ASSUME PlaceInv, EndsOnTheirWay, Quiet, closed, NEW c \in inside,
                    sender[mine[c]] = c, c \notin lossy
             PROVE  \E i \in Received(c, mine[c]) : inbox[c][i].kind = "ended"
  BY DEF NobodyStranded
<1>1. c \in Conns /\ mine[c] \in Participants /\ In(c)
  BY DEF PlaceInv, Types, InPlace, In
<1>2. OnItsWay(c, TheEnd(mine[c]))
  BY <1>1, SignalsAssumption DEF EndsOnTheirWay
<1>3. PICK i \in DOMAIN inbox[c] : inbox[c][i] = TheEnd(mine[c])
  BY <1>1, <1>2, QuietArrived DEF Holds
<1>4. QED  BY <1>3 DEF Received, TheEnd, Addressed, Frame

LEMMA SpecOnTheirWay == Spec => [](MapsOnTheirWay /\ EndsOnTheirWay)
<1>1. QED  BY InitOnTheirWay, StepOnTheirWay, SpecPlaceInv, PTL DEF Spec

\* When nobody is sending, everybody in the call has the tracks the others announced last
\* (SetTrackSources, handleJoin), unless his gate was full: the map he is told at his join and
\* the announcements that run beside it leave no gap between them.
THEOREM SpecNoAnnouncementMissed == Spec => []NoAnnouncementMissed
<1>1. QED  BY NoneMissed, SpecPlaceInv, SpecOnTheirWay, PTL

\* When the call is closed and nobody is sending, every connection still in it was told so
\* (End and Leave, hub.go), unless its gate was full: whoever registered before the room was
\* closed is among those End tells, also when his joined frame is yet to come.
THEOREM SpecNobodyStranded == Spec => []NobodyStranded
<1>1. QED  BY NoneStranded, SpecPlaceInv, SpecOnTheirWay, PTL
=============================================================================
