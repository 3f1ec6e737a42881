---------------------------- MODULE CallSignals ----------------------------
(***************************************************************************)
(* The frames of one call: what internal/calls writes to the signaling     *)
(* connections of the participants, and in which order.                    *)
(*                                                                         *)
(* A connection is served by one goroutine, which also delivers the frames *)
(* its client causes to the others: it collects the targets under the room *)
(* lock, and then, target by target, reads the connection bound to the     *)
(* participant, passes that connection's gate and writes.  Those are       *)
(* different locks, so each is a step.  The gate buffers what is sent to a *)
(* connection while its own join is in flight.                             *)
(*                                                                         *)
(* CallHub models who gets into the call; here the call is a mesh that     *)
(* admits everybody.  Left out: the replies to a client's own request      *)
(* (errors, acks), and call.media, which UpdateMedia sends to the others   *)
(* as SetTrackSources does, with nothing kept for newcomers.               *)
(***************************************************************************)
EXTENDS Integers, Sequences, FiniteSets

CONSTANTS
  Users,      \* the users of the chat
  Conns,      \* signaling connections
  UserOf,     \* the user a connection is authenticated as
  Kinds,      \* the frames clients send, of FrameKinds
  MaxFrames,  \* bound: frames sent by clients
  MaxJoins,   \* bound: joins sent by clients
  MaxQueued,  \* maxQueuedFrames
  None        \* no connection, no participant

FrameKinds == {"tracks", "relay"}

ASSUME SignalsAssumption ==
  /\ UserOf \in [Conns -> Users]
  /\ Kinds \subseteq FrameKinds
  /\ MaxFrames \in Nat /\ MaxJoins \in Nat \ {0} /\ MaxQueued \in Nat
  /\ None \notin Conns

VARIABLES
  present,   \* Room.participants: the users in the call
  life,      \* life[u]: how many Participants were made for u
  sender,    \* sender[p]: the connection bound to Participant p, or None
  sources,   \* Room.trackSources: the number of the map u announced, or 0
  closed,    \* Room.closed
  joins,     \* how many joins clients have sent
  frames,    \* how many other frames they have sent
  inside,    \* connections whose session has a room
  dead,      \* connections that are closed
  gated,     \* connections whose gate is shut
  queued,    \* queued[c]: the frames buffered by the gate of c
  lossy,     \* ghost: connections whose gate was full, and has dropped a frame
  inbox,     \* inbox[c]: the frames written to c, in order
  pc,        \* pc[c]: what the goroutine of c does next
  then,      \* then[c]: what it does once the frame is sent to all targets
  frame,     \* frame[c]: the frame it is sending
  todo,      \* todo[c]: the Participants it has yet to send it to
  to,        \* to[c]: the Participant and the connection it is sending to
  mine,      \* mine[c]: the Participant it joined as, or takes out
  maps,      \* maps[c]: the announced maps it has yet to replay to its client
  batch      \* batch[c]: the buffered frames it has yet to write to its client

roomVars == <<present, life, sender, sources, closed>>
gateVars == <<queued, lossy>>
wireVars == <<gated, gateVars, inbox>>
sendVars == <<frame, todo, to>>
joinVars == <<mine, maps, batch>>
vars == <<roomVars, joins, frames, inside, dead, wireVars, pc, then, sendVars, joinVars>>

\* A Participant object: the n-th made for user u.
Participants == Users \X (1..MaxJoins)
This(u) == <<u, life[u]>>
Others(u) == {This(v) : v \in present \ {u}}

Frame(kind, from, n) == [kind |-> kind, from |-> from, n |-> n]
NoFrame == Frame("none", None, 0)

Init ==
  /\ present = {}
  /\ life = [u \in Users |-> 0]
  /\ sender = [p \in Participants |-> None]
  /\ sources = [u \in Users |-> 0]
  /\ closed = FALSE
  /\ joins = 0 /\ frames = 0
  /\ inside = {} /\ dead = {} /\ gated = {} /\ lossy = {}
  /\ queued = [c \in Conns |-> <<>>]
  /\ inbox = [c \in Conns |-> <<>>]
  /\ pc = [c \in Conns |-> "idle"]
  /\ then = [c \in Conns |-> "idle"]
  /\ frame = [c \in Conns |-> NoFrame]
  /\ todo = [c \in Conns |-> {}]
  /\ to = [c \in Conns |-> <<None, None>>]
  /\ mine = [c \in Conns |-> None]
  /\ maps = [c \in Conns |-> {}]
  /\ batch = [c \in Conns |-> <<>>]
-----------------------------------------------------------------------------
Goto(c, label) == pc' = [pc EXCEPT ![c] = label]

\* The goroutine of c sends frame f to the targets, then goes on at next.
SendTo(c, f, targets, next) ==
  /\ todo' = [todo EXCEPT ![c] = targets]
  /\ \/ /\ targets # {}
        /\ Goto(c, "send")
        /\ frame' = [frame EXCEPT ![c] = f]
        /\ then' = [then EXCEPT ![c] = next]
     \/ /\ targets = {}
        /\ Goto(c, next)
        /\ then' = [then EXCEPT ![c] = "idle"]
        /\ UNCHANGED frame
  /\ UNCHANGED to

\* One target is done with, rest are left.
SentOne(c, rest) ==
  /\ to' = [to EXCEPT ![c] = <<None, None>>]
  /\ \/ /\ rest # {}
        /\ Goto(c, "send")
        /\ UNCHANGED <<frame, then>>
     \/ /\ rest = {}
        /\ Goto(c, then[c])
        /\ frame' = [frame EXCEPT ![c] = NoFrame]
        /\ then' = [then EXCEPT ![c] = "idle"]

\* What is written to a connection carries whom it is for.
Addressed(f, p) == [kind |-> f.kind, from |-> f.from, n |-> f.n, for |-> p]

\* The gate of d takes a frame, or drops it when it is full.
Buffer(d, f) ==
  \/ /\ Len(queued[d]) < MaxQueued
     /\ queued' = [queued EXCEPT ![d] = Append(@, f)]
     /\ UNCHANGED lossy
  \/ /\ Len(queued[d]) >= MaxQueued
     /\ lossy' = lossy \union {d}
     /\ UNCHANGED queued

Write(d, f) == inbox' = IF d \in dead THEN inbox ELSE [inbox EXCEPT ![d] = Append(@, f)]

-----------------------------------------------------------------------------
(* Participant.Send and session.Send, called for every target in turn.     *)

\* Participant.Send reads the connection bound to the participant, if any.
PickTarget(c) ==
  /\ pc[c] = "send"
  /\ \E p \in todo[c] :
       /\ todo' = [todo EXCEPT ![c] = @ \ {p}]
       /\ \/ /\ sender[p] = None
             /\ SentOne(c, todo[c] \ {p})
          \/ /\ sender[p] # None
             /\ to' = [to EXCEPT ![c] = <<p, sender[p]>>]
             /\ Goto(c, "gate")
             /\ UNCHANGED <<frame, then>>
  /\ UNCHANGED <<roomVars, joins, frames, inside, dead, wireVars, joinVars>>

\* session.Send buffers the frame while the gate is shut.
PassGate(c) ==
  LET d == to[c][2]
  IN /\ pc[c] = "gate"
     /\ \/ /\ d \in gated
           /\ Buffer(d, Addressed(frame[c], to[c][1]))
           /\ SentOne(c, todo[c])
        \/ /\ d \notin gated
           /\ Goto(c, "write")
           /\ UNCHANGED <<gateVars, frame, then, to>>
     /\ UNCHANGED <<roomVars, joins, frames, inside, dead, gated, inbox, todo, joinVars>>

WriteFrame(c) ==
  /\ pc[c] = "write"
  /\ Write(to[c][2], Addressed(frame[c], to[c][1]))
  /\ SentOne(c, todo[c])
  /\ UNCHANGED <<roomVars, joins, frames, inside, dead, gated, gateVars, todo, joinVars>>
-----------------------------------------------------------------------------
(* session.handleJoin and the room part of Hub.Join.                       *)

\* A client asks to join.  Once the call is over it would find another one.
JoinFrame(c) ==
  /\ pc[c] = "idle"
  /\ c \notin inside \union dead
  /\ ~closed
  /\ joins < MaxJoins
  /\ joins' = joins + 1
  /\ Goto(c, "register")
  /\ gated' = gated \union {c}
  /\ queued' = [queued EXCEPT ![c] = <<>>] /\ lossy' = lossy \ {c}
  /\ UNCHANGED <<roomVars, frames, inside, dead, inbox, then, sendVars, joinVars>>

\* The call ended meanwhile: the gate is dropped with what it buffered.
RegisterRefused(c) ==
  /\ pc[c] = "register"
  /\ closed
  /\ Goto(c, "idle")
  /\ gated' = gated \ {c}
  /\ queued' = [queued EXCEPT ![c] = <<>>]
  /\ UNCHANGED <<roomVars, joins, frames, inside, dead, lossy, inbox, then, sendVars, joinVars>>

\* Mutant: no map is copied for the newcomer.
SnapshotForgotten(c) == maps' = [maps EXCEPT ![c] = {}]

\* The maps announced by others are copied along with the registration.
Snapshot(c) ==
  maps' = [maps EXCEPT ![c] =
            {<<v, sources[v]>> : v \in {o \in Users \ {UserOf[c]} : sources[o] # 0}}]

\* Another connection takes the slot of the user over.
Rebind(c) ==
  LET u == UserOf[c]
  IN /\ pc[c] = "register"
     /\ ~closed
     /\ u \in present
     /\ sender' = [sender EXCEPT ![This(u)] = c]
     /\ mine' = [mine EXCEPT ![c] = This(u)]
     /\ Snapshot(c)
     /\ Goto(c, "joined")
     /\ UNCHANGED <<present, life, sources, closed, joins, frames, inside, dead, wireVars, then,
                    sendVars, batch>>

\* A newcomer gets a Participant.
Register(c) ==
  LET u == UserOf[c]
  IN /\ pc[c] = "register"
     /\ ~closed
     /\ u \notin present
     /\ present' = present \union {u}
     /\ life' = [life EXCEPT ![u] = @ + 1]
     /\ sender' = [sender EXCEPT ![<<u, life[u] + 1>>] = c]
     /\ mine' = [mine EXCEPT ![c] = <<u, life[u] + 1>>]
     /\ Snapshot(c)
     /\ Goto(c, "announce")
     /\ UNCHANGED <<sources, closed, joins, frames, inside, dead, wireVars, then, sendVars, batch>>

\* The others learn of the newcomer.
PeerJoined(c) ==
  /\ pc[c] = "announce"
  /\ SendTo(c, Frame("peer_joined", UserOf[c], 0), Others(UserOf[c]), "joined")
  /\ UNCHANGED <<roomVars, joins, frames, inside, dead, wireVars, joinVars>>

Reply(c) == Write(c, Addressed(Frame("joined", UserOf[c], 0), mine[c]))

\* Mutant: the gate is opened before the reply is written.
JoinedAfterGate(c) ==
  /\ pc[c] = "joined"
  /\ IF c \in gated
       THEN /\ gated' = gated \ {c}
            /\ UNCHANGED <<inside, inbox, pc>>
       ELSE /\ inside' = inside \union {c}
            /\ Reply(c)
            /\ Goto(c, "replay")
            /\ UNCHANGED gated
  /\ UNCHANGED <<roomVars, joins, frames, dead, gateVars, then, sendVars, joinVars>>

\* The session has a room now, and writes the reply past its gate.
Joined(c) ==
  /\ pc[c] = "joined"
  /\ inside' = inside \union {c}
  /\ Reply(c)
  /\ Goto(c, "replay")
  /\ UNCHANGED <<roomVars, joins, frames, dead, gated, gateVars, then, sendVars, joinVars>>

\* The maps are replayed through the gate, behind what it holds.
Replay(c) ==
  /\ pc[c] = "replay"
  /\ \E m \in maps[c] :
       /\ maps' = [maps EXCEPT ![c] = @ \ {m}]
       /\ Buffer(c, Addressed(Frame("tracks", m[1], m[2]), mine[c]))
  /\ UNCHANGED <<roomVars, joins, frames, inside, dead, gated, inbox, pc, then, sendVars, mine, batch>>

\* endGate takes what is buffered and opens the gate ...
EndGate(c) ==
  /\ pc[c] = "replay"
  /\ maps[c] = {}
  /\ gated' = gated \ {c}
  /\ queued' = [queued EXCEPT ![c] = <<>>]
  /\ batch' = [batch EXCEPT ![c] = queued[c]]
  /\ Goto(c, "flush")
  /\ UNCHANGED <<roomVars, joins, frames, inside, dead, lossy, inbox, then, sendVars, mine, maps>>

\* Mutant: what was buffered is dropped.
FlushNothing(c) ==
  /\ pc[c] = "flush"
  /\ Goto(c, "idle")
  /\ batch' = [batch EXCEPT ![c] = <<>>]
  /\ UNCHANGED <<roomVars, joins, frames, inside, dead, wireVars, then, sendVars, mine, maps>>

\* ... and writes it, frame by frame, with the gate open.
Flush(c) ==
  /\ pc[c] = "flush"
  /\ \/ /\ batch[c] # <<>>
        /\ Write(c, Head(batch[c]))
        /\ batch' = [batch EXCEPT ![c] = Tail(@)]
        /\ UNCHANGED pc
     \/ /\ batch[c] = <<>>
        /\ Goto(c, "idle")
        /\ UNCHANGED <<inbox, batch>>
  /\ UNCHANGED <<roomVars, joins, frames, inside, dead, gated, gateVars, then, sendVars, mine, maps>>
-----------------------------------------------------------------------------
(* The frames of participants: handleTracks and handleRelay.               *)

\* A participant's client sends its next frame.
ClientFrame(c, kind) ==
  /\ pc[c] = "idle"
  /\ c \in inside
  /\ UserOf[c] \in present
  /\ kind \in Kinds
  /\ frames < MaxFrames
  /\ frames' = frames + 1

\* SetTrackSources stores the map, or forgets it if it is empty, and collects
\* the others under the same lock.  An empty map is announced as number 0.
SetTrackSources(c) ==
  LET u == UserOf[c]
  IN /\ ClientFrame(c, "tracks")
     /\ \E n \in {0, frames + 1} :
          /\ sources' = [sources EXCEPT ![u] = n]
          /\ SendTo(c, Frame("tracks", u, n), Others(u), "idle")
     /\ UNCHANGED <<present, life, sender, closed, joins, inside, dead, wireVars, joinVars>>

\* Relay hands a frame to one other participant.
Relay(c) ==
  LET u == UserOf[c]
  IN /\ ClientFrame(c, "relay")
     /\ \E v \in present \ {u} : SendTo(c, Frame("relay", u, frames + 1), {This(v)}, "idle")
     /\ UNCHANGED <<roomVars, joins, inside, dead, wireVars, joinVars>>
-----------------------------------------------------------------------------
(* Leaving: session.handleLeave, session.cleanup, Hub.Leave and Hub.End.   *)

Owns(c) == ~closed /\ UserOf[c] \in present /\ sender[This(UserOf[c])] = c

\* The session forgets its room, because its client leaves or is gone.  A
\* closed connection is never written to again, and what its client received
\* is of no more interest.
Quit(c, dies) ==
  /\ pc[c] = "idle"
  /\ c \in inside
  /\ inside' = inside \ {c}
  /\ \/ /\ dies
        /\ dead' = dead \union {c}
        /\ inbox' = [inbox EXCEPT ![c] = <<>>]
     \/ /\ ~dies
        /\ UNCHANGED <<dead, inbox>>

LeaveNothing(c, dies) ==
  /\ Quit(c, dies)
  /\ ~Owns(c)
  /\ UNCHANGED <<roomVars, joins, frames, gated, gateVars, pc, then, sendVars, joinVars>>

LeaveSlot(c, dies) ==
  /\ Quit(c, dies)
  /\ Owns(c)
  /\ present' = present \ {UserOf[c]}
  /\ closed' = (present = {UserOf[c]})
  /\ then' = [then EXCEPT ![c] = CASE Cardinality(present) = 1 -> "idle"
                                   [] Cardinality(present) = 2 -> "end"
                                   [] OTHER -> "stay"]
  /\ mine' = [mine EXCEPT ![c] = This(UserOf[c])]
  /\ Goto(c, "unbind")
  /\ UNCHANGED <<life, sender, sources, joins, frames, gated, gateVars, sendVars, maps, batch>>

Leave(c) == \E dies \in BOOLEAN : LeaveNothing(c, dies) \/ LeaveSlot(c, dies)

\* The Participant taken out loses its connection.
Unbind(c) ==
  /\ pc[c] = "unbind"
  /\ sender' = [sender EXCEPT ![mine[c]] = None]
  /\ Goto(c, IF then[c] = "idle" THEN "idle" ELSE "left")
  /\ UNCHANGED <<present, life, sources, closed, joins, frames, inside, dead, wireVars, then, sendVars,
                 joinVars>>

\* The others learn of it.
PeerLeft(c) ==
  /\ pc[c] = "left"
  /\ SendTo(c, Frame("peer_left", UserOf[c], 0), {This(v) : v \in present},
            IF then[c] = "end" THEN "end" ELSE "idle")
  /\ UNCHANGED <<roomVars, joins, frames, inside, dead, wireVars, joinVars>>

\* A call of one is ended; whoever was in it is told.
End(c) ==
  /\ pc[c] = "end"
  /\ \/ /\ closed
        /\ Goto(c, "idle")
        /\ UNCHANGED <<present, closed, then, sendVars>>
     \/ /\ ~closed
        /\ closed' = TRUE
        /\ present' = {}
        /\ SendTo(c, Frame("ended", None, 0), {This(v) : v \in present}, "idle")
  /\ UNCHANGED <<life, sender, sources, joins, frames, inside, dead, wireVars, joinVars>>
-----------------------------------------------------------------------------
Send(c) == PickTarget(c) \/ PassGate(c) \/ WriteFrame(c)

Join(c) ==
  \/ RegisterRefused(c) \/ Rebind(c) \/ Register(c) \/ PeerJoined(c)
  \/ Joined(c) \/ Replay(c) \/ EndGate(c) \/ Flush(c)

LeaveOn(c) == Unbind(c) \/ PeerLeft(c) \/ End(c)

Client(c) ==
  \/ JoinFrame(c) \/ SetTrackSources(c) \/ Relay(c) \/ Leave(c)

Next == \E c \in Conns : Client(c) \/ Send(c) \/ Join(c) \/ LeaveOn(c)

Spec == Init /\ [][Next]_vars
FairSpec == Spec /\ \A c \in Conns : WF_vars(Send(c) \/ Join(c) \/ LeaveOn(c))
-----------------------------------------------------------------------------
(* Properties                                                              *)

\* What the client of connection c has received as Participant p.
Received(c, p) == {i \in DOMAIN inbox[c] : inbox[c][i].for = p}

\* The comment on session.gate (session.go 44-46): a participant never
\* receives the frames of a call before its own call.joined, whichever
\* goroutine sends them and however the join races with it.
NothingBeforeJoined ==
  \A c \in Conns : \A i \in DOMAIN inbox[c] :
    \E j \in Received(c, inbox[c][i].for) : j <= i /\ inbox[c][j].kind = "joined"

\* Nothing is being sent or answered.
Quiet == \A c \in Conns : pc[c] = "idle"

\* The connection that holds the slot of u.
Holder(u) == sender[This(u)]

\* The client of c was told map n of v.
Told(c, v, n) ==
  \E i \in Received(c, mine[c]) :
    inbox[c][i].kind = "tracks" /\ inbox[c][i].from = v /\ inbox[c][i].n = n

\* The comment on SetTrackSources (hub.go 718-721): a map announced while
\* somebody joins, or takes a slot over, reaches them by the snapshot or by
\* the relay.  When all is quiet every participant has a connection, and none
\* misses the map of another, unless its gate was full (maxQueuedFrames).
NoAnnouncementMissed ==
  Quiet =>
    \A u \in present : \A v \in Users \ {u} :
      sources[v] # 0 /\ Holder(u) \notin lossy => Told(Holder(u), v, sources[v])

\* End tells everyone who is still in the call (hub.go 790-795).  When all is
\* quiet after the end of the call, the client of a session that still takes
\* itself to be in it has been told, joining or not at that moment, unless its
\* gate was full.
NobodyStranded ==
  Quiet /\ closed =>
    \A c \in inside :
      sender[mine[c]] = c /\ c \notin lossy =>
        \E i \in Received(c, mine[c]) : inbox[c][i].kind = "ended"

\* session.go 269-271: the maps "announced before this join are replayed so
\* the newcomer can label already flowing streams".  When all is quiet, the
\* last map of v a participant received is the one v announced last.  It does
\* not hold, and no run states it (README, "What disagrees").
LabelsSettle ==
  Quiet =>
    \A u \in present : \A v \in present \ {u} :
      LET c == Holder(u)
          about == {i \in Received(c, mine[c]) :
                      inbox[c][i].kind = "tracks" /\ inbox[c][i].from = v}
      IN c # None /\ about # {} =>
           \E i \in about : (\A j \in about : j <= i) /\ inbox[c][i].n = sources[v]
=============================================================================
