----------------------------- MODULE CallMedia -----------------------------
(***************************************************************************)
(* The media of one call that runs over the server (internal/calls/sfu.go  *)
(* and the peers of hub.go): a server peer per participant, the tracks     *)
(* they publish, and the legs that forward each track to the other peers.  *)
(*                                                                         *)
(* Four kinds of goroutines work on them: the session of a user, the       *)
(* handler and pump of a track, the one a failed connection starts, and    *)
(* the shutdown.  There is one lock for the room and one for every peer.   *)
(* Two sections hold one of them while they wait for the other, and only   *)
(* there a lock spans two steps; every other critical section is a step.   *)
(*                                                                         *)
(* A user publishes one track at a time, always under the same key, as a   *)
(* client does that reuses its MediaStreamTrack.  Left out: broadcasts, a  *)
(* second connection of a user at work beside the first, the SDP, the      *)
(* signaling state of a peer and its candidates, packets, and labels.      *)
(***************************************************************************)
EXTENDS Integers, FiniteSets

CONSTANTS
  Users,      \* the users of the chat
  Speakers,   \* those of them whose clients publish
  MeshLimit,  \* a mesh of so many escalates when one more joins
  MaxPeers,   \* bound: server peers made for a user; more cannot be made
  MaxTracks,  \* bound: tracks published over one peer
  MaxJoins,   \* bound: joins of one user
  MaxOffers,  \* bound: offers of each user
  MaxFailures, \* bound: peers whose connection fails
  Events,     \* what happens besides, of EventNames
  Server,     \* the server itself: its shutdown, and its own offers
  None        \* nobody, nothing

EventNames == {"leaves", "breaks", "stops", "iceFails", "shutdown"}

ASSUME MediaAssumption ==
  /\ IsFiniteSet(Users) /\ Speakers \subseteq Users
  /\ MeshLimit \in Nat
  /\ MaxPeers \in Nat \ {0} /\ MaxTracks \in Nat /\ MaxFailures \in Nat
  /\ MaxJoins \in Nat /\ MaxOffers \in [Users -> Nat]
  /\ Events \subseteq EventNames

\* The n-th peer made for a user, and the k-th track published over it.
Peers == Users \X (1..MaxPeers)
Tracks == Peers \X (1..MaxTracks)
Owner(p) == p[1]
Publisher(s) == Owner(s[1])

\* The goroutines: sessions by their user, tracks and failures by their object.
Procs == Users \union Tracks \union Peers \union {Server}

ASSUME ProcsAssumption ==
  /\ Server \notin Users \union Tracks \union Peers
  /\ None \notin Procs
  /\ Users \intersect (Tracks \union Peers) = {}

VARIABLES
  present,    \* Room.participants
  sfu,        \* Room.Topology is not mesh
  closed,     \* Room.closed
  peerOf,     \* Room.peers: peerOf[u], or None
  routes,     \* Room.routes: the legs in use
  made,       \* how many peers were made for a user
  dead,       \* the peers whose closed is set
  remote,     \* the open peers that have taken an offer of their client
  published,  \* published[p]: the track of sfuPeer.published, or None
  forwarded,  \* forwarded[p]: the legs of sfuPeer.forwarded
  wanted,     \* the open peers that are to offer their tracks to their client
  roomLock,   \* who holds the room lock while waiting for a peer
  peerLock,   \* peerLock[p]: who holds it while waiting for the room; the
              \* Server when negotiate does
  joins,      \* how often a user joined
  offers,     \* how many offers a user's client has sent
  skipped,    \* ghost: an activation was cut short, or never began
  pc,         \* pc[x]: what goroutine x does next
  caller,     \* caller[x]: what it does once the peers are closed, or made
  todo,       \* todo[x]: the users, peers or pairs of peers it has yet to visit
  victims,    \* victims[x]: the peers it has yet to close
  arg,        \* arg[x]: the user whose peer it ensures, or the leg it adds or removes
  mine        \* mine[x]: the peer it made or was given

roomVars == <<present, sfu, closed, peerOf, routes>>
peerVars == <<made, dead, remote, published, forwarded, wanted>>
lockVars == <<roomLock, peerLock>>
boundVars == <<joins, offers, skipped>>
localVars == <<caller, todo, victims, arg, mine>>
vars == <<roomVars, peerVars, lockVars, boundVars, pc, localVars>>

Init ==
  /\ present = {} /\ sfu = FALSE /\ closed = FALSE
  /\ peerOf = [u \in Users |-> None]
  /\ routes = {}
  /\ made = [u \in Users |-> 0]
  /\ dead = {} /\ remote = {} /\ wanted = {}
  /\ published = [p \in Peers |-> None]
  /\ forwarded = [p \in Peers |-> {}]
  /\ roomLock = None
  /\ peerLock = [p \in Peers |-> None]
  /\ joins = [u \in Users |-> 0] /\ offers = [u \in Users |-> 0] /\ skipped = FALSE
  /\ pc = [x \in Procs |-> "idle"]
  /\ caller = [x \in Procs |-> "idle"]
  /\ todo = [x \in Procs |-> {}]
  /\ victims = [x \in Procs |-> {}]
  /\ arg = [x \in Procs |-> None]
  /\ mine = [x \in Procs |-> None]
-----------------------------------------------------------------------------
Goto(x, label) == pc' = [pc EXCEPT ![x] = label]
At(x, label) == pc[x] = label

RoomFree == roomLock = None
Free(p) == peerLock[p] = None

\* A leg carries a track to the peer of a subscriber.  The goroutine that
\* made it tells it from another leg between the same two.
Leg(q, s, x) == <<q, s, x>>
Key(leg) == Publisher(leg[2])

\* peerSnapshot
Live == {peerOf[u] : u \in Users} \ {None}
LegsOf(u) == {leg \in routes : Key(leg) = u \/ Owner(leg[1]) = u}

-----------------------------------------------------------------------------
(* Joining, and Hub.Activate.                                              *)

\* Hub.Join lets u in, and makes a full mesh a call over the server; whoever is
\* in already is bound to his new connection.  A connection that breaks before
\* call.joined is written never activates, of which the ghost takes note.
Join(u) ==
  /\ At(u, "idle") /\ RoomFree
  /\ ~closed
  /\ joins[u] < MaxJoins
  /\ joins' = [joins EXCEPT ![u] = @ + 1]
  /\ present' = present \union {u}
  /\ sfu' = (sfu \/ (u \notin present /\ Cardinality(present) >= MeshLimit))
  /\ \/ Goto(u, "activate") /\ UNCHANGED skipped
     \/ "breaks" \in Events /\ skipped' = (skipped \/ sfu') /\ UNCHANGED pc
  /\ UNCHANGED <<closed, peerOf, routes, peerVars, lockVars, offers, localVars>>

\* Both ask for the topology again when call.joined is out: it may be the
\* server's by then.  Activate takes the participants there are ...
Activate(u) ==
  /\ At(u, "activate") /\ RoomFree
  /\ \/ /\ closed \/ ~sfu
        /\ Goto(u, "idle")
        /\ UNCHANGED todo
     \/ /\ ~closed /\ sfu
        /\ todo' = [todo EXCEPT ![u] = present]
        /\ Goto(u, "targets")
  /\ UNCHANGED <<roomVars, peerVars, lockVars, boundVars, caller, victims, arg, mine>>

\* ... and ensures a peer for each, one after the other.
NextTarget(u) ==
  /\ At(u, "targets")
  /\ \/ \E v \in todo[u] :
          /\ todo' = [todo EXCEPT ![u] = @ \ {v}]
          /\ arg' = [arg EXCEPT ![u] = v]
          /\ caller' = [caller EXCEPT ![u] = "targets"]
          /\ Goto(u, "ensure")
     \/ /\ todo[u] = {}
        /\ Goto(u, "attach")
        /\ UNCHANGED <<todo, arg, caller>>
  /\ UNCHANGED <<roomVars, peerVars, lockVars, boundVars, victims, mine>>
-----------------------------------------------------------------------------
(* ensurePeer, for participant arg[u].                                     *)

\* It returns peer p to its caller.
Ensured(u, p) ==
  /\ Goto(u, caller[u])
  /\ arg' = [arg EXCEPT ![u] = None]
  /\ caller' = [caller EXCEPT ![u] = "idle"]
  /\ mine' = [mine EXCEPT ![u] = IF caller[u] = "offer" THEN p ELSE None]
  /\ UNCHANGED todo

\* It returns an error.  Activate goes on with the other participants unless
\* the error is about the user it runs for.
NotEnsured(u) ==
  LET goesOn == caller[u] = "targets" /\ arg[u] # u
  IN /\ Goto(u, IF goesOn THEN "targets" ELSE "idle")
     /\ todo' = [todo EXCEPT ![u] = IF goesOn THEN @ ELSE {}]
     /\ arg' = [arg EXCEPT ![u] = None]
     /\ caller' = [caller EXCEPT ![u] = "idle"]
     /\ mine' = [mine EXCEPT ![u] = None]

\* A look at the room.  A peer found there has to be asked whether it is
\* closed, with the room locked.
Ensure(u) ==
  /\ At(u, "ensure") /\ RoomFree
  /\ \/ /\ closed
        /\ NotEnsured(u)
        /\ UNCHANGED roomLock
     \/ /\ ~closed
        /\ \/ /\ peerOf[arg[u]] = None
              /\ Goto(u, "make")
              /\ UNCHANGED roomLock
           \/ /\ peerOf[arg[u]] # None
              /\ Goto(u, "look")
              /\ roomLock' = u
        /\ UNCHANGED <<caller, todo, arg, mine>>
  /\ UNCHANGED <<roomVars, peerVars, peerLock, boundVars, victims>>

Look(u) ==
  LET p == peerOf[arg[u]]
  IN /\ At(u, "look") /\ Free(p)
     /\ roomLock' = None
     /\ \/ /\ p \notin dead
           /\ Ensured(u, p)
        \/ /\ p \in dead
           /\ Goto(u, "make")
           /\ UNCHANGED <<caller, todo, arg, mine>>
     /\ UNCHANGED <<roomVars, peerVars, peerLock, boundVars, victims>>

NewPeer(v) == <<v, made[v] + 1>>

\* newPeer.  It may fail; the bound stands for that.  The participant of an
\* activation is then left without a peer.
Make(u) ==
  LET v == arg[u]
  IN /\ At(u, "make")
     /\ \/ /\ made[v] < MaxPeers
           /\ made' = [made EXCEPT ![v] = @ + 1]
           /\ mine' = [mine EXCEPT ![u] = NewPeer(v)]
           /\ Goto(u, "store")
           /\ UNCHANGED <<caller, todo, arg, skipped>>
        \/ /\ made[v] = MaxPeers
           /\ NotEnsured(u)
           /\ skipped' = (skipped \/ caller[u] = "targets")
           /\ UNCHANGED made
     /\ UNCHANGED <<roomVars, dead, remote, published, forwarded, wanted, lockVars, joins, offers, victims>>

\* Mutant: a peer made meanwhile by somebody else is not looked for.
NeverTaken(v) == FALSE

Taken(v) == peerOf[v] # None

\* Another look: the call may be over, the participant gone, or another peer
\* made for him meanwhile.
Store(u) ==
  LET v == arg[u]
      gone == closed \/ v \notin present
  IN /\ At(u, "store") /\ RoomFree
     /\ \/ /\ gone
           /\ Goto(u, "discard")
           /\ victims' = [victims EXCEPT ![u] = {mine[u]}]
           /\ mine' = [mine EXCEPT ![u] = None]
           /\ UNCHANGED <<peerOf, roomLock, caller, todo, arg>>
        \/ /\ ~gone /\ ~Taken(v)
           /\ peerOf' = [peerOf EXCEPT ![v] = mine[u]]
           /\ Ensured(u, mine[u])
           /\ UNCHANGED <<roomLock, victims>>
        \/ /\ ~gone /\ Taken(v)
           /\ Goto(u, "compare")
           /\ roomLock' = u
           /\ UNCHANGED <<peerOf, caller, todo, arg, victims, mine>>
     /\ UNCHANGED <<present, sfu, closed, routes, peerVars, peerLock, boundVars>>

\* The peer found there is asked whether it is closed, with the room locked.
Compare(u) ==
  LET v == arg[u]
      p == peerOf[v]
  IN /\ At(u, "compare") /\ Free(p)
     /\ roomLock' = None
     /\ \/ /\ p \in dead
           /\ peerOf' = [peerOf EXCEPT ![v] = mine[u]]
           /\ Ensured(u, mine[u])
           /\ UNCHANGED victims
        \/ /\ p \notin dead
           /\ Goto(u, "discard")
           /\ victims' = [victims EXCEPT ![u] = {mine[u]}]
           /\ mine' = [mine EXCEPT ![u] = p]
           /\ UNCHANGED <<peerOf, caller, todo, arg>>
     /\ UNCHANGED <<present, sfu, closed, routes, peerVars, peerLock, boundVars>>

\* The new peer is closed, with an error or in favour of the other one.
Discard(u) ==
  /\ At(u, "discard")
  /\ \E p \in victims[u] :
       /\ Free(p)
       /\ dead' = dead \union {p}
       /\ forwarded' = [forwarded EXCEPT ![p] = {}]
       /\ published' = [published EXCEPT ![p] = None]
  /\ victims' = [victims EXCEPT ![u] = {}]
  /\ \/ mine[u] = None /\ NotEnsured(u)
     \/ mine[u] # None /\ Ensured(u, mine[u])
  /\ UNCHANGED <<roomVars, made, remote, wanted, lockVars, boundVars>>
-----------------------------------------------------------------------------
(* The offers of a client: session.handleOffer, PeerFor, sfuPeer.handleOffer. *)

\* PeerFor reads the room, ...
Offer(u) ==
  /\ At(u, "idle") /\ RoomFree
  /\ ~closed /\ u \in present
  /\ offers[u] < MaxOffers[u]
  /\ offers' = [offers EXCEPT ![u] = @ + 1]
  /\ \/ /\ peerOf[u] = None
        /\ arg' = [arg EXCEPT ![u] = u]
        /\ caller' = [caller EXCEPT ![u] = "offer"]
        /\ Goto(u, "ensure")
        /\ UNCHANGED mine
     \/ /\ peerOf[u] # None
        /\ mine' = [mine EXCEPT ![u] = peerOf[u]]
        /\ Goto(u, "peerFor")
        /\ UNCHANGED <<arg, caller>>
  /\ UNCHANGED <<roomVars, peerVars, lockVars, joins, skipped, todo, victims>>

\* ... and then asks the peer it found whether it is closed.
PeerFor(u) ==
  /\ At(u, "peerFor") /\ Free(mine[u])
  /\ \/ /\ mine[u] \notin dead
        /\ Goto(u, "offer")
        /\ UNCHANGED <<mine, arg, caller>>
     \/ /\ mine[u] \in dead /\ RoomFree /\ u \in present
        /\ mine' = [mine EXCEPT ![u] = None]
        /\ arg' = [arg EXCEPT ![u] = u]
        /\ caller' = [caller EXCEPT ![u] = "offer"]
        /\ Goto(u, "ensure")
     \/ /\ mine[u] \in dead /\ RoomFree /\ u \notin present
        /\ mine' = [mine EXCEPT ![u] = None]
        /\ Goto(u, "idle")
        /\ UNCHANGED <<arg, caller>>
  /\ UNCHANGED <<roomVars, peerVars, lockVars, boundVars, todo, victims>>

\* The offer is refused in a mesh, or applied, unless the peer is closed by now.
HandleOffer(u) ==
  LET p == mine[u]
  IN /\ At(u, "offer")
     /\ \/ /\ (~sfu /\ RoomFree) \/ (p \in dead /\ Free(p))
           /\ mine' = [mine EXCEPT ![u] = None]
           /\ Goto(u, "idle")
           /\ UNCHANGED <<peerLock, remote>>
        \/ /\ sfu /\ p \notin dead /\ Free(p)
           /\ peerLock' = [peerLock EXCEPT ![p] = u]
           /\ remote' = remote \union {p}
           /\ Goto(u, "answer")
           /\ UNCHANGED mine
     /\ UNCHANGED <<roomVars, made, dead, published, forwarded, wanted, roomLock, boundVars, caller,
                    todo, victims, arg>>

\* The answer is sent with the peer locked; the room knows to whom.
Answer(u) ==
  /\ At(u, "answer") /\ RoomFree
  /\ peerLock' = [peerLock EXCEPT ![mine[u]] = None]
  /\ mine' = [mine EXCEPT ![u] = None]
  /\ Goto(u, "idle")
  /\ UNCHANGED <<roomVars, peerVars, roomLock, boundVars, caller, todo, victims, arg>>

\* negotiate sends an offer of the server, also with the peer locked.  On a
\* closed peer it does nothing.
Negotiate(p) ==
  /\ p \in wanted /\ Free(p)
  /\ wanted' = wanted \ {p}
  /\ peerLock' = [peerLock EXCEPT ![p] = Server]
  /\ UNCHANGED <<roomVars, made, dead, remote, published, forwarded, roomLock, boundVars, pc, localVars>>

ServerOffer(p) ==
  /\ peerLock[p] = Server /\ RoomFree
  /\ peerLock' = [peerLock EXCEPT ![p] = None]
  /\ UNCHANGED <<roomVars, peerVars, roomLock, boundVars, pc, localVars>>
-----------------------------------------------------------------------------
(* Tracks: attachExistingPublished, onTrack, addForwarded, pump.           *)

\* Mutant: only what u itself has published is forwarded.
AttachOwn(u) ==
  /\ At(u, "attach") /\ RoomFree
  /\ todo' = [todo EXCEPT ![u] = {pair \in Live \X Live : Owner(pair[1]) # u /\ Owner(pair[2]) = u}]
  /\ Goto(u, "pairs")
  /\ UNCHANGED <<roomVars, peerVars, lockVars, boundVars, caller, victims, arg, mine>>

\* attachExistingPublished pairs the peers there are, ...
Attach(u) ==
  /\ At(u, "attach") /\ RoomFree
  /\ todo' = [todo EXCEPT ![u] = {pair \in Live \X Live : Owner(pair[1]) # Owner(pair[2])}]
  /\ Goto(u, "pairs")
  /\ UNCHANGED <<roomVars, peerVars, lockVars, boundVars, caller, victims, arg, mine>>

\* ... and forwards what the second of a pair has published to the first.
AttachPair(u) ==
  /\ At(u, "pairs")
  /\ \/ \E pair \in todo[u] :
          /\ Free(pair[2])
          /\ todo' = [todo EXCEPT ![u] = @ \ {pair}]
          /\ \/ /\ published[pair[2]] # None
                /\ arg' = [arg EXCEPT ![u] = Leg(pair[1], published[pair[2]], u)]
                /\ Goto(u, "forward")
             \/ /\ published[pair[2]] = None
                /\ UNCHANGED <<arg, pc>>
     \/ /\ todo[u] = {}
        /\ Goto(u, "idle")
        /\ UNCHANGED <<todo, arg>>
  /\ UNCHANGED <<roomVars, peerVars, lockVars, boundVars, caller, victims, mine>>

\* Where a track is no longer read.
Ended == {"drop", "detach", "remove", "unroute", "over"}

\* The client of an open peer starts a track, when it has stopped the one
\* before: onTrack.  It asks the room who may publish, which is everybody but
\* in a broadcast.
OnTrack(s) ==
  LET p == s[1]
  IN /\ At(s, "idle") /\ RoomFree
     /\ p \in remote /\ Owner(p) \in Speakers
     /\ \A k \in 1..(s[2] - 1) : pc[<<p, k>>] \in Ended
     /\ Goto(s, "publish")
     /\ UNCHANGED <<roomVars, peerVars, lockVars, boundVars, localVars>>

Publish(s) ==
  LET p == s[1]
  IN /\ At(s, "publish") /\ Free(p)
     /\ \/ /\ p \in dead
           /\ Goto(s, "over")
           /\ UNCHANGED published
        \/ /\ p \notin dead
           /\ published' = [published EXCEPT ![p] = s]
           /\ Goto(s, "peers")
     /\ UNCHANGED <<roomVars, made, dead, remote, forwarded, wanted, lockVars, boundVars, localVars>>

\* attachPublisher: the peers of all others get it, one after the other.
AttachPublisher(s) ==
  /\ At(s, "peers") /\ RoomFree
  /\ todo' = [todo EXCEPT ![s] = {q \in Live : Owner(q) # Publisher(s)}]
  /\ Goto(s, "fanout")
  /\ UNCHANGED <<roomVars, peerVars, lockVars, boundVars, caller, victims, arg, mine>>

Fanout(s) ==
  /\ At(s, "fanout")
  /\ \/ \E q \in todo[s] :
          /\ todo' = [todo EXCEPT ![s] = @ \ {q}]
          /\ arg' = [arg EXCEPT ![s] = Leg(q, s, s)]
          /\ Goto(s, "forward")
     \/ /\ todo[s] = {}
        /\ Goto(s, "pump")
        /\ UNCHANGED <<todo, arg>>
  /\ UNCHANGED <<roomVars, peerVars, lockVars, boundVars, caller, victims, mine>>

\* addForwarded has added its leg, or has nothing to add.
Forwarded(x) ==
  /\ Goto(x, IF x \in Tracks THEN "fanout" ELSE "pairs")
  /\ arg' = [arg EXCEPT ![x] = None]

\* A leg of that key is there already.
HasLeg(q, s) == \E leg \in forwarded[q] : Key(leg) = Publisher(s)

\* Mutant: the peer is unlocked while the room is asked.
ForwardUnlocked(x) ==
  LET q == arg[x][1] s == arg[x][2]
  IN /\ At(x, "forward") /\ Free(q)
     /\ \/ /\ q \in dead \/ HasLeg(q, s)
           /\ Forwarded(x)
        \/ /\ q \notin dead /\ ~HasLeg(q, s)
           /\ Goto(x, "label")
           /\ UNCHANGED arg
     /\ UNCHANGED <<roomVars, peerVars, lockVars, boundVars, caller, todo, victims, mine>>

\* addForwarded: the peer is locked, and stays so while the room is asked for
\* the label of the track.
Forward(x) ==
  LET q == arg[x][1] s == arg[x][2]
  IN /\ At(x, "forward") /\ Free(q)
     /\ \/ /\ q \in dead \/ HasLeg(q, s)
           /\ Forwarded(x)
           /\ UNCHANGED peerLock
        \/ /\ q \notin dead /\ ~HasLeg(q, s)
           /\ peerLock' = [peerLock EXCEPT ![q] = x]
           /\ Goto(x, "label")
           /\ UNCHANGED arg
     /\ UNCHANGED <<roomVars, peerVars, roomLock, boundVars, caller, todo, victims, mine>>

Label(x) ==
  LET q == arg[x][1]
  IN /\ At(x, "label") /\ RoomFree
     /\ forwarded' = [forwarded EXCEPT ![q] = @ \union {arg[x]}]
     /\ wanted' = wanted \union {q}
     /\ peerLock' = [peerLock EXCEPT ![q] = None]
     /\ Goto(x, "route")
     /\ UNCHANGED <<roomVars, made, dead, remote, published, roomLock, boundVars, localVars>>

AddRoute(x) ==
  /\ At(x, "route") /\ RoomFree
  /\ routes' = routes \union {arg[x]}
  /\ Forwarded(x)
  /\ UNCHANGED <<present, sfu, closed, peerOf, peerVars, lockVars, boundVars, caller, todo, victims, mine>>

\* The pump of a track ends with its peer, or because its client stops it.
PumpEnds(s) ==
  /\ At(s, "pump")
  /\ (s[1] \in dead) \/ "stops" \in Events
  /\ Goto(s, "drop")
  /\ UNCHANGED <<roomVars, peerVars, lockVars, boundVars, localVars>>

\* dropPublished
DropPublished(s) ==
  LET p == s[1]
  IN /\ At(s, "drop") /\ Free(p)
     /\ published' = [published EXCEPT ![p] = IF @ = s THEN None ELSE @]
     /\ Goto(s, "detach")
     /\ UNCHANGED <<roomVars, made, dead, remote, forwarded, wanted, lockVars, boundVars, localVars>>

\* detachPublisher: every peer gives up its leg of that key, ...
Detach(s) ==
  /\ At(s, "detach") /\ RoomFree
  /\ todo' = [todo EXCEPT ![s] = Live]
  /\ Goto(s, "remove")
  /\ UNCHANGED <<roomVars, peerVars, lockVars, boundVars, caller, victims, arg, mine>>

RemoveForwarded(s) ==
  /\ At(s, "remove")
  /\ \E q \in todo[s] :
       /\ Free(q)
       /\ todo' = [todo EXCEPT ![s] = @ \ {q}]
       /\ \/ /\ ~HasLeg(q, s)
             /\ UNCHANGED <<forwarded, wanted, arg, pc>>
          \/ \E leg \in forwarded[q] :
               /\ Key(leg) = Publisher(s)
               /\ forwarded' = [forwarded EXCEPT ![q] = @ \ {leg}]
               /\ wanted' = IF q \in dead THEN wanted ELSE wanted \union {q}
               /\ arg' = [arg EXCEPT ![s] = leg]
               /\ Goto(s, "unroute")
  /\ UNCHANGED <<roomVars, made, dead, remote, published, lockVars, boundVars, caller, victims, mine>>

RemoveRoute(s) ==
  /\ At(s, "unroute") /\ RoomFree
  /\ routes' = routes \ {arg[s]}
  /\ arg' = [arg EXCEPT ![s] = None]
  /\ Goto(s, "remove")
  /\ UNCHANGED <<present, sfu, closed, peerOf, peerVars, lockVars, boundVars, caller, todo, victims, mine>>

\* ... and the room forgets the key.
ForgetKey(s) ==
  /\ At(s, "remove") /\ RoomFree
  /\ todo[s] = {}
  /\ routes' = {leg \in routes : Key(leg) # Publisher(s)}
  /\ Goto(s, "over")
  /\ UNCHANGED <<present, sfu, closed, peerOf, peerVars, lockVars, boundVars, localVars>>
-----------------------------------------------------------------------------
(* Closing peers: Hub.Leave, Hub.End, and a connection that fails.         *)

\* x closes the peers, and goes on at next.
CloseAll(x, peers, next) ==
  /\ Goto(x, "close")
  /\ victims' = [victims EXCEPT ![x] = peers \ {None}]
  /\ caller' = [caller EXCEPT ![x] = next]

Leave(u) ==
  /\ At(u, "idle") /\ RoomFree
  /\ "leaves" \in Events
  /\ ~closed /\ u \in present
  /\ present' = present \ {u}
  /\ peerOf' = [peerOf EXCEPT ![u] = None]
  /\ closed' = (present = {u})
  /\ \/ present = {u} /\ CloseAll(u, {peerOf[u]}, "empty")
     \/ Cardinality(present) = 2 /\ CloseAll(u, {peerOf[u]}, "lonely")
     \/ Cardinality(present) > 2 /\ CloseAll(u, {peerOf[u]}, "stay")
  /\ UNCHANGED <<sfu, routes, peerVars, lockVars, boundVars, todo, arg, mine>>

\* The connection of an open peer fails.
IceFails(p) ==
  /\ At(p, "idle")
  /\ "iceFails" \in Events
  /\ Cardinality({q \in Peers : ~At(q, "idle")}) < MaxFailures
  /\ p \in remote
  /\ CloseAll(p, {p}, "stay")
  /\ UNCHANGED <<roomVars, peerVars, lockVars, boundVars, todo, arg, mine>>

\* Hub.End, by the shutdown or because one participant is left.
End(x) ==
  /\ RoomFree
  /\ \/ x = Server /\ At(x, "idle") /\ "shutdown" \in Events
     \/ At(x, "end")
  /\ \/ /\ closed
        /\ Goto(x, "over")
        /\ UNCHANGED <<present, closed, peerOf, victims, caller>>
     \/ /\ ~closed
        /\ closed' = TRUE
        /\ present' = {}
        /\ peerOf' = [u \in Users |-> None]
        /\ CloseAll(x, Live, "ended")
  /\ UNCHANGED <<sfu, routes, peerVars, lockVars, boundVars, todo, arg, mine>>

\* sfuPeer.close
ClosePeer(x) ==
  /\ At(x, "close")
  /\ \E p \in victims[x] :
       /\ Free(p)
       /\ victims' = [victims EXCEPT ![x] = @ \ {p}]
       /\ \/ /\ p \in dead
             /\ UNCHANGED <<dead, remote, wanted, forwarded, published, todo, pc>>
          \/ /\ p \notin dead
             /\ dead' = dead \union {p}
             /\ remote' = remote \ {p}
             /\ wanted' = wanted \ {p}
             /\ forwarded' = [forwarded EXCEPT ![p] = {}]
             /\ published' = [published EXCEPT ![p] = None]
             /\ todo' = [todo EXCEPT ![x] = forwarded[p]]
             /\ Goto(x, "unleg")
  /\ UNCHANGED <<roomVars, made, lockVars, boundVars, caller, arg, mine>>

\* Its legs leave the routing table one by one.
RemoveLeg(x) ==
  /\ At(x, "unleg")
  /\ \/ \E leg \in todo[x] :
          /\ RoomFree
          /\ routes' = routes \ {leg}
          /\ todo' = [todo EXCEPT ![x] = @ \ {leg}]
          /\ UNCHANGED pc
     \/ /\ todo[x] = {}
        /\ Goto(x, "close")
        /\ UNCHANGED <<routes, todo>>
  /\ UNCHANGED <<present, sfu, closed, peerOf, peerVars, lockVars, boundVars, caller, victims, arg, mine>>

\* removeRoutesFor the user whose peer is closed, or removeAllRoutes.
Sweep(x) ==
  /\ At(x, "close") /\ RoomFree
  /\ victims[x] = {}
  /\ routes' = IF caller[x] = "ended" THEN {}
                 ELSE routes \ LegsOf(IF x \in Users THEN x ELSE Owner(x))
  /\ Goto(x, IF caller[x] \in {"lonely", "empty"} THEN "caches" ELSE "over")
  /\ UNCHANGED <<present, sfu, closed, peerOf, peerVars, lockVars, boundVars, localVars>>

\* dropPeerCaches; then a call of one is ended.
DropPeerCaches(x) ==
  /\ At(x, "caches") /\ RoomFree
  /\ peerOf' = [u \in Users |-> None]
  /\ Goto(x, IF caller[x] = "lonely" THEN "end" ELSE "over")
  /\ UNCHANGED <<present, sfu, closed, routes, peerVars, lockVars, boundVars, localVars>>

\* A session serves its next frame; the other goroutines are done.
Done(u) ==
  /\ At(u, "over")
  /\ Goto(u, "idle")
  /\ caller' = [caller EXCEPT ![u] = "idle"]
  /\ UNCHANGED <<roomVars, peerVars, lockVars, boundVars, todo, victims, arg, mine>>
-----------------------------------------------------------------------------
Ensuring(u) == Ensure(u) \/ Look(u) \/ Make(u) \/ Store(u) \/ Compare(u) \/ Discard(u)
Activating(u) == Activate(u) \/ NextTarget(u) \/ Attach(u) \/ AttachPair(u)
Offering(u) == PeerFor(u) \/ HandleOffer(u) \/ Answer(u)
Negotiating(p) == Negotiate(p) \/ ServerOffer(p)
Forwarding(x) == Forward(x) \/ Label(x) \/ AddRoute(x)
Detaching(s) == DropPublished(s) \/ Detach(s) \/ RemoveForwarded(s) \/ RemoveRoute(s) \/ ForgetKey(s)
Publishing(s) == Publish(s) \/ AttachPublisher(s) \/ Fanout(s) \/ Detaching(s)
Closing(x) == ClosePeer(x) \/ RemoveLeg(x) \/ Sweep(x) \/ DropPeerCaches(x) \/ (At(x, "end") /\ End(x))

Session(u) == Ensuring(u) \/ Activating(u) \/ Offering(u) \/ Forwarding(u) \/ Closing(u) \/ Done(u)
Client(u) == Join(u) \/ Offer(u) \/ Leave(u)

Next ==
  \/ \E u \in Users : Client(u) \/ Session(u)
  \/ \E s \in Tracks : OnTrack(s) \/ Publishing(s) \/ Forwarding(s) \/ PumpEnds(s)
  \/ \E p \in Peers : Negotiating(p) \/ IceFails(p) \/ Closing(p)
  \/ End(Server) \/ Closing(Server)

Spec == Init /\ [][Next]_vars

\* A goroutine that can go on does.
FairSpec ==
  /\ Spec
  /\ \A u \in Users : WF_vars(Session(u))
  /\ \A s \in Tracks : WF_vars(Publishing(s) \/ Forwarding(s))
  /\ \A p \in Peers : WF_vars(Negotiating(p)) /\ WF_vars(Closing(p))
  /\ WF_vars(Closing(Server))
-----------------------------------------------------------------------------
(* Properties                                                              *)

\* No goroutine is inside an operation.
Quiet == \A x \in Procs : pc[x] \in {"idle", "pump", "over"}

\* ensurePeer looks twice (hub.go 552 and 574), and Leave and End close what
\* they take out.  When all is quiet and the call goes on, every open peer is
\* the one the room has for a participant: two goroutines that make a peer for
\* one user at the same time, or for a user who is leaving, lose none.
NoLostPeer ==
  Quiet /\ ~closed =>
    \A p \in Peers : p[2] <= made[Owner(p)] /\ p \notin dead =>
      Owner(p) \in present /\ peerOf[Owner(p)] = p

\* A track published and a peer made at the same time find each other: onTrack
\* lists the track and then looks for peers, Activate stores the peer and then
\* looks for tracks (sfu.go 275-293, hub.go 492-522).  When all is quiet, every
\* participant with an open peer has exactly one leg of every track.  It is
\* stated of first peers and first tracks, and of calls in which every session
\* that joined ran Activate to its end: PeerFor attaches nothing (hub.go 539).
EveryoneHears ==
  Quiet /\ ~closed /\ ~skipped =>
    \A s \in Tracks : At(s, "pump") /\ s[1] \notin dead /\ s[2] = 1 /\ made[Publisher(s)] = 1 =>
      \A v \in present \ {Publisher(s)} :
        made[v] = 1 /\ peerOf[v] # None /\ peerOf[v] \notin dead =>
          Cardinality({leg \in routes : leg[1] = peerOf[v] /\ Key(leg) = Publisher(s)}) = 1

\* Nothing is forwarded or published over a closed peer, however close and
\* addForwarded or onTrack race (sfu.go 283, 329, 407).
ClosedPeersAreSilent ==
  \A p \in Peers \intersect dead : forwarded[p] = {} /\ published[p] = None

\* The comment on handleOffer (sfu.go 165): "handleOffer consumes a client offer
\* and answers it".  An offer that has reached an open peer is answered.
OffersAreAnswered == \A u \in Users : At(u, "offer") ~> At(u, "idle")
=============================================================================
