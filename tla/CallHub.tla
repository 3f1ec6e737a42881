------------------------------ MODULE CallHub ------------------------------
(***************************************************************************)
(* The hub of live calls (internal/calls/hub.go) as its callers run it:    *)
(* one goroutine per signaling connection, each serving one frame at a     *)
(* time, and the shutdown path.  A step is one critical section of the     *)
(* hub lock or of a room lock, one answer of the chat service, one         *)
(* statement of the call store or one notification: goroutines interleave  *)
(* between those, never inside.                                            *)
(*                                                                         *)
(* The media side of a room (server peers, routes) and the frames sent to  *)
(* the clients are left to other modules; who is in which call, what is    *)
(* stored about it and what the chat is told is all here.                  *)
(***************************************************************************)
EXTENDS Integers, FiniteSets

CONSTANTS
  Users,            \* the users of the service
  Conns,            \* signaling connections, each used for one life
  UserOf,           \* the user a connection is authenticated as
  Chats,            \* chats
  Rooms,            \* room ids newRoom may draw; bounds the calls of a run
  Kinds,            \* the call kinds clients ask for
  Roles,            \* the roles they ask for
  Streamers,        \* the users a chat lets publish a live stream
  MeshLimit,        \* Config.MeshLimit
  MaxParticipants,  \* Config.MaxParticipants
  Events,           \* what clients and the environment may also do
  Server,           \* the goroutine that runs the shutdown path
  None              \* no room, no chat, no connection

EventNames == {"decline", "membership", "storeFails", "delete", "shutdown"}
KindNames == {"p2p", "group", "broadcast"}
RoleNames == {"publisher", "subscriber"}
Procs == Conns \union {Server}

ASSUME ConstantsAssumption ==
  /\ UserOf \in [Conns -> Users]
  /\ Kinds \subseteq KindNames /\ Kinds # {}
  /\ Roles \subseteq RoleNames /\ Roles # {}
  /\ Streamers \subseteq Users
  /\ IsFiniteSet(Users)
  /\ MeshLimit \in Nat \ {0}
  /\ MaxParticipants \in Nat \ {0}
  /\ Events \subseteq EventNames
  /\ Chats # {}
  /\ None \notin Rooms \union Chats \union Conns
  /\ Server \notin Conns

VARIABLES
  members,      \* members[ch]: the chat service's answer to IsMember
  rooms,        \* Hub.rooms: the ids registered
  byChat,       \* Hub.byChat: the id registered for a chat, or None
  status,       \* status[r]: whether room r exists yet, and Room.closed
  chatOf,       \* chatOf[r]: Room.ChatID
  kindOf,       \* kindOf[r]: Room.Kind
  topology,     \* topology[r]: Room.topology
  slot,         \* slot[r][u]: the sender of u's Participant in r, or None
  publishers,   \* publishers[r]: the participants of r with the publisher role
  callRow,      \* callRow[r]: the row of r in call_sessions
  partRow,      \* partRow[r]: users with an open row in call_participants
  started,      \* started[r]: how often Notifier.CallStarted was called
  ended,        \* ended[r]: how often Notifier.CallEnded was called
  pc,           \* pc[p]: what goroutine p does next
  cur,          \* cur[c]: session.room
  req,          \* req[c]: the join request served
  target,       \* target[p]: the room the running operation works on
  mine,         \* connections whose running Join created its room
  victims,      \* victims[p]: participants End has yet to close out
  after,        \* after[c]: what Leave goes on with once the row is closed
  dying,        \* connections in session.cleanup
  queue         \* rooms CloseAll has yet to end

hubVars == <<rooms, byChat>>
fixedVars == <<chatOf, kindOf>>
roomVars == <<status, fixedVars, topology, slot, publishers>>
storeVars == <<callRow, partRow>>
noteVars == <<started, ended>>
sharedVars == <<members, hubVars, roomVars, storeVars, noteVars>>
opVars == <<req, target, mine, after>>
connVars == <<cur, victims, dying, queue>>
localVars == <<opVars, connVars>>
vars == <<sharedVars, pc, localVars>>

\* A join frame: the chat, the call id if the client knows one, and the
\* kind and the role asked for.  An empty kind means "group", and in a
\* broadcast room an empty role means "subscriber".
Requests == [chat : Chats, want : Rooms \union {None},
             kind : Kinds, role : Roles]
NoRequest == CHOOSE q \in Requests : q.want = None

Joining == {"checkMember", "resolve", "checkPublisher", "discard",
            "discardForget", "register", "createCall", "callStarted", "persist"}
Ending == {"end", "closeRows", "forget", "endCall", "callEnded"}
Labels == {"idle", "gone", "declineMember", "declineCount", "closeRow",
           "serving", "closeAll", "exited"} \union Joining \union Ending

TypeOK ==
  /\ members \in [Chats -> SUBSET Users]
  /\ rooms \subseteq Rooms
  /\ byChat \in [Chats -> Rooms \union {None}]
  /\ status \in [Rooms -> {"unused", "open", "closed"}]
  /\ chatOf \in [Rooms -> Chats \union {None}]
  /\ kindOf \in [Rooms -> KindNames]
  /\ topology \in [Rooms -> {"mesh", "sfu", "broadcast"}]
  /\ slot \in [Rooms -> [Users -> Conns \union {None}]]
  /\ publishers \in [Rooms -> SUBSET Users]
  /\ callRow \in [Rooms -> {"absent", "active", "ended"}]
  /\ partRow \in [Rooms -> SUBSET Users]
  /\ started \in [Rooms -> Nat]
  /\ ended \in [Rooms -> Nat]
  /\ pc \in [Procs -> Labels]
  /\ cur \in [Conns -> Rooms \union {None}]
  /\ req \in [Conns -> Requests]
  /\ target \in [Procs -> Rooms \union {None}]
  /\ mine \subseteq Conns
  /\ victims \in [Procs -> SUBSET Users]
  /\ after \in [Conns -> {"return", "end", "forget"}]
  /\ dying \subseteq Conns
  /\ queue \subseteq Rooms

Init ==
  /\ members \in [Chats -> {Users}]
  /\ rooms = {}
  /\ byChat = [ch \in Chats |-> None]
  /\ status = [r \in Rooms |-> "unused"]
  /\ chatOf = [r \in Rooms |-> None]
  /\ kindOf = [r \in Rooms |-> "group"]
  /\ topology = [r \in Rooms |-> "mesh"]
  /\ slot = [r \in Rooms |-> [u \in Users |-> None]]
  /\ publishers = [r \in Rooms |-> {}]
  /\ callRow = [r \in Rooms |-> "absent"]
  /\ partRow = [r \in Rooms |-> {}]
  /\ started = [r \in Rooms |-> 0]
  /\ ended = [r \in Rooms |-> 0]
  /\ pc = [p \in Procs |-> IF p = Server THEN "serving" ELSE "idle"]
  /\ cur = [c \in Conns |-> None]
  /\ req = [c \in Conns |-> NoRequest]
  /\ target = [p \in Procs |-> None]
  /\ mine = {}
  /\ victims = [p \in Procs |-> {}]
  /\ after = [c \in Conns |-> "return"]
  /\ dying = {}
  /\ queue = {}
-----------------------------------------------------------------------------
Open(r) == status[r] = "open"
Closed(r) == status[r] = "closed"
Participants(r) == {u \in Users : slot[r][u] # None}
\* Mutant: the topology of a new room is named after its kind.
ModeIsKind(kind) == kind

Mode(kind) == IF kind = "broadcast" THEN "broadcast" ELSE "mesh"
Failing == "storeFails" \in Events

Goto(p, to) == pc' = [pc EXCEPT ![p] = to]

\* The operation of p returns: its locals die, and the goroutine waits for
\* the next frame, ends with its connection, or takes CloseAll's next room.
Return(p) ==
  /\ pc' = [pc EXCEPT ![p] = IF p = Server THEN "closeAll"
                             ELSE IF p \in dying THEN "gone" ELSE "idle"]
  /\ target' = [target EXCEPT ![p] = None]
  /\ mine' = mine \ {p}
  /\ req' = IF p \in Conns THEN [req EXCEPT ![p] = NoRequest] ELSE req
  /\ after' = IF p \in Conns THEN [after EXCEPT ![p] = "return"] ELSE after
-----------------------------------------------------------------------------
(* Joining a call: session.handleJoin and Hub.Join. *)

\* session.handleJoin turns a second join of a connection away.
JoinFrame(c) ==
  /\ pc[c] = "idle"
  /\ cur[c] = None
  /\ Goto(c, "checkMember")
  /\ \E q \in Requests :
       /\ q.want # None => status[q.want] # "unused"
       /\ req' = [req EXCEPT ![c] = q]
  /\ UNCHANGED <<sharedVars, target, mine, after, connVars>>

\* resolveRoom asks the chat service before it takes the hub lock.
CheckMember(c) ==
  /\ pc[c] = "checkMember"
  /\ \/ /\ UserOf[c] \in members[req[c].chat]
        /\ Goto(c, "resolve")
        /\ UNCHANGED opVars
     \/ /\ UserOf[c] \notin members[req[c].chat]
        /\ Return(c)
  /\ UNCHANGED <<sharedVars, connVars>>

Found(c, r) ==
  /\ Open(r) /\ r \in rooms
  /\ IF req[c].want # None THEN r = req[c].want /\ chatOf[r] = req[c].chat
                           ELSE r = byChat[req[c].chat]

\* The live call asked for, or the one of the chat.
ResolveFound(c) ==
  \E r \in Rooms :
    /\ pc[c] = "resolve"
    /\ Found(c, r)
    /\ Goto(c, "checkPublisher")
    /\ target' = [target EXCEPT ![c] = r]
    /\ UNCHANGED <<sharedVars, req, mine, after, connVars>>

\* No live call in the chat: newRoom makes one and registers it, empty.
ResolveCreate(c) ==
  /\ pc[c] = "resolve"
  /\ req[c].want = None
  /\ ~ \E r \in Rooms : Found(c, r)
  /\ \E r \in Rooms :
       /\ status[r] = "unused"
       /\ Goto(c, "checkPublisher")
       /\ status' = [status EXCEPT ![r] = "open"]
       /\ chatOf' = [chatOf EXCEPT ![r] = req[c].chat]
       /\ kindOf' = [kindOf EXCEPT ![r] = req[c].kind]
       /\ topology' = [topology EXCEPT ![r] = Mode(req[c].kind)]
       /\ rooms' = rooms \union {r}
       /\ byChat' = [byChat EXCEPT ![req[c].chat] = r]
       /\ target' = [target EXCEPT ![c] = r]
       /\ mine' = mine \union {c}
  /\ UNCHANGED <<members, slot, publishers, storeVars, noteVars, req, after, connVars>>

\* The call id is not that of a live call of the chat.  Also where a run has
\* used up Rooms: the request is dropped, as if it had never been sent.
ResolveFails(c) ==
  /\ pc[c] = "resolve"
  /\ ~ \E r \in Rooms : Found(c, r)
  /\ req[c].want = None => \A r \in Rooms : status[r] # "unused"
  /\ Return(c)
  /\ UNCHANGED <<sharedVars, connVars>>

\* Join asks whether the user may publish, if it matters; a room made for a
\* publisher who may not is thrown away.
CheckPublisher(c) ==
  LET r == target[c]
      asks == req[c].role = "publisher" /\ kindOf[r] = "broadcast"
  IN /\ pc[c] = "checkPublisher"
     /\ \/ /\ asks => UserOf[c] \in Streamers
           /\ Goto(c, "register")
           /\ UNCHANGED opVars
        \/ /\ asks /\ UserOf[c] \notin Streamers /\ c \in mine
           /\ Goto(c, "discard")
           /\ UNCHANGED opVars
        \/ /\ asks /\ UserOf[c] \notin Streamers /\ c \notin mine
           /\ Return(c)
     /\ UNCHANGED <<sharedVars, connVars>>

\* Mutant: a room whose publisher is rejected is kept.
DiscardKeeps(c) ==
  /\ pc[c] = "discard"
  /\ Return(c)
  /\ UNCHANGED <<sharedVars, connVars>>

\* discardRoom, under the room lock: nothing if somebody got in meanwhile.
Discard(c) ==
  LET r == target[c]
  IN /\ pc[c] = "discard"
     /\ \/ /\ Open(r) /\ Participants(r) = {}
           /\ Goto(c, "discardForget")
           /\ status' = [status EXCEPT ![r] = "closed"]
           /\ UNCHANGED opVars
        \/ /\ ~(Open(r) /\ Participants(r) = {})
           /\ Return(c)
           /\ UNCHANGED status
     /\ UNCHANGED <<members, hubVars, fixedVars, topology, slot, publishers, storeVars, noteVars, connVars>>

\* Mutant: the chat's entry goes whichever call it names by now.
UnregisterChat(r) ==
  /\ rooms' = rooms \ {r}
  /\ byChat' = [byChat EXCEPT ![chatOf[r]] = None]

Unregister(r) ==
  /\ rooms' = rooms \ {r}
  /\ byChat' = [ch \in Chats |-> IF ch = chatOf[r] /\ byChat[ch] = r
                                   THEN None ELSE byChat[ch]]

\* discardRoom, under the hub lock.
DiscardForget(c) ==
  /\ pc[c] = "discardForget"
  /\ Return(c)
  /\ Unregister(target[c])
  /\ UNCHANGED <<members, roomVars, storeVars, noteVars, connVars>>

RoleIn(r, c) == IF kindOf[r] = "broadcast" THEN req[c].role ELSE "publisher"

\* Mutants: a room closed since it was resolved is entered; a stream takes a
\* second publisher.
RefusedEvenIfClosed(r, c) ==
  /\ UserOf[c] \notin Participants(r)
  /\ Cardinality(Participants(r)) >= MaxParticipants
RefusedWhenFull(r, c) ==
  \/ ~Open(r)
  \/ UserOf[c] \notin Participants(r) /\ Cardinality(Participants(r)) >= MaxParticipants

\* Why the room turns a newcomer away.
Refused(r, c) ==
  \/ ~Open(r)
  \/ /\ UserOf[c] \notin Participants(r)
     /\ \/ Cardinality(Participants(r)) >= MaxParticipants
        \/ /\ kindOf[r] = "broadcast"
           /\ req[c].role = "publisher"
           /\ publishers[r] # {}

RegisterRefused(c) ==
  /\ pc[c] = "register"
  /\ Refused(target[c], c)
  /\ Return(c)
  /\ UNCHANGED <<sharedVars, connVars>>

\* Another connection of a participant takes the slot over.
Rebind(c) ==
  LET r == target[c]
  IN /\ pc[c] = "register"
     /\ ~Refused(r, c)
     /\ UserOf[c] \in Participants(r)
     /\ Goto(c, "persist")
     /\ slot' = [slot EXCEPT ![r][UserOf[c]] = c]
     /\ UNCHANGED <<members, hubVars, status, fixedVars, topology, publishers, storeVars,
                     noteVars, localVars>>

Enter(r, c) ==
  /\ slot' = [slot EXCEPT ![r][UserOf[c]] = c]
  /\ publishers' = IF RoleIn(r, c) = "publisher"
                     THEN [publishers EXCEPT ![r] = @ \union {UserOf[c]}]
                     ELSE publishers

\* Mutant: the mesh is left one participant late.
EscalationLate(r) ==
  topology' = IF topology[r] = "mesh" /\ Cardinality(Participants(r)) > MeshLimit
                THEN [topology EXCEPT ![r] = "sfu"] ELSE topology

\* One participant too many for a mesh moves the call to the SFU.
Escalation(r) ==
  topology' = IF topology[r] = "mesh" /\ Cardinality(Participants(r)) >= MeshLimit
                THEN [topology EXCEPT ![r] = "sfu"] ELSE topology

\* A newcomer gets a slot.
Register(c) ==
  LET r == target[c]
  IN /\ pc[c] = "register"
     /\ ~Refused(r, c)
     /\ UserOf[c] \notin Participants(r)
     /\ Goto(c, IF c \in mine THEN "createCall" ELSE "persist")
     /\ Enter(r, c)
     /\ Escalation(r)
     /\ UNCHANGED <<members, hubVars, status, fixedVars, storeVars, noteVars, localVars>>

\* The creator announces the call: the row first, then the ring.  Errors of
\* the store are dropped.
CreateCall(c) ==
  LET r == target[c]
  IN /\ pc[c] = "createCall"
     /\ Goto(c, "callStarted")
     /\ \/ /\ callRow' = [callRow EXCEPT ![r] = IF @ = "absent" THEN "active" ELSE @]
        \/ Failing /\ UNCHANGED callRow
     /\ UNCHANGED <<members, hubVars, roomVars, partRow, noteVars, localVars>>

CallStarted(c) ==
  /\ pc[c] = "callStarted"
  /\ Goto(c, "persist")
  /\ started' = [started EXCEPT ![target[c]] = @ + 1]
  /\ UNCHANGED <<members, hubVars, roomVars, storeVars, ended, localVars>>

\* AddParticipant: refused without a call row (foreign key), ignored if the
\* user has an open row.  Then the session remembers its room.
Persist(c) ==
  LET r == target[c]
  IN /\ pc[c] = "persist"
     /\ Return(c)
     /\ cur' = [cur EXCEPT ![c] = r]
     /\ \/ partRow' = IF callRow[r] = "absent" THEN partRow
                      ELSE [partRow EXCEPT ![r] = @ \union {UserOf[c]}]
        \/ Failing /\ UNCHANGED partRow
     /\ UNCHANGED <<members, hubVars, roomVars, callRow, noteVars, victims, dying, queue>>
-----------------------------------------------------------------------------
(* Leaving a call: session.handleLeave, session.cleanup and Hub.Leave. *)

\* Mutant: any connection of the user may give his slot back.
OwnsSlotByUser(c, r) == Open(r) /\ slot[r][UserOf[c]] # None

OwnsSlot(c, r) == Open(r) /\ slot[r][UserOf[c]] = c

\* A frame, or the end of the connection, makes the session forget its room.
QuitRoom(c, dies) ==
  /\ pc[c] = "idle"
  /\ cur[c] # None
  /\ cur' = [cur EXCEPT ![c] = None]
  /\ dying' = IF dies THEN dying \union {c} ELSE dying

\* Leave finds the room closed, or the slot gone to a newer connection.
LeaveNothing(c, dies) ==
  /\ QuitRoom(c, dies)
  /\ ~OwnsSlot(c, cur[c])
  /\ pc' = [pc EXCEPT ![c] = IF dies THEN "gone" ELSE "idle"]
  /\ UNCHANGED <<sharedVars, opVars, victims, queue>>

\* Leave takes the participant out; an empty room is closed, and a call
\* other than a stream that has one participant left is to be ended.
LeaveSlot(c, dies) ==
  LET r == cur[c]
      u == UserOf[c]
      left == Participants(r) \ {u}
  IN /\ QuitRoom(c, dies)
     /\ OwnsSlot(c, r)
     /\ pc' = [pc EXCEPT ![c] = "closeRow"]
     /\ target' = [target EXCEPT ![c] = r]
     /\ slot' = [slot EXCEPT ![r][u] = None]
     /\ publishers' = [publishers EXCEPT ![r] = @ \ {u}]
     /\ status' = IF left = {} THEN [status EXCEPT ![r] = "closed"] ELSE status
     /\ after' = [after EXCEPT ![c] =
                    IF left = {} THEN "forget"
                    ELSE IF Cardinality(left) = 1 /\ kindOf[r] # "broadcast"
                           THEN "end" ELSE "return"]
     /\ UNCHANGED <<members, hubVars, fixedVars, topology, storeVars, noteVars, req, mine,
                     victims, queue>>

Leave(c) == \E dies \in BOOLEAN : LeaveNothing(c, dies) \/ LeaveSlot(c, dies)

\* Mutant: cleanup closes the connection and leaves no call.
DisconnectOnly(c) ==
  /\ pc[c] = "idle"
  /\ Goto(c, "gone")
  /\ UNCHANGED <<sharedVars, localVars>>

\* session.cleanup of a connection that is in no call.
Disconnect(c) ==
  /\ pc[c] = "idle"
  /\ cur[c] = None
  /\ Goto(c, "gone")
  /\ UNCHANGED <<sharedVars, localVars>>

DropRow(r, u) ==
  \/ partRow' = [partRow EXCEPT ![r] = @ \ {u}]
  \/ Failing /\ UNCHANGED partRow

\* persistClose of the leaver.
CloseRow(c) ==
  LET r == target[c]
  IN /\ pc[c] = "closeRow"
     /\ DropRow(r, UserOf[c])
     /\ \/ /\ after[c] = "return"
           /\ Return(c)
        \/ /\ after[c] # "return"
           /\ Goto(c, after[c])
           /\ UNCHANGED opVars
     /\ UNCHANGED <<members, hubVars, roomVars, callRow, noteVars, connVars>>
-----------------------------------------------------------------------------
(* Declining a ringing call: session.handleDecline and Hub.Decline. *)

DeclineFrame(c) ==
  /\ "decline" \in Events
  /\ pc[c] = "idle"
  /\ cur[c] = None
  /\ Goto(c, "declineMember")
  /\ \E r \in rooms : Open(r) /\ target' = [target EXCEPT ![c] = r]
  /\ UNCHANGED <<sharedVars, req, mine, after, connVars>>

\* Only a member may decline, and a stream rejects nobody.
DeclineMember(c) ==
  LET r == target[c]
      goesOn == UserOf[c] \in members[chatOf[r]] /\ kindOf[r] # "broadcast"
  IN /\ pc[c] = "declineMember"
     /\ \/ /\ goesOn
           /\ Goto(c, "declineCount")
           /\ UNCHANGED opVars
        \/ /\ ~goesOn
           /\ Return(c)
     /\ UNCHANGED <<sharedVars, connVars>>

\* A call with one participant, somebody else, is ended.
DeclineCount(c) ==
  LET r == target[c]
      waiting == UserOf[c] \notin Participants(r) /\ Cardinality(Participants(r)) = 1
  IN /\ pc[c] = "declineCount"
     /\ \/ /\ waiting
           /\ Goto(c, "end")
           /\ UNCHANGED opVars
        \/ /\ ~waiting
           /\ Return(c)
     /\ UNCHANGED <<sharedVars, connVars>>
-----------------------------------------------------------------------------
(* Ending a call: Hub.End and Hub.forget, by whichever goroutine. *)

\* Mutant: End does not look whether the room is closed already.
EndAgain(p) ==
  LET r == target[p]
  IN /\ pc[p] = "end"
     /\ Goto(p, IF Participants(r) = {} THEN "forget" ELSE "closeRows")
     /\ status' = [status EXCEPT ![r] = "closed"]
     /\ victims' = [victims EXCEPT ![p] = Participants(r)]
     /\ slot' = [slot EXCEPT ![r] = [u \in Users |-> None]]
     /\ publishers' = [publishers EXCEPT ![r] = {}]
     /\ UNCHANGED <<members, hubVars, fixedVars, topology, storeVars, noteVars, opVars,
                     cur, dying, queue>>

End(p) ==
  LET r == target[p]
  IN /\ pc[p] = "end"
     /\ \/ /\ Open(r)
           /\ Goto(p, IF Participants(r) = {} THEN "forget" ELSE "closeRows")
           /\ status' = [status EXCEPT ![r] = "closed"]
           /\ victims' = [victims EXCEPT ![p] = Participants(r)]
           /\ slot' = [slot EXCEPT ![r] = [u \in Users |-> None]]
           /\ publishers' = [publishers EXCEPT ![r] = {}]
           /\ UNCHANGED opVars
        \/ /\ ~Open(r)
           /\ Return(p)
           /\ UNCHANGED <<status, slot, publishers, victims>>
     /\ UNCHANGED <<members, hubVars, fixedVars, topology, storeVars, noteVars, cur,
                     dying, queue>>

\* persistClose of everybody End put out, one after the other.
CloseRows(p) ==
  \E u \in victims[p] :
    /\ pc[p] = "closeRows"
    /\ Goto(p, IF victims[p] = {u} THEN "forget" ELSE "closeRows")
    /\ victims' = [victims EXCEPT ![p] = @ \ {u}]
    /\ DropRow(target[p], u)
    /\ UNCHANGED <<members, hubVars, roomVars, callRow, noteVars, opVars, cur, dying, queue>>

Forget(p) ==
  /\ pc[p] = "forget"
  /\ Goto(p, "endCall")
  /\ Unregister(target[p])
  /\ UNCHANGED <<members, roomVars, storeVars, noteVars, localVars>>

\* Mutant: when the row cannot be stamped, forget gives up.
EndCallGivesUp(p) ==
  LET r == target[p]
  IN /\ pc[p] = "endCall"
     /\ \/ /\ Goto(p, "callEnded")
           /\ callRow' = [callRow EXCEPT ![r] = IF @ = "active" THEN "ended" ELSE @]
           /\ partRow' = [partRow EXCEPT ![r] = {}]
           /\ UNCHANGED opVars
        \/ Failing /\ Return(p) /\ UNCHANGED storeVars
     /\ UNCHANGED <<members, hubVars, roomVars, noteVars, connVars>>

\* EndCall stamps the row if there is an active one, then closes the rows of
\* participants that are still open; either statement may fail, and a failed
\* first is the last.
EndCall(p) ==
  LET r == target[p]
  IN /\ pc[p] = "endCall"
     /\ Goto(p, "callEnded")
     /\ \/ /\ callRow' = [callRow EXCEPT ![r] = IF @ = "active" THEN "ended" ELSE @]
           /\ \/ partRow' = [partRow EXCEPT ![r] = {}]
              \/ Failing /\ UNCHANGED partRow
        \/ Failing /\ UNCHANGED storeVars
     /\ UNCHANGED <<members, hubVars, roomVars, noteVars, localVars>>

CallEnded(p) ==
  /\ pc[p] = "callEnded"
  /\ Return(p)
  /\ ended' = [ended EXCEPT ![target[p]] = @ + 1]
  /\ UNCHANGED <<members, hubVars, roomVars, storeVars, started, connVars>>
-----------------------------------------------------------------------------
(* Shutdown: CloseAll ends the rooms it finds registered, one by one, and  *)
(* the process exits, without CloseAll if the HTTP server does not stop in *)
(* time.  Signaling connections are hijacked from that server, so they go  *)
(* on being served until the exit.                                         *)

Shutdown ==
  /\ pc[Server] = "serving"
  /\ "shutdown" \in Events
  /\ Goto(Server, "closeAll")
  /\ queue' = rooms
  /\ UNCHANGED <<sharedVars, opVars, cur, victims, dying>>

CloseNext ==
  /\ pc[Server] = "closeAll"
  /\ \E r \in queue :
       /\ queue' = queue \ {r}
       /\ target' = [target EXCEPT ![Server] = r]
  /\ Goto(Server, "end")
  /\ UNCHANGED <<sharedVars, req, mine, after, cur, victims, dying>>

Exit ==
  /\ \/ pc[Server] = "closeAll" /\ queue = {}
     \/ pc[Server] = "serving" /\ "shutdown" \in Events
  /\ Goto(Server, "exited")
  /\ UNCHANGED <<sharedVars, localVars>>
-----------------------------------------------------------------------------
(* The environment: the chat's members change, and a member deletes a call *)
(* from the chat's history (Service.DeleteChatCall).                       *)

ChangeMembers(ch, u) ==
  /\ "membership" \in Events
  /\ members' = [members EXCEPT ![ch] = IF u \in @ THEN @ \ {u} ELSE @ \union {u}]
  /\ UNCHANGED <<hubVars, roomVars, storeVars, noteVars, pc, localVars>>

DeleteChatCall(u, r) ==
  /\ "delete" \in Events
  /\ callRow[r] # "absent"
  /\ u \in members[chatOf[r]]
  /\ callRow' = [callRow EXCEPT ![r] = "absent"]
  /\ partRow' = [partRow EXCEPT ![r] = {}]
  /\ UNCHANGED <<members, hubVars, roomVars, noteVars, pc, localVars>>
-----------------------------------------------------------------------------
Join(c) ==
  \/ JoinFrame(c) \/ CheckMember(c)
  \/ ResolveFound(c) \/ ResolveCreate(c) \/ ResolveFails(c)
  \/ CheckPublisher(c) \/ Discard(c) \/ DiscardForget(c)
  \/ RegisterRefused(c) \/ Rebind(c) \/ Register(c)
  \/ CreateCall(c) \/ CallStarted(c) \/ Persist(c)

Decline(c) == DeclineFrame(c) \/ DeclineMember(c) \/ DeclineCount(c)

EndRoom(p) == End(p) \/ CloseRows(p) \/ Forget(p) \/ EndCall(p) \/ CallEnded(p)

Environment ==
  \/ \E ch \in Chats, u \in Users : ChangeMembers(ch, u)
  \/ \E u \in Users, r \in Rooms : DeleteChatCall(u, r)

Next ==
  /\ pc[Server] # "exited"
  /\ \/ \E c \in Conns : Join(c) \/ Leave(c) \/ Disconnect(c)
                          \/ CloseRow(c) \/ Decline(c)
     \/ \E p \in Procs : EndRoom(p)
     \/ Shutdown \/ CloseNext \/ Exit
     \/ Environment

Spec == Init /\ [][Next]_vars

\* A goroutine inside an operation runs on: locks are held briefly, and the
\* store and the chat service answer within their timeouts.  Nothing makes a
\* client send a frame, hang up or disconnect.
Progress(c) ==
  \/ CheckMember(c) \/ ResolveFound(c) \/ ResolveCreate(c) \/ ResolveFails(c)
  \/ CheckPublisher(c) \/ Discard(c) \/ DiscardForget(c)
  \/ RegisterRefused(c) \/ Rebind(c) \/ Register(c)
  \/ CreateCall(c) \/ CallStarted(c) \/ Persist(c)
  \/ CloseRow(c) \/ DeclineMember(c) \/ DeclineCount(c) \/ EndRoom(c)

FairSpec ==
  /\ Spec
  /\ \A c \in Conns : WF_vars(pc[Server] # "exited" /\ Progress(c))
  /\ WF_vars(EndRoom(Server))
-----------------------------------------------------------------------------
(* Properties. *)

\* A chat has one live call, and the hub finds it: every open room is the one
\* registered for its chat.  A late forget of an earlier call must not unhook
\* the call that replaced it (the guard in Hub.forget).
OneLiveCallPerChat ==
  \A r \in Rooms : Open(r) => r \in rooms /\ byChat[chatOf[r]] = r

\* The labels at which a goroutine works on its target, and those it reaches
\* only once the target is closed.
Closing == {"discardForget", "closeRows", "forget", "endCall", "callEnded"}
Working == (Joining \ {"checkMember", "resolve"}) \union Ending
             \union {"closeRow", "declineMember", "declineCount"}
PastClosing(p) ==
  \/ pc[p] \in Closing
  \/ p \in Conns /\ pc[p] = "closeRow" /\ after[p] = "forget"

\* OneLiveCallPerChat made inductive.  A goroutine works on a room that
\* exists; whoever is to take a call out of the registry, or to tell its end,
\* finds it closed however long he was held up, so what he takes out cannot
\* be the live call of the chat; and a room belongs to a chat from its birth.
RegistryInv ==
  /\ \A p \in Procs :
       /\ pc[p] \in Working => target[p] \in Rooms
       /\ PastClosing(p) => Closed(target[p])
  /\ \A r \in Rooms : status[r] # "unused" => chatOf[r] \in Chats
  /\ OneLiveCallPerChat

\* No empty room is left behind to shadow the next call of the chat: a room
\* that is open and empty is still in the hands of the Join that made it.
NoOrphanRoom ==
  \A r \in Rooms :
    Open(r) /\ Participants(r) = {} =>
      \E c \in mine : target[c] = r /\ pc[c] \in {"checkPublisher", "discard", "register"}

\* Every participant is backed by a connection of his that is alive and will
\* give the slot back: it has the room as its own, or is about to.
SlotsBacked ==
  \A r \in Rooms, u \in Users :
    LET c == slot[r][u]
    IN c # None =>
         /\ UserOf[c] = u
         /\ \/ cur[c] = r /\ pc[c] # "gone"
            \/ target[c] = r /\ pc[c] \in {"createCall", "callStarted", "persist"}

\* A live stream has at most one publisher, in the call, and one the chat
\* lets publish, whoever joins it by id, by chat, or anew.
StreamDiscipline ==
  \A r \in Rooms :
    kindOf[r] = "broadcast" =>
      /\ publishers[r] \subseteq Streamers \intersect Participants(r)
      /\ \A u, v \in publishers[r] : u = v

\* A mesh is never larger than MeshLimit, and no call than MaxParticipants.
WithinLimits ==
  \A r \in Rooms :
    /\ Cardinality(Participants(r)) <= MaxParticipants
    /\ topology[r] = "mesh" => Cardinality(Participants(r)) <= MeshLimit

\* A call recorded as ended, or whose end was told, is closed, empty and out
\* of the registry; and start and end are told at most once.
OverIsOver ==
  \A r \in Rooms :
    /\ callRow[r] = "ended" \/ ended[r] > 0 =>
         Closed(r) /\ Participants(r) = {} /\ r \notin rooms
    /\ started[r] <= 1 /\ ended[r] <= 1

\* While a call goes on, a participant goes only because the connection that
\* holds his slot quits: a stale connection of a user who reconnected cannot
\* take him out.
StaleConnectionHarmless ==
  [][\A r \in Rooms, u \in Users :
       Open(r)' /\ slot[r][u] # None /\ slot'[r][u] = None =>
         cur[slot[r][u]] = r /\ cur'[slot[r][u]] = None]_vars

\* Once a call that had somebody in it closes, whatever else goes on, the hub
\* drops it and its end is told, unless the process exits first.
EndIsCarriedOut ==
  \A r \in Rooms :
    (Participants(r) # {} /\ <>Closed(r)) ~>
      (pc[Server] = "exited" \/ (r \notin rooms /\ ended[r] = 1))

\* What comments of the code say of the calls subsystem and its own
\* interleavings refute: these three do not hold, and no run states them
\* (README, "What disagrees").

\* "the call was never announced, so EndCall / call.ended would be phantom
\* events" (Hub.discardRoom): the end of a call is told only if its start was.
NoPhantomEnd == \A r \in Rooms : ended[r] > 0 => started[r] > 0

\* "the call is over for them too, so their participant rows must not stay
\* open" (Hub.End): when nothing is running and no statement failed, a closed
\* call has no active row and no open participant rows.
ClosedCallsAreRecorded ==
  (\A c \in Conns : pc[c] \in {"idle", "gone"}) =>
    \A r \in Rooms : Closed(r) => callRow[r] # "active" /\ partRow[r] = {}

\* "Once more than one participant is in the room the call is already live and
\* the decline is a no-op" (Hub.Decline): no decline ends such a call.
DeclineSparesLiveCalls ==
  [][\A c \in Conns :
       pc[c] = "end" /\ after[c] = "return" /\ Cardinality(Participants(target[c])) > 1
         => status'[target[c]] = status[target[c]] \/ pc'[c] = "end"]_vars

\* The hub keeps the promise of CallLifecycle: a room is a call, its
\* participants are the crew, and the notifier's end is the telling.
Lifecycle == INSTANCE CallLifecycle WITH
  phase <- status,
  place <- chatOf,
  crew  <- [r \in Rooms |-> Participants(r)],
  told  <- {r \in Rooms : ended[r] > 0}

ImplementsLifecycle == Lifecycle!Spec
=============================================================================
