--------------------------- MODULE CallHubProofs ---------------------------
(***************************************************************************)
(* Proofs about CallHub, for any users, connections, chats and calls: its  *)
(* types, the registry of live calls (RegistryInv), who is in a call       *)
(* (SeatsInv), what a call may hold (RoomsInv), what the chat is told of   *)
(* it (TellingInv), and from these that the hub implements CallLifecycle.  *)
(***************************************************************************)
EXTENDS CallHub, FiniteSetTheorems, TLAPS

\* The default request is one: chats, kinds and roles are not empty.
LEMMA NoRequestType == NoRequest \in Requests
<1>1. \E q \in Requests : q.want = None
  <2>1. PICK ch \in Chats, k \in Kinds, l \in Roles : TRUE
    BY ConstantsAssumption
  <2> DEFINE q == [chat |-> ch, want |-> None, kind |-> k, role |-> l]
  <2>2. q \in Requests /\ q.want = None
    BY <2>1 DEF Requests
  <2>3. QED  BY <2>2
<1>2. QED  BY <1>1 DEF NoRequest

\* What a returning operation leaves of the typed state.
LEMMA ReturnType ==
  ASSUME TypeOK, NEW p \in Procs, Return(p)
  PROVE  /\ pc' \in [Procs -> Labels]
         /\ target' \in [Procs -> Rooms \union {None}]
         /\ mine' \subseteq Conns
         /\ req' \in [Conns -> Requests]
         /\ after' \in [Conns -> {"return", "end", "forget"}]
BY NoRequestType DEF TypeOK, Return, Labels

LEMMA InitType == Init => TypeOK
<1> SUFFICES ASSUME Init PROVE TypeOK
  OBVIOUS
<1> USE ConstantsAssumption, NoRequestType DEF Init
<1>1. kindOf \in [Rooms -> KindNames]
  BY DEF KindNames
<1>2. members \in [Chats -> SUBSET Users]
  OBVIOUS
<1>3. pc \in [Procs -> Labels]
  BY DEF Labels
<1>4. QED  BY <1>1, <1>2, <1>3 DEF TypeOK

\* What a step of the control leaves of it.
LEMMA GotoType ==
  ASSUME TypeOK, NEW p \in Procs, NEW to \in Labels, Goto(p, to)
  PROVE  pc' \in [Procs -> Labels]
BY DEF TypeOK, Goto

\* Counting a notification keeps the counters natural numbers.
LEMMA CountType ==
  ASSUME NEW f \in [Rooms -> Nat], NEW r
  PROVE  [f EXCEPT ![r] = @ + 1] \in [Rooms -> Nat]
<1>1. CASE r \in Rooms
  BY <1>1
<1>2. CASE r \notin Rooms
  <2>1. [f EXCEPT ![r] = @ + 1] = f
    BY <1>2
  <2>2. QED  BY <2>1
<1>3. QED  BY <1>1, <1>2

\* Adding one user keeps sets of users.
LEMMA AddUserType ==
  ASSUME NEW f \in [Rooms -> SUBSET Users], NEW r, NEW u \in Users
  PROVE  [f EXCEPT ![r] = @ \union {u}] \in [Rooms -> SUBSET Users]
OBVIOUS

\* Replacing the state of one row keeps the states of the rows.
LEMMA CallRowType ==
  ASSUME TypeOK, NEW r, NEW from, NEW to \in {"absent", "active", "ended"}
  PROVE  [callRow EXCEPT ![r] = IF @ = from THEN to ELSE @]
           \in [Rooms -> {"absent", "active", "ended"}]
<1> DEFINE f == [callRow EXCEPT ![r] = IF @ = from THEN to ELSE @]
<1>1. ASSUME NEW x \in Rooms PROVE f[x] \in {"absent", "active", "ended"}
  BY DEF TypeOK
<1>2. f = [x \in Rooms |-> f[x]]
  BY DEF TypeOK
<1>3. QED  BY <1>1, <1>2

\* Taking rows away, or dropping the statement, leaves sets of users.
LEMMA DropRowType ==
  ASSUME TypeOK, NEW r, NEW u, DropRow(r, u)
  PROVE  partRow' \in [Rooms -> SUBSET Users]
BY DEF TypeOK, DropRow

\* Taking a call out of the registry.
LEMMA UnregisterType ==
  ASSUME TypeOK, NEW r, Unregister(r)
  PROVE  rooms' \subseteq Rooms /\ byChat' \in [Chats -> Rooms \union {None}]
BY DEF TypeOK, Unregister

\* Every step of a join keeps the types.
LEMMA JoinType ==
  ASSUME TypeOK, NEW c \in Conns, Join(c)
  PROVE  TypeOK'
<1> USE DEF Labels, Joining, Ending, Procs, sharedVars, hubVars, roomVars, fixedVars,
            storeVars, noteVars, opVars, connVars, localVars
<1>1. CASE JoinFrame(c)
  <2>1. pc' \in [Procs -> Labels]
    BY <1>1, GotoType DEF JoinFrame
  <2>2. req' \in [Conns -> Requests]
    BY <1>1 DEF JoinFrame, TypeOK
  <2>3. QED  BY <1>1, <2>1, <2>2 DEF JoinFrame, TypeOK
<1>2. CASE CheckMember(c)
  <2>1. UNCHANGED <<sharedVars, connVars>>
    BY <1>2 DEF CheckMember
  <2>2. CASE Goto(c, "resolve") /\ UNCHANGED opVars
    BY <2>1, <2>2, GotoType DEF TypeOK
  <2>3. CASE Return(c)
    BY <2>1, <2>3, ReturnType DEF TypeOK
  <2>4. QED  BY <1>2, <2>2, <2>3 DEF CheckMember
<1>3. CASE ResolveFound(c)
  <2>1. pc' \in [Procs -> Labels]
    BY <1>3, GotoType DEF ResolveFound
  <2>2. target' \in [Procs -> Rooms \union {None}]
    BY <1>3 DEF ResolveFound, TypeOK
  <2>3. QED  BY <1>3, <2>1, <2>2 DEF ResolveFound, TypeOK
<1>4. CASE ResolveCreate(c)
  <2>1. pc' \in [Procs -> Labels]
    BY <1>4, GotoType DEF ResolveCreate
  <2>2. /\ req[c].chat \in Chats
        /\ req[c].kind \in KindNames
        /\ Mode(req[c].kind) \in {"mesh", "broadcast"}
    BY ConstantsAssumption DEF TypeOK, Requests, Mode
  <2>3. /\ target' \in [Procs -> Rooms \union {None}]
        /\ mine' \subseteq Conns
    BY <1>4 DEF ResolveCreate, TypeOK
  <2>4. /\ rooms' \subseteq Rooms
        /\ byChat' \in [Chats -> Rooms \union {None}]
    <3>1. PICK r \in Rooms : /\ rooms' = rooms \union {r}
                             /\ byChat' = [byChat EXCEPT ![req[c].chat] = r]
      BY <1>4 DEF ResolveCreate
    <3>2. QED  BY <3>1 DEF TypeOK
  <2>5. /\ status' \in [Rooms -> {"unused", "open", "closed"}]
        /\ chatOf' \in [Rooms -> Chats \union {None}]
    BY <1>4, <2>2 DEF ResolveCreate, TypeOK
  <2>6. /\ kindOf' \in [Rooms -> KindNames]
        /\ topology' \in [Rooms -> {"mesh", "sfu", "broadcast"}]
    BY <1>4, <2>2 DEF ResolveCreate, TypeOK
  <2>7. UNCHANGED <<members, slot, publishers, storeVars, noteVars, req, after, connVars>>
    BY <1>4 DEF ResolveCreate
  <2>8. QED  BY <2>1, <2>3, <2>4, <2>5, <2>6, <2>7 DEF TypeOK
<1>5. CASE ResolveFails(c)
  BY <1>5, ReturnType DEF ResolveFails, TypeOK
<1>6. CASE CheckPublisher(c)
  <2>1. UNCHANGED <<sharedVars, connVars>>
    BY <1>6 DEF CheckPublisher
  <2>2. CASE (Goto(c, "register") \/ Goto(c, "discard")) /\ UNCHANGED opVars
    BY <2>1, <2>2, GotoType DEF TypeOK
  <2>3. CASE Return(c)
    BY <2>1, <2>3, ReturnType DEF TypeOK
  <2>4. QED  BY <1>6, <2>2, <2>3 DEF CheckPublisher
<1>7. CASE Discard(c)
  <2>1. UNCHANGED <<members, hubVars, fixedVars, topology, slot, publishers, storeVars,
                    noteVars, connVars>>
    BY <1>7 DEF Discard
  <2>2. CASE /\ Goto(c, "discardForget")
             /\ status' = [status EXCEPT ![target[c]] = "closed"]
             /\ UNCHANGED opVars
    BY <2>1, <2>2, GotoType DEF TypeOK
  <2>3. CASE Return(c) /\ UNCHANGED status
    BY <2>1, <2>3, ReturnType DEF TypeOK
  <2>4. QED  BY <1>7, <2>2, <2>3 DEF Discard
<1>8. CASE DiscardForget(c)
  BY <1>8, ReturnType, UnregisterType DEF DiscardForget, TypeOK
<1>9. CASE RegisterRefused(c)
  BY <1>9, ReturnType DEF RegisterRefused, TypeOK
<1>10. CASE Rebind(c)
  <2>1. pc' \in [Procs -> Labels]
    BY <1>10, GotoType DEF Rebind
  <2>2. slot' \in [Rooms -> [Users -> Conns \union {None}]]
    BY <1>10 DEF Rebind, TypeOK
  <2>3. QED  BY <1>10, <2>1, <2>2 DEF Rebind, TypeOK
<1>11. CASE Register(c)
  <2>1. pc' \in [Procs -> Labels]
    BY <1>11, GotoType DEF Register
  <2>2. slot' \in [Rooms -> [Users -> Conns \union {None}]]
    BY <1>11 DEF Register, Enter, TypeOK
  <2>3. publishers' \in [Rooms -> SUBSET Users]
    <3>1. publishers \in [Rooms -> SUBSET Users] /\ UserOf[c] \in Users
      BY ConstantsAssumption DEF TypeOK
    <3>2. \/ publishers' = publishers
          \/ publishers' = [publishers EXCEPT ![target[c]] = @ \union {UserOf[c]}]
      BY <1>11 DEF Register, Enter
    <3>3. QED  BY <3>1, <3>2, AddUserType
  <2>4. topology' \in [Rooms -> {"mesh", "sfu", "broadcast"}]
    BY <1>11 DEF Register, Escalation, TypeOK
  <2>5. UNCHANGED <<members, hubVars, status, fixedVars, storeVars, noteVars, localVars>>
    BY <1>11 DEF Register
  <2>6. QED  BY <2>1, <2>2, <2>3, <2>4, <2>5 DEF TypeOK
<1>12. CASE CreateCall(c)
  <2>1. pc' \in [Procs -> Labels]
    BY <1>12, GotoType DEF CreateCall
  <2>2. callRow' \in [Rooms -> {"absent", "active", "ended"}]
    <3>1. \/ callRow' = callRow
          \/ callRow' = [callRow EXCEPT ![target[c]] = IF @ = "absent" THEN "active" ELSE @]
      BY <1>12 DEF CreateCall, storeVars
    <3>2. [callRow EXCEPT ![target[c]] = IF @ = "absent" THEN "active" ELSE @]
            \in [Rooms -> {"absent", "active", "ended"}]
      BY CallRowType
    <3>3. QED  BY <3>1, <3>2 DEF TypeOK
  <2>3. QED  BY <1>12, <2>1, <2>2 DEF CreateCall, TypeOK
<1>13. CASE CallStarted(c)
  <2>1. pc' \in [Procs -> Labels]
    BY <1>13, GotoType DEF CallStarted
  <2>2. started' \in [Rooms -> Nat]
    BY <1>13, CountType DEF CallStarted, TypeOK
  <2>3. QED  BY <1>13, <2>1, <2>2 DEF CallStarted, TypeOK
<1>14. CASE Persist(c)
  <2>1. cur' \in [Conns -> Rooms \union {None}]
    BY <1>14 DEF Persist, TypeOK
  <2>2. partRow' \in [Rooms -> SUBSET Users]
    <3>1. partRow \in [Rooms -> SUBSET Users] /\ UserOf[c] \in Users
      BY ConstantsAssumption DEF TypeOK
    <3>2. \/ partRow' = partRow
          \/ partRow' = [partRow EXCEPT ![target[c]] = @ \union {UserOf[c]}]
      BY <1>14 DEF Persist
    <3>3. QED  BY <3>1, <3>2, AddUserType
  <2>3. /\ Return(c)
        /\ UNCHANGED <<members, hubVars, roomVars, callRow, noteVars, victims, dying, queue>>
    BY <1>14 DEF Persist
  <2>4. QED  BY <2>1, <2>2, <2>3, ReturnType DEF TypeOK
<1>15. QED
  BY <1>1, <1>2, <1>3, <1>4, <1>5, <1>6, <1>7, <1>8, <1>9, <1>10, <1>11, <1>12,
     <1>13, <1>14 DEF Join

\* Every step of a connection that leaves, hangs up or declines keeps them.
LEMMA LeaveType ==
  ASSUME TypeOK, NEW c \in Conns, Leave(c) \/ Disconnect(c) \/ CloseRow(c) \/ Decline(c)
  PROVE  TypeOK'
<1> USE DEF Labels, Joining, Ending, Procs, sharedVars, hubVars, roomVars, fixedVars,
            storeVars, noteVars, opVars, connVars, localVars
<1>1. ASSUME NEW dies \in BOOLEAN, QuitRoom(c, dies)
      PROVE  cur' \in [Conns -> Rooms \union {None}] /\ dying' \subseteq Conns
  BY <1>1 DEF QuitRoom, TypeOK
<1>2. ASSUME NEW dies \in BOOLEAN, LeaveNothing(c, dies) PROVE TypeOK'
  <2>1. pc' \in [Procs -> Labels]
    BY <1>2 DEF LeaveNothing, TypeOK
  <2>2. QED  BY <1>1, <1>2, <2>1 DEF LeaveNothing, TypeOK
<1>3. ASSUME NEW dies \in BOOLEAN, LeaveSlot(c, dies) PROVE TypeOK'
  <2>1. pc' \in [Procs -> Labels]
    BY <1>3 DEF LeaveSlot, TypeOK
  <2>2. target' \in [Procs -> Rooms \union {None}]
    BY <1>3 DEF LeaveSlot, TypeOK
  <2>3. slot' \in [Rooms -> [Users -> Conns \union {None}]]
    BY <1>3 DEF LeaveSlot, TypeOK
  <2>4. publishers' \in [Rooms -> SUBSET Users]
    BY <1>3 DEF LeaveSlot, TypeOK
  <2>5. status' \in [Rooms -> {"unused", "open", "closed"}]
    BY <1>3 DEF LeaveSlot, TypeOK
  <2>6. after' \in [Conns -> {"return", "end", "forget"}]
    BY <1>3 DEF LeaveSlot, TypeOK
  <2>7. /\ QuitRoom(c, dies)
        /\ UNCHANGED <<members, hubVars, fixedVars, topology, storeVars, noteVars, req,
                       mine, victims, queue>>
    BY <1>3 DEF LeaveSlot
  <2>8. QED  BY <1>1, <2>1, <2>2, <2>3, <2>4, <2>5, <2>6, <2>7 DEF TypeOK
<1>4. CASE Disconnect(c)
  BY <1>4, GotoType DEF Disconnect, TypeOK
<1>5. CASE CloseRow(c)
  <2>1. partRow' \in [Rooms -> SUBSET Users]
    BY <1>5, DropRowType DEF CloseRow
  <2>2. UNCHANGED <<members, hubVars, roomVars, callRow, noteVars, connVars>>
    BY <1>5 DEF CloseRow
  <2>3. CASE Return(c)
    BY <2>1, <2>2, <2>3, ReturnType DEF TypeOK
  <2>4. CASE Goto(c, after[c]) /\ after[c] # "return" /\ UNCHANGED opVars
    <3>1. after[c] \in Labels
      BY <2>4 DEF TypeOK
    <3>2. QED  BY <2>1, <2>2, <2>4, <3>1, GotoType DEF TypeOK
  <2>5. QED  BY <1>5, <2>3, <2>4 DEF CloseRow
<1>6. CASE DeclineFrame(c)
  <2>1. pc' \in [Procs -> Labels]
    BY <1>6, GotoType DEF DeclineFrame
  <2>2. target' \in [Procs -> Rooms \union {None}]
    BY <1>6 DEF DeclineFrame, TypeOK
  <2>3. QED  BY <1>6, <2>1, <2>2 DEF DeclineFrame, TypeOK
<1>7. CASE DeclineMember(c)
  <2>1. UNCHANGED <<sharedVars, connVars>>
    BY <1>7 DEF DeclineMember
  <2>2. CASE Goto(c, "declineCount") /\ UNCHANGED opVars
    BY <2>1, <2>2, GotoType DEF TypeOK
  <2>3. CASE Return(c)
    BY <2>1, <2>3, ReturnType DEF TypeOK
  <2>4. QED  BY <1>7, <2>2, <2>3 DEF DeclineMember
<1>8. CASE DeclineCount(c)
  <2>1. UNCHANGED <<sharedVars, connVars>>
    BY <1>8 DEF DeclineCount
  <2>2. CASE Goto(c, "end") /\ UNCHANGED opVars
    BY <2>1, <2>2, GotoType DEF TypeOK
  <2>3. CASE Return(c)
    BY <2>1, <2>3, ReturnType DEF TypeOK
  <2>4. QED  BY <1>8, <2>2, <2>3 DEF DeclineCount
<1>9. QED
  BY <1>2, <1>3, <1>4, <1>5, <1>6, <1>7, <1>8 DEF Leave, Decline

\* Every step of the end of a call keeps them.
LEMMA EndType ==
  ASSUME TypeOK, NEW p \in Procs, EndRoom(p)
  PROVE  TypeOK'
<1> USE DEF Labels, Joining, Ending, sharedVars, hubVars, roomVars, fixedVars,
            storeVars, noteVars, opVars, connVars, localVars
<1>1. CASE End(p)
  <2>1. UNCHANGED <<members, hubVars, fixedVars, topology, storeVars, noteVars, cur,
                    dying, queue>>
    BY <1>1 DEF End
  <2>2. CASE Open(target[p])
    <3>1. pc' \in [Procs -> Labels]
      BY <1>1, <2>2, GotoType DEF End
    <3>2. status' \in [Rooms -> {"unused", "open", "closed"}]
      BY <1>1, <2>2 DEF End, TypeOK
    <3>3. victims' \in [Procs -> SUBSET Users]
      <4>1. victims' = [victims EXCEPT ![p] = Participants(target[p])]
        BY <1>1, <2>2 DEF End
      <4>2. Participants(target[p]) \subseteq Users
        BY DEF Participants
      <4>3. QED  BY <4>1, <4>2 DEF TypeOK
    <3>4. slot' \in [Rooms -> [Users -> Conns \union {None}]]
      <4>1. slot' = [slot EXCEPT ![target[p]] = [u \in Users |-> None]]
        BY <1>1, <2>2 DEF End
      <4>2. QED  BY <4>1 DEF TypeOK
    <3>5. publishers' \in [Rooms -> SUBSET Users]
      BY <1>1, <2>2 DEF End, TypeOK
    <3>6. UNCHANGED opVars
      BY <1>1, <2>2 DEF End
    <3>7. QED  BY <2>1, <3>1, <3>2, <3>3, <3>4, <3>5, <3>6 DEF TypeOK
  <2>3. CASE ~Open(target[p])
    <3>1. Return(p) /\ UNCHANGED <<status, slot, publishers, victims>>
      BY <1>1, <2>3 DEF End
    <3>2. QED  BY <2>1, <3>1, ReturnType DEF TypeOK
  <2>4. QED  BY <2>2, <2>3
<1>2. CASE CloseRows(p)
  <2>1. PICK u \in victims[p] :
          /\ Goto(p, IF victims[p] = {u} THEN "forget" ELSE "closeRows")
          /\ victims' = [victims EXCEPT ![p] = @ \ {u}]
          /\ DropRow(target[p], u)
          /\ UNCHANGED <<members, hubVars, roomVars, callRow, noteVars, opVars, cur,
                         dying, queue>>
    BY <1>2 DEF CloseRows
  <2>2. pc' \in [Procs -> Labels]
    BY <2>1, GotoType
  <2>3. victims' \in [Procs -> SUBSET Users]
    BY <2>1 DEF TypeOK
  <2>4. QED  BY <2>1, <2>2, <2>3, DropRowType DEF TypeOK
<1>3. CASE Forget(p)
  <2>1. pc' \in [Procs -> Labels]
    BY <1>3, GotoType DEF Forget
  <2>2. QED  BY <1>3, <2>1, UnregisterType DEF Forget, TypeOK
<1>4. CASE EndCall(p)
  <2>1. pc' \in [Procs -> Labels]
    BY <1>4, GotoType DEF EndCall
  <2>2. callRow' \in [Rooms -> {"absent", "active", "ended"}]
    <3>1. \/ callRow' = callRow
          \/ callRow' = [callRow EXCEPT ![target[p]] = IF @ = "active" THEN "ended" ELSE @]
      BY <1>4 DEF EndCall, storeVars
    <3>2. QED  BY <3>1, CallRowType DEF TypeOK
  <2>3. partRow' \in [Rooms -> SUBSET Users]
    BY <1>4 DEF EndCall, TypeOK
  <2>4. UNCHANGED <<members, hubVars, roomVars, noteVars, localVars>>
    BY <1>4 DEF EndCall
  <2>5. QED  BY <2>1, <2>2, <2>3, <2>4 DEF TypeOK
<1>5. CASE CallEnded(p)
  <2>1. ended' \in [Rooms -> Nat]
    BY <1>5, CountType DEF CallEnded, TypeOK
  <2>2. /\ Return(p)
        /\ UNCHANGED <<members, hubVars, roomVars, storeVars, started, connVars>>
    BY <1>5 DEF CallEnded
  <2>3. QED  BY <2>1, <2>2, ReturnType DEF TypeOK
<1>6. QED  BY <1>1, <1>2, <1>3, <1>4, <1>5 DEF EndRoom

\* Every step of the shutdown path and of the environment keeps them.
LEMMA OutsideType ==
  ASSUME TypeOK, Shutdown \/ CloseNext \/ Exit \/ Environment
  PROVE  TypeOK'
<1> USE DEF Labels, Procs, sharedVars, hubVars, roomVars, fixedVars,
            storeVars, noteVars, opVars, connVars, localVars
<1>1. CASE Shutdown
  <2>1. pc' \in [Procs -> Labels]
    BY <1>1, GotoType DEF Shutdown
  <2>2. QED  BY <1>1, <2>1 DEF Shutdown, TypeOK
<1>2. CASE CloseNext
  <2>1. pc' \in [Procs -> Labels]
    BY <1>2, GotoType DEF CloseNext, Ending
  <2>2. target' \in [Procs -> Rooms \union {None}] /\ queue' \subseteq Rooms
    BY <1>2 DEF CloseNext, TypeOK
  <2>3. QED  BY <1>2, <2>1, <2>2 DEF CloseNext, TypeOK
<1>3. CASE Exit
  BY <1>3, GotoType DEF Exit, TypeOK
<1>4. ASSUME NEW ch \in Chats, NEW u \in Users, ChangeMembers(ch, u) PROVE TypeOK'
  <2>1. members' \in [Chats -> SUBSET Users]
    BY <1>4 DEF ChangeMembers, TypeOK
  <2>2. QED  BY <1>4, <2>1 DEF ChangeMembers, TypeOK
<1>5. ASSUME NEW u \in Users, NEW r \in Rooms, DeleteChatCall(u, r) PROVE TypeOK'
  <2>1. /\ callRow' \in [Rooms -> {"absent", "active", "ended"}]
        /\ partRow' \in [Rooms -> SUBSET Users]
    BY <1>5 DEF DeleteChatCall, TypeOK
  <2>2. QED  BY <1>5, <2>1 DEF DeleteChatCall, TypeOK
<1>6. QED  BY <1>1, <1>2, <1>3, <1>4, <1>5 DEF Environment

\* Every step keeps the types.
LEMMA NextType == TypeOK /\ [Next]_vars => TypeOK'
<1> SUFFICES ASSUME TypeOK, [Next]_vars PROVE TypeOK'
  OBVIOUS
<1>1. CASE UNCHANGED vars
  BY <1>1 DEF vars, sharedVars, hubVars, roomVars, fixedVars, storeVars, noteVars,
              localVars, opVars, connVars, TypeOK
<1>2. QED  BY <1>1, JoinType, LeaveType, EndType, OutsideType DEF Next

\* The hub's state always has its types (hub.go, session.go and the tables of
\* migration 28).
THEOREM TypeCorrect == Spec => []TypeOK
BY InitType, NextType, PTL DEF Spec
-----------------------------------------------------------------------------
(* The registry of live calls: a chat never has two.                       *)

\* The parts of RegistryInv.
TargetOf(p) ==
  /\ pc[p] \in Working => target[p] \in Rooms
  /\ PastClosing(p) => Closed(target[p])
Placed == \A r \in Rooms : status[r] # "unused" => chatOf[r] \in Chats

\* A step of goroutine p leaves the locals of the others alone.
OnlyMoves(p) ==
  \A q \in Procs \ {p} :
    /\ pc'[q] = pc[q] /\ target'[q] = target[q]
    /\ q \in Conns => after'[q] = after[q]

\* A step in which rooms are at most closed.
OnlyCloses ==
  /\ UNCHANGED <<rooms, byChat, chatOf>>
  /\ \A r \in Rooms : status'[r] = status[r] \/ (Open(r) /\ status'[r] = "closed")

LEMMA ReturnMoves ==
  ASSUME TypeOK, NEW p \in Procs, Return(p)
  PROVE  OnlyMoves(p) /\ pc'[p] \in {"closeAll", "gone", "idle"}
BY DEF TypeOK, Return, OnlyMoves

LEMMA GotoMoves ==
  ASSUME TypeOK, NEW p \in Procs, NEW to, Goto(p, to), UNCHANGED after,
         \A q \in Procs \ {p} : target'[q] = target[q]
  PROVE  OnlyMoves(p) /\ pc'[p] = to
BY DEF TypeOK, Goto, OnlyMoves

\* It is enough to look at the goroutine that moves, if closed stays closed.
LEMMA OthersKeepTargets ==
  ASSUME RegistryInv, NEW p \in Procs, OnlyMoves(p), TargetOf(p)',
         \A r \in Rooms : Closed(r) => Closed(r)'
  PROVE  \A q \in Procs : TargetOf(q)'
<1> SUFFICES ASSUME NEW q \in Procs, q # p PROVE TargetOf(q)'
  OBVIOUS
<1>1. pc'[q] = pc[q] /\ target'[q] = target[q] /\ (q \in Conns => after'[q] = after[q])
  BY DEF OnlyMoves
<1>2. TargetOf(q)
  BY DEF RegistryInv, TargetOf
<1>3. PastClosing(q)' = PastClosing(q)
  BY <1>1 DEF PastClosing
<1>4. PastClosing(q) => pc[q] \in Working
  BY DEF PastClosing, Closing, Working, Joining, Ending
<1>5. QED  BY <1>1, <1>2, <1>3, <1>4 DEF TargetOf

\* Closing rooms, and nothing else, keeps the registry right.
LEMMA ClosingKeepsRegistry ==
  ASSUME RegistryInv, OnlyCloses
  PROVE  Placed' /\ OneLiveCallPerChat'
<1>1. ASSUME NEW r \in Rooms, status'[r] # "unused" PROVE chatOf'[r] \in Chats
  <2>1. status[r] # "unused" /\ chatOf' = chatOf
    BY <1>1 DEF OnlyCloses, Open
  <2>2. QED  BY <2>1 DEF RegistryInv
<1>2. ASSUME NEW r \in Rooms, Open(r)' PROVE r \in rooms' /\ byChat'[chatOf'[r]] = r
  BY <1>2 DEF RegistryInv, OnlyCloses, OneLiveCallPerChat, Open
<1>3. QED  BY <1>1, <1>2 DEF Placed, OneLiveCallPerChat

\* So does taking out a closed room: no other chat entry is touched.
LEMMA UnregisteringKeepsRegistry ==
  ASSUME TypeOK, RegistryInv, NEW r, Closed(r), Unregister(r), UNCHANGED <<status, chatOf>>
  PROVE  Placed' /\ OneLiveCallPerChat'
<1>1. Placed'
  BY DEF RegistryInv, Placed
<1>2. ASSUME NEW x \in Rooms, Open(x)' PROVE x \in rooms' /\ byChat'[chatOf'[x]] = x
  <2>1. /\ Open(x) /\ x \in rooms /\ byChat[chatOf[x]] = x /\ x # r
        /\ chatOf[x] \in Chats
    BY <1>2 DEF RegistryInv, OneLiveCallPerChat, Open, Closed
  <2>2. QED  BY <2>1 DEF Unregister
<1>3. QED  BY <1>1, <1>2 DEF OneLiveCallPerChat

\* What a move needs when it touches no room at all.
LEMMA QuietMove ==
  ASSUME RegistryInv, NEW p \in Procs, OnlyMoves(p), TargetOf(p)',
         UNCHANGED <<status, chatOf, rooms, byChat>>
  PROVE  RegistryInv'
<1>1. /\ UNCHANGED <<rooms, byChat, chatOf>>
      /\ \A r \in Rooms : status'[r] = status[r]
  OBVIOUS
<1>2. OnlyCloses
  BY <1>1 DEF OnlyCloses
<1>3. \A r \in Rooms : Closed(r) => Closed(r)'
  BY <1>1 DEF Closed
<1>4. QED
  BY <1>2, <1>3, ClosingKeepsRegistry, OthersKeepTargets DEF RegistryInv, TargetOf, Placed

\* A returning operation has no target to be right about.
LEMMA ReturnTarget ==
  ASSUME TypeOK, NEW p \in Procs, Return(p)
  PROVE  TargetOf(p)'
BY ReturnMoves DEF TargetOf, PastClosing, Closing, Working, Joining, Ending

LEMMA QuietReturn ==
  ASSUME TypeOK, RegistryInv, NEW p \in Procs, Return(p),
         UNCHANGED <<status, chatOf, rooms, byChat>>
  PROVE  RegistryInv'
BY ReturnMoves, ReturnTarget, QuietMove

\* A goroutine that works on a room and goes on with it.
LEMMA QuietGoto ==
  ASSUME TypeOK, RegistryInv, NEW p \in Procs, NEW to, Goto(p, to),
         UNCHANGED <<status, chatOf, rooms, byChat, target, after>>,
         \/ to \notin Working
         \/ pc[p] \in Working /\ to \notin Closing \union {"closeRow"}
         \/ PastClosing(p) /\ to # "closeRow"
  PROVE  RegistryInv'
<1>1. OnlyMoves(p) /\ pc'[p] = to
  BY GotoMoves
<1>2. /\ pc[p] \in Working => target[p] \in Rooms
      /\ PastClosing(p) => Closed(target[p]) /\ pc[p] \in Working
  BY DEF RegistryInv, PastClosing, Closing, Working, Joining, Ending
<1>3. TargetOf(p)'
  <2>1. CASE to \notin Working
    BY <1>1, <2>1 DEF TargetOf, PastClosing, Closing, Working, Joining, Ending
  <2>2. CASE pc[p] \in Working /\ to \notin Closing \union {"closeRow"}
    BY <1>1, <1>2, <2>2 DEF TargetOf, PastClosing
  <2>3. CASE PastClosing(p) /\ to # "closeRow"
    BY <1>1, <1>2, <2>3 DEF TargetOf, Closed
  <2>4. QED  BY <2>1, <2>2, <2>3
<1>4. QED  BY <1>1, <1>3, QuietMove

\* A room the goroutine found open goes closed, and the goroutine goes on.
LEMMA ClosingMove ==
  ASSUME TypeOK, RegistryInv, NEW p \in Procs, OnlyMoves(p), OnlyCloses, TargetOf(p)'
  PROVE  RegistryInv'
<1>1. \A r \in Rooms : Closed(r) => Closed(r)'
  BY DEF OnlyCloses, Closed, Open
<1>2. QED
  BY <1>1, ClosingKeepsRegistry, OthersKeepTargets DEF RegistryInv, TargetOf, Placed

LEMMA ClosingOneRoom ==
  ASSUME TypeOK, NEW r, r \in Rooms, Open(r), status' = [status EXCEPT ![r] = "closed"],
         UNCHANGED <<rooms, byChat, chatOf>>
  PROVE  OnlyCloses /\ Closed(r)'
<1>1. status'[r] = "closed" /\ \A x \in Rooms \ {r} : status'[x] = status[x]
  BY DEF TypeOK
<1>2. \A x \in Rooms : status'[x] = status[x] \/ (Open(x) /\ status'[x] = "closed")
  BY <1>1
<1>3. QED  BY <1>1, <1>2 DEF OnlyCloses, Closed

\* A new room takes the place of none: the chat had no live call.
LEMMA CreatingKeepsRegistry ==
  ASSUME TypeOK, RegistryInv, NEW c \in Conns, ResolveCreate(c)
  PROVE  RegistryInv'
<1> DEFINE ch == req[c].chat
<1>1. PICK r \in Rooms :
        /\ status[r] = "unused"
        /\ Goto(c, "checkPublisher")
        /\ status' = [status EXCEPT ![r] = "open"]
        /\ chatOf' = [chatOf EXCEPT ![r] = ch]
        /\ rooms' = rooms \union {r}
        /\ byChat' = [byChat EXCEPT ![ch] = r]
        /\ target' = [target EXCEPT ![c] = r]
        /\ after' = after
  BY DEF ResolveCreate
<1>2. ch \in Chats
  BY DEF TypeOK, Requests
<1>3. \A x \in Rooms : Open(x) => chatOf[x] # ch
  <2> SUFFICES ASSUME NEW x \in Rooms, Open(x), chatOf[x] = ch PROVE FALSE
    OBVIOUS
  <2>1. x \in rooms /\ byChat[ch] = x
    BY DEF RegistryInv, OneLiveCallPerChat
  <2>2. Found(c, x)
    BY <2>1 DEF Found, ResolveCreate
  <2>3. QED  BY <2>2 DEF ResolveCreate
<1>4. OnlyMoves(c) /\ pc'[c] = "checkPublisher" /\ target'[c] = r
  BY <1>1, GotoMoves DEF TypeOK, Procs
<1>5. TargetOf(c)'
  BY <1>4 DEF TargetOf, PastClosing, Closing
<1>6. \A x \in Rooms : Closed(x) => Closed(x)'
  BY <1>1 DEF TypeOK, Closed
<1>7. Placed'
  BY <1>1, <1>2 DEF TypeOK, RegistryInv, Placed
<1>8. ASSUME NEW x \in Rooms, Open(x)' PROVE x \in rooms' /\ byChat'[chatOf'[x]] = x
  <2>1. CASE x = r
    BY <1>1, <1>2, <2>1 DEF TypeOK
  <2>2. CASE x # r
    <3>1. Open(x) /\ chatOf'[x] = chatOf[x]
      BY <1>1, <1>8, <2>2 DEF TypeOK, Open
    <3>2. x \in rooms /\ byChat[chatOf[x]] = x /\ chatOf[x] # ch
      BY <1>3, <3>1 DEF RegistryInv, OneLiveCallPerChat
    <3>3. chatOf[x] \in Chats
      BY <3>1 DEF RegistryInv, Open
    <3>4. QED  BY <1>1, <3>1, <3>2, <3>3 DEF TypeOK
  <2>3. QED  BY <2>1, <2>2
<1>9. QED
  BY <1>5, <1>4, <1>6, <1>7, <1>8, OthersKeepTargets
     DEF RegistryInv, TargetOf, Placed, OneLiveCallPerChat, Procs

\* The critical sections of a join keep the registry right.
LEMMA JoinRegistry ==
  ASSUME TypeOK, RegistryInv, NEW c \in Conns, Join(c)
  PROVE  RegistryInv'
<1> USE DEF Procs, sharedVars, hubVars, roomVars, fixedVars, opVars, localVars
<1> DEFINE Quiet == UNCHANGED <<status, chatOf, rooms, byChat>>
<1>1. CASE JoinFrame(c)
  BY <1>1, QuietGoto DEF JoinFrame, Working, Joining, Ending
<1>2. CASE CheckMember(c)
  <2>1. UNCHANGED <<sharedVars, connVars>>
    BY <1>2 DEF CheckMember
  <2>2. Return(c) \/ (Goto(c, "resolve") /\ UNCHANGED opVars)
    BY <1>2 DEF CheckMember
  <2>3. QED  BY <2>1, <2>2, QuietReturn, QuietGoto DEF Working, Joining, Ending
<1>3. CASE ResolveFound(c)
  <2>1. PICK r \in Rooms : /\ Goto(c, "checkPublisher")
                          /\ target' = [target EXCEPT ![c] = r]
                          /\ UNCHANGED after
    BY <1>3 DEF ResolveFound
  <2>2. OnlyMoves(c) /\ pc'[c] = "checkPublisher" /\ target'[c] = r
    BY <2>1, GotoMoves DEF TypeOK
  <2>3. TargetOf(c)'
    BY <2>2 DEF TargetOf, PastClosing, Closing
  <2>4. Quiet
    BY <1>3 DEF ResolveFound
  <2>5. QED  BY <2>2, <2>3, <2>4, QuietMove
<1>4. CASE ResolveCreate(c)
  BY <1>4, CreatingKeepsRegistry
<1>5. CASE ResolveFails(c)
  BY <1>5, QuietReturn DEF ResolveFails
<1>6. CASE CheckPublisher(c)
  <2>1. Quiet
    BY <1>6 DEF CheckPublisher
  <2>2. \/ Return(c)
        \/ Goto(c, "register") /\ UNCHANGED <<target, after>>
        \/ Goto(c, "discard") /\ UNCHANGED <<target, after>>
    BY <1>6 DEF CheckPublisher
  <2>3. pc[c] \in Working
    BY <1>6 DEF CheckPublisher, Working, Joining
  <2>4. QED  BY <2>1, <2>2, <2>3, QuietReturn, QuietGoto DEF Closing
<1>7. CASE Discard(c)
  <2>1. target[c] \in Rooms
    BY <1>7 DEF Discard, RegistryInv, Working, Joining
  <2>2. CASE Return(c) /\ UNCHANGED status
    BY <1>7, <2>2, QuietReturn DEF Discard
  <2>3. CASE /\ Open(target[c])
             /\ Goto(c, "discardForget")
             /\ status' = [status EXCEPT ![target[c]] = "closed"]
             /\ UNCHANGED opVars
    <3>1. OnlyMoves(c) /\ pc'[c] = "discardForget" /\ target' = target
      BY <2>3, GotoMoves
    <3>2. OnlyCloses /\ Closed(target[c])'
      BY <1>7, <2>1, <2>3, ClosingOneRoom DEF Discard
    <3>3. TargetOf(c)'
      BY <2>1, <3>1, <3>2 DEF TargetOf, Closed
    <3>4. QED  BY <3>1, <3>2, <3>3, ClosingMove
  <2>4. QED  BY <1>7, <2>2, <2>3 DEF Discard
<1>8. CASE DiscardForget(c)
  <2>1. Return(c) /\ Unregister(target[c]) /\ UNCHANGED <<status, chatOf>>
    BY <1>8 DEF DiscardForget
  <2>2. Closed(target[c])
    BY <1>8 DEF DiscardForget, RegistryInv, PastClosing, Closing
  <2>3. Placed' /\ OneLiveCallPerChat'
    BY <2>1, <2>2, UnregisteringKeepsRegistry
  <2>4. \A q \in Procs : TargetOf(q)'
    BY <2>1, ReturnMoves, ReturnTarget, OthersKeepTargets DEF Closed
  <2>5. QED  BY <2>3, <2>4 DEF RegistryInv, TargetOf, Placed
<1>9. CASE RegisterRefused(c)
  BY <1>9, QuietReturn DEF RegisterRefused
<1>10. CASE Rebind(c)
  <2>1. Quiet /\ Goto(c, "persist") /\ UNCHANGED <<target, after>> /\ pc[c] \in Working
    BY <1>10 DEF Rebind, Working, Joining
  <2>2. QED  BY <2>1, QuietGoto DEF Closing
<1>11. CASE Register(c)
  <2>1. /\ Quiet /\ UNCHANGED <<target, after>> /\ pc[c] \in Working
        /\ Goto(c, "createCall") \/ Goto(c, "persist")
    BY <1>11 DEF Register, Working, Joining
  <2>2. QED  BY <2>1, QuietGoto DEF Closing
<1>12. CASE CreateCall(c)
  <2>1. Quiet /\ Goto(c, "callStarted") /\ UNCHANGED <<target, after>> /\ pc[c] \in Working
    BY <1>12 DEF CreateCall, Working, Joining
  <2>2. QED  BY <2>1, QuietGoto DEF Closing
<1>13. CASE CallStarted(c)
  <2>1. Quiet /\ Goto(c, "persist") /\ UNCHANGED <<target, after>> /\ pc[c] \in Working
    BY <1>13 DEF CallStarted, Working, Joining
  <2>2. QED  BY <2>1, QuietGoto DEF Closing
<1>14. CASE Persist(c)
  BY <1>14, QuietReturn DEF Persist
<1>15. QED
  BY <1>1, <1>2, <1>3, <1>4, <1>5, <1>6, <1>7, <1>8, <1>9, <1>10, <1>11, <1>12,
     <1>13, <1>14 DEF Join

\* So do those of a connection that leaves, hangs up or declines.
LEMMA LeaveRegistry ==
  ASSUME TypeOK, RegistryInv, NEW c \in Conns,
         Leave(c) \/ Disconnect(c) \/ CloseRow(c) \/ Decline(c)
  PROVE  RegistryInv'
<1> USE DEF Procs, sharedVars, hubVars, roomVars, fixedVars, opVars, localVars
<1> DEFINE Quiet == UNCHANGED <<status, chatOf, rooms, byChat>>
<1>1. ASSUME NEW dies \in BOOLEAN, LeaveNothing(c, dies) PROVE RegistryInv'
  <2>1. pc' = [pc EXCEPT ![c] = IF dies THEN "gone" ELSE "idle"]
    BY <1>1 DEF LeaveNothing
  <2>2. Quiet /\ UNCHANGED <<target, after>>
    BY <1>1 DEF LeaveNothing
  <2>3. Goto(c, "gone") \/ Goto(c, "idle")
    BY <2>1 DEF Goto
  <2>4. QED  BY <2>2, <2>3, QuietGoto DEF Working, Joining, Ending
<1>2. ASSUME NEW dies \in BOOLEAN, LeaveSlot(c, dies) PROVE RegistryInv'
  <2>1. PICK r \in Rooms : r = cur[c] /\ Open(r)
    BY <1>2 DEF LeaveSlot, QuitRoom, OwnsSlot, TypeOK
  <2> DEFINE left == Participants(r) \ {UserOf[c]}
  <2>2. /\ pc' = [pc EXCEPT ![c] = "closeRow"]
        /\ target' = [target EXCEPT ![c] = r]
        /\ UNCHANGED <<rooms, byChat, chatOf>>
    BY <1>2, <2>1 DEF LeaveSlot
  <2>3. after' = [after EXCEPT ![c] =
                    IF left = {} THEN "forget"
                    ELSE IF Cardinality(left) = 1 /\ kindOf[r] # "broadcast"
                           THEN "end" ELSE "return"]
    BY <1>2, <2>1 DEF LeaveSlot
  <2>4. status' = IF left = {} THEN [status EXCEPT ![r] = "closed"] ELSE status
    BY <1>2, <2>1 DEF LeaveSlot
  <2>5. OnlyMoves(c) /\ pc'[c] = "closeRow" /\ target'[c] = r
    BY <2>2, <2>3 DEF OnlyMoves, TypeOK
  <2>6. OnlyCloses
    BY <2>1, <2>2, <2>4, ClosingOneRoom DEF OnlyCloses
  <2>7. after'[c] = "forget" => Closed(r)'
    <3>1. after'[c] = "forget" => left = {}
      BY <2>3 DEF TypeOK
    <3>2. QED  BY <2>1, <2>2, <2>4, <3>1, ClosingOneRoom DEF Closed
  <2>8. TargetOf(c)'
    BY <2>1, <2>5, <2>7 DEF TargetOf, PastClosing, Closing, Closed
  <2>9. QED  BY <2>5, <2>6, <2>8, ClosingMove
<1>3. CASE Disconnect(c)
  BY <1>3, QuietGoto DEF Disconnect, Working, Joining, Ending
<1>4. CASE CloseRow(c)
  <2>1. Quiet /\ pc[c] = "closeRow"
    BY <1>4 DEF CloseRow
  <2>2. CASE Return(c)
    BY <2>1, <2>2, QuietReturn
  <2>3. CASE Goto(c, after[c]) /\ after[c] # "return" /\ UNCHANGED opVars
    <3>1. after[c] \in {"end", "forget"}
      BY <2>3 DEF TypeOK
    <3>2. CASE after[c] = "end"
      BY <2>1, <2>3, <3>2, QuietGoto DEF Working, Closing
    <3>3. CASE after[c] = "forget"
      BY <2>1, <2>3, <3>3, QuietGoto DEF PastClosing
    <3>4. QED  BY <3>1, <3>2, <3>3
  <2>4. QED  BY <1>4, <2>2, <2>3 DEF CloseRow
<1>5. CASE DeclineFrame(c)
  <2>1. PICK r \in rooms : target' = [target EXCEPT ![c] = r]
    BY <1>5 DEF DeclineFrame
  <2>2. Goto(c, "declineMember") /\ UNCHANGED after
    BY <1>5 DEF DeclineFrame
  <2>3. OnlyMoves(c) /\ pc'[c] = "declineMember" /\ target'[c] = r
    BY <2>1, <2>2, GotoMoves DEF TypeOK
  <2>4. TargetOf(c)'
    BY <2>1, <2>3 DEF TypeOK, TargetOf, PastClosing, Closing
  <2>5. Quiet
    BY <1>5 DEF DeclineFrame
  <2>6. QED  BY <2>3, <2>4, <2>5, QuietMove
<1>6. CASE DeclineMember(c)
  <2>1. Quiet /\ pc[c] \in Working
    BY <1>6 DEF DeclineMember, Working
  <2>2. Return(c) \/ (Goto(c, "declineCount") /\ UNCHANGED opVars)
    BY <1>6 DEF DeclineMember
  <2>3. QED  BY <2>1, <2>2, QuietReturn, QuietGoto DEF Closing
<1>7. CASE DeclineCount(c)
  <2>1. Quiet /\ pc[c] \in Working
    BY <1>7 DEF DeclineCount, Working
  <2>2. Return(c) \/ (Goto(c, "end") /\ UNCHANGED opVars)
    BY <1>7 DEF DeclineCount
  <2>3. QED  BY <2>1, <2>2, QuietReturn, QuietGoto DEF Closing
<1>8. QED
  BY <1>1, <1>2, <1>3, <1>4, <1>5, <1>6, <1>7 DEF Leave, Decline

\* So does ending a call: the room is closed before it is taken out.
LEMMA EndRegistry ==
  ASSUME TypeOK, RegistryInv, NEW p \in Procs, EndRoom(p)
  PROVE  RegistryInv'
<1> USE DEF sharedVars, hubVars, roomVars, fixedVars, opVars, localVars
<1> DEFINE Quiet == UNCHANGED <<status, chatOf, rooms, byChat>>
           r == target[p]
<1>1. CASE End(p)
  <2>1. r \in Rooms
    BY <1>1 DEF End, RegistryInv, Working, Ending
  <2>2. CASE Open(r)
    <3>1. /\ Goto(p, IF Participants(r) = {} THEN "forget" ELSE "closeRows")
          /\ status' = [status EXCEPT ![r] = "closed"]
          /\ UNCHANGED <<target, after>>
      BY <1>1, <2>2 DEF End
    <3>2. OnlyMoves(p) /\ pc'[p] \in Closing /\ target' = target
      BY <3>1, GotoMoves DEF Closing
    <3>3. UNCHANGED <<rooms, byChat, chatOf>>
      BY <1>1 DEF End
    <3>4. OnlyCloses /\ Closed(r)'
      BY <2>1, <2>2, <3>1, <3>3, ClosingOneRoom
    <3>5. TargetOf(p)'
      BY <2>1, <3>2, <3>4 DEF TargetOf, Closed
    <3>6. QED  BY <3>2, <3>4, <3>5, ClosingMove
  <2>3. CASE ~Open(r)
    BY <1>1, <2>3, QuietReturn DEF End
  <2>4. QED  BY <2>2, <2>3
<1>2. CASE CloseRows(p)
  <2>1. PastClosing(p) /\ Quiet /\ UNCHANGED <<target, after>>
    BY <1>2 DEF CloseRows, PastClosing, Closing
  <2>2. Goto(p, "forget") \/ Goto(p, "closeRows")
    BY <1>2 DEF CloseRows
  <2>3. QED  BY <2>1, <2>2, QuietGoto
<1>3. CASE Forget(p)
  <2>1. /\ PastClosing(p) /\ Goto(p, "endCall") /\ UNCHANGED <<target, after>>
        /\ Unregister(r) /\ UNCHANGED <<status, chatOf>>
    BY <1>3 DEF Forget, PastClosing, Closing
  <2>2. Closed(r) /\ r \in Rooms
    BY <1>3, <2>1 DEF Forget, RegistryInv, Working, Ending
  <2>3. Placed' /\ OneLiveCallPerChat'
    BY <2>1, <2>2, UnregisteringKeepsRegistry
  <2>4. OnlyMoves(p) /\ pc'[p] = "endCall" /\ target' = target /\ Closed(r)'
    BY <2>1, <2>2, GotoMoves DEF Closed
  <2>5. TargetOf(p)'
    BY <2>2, <2>4 DEF TargetOf, Closed
  <2>6. \A q \in Procs : TargetOf(q)'
    BY <2>1, <2>4, <2>5, OthersKeepTargets DEF Closed
  <2>7. QED  BY <2>3, <2>6 DEF RegistryInv, TargetOf, Placed
<1>4. CASE EndCall(p)
  <2>1. PastClosing(p) /\ Goto(p, "callEnded") /\ Quiet /\ UNCHANGED <<target, after>>
    BY <1>4 DEF EndCall, PastClosing, Closing
  <2>2. QED  BY <2>1, QuietGoto
<1>5. CASE CallEnded(p)
  BY <1>5, QuietReturn DEF CallEnded
<1>6. QED  BY <1>1, <1>2, <1>3, <1>4, <1>5 DEF EndRoom

\* So do the shutdown path and the environment.
LEMMA OutsideRegistry ==
  ASSUME TypeOK, RegistryInv, Shutdown \/ CloseNext \/ Exit \/ Environment
  PROVE  RegistryInv'
<1> USE DEF Procs, sharedVars, hubVars, roomVars, fixedVars, opVars, localVars
<1> DEFINE Quiet == UNCHANGED <<status, chatOf, rooms, byChat>>
<1>1. CASE Shutdown \/ Exit
  <2>1. Quiet /\ UNCHANGED <<target, after>> /\ (Goto(Server, "closeAll") \/ Goto(Server, "exited"))
    BY <1>1 DEF Shutdown, Exit
  <2>2. QED  BY <2>1, QuietGoto DEF Working, Joining, Ending
<1>2. CASE CloseNext
  <2>1. PICK r \in queue : target' = [target EXCEPT ![Server] = r]
    BY <1>2 DEF CloseNext
  <2>2. Quiet /\ Goto(Server, "end") /\ UNCHANGED after
    BY <1>2 DEF CloseNext
  <2>3. OnlyMoves(Server) /\ pc'[Server] = "end" /\ target'[Server] = r
    BY <2>1, <2>2, GotoMoves DEF TypeOK
  <2>4. TargetOf(Server)'
    BY <2>1, <2>3 DEF TypeOK, TargetOf, PastClosing, Closing
  <2>5. QED  BY <2>2, <2>3, <2>4, QuietMove
<1>3. CASE Environment
  <2>1. Quiet /\ UNCHANGED <<pc, target, after>>
    BY <1>3 DEF Environment, ChangeMembers, DeleteChatCall
  <2>2. OnlyMoves(Server) /\ TargetOf(Server)'
    BY <2>1 DEF OnlyMoves, TargetOf, PastClosing, Closed, RegistryInv
  <2>3. QED  BY <2>1, <2>2, QuietMove
<1>4. QED  BY <1>1, <1>2, <1>3

LEMMA RegistryStep == TypeOK /\ RegistryInv /\ [Next]_vars => RegistryInv'
<1> SUFFICES ASSUME TypeOK, RegistryInv, [Next]_vars PROVE RegistryInv'
  OBVIOUS
<1>1. CASE UNCHANGED vars
  <2>1. UNCHANGED <<status, chatOf, rooms, byChat, pc, target, after>>
    BY <1>1 DEF vars, sharedVars, hubVars, roomVars, fixedVars, localVars, opVars
  <2>2. OnlyMoves(Server) /\ TargetOf(Server)'
    BY <2>1 DEF OnlyMoves, TargetOf, PastClosing, Closed, RegistryInv, Procs
  <2>3. QED  BY <2>1, <2>2, QuietMove DEF Procs
<1>2. QED
  BY <1>1, JoinRegistry, LeaveRegistry, EndRegistry, OutsideRegistry DEF Next

LEMMA RegistryStart == Init => RegistryInv
BY ConstantsAssumption
   DEF Init, RegistryInv, Working, Joining, Ending, PastClosing, Closing,
       OneLiveCallPerChat, Open, Procs

\* Hub.resolveRoom, discardRoom and forget keep at most one live call per chat,
\* and the hub finds it: proved from the inductive invariant RegistryInv.
THEOREM RegistryInvHolds == Spec => []RegistryInv
BY RegistryStart, RegistryStep, TypeCorrect, PTL DEF Spec

\* A chat has at most one live call and the hub finds it, whatever the interleaving
\* of joins, leaves, declines, ends and shutdown (resolveRoom, discardRoom, forget).
THEOREM OneCallAtATime == Spec => []OneLiveCallPerChat
<1>1. RegistryInv => OneLiveCallPerChat
  BY DEF RegistryInv
<1>2. QED  BY <1>1, RegistryInvHolds, PTL
-----------------------------------------------------------------------------
(* Calls.                                                                  *)

\* A connection that is in a call waits for its next frame.
SeatedIdle == \A c \in Conns : cur[c] # None => pc[c] = "idle"
\* Only an open room has participants.
ClosedAreEmpty == \A r \in Rooms : ~Open(r) => Participants(r) = {}
\* A connection that goes down joins nothing any more.
Last == {"gone", "closeRow"} \union Ending
DyingGo == \A c \in dying : pc[c] \in Last
SeatsInv == SeatedIdle /\ ClosedAreEmpty /\ DyingGo /\ SlotsBacked

\* The labels a Join that made its room goes through, up to its announcement.
Founding == {"checkPublisher", "discard", "discardForget", "register", "createCall", "callStarted"}
Founder(c, r) == c \in mine /\ pc[c] \in Founding /\ target[c] = r
\* Whoever works on a room, is registered or waits to be ended, has been made.
TouchedAreMade ==
  /\ \A p \in Procs : pc[p] \in Working => status[target[p]] # "unused"
  /\ rooms \union queue \subseteq {r \in Rooms : status[r] # "unused"}
\* The user of a join that has passed the check may publish in a stream.
Vouched ==
  \A c \in Conns :
    pc[c] = "register" /\ kindOf[target[c]] = "broadcast" /\ req[c].role = "publisher"
      => UserOf[c] \in Streamers
PublishersAreIn == \A r \in Rooms : publishers[r] \subseteq Participants(r)
RoomsInv == TouchedAreMade /\ Vouched /\ PublishersAreIn /\ StreamDiscipline /\ NoOrphanRoom /\ WithinLimits

\* One goroutine at most takes a call apart, and one at most announces it.
OneCloser ==
  \A p, q \in Procs : PastClosing(p) /\ PastClosing(q) /\ target[p] = target[q] => p = q
OneFounder ==
  \A r \in Rooms : \A c, d \in Conns : Founder(c, r) /\ Founder(d, r) => c = d
MakersAnnounce ==
  /\ \A c \in Conns : pc[c] \in {"createCall", "callStarted"} => c \in mine
  /\ \A c \in mine : pc[c] \in Founding \union {"persist"}
\* Who is still to announce a call, or its end, is the first to.
NotYetTold ==
  /\ \A r \in Rooms : \A c \in Conns : Founder(c, r) => started[r] = 0
  /\ \A p \in Procs : PastClosing(p) => ended[target[p]] = 0
  /\ \A p \in Procs : pc[p] \in {"endCall", "callEnded"} => target[p] \notin rooms
  /\ \A r \in Rooms : status[r] = "unused" => started[r] = 0
TellingInv == OneCloser /\ OneFounder /\ MakersAnnounce /\ NotYetTold /\ OverIsOver
-----------------------------------------------------------------------------
(* Who does what in a step.                                                *)

\* A step of goroutine p leaves what the others have in hand alone.
OnlyActs(p) ==
  /\ OnlyMoves(p)
  /\ mine' \ {p} = mine \ {p}
  /\ \A d \in Conns \ {p} : req'[d] = req[d]

LEMMA ReturnActs ==
  ASSUME TypeOK, NEW p \in Procs, Return(p)
  PROVE  OnlyActs(p) /\ p \notin mine' /\ pc'[p] \in {"closeAll", "gone", "idle"}
BY ReturnMoves DEF Return, OnlyActs, TypeOK

LEMMA GotoActs ==
  ASSUME TypeOK, NEW p \in Procs, NEW to, Goto(p, to), UNCHANGED after,
         \A q \in Procs \ {p} : target'[q] = target[q],
         mine' \ {p} = mine \ {p}, \A d \in Conns \ {p} : req'[d] = req[d]
  PROVE  OnlyActs(p) /\ pc'[p] = to
BY GotoMoves DEF OnlyActs

LEMMA JoinActs == ASSUME TypeOK, NEW c \in Conns, Join(c) PROVE OnlyActs(c)
<1> USE DEF sharedVars, hubVars, roomVars, fixedVars, storeVars, noteVars, opVars, connVars, localVars
<1>0. c \in Procs
  BY DEF Procs
<1> DEFINE On(to) == Goto(c, to) /\ UNCHANGED after
                     /\ (\A q \in Procs \ {c} : target'[q] = target[q])
                     /\ mine' \ {c} = mine \ {c} /\ (\A d \in Conns \ {c} : req'[d] = req[d])
<1>1. Return(c) \/ \E to : On(to)
  <2>1. CASE JoinFrame(c)
    <3>1. On("checkMember")
      BY <2>1 DEF JoinFrame, TypeOK
    <3> QED  BY <3>1
  <2>2. CASE CheckMember(c)
    <3>1. Return(c) \/ On("resolve")
      BY <2>2 DEF CheckMember
    <3> QED  BY <3>1
  <2>3. CASE ResolveFound(c) \/ ResolveCreate(c)
    <3>1. On("checkPublisher")
      BY <2>3 DEF ResolveFound, ResolveCreate, TypeOK
    <3> QED  BY <3>1
  <2>4. CASE ResolveFails(c) \/ DiscardForget(c) \/ RegisterRefused(c) \/ Persist(c)
    BY <2>4 DEF ResolveFails, DiscardForget, RegisterRefused, Persist
  <2>5. CASE CheckPublisher(c) \/ Discard(c)
    <3>1. Return(c) \/ On("register") \/ On("discard") \/ On("discardForget")
      BY <2>5 DEF CheckPublisher, Discard
    <3> QED  BY <3>1
  <2>6. CASE Rebind(c) \/ Register(c) \/ CreateCall(c) \/ CallStarted(c)
    <3>1. On("persist") \/ On("createCall") \/ On("callStarted")
      BY <2>6 DEF Rebind, Register, CreateCall, CallStarted
    <3> QED  BY <3>1
  <2> QED  BY <2>1, <2>2, <2>3, <2>4, <2>5, <2>6 DEF Join
<1> QED  BY <1>0, <1>1, ReturnActs, GotoActs

LEMMA LeaveActs ==
  ASSUME TypeOK, NEW c \in Conns, Leave(c) \/ Disconnect(c) \/ CloseRow(c) \/ Decline(c)
  PROVE  OnlyActs(c)
<1> USE DEF sharedVars, hubVars, roomVars, fixedVars, storeVars, noteVars, opVars, connVars, localVars
<1>0. c \in Procs
  BY DEF Procs
<1> DEFINE On(to) == Goto(c, to) /\ UNCHANGED after
                     /\ (\A q \in Procs \ {c} : target'[q] = target[q])
                     /\ mine' \ {c} = mine \ {c} /\ (\A d \in Conns \ {c} : req'[d] = req[d])
<1>1. CASE Leave(c)
  BY <1>0, <1>1 DEF Leave, LeaveNothing, LeaveSlot, QuitRoom, OnlyActs, OnlyMoves, TypeOK
<1>2. CASE Disconnect(c) \/ DeclineFrame(c)
  <2>1. On("gone") \/ On("declineMember")
    BY <1>2 DEF Disconnect, DeclineFrame, TypeOK
  <2> QED  BY <1>0, <2>1, GotoActs
<1>3. CASE CloseRow(c) \/ DeclineMember(c) \/ DeclineCount(c)
  <2>1. Return(c) \/ On(after[c]) \/ On("declineCount") \/ On("end")
    BY <1>3 DEF CloseRow, DeclineMember, DeclineCount
  <2> QED  BY <1>0, <2>1, GotoActs, ReturnActs
<1> QED  BY <1>1, <1>2, <1>3 DEF Decline

LEMMA EndActs == ASSUME TypeOK, NEW p \in Procs, EndRoom(p) PROVE OnlyActs(p)
<1> USE DEF sharedVars, hubVars, roomVars, fixedVars, storeVars, noteVars, opVars, connVars, localVars
<1> DEFINE On(to) == Goto(p, to) /\ UNCHANGED after
                     /\ (\A q \in Procs \ {p} : target'[q] = target[q])
                     /\ mine' \ {p} = mine \ {p} /\ (\A d \in Conns \ {p} : req'[d] = req[d])
<1>1. Return(p) \/ \E to \in Ending : On(to)
  BY DEF EndRoom, End, CloseRows, Forget, EndCall, CallEnded, Ending
<1> QED  BY <1>1, ReturnActs, GotoActs

LEMMA ServerActs == ASSUME TypeOK, Shutdown \/ CloseNext \/ Exit PROVE OnlyActs(Server)
<1> USE DEF sharedVars, hubVars, roomVars, fixedVars, storeVars, noteVars, opVars, connVars, localVars
<1>1. \E to \in {"closeAll", "end", "exited"} : Goto(Server, to)
  BY DEF Shutdown, CloseNext, Exit
<1>2. /\ UNCHANGED <<after, mine, req>> /\ Server \in Procs
      /\ \A q \in Procs \ {Server} : target'[q] = target[q]
  BY DEF Shutdown, CloseNext, Exit, TypeOK, Procs
<1> QED  BY <1>1, <1>2, GotoActs

\* A step of the hub is a step of one goroutine, or of none.
LEMMA SomebodyActs ==
  ASSUME TypeOK, [Next]_vars
  PROVE  \/ UNCHANGED <<pc, localVars, rooms, byChat, roomVars, noteVars>>
         \/ \E c \in Conns : OnlyActs(c) /\ (Join(c) \/ Leave(c) \/ Disconnect(c) \/ CloseRow(c) \/ Decline(c))
         \/ \E p \in Procs : OnlyActs(p) /\ EndRoom(p)
         \/ OnlyActs(Server) /\ (Shutdown \/ CloseNext \/ Exit)
<1>1. Environment \/ UNCHANGED vars => UNCHANGED <<pc, localVars, rooms, byChat, roomVars, noteVars>>
  BY DEF Environment, ChangeMembers, DeleteChatCall, vars, sharedVars, hubVars
<1> QED  BY <1>1, JoinActs, LeaveActs, EndActs, ServerActs DEF Next

\* Only these steps change rooms.
LEMMA WhoChangesRooms ==
  ASSUME [Next]_vars
  PROVE  \/ UNCHANGED roomVars
         \/ \E c \in Conns : \/ ResolveCreate(c) \/ Rebind(c) \/ Register(c)
                             \/ Discard(c) /\ Open(target[c]) /\ Participants(target[c]) = {}
                             \/ \E dies \in BOOLEAN : LeaveSlot(c, dies)
         \/ \E p \in Procs : End(p) /\ Open(target[p])
<1> USE DEF sharedVars, roomVars, hubVars, fixedVars, storeVars, noteVars
<1>1. ASSUME NEW c \in Conns, Join(c)
      PROVE  \/ UNCHANGED roomVars
             \/ ResolveCreate(c) \/ Rebind(c) \/ Register(c)
             \/ Discard(c) /\ Open(target[c]) /\ Participants(target[c]) = {}
  BY <1>1 DEF Join, JoinFrame, CheckMember, ResolveFound, ResolveFails,
              CheckPublisher, Discard, DiscardForget, RegisterRefused, CreateCall,
              CallStarted, Persist
<1>2. ASSUME NEW c \in Conns, Leave(c) \/ Disconnect(c) \/ CloseRow(c) \/ Decline(c)
      PROVE  UNCHANGED roomVars \/ \E dies \in BOOLEAN : LeaveSlot(c, dies)
  BY <1>2 DEF Leave, LeaveNothing, Disconnect, CloseRow, Decline, DeclineFrame,
              DeclineMember, DeclineCount
<1>3. ASSUME NEW p \in Procs, EndRoom(p) PROVE UNCHANGED roomVars \/ (End(p) /\ Open(target[p]))
  BY <1>3 DEF EndRoom, End, CloseRows, Forget, EndCall, CallEnded
<1>4. Shutdown \/ CloseNext \/ Exit \/ Environment \/ UNCHANGED vars => UNCHANGED roomVars
  BY DEF Shutdown, CloseNext, Exit, Environment, ChangeMembers, DeleteChatCall, vars
<1> QED  BY <1>1, <1>2, <1>3, <1>4 DEF Next

\* What giving one seat away, taking one or taking all does to the participants.
LEMMA SeatChanges ==
  ASSUME TypeOK, NEW r \in Rooms, NEW u \in Users, NEW c \in Conns \union {None},
         slot' = [slot EXCEPT ![r][u] = c]
  PROVE  /\ Participants(r)' = IF c = None THEN Participants(r) \ {u} ELSE Participants(r) \union {u}
         /\ \A x \in Rooms : x # r => Participants(x)' = Participants(x)
<1>1. \A x \in Rooms, v \in Users : slot'[x][v] = IF x = r /\ v = u THEN c ELSE slot[x][v]
  BY DEF TypeOK
<1> QED  BY <1>1, ConstantsAssumption DEF Participants

LEMMA SeatsCleared ==
  ASSUME TypeOK, NEW r \in Rooms, slot' = [slot EXCEPT ![r] = [u \in Users |-> None]]
  PROVE  /\ Participants(r)' = {}
         /\ \A x \in Rooms : x # r => Participants(x)' = Participants(x)
<1>1. \A x \in Rooms, v \in Users : slot'[x][v] = IF x = r THEN None ELSE slot[x][v]
  BY DEF TypeOK
<1> QED  BY <1>1 DEF Participants

\* The six steps that change rooms, by what they do to the room they are about.
Makes(r) ==
  /\ status[r] = "unused" /\ status' = [status EXCEPT ![r] = "open"]
  /\ Participants(r) = {}
  /\ \E k \in KindNames : kindOf' = [kindOf EXCEPT ![r] = k] /\ topology' = [topology EXCEPT ![r] = Mode(k)]
  /\ \E ch \in Chats : /\ chatOf' = [chatOf EXCEPT ![r] = ch]
                       /\ \A x \in Rooms : ~(Open(x) /\ chatOf[x] = ch)
  /\ UNCHANGED <<slot, publishers>>
Closes(r) ==
  /\ Open(r) /\ Participants(r) = {} /\ status' = [status EXCEPT ![r] = "closed"]
  /\ UNCHANGED <<kindOf, chatOf, topology, slot, publishers>>
Seats(r, c) ==
  /\ pc[c] = "register" /\ target[c] = r /\ ~Refused(r, c) /\ Open(r)
  /\ \/ UserOf[c] \in Participants(r) /\ UNCHANGED <<publishers, topology>>
     \/ UserOf[c] \notin Participants(r) /\ Enter(r, c) /\ Escalation(r)
  /\ slot' = [slot EXCEPT ![r][UserOf[c]] = c]
  /\ UNCHANGED <<status, kindOf, chatOf>>
Vacates(r, c) ==
  /\ slot[r][UserOf[c]] = c /\ Open(r)
  /\ slot' = [slot EXCEPT ![r][UserOf[c]] = None]
  /\ publishers' = [publishers EXCEPT ![r] = @ \ {UserOf[c]}]
  /\ status' = IF Participants(r) \ {UserOf[c]} = {} THEN [status EXCEPT ![r] = "closed"] ELSE status
  /\ UNCHANGED <<kindOf, chatOf, topology>>
Empties(r) ==
  /\ Open(r) /\ status' = [status EXCEPT ![r] = "closed"]
  /\ slot' = [slot EXCEPT ![r] = [u \in Users |-> None]]
  /\ publishers' = [publishers EXCEPT ![r] = {}]
  /\ UNCHANGED <<kindOf, chatOf, topology>>

LEMMA RoomSteps ==
  ASSUME TypeOK, SeatsInv, RegistryInv, [Next]_vars
  PROVE  \/ UNCHANGED <<status, kindOf, chatOf, topology, slot, publishers>>
         \/ \E r \in Rooms : \/ Makes(r) \/ Closes(r) \/ Empties(r)
                             \/ \E c \in Conns : Seats(r, c) \/ Vacates(r, c)
<1> USE DEF roomVars, fixedVars, sharedVars
<1>1. ASSUME NEW c \in Conns, ResolveCreate(c) PROVE \E r \in Rooms : Makes(r)
  <2>1. PICK r \in Rooms : /\ status[r] = "unused" /\ status' = [status EXCEPT ![r] = "open"]
                           /\ kindOf' = [kindOf EXCEPT ![r] = req[c].kind]
                           /\ topology' = [topology EXCEPT ![r] = Mode(req[c].kind)]
                           /\ chatOf' = [chatOf EXCEPT ![r] = req[c].chat]
    BY <1>1 DEF ResolveCreate
  <2>2. req[c].kind \in KindNames
    BY ConstantsAssumption DEF TypeOK, Requests
  <2>3. Participants(r) = {}
    BY <2>1 DEF SeatsInv, ClosedAreEmpty, Open
  <2>4. UNCHANGED <<slot, publishers>>
    BY <1>1 DEF ResolveCreate
  <2>5. req[c].chat \in Chats /\ chatOf' = [chatOf EXCEPT ![r] = req[c].chat]
    <3>1. req[c].chat \in Chats
      BY DEF TypeOK, Requests
    <3> QED  BY <2>1, <3>1
  <2>6. \A x \in Rooms : ~(Open(x) /\ chatOf[x] = req[c].chat)
    BY <1>1 DEF ResolveCreate, Found, RegistryInv, OneLiveCallPerChat
  <2>7. Makes(r)
    BY <2>1, <2>2, <2>3, <2>4, <2>5, <2>6 DEF Makes
  <2> QED  BY <2>7
<1>2. ASSUME NEW c \in Conns, Discard(c), Open(target[c]), Participants(target[c]) = {}
      PROVE  UNCHANGED <<status, kindOf, chatOf, topology, slot, publishers>> \/ \E r \in Rooms : Closes(r)
  BY <1>2 DEF Discard, RegistryInv, Working, Joining, Procs, Closes
<1>3. ASSUME NEW c \in Conns, Rebind(c) \/ Register(c) PROVE \E r \in Rooms : Seats(r, c)
  <2>1. target[c] \in Rooms
    BY <1>3 DEF Rebind, Register, RegistryInv, Working, Joining, Procs
  <2>2. Seats(target[c], c)
    BY <1>3 DEF Rebind, Register, Seats, Enter, Refused
  <2> QED  BY <2>1, <2>2
<1>4. ASSUME NEW c \in Conns, NEW dies \in BOOLEAN, LeaveSlot(c, dies) PROVE \E r \in Rooms : Vacates(r, c)
  <2>1. cur[c] \in Rooms
    BY <1>4 DEF LeaveSlot, QuitRoom, TypeOK
  <2>2. Vacates(cur[c], c)
    BY <1>4 DEF LeaveSlot, OwnsSlot, Vacates
  <2> QED  BY <2>1, <2>2
<1>5. ASSUME NEW p \in Procs, End(p), Open(target[p]) PROVE \E r \in Rooms : Empties(r)
  <2>1. target[p] \in Rooms
    BY <1>5 DEF End, RegistryInv, Working, Ending
  <2>2. Empties(target[p])
    BY <1>5 DEF End, Empties
  <2> QED  BY <2>1, <2>2
<1> QED  BY <1>1, <1>2, <1>3, <1>4, <1>5, WhoChangesRooms
-----------------------------------------------------------------------------
(* Seats: every participant is backed by a connection of his.              *)

Announcing == {"createCall", "callStarted", "persist"}

\* A goroutine that touches no seat, and has none unless it goes on to take it.
LEMMA QuietSeats ==
  ASSUME TypeOK, SeatsInv, NEW p \in Procs, OnlyMoves(p), UNCHANGED <<slot, status, cur, dying>>,
         p \in Conns => cur[p] = None, p \in dying => pc'[p] \in Last,
         pc[p] \in Announcing => pc'[p] \in Announcing /\ target'[p] = target[p]
  PROVE  SeatsInv'
<1>1. SeatedIdle'
  BY DEF SeatsInv, SeatedIdle, OnlyMoves, Procs
<1>2. ClosedAreEmpty'
  BY DEF SeatsInv, ClosedAreEmpty, Open, Participants
<1>0. DyingGo'
  BY DEF SeatsInv, DyingGo, OnlyMoves, TypeOK, Procs
<1>3. ASSUME NEW r \in Rooms, NEW u \in Users, slot[r][u] # None
      PROVE  LET c == slot[r][u]
             IN UserOf[c] = u /\ (\/ cur[c] = r /\ pc'[c] # "gone"
                                  \/ target'[c] = r /\ pc'[c] \in Announcing)
  <2> DEFINE c == slot[r][u]
  <2>1. c \in Conns
    BY <1>3 DEF TypeOK
  <2>2. UserOf[c] = u /\ (\/ cur[c] = r /\ pc[c] # "gone"
                          \/ target[c] = r /\ pc[c] \in Announcing)
    BY <1>3 DEF SeatsInv, SlotsBacked, Announcing
  <2>3. CASE c = p
    BY <2>1, <2>2, <2>3, ConstantsAssumption
  <2>4. CASE c # p
    BY <2>1, <2>2, <2>4 DEF OnlyMoves, Procs
  <2> QED  BY <2>3, <2>4
<1>4. SlotsBacked'
  BY <1>3 DEF SlotsBacked, Announcing
<1> QED  BY <1>0, <1>1, <1>2, <1>4 DEF SeatsInv

\* An operation that returns, or goes on, and has not come as far as a seat.
LEMMA QuietSeatsReturn ==
  ASSUME TypeOK, SeatsInv, NEW p \in Procs, Return(p), UNCHANGED <<slot, status, cur, dying>>,
         pc[p] \notin {"idle"} \union Announcing
  PROVE  SeatsInv'
<1>1. p \in Conns => cur[p] = None
  BY DEF SeatsInv, SeatedIdle
<1>2. p \in dying => pc'[p] \in Last
  BY ConstantsAssumption DEF Return, TypeOK, Last
<1> QED  BY <1>1, <1>2, ReturnMoves, QuietSeats

LEMMA QuietSeatsGoto ==
  ASSUME TypeOK, SeatsInv, NEW p \in Procs, NEW to, Goto(p, to), UNCHANGED <<slot, status, cur, dying, after>>,
         p \in dying => to \in Last,
         pc[p] = "idle" /\ p \in Conns => cur[p] = None,
         \A q \in Procs \ {p} : target'[q] = target[q],
         pc[p] \in Announcing => to \in Announcing /\ target' = target
  PROVE  SeatsInv'
<1>1. p \in Conns => cur[p] = None
  BY DEF SeatsInv, SeatedIdle
<1>2. OnlyMoves(p) /\ pc'[p] = to
  BY GotoMoves
<1> QED  BY <1>1, <1>2, QuietSeats

\* A room is made or closed while nobody is in it, by a goroutine on its way.
LEMMA QuietSeatsRoom ==
  ASSUME TypeOK, SeatsInv, NEW c \in Conns, OnlyMoves(c), UNCHANGED <<slot, cur, dying>>,
         pc[c] \notin {"idle"} \union Announcing, c \in dying => pc'[c] \in Last,
         NEW r \in Rooms, Participants(r) = {},
         \A x \in Rooms \ {r} : status'[x] = status[x]
  PROVE  SeatsInv'
<1>1. cur[c] = None
  BY DEF SeatsInv, SeatedIdle
<1>2. SeatedIdle'
  BY <1>1 DEF SeatsInv, SeatedIdle, OnlyMoves, Procs
<1>0. DyingGo'
  BY DEF SeatsInv, DyingGo, OnlyMoves, TypeOK, Procs
<1>3. ClosedAreEmpty'
  BY DEF SeatsInv, ClosedAreEmpty, Open, Participants
<1>4. ASSUME NEW x \in Rooms, NEW u \in Users, slot[x][u] # None
      PROVE  LET d == slot[x][u]
             IN UserOf[d] = u /\ (\/ cur[d] = x /\ pc'[d] # "gone"
                                  \/ target'[d] = x /\ pc'[d] \in Announcing)
  <2> DEFINE d == slot[x][u]
  <2>1. d \in Conns
    BY <1>4 DEF TypeOK
  <2>2. UserOf[d] = u /\ (\/ cur[d] = x /\ pc[d] # "gone"
                          \/ target[d] = x /\ pc[d] \in Announcing)
    BY <1>4 DEF SeatsInv, SlotsBacked, Announcing
  <2>3. d # c
    BY <1>1, <2>2, ConstantsAssumption
  <2> QED  BY <2>1, <2>2, <2>3 DEF OnlyMoves, Procs
<1>5. SlotsBacked'
  BY <1>4 DEF SlotsBacked, Announcing
<1> QED  BY <1>0, <1>2, <1>3, <1>5 DEF SeatsInv

\* The newcomer, or the new connection of a participant, takes a seat.
LEMMA SeatTaken ==
  ASSUME TypeOK, SeatsInv, NEW c \in Conns, NEW to \in Announcing, NEW r \in Rooms,
         pc[c] = "register", target[c] = r, Open(r), Goto(c, to),
         slot' = [slot EXCEPT ![r][UserOf[c]] = c], UNCHANGED <<status, cur, dying, target>>
  PROVE  SeatsInv'
<1>1. cur[c] = None /\ UserOf[c] \in Users
  BY ConstantsAssumption DEF SeatsInv, SeatedIdle
<1>2. pc'[c] = to /\ \A d \in Conns \ {c} : pc'[d] = pc[d]
  BY DEF Goto, TypeOK, Procs
<1>0. DyingGo'
  BY <1>2 DEF SeatsInv, DyingGo, Last, Ending, TypeOK
<1>3. SeatedIdle'
  BY <1>1, <1>2 DEF SeatsInv, SeatedIdle
<1>4. ClosedAreEmpty'
  BY DEF SeatsInv, ClosedAreEmpty, Open, Participants, TypeOK
<1>5. ASSUME NEW x \in Rooms, NEW u \in Users, slot'[x][u] # None
      PROVE  LET d == slot'[x][u]
             IN UserOf[d] = u /\ (\/ cur[d] = x /\ pc'[d] # "gone"
                                  \/ target[d] = x /\ pc'[d] \in Announcing)
  <2>1. CASE x = r /\ u = UserOf[c]
    BY <1>1, <1>2, <2>1 DEF TypeOK
  <2>2. CASE ~(x = r /\ u = UserOf[c])
    <3> DEFINE d == slot[x][u]
    <3>1. slot'[x][u] = d /\ d \in Conns
      BY <1>1, <1>5, <2>2 DEF TypeOK
    <3>2. UserOf[d] = u /\ (\/ cur[d] = x /\ pc[d] # "gone"
                            \/ target[d] = x /\ pc[d] \in Announcing)
      BY <1>5, <3>1 DEF SeatsInv, SlotsBacked, Announcing
    <3>3. CASE d = c
      BY <1>1, <3>2, <3>3, ConstantsAssumption DEF Announcing
    <3>4. CASE d # c
      BY <1>2, <3>1, <3>2, <3>4
    <3> QED  BY <3>1, <3>3, <3>4
  <2> QED  BY <2>1, <2>2
<1>6. SlotsBacked'
  BY <1>5 DEF SlotsBacked, Announcing
<1> QED  BY <1>0, <1>3, <1>4, <1>6 DEF SeatsInv

\* The session remembers the room of the seat it took.
LEMMA SeatKept ==
  ASSUME TypeOK, SeatsInv, NEW c \in Conns, Persist(c)
  PROVE  SeatsInv'
<1> USE DEF Persist, hubVars, roomVars, fixedVars
<1>1. /\ UserOf[c] \in Users /\ cur[c] = None /\ c \notin dying /\ c # Server
      /\ cur' = [cur EXCEPT ![c] = target[c]]
  BY ConstantsAssumption DEF SeatsInv, SeatedIdle, DyingGo, Last, Ending
<1>2. pc'[c] = "idle" /\ \A d \in Conns \ {c} : pc'[d] = pc[d] /\ target'[d] = target[d]
  BY <1>1 DEF Return, TypeOK, Procs
<1>3. SeatedIdle'
  BY <1>1, <1>2 DEF SeatsInv, SeatedIdle, TypeOK
<1>4. ClosedAreEmpty' /\ DyingGo'
  BY <1>1, <1>2 DEF SeatsInv, ClosedAreEmpty, DyingGo, Open, Participants, TypeOK
<1>5. ASSUME NEW x \in Rooms, NEW u \in Users, slot[x][u] # None
      PROVE  LET d == slot[x][u]
             IN UserOf[d] = u /\ (\/ cur'[d] = x /\ pc'[d] # "gone"
                                  \/ target'[d] = x /\ pc'[d] \in Announcing)
  <2> DEFINE d == slot[x][u]
  <2>1. d \in Conns
    BY <1>5 DEF TypeOK
  <2>2. UserOf[d] = u /\ (\/ cur[d] = x /\ pc[d] # "gone"
                          \/ target[d] = x /\ pc[d] \in Announcing)
    BY <1>5 DEF SeatsInv, SlotsBacked, Announcing
  <2>3. CASE d = c
    BY <1>1, <1>2, <2>2, <2>3, ConstantsAssumption DEF TypeOK
  <2>4. CASE d # c
    BY <1>1, <1>2, <2>1, <2>2, <2>4 DEF TypeOK
  <2> QED  BY <2>3, <2>4
<1>6. SlotsBacked'
  BY <1>5 DEF SlotsBacked, Announcing
<1> QED  BY <1>3, <1>4, <1>6 DEF SeatsInv

\* A connection that quits a call gives its seat back, or has none any more.
LEMMA SeatLeft ==
  ASSUME TypeOK, SeatsInv, NEW c \in Conns, NEW dies \in BOOLEAN,
         LeaveNothing(c, dies) \/ LeaveSlot(c, dies)
  PROVE  SeatsInv'
<1> USE DEF QuitRoom, sharedVars, hubVars, roomVars, fixedVars, OwnsSlot
<1>1. /\ UserOf[c] \in Users /\ cur[c] \in Rooms /\ pc[c] = "idle" /\ c \in Procs
      /\ cur' = [cur EXCEPT ![c] = None]
  BY ConstantsAssumption DEF LeaveNothing, LeaveSlot, TypeOK, Procs
<1>2. /\ \A d \in Conns \ {c} : pc'[d] = pc[d] /\ target'[d] = target[d]
      /\ pc'[c] \in {"idle", "gone", "closeRow"}
  BY <1>1 DEF LeaveNothing, LeaveSlot, TypeOK, Procs, opVars
<1>3. SeatedIdle'
  BY <1>1, <1>2 DEF SeatsInv, SeatedIdle, TypeOK
<1>4. DyingGo'
  <2>1. c \notin dying
    BY <1>1 DEF SeatsInv, DyingGo, Last, Ending
  <2>2. c \in dying' => pc'[c] \in {"gone", "closeRow"}
    BY <1>1, <2>1 DEF LeaveNothing, LeaveSlot, TypeOK
  <2>3. dying' \subseteq dying \union {c}
    BY DEF LeaveNothing, LeaveSlot
  <2> QED  BY <1>2, <2>2, <2>3 DEF SeatsInv, DyingGo, TypeOK, Last
<1>5. ClosedAreEmpty'
  <2>1. CASE LeaveNothing(c, dies)
    BY <2>1 DEF LeaveNothing, SeatsInv, ClosedAreEmpty, Open, Participants
  <2>2. CASE LeaveSlot(c, dies)
    BY <1>1, <2>2 DEF LeaveSlot, SeatsInv, ClosedAreEmpty, Open, Participants, TypeOK
  <2> QED  BY <2>1, <2>2
<1>6. ASSUME NEW x \in Rooms, NEW u \in Users, slot'[x][u] # None
      PROVE  slot'[x][u] = slot[x][u] /\ slot[x][u] # c
  <2>1. slot[x][u] = c => x = cur[c] /\ u = UserOf[c] /\ Open(x)
    BY <1>1, ConstantsAssumption DEF SeatsInv, SlotsBacked, ClosedAreEmpty, Participants
  <2>2. CASE LeaveNothing(c, dies)
    BY <1>6, <2>1, <2>2 DEF LeaveNothing
  <2>3. CASE LeaveSlot(c, dies)
    BY <1>1, <1>6, <2>1, <2>3 DEF LeaveSlot, TypeOK
  <2> QED  BY <2>2, <2>3
<1>7. ASSUME NEW x \in Rooms, NEW u \in Users, slot'[x][u] # None
      PROVE  LET d == slot'[x][u]
             IN UserOf[d] = u /\ (\/ cur'[d] = x /\ pc'[d] # "gone"
                                  \/ target'[d] = x /\ pc'[d] \in Announcing)
  <2> DEFINE d == slot[x][u]
  <2>1. d \in Conns \ {c} /\ slot'[x][u] = d /\ d # None
    BY <1>6, <1>7 DEF TypeOK
  <2>2. UserOf[d] = u /\ (\/ cur[d] = x /\ pc[d] # "gone"
                          \/ target[d] = x /\ pc[d] \in Announcing)
    BY <2>1 DEF SeatsInv, SlotsBacked, Announcing
  <2> QED  BY <1>1, <1>2, <2>1, <2>2 DEF TypeOK
<1>8. SlotsBacked'
  BY <1>7 DEF SlotsBacked, Announcing
<1> QED  BY <1>3, <1>4, <1>5, <1>8 DEF SeatsInv

\* End takes every seat of the call.
LEMMA SeatsEnd ==
  ASSUME TypeOK, SeatsInv, RegistryInv, NEW p \in Procs, End(p)
  PROVE  SeatsInv'
<1> USE DEF End, hubVars, roomVars, fixedVars, opVars
<1> DEFINE r == target[p]
<1>1. r \in Rooms
  BY DEF RegistryInv, Working, Ending
<1>2. CASE ~Open(r)
  BY <1>2, QuietSeatsReturn DEF Announcing
<1>3. CASE Open(r)
  <2>0. /\ status' = [status EXCEPT ![r] = "closed"]
        /\ slot' = [slot EXCEPT ![r] = [u \in Users |-> None]]
    BY <1>3
  <2> HIDE DEF r, End
  <2>1. /\ \A q \in Procs \ {p} : pc'[q] = pc[q]
        /\ pc'[p] \in {"forget", "closeRows"}
        /\ UNCHANGED <<cur, dying, target>>
    BY <1>3 DEF End, r, Goto, TypeOK
  <2>2. p \in Conns => cur[p] = None
    BY DEF End, SeatsInv, SeatedIdle
  <2>3. SeatedIdle' /\ DyingGo'
    BY <2>1, <2>2 DEF SeatsInv, SeatedIdle, DyingGo, Last, Ending, Procs, TypeOK
  <2>4. ClosedAreEmpty'
    BY <1>1, <2>0 DEF SeatsInv, ClosedAreEmpty, Open, Participants, TypeOK
  <2>5. ASSUME NEW x \in Rooms, NEW u \in Users, slot'[x][u] # None
        PROVE  x # r /\ slot'[x][u] = slot[x][u]
    BY <1>1, <2>0, <2>5 DEF TypeOK
  <2>6. ASSUME NEW x \in Rooms, NEW u \in Users, slot'[x][u] # None
        PROVE  LET d == slot'[x][u]
               IN UserOf[d] = u /\ (\/ cur[d] = x /\ pc'[d] # "gone"
                                    \/ target[d] = x /\ pc'[d] \in Announcing)
    <3> DEFINE d == slot[x][u]
    <3>1. d \in Conns /\ slot'[x][u] = d /\ d # None
      BY <2>5, <2>6 DEF TypeOK
    <3>2. UserOf[d] = u /\ (\/ cur[d] = x /\ pc[d] # "gone"
                            \/ target[d] = x /\ pc[d] \in Announcing)
      BY <3>1 DEF SeatsInv, SlotsBacked, Announcing
    <3>3. d # p
      BY <2>2, <3>1, <3>2, ConstantsAssumption DEF End, Announcing
    <3> QED  BY <2>1, <3>1, <3>2, <3>3 DEF Procs
  <2>7. SlotsBacked'
    BY <2>1, <2>6 DEF SlotsBacked, Announcing
  <2> QED  BY <2>3, <2>4, <2>7 DEF SeatsInv
<1> QED  BY <1>2, <1>3

LEMMA SeatsJoin ==
  ASSUME TypeOK, SeatsInv, RegistryInv, NEW c \in Conns, Join(c)
  PROVE  SeatsInv'
<1> USE DEF sharedVars, hubVars, roomVars, fixedVars, storeVars, noteVars, opVars, connVars, localVars
<1>0. c \in Procs /\ (pc[c] \notin Last => c \notin dying)
  BY DEF Procs, SeatsInv, DyingGo
<1> DEFINE On(to) == Goto(c, to) /\ UNCHANGED <<slot, status, cur, dying, after>>
                     /\ \A q \in Procs \ {c} : target'[q] = target[q]
           Off == Return(c) /\ UNCHANGED <<slot, status, cur, dying>>
<1> USE <1>0 DEF Last, Ending, Announcing
<1>1. CASE JoinFrame(c) \/ ResolveFound(c)
  <2>1. (pc[c] = "idle" => cur[c] = None) /\ pc[c] \in {"idle", "resolve"}
        /\ \E to \in {"checkMember", "checkPublisher"} : On(to)
    BY <1>1 DEF JoinFrame, ResolveFound, TypeOK
  <2> QED  BY <2>1, QuietSeatsGoto
<1>2. CASE CheckMember(c) \/ CheckPublisher(c)
  <2>1. pc[c] \in {"checkMember", "checkPublisher"}
        /\ (Off \/ \E to \in {"resolve", "register", "discard"} : On(to))
    BY <1>2 DEF CheckMember, CheckPublisher
  <2> QED  BY <2>1, QuietSeatsGoto, QuietSeatsReturn
<1>3. CASE ResolveCreate(c)
  <2>1. PICK r \in Rooms : status[r] = "unused" /\ status' = [status EXCEPT ![r] = "open"]
                           /\ target' = [target EXCEPT ![c] = r]
    BY <1>3 DEF ResolveCreate
  <2>2. pc[c] = "resolve" /\ OnlyMoves(c) /\ UNCHANGED <<slot, cur, dying>>
    BY <1>3, <2>1 DEF ResolveCreate, OnlyMoves, Goto, TypeOK
  <2>3. Participants(r) = {} /\ \A x \in Rooms \ {r} : status'[x] = status[x]
    BY <2>1 DEF SeatsInv, ClosedAreEmpty, Open, TypeOK
  <2> QED  BY <2>2, <2>3, QuietSeatsRoom
<1>4. CASE ResolveFails(c) \/ DiscardForget(c) \/ RegisterRefused(c)
  <2>1. pc[c] \in {"resolve", "discardForget", "register"} /\ Off
    BY <1>4 DEF ResolveFails, DiscardForget, RegisterRefused
  <2> QED  BY <2>1, QuietSeatsReturn
<1>5. CASE Discard(c)
  <2>1. CASE Return(c) /\ UNCHANGED status
    <3>1. pc[c] = "discard" /\ Off
      BY <1>5, <2>1 DEF Discard
    <3> QED  BY <3>1, QuietSeatsReturn
  <2>2. CASE ~(Return(c) /\ UNCHANGED status)
    <3> DEFINE r == target[c]
    <3>1. /\ pc[c] = "discard" /\ OnlyMoves(c) /\ UNCHANGED <<slot, cur, dying>>
          /\ Participants(r) = {} /\ status' = [status EXCEPT ![r] = "closed"]
      BY <1>5, <2>2 DEF Discard, Goto, OnlyMoves, TypeOK
    <3>2. r \in Rooms
      BY <3>1 DEF RegistryInv, Working, Joining
    <3>3. \A x \in Rooms \ {r} : status'[x] = status[x]
      BY <3>1 DEF TypeOK
    <3> QED  BY <3>1, <3>2, <3>3, QuietSeatsRoom
  <2> QED  BY <2>1, <2>2
<1>6. CASE Rebind(c) \/ Register(c)
  <2>1. \E to \in Announcing : Goto(c, to)
    BY <1>6 DEF Rebind, Register
  <2>2. /\ pc[c] = "register" /\ Open(target[c]) /\ UNCHANGED <<status, cur, dying, target>>
        /\ slot' = [slot EXCEPT ![target[c]][UserOf[c]] = c]
    BY <1>6 DEF Rebind, Register, Refused, Enter
  <2>3. target[c] \in Rooms
    BY <2>2 DEF RegistryInv, Working, Joining
  <2> QED  BY <2>1, <2>2, <2>3, SeatTaken
<1>7. CASE CreateCall(c) \/ CallStarted(c)
  <2>1. pc[c] \in {"createCall", "callStarted"} /\ target' = target
        /\ \E to \in {"callStarted", "persist"} : On(to)
    BY <1>7 DEF CreateCall, CallStarted
  <2> QED  BY <2>1, QuietSeatsGoto
<1>8. CASE Persist(c)
  BY <1>8, SeatKept
<1> QED  BY <1>1, <1>2, <1>3, <1>4, <1>5, <1>6, <1>7, <1>8 DEF Join

LEMMA SeatsLeave ==
  ASSUME TypeOK, SeatsInv, RegistryInv, NEW c \in Conns,
         Leave(c) \/ Disconnect(c) \/ CloseRow(c) \/ Decline(c)
  PROVE  SeatsInv'
<1> USE DEF sharedVars, hubVars, roomVars, fixedVars, storeVars, noteVars, opVars, connVars, localVars
<1>0. c \in Procs /\ (pc[c] \notin Last => c \notin dying)
  BY DEF Procs, SeatsInv, DyingGo
<1> DEFINE On(to) == Goto(c, to) /\ UNCHANGED <<slot, status, cur, dying, after>>
                     /\ \A q \in Procs \ {c} : target'[q] = target[q]
           Off == Return(c) /\ UNCHANGED <<slot, status, cur, dying>>
<1> USE <1>0 DEF Last, Ending, Announcing
<1>1. CASE Leave(c)
  BY <1>1, SeatLeft DEF Leave
<1>2. CASE Disconnect(c)
  <2>1. pc[c] = "idle" /\ cur[c] = None /\ On("gone")
    BY <1>2 DEF Disconnect
  <2> QED  BY <2>1, QuietSeatsGoto
<1>3. CASE CloseRow(c)
  <2>1. pc[c] = "closeRow" /\ (Off \/ \E to \in {"end", "forget"} : On(to))
    BY <1>3 DEF CloseRow, TypeOK
  <2> QED  BY <2>1, QuietSeatsGoto, QuietSeatsReturn
<1>4. CASE DeclineFrame(c)
  <2>1. pc[c] = "idle" /\ cur[c] = None /\ On("declineMember")
    BY <1>4 DEF DeclineFrame, TypeOK
  <2> QED  BY <2>1, QuietSeatsGoto
<1>5. CASE DeclineMember(c) \/ DeclineCount(c)
  <2>1. pc[c] \in {"declineMember", "declineCount"}
        /\ (Off \/ \E to \in {"declineCount", "end"} : On(to))
    BY <1>5 DEF DeclineMember, DeclineCount
  <2> QED  BY <2>1, QuietSeatsGoto, QuietSeatsReturn
<1> QED  BY <1>1, <1>2, <1>3, <1>4, <1>5 DEF Decline

LEMMA SeatsEndRoom ==
  ASSUME TypeOK, SeatsInv, RegistryInv, NEW p \in Procs, EndRoom(p)
  PROVE  SeatsInv'
<1> USE DEF hubVars, roomVars, fixedVars, storeVars, noteVars, opVars, connVars, localVars, Last, Ending, Announcing
<1>1. CASE End(p)
  BY <1>1, SeatsEnd
<1>2. CASE CloseRows(p) \/ Forget(p) \/ EndCall(p)
  <2>1. /\ pc[p] \in {"closeRows", "forget", "endCall"}
        /\ \E to \in Ending : Goto(p, to)
        /\ UNCHANGED <<slot, status, cur, dying, after, target>>
    BY <1>2 DEF CloseRows, Forget, EndCall
  <2> QED  BY <2>1, QuietSeatsGoto
<1>3. CASE CallEnded(p)
  <2>1. pc[p] = "callEnded" /\ Return(p) /\ UNCHANGED <<slot, status, cur, dying>>
    BY <1>3 DEF CallEnded
  <2> QED  BY <2>1, QuietSeatsReturn
<1> QED  BY <1>1, <1>2, <1>3 DEF EndRoom

LEMMA SeatsStep == TypeOK /\ SeatsInv /\ RegistryInv /\ [Next]_vars => SeatsInv'
<1> SUFFICES ASSUME TypeOK, SeatsInv, RegistryInv, [Next]_vars PROVE SeatsInv'
  OBVIOUS
<1> USE DEF sharedVars, hubVars, roomVars, fixedVars, storeVars, noteVars, opVars, connVars, localVars
<1>1. CASE Shutdown \/ CloseNext \/ Exit
  <2>1. /\ Server \in Procs /\ Server \notin Conns /\ Server \notin dying
        /\ pc[Server] \notin Announcing
        /\ \E to \in {"closeAll", "end", "exited"} : Goto(Server, to)
        /\ UNCHANGED <<slot, status, cur, dying, after>>
        /\ \A q \in Procs \ {Server} : target'[q] = target[q]
    BY <1>1, ConstantsAssumption DEF Shutdown, CloseNext, Exit, Procs, Announcing, TypeOK
  <2> QED  BY <2>1, QuietSeatsGoto
<1>2. CASE Environment \/ UNCHANGED vars
  <2>1. UNCHANGED <<slot, status, cur, dying, pc, target>>
    BY <1>2 DEF Environment, ChangeMembers, DeleteChatCall, vars
  <2> QED  BY <2>1 DEF SeatsInv, SeatedIdle, ClosedAreEmpty, DyingGo, SlotsBacked, Open, Participants
<1> QED  BY <1>1, <1>2, SeatsJoin, SeatsLeave, SeatsEndRoom DEF Next

LEMMA SeatsStart == Init => SeatsInv
BY ConstantsAssumption
   DEF Init, SeatsInv, SeatedIdle, ClosedAreEmpty, DyingGo, SlotsBacked, Open, Participants

\* The seats of every call are right, in every behaviour.
LEMMA SeatsAlways == Spec => []SeatsInv
BY SeatsStart, SeatsStep, TypeCorrect, RegistryInvHolds, PTL DEF Spec

\* Every participant is backed by a connection of his that is alive and will give the slot
\* back (SlotsBacked): no join, leave, rebinding, end or disconnection leaves a ghost in a call.
THEOREM EverySlotIsBacked == Spec => []SlotsBacked
<1>1. SeatsInv => SlotsBacked
  BY DEF SeatsInv
<1> QED  BY <1>1, SeatsAlways, PTL

\* A stale connection of a user who reconnected cannot take him out of a call that goes
\* on (StaleConnectionHarmless): only Leave of the connection that holds the slot does.
THEOREM StaleConnectionsAreHarmless == Spec => StaleConnectionHarmless
<1> DEFINE Harmless == \A r \in Rooms, u \in Users :
             Open(r)' /\ slot[r][u] # None /\ slot'[r][u] = None =>
               cur[slot[r][u]] = r /\ cur'[slot[r][u]] = None
<1>1. ASSUME TypeOK, SeatsInv, RegistryInv, [Next]_vars PROVE [Harmless]_vars
  <2> SUFFICES ASSUME NEW r \in Rooms, NEW u \in Users, Open(r)', slot[r][u] # None, slot'[r][u] = None
               PROVE  cur[slot[r][u]] = r /\ cur'[slot[r][u]] = None
    OBVIOUS
  <2>1. ASSUME NEW c \in Conns, Rebind(c) \/ Register(c) PROVE FALSE
    <3>1. slot' = [slot EXCEPT ![target[c]][UserOf[c]] = c] /\ c # None
      BY <2>1, ConstantsAssumption DEF Rebind, Register, Enter
    <3> QED  BY <1>1, <3>1 DEF TypeOK
  <2>2. ASSUME NEW c \in Conns, NEW dies \in BOOLEAN, LeaveSlot(c, dies)
        PROVE  cur[slot[r][u]] = r /\ cur'[slot[r][u]] = None
    <3>1. /\ slot' = [slot EXCEPT ![cur[c]][UserOf[c]] = None] /\ slot[cur[c]][UserOf[c]] = c
          /\ cur' = [cur EXCEPT ![c] = None]
      BY <2>2 DEF LeaveSlot, QuitRoom, OwnsSlot
    <3>2. r = cur[c] /\ u = UserOf[c]
      BY <1>1, <3>1 DEF TypeOK
    <3>3. slot[r][u] = c
      BY <3>1, <3>2
    <3> QED  BY <1>1, <3>1, <3>2, <3>3 DEF TypeOK
  <2>3. ASSUME NEW p \in Procs, End(p), Open(target[p]) PROVE FALSE
    <3>1. /\ slot' = [slot EXCEPT ![target[p]] = [x \in Users |-> None]]
          /\ status' = [status EXCEPT ![target[p]] = "closed"]
      BY <2>3 DEF End
    <3>2. CASE r = target[p]
      BY <1>1, <3>1, <3>2 DEF TypeOK, Open
    <3>3. CASE r # target[p]
      BY <1>1, <3>1, <3>3 DEF TypeOK
    <3> QED  BY <3>2, <3>3
  <2>4. ASSUME NEW c \in Conns, ResolveCreate(c) \/ Discard(c) \/ UNCHANGED roomVars PROVE FALSE
    BY <2>4 DEF ResolveCreate, Discard, roomVars
  <2> QED  BY <1>1, <2>1, <2>2, <2>3, <2>4, WhoChangesRooms, ConstantsAssumption DEF roomVars
<1>2. QED  BY <1>1, SeatsAlways, TypeCorrect, RegistryInvHolds, PTL DEF Spec, StaleConnectionHarmless
-----------------------------------------------------------------------------
(* Rooms: limits, streams, and no empty room left behind.                  *)

LEMMA MadeStaysMade ==
  ASSUME TypeOK, SeatsInv, RegistryInv, [Next]_vars, NEW r \in Rooms, status[r] # "unused"
  PROVE  status'[r] # "unused" /\ kindOf'[r] = kindOf[r] /\ chatOf'[r] = chatOf[r]
<1> USE DEF roomVars, fixedVars, hubVars
<1>1. ASSUME NEW c \in Conns, ResolveCreate(c) PROVE status'[r] # "unused" /\ UNCHANGED <<kindOf[r], chatOf[r]>>
  BY <1>1 DEF ResolveCreate, TypeOK
<1>2. ASSUME NEW c \in Conns, Rebind(c) \/ Register(c) \/ Discard(c)
      PROVE  status'[r] # "unused" /\ UNCHANGED <<kindOf[r], chatOf[r]>>
  BY <1>2 DEF Rebind, Register, Discard, TypeOK
<1>3. ASSUME NEW c \in Conns, NEW dies \in BOOLEAN, LeaveSlot(c, dies)
      PROVE  status'[r] # "unused" /\ UNCHANGED <<kindOf[r], chatOf[r]>>
  BY <1>3 DEF LeaveSlot, TypeOK
<1>4. ASSUME NEW p \in Procs, End(p), Open(target[p])
      PROVE  status'[r] # "unused" /\ UNCHANGED <<kindOf[r], chatOf[r]>>
  BY <1>4 DEF End, TypeOK
<1> QED  BY <1>1, <1>2, <1>3, <1>4, WhoChangesRooms

\* Whoever takes up a room takes up one that has been made.
LEMMA TouchedStep ==
  ASSUME TypeOK, SeatsInv, RegistryInv, TouchedAreMade, [Next]_vars
  PROVE  TouchedAreMade'
<1> USE DEF sharedVars, hubVars, roomVars, fixedVars, storeVars, noteVars, opVars, connVars, localVars
<1>0. \A r \in Rooms : status[r] # "unused" => status'[r] # "unused"
  BY MadeStaysMade
<1>1. rooms' \union queue' \subseteq {r \in Rooms : status'[r] # "unused"}
  <2>1. ASSUME NEW c \in Conns, Join(c) PROVE rooms' \union queue' \subseteq {r \in Rooms : status'[r] # "unused"}
    <3>1. CASE ResolveCreate(c)
      BY <1>0, <3>1 DEF ResolveCreate, TouchedAreMade, TypeOK
    <3>2. CASE ~ResolveCreate(c)
      <4>1. rooms' \subseteq rooms /\ queue' = queue
        BY <2>1, <3>2 DEF Join, JoinFrame, CheckMember, ResolveFound, ResolveFails,
              CheckPublisher, Discard, DiscardForget, RegisterRefused, CreateCall,
              CallStarted, Persist, Unregister, Rebind, Register
      <4> QED  BY <1>0, <4>1 DEF TouchedAreMade
    <3> QED  BY <3>1, <3>2
  <2>2. ASSUME NEW c \in Conns, Leave(c) \/ Disconnect(c) \/ CloseRow(c) \/ Decline(c)
        PROVE  UNCHANGED <<rooms, queue>>
    BY <2>2 DEF Leave, LeaveNothing, LeaveSlot, QuitRoom, Disconnect, CloseRow, Decline, DeclineFrame,
                DeclineMember, DeclineCount
  <2>3. ASSUME NEW p \in Procs, EndRoom(p) PROVE rooms' \subseteq rooms /\ queue' = queue
    BY <2>3 DEF EndRoom, End, CloseRows, Forget, EndCall, CallEnded, Unregister
  <2>4. ASSUME Shutdown \/ CloseNext \/ Exit \/ Environment \/ UNCHANGED vars
        PROVE  rooms' = rooms /\ queue' \subseteq rooms \union queue
    BY <2>4 DEF Shutdown, CloseNext, Exit, Environment, ChangeMembers, DeleteChatCall, vars
  <2> QED  BY <1>0, <2>1, <2>2, <2>3, <2>4 DEF Next, TouchedAreMade
<1>2. ASSUME NEW p \in Procs, OnlyActs(p), pc'[p] \in Working => status'[target'[p]] # "unused"
      PROVE  \A q \in Procs : pc'[q] \in Working => status'[target'[q]] # "unused"
  BY <1>0, <1>2 DEF OnlyActs, OnlyMoves, TouchedAreMade, RegistryInv
<1>3. ASSUME NEW p \in Procs, pc[p] \in Working, target'[p] = target[p] PROVE status'[target'[p]] # "unused"
  BY <1>0, <1>3 DEF TouchedAreMade, RegistryInv
<1>4. ASSUME NEW p \in Procs, Return(p) PROVE pc'[p] \notin Working
  BY <1>4, ReturnActs DEF Working, Joining, Ending
<1>5. ASSUME NEW c \in Conns, Join(c) PROVE pc'[c] \in Working => status'[target'[c]] # "unused"
  <2>0. c \in Procs
    BY DEF Procs
  <2>1. CASE JoinFrame(c) \/ (CheckMember(c) /\ ~Return(c))
    BY <2>0, <2>1 DEF JoinFrame, CheckMember, Goto, TypeOK, Working, Joining, Ending
  <2>2. CASE ResolveFound(c)
    <3>1. PICK r \in Rooms : Open(r) /\ target' = [target EXCEPT ![c] = r] /\ status' = status
      BY <2>2 DEF ResolveFound, Found
    <3> QED  BY <2>0, <3>1 DEF Open, TypeOK
  <2>3. CASE ResolveCreate(c)
    BY <2>0, <2>3 DEF ResolveCreate, TypeOK
  <2>4. CASE Return(c)
    BY <1>4, <2>0, <2>4
  <2>5. CASE ~Return(c) /\ ~JoinFrame(c) /\ ~CheckMember(c) /\ ~ResolveFound(c) /\ ~ResolveCreate(c)
    <3>1. pc[c] \in Working /\ target' = target
      BY <1>5, <2>5 DEF Join, CheckPublisher, Discard, Rebind, Register, CreateCall, CallStarted,
            ResolveFails, DiscardForget, RegisterRefused, Persist, Working, Joining, Ending
    <3> QED  BY <1>3, <2>0, <3>1
  <2> QED  BY <2>1, <2>2, <2>3, <2>4, <2>5
<1>6. ASSUME NEW c \in Conns, Leave(c) \/ Disconnect(c) \/ CloseRow(c) \/ Decline(c)
      PROVE  pc'[c] \in Working => status'[target'[c]] # "unused"
  <2>0. c \in Procs
    BY DEF Procs
  <2>1. CASE Leave(c)
    <3>1. CASE \E dies \in BOOLEAN : LeaveNothing(c, dies)
      BY <2>0, <3>1 DEF LeaveNothing, TypeOK, Working, Joining, Ending
    <3>2. CASE \E dies \in BOOLEAN : LeaveSlot(c, dies)
      <4>1. cur[c] \in Rooms /\ Open(cur[c]) /\ target'[c] = cur[c]
        BY <2>0, <3>2 DEF LeaveSlot, QuitRoom, OwnsSlot, TypeOK
      <4> QED  BY <1>0, <4>1 DEF Open
    <3> QED  BY <2>1, <3>1, <3>2 DEF Leave
  <2>2. CASE Disconnect(c)
    BY <2>0, <2>2 DEF Disconnect, Goto, TypeOK, Working, Joining, Ending
  <2>3. CASE DeclineFrame(c)
    <3>1. PICK r \in rooms : Open(r) /\ target' = [target EXCEPT ![c] = r] /\ status' = status
      BY <2>3 DEF DeclineFrame
    <3> QED  BY <2>0, <3>1 DEF Open, TypeOK
  <2>4. CASE Return(c)
    BY <1>4, <2>0, <2>4
  <2>5. CASE (CloseRow(c) \/ DeclineMember(c) \/ DeclineCount(c)) /\ ~Return(c)
    <3>1. pc[c] \in Working /\ target' = target
      BY <2>5 DEF CloseRow, DeclineMember, DeclineCount, Working
    <3> QED  BY <1>3, <2>0, <3>1
  <2> QED  BY <1>6, <2>1, <2>2, <2>3, <2>4, <2>5 DEF Decline
<1>7. ASSUME NEW p \in Procs, EndRoom(p) PROVE pc'[p] \in Working => status'[target'[p]] # "unused"
  <2>1. CASE Return(p)
    BY <1>4, <2>1
  <2>2. CASE ~Return(p)
    <3>1. pc[p] \in Working /\ target' = target
      BY <1>7, <2>2 DEF EndRoom, End, CloseRows, Forget, EndCall, CallEnded, Working, Ending
    <3> QED  BY <1>3, <3>1
  <2> QED  BY <2>1, <2>2
<1>8. ASSUME Shutdown \/ CloseNext \/ Exit
      PROVE  pc'[Server] \in Working => status'[target'[Server]] # "unused"
  <2>0. Server \in Procs
    BY DEF Procs
  <2>1. CASE Shutdown \/ Exit
    BY <2>0, <2>1 DEF Shutdown, Exit, Goto, TypeOK, Working, Joining, Ending
  <2>2. CASE CloseNext
    BY <2>0, <2>2 DEF CloseNext, TouchedAreMade, TypeOK
  <2> QED  BY <1>8, <2>1, <2>2
<1>9. UNCHANGED <<pc, target>> => \A q \in Procs : pc'[q] \in Working => status'[target'[q]] # "unused"
  BY <1>0 DEF TouchedAreMade, RegistryInv
<1> QED
  <2>1. Server \in Procs /\ Conns \subseteq Procs
    BY DEF Procs
  <2>2. \A q \in Procs : pc'[q] \in Working => status'[target'[q]] # "unused"
    BY <1>2, <1>5, <1>6, <1>7, <1>8, <1>9, <2>1, SomebodyActs
  <2> QED  BY <1>1, <2>2 DEF TouchedAreMade

\* Who is about to register in a stream as its publisher has been vouched for.
LEMMA VouchedStep ==
  ASSUME TypeOK, SeatsInv, RegistryInv, TouchedAreMade, Vouched, [Next]_vars
  PROVE  Vouched'
<1> USE DEF sharedVars, hubVars, roomVars, fixedVars, opVars, connVars, localVars
<1> SUFFICES ASSUME NEW c \in Conns, pc'[c] = "register", kindOf'[target'[c]] = "broadcast",
                    req'[c].role = "publisher"
             PROVE  UserOf[c] \in Streamers
  BY DEF Vouched
<1>0. c \in Procs /\ Conns \subseteq Procs
  BY DEF Procs
<1>1. CASE pc[c] = "register" /\ target'[c] = target[c] /\ req'[c] = req[c]
  <2>1. target[c] \in Rooms /\ status[target[c]] # "unused"
    BY <1>0, <1>1 DEF TouchedAreMade, RegistryInv, Working, Joining
  <2> QED  BY <1>1, <2>1, MadeStaysMade DEF Vouched
<1>2. CASE Join(c)
  <2>1. CASE CheckPublisher(c) /\ ~Return(c)
    <3>1. /\ UNCHANGED <<kindOf, target, req>>
          /\ req[c].role = "publisher" /\ kindOf[target[c]] = "broadcast" => UserOf[c] \in Streamers
             \/ Goto(c, "discard")
      BY <2>1 DEF CheckPublisher
    <3> QED  BY <1>0, <3>1 DEF Goto, TypeOK
  <2>2. CASE Return(c)
    BY <1>0, <2>2, ReturnActs
  <2>3. CASE ~Return(c) /\ ~CheckPublisher(c)
    BY <1>0, <1>2, <2>3 DEF Join, JoinFrame, CheckMember, ResolveFound, ResolveCreate, Discard, Rebind,
       Register, CreateCall, CallStarted, ResolveFails, DiscardForget, RegisterRefused, Persist, Goto, TypeOK
  <2> QED  BY <2>1, <2>2, <2>3
<1>3. CASE Leave(c) \/ Disconnect(c) \/ CloseRow(c) \/ Decline(c)
  <2>1. CASE Return(c)
    BY <1>0, <2>1, ReturnActs
  <2>2. CASE ~Return(c)
    BY <1>0, <1>3, <2>2 DEF Leave, LeaveNothing, LeaveSlot, Disconnect, CloseRow, Decline, DeclineFrame,
                DeclineMember, DeclineCount, Goto, TypeOK
  <2> QED  BY <2>1, <2>2
<1>4. CASE EndRoom(c)
  <2>1. CASE Return(c)
    BY <1>0, <2>1, ReturnActs
  <2>2. CASE ~Return(c)
    BY <1>0, <1>4, <2>2 DEF EndRoom, End, CloseRows, Forget, EndCall, CallEnded, Goto, TypeOK
  <2> QED  BY <2>1, <2>2
<1>5. CASE \E p \in Procs \ {c} : OnlyActs(p)
  <2>1. pc'[c] = pc[c] /\ target'[c] = target[c] /\ req'[c] = req[c]
    BY <1>0, <1>5 DEF OnlyActs, OnlyMoves
  <2> QED  BY <1>1, <2>1
<1>6. CASE UNCHANGED <<pc, localVars>>
  BY <1>1, <1>6
<1>7. Server # c /\ Server \in Procs
  BY ConstantsAssumption DEF Procs
<1> QED  BY <1>0, <1>2, <1>3, <1>4, <1>5, <1>6, <1>7, SomebodyActs

\* A stream gets a publisher only when it has none, and one it lets publish.
LEMMA StreamsStep ==
  ASSUME TypeOK, SeatsInv, RegistryInv, Vouched, PublishersAreIn, StreamDiscipline, [Next]_vars
  PROVE  PublishersAreIn' /\ StreamDiscipline'
<1> USE DEF PublishersAreIn, StreamDiscipline
<1>1. CASE UNCHANGED <<status, kindOf, chatOf, topology, slot, publishers>>
  BY <1>1 DEF Participants
<1>2. ASSUME NEW r \in Rooms, Makes(r) PROVE PublishersAreIn' /\ StreamDiscipline'
  <2>1. UNCHANGED <<slot, publishers>> /\ publishers[r] = {} /\ \A x \in Rooms : x # r => kindOf'[x] = kindOf[x]
    BY <1>2 DEF Makes, TypeOK
  <2> QED  BY <2>1 DEF Participants
<1>3. ASSUME NEW r \in Rooms, Closes(r) PROVE PublishersAreIn' /\ StreamDiscipline'
  BY <1>3 DEF Closes, Participants
<1>4. ASSUME NEW r \in Rooms, NEW c \in Conns, Seats(r, c) PROVE PublishersAreIn' /\ StreamDiscipline'
  <2> DEFINE u == UserOf[c]
  <2>1. u \in Users /\ c # None /\ kindOf' = kindOf
    BY <1>4, ConstantsAssumption DEF Seats
  <2>2. /\ Participants(r)' = Participants(r) \union {u}
        /\ \A x \in Rooms : x # r => Participants(x)' = Participants(x)
    BY <1>4, <2>1, SeatChanges DEF Seats
  <2>3. CASE publishers' = publishers
    BY <2>1, <2>2, <2>3
  <2>4. CASE publishers' # publishers
    <3>1. ~Refused(r, c) /\ u \notin Participants(r) /\ RoleIn(r, c) = "publisher"
          /\ publishers' = [publishers EXCEPT ![r] = @ \union {u}]
      BY <1>4, <2>4 DEF Seats, Enter
    <3>2. kindOf[r] = "broadcast" => publishers[r] = {} /\ u \in Streamers
      BY <1>4, <3>1 DEF Seats, Refused, RoleIn, Vouched
    <3>3. publishers'[r] = publishers[r] \union {u} /\ \A x \in Rooms : x # r => publishers'[x] = publishers[x]
      BY <3>1 DEF TypeOK
    <3> QED  BY <2>1, <2>2, <3>2, <3>3
  <2> QED  BY <2>3, <2>4
<1>5. ASSUME NEW r \in Rooms, NEW c \in Conns, Vacates(r, c) PROVE PublishersAreIn' /\ StreamDiscipline'
  <2> DEFINE u == UserOf[c]
  <2>1. /\ Participants(r)' = Participants(r) \ {u} /\ kindOf' = kindOf
        /\ \A x \in Rooms : x # r => Participants(x)' = Participants(x)
    BY <1>5, ConstantsAssumption, SeatChanges DEF Vacates
  <2>2. publishers'[r] = publishers[r] \ {u} /\ \A x \in Rooms : x # r => publishers'[x] = publishers[x]
    BY <1>5 DEF Vacates, TypeOK
  <2> QED  BY <2>1, <2>2
<1>6. ASSUME NEW r \in Rooms, Empties(r) PROVE PublishersAreIn' /\ StreamDiscipline'
  <2>1. /\ Participants(r)' = {} /\ kindOf' = kindOf
        /\ \A x \in Rooms : x # r => Participants(x)' = Participants(x)
    BY <1>6, SeatsCleared DEF Empties
  <2>2. publishers'[r] = {} /\ \A x \in Rooms : x # r => publishers'[x] = publishers[x]
    BY <1>6 DEF Empties, TypeOK
  <2> QED  BY <2>1, <2>2
<1> QED  BY <1>1, <1>2, <1>3, <1>4, <1>5, <1>6, RoomSteps

LEMMA FinitelyMany ==
  ASSUME NEW r \in Rooms
  PROVE  IsFiniteSet(Participants(r)) /\ Cardinality(Participants(r)) \in Nat
<1>1. Participants(r) \in SUBSET Users
  BY DEF Participants
<1> QED  BY <1>1, FS_Subset, FS_CardinalityType, ConstantsAssumption

\* No step fills a mesh, or a call, beyond its limit.
LEMMA LimitsStep ==
  ASSUME TypeOK, SeatsInv, RegistryInv, WithinLimits, [Next]_vars
  PROVE  WithinLimits'
<1> DEFINE Fits(r) == /\ Cardinality(Participants(r)) <= MaxParticipants
                      /\ topology[r] = "mesh" => Cardinality(Participants(r)) <= MeshLimit
<1>0. MaxParticipants \in Nat \ {0} /\ MeshLimit \in Nat \ {0}
  BY ConstantsAssumption
<1> SUFFICES ASSUME NEW x \in Rooms PROVE Fits(x)'
  BY DEF WithinLimits
<1>1. Fits(x)
  BY DEF WithinLimits
<1>2. CASE Participants(x)' = Participants(x) /\ topology'[x] = topology[x]
  BY <1>1, <1>2
<1>3. CASE Participants(x)' = {}
  <2>1. Cardinality(Participants(x)') = 0
    BY <1>3, FS_EmptySet
  <2> QED  BY <1>0, <2>1
<1>4. CASE UNCHANGED <<status, kindOf, chatOf, topology, slot, publishers>>
  BY <1>2, <1>4 DEF Participants
<1>5. ASSUME NEW r \in Rooms, Makes(r) PROVE Fits(x)'
  <2>1. Participants(x)' = Participants(x) /\ (x = r => Participants(x) = {})
    BY <1>5 DEF Makes, Participants
  <2>2. x # r => topology'[x] = topology[x]
    BY <1>5 DEF Makes, TypeOK
  <2> QED  BY <1>2, <1>3, <2>1, <2>2
<1>6. ASSUME NEW r \in Rooms, Closes(r) PROVE Fits(x)'
  BY <1>2, <1>6 DEF Closes, Participants
<1>7. ASSUME NEW r \in Rooms, NEW c \in Conns, Seats(r, c) PROVE Fits(x)'
  <2> DEFINE u == UserOf[c]
  <2>1. u \in Users /\ c # None
    BY ConstantsAssumption
  <2>2. /\ Participants(r)' = Participants(r) \union {u}
        /\ x # r => Participants(x)' = Participants(x)
    BY <1>7, <2>1, SeatChanges DEF Seats
  <2>3. CASE u \in Participants(r)
    <3>1. topology' = topology /\ Participants(x)' = Participants(x)
      BY <1>7, <2>2, <2>3 DEF Seats
    <3> QED  BY <1>2, <3>1
  <2>4. CASE x # r
    <3>1. topology'[x] = topology[x]
      BY <1>7, <2>4 DEF Seats, Escalation, TypeOK
    <3> QED  BY <1>2, <2>2, <2>4, <3>1
  <2>5. CASE x = r /\ u \notin Participants(r)
    <3>1. ~Refused(r, c) /\ Escalation(r)
      BY <1>7, <2>5 DEF Seats
    <3>2. Cardinality(Participants(r)) < MaxParticipants /\ Cardinality(Participants(r)) \in Nat
      BY <1>0, <2>5, <3>1, FinitelyMany DEF Refused
    <3>3. Cardinality(Participants(r)') = Cardinality(Participants(r)) + 1
      BY <2>2, <2>5, FinitelyMany, FS_AddElement
    <3>4. topology'[r] = "mesh" => Cardinality(Participants(r)) < MeshLimit
      BY <1>0, <3>1, <3>2 DEF Escalation, TypeOK
    <3> QED  BY <1>0, <2>5, <3>2, <3>3, <3>4
  <2> QED  BY <2>3, <2>4, <2>5
<1>8. ASSUME NEW r \in Rooms, NEW c \in Conns, Vacates(r, c) PROVE Fits(x)'
  <2> DEFINE u == UserOf[c]
  <2>1. /\ Participants(r)' = Participants(r) \ {u} /\ topology' = topology
        /\ x # r => Participants(x)' = Participants(x)
    BY <1>8, ConstantsAssumption, SeatChanges DEF Vacates
  <2>2. CASE x = r
    <3>1. /\ Cardinality(Participants(r)') <= Cardinality(Participants(r))
          /\ Cardinality(Participants(r)') \in Nat /\ Cardinality(Participants(r)) \in Nat
      <4>1. IsFiniteSet(Participants(r)) /\ Cardinality(Participants(r)) \in Nat
        BY FinitelyMany
      <4>2. /\ IsFiniteSet(Participants(r) \ {u})
            /\ Cardinality(Participants(r) \ {u}) =
                 IF u \in Participants(r) THEN Cardinality(Participants(r)) - 1 ELSE Cardinality(Participants(r))
        BY <4>1, FS_RemoveElement
      <4>3. Cardinality(Participants(r) \ {u}) \in Nat
        BY <4>2, FS_CardinalityType
      <4> QED  BY <2>1, <4>1, <4>2, <4>3
    <3> QED  BY <1>0, <1>1, <2>1, <2>2, <3>1
  <2> QED  BY <1>2, <2>1, <2>2
<1>9. ASSUME NEW r \in Rooms, Empties(r) PROVE Fits(x)'
  <2>1. /\ Participants(r)' = {} /\ topology' = topology
        /\ x # r => Participants(x)' = Participants(x)
    BY <1>9, SeatsCleared DEF Empties
  <2> QED  BY <1>2, <1>3, <2>1
<1> QED  BY <1>4, <1>5, <1>6, <1>7, <1>8, <1>9, RoomSteps

\* A Join that made its room holds on to it until somebody is in it or it is gone.
LEMMA FounderStays ==
  ASSUME TypeOK, SeatsInv, RegistryInv, PublishersAreIn, [Next]_vars,
         NEW r \in Rooms, Open(r)', Participants(r)' = {}, Participants(r) = {},
         NEW c \in Conns, c \in mine, target[c] = r, pc[c] \in {"checkPublisher", "discard", "register"}
  PROVE  c \in mine' /\ target'[c] = r /\ pc'[c] \in {"checkPublisher", "discard", "register"}
<1> USE DEF sharedVars, hubVars, roomVars, fixedVars, opVars, connVars, localVars
<1>0. c \in Procs /\ Server \in Procs /\ Server # c
  BY ConstantsAssumption DEF Procs
<1>1. CASE Join(c)
  <2>1. CASE CheckPublisher(c)
    BY <1>0, <2>1 DEF CheckPublisher, Goto, TypeOK
  <2>2. CASE Discard(c)
    <3>1. Open(r) /\ Participants(r) = {} => status'[r] = "closed"
      BY <2>2 DEF Discard, TypeOK
    <3>2. Open(r) \/ status' = status
      BY <2>2 DEF Discard
    <3> QED  BY <3>1, <3>2 DEF Open
  <2>3. CASE RegisterRefused(c)
    <3>1. Open(r) /\ Cardinality(Participants(r)) = 0 /\ publishers[r] = {}
      BY <2>3, FS_EmptySet DEF RegisterRefused, Open, PublishersAreIn
    <3>2. ~(0 >= MaxParticipants)
      BY ConstantsAssumption
    <3> QED  BY <2>3, <3>1, <3>2 DEF RegisterRefused, Refused
  <2>4. CASE Rebind(c) \/ Register(c)
    <3>1. slot' = [slot EXCEPT ![r][UserOf[c]] = c] /\ c # None /\ UserOf[c] \in Users
      BY <2>4, ConstantsAssumption DEF Rebind, Register, Enter
    <3>2. UserOf[c] \in Participants(r)'
      BY <3>1, SeatChanges
    <3> QED  BY <3>2
  <2>5. CASE ~(CheckPublisher(c) \/ Discard(c) \/ RegisterRefused(c) \/ Rebind(c) \/ Register(c))
    BY <1>1, <2>5 DEF Join, JoinFrame, CheckMember, ResolveFound, ResolveCreate, ResolveFails,
        DiscardForget, CreateCall, CallStarted, Persist
  <2> QED  BY <2>1, <2>2, <2>3, <2>4, <2>5
<1>2. CASE Leave(c) \/ Disconnect(c) \/ CloseRow(c) \/ Decline(c) \/ EndRoom(c)
  BY <1>2 DEF Leave, LeaveNothing, LeaveSlot, QuitRoom, Disconnect, CloseRow, Decline, DeclineFrame,
              DeclineMember, DeclineCount, EndRoom, End, CloseRows, Forget, EndCall, CallEnded
<1>3. CASE \E p \in Procs : p # c /\ OnlyActs(p)
  BY <1>0, <1>3 DEF OnlyActs, OnlyMoves
<1>4. CASE UNCHANGED <<pc, localVars>>
  BY <1>4
<1> QED  BY <1>0, <1>1, <1>2, <1>3, <1>4, SomebodyActs DEF Procs

LEMMA OrphansStep ==
  ASSUME TypeOK, SeatsInv, RegistryInv, PublishersAreIn, NoOrphanRoom, [Next]_vars
  PROVE  NoOrphanRoom'
<1> SUFFICES ASSUME NEW r \in Rooms, Open(r)', Participants(r)' = {}
             PROVE  \E c \in mine' : target'[c] = r /\ pc'[c] \in {"checkPublisher", "discard", "register"}
  BY DEF NoOrphanRoom
<1>1. CASE Open(r) /\ Participants(r) = {}
  <2>1. PICK c \in mine : target[c] = r /\ pc[c] \in {"checkPublisher", "discard", "register"}
    BY <1>1 DEF NoOrphanRoom
  <2>2. c \in Conns
    BY DEF TypeOK
  <2> QED  BY <1>1, <2>1, <2>2, FounderStays
<1>2. CASE ~Open(r)
  <2>1. PICK c \in Conns : ResolveCreate(c) /\ target'[c] = r
    <3>1. CASE UNCHANGED roomVars
      BY <1>2, <3>1 DEF roomVars, Open
    <3>2. ASSUME NEW c \in Conns, ResolveCreate(c) PROVE target'[c] = r
      <4>1. PICK x \in Rooms : status' = [status EXCEPT ![x] = "open"] /\ target' = [target EXCEPT ![c] = x]
        BY <3>2 DEF ResolveCreate
      <4> QED  BY <1>2, <4>1 DEF Open, TypeOK, Procs
    <3>3. ASSUME NEW c \in Conns, Rebind(c) \/ Register(c) \/ Discard(c) PROVE FALSE
      BY <1>2, <3>3 DEF Rebind, Register, Discard, Open, TypeOK, roomVars
    <3>4. ASSUME NEW c \in Conns, NEW dies \in BOOLEAN, LeaveSlot(c, dies) PROVE FALSE
      BY <1>2, <3>4 DEF LeaveSlot, Open, TypeOK
    <3>5. ASSUME NEW p \in Procs, End(p), Open(target[p]) PROVE FALSE
      BY <1>2, <3>5 DEF End, Open, TypeOK
    <3> QED  BY <3>1, <3>2, <3>3, <3>4, <3>5, WhoChangesRooms
  <2>2. c \in mine' /\ pc'[c] = "checkPublisher"
    BY <2>1 DEF ResolveCreate, Goto, TypeOK, Procs
  <2> QED  BY <2>1, <2>2
<1>3. CASE Participants(r) # {}
  <2>1. CASE UNCHANGED <<status, kindOf, chatOf, topology, slot, publishers>>
    BY <1>3, <2>1 DEF Participants
  <2>2. ASSUME NEW x \in Rooms, Makes(x) \/ Closes(x) PROVE FALSE
    BY <1>3, <2>2 DEF Makes, Closes, Participants
  <2>3. ASSUME NEW x \in Rooms, NEW c \in Conns, Seats(x, c) PROVE FALSE
    <3>1. UserOf[c] \in Users /\ c # None
      BY ConstantsAssumption
    <3>2. Participants(r)' = Participants(r) \/ UserOf[c] \in Participants(r)'
      BY <2>3, <3>1, SeatChanges DEF Seats
    <3> QED  BY <1>3, <3>2
  <2>4. ASSUME NEW x \in Rooms, NEW c \in Conns, Vacates(x, c) PROVE FALSE
    <3>1. UserOf[c] \in Users
      BY ConstantsAssumption
    <3>2. /\ Participants(x)' = Participants(x) \ {UserOf[c]}
          /\ x # r => Participants(r)' = Participants(r)
      BY <2>4, <3>1, SeatChanges DEF Vacates
    <3>3. x = r /\ status'[r] = "closed"
      BY <1>3, <2>4, <3>2 DEF Vacates, TypeOK
    <3> QED  BY <3>3 DEF Open
  <2>5. ASSUME NEW x \in Rooms, Empties(x) PROVE FALSE
    <3>1. x # r => Participants(r)' = Participants(r)
      BY <2>5, SeatsCleared DEF Empties
    <3>2. x = r /\ status'[r] = "closed"
      BY <1>3, <2>5, <3>1 DEF Empties, TypeOK
    <3> QED  BY <3>2 DEF Open
  <2> QED  BY <2>1, <2>2, <2>3, <2>4, <2>5, RoomSteps
<1> QED  BY <1>1, <1>2, <1>3

LEMMA RoomsStart == Init => RoomsInv
<1> SUFFICES ASSUME Init PROVE RoomsInv
  OBVIOUS
<1>1. TouchedAreMade /\ Vouched
  BY ConstantsAssumption DEF Init, TouchedAreMade, Vouched, Working, Joining, Ending, Procs
<1>2. \A r \in Rooms : Participants(r) = {} /\ publishers[r] = {} /\ ~Open(r)
  BY DEF Init, Participants, Open
<1>3. PublishersAreIn /\ StreamDiscipline /\ NoOrphanRoom
  BY <1>2 DEF PublishersAreIn, StreamDiscipline, NoOrphanRoom
<1>4. WithinLimits
  BY <1>2, FS_EmptySet, ConstantsAssumption DEF WithinLimits
<1> QED  BY <1>1, <1>3, <1>4 DEF RoomsInv

LEMMA RoomsStep == TypeOK /\ SeatsInv /\ RegistryInv /\ RoomsInv /\ [Next]_vars => RoomsInv'
BY TouchedStep, VouchedStep, StreamsStep, LimitsStep, OrphansStep DEF RoomsInv

LEMMA RoomsAlways == Spec => []RoomsInv
BY RoomsStart, RoomsStep, SeatsAlways, RegistryInvHolds, TypeCorrect, PTL DEF Spec

\* No call is ever larger than MaxParticipants and no mesh larger than MeshLimit
\* (WithinLimits): Hub.Join counts and moves to the SFU in one critical section.
THEOREM CallsStayWithinLimits == Spec => []WithinLimits
<1>1. RoomsInv => WithinLimits
  BY DEF RoomsInv
<1> QED  BY <1>1, RoomsAlways, PTL

\* A live stream has at most one publisher, one the chat lets publish (StreamDiscipline).
THEOREM StreamsKeepDiscipline == Spec => []StreamDiscipline
<1>1. RoomsInv => StreamDiscipline
  BY DEF RoomsInv
<1> QED  BY <1>1, RoomsAlways, PTL

\* No empty room is left behind to shadow the next call of its chat (NoOrphanRoom).
THEOREM NoRoomIsOrphaned == Spec => []NoOrphanRoom
<1>1. RoomsInv => NoOrphanRoom
  BY DEF RoomsInv
<1> QED  BY <1>1, RoomsAlways, PTL
-----------------------------------------------------------------------------
(* Told once: who takes a call apart, and who announces it, is alone at it. *)

LEMMA ClosedStaysClosed ==
  ASSUME TypeOK, SeatsInv, RegistryInv, [Next]_vars, NEW r \in Rooms, Closed(r)
  PROVE  Closed(r)'
<1>1. CASE UNCHANGED status
  BY <1>1 DEF Closed
<1>2. ASSUME NEW x \in Rooms, Makes(x) \/ Closes(x) \/ Empties(x) PROVE Closed(r)'
  BY <1>2 DEF Makes, Closes, Empties, Closed, TypeOK
<1>3. ASSUME NEW x \in Rooms, NEW c \in Conns, Seats(x, c) \/ Vacates(x, c) PROVE Closed(r)'
  BY <1>3 DEF Seats, Vacates, Closed, TypeOK
<1> QED  BY <1>1, <1>2, <1>3, RoomSteps

\* Who gets past closing a room closes it himself, or was there before.
LEMMA WhoGetsPast ==
  ASSUME TypeOK, SeatsInv, RegistryInv, [Next]_vars, NEW p \in Procs, PastClosing(p)'
  PROVE  (PastClosing(p) /\ target'[p] = target[p]) \/ Open(target'[p])
<1> USE DEF sharedVars, hubVars, roomVars, fixedVars, opVars, connVars, localVars
<1>0. Conns \subseteq Procs /\ Server \in Procs /\ Server \notin Conns
  BY ConstantsAssumption DEF Procs
<1>1. CASE p \in Conns /\ Join(p)
  <2>1. CASE Return(p)
    BY <2>1, ReturnActs DEF PastClosing, Closing
  <2>2. CASE Discard(p) /\ ~Return(p)
    BY <2>2 DEF Discard
  <2>3. CASE ~Return(p) /\ ~Discard(p)
    <3>1. pc'[p] \notin Closing \union {"closeRow"}
      BY <1>0, <1>1, <2>3 DEF Join, JoinFrame, CheckMember, ResolveFound, ResolveCreate, ResolveFails,
         CheckPublisher, DiscardForget, RegisterRefused, Rebind, Register, CreateCall,
         CallStarted, Persist, Goto, TypeOK, Closing
    <3> QED  BY <3>1 DEF PastClosing
  <2> QED  BY <2>1, <2>2, <2>3
<1>2. CASE p \in Conns /\ (Leave(p) \/ Disconnect(p) \/ CloseRow(p) \/ Decline(p))
  <2>1. CASE Return(p)
    BY <2>1, ReturnActs DEF PastClosing, Closing
  <2>2. ASSUME NEW dies \in BOOLEAN, LeaveSlot(p, dies) PROVE Open(target'[p])
    BY <1>0, <2>2 DEF LeaveSlot, OwnsSlot, TypeOK
  <2>3. CASE CloseRow(p) /\ ~Return(p)
    <3>1. pc[p] = "closeRow" /\ target' = target /\ pc'[p] = after[p] /\ after[p] # "return"
      BY <1>0, <2>3 DEF CloseRow, Goto, TypeOK
    <3>2. after[p] \in {"end", "forget"} \/ p \notin Conns
      BY <3>1 DEF TypeOK
    <3> QED  BY <1>2, <3>1, <3>2 DEF PastClosing, Closing
  <2>4. CASE ~Return(p) /\ ~CloseRow(p) /\ ~\E dies \in BOOLEAN : LeaveSlot(p, dies)
    <3>1. pc'[p] \notin Closing \union {"closeRow"}
      BY <1>0, <1>2, <2>4 DEF Leave, LeaveNothing, Disconnect, Decline, DeclineFrame, DeclineMember,
         DeclineCount, Goto, TypeOK, Closing
    <3> QED  BY <3>1 DEF PastClosing
  <2> QED  BY <2>1, <2>2, <2>3, <2>4
<1>3. CASE EndRoom(p)
  <2>1. CASE Return(p)
    BY <2>1, ReturnActs DEF PastClosing, Closing
  <2>2. CASE End(p) /\ ~Return(p)
    BY <2>2 DEF End
  <2>3. CASE ~End(p) /\ ~Return(p)
    BY <1>3, <2>3 DEF EndRoom, CloseRows, Forget, EndCall, CallEnded, PastClosing, Closing
  <2> QED  BY <2>1, <2>2, <2>3
<1>4. CASE p = Server /\ (Shutdown \/ CloseNext \/ Exit)
  BY <1>0, <1>4 DEF Shutdown, CloseNext, Exit, Goto, TypeOK, PastClosing, Closing
<1>5. CASE \E q \in Procs : q # p /\ OnlyActs(q)
  BY <1>5 DEF OnlyActs, OnlyMoves, PastClosing
<1>6. CASE UNCHANGED <<pc, localVars>>
  BY <1>6 DEF PastClosing
<1> QED  BY <1>0, <1>1, <1>2, <1>3, <1>4, <1>5, <1>6, SomebodyActs

LEMMA OneCloserStep ==
  ASSUME TypeOK, SeatsInv, RegistryInv, OneCloser, [Next]_vars
  PROVE  OneCloser'
<1> SUFFICES ASSUME NEW p \in Procs, NEW q \in Procs, PastClosing(p)', PastClosing(q)',
                    target'[p] = target'[q], p # q
             PROVE  FALSE
  BY DEF OneCloser
<1> DEFINE Still(a) == PastClosing(a) /\ target'[a] = target[a]
<1>1. /\ Still(p) \/ Open(target'[p])
      /\ Still(q) \/ Open(target'[q])
  BY WhoGetsPast
<1>2. ~(Still(p) /\ Still(q))
  BY DEF OneCloser
<1>3. \A a \in {p, q} : Still(a) => ~Open(target'[a])
  BY DEF RegistryInv, Open, Closed
<1>4. Still(p) \/ Still(q)
  <2>1. CASE UNCHANGED <<pc, localVars>>
    BY <2>1 DEF PastClosing, localVars, opVars
  <2>2. ASSUME NEW a \in Procs, OnlyActs(a), a # p PROVE Still(p)
    BY <2>2 DEF OnlyActs, OnlyMoves, PastClosing
  <2>3. ASSUME NEW a \in Procs, OnlyActs(a), a # q PROVE Still(q)
    BY <2>3 DEF OnlyActs, OnlyMoves, PastClosing
  <2> QED  BY <2>1, <2>2, <2>3, SomebodyActs DEF Procs
<1> QED  BY <1>1, <1>2, <1>3, <1>4

\* Who has a call to announce has had it since it made the room.
LEMMA WhoFounds ==
  ASSUME TypeOK, MakersAnnounce, [Next]_vars,
         NEW c \in Conns, NEW r \in Rooms, Founder(c, r)'
  PROVE  Founder(c, r) \/ status[r] = "unused"
<1> USE DEF sharedVars, hubVars, roomVars, fixedVars, opVars, connVars, localVars
<1>0. Conns \subseteq Procs /\ Server \in Procs /\ Server # c
  BY ConstantsAssumption DEF Procs
<1>1. CASE Join(c)
  <2>1. CASE Return(c)
    BY <1>0, <2>1, ReturnActs DEF Founder
  <2>2. CASE ResolveCreate(c)
    <3>1. PICK x \in Rooms : status[x] = "unused" /\ target' = [target EXCEPT ![c] = x]
      BY <2>2 DEF ResolveCreate
    <3> QED  BY <1>0, <3>1 DEF Founder, TypeOK
  <2>3. CASE JoinFrame(c) \/ CheckMember(c) \/ ResolveFound(c)
    <3>1. pc[c] \in {"idle", "checkMember", "resolve"} /\ (Return(c) \/ mine' = mine)
      BY <2>3 DEF JoinFrame, CheckMember, ResolveFound
    <3> QED  BY <2>1, <3>1 DEF Founder, MakersAnnounce, Founding
  <2>4. CASE ~Return(c) /\ ~ResolveCreate(c) /\ ~JoinFrame(c) /\ ~CheckMember(c) /\ ~ResolveFound(c)
    <3>1. target' = target /\ mine' = mine /\ pc[c] \in Founding
      BY <1>1, <2>4 DEF Join, ResolveFails, CheckPublisher, Discard, DiscardForget, RegisterRefused,
         Rebind, Register, CreateCall, CallStarted, Persist, Founding
    <3> QED  BY <3>1 DEF Founder
  <2> QED  BY <2>1, <2>2, <2>3, <2>4
<1>2. CASE Leave(c) \/ Disconnect(c) \/ CloseRow(c) \/ Decline(c)
  <2>1. CASE Return(c)
    BY <1>0, <2>1, ReturnActs DEF Founder
  <2>2. CASE ~Return(c)
    <3>1. pc[c] \notin Founding \union {"persist"} /\ mine' = mine
      BY <1>2, <2>2 DEF Leave, LeaveNothing, LeaveSlot, QuitRoom, Disconnect, CloseRow, Decline,
         DeclineFrame, DeclineMember, DeclineCount, Founding
    <3> QED  BY <3>1 DEF Founder, MakersAnnounce
  <2> QED  BY <2>1, <2>2
<1>3. CASE EndRoom(c)
  <2>1. CASE Return(c)
    BY <1>0, <2>1, ReturnActs DEF Founder
  <2>2. CASE ~Return(c)
    <3>1. pc[c] \notin Founding \union {"persist"} /\ mine' = mine
      BY <1>3, <2>2 DEF EndRoom, End, CloseRows, Forget, EndCall, CallEnded, Founding
    <3> QED  BY <3>1 DEF Founder, MakersAnnounce
  <2> QED  BY <2>1, <2>2
<1>4. CASE \E p \in Procs : p # c /\ OnlyActs(p)
  BY <1>0, <1>4 DEF OnlyActs, OnlyMoves, Founder
<1>5. CASE UNCHANGED <<pc, localVars>>
  BY <1>5 DEF Founder
<1> QED  BY <1>0, <1>1, <1>2, <1>3, <1>4, <1>5, SomebodyActs

LEMMA OneFounderStep ==
  ASSUME TypeOK, TouchedAreMade, OneFounder, MakersAnnounce, [Next]_vars
  PROVE  OneFounder'
<1> SUFFICES ASSUME NEW r \in Rooms, NEW c \in Conns, NEW d \in Conns,
                    Founder(c, r)', Founder(d, r)', c # d
             PROVE  FALSE
  BY DEF OneFounder
<1>0. c \in Procs /\ d \in Procs
  BY DEF Procs
<1>1. \A x \in {c, d} : Founder(x, r) \/ status[r] = "unused"
  BY WhoFounds
<1>2. Founder(c, r) \/ Founder(d, r) => status[r] # "unused"
  BY <1>0 DEF TouchedAreMade, Founder, Founding, Working, Joining
<1>3. Founder(c, r) \/ Founder(d, r)
  <2>1. CASE UNCHANGED <<pc, localVars>>
    BY <2>1 DEF Founder, localVars, opVars
  <2>2. ASSUME NEW a \in Procs, OnlyActs(a), a # c PROVE Founder(c, r)
    BY <1>0, <2>2 DEF OnlyActs, OnlyMoves, Founder
  <2>3. ASSUME NEW a \in Procs, OnlyActs(a), a # d PROVE Founder(d, r)
    BY <1>0, <2>3 DEF OnlyActs, OnlyMoves, Founder
  <2> QED  BY <2>1, <2>2, <2>3, SomebodyActs DEF Procs
<1> QED  BY <1>1, <1>2, <1>3 DEF OneFounder

LEMMA MakersAnnounceStep ==
  ASSUME TypeOK, MakersAnnounce, [Next]_vars
  PROVE  MakersAnnounce'
<1> USE DEF sharedVars, hubVars, roomVars, fixedVars, opVars, connVars, localVars
<1> DEFINE Right(c) == /\ pc[c] \in {"createCall", "callStarted"} => c \in mine
                       /\ c \in mine => pc[c] \in Founding \union {"persist"}
<1> SUFFICES ASSUME NEW c \in Conns PROVE Right(c)'
  <2>1. mine' \subseteq Conns
    BY NextType DEF TypeOK
  <2> QED  BY <2>1 DEF MakersAnnounce
<1>0. Conns \subseteq Procs /\ Server \in Procs /\ Server # c /\ Right(c)
  BY ConstantsAssumption DEF Procs, MakersAnnounce
<1>1. CASE Return(c)
  BY <1>0, <1>1, ReturnActs
<1>2. CASE Join(c) /\ ~Return(c)
  BY <1>0, <1>2 DEF Join, JoinFrame, CheckMember, ResolveFound, ResolveCreate, ResolveFails,
     CheckPublisher, Discard, DiscardForget, RegisterRefused, Rebind, Register, CreateCall,
     CallStarted, Persist, Goto, Founding, TypeOK
<1>3. CASE (Leave(c) \/ Disconnect(c) \/ CloseRow(c) \/ Decline(c)) /\ ~Return(c)
  <2>1. pc[c] \in {"idle", "closeRow", "declineMember", "declineCount"} /\ mine' = mine
    BY <1>3 DEF Leave, LeaveNothing, LeaveSlot, QuitRoom, Disconnect, CloseRow, Decline,
       DeclineFrame, DeclineMember, DeclineCount
  <2>2. pc'[c] \notin {"createCall", "callStarted"}
    BY <1>0, <1>3 DEF Leave, LeaveNothing, LeaveSlot, QuitRoom, Disconnect, CloseRow, Decline,
       DeclineFrame, DeclineMember, DeclineCount, Goto, TypeOK
  <2> QED  BY <1>0, <2>1, <2>2 DEF Founding
<1>4. CASE EndRoom(c) /\ ~Return(c)
  <2>1. pc[c] \in Ending /\ mine' = mine
    BY <1>4 DEF EndRoom, End, CloseRows, Forget, EndCall, CallEnded, Ending
  <2>2. pc'[c] \notin {"createCall", "callStarted"}
    BY <1>0, <1>4 DEF EndRoom, End, CloseRows, Forget, EndCall, CallEnded, Goto, TypeOK
  <2> QED  BY <1>0, <2>1, <2>2 DEF Founding, Ending
<1>5. CASE \E p \in Procs : p # c /\ OnlyActs(p)
  BY <1>0, <1>5 DEF OnlyActs, OnlyMoves
<1>6. CASE UNCHANGED <<pc, localVars>>
  BY <1>0, <1>6
<1> QED  BY <1>0, <1>1, <1>2, <1>3, <1>4, <1>5, <1>6, SomebodyActs

\* Only these steps tell anything, record an end, or register a room.
LEMMA WhoTells ==
  ASSUME [Next]_vars
  PROVE  /\ UNCHANGED started \/ \E c \in Conns : CallStarted(c)
         /\ UNCHANGED ended \/ \E p \in Procs : CallEnded(p)
         /\ \/ \A r \in Rooms : callRow'[r] = "ended" => callRow[r] = "ended"
            \/ \E c \in Conns : CreateCall(c)
            \/ \E u \in Users, r \in Rooms : DeleteChatCall(u, r)
            \/ \E p \in Procs : EndCall(p)
         /\ rooms' \subseteq rooms \/ \E c \in Conns : ResolveCreate(c)
<1> USE DEF sharedVars, hubVars, storeVars, noteVars
<1>1. ASSUME NEW c \in Conns, Join(c)
      PROVE  /\ UNCHANGED ended
             /\ UNCHANGED started \/ CallStarted(c)
             /\ UNCHANGED callRow \/ CreateCall(c)
             /\ rooms' \subseteq rooms \/ ResolveCreate(c)
  BY <1>1 DEF Join, JoinFrame, CheckMember, ResolveFound, ResolveFails, ResolveCreate,
              CheckPublisher, Discard, DiscardForget, Unregister, RegisterRefused, Rebind,
              Register, CreateCall, CallStarted, Persist
<1>2. ASSUME NEW c \in Conns, Leave(c) \/ Disconnect(c) \/ CloseRow(c) \/ Decline(c)
      PROVE  UNCHANGED <<started, ended, callRow, rooms>>
  BY <1>2 DEF Leave, LeaveNothing, LeaveSlot, Disconnect, CloseRow, Decline, DeclineFrame,
              DeclineMember, DeclineCount
<1>3. ASSUME NEW p \in Procs, EndRoom(p)
      PROVE  /\ UNCHANGED started
             /\ UNCHANGED ended \/ CallEnded(p)
             /\ UNCHANGED callRow \/ EndCall(p)
             /\ rooms' \subseteq rooms
  BY <1>3 DEF EndRoom, End, CloseRows, Forget, Unregister, EndCall, CallEnded
<1>4. Shutdown \/ CloseNext \/ Exit \/ UNCHANGED vars => UNCHANGED <<started, ended, callRow, rooms>>
  BY DEF Shutdown, CloseNext, Exit, vars
<1>5. Environment => /\ UNCHANGED <<started, ended, rooms>>
                     /\ UNCHANGED callRow \/ \E u \in Users, r \in Rooms : DeleteChatCall(u, r)
  BY DEF Environment, ChangeMembers, DeleteChatCall
<1> QED  BY <1>1, <1>2, <1>3, <1>4, <1>5 DEF Next

LEMMA WhoRecordsTheEnd ==
  ASSUME TypeOK, RegistryInv, [Next]_vars, NEW r \in Rooms, callRow'[r] = "ended"
  PROVE  callRow[r] = "ended" \/ \E p \in Procs : EndCall(p) /\ target[p] = r
<1> USE DEF storeVars
<1>1. ASSUME NEW c \in Conns, CreateCall(c) PROVE callRow[r] = "ended"
  BY <1>1 DEF CreateCall, TypeOK
<1>2. ASSUME NEW u \in Users, NEW x \in Rooms, DeleteChatCall(u, x) PROVE callRow[r] = "ended"
  BY <1>2 DEF DeleteChatCall, TypeOK
<1>3. ASSUME NEW p \in Procs, EndCall(p) PROVE callRow[r] = "ended" \/ target[p] = r
  BY <1>3 DEF EndCall, TypeOK
<1> QED  BY <1>1, <1>2, <1>3, WhoTells

\* A room is registered when it is made.
LEMMA RegisteredWhenMade ==
  ASSUME TypeOK, [Next]_vars, NEW r \in Rooms, r \in rooms', r \notin rooms
  PROVE  status[r] = "unused"
BY WhoTells DEF ResolveCreate

\* The start and the end of a call are counted as they are told.
LEMMA StartIsTold ==
  ASSUME TypeOK, RegistryInv, MakersAnnounce, [Next]_vars, NEW r \in Rooms, started'[r] # started[r]
  PROVE  /\ started'[r] = started[r] + 1
         /\ \E c \in Conns : CallStarted(c) /\ Founder(c, r)
<1>1. PICK c \in Conns : CallStarted(c)
  BY WhoTells
<1>2. target[c] \in Rooms /\ c \in mine
  BY <1>1 DEF CallStarted, RegistryInv, Working, Joining, Procs, MakersAnnounce
<1>3. target[c] = r /\ started'[r] = started[r] + 1
  BY <1>1, <1>2 DEF CallStarted, TypeOK
<1> QED  BY <1>1, <1>2, <1>3 DEF CallStarted, Founder, Founding

LEMMA EndIsTold ==
  ASSUME TypeOK, RegistryInv, [Next]_vars, NEW r \in Rooms, ended'[r] # ended[r]
  PROVE  /\ ended'[r] = ended[r] + 1
         /\ \E p \in Procs : CallEnded(p) /\ target[p] = r
<1>1. PICK p \in Procs : CallEnded(p)
  BY WhoTells
<1>2. target[p] \in Rooms
  BY <1>1 DEF CallEnded, RegistryInv, Working, Ending
<1> QED  BY <1>1, <1>2 DEF CallEnded, TypeOK

LEMMA StartIsToldOnce ==
  ASSUME TypeOK, SeatsInv, RegistryInv, TouchedAreMade, TellingInv, [Next]_vars, NEW r \in Rooms
  PROVE  /\ started'[r] <= 1
         /\ \A c \in Conns : Founder(c, r)' => started'[r] = 0
         /\ status'[r] = "unused" => started'[r] = 0
<1>0. started[r] \in Nat /\ Conns \subseteq Procs
  BY DEF TypeOK, Procs
<1>1. \A c \in Conns : Founder(c, r) => started[r] = 0 /\ status[r] # "unused"
  BY <1>0 DEF TellingInv, NotYetTold, TouchedAreMade, Founder, Founding, Working, Joining
<1>2. started[r] <= 1 /\ (status[r] = "unused" => started[r] = 0)
  BY DEF TellingInv, OverIsOver, NotYetTold
<1>3. status'[r] = "unused" => status[r] = "unused"
  BY MadeStaysMade
<1>4. CASE started'[r] = started[r]
  <2>1. ASSUME NEW c \in Conns, Founder(c, r)' PROVE started'[r] = 0
    BY <1>1, <1>2, <1>4, <2>1, WhoFounds DEF TellingInv
  <2> QED  BY <1>2, <1>3, <1>4, <2>1
<1>5. CASE started'[r] # started[r]
  <2>1. PICK d \in Conns : CallStarted(d) /\ Founder(d, r)
    BY <1>5, StartIsTold DEF TellingInv
  <2>2. started'[r] = 1 /\ status[r] # "unused"
    BY <1>1, <1>5, <2>1, StartIsTold DEF TellingInv
  <2>3. ASSUME NEW c \in Conns, Founder(c, r)' PROVE FALSE
    <3>1. Founder(c, r)
      BY <2>2, <2>3, WhoFounds DEF TellingInv
    <3>2. c = d
      BY <2>1, <3>1 DEF TellingInv, OneFounder
    <3>3. pc'[d] = "persist"
      BY <1>0, <2>1 DEF CallStarted, Goto, TypeOK
    <3> QED  BY <2>3, <3>2, <3>3 DEF Founder, Founding
  <2> QED  BY <1>3, <2>2, <2>3
<1> QED  BY <1>4, <1>5

LEMMA EndIsToldOnce ==
  ASSUME TypeOK, SeatsInv, RegistryInv, TellingInv, [Next]_vars, NEW p \in Procs, PastClosing(p)'
  PROVE  ended'[target'[p]] = 0
<1>1. (PastClosing(p) /\ target'[p] = target[p]) \/ Open(target'[p])
  BY WhoGetsPast
<1>2. target'[p] \in Rooms
  <2>1. RegistryInv'
    BY RegistryStep
  <2> QED  BY <2>1 DEF RegistryInv, PastClosing, Closing, Working, Joining, Ending
<1>3. ended[target'[p]] = 0
  <2>1. CASE PastClosing(p) /\ target'[p] = target[p]
    BY <2>1 DEF TellingInv, NotYetTold
  <2>2. CASE Open(target'[p])
    <3>1. ended[target'[p]] \in Nat /\ ~Closed(target'[p])
      BY <1>2, <2>2 DEF Open, Closed, TypeOK
    <3>2. ~(ended[target'[p]] > 0)
      BY <1>2, <3>1 DEF TellingInv, OverIsOver
    <3> QED  BY <3>1, <3>2
  <2> QED  BY <1>1, <2>1, <2>2
<1>4. ASSUME ended'[target'[p]] # ended[target'[p]] PROVE FALSE
  <2>1. PICK q \in Procs : CallEnded(q) /\ target[q] = target'[p]
    BY <1>2, <1>4, EndIsTold
  <2>2. PastClosing(q)
    BY <2>1 DEF CallEnded, PastClosing, Closing
  <2>3. ~Open(target'[p])
    BY <2>1, <2>2 DEF RegistryInv, Open, Closed
  <2>4. q = p
    BY <1>1, <2>1, <2>2, <2>3 DEF TellingInv, OneCloser
  <2>5. pc'[p] \in {"closeAll", "gone", "idle"}
    BY <2>1, <2>4, ReturnActs DEF CallEnded
  <2> QED  BY <2>5 DEF PastClosing, Closing
<1> QED  BY <1>3, <1>4

\* Who is about to record an end has taken the room out of the registry.
LEMMA EndersAreForgotten ==
  ASSUME TypeOK, TouchedAreMade, RegistryInv, TellingInv, [Next]_vars, NEW p \in Procs,
         pc'[p] \in {"endCall", "callEnded"}
  PROVE  target'[p] \notin rooms'
<1> USE DEF sharedVars, hubVars, roomVars, fixedVars, opVars, connVars, localVars
<1> DEFINE Still == pc[p] \in {"endCall", "callEnded"} /\ target'[p] = target[p]
<1>0. Conns \subseteq Procs /\ Server \in Procs
  BY DEF Procs
<1>1. CASE Still
  <2>1. target[p] \notin rooms /\ target[p] \in Rooms /\ status[target[p]] # "unused"
    BY <1>1 DEF TellingInv, NotYetTold, RegistryInv, TouchedAreMade, Working, Ending
  <2> QED  BY <1>1, <2>1, RegisteredWhenMade
<1>2. CASE p \in Conns /\ (Join(p) \/ Leave(p) \/ Disconnect(p) \/ CloseRow(p) \/ Decline(p))
  <2>1. CASE Return(p)
    BY <2>1, ReturnActs
  <2>2. CASE Join(p) /\ ~Return(p)
    BY <1>0, <1>2, <2>2 DEF Join, JoinFrame, CheckMember, ResolveFound, ResolveCreate, ResolveFails,
       CheckPublisher, Discard, DiscardForget, RegisterRefused, Rebind, Register, CreateCall,
       CallStarted, Persist, Goto, TypeOK
  <2>3. CASE ~Join(p) /\ ~Return(p)
    <3>1. pc'[p] \in {"idle", "gone", "closeRow", "declineMember", "declineCount", "end", "forget"}
      BY <1>0, <1>2, <2>3 DEF Leave, LeaveNothing, LeaveSlot, QuitRoom, Disconnect, CloseRow, Decline,
         DeclineFrame, DeclineMember, DeclineCount, Goto, TypeOK
    <3> QED  BY <3>1
  <2> QED  BY <1>2, <2>1, <2>2, <2>3
<1>3. CASE EndRoom(p)
  <2>1. CASE Return(p)
    BY <2>1, ReturnActs
  <2>2. CASE Forget(p)
    BY <2>2 DEF Forget, Unregister
  <2>3. CASE EndCall(p)
    BY <1>1, <2>3 DEF EndCall
  <2>4. CASE ~Return(p) /\ ~Forget(p) /\ ~EndCall(p)
    BY <1>3, <2>4 DEF EndRoom, End, CloseRows, CallEnded, Goto, TypeOK
  <2> QED  BY <2>1, <2>2, <2>3, <2>4
<1>4. CASE p = Server /\ (Shutdown \/ CloseNext \/ Exit)
  BY <1>0, <1>4 DEF Shutdown, CloseNext, Exit, Goto, TypeOK
<1>5. CASE \E q \in Procs : q # p /\ OnlyActs(q)
  BY <1>1, <1>5 DEF OnlyActs, OnlyMoves
<1>6. CASE UNCHANGED <<pc, localVars>>
  BY <1>1, <1>6
<1> QED  BY <1>0, <1>1, <1>2, <1>3, <1>4, <1>5, <1>6, SomebodyActs

LEMMA OverIsOverStep ==
  ASSUME TypeOK, SeatsInv, RegistryInv, TouchedAreMade, TellingInv, [Next]_vars
  PROVE  OverIsOver'
<1> SUFFICES ASSUME NEW r \in Rooms
             PROVE  /\ callRow'[r] = "ended" \/ ended'[r] > 0 =>
                         Closed(r)' /\ Participants(r)' = {} /\ r \notin rooms'
                    /\ started'[r] <= 1 /\ ended'[r] <= 1
  BY DEF OverIsOver
<1>0. ended[r] \in Nat /\ started[r] \in Nat /\ SeatsInv'
  BY SeatsStep DEF TypeOK
<1>1. ASSUME NEW p \in Procs, target[p] = r, EndCall(p) \/ CallEnded(p)
      PROVE  Closed(r) /\ r \notin rooms /\ ended[r] = 0
  <2>1. pc[p] \in {"endCall", "callEnded"}
    BY <1>1 DEF EndCall, CallEnded
  <2>2. PastClosing(p)
    BY <2>1 DEF PastClosing, Closing
  <2> QED  BY <1>1, <2>1, <2>2 DEF TellingInv, NotYetTold, RegistryInv
<1>2. ASSUME Closed(r), r \notin rooms
      PROVE  Closed(r)' /\ Participants(r)' = {} /\ r \notin rooms'
  <2>1. Closed(r)'
    BY <1>2, ClosedStaysClosed
  <2>2. r \notin rooms'
    BY <1>2, RegisteredWhenMade DEF Closed
  <2>3. Participants(r)' = {}
    BY <1>0, <2>1 DEF SeatsInv, ClosedAreEmpty, Open, Closed
  <2> QED  BY <2>1, <2>2, <2>3
<1>3. callRow[r] = "ended" \/ ended[r] > 0 => Closed(r) /\ r \notin rooms
  BY DEF TellingInv, OverIsOver
<1>4. callRow'[r] = "ended" => Closed(r) /\ r \notin rooms
  BY <1>1, <1>3, WhoRecordsTheEnd
<1>5. ended'[r] > 0 => Closed(r) /\ r \notin rooms
  BY <1>1, <1>3, EndIsTold
<1>6. ended'[r] <= 1
  <2>1. ended[r] <= 1
    BY DEF TellingInv, OverIsOver
  <2> QED  BY <1>0, <1>1, <2>1, EndIsTold
<1> QED  BY <1>2, <1>4, <1>5, <1>6, StartIsToldOnce

LEMMA TellingStep ==
  TypeOK /\ SeatsInv /\ RegistryInv /\ RoomsInv /\ TellingInv /\ [Next]_vars => TellingInv'
<1> SUFFICES ASSUME TypeOK, SeatsInv, RegistryInv, RoomsInv, TellingInv, [Next]_vars
             PROVE  TellingInv'
  OBVIOUS
<1>1. TouchedAreMade
  BY DEF RoomsInv
<1>2. OneCloser' /\ OneFounder' /\ MakersAnnounce' /\ OverIsOver'
  BY <1>1, OneCloserStep, OneFounderStep, MakersAnnounceStep, OverIsOverStep DEF TellingInv
<1>3. NotYetTold'
  BY <1>1, StartIsToldOnce, EndIsToldOnce, EndersAreForgotten DEF NotYetTold
<1> QED  BY <1>2, <1>3 DEF TellingInv

LEMMA TellingStart == Init => TellingInv
<1> SUFFICES ASSUME Init PROVE TellingInv
  OBVIOUS
<1>1. \A p \in Procs : pc[p] \in {"serving", "idle"}
  BY DEF Init
<1>2. \A p \in Procs : ~PastClosing(p)
  BY <1>1 DEF PastClosing, Closing
<1>3. OneCloser /\ OneFounder /\ MakersAnnounce /\ NotYetTold
  BY <1>1, <1>2 DEF Init, OneCloser, OneFounder, Founder, MakersAnnounce, NotYetTold, Procs
<1>4. OverIsOver
  BY DEF Init, OverIsOver
<1> QED  BY <1>3, <1>4 DEF TellingInv

LEMMA TellingAlways == Spec => []TellingInv
BY TellingStart, TellingStep, SeatsAlways, RoomsAlways, RegistryInvHolds, TypeCorrect, PTL DEF Spec

\* A call whose end is recorded or told is closed, empty and out of the registry, and its start
\* and its end are told at most once, however many leaves, declines and ends meet in Hub.End.
THEOREM OverStaysOver == Spec => []OverIsOver
<1>1. TellingInv => OverIsOver
  BY DEF TellingInv
<1> QED  BY <1>1, TellingAlways, PTL
-----------------------------------------------------------------------------
(* The hub implements CallLifecycle.                                       *)

\* The instance counts as this module does.
LEMMA SameCardinality == ASSUME NEW S PROVE Lifecycle!Cardinality(S) = Cardinality(S)
BY DEF Cardinality, Lifecycle!Cardinality

LEMMA LifecycleStart == Init => Lifecycle!Init
<1> SUFFICES ASSUME Init PROVE Lifecycle!Init
  OBVIOUS
<1>1. \A r \in Rooms : Participants(r) = {}
  BY DEF Init, Participants
<1>2. {r \in Rooms : ended[r] > 0} = {}
  BY DEF Init
<1> QED  BY <1>1, <1>2 DEF Init, Lifecycle!Init

LEMMA LifecycleStep ==
  TypeOK /\ SeatsInv /\ RegistryInv /\ TellingInv /\ [Next]_vars
    => [Lifecycle!Next]_Lifecycle!vars
<1> SUFFICES ASSUME TypeOK, SeatsInv, RegistryInv, TellingInv, [Next]_vars
             PROVE  [Lifecycle!Next]_Lifecycle!vars
  OBVIOUS
<1> DEFINE crew == [r \in Rooms |-> Participants(r)]
           told == {r \in Rooms : ended[r] > 0}
<1> USE DEF Open, Closed
<1>1. CASE UNCHANGED <<status, chatOf, slot, ended>>
  <2>1. crew' = crew /\ told' = told
    BY <1>1 DEF Participants
  <2> QED  BY <1>1, <2>1 DEF Lifecycle!vars
<1>2. ASSUME NEW r \in Rooms, Makes(r), UNCHANGED ended PROVE Lifecycle!Next
  <2>1. PICK ch \in Chats : chatOf' = [chatOf EXCEPT ![r] = ch]
                            /\ \A x \in Rooms : ~(Open(x) /\ chatOf[x] = ch)
    BY <1>2 DEF Makes
  <2>2. crew' = crew /\ told' = told
    BY <1>2 DEF Makes, Participants
  <2>3. Lifecycle!Live(ch) = {}
    BY <2>1 DEF Lifecycle!Live
  <2>4. Lifecycle!Begin(r, ch)
    BY <1>2, <2>1, <2>2, <2>3 DEF Makes, Lifecycle!Begin
  <2> QED  BY <2>4 DEF Lifecycle!Next
<1>3. ASSUME NEW r \in Rooms, Closes(r) \/ Empties(r), UNCHANGED ended PROVE Lifecycle!Next
  <2>1. Participants(r)' = {} /\ \A x \in Rooms : x # r => Participants(x)' = Participants(x)
    BY <1>3, SeatsCleared DEF Closes, Empties, Participants
  <2>2. crew' = [crew EXCEPT ![r] = {}] /\ told' = told
    BY <1>3, <2>1
  <2>3. Lifecycle!Finish(r)
    BY <1>3, <2>2 DEF Closes, Empties, Lifecycle!Finish
  <2> QED  BY <2>3 DEF Lifecycle!Next
<1>4. ASSUME NEW r \in Rooms, NEW c \in Conns, Seats(r, c), UNCHANGED ended
      PROVE  [Lifecycle!Next]_Lifecycle!vars
  <2>0. UserOf[c] \in Users /\ None \notin Conns
    BY ConstantsAssumption
  <2>1. /\ Participants(r)' = Participants(r) \union {UserOf[c]}
        /\ \A x \in Rooms : x # r => Participants(x)' = Participants(x)
    BY <1>4, <2>0, SeatChanges DEF Seats
  <2>2. crew' = [crew EXCEPT ![r] = @ \union {UserOf[c]}] /\ told' = told
    BY <1>4, <2>1
  <2>3. CASE UserOf[c] \in Participants(r)
    <3>1. crew' = crew
      BY <2>1, <2>3
    <3> QED  BY <1>4, <2>2, <3>1 DEF Seats, Lifecycle!vars
  <2>4. CASE UserOf[c] \notin Participants(r)
    <3>1. Lifecycle!Cardinality(Participants(r)) < MaxParticipants
      BY SameCardinality, <1>4, <2>4, FinitelyMany, ConstantsAssumption DEF Seats, Refused
    <3>2. crew[r] = Participants(r) /\ Lifecycle!Cardinality(crew[r]) < MaxParticipants
      BY <3>1
    <3>3. status[r] = "open" /\ UNCHANGED <<status, chatOf>>
      BY <1>4 DEF Seats
    <3> HIDE DEF crew, told
    <3>4. UserOf[c] \notin crew[r]
      BY <2>4, <3>2
    <3> USE DEF crew, told
    <3>5. Lifecycle!Enter(r, UserOf[c])
      BY <2>2, <3>2, <3>3, <3>4 DEF Lifecycle!Enter
    <3> QED  BY <2>0, <3>5 DEF Lifecycle!Next
  <2> QED  BY <2>3, <2>4
<1>5. ASSUME NEW r \in Rooms, NEW c \in Conns, Vacates(r, c), UNCHANGED ended PROVE Lifecycle!Next
  <2>0. UserOf[c] \in Users /\ None \notin Conns
    BY ConstantsAssumption
  <2>1. /\ Participants(r)' = Participants(r) \ {UserOf[c]}
        /\ \A x \in Rooms : x # r => Participants(x)' = Participants(x)
    BY <1>5, <2>0, SeatChanges DEF Vacates
  <2>2. crew' = [crew EXCEPT ![r] = @ \ {UserOf[c]}] /\ told' = told
    BY <1>5, <2>1
  <2>3. UserOf[c] \in Participants(r)
    BY <1>5, <2>0 DEF Vacates, Participants
  <2>4. status' = [status EXCEPT ![r] = IF Participants(r) = {UserOf[c]} THEN "closed" ELSE "open"]
    <3>1. Participants(r) \ {UserOf[c]} = {} <=> Participants(r) = {UserOf[c]}
      BY <2>3
    <3>2. status = [status EXCEPT ![r] = "open"]
      BY <1>5 DEF Vacates, TypeOK
    <3> QED  BY <1>5, <3>1, <3>2 DEF Vacates
  <2>5. Lifecycle!Exit(r, UserOf[c])
    BY <1>5, <2>2, <2>3, <2>4 DEF Vacates, Lifecycle!Exit
  <2> QED  BY <2>0, <2>5 DEF Lifecycle!Next
<1>6. ASSUME NEW p \in Procs, CallEnded(p) PROVE Lifecycle!Next
  <2>1. PastClosing(p) /\ target[p] \in Rooms
    BY <1>6 DEF CallEnded, PastClosing, Closing, RegistryInv, Working, Ending
  <2>2. PICK r \in Rooms : r = target[p]
    BY <2>1
  <2>3. status[r] = "closed" /\ ended[r] = 0
    BY <2>1, <2>2 DEF RegistryInv, TellingInv, NotYetTold
  <2>4. ended' = [ended EXCEPT ![r] = 1]
    BY <1>6, <2>2, <2>3 DEF CallEnded
  <2>5. told' = told \union {r} /\ r \notin told
    BY <2>3, <2>4 DEF TypeOK
  <2>6. UNCHANGED <<status, chatOf, slot>>
    BY <1>6 DEF CallEnded, roomVars, fixedVars
  <2>7. crew' = crew
    BY <2>6 DEF Participants
  <2>8. Lifecycle!Tell(r)
    BY <2>3, <2>5, <2>6, <2>7 DEF Lifecycle!Tell
  <2> QED  BY <2>8 DEF Lifecycle!Next
<1>7. UNCHANGED ended \/ \E p \in Procs : CallEnded(p)
  BY WhoTells
<1> QED  BY <1>1, <1>2, <1>3, <1>4, <1>5, <1>6, <1>7, RoomSteps

\* The hub implements CallLifecycle: under every interleaving of joins, leaves, declines, ends and
\* shutdown, what is seen of the calls is what that specification lets them do.
THEOREM HubImplementsLifecycle == Spec => ImplementsLifecycle
BY LifecycleStart, LifecycleStep, TypeCorrect, SeatsAlways, RegistryInvHolds, TellingAlways, PTL
   DEF Spec, ImplementsLifecycle, Lifecycle!Spec
=============================================================================
