--------------------------- MODULE CallLifecycle ---------------------------
(***************************************************************************)
(* What the calls subsystem promises to everybody outside it, with none of *)
(* the machinery: a chat has at most one live call; users enter and leave  *)
(* a live call; a call that lost its last participant is over, and over is *)
(* final; the chat is told at most once that a call is over, and never     *)
(* while it is live.                                                       *)
(*                                                                         *)
(* CallHub implements this specification (CallHub!Lifecycle is the         *)
(* instance, CallHub!ImplementsLifecycle the property).                    *)
(***************************************************************************)
EXTENDS Integers, FiniteSets

CONSTANTS
  Users,            \* the users of the service
  Chats,            \* the chats calls are held in
  Rooms,            \* the identities of calls, each used for one call
  MaxParticipants,  \* the most users one call holds at a time
  None              \* no chat

VARIABLES
  phase,            \* phase[r]: where call r is in its life
  place,            \* place[r]: the chat call r is held in
  crew,             \* crew[r]: the users in call r
  told              \* the calls whose end was announced

vars == <<phase, place, crew, told>>

Init ==
  /\ phase = [r \in Rooms |-> "unused"]
  /\ place = [r \in Rooms |-> None]
  /\ crew = [r \in Rooms |-> {}]
  /\ told = {}

Live(ch) == {r \in Rooms : phase[r] = "open" /\ place[r] = ch}

\* A call begins in a chat that has no live one.
Begin(r, ch) ==
  /\ phase[r] = "unused"
  /\ Live(ch) = {}
  /\ phase' = [phase EXCEPT ![r] = "open"]
  /\ place' = [place EXCEPT ![r] = ch]
  /\ UNCHANGED <<crew, told>>

\* A user enters a live call that has room for one more.
Enter(r, u) ==
  /\ phase[r] = "open"
  /\ u \notin crew[r]
  /\ Cardinality(crew[r]) < MaxParticipants
  /\ crew' = [crew EXCEPT ![r] = @ \union {u}]
  /\ UNCHANGED <<phase, place, told>>

\* A user leaves; a call without participants is over.
Exit(r, u) ==
  /\ phase[r] = "open"
  /\ u \in crew[r]
  /\ crew' = [crew EXCEPT ![r] = @ \ {u}]
  /\ phase' = [phase EXCEPT ![r] = IF crew[r] = {u} THEN "closed" ELSE "open"]
  /\ UNCHANGED <<place, told>>

\* A call ends for everybody at once.
Finish(r) ==
  /\ phase[r] = "open"
  /\ phase' = [phase EXCEPT ![r] = "closed"]
  /\ crew' = [crew EXCEPT ![r] = {}]
  /\ UNCHANGED <<place, told>>

\* The chat learns that a call is over.
Tell(r) ==
  /\ phase[r] = "closed"
  /\ r \notin told
  /\ told' = told \union {r}
  /\ UNCHANGED <<phase, place, crew>>

Next ==
  \E r \in Rooms :
    \/ \E ch \in Chats : Begin(r, ch)
    \/ \E u \in Users : Enter(r, u) \/ Exit(r, u)
    \/ Finish(r)
    \/ Tell(r)

Spec == Init /\ [][Next]_vars
=============================================================================
