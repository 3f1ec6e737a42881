----------------------------- MODULE ChatMembers -----------------------------
(***************************************************************************)
(* The members of one chat and their roles (internal/service/chat, the     *)
(* statements of repository/postgres/chat_repository.go, the one-shot      *)
(* invitations of repository/valkey and the handlers of transport/http).   *)
(*                                                                         *)
(* A request reads rows of chat_members and then writes one, without a     *)
(* transaction: a step is one statement with the checks on what it         *)
(* returned, and other requests run between two steps.  saw[x] is what x   *)
(* found first; x is Stale when a row is no longer what it found.          *)
(*                                                                         *)
(* Left out: the journal of chat events, which no operation reads, the     *)
(* notification of members, and titles and avatars.  ListChatMembers is    *)
(* ordered by joined_at, which is one time for all a chat is created with: *)
(* the first other member is left open.  AddMembers names one user.        *)
(***************************************************************************)
EXTENDS Naturals, FiniteSets

CONSTANTS
  Users,     \* users
  Requests,  \* requests that can be under way at a time
  Nobody     \* not a user

ASSUME NobodyAssumption == Nobody \notin Users

Kinds == {"group", "public", "private"}  \* the last two are standalone channels
Roles == {"owner", "admin", "moderator", "member", "subscriber", "banned"}
Absent == "absent"                       \* no row in chat_members
Unread == "unread"                       \* a row the request has not read
Changed == "changed"                     \* a row it has read twice, and differently

VARIABLES
  kind,      \* what the chat is, or "deleted"
  role,      \* role[u]: the row of u in chat_members
  invited,   \* a one-shot invitation to the chat is in valkey
  links,     \* there is an active row in chat_invite_links
  pc,        \* pc[x]: the statement request x executes next
  me,        \* me[x]: the user who asks
  whom,      \* whom[x]: the member it is about
  to,        \* to[x]: the role to give
  saw,       \* saw[x]: what x has read of the rows
  overtaken, \* a request has written although it was stale
  broken     \* a handover of the chat failed between its two statements

localVars == <<pc, me, whom, to, saw>>
ghostVars == <<overtaken, broken>>
vars == <<kind, role, invited, links, localVars, ghostVars>>

Blank == [u \in Users |-> Unread]

Init ==
  /\ kind \in Kinds
  /\ \E creator \in Users, members \in SUBSET Users :
       /\ kind # "group" => members = {}
       /\ role = [u \in Users |-> IF u = creator THEN "owner"
                                  ELSE IF u \in members THEN "member" ELSE Absent]
  /\ invited = TRUE /\ links = FALSE
  /\ pc = [x \in Requests |-> "idle"]
  /\ me = [x \in Requests |-> Nobody] /\ whom = [x \in Requests |-> Nobody]
  /\ to = [x \in Requests |-> Absent]
  /\ saw = [x \in Requests |-> Blank]
  /\ overtaken = FALSE /\ broken = FALSE
-----------------------------------------------------------------------------
At(x, label) == pc[x] = label
Goto(x, label) == pc' = [pc EXCEPT ![x] = label]
Standalone == kind \in {"public", "private"}

CanManageMembers(r) == r \in {"owner", "admin", "moderator"}
CanManageRoles(r) == r \in {"owner", "admin"}
CanManageInviteLinks(r) == r \in {"owner", "admin"}
\* The roles that can be given in a chat of this kind.
ValidRolesWithOwner == {"owner", "admin", "moderator", "member"}  \* a slip: gives the chat away
ValidRoles == IF Standalone THEN {"subscriber", "admin", "banned"}
              ELSE {"member", "moderator", "admin"}

\* GetChatMemberRole: the row of u as the statement finds it.
GetChatMemberRole(u) == role[u]
\* IsChatMember: a row with role "banned" is not a membership.
IsChatMember(u) == role[u] \notin {Absent, "banned"}
\* ListChatMembers without the banned.
ListChatMembers == {u \in Users : IsChatMember(u)}

Stale(x) == \E u \in Users : saw[x][u] \notin {Unread, role[u]}
Owners == {u \in Users : role[u] = "owner"}

\* Request x reads the rows of us.  Two reads that differ leave it stale for good.
Read(x, us) ==
  saw' = [saw EXCEPT ![x] = [u \in Users |->
           IF u \notin us THEN saw[x][u]
           ELSE IF saw[x][u] \in {Unread, role[u]} THEN role[u] ELSE Changed]]

\* A request on behalf of u, about w, to give it role r, has read the row of u.
Begin(x, u, w, r, label) ==
  /\ At(x, "idle") /\ kind # "deleted"
  /\ Goto(x, label)
  /\ me' = [me EXCEPT ![x] = u] /\ whom' = [whom EXCEPT ![x] = w]
  /\ to' = [to EXCEPT ![x] = r]
  /\ Read(x, {u})
  /\ UNCHANGED <<kind, role, links, ghostVars>>
\* Request x goes on to label, having read the rows of us.
Step(x, us, label) ==
  /\ Goto(x, label)
  /\ Read(x, us)
  /\ UNCHANGED <<me, to>>
\* Request x is over, answered or refused.
Return(x) ==
  /\ Goto(x, "idle")
  /\ me' = [me EXCEPT ![x] = Nobody] /\ whom' = [whom EXCEPT ![x] = Nobody]
  /\ to' = [to EXCEPT ![x] = Absent]
  /\ saw' = [saw EXCEPT ![x] = Blank]

\* A statement of x makes the row of u be r.
Write(x, u, r) ==
  /\ role' = [role EXCEPT ![u] = r]
  /\ overtaken' = (overtaken \/ (Stale(x) /\ role[u] # r))
tableVars == <<kind, role, invited, links>>
Quiet == UNCHANGED <<tableVars, ghostVars>>
-----------------------------------------------------------------------------
\* The operations, up to their first statement.  One that is refused there changes nothing.
AddMembers(x) == \E u, w \in Users :
  /\ CanManageMembers(GetChatMemberRole(u))
  /\ Begin(x, u, w, Absent, "AddList") /\ UNCHANGED invited
UpdateMemberRole(x) == \E u, w \in Users, r \in ValidRoles :
  /\ CanManageRoles(GetChatMemberRole(u))
  /\ Begin(x, u, w, r, "TargetRole") /\ UNCHANGED invited
RemoveMember(x) == \E u \in Users : \E w \in Users \ {u} :
  /\ CanManageMembers(GetChatMemberRole(u))
  /\ Begin(x, u, w, Absent, "TargetRole") /\ UNCHANGED invited
LeaveChat(x) == \E u \in Users :
  /\ IsChatMember(u)
  /\ Begin(x, u, Nobody, Absent, "LeaveRole") /\ UNCHANGED invited
DeleteChat(x) == \E u \in Users :
  /\ GetChatMemberRole(u) = "owner"
  /\ Begin(x, u, Nobody, Absent, "DeleteRow") /\ UNCHANGED invited
\* Who has no row gets one; one of another kind of chat is made a subscriber's.
SubscribePublicChannel(x) == \E u \in Users :
  /\ kind = "public"
  /\ \/ GetChatMemberRole(u) = Absent /\ Begin(x, u, u, "subscriber", "AddChatMembers")
     \/ /\ GetChatMemberRole(u) \in {"moderator", "member"}
        /\ Begin(x, u, u, "subscriber", "UpdateChatMemberRole")
  /\ UNCHANGED invited
UnsubscribePublicChannel(x) == \E u \in Users :
  /\ kind = "public" /\ GetChatMemberRole(u) \notin {Absent, "owner"}
  /\ Begin(x, u, u, Absent, "RemoveChatMember") /\ UNCHANGED invited
\* AcceptInvite consumes the token before it looks whether it is for u; whom it is for
\* is left open.
AcceptInvite(x) == \E u \in Users :
  /\ At(x, "idle") /\ invited
  /\ invited' = FALSE
  /\ \/ UNCHANGED <<localVars, kind, role, links, ghostVars>>
     \/ Begin(x, u, u, Absent, "InvitedMember")
\* A link of a public channel only shows the channel.
AcceptInviteLink(x) == \E u \in Users :
  /\ links /\ kind # "public" /\ GetChatMemberRole(u) # "banned"
  /\ Begin(x, u, u, IF Standalone THEN "subscriber" ELSE Absent, "LinkMember")
  /\ UNCHANGED invited
ListInviteLinks(x) == \E u \in Users :
  /\ CanManageInviteLinks(GetChatMemberRole(u)) /\ ~links
  /\ Begin(x, u, Nobody, Absent, "CreateLink") /\ UNCHANGED invited
CreateInviteLink(x) == \E u \in Users :
  /\ CanManageInviteLinks(GetChatMemberRole(u))
  /\ Begin(x, u, Nobody, Absent, "CreateLink") /\ UNCHANGED invited
-----------------------------------------------------------------------------
\* The reads that follow.  Who is in already is not added again.
AddList(x) ==
  /\ At(x, "AddList")
  /\ IF whom[x] = me[x] \/ whom[x] \in ListChatMembers THEN Return(x)
     ELSE Step(x, {whom[x]}, "AddChatMembers") /\ UNCHANGED whom
  /\ Quiet
\* UpdateMemberRole and RemoveMember read the target's row: the owner is out of reach.
TargetRole(x) ==
  /\ At(x, "TargetRole")
  /\ IF GetChatMemberRole(whom[x]) \in {Absent, "owner"} THEN Return(x)
     ELSE /\ Step(x, {whom[x]}, IF to[x] = Absent THEN "RemoveChatMember" ELSE "UpdateChatMemberRole")
          /\ UNCHANGED whom
  /\ Quiet
InvitedMember(x) ==
  /\ At(x, "InvitedMember")
  /\ IF IsChatMember(me[x]) THEN Return(x) ELSE Step(x, {me[x]}, "AddChatMembers") /\ UNCHANGED whom
  /\ Quiet
LinkMember(x) ==
  /\ At(x, "LinkMember")
  /\ IF IsChatMember(me[x]) THEN Return(x) ELSE Step(x, {me[x]}, "AddChatMembers") /\ UNCHANGED whom
  /\ Quiet
\* LeaveChat reads the role, and an owner's heir: the first other member of the list.
LeaveRole(x) ==
  /\ At(x, "LeaveRole")
  /\ \/ GetChatMemberRole(me[x]) = Absent /\ Return(x)
     \/ /\ GetChatMemberRole(me[x]) # Absent
        /\ Step(x, {me[x]}, IF GetChatMemberRole(me[x]) = "owner" THEN "LeaveHeir" ELSE "LeaveRow")
        /\ UNCHANGED whom
  /\ Quiet
HeirsOrSelf(x) == ListChatMembers        \* a slip: the leaver inherits
Heirs(x) == ListChatMembers \ {me[x]}
LeaveHeir(x) ==
  /\ At(x, "LeaveHeir")
  /\ \/ Heirs(x) = {} /\ Return(x)
     \/ /\ \E u \in Heirs(x) : whom' = [whom EXCEPT ![x] = u]
        /\ Step(x, Users, "LeavePromote")
  /\ Quiet
-----------------------------------------------------------------------------
\* INSERT .. ON CONFLICT DO NOTHING; a subscriber's role is set by a statement of its own.
AddOrUpdate(x) ==                        \* a slip: ON CONFLICT DO UPDATE
  /\ At(x, "AddChatMembers") /\ kind # "deleted"
  /\ Write(x, whom[x], "member")
  /\ Return(x)
  /\ UNCHANGED <<kind, invited, links, broken>>
AddChatMembers(x) ==
  LET u == whom[x]
      inserts == kind # "deleted" /\ role[u] = Absent
  IN
  /\ At(x, "AddChatMembers")
  /\ IF inserts THEN Write(x, u, "member") ELSE UNCHANGED <<role, overtaken>>
  /\ \/ (kind = "deleted" \/ to[x] = Absent) /\ Return(x)
     \/ /\ kind # "deleted" /\ to[x] # Absent
        /\ Goto(x, "UpdateChatMemberRole")
        /\ saw' = IF inserts THEN [saw EXCEPT ![x][u] = "member"] ELSE saw
        /\ UNCHANGED <<me, whom, to>>
  /\ UNCHANGED <<kind, invited, links, broken>>
UpdateChatMemberRole(x) ==
  /\ At(x, "UpdateChatMemberRole")
  /\ \/ role[whom[x]] # Absent /\ Write(x, whom[x], to[x])
     \/ role[whom[x]] = Absent /\ UNCHANGED <<role, overtaken>>
  /\ Return(x)
  /\ UNCHANGED <<kind, invited, links, broken>>
RemoveChatMember(x) ==
  /\ At(x, "RemoveChatMember")
  /\ Write(x, whom[x], Absent)
  /\ Return(x)
  /\ UNCHANGED <<kind, invited, links, broken>>

LeavePromote(x) ==
  /\ At(x, "LeavePromote")
  /\ \/ /\ role[whom[x]] = Absent
        /\ Return(x) /\ UNCHANGED <<role, overtaken>>
     \/ /\ role[whom[x]] # Absent
        /\ Write(x, whom[x], "owner")
        /\ saw' = [saw EXCEPT ![x][whom[x]] = "owner"]
        /\ Goto(x, "LeaveRow")
        /\ UNCHANGED <<me, whom, to>>
  /\ UNCHANGED <<kind, invited, links, broken>>
\* The heir is promoted, and the row of the owner is still to go.
HandingOver(x) == At(x, "LeaveRow") /\ saw[x][me[x]] = "owner"
\* A request that finds its row gone fails; was it a handover, the heir stays promoted.
LeaveRow(x) ==
  /\ At(x, "LeaveRow")
  /\ Write(x, me[x], Absent)
  /\ broken' = (broken \/ (role[me[x]] = Absent /\ HandingOver(x)))
  /\ Return(x)
  /\ UNCHANGED <<kind, invited, links>>

\* Who loses the race for the one primary link reads the winner's.
CreateChatInviteLink(x) ==
  /\ At(x, "CreateLink")
  /\ links' = (kind # "deleted")
  /\ Return(x)
  /\ UNCHANGED <<kind, role, invited, ghostVars>>
DeleteRowOnly(x) ==                      \* a slip: the links stay
  /\ At(x, "DeleteRow")
  /\ kind' = "deleted"
  /\ role' = [u \in Users |-> Absent]
  /\ Return(x)
  /\ UNCHANGED <<invited, links, ghostVars>>
\* The rows of chat_members and chat_invite_links go with the chat.
DeleteRow(x) ==
  /\ At(x, "DeleteRow")
  /\ kind' = "deleted" /\ links' = FALSE
  /\ role' = [u \in Users |-> Absent]
  /\ Return(x)
  /\ UNCHANGED <<invited, ghostVars>>

\* The next statement of x fails, or its client is gone.
Fail(x) ==
  /\ ~At(x, "idle")
  /\ broken' = (broken \/ HandingOver(x))
  /\ Return(x)
  /\ UNCHANGED <<tableVars, overtaken>>
-----------------------------------------------------------------------------
\* The routes.
MemberRequests(x) == AddMembers(x) \/ UpdateMemberRole(x) \/ RemoveMember(x)
ChatRequests(x) == LeaveChat(x) \/ DeleteChat(x) \/ AcceptInvite(x)
LinkRequests(x) == ListInviteLinks(x) \/ CreateInviteLink(x) \/ AcceptInviteLink(x)
ChannelRequests(x) == SubscribePublicChannel(x) \/ UnsubscribePublicChannel(x)
Reads(x) ==
  AddList(x) \/ TargetRole(x) \/ InvitedMember(x) \/ LinkMember(x) \/ LeaveRole(x) \/ LeaveHeir(x)
Writes(x) ==
  \/ AddChatMembers(x) \/ UpdateChatMemberRole(x) \/ RemoveChatMember(x)
  \/ LeavePromote(x) \/ LeaveRow(x) \/ CreateChatInviteLink(x) \/ DeleteRow(x) \/ Fail(x)

Next == \E x \in Requests :
  \/ MemberRequests(x) \/ ChatRequests(x) \/ LinkRequests(x) \/ ChannelRequests(x)
  \/ Reads(x) \/ Writes(x)
Spec == Init /\ [][Next]_vars
-----------------------------------------------------------------------------
Labels ==
  {"idle", "AddList", "TargetRole", "InvitedMember", "LinkMember", "LeaveRole", "LeaveHeir",
   "AddChatMembers", "UpdateChatMemberRole", "RemoveChatMember", "LeavePromote", "LeaveRow",
   "CreateLink", "DeleteRow"}

\* Type correctness; a deleted chat has no rows left.
TypeOK ==
  /\ kind \in Kinds \union {"deleted"}
  /\ role \in [Users -> Roles \union {Absent}]
  /\ kind = "deleted" => (\A u \in Users : role[u] = Absent) /\ ~links
  /\ invited \in BOOLEAN /\ links \in BOOLEAN
  /\ pc \in [Requests -> Labels]
  /\ me \in [Requests -> Users \union {Nobody}]
  /\ whom \in [Requests -> Users \union {Nobody}]
  /\ to \in [Requests -> Roles \union {Absent}]
  /\ saw \in [Requests -> [Users -> Roles \union {Absent, Unread, Changed}]]
  /\ overtaken \in BOOLEAN /\ broken \in BOOLEAN

\* A chat is left without an owner only by a request that wrote on the strength of rows
\* somebody else had changed since it read them: neither leaving, nor handing the chat
\* over, nor a change of roles, nor a failure between two statements does it otherwise.
OwnerKept == kind = "deleted" \/ overtaken \/ Owners # {}

\* Every owner beyond the first stands for a handover (LeaveChat) between the promotion
\* of the heir and the removal of the leaver, unless a request was overtaken or a
\* handover has broken off there.
SoleOwner ==
  overtaken \/ broken \/ Cardinality(Owners) <= 1 + Cardinality({x \in Requests : HandingOver(x)})

\* A ban stands until another member, who could manage roles or members when he asked,
\* changes or removes the row, or the chat is deleted.  Subscribing, an invitation, a link,
\* being added again or inheriting the chat does not touch it, unless a request was
\* overtaken.  The one way out the banned have themselves is that of a public channel:
\* UnsubscribePublicChannel removes any row but an owner's, and once it is gone they are
\* strangers, who may subscribe again.
LiftedByAnother(u) == \E x \in Requests :
  /\ whom[x] = u /\ me[x] # u
  /\ \/ At(x, "UpdateChatMemberRole") /\ CanManageRoles(saw[x][me[x]])
     \/ At(x, "RemoveChatMember") /\ CanManageMembers(saw[x][me[x]])
Unsubscribes(u) == \E x \in Requests :
  /\ At(x, "RemoveChatMember") /\ whom[x] = u /\ me[x] = u
  /\ kind = "public" /\ role'[u] = Absent
BanHolds == [][\A u \in Users : role[u] = "banned" /\ role'[u] # "banned" =>
                 LiftedByAnother(u) \/ Unsubscribes(u) \/ kind' = "deleted" \/ overtaken']_vars
=============================================================================
