------------------------- MODULE ChatMembersProofs -------------------------
(***************************************************************************)
(* For any users and any number of concurrent requests: a chat keeps an    *)
(* owner, it has more than one only in the course of a handover, and a ban *)
(* is lifted by those entitled to, or by unsubscribing, unless a request   *)
(* wrote on the strength of rows that had changed since it read them.      *)
(*                                                                         *)
(* MembersInv says what a request has read by the time it writes, RecallInv*)
(* what it then knows, and CountInv counts owners against handovers.       *)
(***************************************************************************)
EXTENDS ChatMembers, FiniteSetTheorems, TLAPS

\* What a request that has got as far as label l has read, and about whom.
ReadFirst(x, u) == u \in Users /\ saw[x][u] # Unread
PathInv ==
  \A x \in Requests :
    /\ pc[x] \in {"AddList", "TargetRole", "InvitedMember", "LinkMember"} =>
         whom[x] \in Users /\ me[x] \in Users
    /\ pc[x] \in {"InvitedMember", "LinkMember"} => whom[x] = me[x]
    /\ pc[x] \in {"AddList", "TargetRole", "InvitedMember", "LinkMember", "AddChatMembers", "UpdateChatMemberRole"} =>
         to[x] # "owner"
    /\ At(x, "AddChatMembers") => ReadFirst(x, whom[x]) /\ saw[x][whom[x]] # "owner"
    /\ pc[x] \in {"UpdateChatMemberRole", "RemoveChatMember"} =>
         ReadFirst(x, whom[x]) /\ saw[x][whom[x]] # "owner"
    /\ At(x, "UpdateChatMemberRole") => to[x] # Absent
    /\ pc[x] \in {"LeaveRole", "LeaveHeir", "LeavePromote", "LeaveRow"} => ReadFirst(x, me[x])
    /\ At(x, "LeavePromote") => ReadFirst(x, whom[x]) /\ whom[x] # me[x]
    /\ HandingOver(x) => ReadFirst(x, whom[x]) /\ whom[x] # me[x] /\ saw[x][whom[x]] = "owner"

\* The inductive invariant.
MembersInv == TypeOK /\ PathInv /\ OwnerKept

-----------------------------------------------------------------------------
LEMMA MembersInit == Init => MembersInv
<1> SUFFICES ASSUME Init PROVE MembersInv
  OBVIOUS
<1>1. TypeOK
  BY NobodyAssumption DEF Init, TypeOK, Labels, Kinds, Roles, Absent, Unread, Changed, Blank
<1>2. PathInv
  BY DEF Init, PathInv, ReadFirst, HandingOver, At
<1>3. Owners # {}
  BY DEF Init, Owners, Absent
<1> QED BY <1>1, <1>2, <1>3 DEF MembersInv, OwnerKept

\* What reading rows does to what has been read.
LEMMA ReadSaw ==
  ASSUME TypeOK, NEW x \in Requests, NEW us \in SUBSET Users, Read(x, us)
  PROVE  /\ saw' \in [Requests -> [Users -> Roles \union {Absent, Unread, Changed}]]
         /\ \A y \in Requests \ {x} : saw'[y] = saw[y]
         /\ \A u \in us : saw'[x][u] # Unread /\ saw'[x][u] \in {role[u], Changed}
         /\ \A u \in Users \ us : saw'[x][u] = saw[x][u]
<1> DEFINE news == [u \in Users |->
             IF u \notin us THEN saw[x][u]
             ELSE IF saw[x][u] \in {Unread, role[u]} THEN role[u] ELSE Changed]
<1>1. news \in [Users -> Roles \union {Absent, Unread, Changed}]
  BY DEF TypeOK
<1>2. saw' = [saw EXCEPT ![x] = news]
  BY DEF Read
<1>3. saw'[x] = news /\ \A y \in Requests \ {x} : saw'[y] = saw[y]
  BY <1>2 DEF TypeOK
<1>4. saw' \in [Requests -> [Users -> Roles \union {Absent, Unread, Changed}]]
  BY <1>1, <1>2 DEF TypeOK
<1>5. \A u \in us : news[u] # Unread /\ news[u] \in {role[u], Changed}
  BY DEF TypeOK, Roles, Absent, Unread, Changed
<1> QED BY <1>3, <1>4, <1>5

\* A request that read this row and found no owner takes no owner away, or is overtaken.
LEMMA WriteKeepsOwners ==
  ASSUME TypeOK, NEW x \in Requests, NEW u \in Users, NEW r, Write(x, u, r),
         saw[x][u] \notin {Unread, "owner"}
  PROVE  overtaken' \/ \A v \in Owners : v \in Owners'
<1>1. CASE role[u] = "owner" /\ r # "owner"
  BY <1>1 DEF Write, Stale, TypeOK
<1>2. CASE ~(role[u] = "owner" /\ r # "owner")
  BY <1>2 DEF Write, Owners, TypeOK
<1> QED BY <1>1, <1>2

\* What a request that begins has read and what becomes of the rest.
LEMMA BeginTypes ==
  ASSUME TypeOK, NEW x \in Requests, NEW u \in Users, NEW w \in Users \union {Nobody},
         NEW r \in Roles \union {Absent}, NEW label \in Labels, Begin(x, u, w, r, label),
         invited' \in BOOLEAN
  PROVE  TypeOK'
<1>1. saw' \in [Requests -> [Users -> Roles \union {Absent, Unread, Changed}]]
  BY ReadSaw, {u} \in SUBSET Users DEF Begin
<1> QED BY <1>1 DEF TypeOK, Begin, Goto, At, ghostVars

LEMMA BeginKeeps ==
  ASSUME MembersInv, NEW x \in Requests, NEW u \in Users, NEW w \in Users \union {Nobody},
         NEW r \in (Roles \ {"owner"}) \union {Absent},
         NEW label \in Labels \ {"idle", "LeaveHeir", "LeavePromote", "LeaveRow"},
         Begin(x, u, w, r, label), invited' \in BOOLEAN,
         label \in {"AddList", "TargetRole"} => w \in Users,
         label \in {"InvitedMember", "LinkMember", "AddChatMembers", "UpdateChatMemberRole",
                    "RemoveChatMember"} => w = u,
         label \in {"AddChatMembers", "UpdateChatMemberRole", "RemoveChatMember"} => role[u] # "owner",
         label = "UpdateChatMemberRole" => r # Absent
  PROVE  MembersInv'
<1>1. TypeOK'
  BY BeginTypes DEF MembersInv
<1>2. /\ \A y \in Requests \ {x} : saw'[y] = saw[y]
      /\ saw'[x][u] # Unread /\ saw'[x][u] \in {role[u], Changed}
  BY ReadSaw, {u} \in SUBSET Users DEF Begin, MembersInv
<1>3. PathInv'
  <2>1. pc'[x] = label /\ me'[x] = u /\ whom'[x] = w /\ to'[x] = r
    BY DEF MembersInv, TypeOK, Begin, Goto
  <2>2. \A y \in Requests \ {x} :
          pc'[y] = pc[y] /\ me'[y] = me[y] /\ whom'[y] = whom[y] /\ to'[y] = to[y] /\ saw'[y] = saw[y]
    BY <1>2 DEF MembersInv, TypeOK, Begin, Goto
  <2>3. ASSUME NEW y \in Requests PROVE PathInv!(y)'
    <3>1. CASE y = x
      BY <1>2, <2>1, <3>1 DEF ReadFirst, HandingOver, At, Changed, Absent, Roles
    <3>2. CASE y # x
      BY <2>2, <3>2 DEF MembersInv, PathInv, ReadFirst, HandingOver, At
    <3> QED BY <3>1, <3>2
  <2> QED BY <2>3 DEF PathInv
<1>4. OwnerKept'
  BY DEF MembersInv, OwnerKept, Owners, Begin, ghostVars
<1> QED BY <1>1, <1>3, <1>4 DEF MembersInv

LEMMA StepTypes ==
  ASSUME TypeOK, NEW x \in Requests, NEW us \in SUBSET Users, NEW label \in Labels,
         Step(x, us, label), Quiet, whom' \in [Requests -> Users \union {Nobody}]
  PROVE  TypeOK'
<1>1. saw' \in [Requests -> [Users -> Roles \union {Absent, Unread, Changed}]]
  BY ReadSaw DEF Step
<1> QED BY <1>1 DEF TypeOK, Step, Goto, Quiet, tableVars, ghostVars

LEMMA ReturnTypes ==
  ASSUME TypeOK, NEW x \in Requests, Return(x)
  PROVE  /\ pc' \in [Requests -> Labels]
         /\ me' \in [Requests -> Users \union {Nobody}]
         /\ whom' \in [Requests -> Users \union {Nobody}]
         /\ to' \in [Requests -> Roles \union {Absent}]
         /\ saw' \in [Requests -> [Users -> Roles \union {Absent, Unread, Changed}]]
BY DEF TypeOK, Return, Goto, Blank, Labels

-----------------------------------------------------------------------------
(* The steps of a request.                                                 *)

LEMMA AddMembersKeeps == ASSUME MembersInv, NEW x \in Requests, AddMembers(x) PROVE MembersInv'
BY BeginKeeps DEF AddMembers, Standalone, ValidRoles, GetChatMemberRole, IsChatMember, ListChatMembers, Roles, Absent, Labels, MembersInv, TypeOK

LEMMA UpdateMemberRoleKeeps == ASSUME MembersInv, NEW x \in Requests, UpdateMemberRole(x) PROVE MembersInv'
BY BeginKeeps DEF UpdateMemberRole, Standalone, ValidRoles, GetChatMemberRole, IsChatMember, ListChatMembers, Roles, Absent, Labels, MembersInv, TypeOK

LEMMA RemoveMemberKeeps == ASSUME MembersInv, NEW x \in Requests, RemoveMember(x) PROVE MembersInv'
BY BeginKeeps DEF RemoveMember, Standalone, ValidRoles, GetChatMemberRole, IsChatMember, ListChatMembers, Roles, Absent, Labels, MembersInv, TypeOK

LEMMA LeaveChatKeeps == ASSUME MembersInv, NEW x \in Requests, LeaveChat(x) PROVE MembersInv'
BY BeginKeeps DEF LeaveChat, Standalone, ValidRoles, GetChatMemberRole, IsChatMember, ListChatMembers, Roles, Absent, Labels, MembersInv, TypeOK

LEMMA DeleteChatKeeps == ASSUME MembersInv, NEW x \in Requests, DeleteChat(x) PROVE MembersInv'
BY BeginKeeps DEF DeleteChat, Standalone, ValidRoles, GetChatMemberRole, IsChatMember, ListChatMembers, Roles, Absent, Labels, MembersInv, TypeOK

LEMMA SubscribePublicChannelKeeps == ASSUME MembersInv, NEW x \in Requests, SubscribePublicChannel(x) PROVE MembersInv'
BY BeginKeeps DEF SubscribePublicChannel, Standalone, ValidRoles, GetChatMemberRole, IsChatMember, ListChatMembers, Roles, Absent, Labels, MembersInv, TypeOK

LEMMA UnsubscribePublicChannelKeeps == ASSUME MembersInv, NEW x \in Requests, UnsubscribePublicChannel(x) PROVE MembersInv'
BY BeginKeeps DEF UnsubscribePublicChannel, Standalone, ValidRoles, GetChatMemberRole, IsChatMember, ListChatMembers, Roles, Absent, Labels, MembersInv, TypeOK

LEMMA AcceptInviteLinkKeeps == ASSUME MembersInv, NEW x \in Requests, AcceptInviteLink(x) PROVE MembersInv'
BY BeginKeeps DEF AcceptInviteLink, Standalone, ValidRoles, GetChatMemberRole, IsChatMember, ListChatMembers, Roles, Absent, Labels, MembersInv, TypeOK

LEMMA ListInviteLinksKeeps == ASSUME MembersInv, NEW x \in Requests, ListInviteLinks(x) PROVE MembersInv'
BY BeginKeeps DEF ListInviteLinks, Standalone, ValidRoles, GetChatMemberRole, IsChatMember, ListChatMembers, Roles, Absent, Labels, MembersInv, TypeOK

LEMMA CreateInviteLinkKeeps == ASSUME MembersInv, NEW x \in Requests, CreateInviteLink(x) PROVE MembersInv'
BY BeginKeeps DEF CreateInviteLink, Standalone, ValidRoles, GetChatMemberRole, IsChatMember, ListChatMembers, Roles, Absent, Labels, MembersInv, TypeOK

LEMMA AcceptInviteKeeps == ASSUME MembersInv, NEW x \in Requests, AcceptInvite(x) PROVE MembersInv'
<1>1. PICK u \in Users : AcceptInvite(x)!(u)
  BY DEF AcceptInvite
<1>2. CASE Begin(x, u, u, Absent, "InvitedMember")
  BY <1>1, <1>2, BeginKeeps DEF Roles, Absent, Labels
<1>3. CASE UNCHANGED <<localVars, kind, role, links, ghostVars>>
  <2> USE <1>1, <1>3 DEF localVars, ghostVars
  <2>1. TypeOK' BY DEF MembersInv, TypeOK
  <2>2. PathInv' BY DEF MembersInv, PathInv, ReadFirst, HandingOver, At
  <2>3. OwnerKept' BY DEF MembersInv, OwnerKept, Owners
  <2> QED BY <2>1, <2>2, <2>3 DEF MembersInv
<1> QED BY <1>1, <1>2, <1>3

LEMMA AddListKeeps == ASSUME MembersInv, NEW x \in Requests, AddList(x) PROVE MembersInv'
<1> USE NobodyAssumption DEF AddList, At, Goto, Quiet, Blank, tableVars, ghostVars, GetChatMemberRole, IsChatMember, ListChatMembers, HandingOver
<1>1. {whom[x]} \in SUBSET Users
  BY DEF MembersInv, PathInv, ReadFirst
<1>2. CASE Return(x)
  <2>1. TypeOK' BY <1>2, ReturnTypes DEF MembersInv, TypeOK
  <2>2. PathInv' BY <1>2 DEF Return, MembersInv, TypeOK, PathInv, ReadFirst
  <2>3. OwnerKept' BY DEF MembersInv, OwnerKept, Owners
  <2> QED BY <2>1, <2>2, <2>3 DEF MembersInv
<1>3. CASE ~Return(x)
  <2> USE <1>1, <1>3
  <2>1. \E label \in Labels : Step(x, {whom[x]}, label)
    BY DEF Labels
  <2>2. TypeOK'
    <3>1. whom' \in [Requests -> Users \union {Nobody}] BY DEF MembersInv, TypeOK
    <3> QED BY <2>1, <3>1, StepTypes DEF MembersInv
  <2>3. Read(x, {whom[x]}) BY <2>1 DEF Step
  <2>4. /\ \A y \in Requests \ {x} : saw'[y] = saw[y]
        /\ \A u \in {whom[x]} : saw'[x][u] # Unread /\ saw'[x][u] \in {role[u], Changed}
        /\ \A u \in Users \ {whom[x]} : saw'[x][u] = saw[x][u]
    BY <2>3, ReadSaw DEF MembersInv
  <2>5. PathInv' BY <2>4 DEF Step, MembersInv, TypeOK, PathInv, ReadFirst, Changed, Absent
  <2>6. OwnerKept' BY DEF MembersInv, OwnerKept, Owners
  <2> QED BY <2>2, <2>5, <2>6 DEF MembersInv
<1> QED BY <1>2, <1>3

LEMMA TargetRoleKeeps == ASSUME MembersInv, NEW x \in Requests, TargetRole(x) PROVE MembersInv'
<1> USE NobodyAssumption DEF TargetRole, At, Goto, Quiet, Blank, tableVars, ghostVars, GetChatMemberRole, IsChatMember, ListChatMembers, HandingOver
<1>1. {whom[x]} \in SUBSET Users
  BY DEF MembersInv, PathInv, ReadFirst
<1>2. CASE Return(x)
  <2>1. TypeOK' BY <1>2, ReturnTypes DEF MembersInv, TypeOK
  <2>2. PathInv' BY <1>2 DEF Return, MembersInv, TypeOK, PathInv, ReadFirst
  <2>3. OwnerKept' BY DEF MembersInv, OwnerKept, Owners
  <2> QED BY <2>1, <2>2, <2>3 DEF MembersInv
<1>3. CASE ~Return(x)
  <2> USE <1>1, <1>3
  <2>1. \E label \in Labels : Step(x, {whom[x]}, label)
    BY DEF Labels
  <2>2. TypeOK'
    <3>1. whom' \in [Requests -> Users \union {Nobody}] BY DEF MembersInv, TypeOK
    <3> QED BY <2>1, <3>1, StepTypes DEF MembersInv
  <2>3. Read(x, {whom[x]}) BY <2>1 DEF Step
  <2>4. /\ \A y \in Requests \ {x} : saw'[y] = saw[y]
        /\ \A u \in {whom[x]} : saw'[x][u] # Unread /\ saw'[x][u] \in {role[u], Changed}
        /\ \A u \in Users \ {whom[x]} : saw'[x][u] = saw[x][u]
    BY <2>3, ReadSaw DEF MembersInv
  <2>5. PathInv' BY <2>4 DEF Step, MembersInv, TypeOK, PathInv, ReadFirst, Changed, Absent
  <2>6. OwnerKept' BY DEF MembersInv, OwnerKept, Owners
  <2> QED BY <2>2, <2>5, <2>6 DEF MembersInv
<1> QED BY <1>2, <1>3

LEMMA InvitedMemberKeeps == ASSUME MembersInv, NEW x \in Requests, InvitedMember(x) PROVE MembersInv'
<1> USE NobodyAssumption DEF InvitedMember, At, Goto, Quiet, Blank, tableVars, ghostVars, GetChatMemberRole, IsChatMember, ListChatMembers, HandingOver
<1>1. {me[x]} \in SUBSET Users
  BY DEF MembersInv, PathInv, ReadFirst
<1>2. CASE Return(x)
  <2>1. TypeOK' BY <1>2, ReturnTypes DEF MembersInv, TypeOK
  <2>2. PathInv' BY <1>2 DEF Return, MembersInv, TypeOK, PathInv, ReadFirst
  <2>3. OwnerKept' BY DEF MembersInv, OwnerKept, Owners
  <2> QED BY <2>1, <2>2, <2>3 DEF MembersInv
<1>3. CASE ~Return(x)
  <2> USE <1>1, <1>3
  <2>1. \E label \in Labels : Step(x, {me[x]}, label)
    BY DEF Labels
  <2>2. TypeOK'
    <3>1. whom' \in [Requests -> Users \union {Nobody}] BY DEF MembersInv, TypeOK
    <3> QED BY <2>1, <3>1, StepTypes DEF MembersInv
  <2>3. Read(x, {me[x]}) BY <2>1 DEF Step
  <2>4. /\ \A y \in Requests \ {x} : saw'[y] = saw[y]
        /\ \A u \in {me[x]} : saw'[x][u] # Unread /\ saw'[x][u] \in {role[u], Changed}
        /\ \A u \in Users \ {me[x]} : saw'[x][u] = saw[x][u]
    BY <2>3, ReadSaw DEF MembersInv
  <2>5. PathInv' BY <2>4 DEF Step, MembersInv, TypeOK, PathInv, ReadFirst, Changed, Absent
  <2>6. OwnerKept' BY DEF MembersInv, OwnerKept, Owners
  <2> QED BY <2>2, <2>5, <2>6 DEF MembersInv
<1> QED BY <1>2, <1>3

LEMMA LinkMemberKeeps == ASSUME MembersInv, NEW x \in Requests, LinkMember(x) PROVE MembersInv'
<1> USE NobodyAssumption DEF LinkMember, At, Goto, Quiet, Blank, tableVars, ghostVars, GetChatMemberRole, IsChatMember, ListChatMembers, HandingOver
<1>1. {me[x]} \in SUBSET Users
  BY DEF MembersInv, PathInv, ReadFirst
<1>2. CASE Return(x)
  <2>1. TypeOK' BY <1>2, ReturnTypes DEF MembersInv, TypeOK
  <2>2. PathInv' BY <1>2 DEF Return, MembersInv, TypeOK, PathInv, ReadFirst
  <2>3. OwnerKept' BY DEF MembersInv, OwnerKept, Owners
  <2> QED BY <2>1, <2>2, <2>3 DEF MembersInv
<1>3. CASE ~Return(x)
  <2> USE <1>1, <1>3
  <2>1. \E label \in Labels : Step(x, {me[x]}, label)
    BY DEF Labels
  <2>2. TypeOK'
    <3>1. whom' \in [Requests -> Users \union {Nobody}] BY DEF MembersInv, TypeOK
    <3> QED BY <2>1, <3>1, StepTypes DEF MembersInv
  <2>3. Read(x, {me[x]}) BY <2>1 DEF Step
  <2>4. /\ \A y \in Requests \ {x} : saw'[y] = saw[y]
        /\ \A u \in {me[x]} : saw'[x][u] # Unread /\ saw'[x][u] \in {role[u], Changed}
        /\ \A u \in Users \ {me[x]} : saw'[x][u] = saw[x][u]
    BY <2>3, ReadSaw DEF MembersInv
  <2>5. PathInv' BY <2>4 DEF Step, MembersInv, TypeOK, PathInv, ReadFirst, Changed, Absent
  <2>6. OwnerKept' BY DEF MembersInv, OwnerKept, Owners
  <2> QED BY <2>2, <2>5, <2>6 DEF MembersInv
<1> QED BY <1>2, <1>3

LEMMA LeaveRoleKeeps == ASSUME MembersInv, NEW x \in Requests, LeaveRole(x) PROVE MembersInv'
<1> USE NobodyAssumption DEF LeaveRole, At, Goto, Quiet, Blank, tableVars, ghostVars, GetChatMemberRole, IsChatMember, ListChatMembers, HandingOver
<1>1. {me[x]} \in SUBSET Users
  BY DEF MembersInv, PathInv, ReadFirst
<1>2. CASE Return(x)
  <2>1. TypeOK' BY <1>2, ReturnTypes DEF MembersInv, TypeOK
  <2>2. PathInv' BY <1>2 DEF Return, MembersInv, TypeOK, PathInv, ReadFirst
  <2>3. OwnerKept' BY DEF MembersInv, OwnerKept, Owners
  <2> QED BY <2>1, <2>2, <2>3 DEF MembersInv
<1>3. CASE ~Return(x)
  <2> USE <1>1, <1>3
  <2>1. \E label \in Labels : Step(x, {me[x]}, label)
    BY DEF Labels
  <2>2. TypeOK'
    <3>1. whom' \in [Requests -> Users \union {Nobody}] BY DEF MembersInv, TypeOK
    <3> QED BY <2>1, <3>1, StepTypes DEF MembersInv
  <2>3. Read(x, {me[x]}) BY <2>1 DEF Step
  <2>4. /\ \A y \in Requests \ {x} : saw'[y] = saw[y]
        /\ \A u \in {me[x]} : saw'[x][u] # Unread /\ saw'[x][u] \in {role[u], Changed}
        /\ \A u \in Users \ {me[x]} : saw'[x][u] = saw[x][u]
    BY <2>3, ReadSaw DEF MembersInv
  <2>5. PathInv' BY <2>4 DEF Step, MembersInv, TypeOK, PathInv, ReadFirst, Changed, Absent
  <2>6. OwnerKept' BY DEF MembersInv, OwnerKept, Owners
  <2> QED BY <2>2, <2>5, <2>6 DEF MembersInv
<1> QED BY <1>2, <1>3

LEMMA LeaveHeirKeeps == ASSUME MembersInv, NEW x \in Requests, LeaveHeir(x) PROVE MembersInv'
<1> USE NobodyAssumption DEF LeaveHeir, At, Goto, Quiet, Blank, tableVars, ghostVars, GetChatMemberRole, IsChatMember, ListChatMembers, HandingOver, Heirs
<1>1. Users \in SUBSET Users
  BY DEF MembersInv, PathInv, ReadFirst
<1>2. CASE Return(x)
  <2>1. TypeOK' BY <1>2, ReturnTypes DEF MembersInv, TypeOK
  <2>2. PathInv' BY <1>2 DEF Return, MembersInv, TypeOK, PathInv, ReadFirst
  <2>3. OwnerKept' BY DEF MembersInv, OwnerKept, Owners
  <2> QED BY <2>1, <2>2, <2>3 DEF MembersInv
<1>3. CASE ~Return(x)
  <2> USE <1>1, <1>3
  <2>1. \E label \in Labels : Step(x, Users, label)
    BY DEF Labels
  <2>2. TypeOK'
    <3>1. whom' \in [Requests -> Users \union {Nobody}] BY DEF MembersInv, TypeOK
    <3> QED BY <2>1, <3>1, StepTypes DEF MembersInv
  <2>3. Read(x, Users) BY <2>1 DEF Step
  <2>4. /\ \A y \in Requests \ {x} : saw'[y] = saw[y]
        /\ \A u \in Users : saw'[x][u] # Unread /\ saw'[x][u] \in {role[u], Changed}
        /\ \A u \in Users \ Users : saw'[x][u] = saw[x][u]
    BY <2>3, ReadSaw DEF MembersInv
  <2>5. PathInv' BY <2>4 DEF Step, MembersInv, TypeOK, PathInv, ReadFirst, Changed, Absent
  <2>6. OwnerKept' BY DEF MembersInv, OwnerKept, Owners
  <2> QED BY <2>2, <2>5, <2>6 DEF MembersInv
<1> QED BY <1>2, <1>3

LEMMA UpdateChatMemberRoleKeeps == ASSUME MembersInv, NEW x \in Requests, UpdateChatMemberRole(x) PROVE MembersInv'
<1> USE NobodyAssumption DEF UpdateChatMemberRole, At, Goto, Return, Blank, ghostVars, tableVars, HandingOver
<1>1. TypeOK' BY DEF Write, MembersInv, TypeOK, Labels, PathInv, ReadFirst, Roles, Absent, Unread, Changed
<1>2. PathInv' BY DEF MembersInv, TypeOK, PathInv, ReadFirst
<1>3. CASE Write(x, whom[x], to[x])
  <2>1. whom[x] \in Users /\ saw[x][whom[x]] \notin {Unread, "owner"}
    BY DEF MembersInv, PathInv, ReadFirst
  <2>2. overtaken' \/ \A v \in Owners : v \in Owners'
    BY <1>3, <2>1, WriteKeepsOwners DEF MembersInv
  <2>3. kind' = kind /\ (overtaken => overtaken')
    BY <1>3 DEF Write
  <2> QED BY <1>1, <1>2, <2>2, <2>3 DEF MembersInv, OwnerKept
<1>4. CASE ~Write(x, whom[x], to[x])
  <2>1. kind' = kind /\ role' = role /\ overtaken' = overtaken
    BY <1>4
  <2> QED BY <1>1, <1>2, <2>1 DEF MembersInv, OwnerKept, Owners
<1> QED BY <1>1, <1>2, <1>3, <1>4 DEF MembersInv

LEMMA RemoveChatMemberKeeps == ASSUME MembersInv, NEW x \in Requests, RemoveChatMember(x) PROVE MembersInv'
<1> USE NobodyAssumption DEF RemoveChatMember, At, Goto, Return, Blank, ghostVars, tableVars, HandingOver
<1>1. TypeOK' BY DEF Write, MembersInv, TypeOK, Labels, PathInv, ReadFirst, Roles, Absent, Unread, Changed
<1>2. PathInv' BY DEF MembersInv, TypeOK, PathInv, ReadFirst
<1>3. CASE Write(x, whom[x], Absent)
  <2>1. whom[x] \in Users /\ saw[x][whom[x]] \notin {Unread, "owner"}
    BY DEF MembersInv, PathInv, ReadFirst
  <2>2. overtaken' \/ \A v \in Owners : v \in Owners'
    BY <1>3, <2>1, WriteKeepsOwners DEF MembersInv
  <2>3. kind' = kind /\ (overtaken => overtaken')
    BY <1>3 DEF Write
  <2> QED BY <1>1, <1>2, <2>2, <2>3 DEF MembersInv, OwnerKept
<1>4. CASE ~Write(x, whom[x], Absent)
  <2>1. kind' = kind /\ role' = role /\ overtaken' = overtaken
    BY <1>4
  <2> QED BY <1>1, <1>2, <2>1 DEF MembersInv, OwnerKept, Owners
<1> QED BY <1>1, <1>2, <1>3, <1>4 DEF MembersInv

LEMMA LeaveRowKeeps == ASSUME MembersInv, NEW x \in Requests, LeaveRow(x) PROVE MembersInv'
<1> USE NobodyAssumption DEF LeaveRow, At, Goto, Return, Blank, ghostVars, tableVars, HandingOver
<1>1. TypeOK' BY DEF Write, MembersInv, TypeOK, Labels, PathInv, ReadFirst, Roles, Absent, Unread, Changed
<1>2. PathInv' BY DEF MembersInv, TypeOK, PathInv, ReadFirst
<1>3. OwnerKept'
  <2>1. me[x] \in Users /\ saw[x][me[x]] # Unread
    BY DEF MembersInv, PathInv, ReadFirst
  <2>2. CASE saw[x][me[x]] # "owner"
    <3>1. overtaken' \/ \A v \in Owners : v \in Owners'
      BY <2>1, <2>2, WriteKeepsOwners DEF MembersInv
    <3> QED BY <3>1 DEF MembersInv, OwnerKept, Owners, Write
  <2>3. CASE saw[x][me[x]] = "owner"
    <3>1. whom[x] \in Users /\ whom[x] # me[x] /\ saw[x][whom[x]] = "owner"
      BY <2>3 DEF MembersInv, PathInv, ReadFirst
    <3>2. CASE Stale(x) /\ role[me[x]] # Absent
      BY <3>2 DEF Write, OwnerKept
    <3>3. CASE role[me[x]] = Absent
      BY <3>3 DEF MembersInv, Write, OwnerKept, Owners, TypeOK, Absent
    <3>4. CASE ~Stale(x)
      <4>1. role[whom[x]] = "owner" BY <3>1, <3>4 DEF Stale, Unread
      <4> QED BY <3>1, <4>1 DEF MembersInv, Write, OwnerKept, Owners, TypeOK
    <3> QED BY <3>2, <3>3, <3>4
  <2> QED BY <2>2, <2>3
<1> QED BY <1>1, <1>2, <1>3 DEF MembersInv

LEMMA CreateChatInviteLinkKeeps == ASSUME MembersInv, NEW x \in Requests, CreateChatInviteLink(x) PROVE MembersInv'
<1> USE NobodyAssumption DEF CreateChatInviteLink, At, Goto, Return, Blank, ghostVars, tableVars, HandingOver
<1>1. TypeOK' BY DEF Write, MembersInv, TypeOK, Labels, PathInv, ReadFirst, Roles, Absent, Unread, Changed
<1>2. PathInv' BY DEF MembersInv, TypeOK, PathInv, ReadFirst
<1>3. OwnerKept' BY DEF MembersInv, OwnerKept, Owners
<1> QED BY <1>1, <1>2, <1>3 DEF MembersInv

LEMMA DeleteRowKeeps == ASSUME MembersInv, NEW x \in Requests, DeleteRow(x) PROVE MembersInv'
<1> USE NobodyAssumption DEF DeleteRow, At, Goto, Return, Blank, ghostVars, tableVars, HandingOver
<1>1. TypeOK' BY DEF Write, MembersInv, TypeOK, Labels, PathInv, ReadFirst, Roles, Absent, Unread, Changed
<1>2. PathInv' BY DEF MembersInv, TypeOK, PathInv, ReadFirst
<1>3. OwnerKept' BY DEF MembersInv, OwnerKept, Owners
<1> QED BY <1>1, <1>2, <1>3 DEF MembersInv

LEMMA FailKeeps == ASSUME MembersInv, NEW x \in Requests, Fail(x) PROVE MembersInv'
<1> USE NobodyAssumption DEF Fail, At, Goto, Return, Blank, ghostVars, tableVars, HandingOver
<1>1. TypeOK' BY DEF Write, MembersInv, TypeOK, Labels, PathInv, ReadFirst, Roles, Absent, Unread, Changed
<1>2. PathInv' BY DEF MembersInv, TypeOK, PathInv, ReadFirst
<1>3. OwnerKept' BY DEF MembersInv, OwnerKept, Owners
<1> QED BY <1>1, <1>2, <1>3 DEF MembersInv

LEMMA AddChatMembersKeeps == ASSUME MembersInv, NEW x \in Requests, AddChatMembers(x) PROVE MembersInv'
<1> USE NobodyAssumption DEF AddChatMembers, At, Goto, Absent, Unread, Changed
<1>1. whom[x] \in Users
  BY DEF MembersInv, PathInv, ReadFirst
<1>2. TypeOK'
  <2>1. role' \in [Users -> Roles \union {Absent}] BY <1>1 DEF MembersInv, TypeOK, Write, Roles
  <2>2. overtaken' \in BOOLEAN BY DEF MembersInv, TypeOK, Write
  <2>3. kind' = "deleted" => (\A u \in Users : role'[u] = Absent) /\ ~links'
    BY DEF MembersInv, TypeOK
  <2>4. CASE Return(x) BY <2>1, <2>2, <2>3, <2>4, ReturnTypes DEF MembersInv, TypeOK
  <2>5. CASE ~Return(x)
    <3>1. UNCHANGED <<me, whom, to, kind, invited, links, broken>> BY <2>5
    <3>2. pc' \in [Requests -> Labels] BY <2>5 DEF MembersInv, TypeOK, Labels
    <3>3. saw' \in [Requests -> [Users -> Roles \union {Absent, Unread, Changed}]]
      <4>1. saw' = saw \/ saw' = [saw EXCEPT ![x] = [saw[x] EXCEPT ![whom[x]] = "member"]] BY <2>5
      <4>2. [saw[x] EXCEPT ![whom[x]] = "member"] \in [Users -> Roles \union {Absent, Unread, Changed}]
        BY DEF MembersInv, TypeOK, Roles
      <4> QED BY <4>1, <4>2 DEF MembersInv, TypeOK
    <3> QED BY <2>1, <2>2, <2>3, <3>1, <3>2, <3>3 DEF MembersInv, TypeOK
  <2> QED BY <2>4, <2>5
<1>3. PathInv' BY <1>1 DEF Return, Blank, HandingOver, MembersInv, TypeOK, PathInv, ReadFirst
<1>4. OwnerKept' BY <1>1 DEF MembersInv, TypeOK, OwnerKept, Owners, Write
<1> QED BY <1>2, <1>3, <1>4 DEF MembersInv

LEMMA LeavePromoteKeeps == ASSUME MembersInv, NEW x \in Requests, LeavePromote(x) PROVE MembersInv'
<1> USE NobodyAssumption DEF LeavePromote, At, Goto, Absent, Unread, Changed
<1>1. whom[x] \in Users
  BY DEF MembersInv, PathInv, ReadFirst
<1>2. TypeOK'
  <2>1. role' \in [Users -> Roles \union {Absent}] BY <1>1 DEF MembersInv, TypeOK, Write, Roles
  <2>2. overtaken' \in BOOLEAN BY DEF MembersInv, TypeOK, Write
  <2>3. kind' = "deleted" => (\A u \in Users : role'[u] = Absent) /\ ~links'
    BY <1>1 DEF MembersInv, TypeOK
  <2>4. CASE Return(x) BY <2>1, <2>2, <2>3, <2>4, ReturnTypes DEF MembersInv, TypeOK
  <2>5. CASE ~Return(x)
    <3>1. UNCHANGED <<me, whom, to, kind, invited, links, broken>> BY <2>5
    <3>2. pc' \in [Requests -> Labels] BY <2>5 DEF MembersInv, TypeOK, Labels
    <3>3. saw' \in [Requests -> [Users -> Roles \union {Absent, Unread, Changed}]]
      <4>1. saw' = saw \/ saw' = [saw EXCEPT ![x] = [saw[x] EXCEPT ![whom[x]] = "owner"]] BY <2>5
      <4>2. [saw[x] EXCEPT ![whom[x]] = "owner"] \in [Users -> Roles \union {Absent, Unread, Changed}]
        BY DEF MembersInv, TypeOK, Roles
      <4> QED BY <4>1, <4>2 DEF MembersInv, TypeOK
    <3> QED BY <2>1, <2>2, <2>3, <3>1, <3>2, <3>3 DEF MembersInv, TypeOK
  <2> QED BY <2>4, <2>5
<1>3. PathInv' BY <1>1 DEF Return, Blank, HandingOver, MembersInv, TypeOK, PathInv, ReadFirst
<1>4. OwnerKept' BY <1>1 DEF MembersInv, TypeOK, OwnerKept, Owners, Write
<1> QED BY <1>2, <1>3, <1>4 DEF MembersInv

-----------------------------------------------------------------------------
LEMMA MembersStep == ASSUME MembersInv, [Next]_vars PROVE MembersInv'
<1>1. CASE UNCHANGED vars
  BY <1>1 DEF MembersInv, TypeOK, PathInv, ReadFirst, HandingOver, At, OwnerKept, Owners, vars, localVars, ghostVars
<1>2. ASSUME NEW x \in Requests, MemberRequests(x) \/ ChatRequests(x) PROVE MembersInv'
  BY <1>2, AddMembersKeeps, UpdateMemberRoleKeeps, RemoveMemberKeeps, LeaveChatKeeps, DeleteChatKeeps,
     AcceptInviteKeeps DEF MemberRequests, ChatRequests
<1>3. ASSUME NEW x \in Requests, LinkRequests(x) \/ ChannelRequests(x) PROVE MembersInv'
  BY <1>3, ListInviteLinksKeeps, CreateInviteLinkKeeps, AcceptInviteLinkKeeps,
     SubscribePublicChannelKeeps, UnsubscribePublicChannelKeeps DEF LinkRequests, ChannelRequests
<1>4. ASSUME NEW x \in Requests, Reads(x) PROVE MembersInv'
  BY <1>4, AddListKeeps, TargetRoleKeeps, InvitedMemberKeeps, LinkMemberKeeps, LeaveRoleKeeps,
     LeaveHeirKeeps DEF Reads
<1>5. ASSUME NEW x \in Requests, Writes(x) PROVE MembersInv'
  BY <1>5, AddChatMembersKeeps, UpdateChatMemberRoleKeeps, RemoveChatMemberKeeps, LeavePromoteKeeps,
     LeaveRowKeeps, CreateChatInviteLinkKeeps, DeleteRowKeeps, FailKeeps DEF Writes
<1> QED BY <1>1, <1>2, <1>3, <1>4, <1>5 DEF Next

LEMMA MembersAlways == Spec => []MembersInv
BY MembersInit, MembersStep, PTL DEF Spec

\* Type correctness, with a deleted chat rid of its rows (TypeOK).
THEOREM MembersTyped == Spec => []TypeOK
<1>1. MembersInv => TypeOK BY DEF MembersInv
<1> QED BY <1>1, MembersAlways, PTL

\* However adding, removing, promoting, leaving and handing over interleave and fail, a chat
\* is without an owner only after a request that was overtaken (OwnerKept).
THEOREM AnOwnerIsKept == Spec => []OwnerKept
<1>1. MembersInv => OwnerKept BY DEF MembersInv
<1> QED BY <1>1, MembersAlways, PTL
-----------------------------------------------------------------------------
\* What a request remembers of the rows it read: a leaver that he was the owner, who acts for
\* himself that he was not banned, and a leaver that his heir was not.  Who writes the row of
\* another was entitled to when he asked, and who removes his own is in a public channel.
Entitled(x) ==
  /\ At(x, "idle") => saw[x] = Blank
  /\ At(x, "TargetRole") /\ to[x] # Absent => CanManageRoles(saw[x][me[x]])
  /\ At(x, "TargetRole") /\ to[x] = Absent => CanManageMembers(saw[x][me[x]]) /\ whom[x] # me[x]
  /\ At(x, "LinkMember") => whom[x] = me[x]
  /\ At(x, "AddChatMembers") /\ to[x] # Absent => whom[x] = me[x]
  /\ At(x, "UpdateChatMemberRole") /\ whom[x] # me[x] => CanManageRoles(saw[x][me[x]])
  /\ At(x, "RemoveChatMember") =>
       IF whom[x] = me[x] THEN kind \in {"public", "deleted"} ELSE CanManageMembers(saw[x][me[x]])
Recall(x) ==
  /\ pc[x] \in {"LeaveHeir", "LeavePromote"} => saw[x][me[x]] \in {"owner", Changed}
  /\ pc[x] \in {"TargetRole", "LinkMember", "LeaveRole", "LeaveRow"} => saw[x][me[x]] \notin {Unread, "banned"}
  /\ pc[x] \in {"AddList", "InvitedMember"} => to[x] = Absent
  /\ pc[x] \in {"AddChatMembers", "UpdateChatMemberRole"} /\ whom[x] = me[x] /\ to[x] # Absent =>
       saw[x][whom[x]] # "banned"
  /\ At(x, "LeavePromote") => saw[x][whom[x]] # "banned"
  /\ Entitled(x)
RecallInv == \A x \in Requests : Recall(x)

\* Owners and handovers under way can be counted, and the former are at most one more.
Handing == {x \in Requests : HandingOver(x)}
CountInv ==
  overtaken \/ broken \/
    /\ IsFiniteSet(Owners) /\ IsFiniteSet(Handing)
    /\ Cardinality(Owners) <= 1 + Cardinality(Handing)
-----------------------------------------------------------------------------
(* What requests remember.                                                 *)

\* A step of request x leaves what the others know alone.
Alone(x) ==
  \A y \in Requests \ {x} : /\ pc'[y] = pc[y] /\ me'[y] = me[y] /\ whom'[y] = whom[y]
                            /\ to'[y] = to[y] /\ saw'[y] = saw[y]
\* What x knows of the row of u once it has read it again.
ReadAgain(x, u) ==
  /\ saw'[x][u] \in {role[u], Changed}
  /\ saw[x][u] \notin {Unread, role[u]} => saw'[x][u] = Changed

LEMMA ReadRecall ==
  ASSUME TypeOK, NEW x \in Requests, NEW us \in SUBSET Users, Read(x, us)
  PROVE  /\ \A y \in Requests \ {x} : saw'[y] = saw[y]
         /\ \A u \in us : ReadAgain(x, u)
         /\ \A u \in Users \ us : saw'[x][u] = saw[x][u]
BY DEF Read, TypeOK, ReadAgain, Roles, Absent, Unread, Changed

LEMMA BeginAlone ==
  ASSUME TypeOK, NEW x \in Requests, NEW u \in Users, NEW w, NEW r, NEW label, Begin(x, u, w, r, label)
  PROVE  /\ Alone(x) /\ pc[x] = "idle" /\ role' = role
         /\ pc'[x] = label /\ me'[x] = u /\ whom'[x] = w /\ to'[x] = r
         /\ ReadAgain(x, u) /\ saw'[x][u] # Unread
<1>1. {u} \in SUBSET Users /\ Read(x, {u})
  BY DEF Begin
<1>2. /\ \A y \in Requests \ {x} : saw'[y] = saw[y]
      /\ ReadAgain(x, u)
  BY <1>1, ReadRecall
<1>3. role[u] # Unread /\ Changed # Unread
  BY DEF TypeOK, Roles, Absent, Unread, Changed
<1> QED  BY <1>2, <1>3 DEF Begin, At, Goto, Alone, TypeOK, ReadAgain

LEMMA StepAlone ==
  ASSUME TypeOK, NEW x \in Requests, NEW us \in SUBSET Users, NEW label, Step(x, us, label),
         \A y \in Requests \ {x} : whom'[y] = whom[y]
  PROVE  /\ Alone(x) /\ pc'[x] = label /\ me'[x] = me[x] /\ to'[x] = to[x]
         /\ \A u \in us : ReadAgain(x, u)
         /\ \A u \in Users \ us : saw'[x][u] = saw[x][u]
BY ReadRecall DEF Step, Goto, Alone, TypeOK

LEMMA ReturnAlone ==
  ASSUME TypeOK, NEW x \in Requests, Return(x)
  PROVE  Alone(x) /\ pc'[x] = "idle" /\ saw'[x] = Blank
BY DEF Return, Goto, Alone, TypeOK

LEMMA RecallOfOthers ==
  ASSUME RecallInv, NEW x \in Requests, Alone(x), kind' \in {kind, "deleted"}, Recall(x)'
  PROVE  RecallInv'
<1>1. ASSUME NEW y \in Requests, y # x PROVE Recall(y)'
  BY <1>1 DEF Alone, RecallInv, Recall, Entitled, At
<1> QED  BY <1>1 DEF RecallInv

LEMMA ReturnRecall ==
  ASSUME TypeOK, RecallInv, NEW x \in Requests, Return(x), kind' \in {kind, "deleted"}
  PROVE  RecallInv'
<1>1. Recall(x)'
  BY ReturnAlone DEF Recall, Entitled, At
<1> QED  BY <1>1, ReturnAlone, RecallOfOthers

LEMMA BeginRecall ==
  ASSUME TypeOK, RecallInv, NEW x \in Requests, NEW u \in Users, NEW w, NEW r, NEW label,
         Begin(x, u, w, r, label), label \notin {"idle", "LeaveHeir", "LeavePromote"},
         label \in {"AddList", "InvitedMember"} => r = Absent,
         label \in {"TargetRole", "LinkMember", "LeaveRole", "LeaveRow", "AddChatMembers", "UpdateChatMemberRole"} =>
           role[u] # "banned",
         label = "TargetRole" =>
           IF r = Absent THEN CanManageMembers(role[u]) /\ w # u ELSE CanManageRoles(role[u]),
         label \in {"LinkMember", "AddChatMembers", "UpdateChatMemberRole", "RemoveChatMember"} => w = u,
         label = "RemoveChatMember" => kind = "public"
  PROVE  RecallInv'
<1>1. /\ Alone(x) /\ pc'[x] = label /\ me'[x] = u /\ whom'[x] = w /\ to'[x] = r
      /\ label # "idle" /\ role[u] # Unread
  BY BeginAlone DEF TypeOK, Roles, Absent, Unread
<1>2. saw[x][u] = Unread /\ kind' = kind
  BY DEF Begin, RecallInv, Recall, Entitled, Blank, At
<1>3. saw'[x][u] = role[u]
  BY <1>2 DEF Begin, Read, TypeOK
<1>4. Entitled(x)'
  BY <1>1, <1>2, <1>3 DEF Entitled, At, CanManageRoles, CanManageMembers
<1>5. Recall(x)'
  BY <1>1, <1>3, <1>4 DEF Recall, At
<1> QED  BY <1>1, <1>2, <1>5, RecallOfOthers

LEMMA OperationsRecall ==
  ASSUME TypeOK, RecallInv, NEW x \in Requests,
         MemberRequests(x) \/ ChatRequests(x) \/ LinkRequests(x) \/ ChannelRequests(x)
  PROVE  RecallInv'
<1> USE DEF GetChatMemberRole, IsChatMember
<1>1. CASE AddMembers(x)
  BY <1>1, BeginRecall DEF AddMembers
<1>2. CASE UpdateMemberRole(x)
  BY <1>2, BeginRecall DEF UpdateMemberRole, CanManageRoles, ValidRoles, Absent
<1>3. CASE RemoveMember(x)
  BY <1>3, BeginRecall DEF RemoveMember, CanManageMembers
<1>4. CASE LeaveChat(x) \/ DeleteChat(x)
  BY <1>4, BeginRecall DEF LeaveChat, DeleteChat
<1>5. CASE AcceptInvite(x)
  <2>1. CASE UNCHANGED <<localVars, role, kind>>
    BY <2>1 DEF localVars, RecallInv, Recall, Entitled, At
  <2>2. ASSUME NEW u \in Users, Begin(x, u, u, Absent, "InvitedMember") PROVE RecallInv'
    BY <2>2, BeginRecall
  <2> QED  BY <1>5, <2>1, <2>2 DEF AcceptInvite
<1>6. CASE ListInviteLinks(x) \/ CreateInviteLink(x)
  BY <1>6, BeginRecall DEF ListInviteLinks, CreateInviteLink
<1>7. CASE AcceptInviteLink(x)
  BY <1>7, BeginRecall DEF AcceptInviteLink
<1>8. CASE SubscribePublicChannel(x) \/ UnsubscribePublicChannel(x)
  BY <1>8, BeginRecall DEF SubscribePublicChannel, UnsubscribePublicChannel, Absent
<1> QED
  BY <1>1, <1>2, <1>3, <1>4, <1>5, <1>6, <1>7, <1>8
     DEF MemberRequests, ChatRequests, LinkRequests, ChannelRequests

LEMMA ReadsRecall ==
  ASSUME MembersInv, RecallInv, NEW x \in Requests, Reads(x)
  PROVE  RecallInv'
<1> USE DEF GetChatMemberRole, IsChatMember, ListChatMembers
<1>0. TypeOK /\ Recall(x)
  BY DEF MembersInv, RecallInv
<1>kind. kind' = kind
  BY DEF Reads, AddList, TargetRole, InvitedMember, LinkMember, LeaveRole, LeaveHeir, Quiet, tableVars
<1>1. CASE Return(x)
  BY <1>0, <1>kind, <1>1, ReturnRecall
<1>2. CASE (AddList(x) \/ InvitedMember(x)) /\ ~Return(x)
  <2>1. PICK u \in Users : Step(x, {u}, "AddChatMembers") /\ whom' = whom
    BY <1>2 DEF AddList, InvitedMember, MembersInv, PathInv, At
  <2>2. to[x] = Absent
    BY <1>0, <1>2 DEF AddList, InvitedMember, Recall, At
  <2>3. Alone(x) /\ pc'[x] = "AddChatMembers" /\ to'[x] = Absent
    BY <1>0, <2>1, <2>2, StepAlone
  <2> QED  BY <1>kind, <2>3, RecallOfOthers DEF Recall, Entitled, At
<1>3. CASE (TargetRole(x) \/ LinkMember(x)) /\ ~Return(x)
  <2>1. PICK u \in Users : /\ u = whom[x] /\ whom' = whom
                           /\ \E label \in {"RemoveChatMember", "UpdateChatMemberRole", "AddChatMembers"} :
                                Step(x, {u}, label)
    BY <1>3 DEF TargetRole, LinkMember, MembersInv, PathInv, At
  <2>2. /\ Alone(x) /\ me'[x] = me[x] /\ ReadAgain(x, u)
        /\ pc'[x] \in {"RemoveChatMember", "UpdateChatMemberRole", "AddChatMembers"}
    BY <1>0, <2>1, StepAlone
  <2>3. u = me[x] => saw'[x][u] # "banned"
    BY <1>0, <1>3, <2>2 DEF TargetRole, LinkMember, Recall, ReadAgain, At, Changed
  <2>4. /\ to'[x] = to[x] /\ whom'[x] = whom[x] /\ pc'[x] # "idle"
        /\ whom[x] # me[x] => saw'[x][me[x]] = saw[x][me[x]]
    <3>1. me[x] \in Users
      BY <1>3 DEF TargetRole, LinkMember, MembersInv, PathInv, At
    <3>2. to'[x] = to[x] /\ whom'[x] = whom[x] /\ pc'[x] # "idle"
      BY <1>0, <2>1, <2>2, StepAlone
    <3>3. Read(x, {u})
      BY <2>1 DEF Step
    <3>4. \A v \in Users \ {u} : saw'[x][v] = saw[x][v]
      BY <1>0, <3>3 DEF Read, TypeOK
    <3> QED  BY <2>1, <3>1, <3>2, <3>4
  <2>5. pc'[x] = IF pc[x] = "LinkMember" THEN "AddChatMembers"
                 ELSE IF to[x] = Absent THEN "RemoveChatMember" ELSE "UpdateChatMemberRole"
    BY <1>0, <1>3 DEF TargetRole, LinkMember, At, Step, Goto, TypeOK
  <2>6. Entitled(x)'
    BY <1>0, <1>3, <2>2, <2>4, <2>5 DEF TargetRole, LinkMember, Recall, Entitled, At
  <2>7. Recall(x)'
    BY <2>1, <2>2, <2>3, <2>6 DEF Recall, At
  <2> QED  BY <1>kind, <2>2, <2>7, RecallOfOthers
<1>4. CASE LeaveRole(x) /\ ~Return(x)
  <2>1. PICK u \in Users : /\ u = me[x] /\ whom' = whom
                           /\ Step(x, {u}, IF role[u] = "owner" THEN "LeaveHeir" ELSE "LeaveRow")
    BY <1>4 DEF LeaveRole, MembersInv, PathInv, ReadFirst, At
  <2>2. /\ Alone(x) /\ me'[x] = u /\ ReadAgain(x, u)
        /\ pc'[x] = IF role[u] = "owner" THEN "LeaveHeir" ELSE "LeaveRow"
    BY <1>0, <2>1, StepAlone
  <2>3. saw'[x][u] \notin {Unread, "banned"}
    BY <1>0, <1>4, <2>1, <2>2 DEF LeaveRole, Recall, ReadAgain, At, TypeOK, Roles, Absent, Unread, Changed
  <2>4. Recall(x)'
    BY <2>2, <2>3 DEF Recall, Entitled, At, ReadAgain
  <2> QED  BY <1>kind, <2>2, <2>4, RecallOfOthers
<1>5. CASE LeaveHeir(x) /\ ~Return(x)
  <2>1. PICK u \in Heirs(x) : whom' = [whom EXCEPT ![x] = u] /\ Step(x, Users, "LeavePromote")
    BY <1>5 DEF LeaveHeir
  <2>2. u \in Users /\ role[u] # "banned" /\ me[x] \in Users /\ saw[x][me[x]] \in {"owner", Changed}
    BY <1>0, <1>5, <2>1 DEF Heirs, LeaveHeir, MembersInv, PathInv, ReadFirst, Recall, At
  <2>3. /\ Alone(x) /\ pc'[x] = "LeavePromote" /\ me'[x] = me[x] /\ whom'[x] = u
        /\ ReadAgain(x, u) /\ ReadAgain(x, me[x])
    BY <1>0, <2>1, <2>2, StepAlone DEF TypeOK
  <2>4. saw'[x][me[x]] \in {"owner", Changed} /\ saw'[x][u] # "banned"
    BY <1>0, <2>2, <2>3 DEF ReadAgain, Changed, Unread
  <2>5. Recall(x)'
    BY <2>3, <2>4 DEF Recall, Entitled, At
  <2> QED  BY <1>kind, <2>3, <2>5, RecallOfOthers
<1> QED  BY <1>1, <1>2, <1>3, <1>4, <1>5 DEF Reads

LEMMA WritesRecall ==
  ASSUME MembersInv, RecallInv, NEW x \in Requests, Writes(x)
  PROVE  RecallInv'
<1>0. TypeOK /\ Recall(x)
  BY DEF MembersInv, RecallInv
<1>kind. kind' \in {kind, "deleted"}
  BY DEF Writes, AddChatMembers, UpdateChatMemberRole, RemoveChatMember, LeavePromote, LeaveRow,
     CreateChatInviteLink, DeleteRow, Fail, tableVars
<1>1. CASE Return(x)
  BY <1>0, <1>kind, <1>1, ReturnRecall
<1>2. CASE AddChatMembers(x) /\ ~Return(x)
  <2>1. /\ Alone(x) /\ pc'[x] = "UpdateChatMemberRole" /\ me'[x] = me[x] /\ whom'[x] = whom[x] /\ to'[x] = to[x]
        /\ saw' = saw \/ saw' = [saw EXCEPT ![x][whom[x]] = "member"]
    BY <1>0, <1>2 DEF AddChatMembers, Goto, Alone, TypeOK
  <2>2. saw'[x][whom[x]] \in {saw[x][whom[x]], "member"}
    BY <1>0, <2>1 DEF TypeOK
  <2>3. Recall(x)'
    BY <1>0, <1>2, <2>1, <2>2 DEF AddChatMembers, Recall, Entitled, At
  <2> QED  BY <1>kind, <2>1, <2>3, RecallOfOthers
<1>3. CASE LeavePromote(x) /\ ~Return(x)
  <2>1. Alone(x) /\ pc'[x] = "LeaveRow" /\ me'[x] = me[x]
    BY <1>0, <1>3 DEF LeavePromote, Goto, Alone, TypeOK
  <2>2. saw'[x][me[x]] = saw[x][me[x]] /\ saw[x][me[x]] \in {"owner", Changed}
    BY <1>0, <1>3 DEF LeavePromote, MembersInv, PathInv, ReadFirst, Recall, TypeOK, At
  <2>3. Recall(x)'
    BY <2>1, <2>2 DEF Recall, Entitled, At, Unread, Changed
  <2> QED  BY <1>kind, <2>1, <2>3, RecallOfOthers
<1> QED
  BY <1>1, <1>2, <1>3 DEF Writes, UpdateChatMemberRole, RemoveChatMember, LeaveRow,
     CreateChatInviteLink, DeleteRow, Fail

LEMMA RecallStep == MembersInv /\ RecallInv /\ [Next]_vars => RecallInv'
<1>1. RecallInv /\ UNCHANGED vars => RecallInv'
  BY DEF RecallInv, Recall, Entitled, At, vars, localVars
<1> QED  BY <1>1, OperationsRecall, ReadsRecall, WritesRecall DEF Next, MembersInv

LEMMA RecallAlways == Spec => []RecallInv
<1>1. Init => RecallInv
  BY DEF Init, RecallInv, Recall, Entitled, At
<1> QED  BY <1>1, RecallStep, MembersAlways, PTL DEF Spec
-----------------------------------------------------------------------------
(* Owners and handovers are counted.                                       *)

\* A step of x changes no handover but its own.
LEMMA HandingOfOthers ==
  ASSUME NEW x \in Requests, Alone(x)
  PROVE  /\ ~HandingOver(x)' => Handing' = Handing \ {x}
         /\ HandingOver(x)' => Handing' = Handing \union {x}
<1>1. ASSUME NEW y \in Requests \ {x} PROVE HandingOver(y)' <=> HandingOver(y)
  BY DEF Alone, HandingOver, At
<1> QED  BY <1>1 DEF Handing

\* No more owners and as many handovers.
LEMMA CountKeeps ==
  ASSUME CountInv, overtaken => overtaken', broken => broken',
         Handing' = Handing, Owners' \subseteq Owners
  PROVE  CountInv'
<1>1. CASE overtaken \/ broken
  BY <1>1 DEF CountInv
<1>2. CASE ~(overtaken \/ broken)
  <2>1. /\ IsFiniteSet(Owners) /\ IsFiniteSet(Handing)
        /\ Cardinality(Owners) <= 1 + Cardinality(Handing)
    BY <1>2 DEF CountInv
  <2>2. IsFiniteSet(Owners') /\ Cardinality(Owners') <= Cardinality(Owners)
    BY <2>1, FS_Subset
  <2>3. /\ Cardinality(Owners) \in Nat /\ Cardinality(Owners') \in Nat /\ Cardinality(Handing) \in Nat
    BY <2>1, <2>2, FS_CardinalityType
  <2>4. Cardinality(Owners') <= 1 + Cardinality(Handing')
    BY <2>1, <2>2, <2>3
  <2> QED  BY <2>1, <2>2, <2>4 DEF CountInv
<1> QED  BY <1>1, <1>2

\* One more of each, and one less of each.
LEMMA CountBoth ==
  ASSUME CountInv, overtaken => overtaken', broken => broken',
         NEW u, NEW x,
         \/ x \notin Handing /\ Handing' = Handing \union {x} /\ Owners' \subseteq Owners \union {u}
         \/ x \in Handing /\ Handing' = Handing \ {x} /\ u \in Owners /\ Owners' = Owners \ {u}
  PROVE  CountInv'
<1>1. CASE overtaken \/ broken
  BY <1>1 DEF CountInv
<1>2. CASE ~(overtaken \/ broken)
  <2>1. /\ IsFiniteSet(Owners) /\ IsFiniteSet(Handing)
        /\ Cardinality(Owners) <= 1 + Cardinality(Handing)
        /\ Cardinality(Owners) \in Nat /\ Cardinality(Handing) \in Nat
    BY <1>2, FS_CardinalityType DEF CountInv
  <2>2. CASE x \notin Handing /\ Handing' = Handing \union {x} /\ Owners' \subseteq Owners \union {u}
    <3>1. IsFiniteSet(Handing') /\ Cardinality(Handing') = Cardinality(Handing) + 1
      BY <2>1, <2>2, FS_AddElement
    <3>2. /\ IsFiniteSet(Owners \union {u})
          /\ Cardinality(Owners \union {u}) = Cardinality(Owners) \/ Cardinality(Owners \union {u}) = Cardinality(Owners) + 1
      BY <2>1, FS_AddElement
    <3>3. IsFiniteSet(Owners') /\ Cardinality(Owners') <= Cardinality(Owners \union {u})
      BY <2>2, <3>2, FS_Subset
    <3>4. Cardinality(Owners') \in Nat
      BY <3>3, FS_CardinalityType
    <3>5. Cardinality(Owners') <= 1 + Cardinality(Handing')
      BY <2>1, <3>1, <3>2, <3>3, <3>4
    <3> QED  BY <3>1, <3>3, <3>5 DEF CountInv
  <2>3. CASE x \in Handing /\ Handing' = Handing \ {x} /\ u \in Owners /\ Owners' = Owners \ {u}
    <3>1. IsFiniteSet(Handing') /\ Cardinality(Handing') = Cardinality(Handing) - 1
      BY <2>1, <2>3, FS_RemoveElement
    <3>2. IsFiniteSet(Owners') /\ Cardinality(Owners') = Cardinality(Owners) - 1
      BY <2>1, <2>3, FS_RemoveElement
    <3>3. Cardinality(Owners') <= 1 + Cardinality(Handing')
      BY <2>1, <3>1, <3>2
    <3> QED  BY <3>1, <3>2, <3>3 DEF CountInv
  <2> QED  BY <2>2, <2>3
<1> QED  BY <1>1, <1>2

LEMMA BeginCount ==
  ASSUME TypeOK, CountInv, NEW x \in Requests, NEW u \in Users, NEW w, NEW r, NEW label,
         Begin(x, u, w, r, label), label # "LeaveRow"
  PROVE  CountInv'
<1>1. Alone(x) /\ pc[x] = "idle" /\ pc'[x] = label /\ role' = role
  BY BeginAlone
<1>2. Handing' = Handing
  BY <1>1, HandingOfOthers DEF HandingOver, At, Handing
<1>3. overtaken' = overtaken /\ broken' = broken
  BY DEF Begin, ghostVars
<1> QED  BY <1>1, <1>2, <1>3, CountKeeps DEF Owners

LEMMA OperationsCount ==
  ASSUME TypeOK, CountInv, NEW x \in Requests,
         MemberRequests(x) \/ ChatRequests(x) \/ LinkRequests(x) \/ ChannelRequests(x)
  PROVE  CountInv'
<1>1. CASE UNCHANGED <<localVars, role, ghostVars>>
  <2>1. Handing' = Handing /\ Owners' = Owners
    BY <1>1 DEF localVars, Handing, HandingOver, At, Owners
  <2> QED  BY <1>1, <2>1, CountKeeps DEF ghostVars
<1>2. ASSUME NEW u \in Users, NEW w, NEW r,
             NEW label \in Labels \ {"LeaveRow"}, Begin(x, u, w, r, label)
      PROVE  CountInv'
  BY <1>2, BeginCount
<1>3. CASE MemberRequests(x)
  BY <1>2, <1>3 DEF MemberRequests, AddMembers, UpdateMemberRole, RemoveMember, Labels
<1>4. CASE ChatRequests(x)
  BY <1>1, <1>2, <1>4 DEF ChatRequests, LeaveChat, DeleteChat, AcceptInvite, Labels
<1>5. CASE LinkRequests(x)
  BY <1>2, <1>5 DEF LinkRequests, ListInviteLinks, CreateInviteLink, AcceptInviteLink, Labels
<1>6. CASE ChannelRequests(x)
  BY <1>2, <1>6 DEF ChannelRequests, SubscribePublicChannel, UnsubscribePublicChannel, Labels
<1> QED  BY <1>3, <1>4, <1>5, <1>6

LEMMA ReadsCount ==
  ASSUME MembersInv, CountInv, NEW x \in Requests, Reads(x)
  PROVE  CountInv'
<1>0. TypeOK
  BY DEF MembersInv
<1>1. ~HandingOver(x) /\ role' = role /\ overtaken' = overtaken /\ broken' = broken
  BY DEF Reads, AddList, TargetRole, InvitedMember, LinkMember, LeaveRole, LeaveHeir, HandingOver, At,
     Quiet, tableVars, ghostVars
<1>2. Alone(x) /\ ~HandingOver(x)'
  <2>1. CASE Return(x)
    BY <1>0, <2>1, ReturnAlone DEF HandingOver, At
  <2>2. CASE (AddList(x) \/ TargetRole(x) \/ InvitedMember(x) \/ LinkMember(x)) /\ ~Return(x)
    <3>1. PICK u \in Users : \E label \in Labels \ {"LeaveRow"} : Step(x, {u}, label) /\ whom' = whom
      BY <2>2 DEF AddList, TargetRole, InvitedMember, LinkMember, MembersInv, PathInv, At, Labels
    <3> QED  BY <1>0, <3>1, StepAlone DEF HandingOver, At
  <2>3. CASE LeaveRole(x) /\ ~Return(x)
    <3>1. PICK u \in Users : /\ u = me[x] /\ whom' = whom
                             /\ Step(x, {u}, IF role[u] = "owner" THEN "LeaveHeir" ELSE "LeaveRow")
      BY <2>3 DEF LeaveRole, MembersInv, PathInv, ReadFirst, At, GetChatMemberRole
    <3>2. /\ Alone(x) /\ me'[x] = u /\ ReadAgain(x, u)
          /\ pc'[x] = IF role[u] = "owner" THEN "LeaveHeir" ELSE "LeaveRow"
      BY <1>0, <3>1, StepAlone
    <3> QED  BY <3>2 DEF HandingOver, At, ReadAgain, Changed
  <2>4. CASE LeaveHeir(x) /\ ~Return(x)
    <3>1. PICK u \in Heirs(x) : whom' = [whom EXCEPT ![x] = u] /\ Step(x, Users, "LeavePromote")
      BY <2>4 DEF LeaveHeir
    <3>2. Alone(x) /\ pc'[x] = "LeavePromote"
      BY <1>0, <3>1, StepAlone DEF TypeOK
    <3> QED  BY <3>2 DEF HandingOver, At
  <2> QED  BY <2>1, <2>2, <2>3, <2>4 DEF Reads
<1>3. Handing' = Handing
  BY <1>1, <1>2, HandingOfOthers DEF Handing
<1> QED  BY <1>1, <1>3, CountKeeps DEF Owners

\* What a write does to the owners.
LEMMA WriteOwners ==
  ASSUME TypeOK, NEW x \in Requests, NEW u \in Users, NEW r, Write(x, u, r)
  PROVE  /\ overtaken => overtaken'
         /\ r = "owner" => Owners' = Owners \union {u}
         /\ r # "owner" => Owners' = Owners \ {u}
         /\ saw[x][u] \notin {Unread, role[u]} /\ role[u] # r => overtaken'
BY DEF Write, TypeOK, Owners, Stale

LEMMA WritesCount ==
  ASSUME MembersInv, RecallInv, CountInv, NEW x \in Requests, Writes(x)
  PROVE  CountInv'
<1>0. TypeOK /\ PathInv /\ Recall(x)
  BY DEF MembersInv, RecallInv
<1>1. CASE AddChatMembers(x) \/ UpdateChatMemberRole(x) \/ RemoveChatMember(x)
  <2>1. whom[x] \in Users /\ broken' = broken /\ ~HandingOver(x)
    BY <1>0, <1>1 DEF AddChatMembers, UpdateChatMemberRole, RemoveChatMember, PathInv, ReadFirst, At, HandingOver
  <2>2. Alone(x) /\ pc'[x] # "LeaveRow"
    <3>1. CASE Return(x)
      BY <1>0, <3>1, ReturnAlone
    <3>2. CASE AddChatMembers(x) /\ ~Return(x)
      BY <1>0, <3>2 DEF AddChatMembers, Goto, Alone, TypeOK
    <3> QED  BY <1>1, <3>1, <3>2 DEF UpdateChatMemberRole, RemoveChatMember
  <2>3. (overtaken => overtaken') /\ Owners' \subseteq Owners
    <3>1. ASSUME NEW r, Write(x, whom[x], r), r # "owner"
          PROVE  (overtaken => overtaken') /\ Owners' \subseteq Owners
      BY <1>0, <2>1, <3>1, WriteOwners
    <3>2. CASE UNCHANGED <<role, overtaken>>
      BY <3>2 DEF Owners
    <3> QED
      BY <1>0, <1>1, <3>1, <3>2
         DEF AddChatMembers, UpdateChatMemberRole, RemoveChatMember, PathInv, At, Absent
  <2>4. Handing' = Handing
    BY <2>1, <2>2, HandingOfOthers DEF HandingOver, At, Handing
  <2> QED  BY <2>1, <2>3, <2>4, CountKeeps
<1>2. CASE LeavePromote(x) /\ Return(x)
  <2>1. pc'[x] = "idle" /\ Alone(x)
    BY <1>0, <1>2, ReturnAlone
  <2>2. UNCHANGED <<role, overtaken, broken>>
    BY <1>0, <1>2, <2>1 DEF LeavePromote, Goto, TypeOK
  <2>3. Handing' = Handing
    BY <1>2, <2>1, HandingOfOthers DEF LeavePromote, HandingOver, At, Handing
  <2> QED  BY <2>2, <2>3, CountKeeps DEF Owners
<1>3. CASE LeavePromote(x) /\ ~Return(x)
  <2>1. /\ Write(x, whom[x], "owner") /\ broken' = broken /\ pc[x] = "LeavePromote"
        /\ saw' = [saw EXCEPT ![x][whom[x]] = "owner"] /\ Goto(x, "LeaveRow") /\ UNCHANGED <<me, whom, to>>
    BY <1>3 DEF LeavePromote, At
  <2>2. whom[x] \in Users /\ me[x] \in Users /\ whom[x] # me[x] /\ saw[x][me[x]] \in {"owner", Changed}
    BY <1>0, <2>1 DEF PathInv, ReadFirst, Recall, At
  <2>3. Alone(x) /\ pc'[x] = "LeaveRow" /\ me'[x] = me[x] /\ saw'[x][me[x]] = saw[x][me[x]]
    BY <1>0, <2>1, <2>2 DEF Alone, Goto, TypeOK
  <2>4. Owners' = Owners \union {whom[x]} /\ (overtaken => overtaken')
    BY <1>0, <2>1, <2>2, WriteOwners
  <2>5. x \notin Handing
    BY <2>1 DEF Handing, HandingOver, At
  <2>6. CASE saw[x][me[x]] = "owner"
    <3>1. Handing' = Handing \union {x}
      BY <2>3, <2>6, HandingOfOthers DEF HandingOver, At
    <3> QED  BY <2>1, <2>4, <2>5, <3>1, CountBoth
  <2>7. CASE saw[x][me[x]] = Changed
    <3>1. Stale(x)
      BY <1>0, <2>2, <2>7 DEF Stale, TypeOK, Roles, Absent, Unread, Changed
    <3>2. CASE role[whom[x]] = "owner"
      <4>1. Owners' = Owners
        BY <2>2, <2>4, <3>2 DEF Owners
      <4>2. Handing' = Handing
        BY <2>3, <2>5, <2>7, HandingOfOthers DEF HandingOver, At, Changed
      <4> QED  BY <2>1, <2>4, <4>1, <4>2, CountKeeps
    <3>3. CASE role[whom[x]] # "owner"
      BY <2>1, <3>1, <3>3 DEF Write, CountInv
    <3> QED  BY <3>2, <3>3
  <2> QED  BY <2>2, <2>6, <2>7
<1>4. CASE LeaveRow(x)
  <2>1. /\ Write(x, me[x], Absent) /\ broken' = (broken \/ (role[me[x]] = Absent /\ HandingOver(x)))
        /\ me[x] \in Users /\ saw[x][me[x]] # Unread
    BY <1>0, <1>4 DEF LeaveRow, PathInv, ReadFirst, At
  <2>2. /\ Owners' = Owners \ {me[x]} /\ (overtaken => overtaken')
        /\ saw[x][me[x]] # role[me[x]] /\ role[me[x]] # Absent => overtaken'
    BY <1>0, <2>1, WriteOwners DEF Absent
  <2>3. Handing' = Handing \ {x}
    BY <1>0, <1>4, ReturnAlone, HandingOfOthers DEF LeaveRow, HandingOver, At
  <2>4. CASE ~HandingOver(x)
    <3>1. Handing' = Handing
      BY <2>3, <2>4 DEF Handing
    <3> QED  BY <2>1, <2>2, <3>1, CountKeeps
  <2>5. CASE HandingOver(x) /\ role[me[x]] = "owner"
    <3>1. x \in Handing /\ me[x] \in Owners
      BY <2>1, <2>5 DEF Handing, Owners
    <3> QED  BY <2>1, <2>2, <2>3, <3>1, CountBoth
  <2>6. CASE HandingOver(x) /\ role[me[x]] # "owner"
    BY <2>1, <2>2, <2>6 DEF HandingOver, CountInv
  <2> QED  BY <2>4, <2>5, <2>6
<1>5. CASE CreateChatInviteLink(x)
  <2>1. Handing' = Handing /\ UNCHANGED <<role, overtaken, broken>>
    BY <1>0, <1>5, ReturnAlone, HandingOfOthers
       DEF CreateChatInviteLink, HandingOver, At, Handing, ghostVars
  <2> QED  BY <2>1, CountKeeps DEF Owners
<1>6. CASE DeleteRow(x)
  <2>1. Handing' = Handing /\ UNCHANGED <<overtaken, broken>>
    BY <1>0, <1>6, ReturnAlone, HandingOfOthers DEF DeleteRow, HandingOver, At, Handing, ghostVars
  <2>2. Owners' = {}
    BY <1>6 DEF DeleteRow, Owners, Absent
  <2> QED  BY <2>1, <2>2, CountKeeps
<1>7. CASE Fail(x) /\ HandingOver(x)
  BY <1>7 DEF Fail, CountInv
<1>8. CASE Fail(x) /\ ~HandingOver(x)
  <2>1. Handing' = Handing /\ UNCHANGED <<role, overtaken, broken>>
    BY <1>0, <1>8, ReturnAlone, HandingOfOthers DEF Fail, HandingOver, At, Handing, tableVars, CountInv, TypeOK
  <2> QED  BY <2>1, CountKeeps DEF Owners
<1> QED  BY <1>1, <1>2, <1>3, <1>4, <1>5, <1>6, <1>7, <1>8 DEF Writes

LEMMA CountStep == MembersInv /\ RecallInv /\ CountInv /\ [Next]_vars => CountInv'
<1>1. ASSUME CountInv, UNCHANGED vars PROVE CountInv'
  BY <1>1 DEF CountInv, Owners, Handing, HandingOver, At, vars, localVars, ghostVars
<1> QED  BY <1>1, OperationsCount, ReadsCount, WritesCount DEF Next, MembersInv

LEMMA CountInit == Init => CountInv
<1> SUFFICES ASSUME Init PROVE CountInv
  OBVIOUS
<1>1. PICK creator \in Users : Owners = {creator}
  BY DEF Init, Owners, Absent
<1>2. Handing = {}
  BY DEF Init, Handing, HandingOver, At
<1>3. /\ IsFiniteSet(Owners) /\ Cardinality(Owners) = 1
      /\ IsFiniteSet(Handing) /\ Cardinality(Handing) = 0
  BY <1>1, <1>2, FS_EmptySet, FS_Singleton
<1> QED  BY <1>3 DEF CountInv

\* A chat has two owners only while the leaver hands it to his heir, however many requests run
\* at a time: at most one owner more than there are such handovers (SoleOwner).
THEOREM OneOwnerAtATime == Spec => []SoleOwner
<1>1. Spec => []CountInv
  BY CountInit, CountStep, MembersAlways, RecallAlways, PTL DEF Spec
<1>2. CountInv => SoleOwner
  BY DEF CountInv, SoleOwner, Handing
<1> QED  BY <1>1, <1>2, PTL
-----------------------------------------------------------------------------
(* Bans.                                                                   *)

\* A step that lets a banned member be something else is another's decision, or overtaken.
StillOut(u) ==
  role'[u] = "banned" \/ LiftedByAnother(u) \/ Unsubscribes(u) \/ kind' = "deleted" \/ overtaken'

LEMMA WriteBan ==
  ASSUME TypeOK, NEW x \in Requests, NEW w \in Users, NEW r, Write(x, w, r),
         NEW u \in Users, role[u] = "banned", w = u => saw[x][w] \notin {Unread, "banned"}
  PROVE  StillOut(u)
BY DEF Write, TypeOK, StillOut, Stale

LEMMA BanStep ==
  ASSUME MembersInv, RecallInv, [Next]_vars, NEW u \in Users, role[u] = "banned"
  PROVE  StillOut(u)
<1>0. TypeOK /\ PathInv
  BY DEF MembersInv
<1>1. CASE role' = role
  BY <1>1 DEF StillOut
<1>2. CASE role' # role
  <2>1. PICK x \in Requests :
          AddChatMembers(x) \/ UpdateChatMemberRole(x) \/ RemoveChatMember(x) \/ LeavePromote(x)
          \/ LeaveRow(x) \/ DeleteRow(x)
    <3>1. ASSUME NEW x \in Requests, NEW v, NEW w, NEW r, NEW label, Begin(x, v, w, r, label) PROVE role' = role
      BY <3>1 DEF Begin
    <3>2. ASSUME NEW x \in Requests, MemberRequests(x) \/ ChatRequests(x) PROVE role' = role
      BY <3>1, <3>2 DEF MemberRequests, ChatRequests, AddMembers, UpdateMemberRole, RemoveMember, LeaveChat,
         DeleteChat, AcceptInvite
    <3>3. ASSUME NEW x \in Requests, LinkRequests(x) \/ ChannelRequests(x) PROVE role' = role
      BY <3>1, <3>3 DEF LinkRequests, ChannelRequests, ListInviteLinks, CreateInviteLink, AcceptInviteLink,
         SubscribePublicChannel, UnsubscribePublicChannel
    <3>4. ASSUME NEW x \in Requests, Reads(x) PROVE role' = role
      BY <3>4 DEF Reads, AddList, TargetRole, InvitedMember, LinkMember, LeaveRole, LeaveHeir, Quiet, tableVars
    <3> QED
      BY <1>2, <3>2, <3>3, <3>4 DEF Next, vars, Writes, CreateChatInviteLink, Fail, tableVars
  <2>2. Recall(x)
    BY DEF RecallInv
  <2>3. CASE AddChatMembers(x)
    <3>1. role[whom[x]] = Absent /\ whom[x] # u /\ whom[x] \in Users /\ Write(x, whom[x], "member")
      BY <1>0, <1>2, <2>3 DEF AddChatMembers, PathInv, ReadFirst, At, Absent
    <3> QED  BY <1>0, <3>1, WriteBan
  <2>4. CASE UpdateChatMemberRole(x)
    <3>1. /\ whom[x] \in Users /\ saw[x][whom[x]] # Unread /\ Write(x, whom[x], to[x]) /\ to[x] # Absent
          /\ pc[x] = "UpdateChatMemberRole"
      BY <1>0, <1>2, <2>4 DEF UpdateChatMemberRole, PathInv, ReadFirst, At
    <3>2. CASE whom[x] = u /\ me[x] # u
      BY <2>2, <3>1, <3>2 DEF StillOut, LiftedByAnother, Recall, Entitled, At
    <3>3. CASE whom[x] = u /\ me[x] = u
      BY <1>0, <2>2, <3>1, <3>3, WriteBan DEF Recall
    <3>4. CASE whom[x] # u
      BY <1>0, <3>1, <3>4, WriteBan
    <3> QED  BY <3>2, <3>3, <3>4
  <2>5. CASE RemoveChatMember(x)
    <3>1. CASE whom[x] = u
      <4>1. kind # "deleted"
        BY <1>0 DEF TypeOK, Absent
      <4>2. role'[u] = Absent /\ At(x, "RemoveChatMember") /\ Entitled(x)
        BY <1>0, <2>2, <2>5, <3>1 DEF RemoveChatMember, Write, TypeOK, Recall
      <4> QED  BY <3>1, <4>1, <4>2 DEF StillOut, LiftedByAnother, Unsubscribes, Entitled
    <3>2. CASE whom[x] # u
      BY <1>0, <2>5, <3>2 DEF RemoveChatMember, Write, TypeOK, StillOut
    <3> QED  BY <3>1, <3>2
  <2>7. CASE DeleteRow(x)
    BY <2>7 DEF DeleteRow, StillOut
  <2>8. CASE LeaveRow(x)
    <3>1. me[x] \in Users /\ saw[x][me[x]] \notin {Unread, "banned"} /\ Write(x, me[x], Absent)
      BY <1>0, <2>2, <2>8 DEF LeaveRow, PathInv, ReadFirst, Recall, At
    <3> QED  BY <1>0, <3>1, WriteBan
  <2>6. CASE LeavePromote(x)
    <3>1. /\ whom[x] \in Users /\ saw[x][whom[x]] \notin {Unread, "banned"} /\ Write(x, whom[x], "owner")
      BY <1>0, <1>2, <2>2, <2>6 DEF LeavePromote, PathInv, ReadFirst, Recall, At
    <3> QED  BY <1>0, <3>1, WriteBan
  <2> QED  BY <2>1, <2>3, <2>4, <2>5, <2>6, <2>7, <2>8
<1> QED  BY <1>1, <1>2

\* However many requests run at a time, a ban is lifted only by another member who could
\* manage roles or members when he asked, with the chat, by a request that was overtaken, or
\* by the banned user's own unsubscribing from a public channel (BanHolds).
THEOREM BansHold == Spec => BanHolds
<1>1. MembersInv /\ RecallInv /\ [Next]_vars =>
        [\A u \in Users : role[u] = "banned" => StillOut(u)]_vars
  BY BanStep
<1>2. MembersInv /\ RecallInv /\ [Next]_vars =>
        [\A u \in Users : role[u] = "banned" /\ role'[u] # "banned" =>
           LiftedByAnother(u) \/ Unsubscribes(u) \/ kind' = "deleted" \/ overtaken']_vars
  BY <1>1 DEF StillOut
<1> QED  BY <1>2, MembersAlways, RecallAlways, PTL DEF Spec, BanHolds
=============================================================================
