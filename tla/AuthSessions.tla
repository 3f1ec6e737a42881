---------------------------- MODULE AuthSessions ----------------------------
(***************************************************************************)
(* Accounts and their sessions (internal/service/auth, with the statements *)
(* of internal/repository/postgres and the handlers of transport/http).    *)
(*                                                                         *)
(* A request is a sequence of statements without a transaction; a step is  *)
(* one of them, with the checks on what it returned.  Other requests run   *)
(* between two steps.  A request that is refused or fails ends; what its   *)
(* earlier statements wrote stays written.                                 *)
(*                                                                         *)
(* A refresh token is a session and the number of its secret.  Passwords   *)
(* are right or wrong; only the kind of hash they are kept as matters.     *)
(* Whether an email code or a login key is right is up to the email codes. *)
(***************************************************************************)
EXTENDS AuthPromises, Naturals, FiniteSets

CONSTANTS
  Users,     \* accounts
  Migrated,  \* those of them that came from boxchat
  Sessions,  \* session ids
  Requests,  \* requests that can be under way at a time
  MaxTokens  \* bound: refresh tokens made for a session

ASSUME AccountsAssumption ==
  /\ Migrated \subseteq Users
  /\ MaxTokens \in Nat \ {0}
  /\ None \notin Users

userVars == <<known, legacy, hashKind>>
sessionVars == <<owner, current, expired, ids, made>>
clientVars == <<answered, full>>
localVars == <<user, session, token, migr, keyless>>
vars == <<userVars, sessionVars, clientVars, pc, localVars>>

Init ==
  /\ known = Migrated /\ legacy = Migrated
  /\ hashKind = [u \in Users |-> IF u \in Migrated THEN "scrypt" ELSE "bcrypt"]
  /\ owner = [s \in Sessions |-> None]
  /\ current = [s \in Sessions |-> 0]
  /\ expired = {} /\ ids = {}
  /\ made = [s \in Sessions |-> 0]
  /\ answered = {} /\ full = {}
  /\ pc = [x \in Requests |-> "idle"]
  /\ user = [x \in Requests |-> None]
  /\ session = [x \in Requests |-> None]
  /\ token = [x \in Requests |-> 0]
  /\ migr = [x \in Requests |-> FALSE]
  /\ keyless = [x \in Requests |-> FALSE]
-----------------------------------------------------------------------------
At(x, label) == pc[x] = label
Goto(x, label) == pc' = [pc EXCEPT ![x] = label]
Live(s) == owner[s] # None

\* Request x ends, and its locals are of no use any more.
Return(x) ==
  /\ Goto(x, "idle")
  /\ user' = [user EXCEPT ![x] = None]
  /\ session' = [session EXCEPT ![x] = None]
  /\ token' = [token EXCEPT ![x] = 0]
  /\ migr' = [migr EXCEPT ![x] = FALSE]
  /\ keyless' = [keyless EXCEPT ![x] = FALSE]

\* It is refused, or a statement fails, wherever it is.
Fail(x) ==
  /\ ~At(x, "idle")
  /\ Return(x)
  /\ UNCHANGED <<userVars, sessionVars, clientVars>>

\* It works for u, for the first time or from its next step on.
For(x, u, label) ==
  /\ user' = [user EXCEPT ![x] = u]
  /\ Goto(x, label)

\* The tokens reach the client, unless it has hung up.
Answer(x, s, n) ==
  \/ /\ answered' = answered \union {<<s, n>>}
     /\ full' = IF migr[x] THEN full ELSE full \union {user[x]}
  \/ UNCHANGED clientVars
-----------------------------------------------------------------------------
(* Sign-up, sign-in and the binding of an email address.                   *)

Register(x) ==
  /\ At(x, "idle")
  /\ \E u \in Users \ known :
       /\ known' = known \union {u}
       /\ For(x, u, "create")
  /\ UNCHANGED <<legacy, hashKind, sessionVars, clientVars, session, token, migr, keyless>>

\* The handler asks for a login key, except of users it finds unverified; if
\* it cannot find out, it asks for one.
LoginGate(x) ==
  /\ At(x, "idle")
  /\ \E u \in known, found \in BOOLEAN :
       /\ For(x, u, "login")
       /\ keyless' = [keyless EXCEPT ![x] = found /\ u \in legacy]
  /\ UNCHANGED <<userVars, sessionVars, clientVars, session, token, migr>>

\* Login reads the user again.  The right password is accepted if it is kept
\* as the kind of hash it is compared with.
Login(x) ==
  /\ At(x, "login")
  /\ hashKind[user[x]] = IF user[x] \in legacy THEN "scrypt" ELSE "bcrypt"
  /\ migr' = [migr EXCEPT ![x] = user[x] \in legacy]
  /\ Goto(x, "create")
  /\ UNCHANGED <<userVars, sessionVars, clientVars, user, session, token, keyless>>

\* issueSessionTokensWithMigration, under an id never used before.
CreateSession(x) ==
  /\ At(x, "create")
  /\ \E s \in Sessions \ ids :
       /\ ids' = ids \union {s}
       /\ owner' = [owner EXCEPT ![s] = user[x]]
       /\ current' = [current EXCEPT ![s] = 1]
       /\ made' = [made EXCEPT ![s] = 1]
       /\ Answer(x, s, 1)
  /\ Return(x)
  /\ UNCHANGED <<userVars, expired>>

\* The code for the new address was right.
VerifyBind(x) ==
  /\ At(x, "idle")
  /\ \E u \in known : For(x, u, "bind")
  /\ UNCHANGED <<userVars, sessionVars, clientVars, session, token, migr, keyless>>

\* CompleteLegacyBind is for unverified users only.
FindLegacy(x) ==
  /\ At(x, "bind")
  /\ user[x] \in legacy
  /\ Goto(x, "bindEmail")
  /\ UNCHANGED <<userVars, sessionVars, clientVars, localVars>>

\* Mutant: the password counts as a bcrypt hash from now on.
BindAndConvert(x) ==
  /\ At(x, "bindEmail")
  /\ legacy' = legacy \ {user[x]}
  /\ hashKind' = [hashKind EXCEPT ![user[x]] = "bcrypt"]
  /\ Goto(x, "create")
  /\ UNCHANGED <<known, sessionVars, clientVars, localVars>>

BindLegacyEmail(x) ==
  /\ At(x, "bindEmail")
  /\ legacy' = legacy \ {user[x]}
  /\ Goto(x, "create")
  /\ UNCHANGED <<known, hashKind, sessionVars, clientVars, localVars>>

\* ChangePassword compares the old password with a bcrypt hash.
ChangePassword(x) ==
  /\ At(x, "idle")
  /\ \E u \in known :
       /\ hashKind[u] = "bcrypt"
       /\ For(x, u, "password")
  /\ UNCHANGED <<userVars, sessionVars, clientVars, session, token, migr, keyless>>

UpdatePasswordHash(x) ==
  /\ At(x, "password")
  /\ hashKind' = [hashKind EXCEPT ![user[x]] = "bcrypt"]
  /\ Return(x)
  /\ UNCHANGED <<known, legacy, sessionVars, clientVars>>
-----------------------------------------------------------------------------
(* Refresh.                                                                *)

\* The session is there, has not expired, and the token is its current one.
RefreshFind(x) ==
  /\ At(x, "idle")
  /\ \E t \in answered :
       /\ Live(t[1]) /\ t[1] \notin expired
       /\ current[t[1]] = t[2]
       /\ session' = [session EXCEPT ![x] = t[1]]
       /\ For(x, owner[t[1]], "refresh")
  /\ UNCHANGED <<userVars, sessionVars, clientVars, token, migr, keyless>>

\* Mutant: a refreshed session counts as a full one.
RefreshUserFull(x) ==
  LET s == session[x]
  IN /\ At(x, "refresh")
     /\ made[s] < MaxTokens
     /\ made' = [made EXCEPT ![s] = @ + 1]
     /\ token' = [token EXCEPT ![x] = made[s] + 1]
     /\ migr' = [migr EXCEPT ![x] = FALSE]
     /\ Goto(x, "update")
     /\ UNCHANGED <<userVars, owner, current, expired, ids, clientVars, user, session, keyless>>

\* The mark is taken from the user; a new token is made.
RefreshUser(x) ==
  LET s == session[x]
  IN /\ At(x, "refresh")
     /\ made[s] < MaxTokens
     /\ made' = [made EXCEPT ![s] = @ + 1]
     /\ token' = [token EXCEPT ![x] = made[s] + 1]
     /\ migr' = [migr EXCEPT ![x] = user[x] \in legacy]
     /\ Goto(x, "update")
     /\ UNCHANGED <<userVars, owner, current, expired, ids, clientVars, user, session, keyless>>

\* Mutant: a row that is not there is written again.
UpsertRefresh(x) ==
  LET s == session[x]
  IN /\ At(x, "update")
     /\ owner' = [owner EXCEPT ![s] = user[x]]
     /\ current' = [current EXCEPT ![s] = token[x]]
     /\ expired' = expired \ {s}
     /\ Answer(x, s, token[x])
     /\ Return(x)
     /\ UNCHANGED <<userVars, ids, made>>

\* The row is written if it is still there, whatever it says by now.
UpdateRefresh(x) ==
  LET s == session[x]
  IN /\ At(x, "update") /\ Live(s)
     /\ current' = [current EXCEPT ![s] = token[x]]
     /\ expired' = expired \ {s}
     /\ Answer(x, s, token[x])
     /\ Return(x)
     /\ UNCHANGED <<userVars, owner, ids, made>>
-----------------------------------------------------------------------------
(* Requests of one statement, and time.                                    *)

DeleteSessions(gone) ==
  /\ owner' = [s \in Sessions |-> IF s \in gone THEN None ELSE owner[s]]
  /\ expired' = expired \ gone
  /\ UNCHANGED <<userVars, current, ids, made, clientVars, pc, localVars>>

\* Logout looks at the session part of the token only.
Logout == \E t \in answered : Live(t[1]) /\ DeleteSessions({t[1]})

SessionsOf(u) == {s \in Sessions : owner[s] = u}

RevokeSession(u) == \E s \in SessionsOf(u) : DeleteSessions({s})

\* Without a session to keep, all are deleted.
RevokeOthers(u) ==
  \E keep \in SUBSET SessionsOf(u) :
    /\ Cardinality(keep) <= 1
    /\ SessionsOf(u) \ keep # {}
    /\ DeleteSessions(SessionsOf(u) \ keep)

\* UpdateSessionIdleTTL gives all sessions of a user a new expiry, those that
\* have expired included.
UpdateExpiry(u) ==
  /\ expired \intersect SessionsOf(u) # {}
  /\ expired' = expired \ SessionsOf(u)
  /\ UNCHANGED <<userVars, owner, current, ids, made, clientVars, pc, localVars>>

Expire(s) ==
  /\ Live(s) /\ s \notin expired
  /\ expired' = expired \union {s}
  /\ UNCHANGED <<userVars, owner, current, ids, made, clientVars, pc, localVars>>
-----------------------------------------------------------------------------
SigningIn(x) == Register(x) \/ LoginGate(x) \/ Login(x) \/ CreateSession(x)
Binding(x) == VerifyBind(x) \/ FindLegacy(x) \/ BindLegacyEmail(x)
Refreshing(x) == RefreshFind(x) \/ RefreshUser(x) \/ UpdateRefresh(x)

Next ==
  \/ \E x \in Requests :
       \/ SigningIn(x) \/ Binding(x) \/ Refreshing(x)
       \/ ChangePassword(x) \/ UpdatePasswordHash(x) \/ Fail(x)
  \/ Logout
  \/ \E u \in known : RevokeSession(u) \/ RevokeOthers(u) \/ UpdateExpiry(u)
  \/ \E s \in Sessions : Expire(s)

Spec == Init /\ [][Next]_vars
-----------------------------------------------------------------------------
(* Types.  What is promised is in AuthPromises.                            *)

Labels == {"idle", "login", "create", "bind", "bindEmail", "password", "refresh", "update"}

TypeOK ==
  /\ legacy \subseteq known /\ known \subseteq Users
  /\ hashKind \in [Users -> {"scrypt", "bcrypt"}]
  /\ owner \in [Sessions -> known \union {None}]
  /\ ids \subseteq Sessions /\ expired \subseteq ids
  /\ made \in [Sessions -> 0..MaxTokens] /\ current \in [Sessions -> 0..MaxTokens]
  /\ \A s \in Sessions : Live(s) => s \in ids /\ current[s] \in 1..made[s]
  /\ answered \subseteq ids \X (1..MaxTokens)
  /\ full \subseteq known
  /\ pc \in [Requests -> Labels]
  /\ user \in [Requests -> known \union {None}]
  /\ session \in [Requests -> ids \union {None}]
  /\ token \in [Requests -> 0..MaxTokens]
  /\ migr \in [Requests -> BOOLEAN] /\ keyless \in [Requests -> BOOLEAN]
  /\ \A x \in Requests :
       /\ ~At(x, "idle") => user[x] \in known
       /\ pc[x] \in {"refresh", "update"} => session[x] \in ids
       /\ At(x, "update") => token[x] \in 1..made[session[x]]
=============================================================================
