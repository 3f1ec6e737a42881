---------------------------- MODULE AuthPromises ----------------------------
(***************************************************************************)
(* The state of accounts and sessions, and what internal/service/auth and  *)
(* its handlers promise of it.  AuthSessions says what they do.            *)
(***************************************************************************)
CONSTANT None  \* nobody

VARIABLES
  known,    \* the rows of table users
  legacy,   \* those with is_legacy_unverified
  hashKind, \* what password_hash is: "scrypt" or "bcrypt"
  owner,    \* the rows of table sessions: owner[s] is its user_id, or None
  current,  \* current[s]: the token refresh_token_hash is of
  expired,  \* the rows whose expires_at has passed
  ids,      \* the session ids used so far
  made,     \* made[s]: how many tokens were made for s
  answered, \* the tokens that reached a client
  full,     \* the users who were given an unlimited access token
  pc,       \* pc[x]: what request x does next
  user,     \* user[x]: its user
  session,  \* session[x]: its session
  token,    \* token[x]: the token it made
  migr,     \* migr[x]: its access token carries the claim "migr"
  keyless   \* keyless[x]: it was let past the login key

authVars == <<known, legacy, hashKind, owner, current, expired, ids, made, answered, full,
              pc, user, session, token, migr, keyless>>
-----------------------------------------------------------------------------
\* A session that was logged out or revoked stays so, also if a refresh that
\* had found it writes later (service.go 587 and 656; the UPDATE of
\* auth_session_repository.go 88 finds no row).
RevokedStaysRevoked ==
  [][\A s \in ids : owner[s] = None => owner'[s] = None]_authVars

\* The comment on issueSessionTokensWithMigration (service.go 1290-1294): the
\* claim limits a migrated user "until the email is bound".  Whoever was given
\* a token without it is not unverified, whichever of registration, login,
\* binding and refresh gave it, and whatever ran at the same time.
LimitedUntilBound == full \intersect legacy = {}

\* The comment in the login handler (auth_handlers.go 213-217): the login key
\* "is skipped for them only" and "a migr-limited session is issued".  The user
\* is read twice, and may be bound in between; still a request that was let
\* past the key creates no other session.
KeylessIsLimited == \A x \in DOMAIN pc : pc[x] = "create" /\ keyless[x] => migr[x]

\* The comment of the migration (000044_legacy_auth.up.sql 8) on
\* is_legacy_unverified: "FALSE -> regular combox user, flow unchanged
\* (bcrypt)".  Whoever is not unverified can sign in with his password.  It
\* does not hold, and no run states it (README, "What disagrees").
RegularUsersUseBcrypt == \A u \in known \ legacy : hashKind[u] = "bcrypt"
=============================================================================
