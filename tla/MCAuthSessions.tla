--------------------------- MODULE MCAuthSessions ---------------------------
(* Instances of AuthSessions.  Requests, and session ids, are alike. *)
EXTENDS AuthSessions, TLC

CONSTANTS u1, u2, s1, s2, x1, x2
Alike == Permutations(Sessions) \union Permutations(Requests)
=============================================================================
