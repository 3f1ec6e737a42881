--------------------------- MODULE MCChatMembers ---------------------------
(* Instances of ChatMembers.  Users, and requests, are alike. *)
EXTENDS ChatMembers, TLC

CONSTANTS u1, u2, u3, x1, x2
\* The properties say nothing of what follows a request that was overtaken.  A link counts
\* for nothing in a public channel, and is made only while the invitation is unused.
StillInOrder == ~overtaken /\ ~broken /\ (links => invited /\ kind # "public")
Alike == Permutations(Users) \union Permutations(Requests)
=============================================================================
