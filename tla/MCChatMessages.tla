--------------------------- MODULE MCChatMessages ---------------------------
(* Instances of ChatMessages.  Users, and requests, are alike. *)
EXTENDS ChatMessages, TLC

CONSTANTS u1, u2, x1, x2
\* The properties say nothing of what follows a request that was overtaken.
StillInOrder == ~overtaken
Alike == Permutations(Users) \union Permutations(Requests)
=============================================================================
