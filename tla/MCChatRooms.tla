----------------------------- MODULE MCChatRooms -----------------------------
(* The chats of two users whose requests overlap. *)
EXTENDS ChatRooms, TLC

Alike == Permutations(Users) \cup Permutations(Requests)

=============================================================================
