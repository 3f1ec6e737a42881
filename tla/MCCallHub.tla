----------------------------- MODULE MCCallHub -----------------------------
(* Small instances of CallHub for TLC: three connections, two of them of   *)
(* one user who reconnects, and two calls.                                 *)
EXTENDS CallHub, TLC

CONSTANTS u1, u2, u3, c1, c2, c3

\* Two users, the first with two connections.
TwoUsers == (c1 :> u1) @@ (c2 :> u1) @@ (c3 :> u2)
\* Three users with a connection each.
ThreeUsers == (c1 :> u1) @@ (c2 :> u2) @@ (c3 :> u3)
\* Two users with a connection each.
TwoConns == (c1 :> u1) @@ (c3 :> u2)

\* Rooms are interchangeable, and so are the two connections of one user.
RoomSymmetry == Permutations(Rooms) \union Permutations({c1, c2})
=============================================================================
