--------------------------- MODULE MCCallSignals ---------------------------
(* Small instances of CallSignals for TLC. *)
EXTENDS CallSignals, TLC

CONSTANTS u1, u2, u3, c1, c2, c3

\* Two users, the first with two connections.
TwoUsers == (c1 :> u1) @@ (c2 :> u1) @@ (c3 :> u2)
\* Two users with a connection each.
TwoConns == (c1 :> u1) @@ (c3 :> u2)

\* The two connections of one user are interchangeable.
ConnSymmetry == Permutations({c1, c2})
=============================================================================
