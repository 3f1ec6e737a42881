---------------------------- MODULE MCCallMedia ----------------------------
(* Small instances of CallMedia for TLC. *)
EXTENDS CallMedia, TLC
CONSTANTS u1, u2

\* The first user's client offers, once.
OneOffer == [u \in Users |-> IF u = u1 THEN 1 ELSE 0]

\* One of the users joins again, or a connection breaks, a peer fails, or the
\* server shuts down: one of these in a run.
Again == \E u \in Users : joins[u] > 1
PeerFails == \E p \in Peers : ~At(p, "idle")
ShutsDown == ~At(Server, "idle")
Rarely == /\ Cardinality({n \in 1..4 : <<Again, skipped, PeerFails, ShutsDown>>[n]}) <= 1
          /\ \E u \in Users : joins[u] <= 1
=============================================================================
