------------------------------ MODULE MCUploads ------------------------------
(* Two attachments, two users, two requests at a time, and the jobs. *)
EXTENDS Uploads, TLC

\* Of the two, one may be a copy of the other: two that are both uploaded or
\* imported share nothing.
Few == Cardinality({f \in Files : \/ upload[f] # "none" \/ row[f].via = "server_import"
                                  \/ \E x \in Requests : req[x].file = f /\ req[x].at = "import"}) <= 1
Alike == Permutations(Users) \cup Permutations(Files) \cup Permutations(Requests)

=============================================================================
