------------------------------ MODULE MCOutbox ------------------------------
(* Small instances of Outbox for TLC.                                      *)
EXTENDS Outbox

Symmetry == Permutations(Calls)

(* Bound: the app awaits the `settled` of one entry at a time. The         *)
(* deferreds of different entries do not touch each other.                 *)
OneAwaited == Cardinality({c \in Calls : promise[c] # "unread"}) <= 1

(* Bound: one late request under way at a time.                            *)
OneStray == Cardinality(strays) <= 1

=============================================================================
