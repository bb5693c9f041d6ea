----------------------------- MODULE MCSockets ------------------------------
(* Small instances of Sockets for TLC.                                     *)
EXTENDS Sockets, TLC

(* Entries are keyed by their size: a bare reader and a window of two.     *)
CONSTANTS r1, r2
BareAndWindow == [r \in Readers |-> IF r = r1 THEN 1 ELSE 2]

Symmetry == Permutations(SubIds)

=============================================================================
