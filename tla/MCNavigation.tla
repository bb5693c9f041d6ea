---------------------------- MODULE MCNavigation ---------------------------
(* Two pages, one with an error boundary, a JSON endpoint and a file. The  *)
(* slots of calls under way are interchangeable.                           *)
EXTENDS Navigation, TLC

Slots == Permutations(Flights) \cup Permutations(Loads)

=============================================================================
