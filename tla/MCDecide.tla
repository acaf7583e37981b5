------------------------------ MODULE MCDecide ------------------------------
(* Small instances of Decide for TLC. *)
EXTENDS Decide, TLC

CONSTANTS d1, d2, s1, s2, four, five

Symmetry == Permutations(Delivery) \cup Permutations(Sync) \cup Permutations(Reading)

=============================================================================
