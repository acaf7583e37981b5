------------------------------ MODULE MCResume ------------------------------
(* Small instances of Resume for TLC. *)
EXTENDS Resume, TLC

CONSTANTS intake, s1, s2

Symmetry == Permutations(Sweep)

=============================================================================
