------------------------------- MODULE MCLabels -------------------------------
(* Instances of Labels: three threads, in the order of their cards. *)
EXTENDS Labels

CONSTANTS t1, t2, t3

CardOrder == <<t1, t2, t3>>

=============================================================================
