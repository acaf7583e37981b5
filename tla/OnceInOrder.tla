---------------------------- MODULE OnceInOrder ----------------------------
(***************************************************************************)
(* What an email is promised: the operations of its decision are carried   *)
(* out in their order, each at most once, and the later ones perhaps never. *)
(***************************************************************************)
EXTENDS Naturals

CONSTANT Operations
VARIABLE made       \* made[o]: how often OnSinch carried out operation o

Op == 1..Operations

Init == made = [o \in Op |-> 0]

CarryOut(o) ==
  /\ made[o] = 0
  /\ \A earlier \in 1..(o - 1) : made[earlier] > 0
  /\ made' = [made EXCEPT ![o] = 1]

Next == \E o \in Op : CarryOut(o)

Spec == Init /\ [][Next]_made

=============================================================================
