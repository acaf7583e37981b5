------------------------------ MODULE MCBotRun ------------------------------
(* Small instances of BotRun for TLC. *)
EXTENDS BotRun, TLC

CONSTANTS p1, p2, kEdit, kEdit2, kAdd, kCreate

Symmetry == Permutations(Runner)

KindOf == [k \in Key |-> CASE k \in {kEdit, kEdit2} -> "edit" [] k = kAdd -> "add" [] k = kCreate -> "create"]
SavesOf == [k \in Key |-> IF k \in {kEdit, kEdit2} THEN 1 ELSE 2]

=============================================================================
