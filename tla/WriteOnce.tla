----------------------------- MODULE WriteOnce -----------------------------
(***************************************************************************)
(* What the bot's write path promises, whatever runs it: an operation is   *)
(* taken up once, for good, and each of its saves leaves at most once.     *)
(* A key taken up is never given back, so an operation that was cut short  *)
(* stays where it stopped until somebody reads OnSinch.                    *)
(***************************************************************************)
EXTENDS Integers

CONSTANTS Key, Legacy, Save

VARIABLES
  taken,   \* the operation keys that have been taken up
  sent     \* sent[k][i]: how often save i of k left

vars == <<taken, sent>>

Init ==
  /\ taken = {}
  /\ sent = [k \in Key |-> [i \in Save |-> 0]]

\* A key written under its older form is never taken up again.
Take(k) ==
  /\ k \notin taken \cup Legacy
  /\ taken' = taken \cup {k}
  /\ UNCHANGED sent

Send(k, i) ==
  /\ k \in taken
  /\ sent[k][i] = 0
  /\ sent' = [sent EXCEPT ![k][i] = 1]
  /\ UNCHANGED taken

Next == \E k \in Key : Take(k) \/ \E i \in Save : Send(k, i)

Spec == Init /\ [][Next]_vars

=============================================================================
