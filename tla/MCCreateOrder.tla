---------------------------- MODULE MCCreateOrder ----------------------------
(* Instances of CreateOrder: a booking and its retry, each in a process that holds a list, and the canary. *)
EXTENDS CreateOrder, TLC

CONSTANTS a, b, bot, booking, bench, s1, s2, s3

NameOf == [c \in Call |-> IF c = bot THEN bench ELSE booking]
ProcessOf == [c \in Call |-> CASE c = a -> s1 [] c = b -> s2 [] OTHER -> s3]
Twins == {a :> a @@ b :> b @@ s1 :> s1 @@ s2 :> s2, a :> b @@ b :> a @@ s1 :> s2 @@ s2 :> s1}

=============================================================================
