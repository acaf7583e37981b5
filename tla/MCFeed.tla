-------------------------------- MODULE MCFeed --------------------------------
(* What is decided on an email in the instances of Feed: hand-offs on a day and on an order, a reply, a write of each kind. *)
EXTENDS Feed

Decision(kind, new, on, about) == [kind |-> kind, new |-> new, day |-> on, ord |-> about]
RowSet == {Decision("handoff", TRUE, 1, 0), Decision("handoff", FALSE, 0, 1),
           Decision("reply", FALSE, 0, 0), Decision("write", TRUE, 2, 0), Decision("write", FALSE, 1, 1)}

=============================================================================
