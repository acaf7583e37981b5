------------------------------- MODULE MCSafety -------------------------------
(***************************************************************************)
(* Seven modules that share no state, one instance of each: mail polled    *)
(* (MailPoll), an email planned (Planner), an order made (CreateOrder),    *)
(* OnSinch copied (Mirror), a thread shown (Feed) and waited on (FollowUp),*)
(* a shift's hours converted (LondonTime).  A behaviour is one part's, the *)
(* rest stays at its first state.                                          *)
(***************************************************************************)
EXTENDS MailPoll, MCPlanner, MCCreateOrder, Mirror, MCFeed, LondonTime, FollowUp

CONSTANTS poll1, poll2, pull1, pull2

(* Two invocations of one route, and the two bookings with their processes, are interchangeable. *)
Alike == Twins \cup Permutations({poll1, poll2}) \cup Permutations({pull1, pull2})

VARIABLE part

Init ==
    /\ part \in {"mail", "plan", "create", "mirror", "feed", "time", "follow"}
    /\ MailInit /\ PlannerInit /\ CreateInit /\ MirrorInit /\ FeedInit
    /\ TimeInit /\ FollowInit
    /\ part # "mail" => arrived = 0 /\ ~paused
    /\ part # "time" => asked = [day |-> 1, start |-> 0, end |-> 1]

Next ==
    \/ part = "mail" /\ MailNext /\ UNCHANGED <<part, plannerVars, createVars, mirrorVars, feedVars, timeVars, followVars>>
    \/ part = "plan" /\ PlannerNext /\ UNCHANGED <<part, mailVars, createVars, mirrorVars, feedVars, timeVars, followVars>>
    \/ part = "create" /\ CreateNext /\ UNCHANGED <<part, mailVars, plannerVars, mirrorVars, feedVars, timeVars, followVars>>
    \/ part = "mirror" /\ MirrorNext /\ UNCHANGED <<part, mailVars, plannerVars, createVars, feedVars, timeVars, followVars>>
    \/ part = "feed" /\ FeedNext /\ UNCHANGED <<part, mailVars, plannerVars, createVars, mirrorVars, timeVars, followVars>>
    \/ part = "time" /\ TimeNext /\ UNCHANGED <<part, mailVars, plannerVars, createVars, mirrorVars, feedVars, followVars>>
    \/ part = "follow" /\ FollowNext /\ UNCHANGED <<part, mailVars, plannerVars, createVars, mirrorVars, feedVars, timeVars>>

Spec == Init /\ [][Next]_<<part, mailVars, plannerVars, createVars, mirrorVars, feedVars, timeVars, followVars>>

(* Each part's own. *)
TypeOK == MailTypeOK /\ PlannerTypeOK /\ CreateTypeOK /\ MirrorTypeOK /\ FeedTypeOK
          /\ TimeTypeOK /\ FollowTypeOK

=============================================================================
