------------------------------ MODULE MCProgress ------------------------------
(***************************************************************************)
(* Three modules that share no state, one instance of each: mail polled    *)
(* (MailPoll), a stop told to a person (Alarms), labels put on threads     *)
(* (Labels).  A behaviour is one part's, the rest stays at its first       *)
(* state; fairness is of the part that runs.                               *)
(***************************************************************************)
EXTENDS MailPoll, MCAlarms, MCLabels

VARIABLE part

progressVars == <<part, mailVars, alarmsVars, labelsVars>>

Init ==
    /\ part \in {"mail", "alarms", "labels"}
    /\ MailInit /\ AlarmsInit /\ LabelsInit
    /\ part # "mail" => arrived = 0 /\ ~paused
    /\ part # "alarms" => notify

Next ==
    \/ part = "mail" /\ MailNext /\ UNCHANGED <<part, alarmsVars, labelsVars>>
    \/ part = "alarms" /\ AlarmsNext /\ UNCHANGED <<part, mailVars, labelsVars>>
    \/ part = "labels" /\ LabelsNext /\ UNCHANGED <<part, mailVars, alarmsVars>>

(* MailFair, AlarmsFair and LabelsFair, each of the part that runs. *)
Fair ==
    /\ \A p \in Poll : WF_mailVars(part = "mail" /\ PollStep(p))
    /\ WF_mailVars(part = "mail" /\ SweepUndecided)
    /\ WF_alarmsVars(part = "alarms" /\ Period)
    /\ \A h \in Beat : /\ WF_alarmsVars(part = "alarms" /\ Heartbeat(h))
                       /\ \A s \in Signal : WF_alarmsVars(part = "alarms" /\ (Claim(h, s) \/ Sent(h, s)))
    /\ \A full \in BOOLEAN : SF_labelsVars(part = "labels" /\ Ask(full))
    /\ WF_labelsVars(part = "labels" /\ Apply) /\ WF_labelsVars(part = "labels" /\ Forget)

FairSpec == Init /\ [][Next]_progressVars /\ Fair

(* Each part's own. *)
TypeOK == MailTypeOK /\ AlarmsTypeOK /\ LabelsTypeOK

=============================================================================
