-------------------------------- MODULE Alarms --------------------------------
(***************************************************************************)
(* How a part of the automation that stops is told to a person: the runs   *)
(* mark when they last finished (runMarks.ts), a cron asks every few       *)
(* minutes how old each mark is (heartbeat.ts), and what is stale is       *)
(* counted and emailed once per window (errorReport.ts).                   *)
(*                                                                         *)
(* Time is counted in the cron's periods, and an age stops at its limit.   *)
(* The send is abandoned after eight seconds, so every report ends before  *)
(* the next period; the heartbeats of one period overlap.                  *)
(***************************************************************************)
EXTENDS Integers, FiniteSets

CONSTANTS
    Signal,        \* what is watched
    Limit,         \* the age past which each is stale
    PausedSkips,   \* those not judged while the automation is paused
    Quiet,         \* the window within which a repeat is counted and not sent
    Beat,          \* the heartbeats of one period: the cron's, and any asked for by hand
    Faults         \* bound on what goes wrong

ASSUME AlarmsAssumption ==
    /\ Limit \in [Signal -> Nat] /\ PausedSkips \subseteq Signal
    /\ Quiet \in Nat \ {0} /\ Faults \in Nat

VARIABLES
    notify,    \* SPARTAN_ERROR_NOTIFY=1: the deployment may email
    stopped,   \* the runs that no longer finish
    age,       \* periods since each last finished
    standing,  \* the automation is paused
    claimed,   \* error_reports.last_emailed_at: periods since, Quiet when none or long past
    asked,     \* the heartbeats of this period so far
    report,    \* how far each heartbeat's report of each signal is
    told,      \* history: periods since a person was last emailed and the receiver said so
    heard,     \* history: the signals emailed about since they stopped
    repeated,  \* history: the signals emailed about again within the window
    wrong      \* faults so far

alarmsVars == <<notify, stopped, age, standing, claimed, asked, report, told, heard, repeated, wrong>>

ReportPC == {"none", "counted", "claimed"}

AlarmsTypeOK ==
    /\ stopped \subseteq Signal /\ heard \subseteq Signal /\ repeated \subseteq Signal
    /\ \A s \in Signal : age[s] \in 0..Limit[s] + 1
    /\ claimed \in [Signal -> 0..Quiet] /\ told \in [Signal -> 0..Quiet]
    /\ report \in [Beat -> [Signal -> ReportPC]]
    /\ asked \subseteq Beat /\ {notify, standing} \subseteq BOOLEAN /\ wrong \in 0..Faults

AlarmsInit ==
    /\ notify \in BOOLEAN
    /\ stopped = {} /\ heard = {} /\ repeated = {} /\ asked = {} /\ standing = FALSE /\ wrong = 0
    /\ age = [s \in Signal |-> 0]
    /\ claimed = [s \in Signal |-> Quiet] /\ told = [s \in Signal |-> Quiet]
    /\ report = [h \in Beat |-> [s \in Signal |-> "none"]]

Finished(h) == \A s \in Signal : report[h][s] = "none"
Judged == IF standing THEN Signal \ PausedSkips ELSE Signal
Stale(s) == age[s] > Limit[s]
Least(x, y) == IF x <= y THEN x ELSE y

-----------------------------------------------------------------------------
(* The automation. *)

StopRun(s) ==
    /\ s \notin stopped
    /\ stopped' = stopped \cup {s} /\ heard' = heard \ {s}
    /\ UNCHANGED <<notify, age, standing, claimed, asked, report, told, repeated, wrong>>

Mend(s) ==
    /\ s \in stopped
    /\ stopped' = stopped \ {s}
    /\ UNCHANGED <<notify, age, standing, claimed, asked, report, told, heard, repeated, wrong>>

PauseOrNot ==
    /\ standing' = ~standing
    /\ UNCHANGED <<notify, stopped, age, claimed, asked, report, told, heard, repeated, wrong>>

(* A period passes: the cron has asked in it, and every run that has not stopped has marked its end. *)
Period ==
    /\ asked # {} /\ \A h \in Beat : Finished(h)
    /\ asked' = {}
    /\ age' = [s \in Signal |-> IF s \in stopped \/ (standing /\ s \in PausedSkips) THEN Least(age[s] + 1, Limit[s] + 1) ELSE 0]
    /\ claimed' = [s \in Signal |-> Least(claimed[s] + 1, Quiet)]
    /\ told' = [s \in Signal |-> Least(told[s] + 1, Quiet)]
    /\ UNCHANGED <<notify, stopped, standing, report, heard, repeated, wrong>>

-----------------------------------------------------------------------------
(* A heartbeat reports what is stale, each signal on its own; a signal that cannot be read is stale. *)

Heartbeat(h) ==
    /\ h \notin asked
    /\ \E unread \in SUBSET Judged :
         /\ unread # {} => wrong < Faults
         /\ report' = [report EXCEPT ![h] = [s \in Signal |-> IF s \in Judged /\ (Stale(s) \/ s \in unread) THEN "counted" ELSE "none"]]
         /\ wrong' = IF unread # {} THEN wrong + 1 ELSE wrong
    /\ asked' = asked \cup {h}
    /\ UNCHANGED <<notify, stopped, age, standing, claimed, told, heard, repeated>>

At(h, s, pc) == report' = [report EXCEPT ![h][s] = pc]

(* Mutants: every report emails; a report that does not email starts the window again. *)
ClaimAlways(h, s) ==
    /\ report[h][s] = "counted"
    /\ IF notify
       THEN At(h, s, "claimed") /\ claimed' = [claimed EXCEPT ![s] = 0]
       ELSE At(h, s, "none") /\ UNCHANGED claimed
    /\ UNCHANGED <<notify, stopped, age, asked, standing, told, heard, repeated, wrong>>

ClaimProlongs(h, s) ==
    /\ report[h][s] = "counted"
    /\ At(h, s, IF notify /\ claimed[s] = Quiet THEN "claimed" ELSE "none") /\ claimed' = [claimed EXCEPT ![s] = 0]
    /\ UNCHANGED <<notify, stopped, age, asked, standing, told, heard, repeated, wrong>>

(* What is counted is emailed only where the deployment may; then claimEmail, one conditional update, so that one *)
(* report of a window wins.                                                                                       *)
Claim(h, s) ==
    /\ report[h][s] = "counted"
    /\ IF notify /\ claimed[s] = Quiet
       THEN At(h, s, "claimed") /\ claimed' = [claimed EXCEPT ![s] = 0]
       ELSE At(h, s, "none") /\ UNCHANGED claimed
    /\ UNCHANGED <<notify, stopped, age, asked, standing, told, heard, repeated, wrong>>

Emailed(s) ==
    /\ heard' = heard \cup {s}
    /\ repeated' = IF told[s] < Quiet THEN repeated \cup {s} ELSE repeated

Sent(h, s) ==
    /\ report[h][s] = "claimed"
    /\ At(h, s, "none") /\ Emailed(s)
    /\ told' = [told EXCEPT ![s] = 0]
    /\ UNCHANGED <<notify, stopped, age, asked, standing, claimed, wrong>>

(* The receiver is down, or the email went and its answer was lost: the claim is put back. *)
NotSent(h, s) ==
    /\ report[h][s] = "claimed" /\ wrong < Faults
    /\ At(h, s, "none")
    /\ claimed' = [claimed EXCEPT ![s] = Quiet]
    /\ wrong' = wrong + 1
    /\ Emailed(s) \/ UNCHANGED <<heard, repeated>>
    /\ UNCHANGED <<notify, stopped, age, asked, standing, told>>

(* The invocation ends between two steps, or the database refuses one: the report is dropped where it is. *)
Dropped(h, s) ==
    /\ report[h][s] # "none" /\ wrong < Faults
    /\ At(h, s, "none")
    /\ wrong' = wrong + 1
    /\ UNCHANGED <<notify, stopped, age, asked, standing, claimed, told, heard, repeated>>

AlarmsNext ==
    \/ Period
    \/ PauseOrNot
    \/ \E s \in Signal : StopRun(s) \/ Mend(s)
    \/ \E h \in Beat : Heartbeat(h) \/ \E s \in Signal : Claim(h, s) \/ Sent(h, s) \/ NotSent(h, s) \/ Dropped(h, s)

AlarmsSpec == AlarmsInit /\ [][AlarmsNext]_alarmsVars

(* The cron fires, and an invocation that is not cut short runs on. *)
AlarmsFair ==
    /\ WF_alarmsVars(Period)
    /\ \A h \in Beat : WF_alarmsVars(Heartbeat(h)) /\ \A s \in Signal : WF_alarmsVars(Claim(h, s) \/ Sent(h, s))

-----------------------------------------------------------------------------
(* "One email per window however many lambdas arrive together" (errorReport.ts:276-278): beats that overlap, reports that are dropped   *)
(* and claims that are put back never make a second email about a signal within a window of one the receiver said it had sent.          *)
OneEmailAWindow == repeated = {}

(* "A signal that cannot be read is stale ... itself something the owner must hear" and a stopped run must be: whoever stops for good    *)
(* is told of, though sends fail, invocations end after the claim and an earlier outage took the window's one email; a signal that is    *)
(* not judged while paused, once the pause is over.  All this where the deployment emails at all: "NO EMAIL UNLESS                       *)
(* SPARTAN_ERROR_NOTIFY=1" (errorReport.ts:160); without it a stop is counted and nobody is told.                                        *)
StoppedIsHeard ==
    \A s \in Signal : (notify /\ s \in stopped /\ s \notin heard) ~> (s \notin stopped \/ s \in heard \/ (standing /\ s \in PausedSkips))
=============================================================================
