-------------------------------- MODULE Labels --------------------------------
(***************************************************************************)
(* The Gmail labels (api/bot/labels, mail/threadLabels.ts): every minute   *)
(* n8n asks which threads' labels changed, the app remembers its answer as *)
(* applied and hands it out, and n8n applies it thread by thread.  On the  *)
(* hour the app hands out every thread again, whatever it remembers.       *)
(*                                                                         *)
(* A label is the order label with the follow-up beside it; None is no     *)
(* label at all.  A thread is where the feed puts it; one with no card     *)
(* wants None.  n8n's runs do not overlap: each is applied, and what Gmail *)
(* refused reported, before the next asks (nothing in the app holds n8n to *)
(* this).                                                                  *)
(***************************************************************************)
EXTENDS Integers, Sequences, SequencesExt, FiniteSets

CONSTANTS
    Thread,      \* bookings threads, in the order of their cards
    Label,       \* what a card may want
    None,
    PerRun,      \* threads handed out at once
    Drops,       \* bound on runs n8n drops
    Refusals,    \* bound on threads Gmail refuses
    Turns        \* bound on changes of the cards

ASSUME LabelsAssumption ==
    /\ Thread \in Seq(ToSet(Thread)) /\ IsInjective(Thread) /\ None \notin Label
    /\ PerRun \in Nat \ {0} /\ {Drops, Refusals, Turns} \subseteq Nat

VARIABLES
    wants,     \* the cards: what each thread on the feed should wear
    handed,    \* thread_labels, NotHanded where there is no row
    worn,      \* Gmail
    run,       \* the threads n8n was handed and has still to apply
    refused,   \* the threads of this run Gmail refused
    drops, refusals, turns

labelsVars == <<wants, handed, worn, run, refused, drops, refusals, turns>>

Threads == ToSet(Thread)
NotHanded == <<>>
Wear == Label \cup {None}

LabelsTypeOK ==
    /\ DOMAIN wants \subseteq Threads /\ \A t \in DOMAIN wants : wants[t] \in Wear
    /\ \A t \in Threads : worn[t] \in Wear /\ (handed[t] = NotHanded \/ handed[t] \in Wear)
    /\ \A i \in DOMAIN run : run[i].thread \in Threads /\ run[i].label \in Wear
    /\ Len(run) <= PerRun /\ refused \subseteq Threads
    /\ drops \in 0..Drops /\ refusals \in 0..Refusals /\ turns \in 0..Turns

LabelsInit ==
    /\ wants = <<>>
    /\ handed = [t \in Threads |-> NotHanded] /\ worn = [t \in Threads |-> None]
    /\ run = <<>> /\ refused = {} /\ drops = 0 /\ refusals = 0 /\ turns = 0

(* A card comes, changes, or leaves the feed. *)
Turn ==
    /\ turns < Turns /\ turns' = turns + 1
    /\ \E on \in SUBSET Threads : \E w \in [on -> Wear] : w # wants /\ wants' = w
    /\ UNCHANGED <<handed, worn, run, refused, drops, refusals>>

(* What a thread is handed out with. *)
Task(t) == [thread |-> t, label |-> IF t \in DOMAIN wants THEN wants[t] ELSE None]

(* The cards' threads in the order of their cards, then the remembered ones that left the feed, whose rows come in any order. *)
OnFeed(t) == CHOOSE i \in DOMAIN Thread : Thread[i] = t
Sooner(t, u) == u \in DOMAIN wants => t \in DOMAIN wants /\ OnFeed(t) < OnFeed(u)
InOrder(ts) == {s \in [1..Cardinality(ts) -> ts] : IsInjective(s) /\ \A i, j \in DOMAIN s : i < j => Sooner(s[i], s[j])}

(* Mutant: what is remembered as handed out is never handed out again. *)
ChangedOnce(full) == {t \in Threads : IF t \in DOMAIN wants THEN handed[t] # wants[t] ELSE handed[t] \notin {NotHanded, None}}

(* changes: the cards' threads that differ from what is remembered, and the remembered ones that left the feed with a label. *)
Changed(full) ==
    {t \in Threads : IF t \in DOMAIN wants THEN full \/ handed[t] = NotHanded \/ handed[t] # wants[t]
                     ELSE handed[t] # NotHanded /\ (full \/ handed[t] # None)}

(* POST in mode live: at most PerRun of them, remembered before n8n has them. *)
Ask(full) ==
    /\ run = <<>> /\ refused = {}
    /\ \E todo \in InOrder(Changed(full)) :
         LET out == {i \in DOMAIN todo : i <= PerRun} IN
         /\ run' = [i \in out |-> Task(todo[i])]
         /\ handed' = [t \in Threads |-> IF \E i \in out : todo[i] = t THEN Task(t).label ELSE handed[t]]
    /\ UNCHANGED <<wants, worn, refused, drops, refusals, turns>>

Apply ==
    /\ run # <<>>
    /\ worn' = [worn EXCEPT ![Head(run).thread] = Head(run).label]
    /\ run' = Tail(run)
    /\ UNCHANGED <<wants, handed, refused, drops, refusals, turns>>

Refuse ==
    /\ run # <<>> /\ refusals < Refusals
    /\ refusals' = refusals + 1 /\ refused' = refused \cup {Head(run).thread}
    /\ run' = Tail(run)
    /\ UNCHANGED <<wants, handed, worn, drops, turns>>

(* Mutant: what Gmail refused stays remembered as applied. *)
ForgetNothing ==
    /\ run = <<>> /\ refused # {}
    /\ refused' = {}
    /\ UNCHANGED <<wants, handed, worn, run, drops, refusals, turns>>

(* POST in mode failed: what Gmail refused is forgotten. *)
Forget ==
    /\ run = <<>> /\ refused # {}
    /\ handed' = [t \in Threads |-> IF t \in refused THEN NotHanded ELSE handed[t]]
    /\ refused' = {}
    /\ UNCHANGED <<wants, worn, run, drops, refusals, turns>>

(* n8n drops the run, its answer or what it had still to report. *)
DropRun ==
    /\ run # <<>> \/ refused # {}
    /\ drops < Drops /\ drops' = drops + 1
    /\ run' = <<>> /\ refused' = {}
    /\ UNCHANGED <<wants, handed, worn, refusals, turns>>

LabelsNext == Turn \/ Ask(FALSE) \/ Ask(TRUE) \/ Apply \/ Refuse \/ Forget \/ DropRun

LabelsSpec == LabelsInit /\ [][LabelsNext]_labelsVars

(* n8n runs every minute, and one of the hour's runs falls in its first minute. *)
LabelsFair ==
    /\ SF_labelsVars(Ask(FALSE)) /\ SF_labelsVars(Ask(TRUE))
    /\ WF_labelsVars(Apply) /\ WF_labelsVars(Forget)

LabelsFairSpec == LabelsSpec /\ LabelsFair

-----------------------------------------------------------------------------
Wanted(t) == IF t \in DOMAIN wants THEN wants[t] ELSE None

(* "Threads Gmail refused: forgotten, so the next minute sends them again.  Remembering them as applied left them unlabelled"          *)
(* (api/bot/labels/route.ts:41-42): unless n8n dropped a run, what is remembered of a thread is what it wears in Gmail, but for what n8n *)
(* still has to apply or to report.                                                                                                       *)
OnItsWay(t) == t \in refused \/ \E i \in DOMAIN run : run[i] = [thread |-> t, label |-> handed[t]]
RememberedIsWorn == drops = 0 => \A t \in Threads : handed[t] \in {NotHanded, worn[t]} \/ OnItsWay(t)

FeedPlace(t) == Cardinality({u \in DOMAIN wants : OnFeed(u) <= OnFeed(t)})

(* "Every hour all of them, so a run n8n dropped is put right within the hour" (api/bot/labels/route.ts:27-28), for what the cut to      *)
(* PER_RUN (line 65) lets through: once the cards stop changing, every thread with a card comes to wear what it wants, whatever threads  *)
(* were refused on the way and however few go out at once; where a run was dropped, every one of the feed's first PER_RUN.               *)
CardsWorn == <>[](\A t \in DOMAIN wants : drops = 0 \/ FeedPlace(t) <= PerRun => worn[t] = wants[t])

(* The same line as it is written, of all of them: the hour's run is cut like any other, and past PER_RUN it never comes to a dropped    *)
(* thread.                                                                                                                                *)
DroppedPutRight == <>[](\A t \in DOMAIN wants : worn[t] = wants[t])

(* "Threads Gmail refused ...: forgotten, so the next minute sends them again" (api/bot/labels/route.ts:40-41), and so does the removal  *)
(* from a thread whose card left the feed: no thread keeps a label it should not wear.                                                   *)
LabelsPutRight == <>[](\A t \in Threads : worn[t] = Wanted(t))
=============================================================================
