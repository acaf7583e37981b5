--------------------------------- MODULE Feed ---------------------------------
(***************************************************************************)
(* One thread on the TV: the engine's rows of its emails (v2_decisions),   *)
(* what feed/v2.ts makes of them, the projection (feed/project.ts) with    *)
(* the feed's own marks, what the minute sync finds done (loop/cards.ts).  *)
(* The rows change under it: the bot runs a write, the re-plan (replan.ts) *)
(* reads an email and answers it again, a link is found.                   *)
(*                                                                         *)
(* Emails are numbered as they come.  The time of a mark, or of our last   *)
(* email, is the number of emails there were.  An email is read as about   *)
(* one day (0 when it names none), and its answer names one order or none. *)
(***************************************************************************)
EXTENDS Integers, FiniteSets, Sequences, SequencesExt, FiniteSetsExt

CONSTANTS
    Rows,        \* what may be read and decided of an email: [kind, new, day, ord]
    MaxMails,    \* bound on emails
    LastDay,     \* bound on days
    MaxTouches   \* bound on what people, the planner and the bot do to the thread

FeedKind == {"needs-created", "needs-updated", "created-check", "updated-check", "needs-reply"}
Need == {"needs-created", "needs-updated"}
Check == {"created-check", "updated-check"}
Answers == {"write", "handoff", "reply"}
GreenMark == {"checked", "done", "resolved"}

ASSUME FeedAssumption ==
    /\ \A r \in Rows : r.kind \in Answers /\ r.new \in BOOLEAN /\ r.day \in Nat /\ r.ord \in Nat
    /\ {MaxMails, MaxTouches} \subseteq Nat /\ LastDay \in Nat \ {0}

VARIABLES
    mail,       \* the rows, oldest first: with read (the reading's grounded), executed and replan
    planning,   \* the email whose row a re-plan holds, 0 for none
    link,       \* the thread's order: "older" than its emails, "named" by a number and made since, or none
    out,        \* our last email
    today, old, \* the day, and the emails more than 14 days old
    marks,      \* feed_marks but for "open"
    opened,     \* the "open" marks, in the order they were made
    faded,      \* the keys gone green more than a day ago
    ticked,     \* history: the emails whose own need a person ticked, and since then neither unticked, written on nor read otherwise
    touches

feedVars == <<mail, planning, link, out, today, old, marks, opened, faded, ticked, touches>>
thread == <<mail, planning, link, out>>
clock == <<today, old>>

-----------------------------------------------------------------------------
(* A row's card (feed/v2.ts). *)

NoAnswer == [kind |-> "none", new |-> FALSE, ord |-> 0]
NoLink == "none"

(* A decision's kind, its creates and its order. *)
AtFirst(r) == [kind |-> r.kind, new |-> r.kind = "write" /\ r.new, ord |-> r.ord]

(* What a re-plan may answer, and how it may read the email. *)
Replans == {AtFirst(r) : r \in Rows} \cup {NoAnswer}
Reading(r) == [asks |-> r.new, day |-> r.day]
Readings == {Reading(r) : r \in {x \in Rows : x.day # 0}}

(* A hand-off is about a new booking when the reading asks for one and nothing aims at an order. *)
Classify(d, read, linked, written) ==
    CASE d.kind = "reply" -> "needs-reply"
      [] d.kind = "write" /\ written -> IF d.new THEN "created-check" ELSE "updated-check"
      [] d.kind = "write" /\ ~written -> IF d.new THEN "needs-created" ELSE "needs-updated"
      [] OTHER -> IF read.asks /\ d.ord = 0 /\ linked # "named" THEN "needs-created" ELSE "needs-updated"

(* answerOf: a re-plan that found nothing to do is no answer. *)
AnswerOf(r) == IF r.replan = NoAnswer THEN AtFirst(r) ELSE r.replan

(* What the bot ran belongs to the decision it ran for. *)
WrittenBy(r) == r.executed = "all" /\ r.replan = NoAnswer

(* A new booking on a thread linked to an older order is a change to it. *)
KindNow(r, linked) ==
    LET k == Classify(AnswerOf(r), r.read, linked, WrittenBy(r)) IN
    IF linked = "older" /\ k = "needs-created" THEN "needs-updated" ELSE k

(* Mutant: the key is the card's as it reads now. *)
KeyOfNow(m, e) ==
    [email |-> e, kind |-> KindNow(m[e], link), made |-> m[e].kind = "write" /\ m[e].new /\ m[e].executed # "none"]

(* The key is the first decision's, as the email is now read and without the link, with the order the bot made for it. *)
KeyOf(m, e) ==
    [email |-> e, kind |-> Classify(AtFirst(m[e]), m[e].read, NoLink, m[e].executed = "all"),
     made |-> m[e].kind = "write" /\ m[e].new /\ m[e].executed # "none"]

NeedsWork(r, linked) == KindNow(r, linked) \in Need

(* The days of a row: its reading's, and those of a write that stands. *)
DaysOf(r) == ({r.read.day} \cup (IF r.kind = "write" /\ r.replan = NoAnswer THEN {r.day} ELSE {})) \ {0}

(* A later email answers a need when it is about its day or its order, and is no question. *)
AnswersNeed(later, need) ==
    /\ AnswerOf(later).kind # "reply"
    /\ \/ DaysOf(later) \cap DaysOf(need) # {}
       \/ AnswerOf(need).ord # 0 /\ AnswerOf(later).ord = AnswerOf(need).ord

(* cardRow: the newest, or the hand-off just under a write that is about something else. *)
CardRow(m) ==
    LET n == Len(m) IN
    IF /\ n > 1 /\ m[n].kind = "write" /\ m[n - 1].kind = "handoff"
       /\ ~(m[n - 1].read.day # 0 /\ m[n].day = m[n - 1].read.day)
       /\ ~(m[n - 1].ord # 0 /\ m[n].ord = m[n - 1].ord)
    THEN n - 1 ELSE n

(* Mutant: any order email answers what came before it. *)
OlderOpenBuried(m, linked) ==
    {e \in DOMAIN m \ {CardRow(m)} : NeedsWork(m[e], linked) /\ \A l \in e + 1..Len(m) : AnswerOf(m[l]).kind = "reply"}

OlderOpen(m, linked) ==
    {e \in DOMAIN m \ {CardRow(m)} : /\ NeedsWork(m[e], linked)
                                     /\ \A l \in e + 1..Len(m) : ~AnswersNeed(m[l], m[e])}
RowsOnCard(m, linked) == ({CardRow(m)} \cup OlderOpen(m, linked)) \cap DOMAIN m

-----------------------------------------------------------------------------
(* The projection (feed/project.ts). *)

Over(day) == day # 0 /\ day < today
Green(key) == \E g \in GreenMark : [key |-> key, mark |-> g] \in marks
Has(key, mark) == [key |-> key, mark |-> mark] \in marks
(* The thread's own key. *)
DismissKey == [email |-> 0, kind |-> "dismiss", made |-> FALSE]
Dismissed == \E x \in marks : x.mark = "dismissed"

(* The newest need that was on the TV, when the thread yields only a write older than it. *)
Remembered(m, linked, e) ==
    IF e = CardRow(m) /\ opened # <<>>
    THEN {was \in {Last(opened)} : /\ was.key \notin {KeyOf(m, o) : o \in OlderOpen(m, linked)}
                                   /\ KindNow(m[e], linked) \in Check /\ e <= was.at}
    ELSE {}

(* The row's own item, or the need remembered in its place, once it is marked. *)
ItemOf(m, linked, e) ==
    LET was == Remembered(m, linked, e) IN
    IF was = {} THEN {[email |-> e, key |-> KeyOf(m, e), kind |-> KindNow(m[e], linked), at |-> e]}
    ELSE {[email |-> e, key |-> w.key, kind |-> w.key.kind, at |-> w.at] : w \in {x \in was : Green(x.key)}}

Items(m, linked) ==
    IF Dismissed THEN {}
    ELSE {i \in UNION {ItemOf(m, linked, e) : e \in {r \in RowsOnCard(m, linked) : ~Over(m[r].read.day)}} :
            /\ ~Has(i.key, "agreed")
            /\ ~(i.kind = "needs-reply" /\ out >= i.at)
            /\ i.key \notin faded
            /\ ~(~Green(i.key) /\ m[i.email].read.day = 0 /\ i.at <= old)}

OpenNeeds(items) == {i \in items : i.kind \in Need /\ ~Green(i.key)}

(* What the TV remembers as it is served: needs now open, and one the thread no longer yields as resolved. *)
NewlyOpen == {i.key : i \in OpenNeeds(Items(mail, link))} \ {opened[k].key : k \in DOMAIN opened}
NowResolved ==
    IF Dismissed THEN {}
    ELSE {w.key : w \in {x \in UNION {Remembered(mail, link, e) : e \in {r \in RowsOnCard(mail, link) : ~Over(mail[r].read.day)}} : ~Green(x.key)}}

-----------------------------------------------------------------------------
FeedTypeOK ==
    /\ \A e \in DOMAIN mail : mail[e].executed \in {"none", "some", "all"} /\ mail[e].replan \in Replans
                              /\ mail[e].read \in [asks : BOOLEAN, day : Nat]
    /\ planning \in 0..Len(mail) /\ out \in 0..Len(mail) /\ old \in 0..Len(mail) /\ today \in 1..LastDay
    /\ \A k \in DOMAIN opened : opened[k].key.kind \in FeedKind /\ opened[k].at \in 0..Len(mail)
    /\ IsInjective([k \in DOMAIN opened |-> opened[k].key])
    /\ \A k \in faded : Green(k)
    /\ \A i \in Items(mail, link) : i.kind \in FeedKind
    /\ ticked \subseteq DOMAIN mail

FeedInit ==
    /\ mail = <<>> /\ planning = 0 /\ link = NoLink /\ out = 0
    /\ today = 1 /\ old = 0
    /\ marks = {} /\ opened = <<>> /\ faded = {}
    /\ ticked = {} /\ touches = 0

Touch == touches < MaxTouches /\ touches' = touches + 1

-----------------------------------------------------------------------------
(* The thread. *)

(* An email is decided: a write's record says nothing was sent until its first operation answers. *)
Decided ==
    /\ Len(mail) < MaxMails
    /\ \E r \in Rows : /\ r.day = 0 \/ r.day >= today
                       /\ mail' = Append(mail, [kind |-> r.kind, new |-> r.new, day |-> r.day, ord |-> r.ord,
                                                read |-> Reading(r), executed |-> "none", replan |-> NoAnswer])
    /\ UNCHANGED <<planning, link, out, clock, marks, opened, faded, ticked, touches>>

(* The bot runs a write, or the minute sync resumes one that stopped. *)
Execute(e) ==
    /\ Touch
    /\ mail[e].kind = "write" /\ mail[e].executed # "all"
    /\ \E x \in {"some", "all"} \ {mail[e].executed} : mail' = [mail EXCEPT ![e].executed = x]
    /\ ticked' = ticked \ {e}
    /\ UNCHANGED <<planning, link, out, clock, marks, opened, faded>>

(* replanOpen takes the rows that are open and on the card, ... *)
TakeReplan(e) ==
    /\ planning = 0
    /\ ~(mail[e].kind = "write" /\ mail[e].executed # "none") /\ ~Over(mail[e].read.day)
    /\ e \in RowsOnCard(mail, NoLink)
    /\ planning' = e
    /\ UNCHANGED <<mail, link, out, clock, marks, opened, faded, ticked, touches>>

(* ... and writes its answer and its reading of each over whatever the row has become.  An answer "none" is kept and  *)
(* answers nothing; a reading that names no day is kept and not used, the email's first one is.                         *)
SaveReplan(e) ==
    /\ Touch /\ planning = e
    /\ \E answer \in Replans, read \in Readings \cup {Reading(mail[e])} :
         /\ mail' = [mail EXCEPT ![e] = [@ EXCEPT !.replan = answer, !.read = read]]
         /\ ticked' = IF mail[e].kind = "write" \/ read.asks = mail[e].read.asks THEN ticked ELSE ticked \ {e}
    /\ planning' = 0
    /\ UNCHANGED <<link, out, clock, marks, opened, faded>>

LinkFound ==
    /\ Touch /\ link = NoLink /\ link' \in {"older", "named"}
    /\ UNCHANGED <<mail, planning, out, clock, marks, opened, faded, ticked>>

SendReply ==
    /\ Touch /\ out < Len(mail) /\ out' = Len(mail)
    /\ UNCHANGED <<mail, planning, link, clock, marks, opened, faded, ticked>>

(* A day goes by, or two weeks: no request of ours spans either. *)
DayPasses ==
    /\ Touch /\ today < LastDay /\ today' = today + 1
    /\ UNCHANGED <<thread, old, marks, opened, faded, ticked>>

WeeksPass ==
    /\ Touch /\ old < Len(mail) /\ old' = Len(mail)
    /\ today' = LastDay
    /\ faded' = {x.key : x \in {y \in marks : y.mark \in GreenMark}}
    /\ UNCHANGED <<thread, marks, opened, ticked>>

(* A need marked a day ago, or late, as of when staff did it. *)
Fade ==
    /\ Touch
    /\ \E x \in marks : x.mark \in GreenMark /\ x.key \notin faded /\ faded' = faded \cup {x.key}
    /\ UNCHANGED <<thread, clock, marks, opened, ticked>>

-----------------------------------------------------------------------------
(* The TV and who looks at it. *)

(* The card's newest email comes first. *)
NewestFirst(keys) == {s \in [1..Cardinality(keys) -> keys] : \A i, j \in DOMAIN s : i < j => s[i].email > s[j].email}

(* serveFeed, twice when something was resolved. *)
Refresh ==
    /\ NewlyOpen # {} \/ NowResolved # {}
    /\ \E keys \in NewestFirst(NewlyOpen) : opened' = opened \o [k \in DOMAIN keys |-> [key |-> keys[k], at |-> Len(mail)]]
    /\ marks' = marks \cup {[key |-> k, mark |-> "resolved"] : k \in NowResolved}
    /\ UNCHANGED <<thread, clock, faded, ticked, touches>>

(* applyCheck: an order's item, never a reply. *)
Tick ==
    /\ Touch
    /\ \E i \in Items(mail, link) :
         /\ i.key.kind # "needs-reply" /\ ~Has(i.key, "checked")
         /\ marks' = marks \cup {[key |-> i.key, mark |-> "checked"]}
         /\ ticked' = IF i.kind \in Need /\ i.key = KeyOf(mail, i.email) THEN ticked \cup {i.email} ELSE ticked
    /\ UNCHANGED <<thread, clock, opened, faded>>

Untick ==
    /\ Touch
    /\ \E i \in Items(mail, link) :
         /\ Has(i.key, "checked")
         /\ marks' = marks \ {[key |-> i.key, mark |-> "checked"]}
         /\ faded' = faded \ {i.key}
         /\ ticked' = ticked \ {i.key.email}
    /\ UNCHANGED <<thread, clock, opened>>

Dismiss ==
    /\ Touch /\ mail # <<>> /\ ~Dismissed
    /\ marks' = marks \cup {[key |-> DismissKey, mark |-> "dismissed"]}
    /\ UNCHANGED <<thread, clock, opened, faded, ticked>>

-----------------------------------------------------------------------------
(* The sync's cards step. *)

(* markNeeds: done.ts finds a need done, or agreed; a done mark is taken back while its day is ahead, an agreement when the client writes. *)
MarkNeed ==
    /\ Touch
    /\ \E e \in RowsOnCard(mail, link) :
         LET key == KeyOf(mail, e)
             mark(k) == [key |-> key, mark |-> k]
         IN
         /\ KindNow(mail[e], link) \in Need
         /\ \/ /\ ~Has(key, "done") /\ ~Has(key, "agreed")
               /\ \E k \in {"done", "agreed"} : marks' = marks \cup {mark(k)}
               /\ UNCHANGED faded
            \/ /\ Has(key, "done") /\ mail[e].read.day >= today
               /\ marks' = marks \ {mark("done")} /\ faded' = faded \ {key}
            \/ /\ Has(key, "agreed")
               /\ marks' = marks \ {mark("agreed")}
               /\ UNCHANGED faded
    /\ UNCHANGED <<thread, clock, opened, ticked>>

FeedNext ==
    \/ Decided \/ LinkFound \/ SendReply \/ DayPasses \/ WeeksPass \/ Fade
    \/ \E e \in DOMAIN mail : Execute(e) \/ TakeReplan(e) \/ SaveReplan(e)
    \/ Refresh \/ Tick \/ Untick \/ Dismiss
    \/ MarkNeed

FeedSpec == FeedInit /\ [][FeedNext]_feedVars

-----------------------------------------------------------------------------
(* Cleared(e): somebody dealt with the need. *)
Cleared(e) == Green(KeyOf(mail, e)) \/ Has(KeyOf(mail, e), "agreed") \/ Dismissed
TimeIsUp(e) == Over(mail[e].read.day) \/ (mail[e].read.day = 0 /\ e <= old)

(* "EVERY NEED THE THREAD STILL HOLDS IS AN ITEM ON ITS CARD" (project.ts): a need that neither a person, nor staff's work, nor a later *)
(* email about its day or order has dealt with is on the TV, whatever came on the thread after it and whatever we wrote to the client.  *)
NeedKept ==
    \A e \in DOMAIN mail :
        /\ NeedsWork(mail[e], link)
        /\ \A l \in e + 1..Len(mail) : ~AnswersNeed(mail[l], mail[e])
        => \/ Cleared(e) \/ TimeIsUp(e)
           \/ \E i \in OpenNeeds(Items(mail, link)) : i.email = e

(* A need a person ticked, and the bot has not written on since, is not put on the TV again, however its email is answered again or   *)
(* linked, as long as the email is read as asking for the same (v2.ts: "a tick or a remembered need survives the card being planned     *)
(* again with another kind or order").                                                                                                  *)
TickHolds == \A i \in OpenNeeds(Items(mail, link)) : i.key.email \notin ticked

(* The same of every re-plan: the key is the email's first decision's, so planning it again leaves its marks (v2.ts:83-86).  It does   *)
(* not, when the email is read otherwise.                                                                                               *)
MarksSurviveReplan ==
    [][\A e \in DOMAIN mail : SaveReplan(e) /\ Green(KeyOf(mail, e)) => Green(KeyOf(mail, e))']_feedVars

(* "Something was sent: the bot's own record stands" (replan.ts:64): what the bot wrote and verified is never a need on the TV. *)
RecordStands == \A i \in OpenNeeds(Items(mail, link)) : mail[i.email].executed # "all"
=============================================================================
