------------------------------ MODULE MailPoll ------------------------------
(***************************************************************************)
(* The Gmail poll (/api/mail-poll): which mail is new is asked with a      *)
(* cursor, at least once and never at most once.  A poll reads the cursor, *)
(* walks Gmail's history from it (or lists the last day's mail when Gmail  *)
(* no longer keeps that far back), takes the first BATCH ids it has not    *)
(* handled, stores them one by one, marks them seen, moves the cursor when *)
(* nothing was left over, and settles what the pause and the intake path   *)
(* let it decide.  Polls overlap: nothing locks them out.                  *)
(*                                                                         *)
(* Emails are numbered in the order in which they reach the mailbox, so a  *)
(* history id is the number of the last email it covers.  The pages of one *)
(* walk are asked for one after another; here they are one answer.         *)
(***************************************************************************)
EXTENDS Integers, FiniteSets

CONSTANTS
    N,             \* emails that may arrive
    Own,           \* those sent by Spartan itself
    Draft,         \* drafts of Spartan's own, which the store refuses
    Copies,        \* sets of emails that bear one RFC Message-ID
    WalkCap,       \* emails a walk returns at most (50 pages)
    ListCap,       \* emails the re-anchor's listing returns (one page)
    Poll,          \* invocations of the route
    Batch,         \* emails one poll takes (BATCH)
    Live,          \* INTAKE_PATH is "routing": the poll decides
    Stops,         \* bound on invocations that throw or die on the way
    StoreFailures, \* bound on inserts that fail
    Vanishes,      \* bound on emails deleted from the mailbox for good
    Blanks,        \* bound on reads answered without the email's content
    MaxFaults      \* bound on the four together

Email == 1..N
NoCursor == -1

ASSUME MailAssumption ==
    /\ {N, Batch, WalkCap, ListCap} \subseteq Nat \ {0}
    /\ Draft \subseteq Own /\ Own \subseteq Email
    /\ Copies \subseteq SUBSET Email
    /\ Live \in BOOLEAN
    /\ {Stops, StoreFailures, Vanishes, Blanks, MaxFaults} \subseteq Nat

VARIABLES
    arrived,  \* Gmail: the newest history id
    gone,     \* Gmail: emails deleted for good
    kept,     \* Gmail: history is kept after this id
    recent,   \* Gmail: emails after this id are within the re-anchor's window
    cursor,   \* mail_cursor
    seen,     \* mail_seen
    stored,   \* thread_messages
    held,     \* v2_store_only
    decided,  \* v2_decisions
    poll,     \* the locals of each invocation
    paused,   \* the deployment's AUTOMATION_PAUSED; Decide has it switched
    faults,   \* what has gone wrong so far, against its bound
    missed    \* history variable: emails that Gmail did not give a poll which went past them

mailVars == <<arrived, gone, kept, recent, cursor, seen, stored, held, decided, poll, paused, faults, missed>>
gmail == <<arrived, gone, kept, recent>>
mailTables == <<cursor, seen, stored, held, decided>>

Idle == [pc |-> "idle", from |-> NoCursor, ids |-> {}, newest |-> FALSE, next |-> 0,
         truncated |-> FALSE, handled |-> {}, polled |-> {}]

PC == {"idle", "fetch", "list", "profile", "unseen", "take", "mark", "move", "settle"}

(* Every variable ranges over what the code can put there. *)
MailTypeOK ==
    /\ arrived \in 0..N /\ kept \in 0..N /\ recent \in kept..N
    /\ cursor \in 0..N \cup {NoCursor}
    /\ \A s \in {gone, seen, stored, held, decided, missed} : s \subseteq 1..arrived
    /\ decided \cap Own = {}
    /\ paused \in BOOLEAN
    /\ \A p \in Poll :
         LET l == poll[p] IN
         /\ l.pc \in PC
         /\ l.truncated \in BOOLEAN /\ l.newest \in BOOLEAN
         /\ l.from \in 0..N \cup {NoCursor} /\ l.next \in 0..N
         /\ l.ids \subseteq 1..arrived /\ l.handled \subseteq (1..arrived) \ l.ids
         /\ l.pc \in {"take", "mark"} => (l.ids = {} <=> l.pc = "mark")
         /\ l.polled \subseteq Email \ Own

(* A new deployment: no cursor, no row, and a mailbox that may hold mail from before. *)
MailInit ==
    /\ arrived \in 0..1 /\ gone = {} /\ kept = 0 /\ recent = 0
    /\ cursor = NoCursor
    /\ seen = {} /\ stored = {} /\ held = {} /\ decided = {}
    /\ poll = [p \in Poll |-> Idle]
    /\ paused \in BOOLEAN
    /\ faults = [stop |-> 0, store |-> 0, vanish |-> 0, blank |-> 0]
    /\ missed = {}

-----------------------------------------------------------------------------
(* The mailbox and the deployment. *)

Goes(kind, bound) ==
    /\ faults[kind] < bound /\ faults.stop + faults.store + faults.vanish + faults.blank < MaxFaults
    /\ faults' = [faults EXCEPT ![kind] = @ + 1]

Arrive ==
    /\ arrived < N
    /\ arrived' = arrived + 1
    /\ UNCHANGED <<gone, kept, recent, mailTables, poll, paused, faults, missed>>

Vanish(m) ==
    /\ m <= arrived /\ m \notin gone
    /\ gone' = gone \cup {m}
    /\ Goes("vanish", Vanishes)
    /\ UNCHANGED <<arrived, kept, recent, mailTables, poll, paused, missed>>

(* A day, or a week, goes by; an invocation lives five minutes, so none spans it. *)
DaysPass ==
    /\ \A p \in Poll : poll[p].pc = "idle"
    /\ \E r \in recent..arrived : \E k \in kept..r :
         /\ <<k, r>> # <<kept, recent>>
         /\ kept' = k /\ recent' = r
    /\ UNCHANGED <<arrived, gone, mailTables, poll, paused, faults, missed>>

-----------------------------------------------------------------------------
(* One poll. *)

Set(p, l) == poll' = [poll EXCEPT ![p] = l]

ReadCursor(p) ==
    /\ poll[p].pc = "idle"
    /\ Set(p, [Idle EXCEPT !.pc = IF cursor = NoCursor THEN "list" ELSE "fetch", !.from = cursor])
    /\ UNCHANGED <<gmail, mailTables, paused, faults, missed>>

(* The emails a poll goes past without having been given them. *)
GoPast(emails) == missed' = missed \cup (emails \ stored)

(* messagesAdded records outlive the message itself; 404 means the id is older than what is kept.  The walk stops at *)
(* its last page, and the cursor to store is the mailbox's own all the same.                                         *)
WalkHistory(p) ==
    LET l == poll[p]
        ids == {m \in (l.from + 1)..arrived : m <= l.from + WalkCap}
    IN
    /\ l.pc = "fetch"
    /\ IF l.from < kept
       THEN Set(p, [l EXCEPT !.pc = "list"]) /\ UNCHANGED missed
       ELSE /\ Set(p, [l EXCEPT !.pc = "unseen", !.from = NoCursor, !.next = arrived, !.ids = ids])
            /\ GoPast(((l.from + 1)..arrived) \ ids)
    /\ UNCHANGED <<gmail, mailTables, paused, faults>>

(* The listing comes newest first, and one page of it is read. *)
Listed ==
    LET there == ((recent + 1)..arrived) \ gone IN
    {m \in there : Cardinality({k \in there : k > m}) < ListCap}

ReanchorList(p) ==
    LET l == poll[p] IN
    /\ l.pc = "list"
    /\ Set(p, [l EXCEPT !.pc = "profile", !.from = arrived, !.newest = TRUE, !.ids = Listed])
    /\ GoPast((1..arrived) \ (Listed \cup gone))
    /\ UNCHANGED <<gmail, mailTables, paused, faults>>

ReanchorProfile(p) ==
    LET l == poll[p] IN
    /\ l.pc = "profile"
    /\ Set(p, [l EXCEPT !.pc = "unseen", !.from = NoCursor, !.next = arrived])
    /\ GoPast((l.from + 1)..arrived)
    /\ UNCHANGED <<gmail, mailTables, paused, faults>>

(* The ids come in the history's order, or the listing's. *)
Before(l, m, k) == IF l.newest THEN m > k ELSE m < k
FirstOf(l) == CHOOSE m \in l.ids : \A k \in l.ids \ {m} : Before(l, m, k)

(* slice(0, BATCH): there is one. *)
Batches(l, pending) ==
    {b \in SUBSET pending : /\ Cardinality(b) = IF Cardinality(pending) < Batch THEN Cardinality(pending) ELSE Batch
                            /\ \A m \in b, k \in pending \ b : Before(l, m, k)}

Take(p, batch, truncated) ==
    Set(p, [poll[p] EXCEPT !.ids = batch, !.truncated = truncated, !.pc = IF batch = {} THEN "mark" ELSE "take"])

(* Mutants: a full batch is taken for the whole of it; what is seen is taken again. *)
TakeBatchWhole(p) ==
    LET l == poll[p] IN
    /\ l.pc = "unseen"
    /\ \E batch \in Batches(l, l.ids \ seen) : Take(p, batch, FALSE)
    /\ UNCHANGED <<gmail, mailTables, paused, faults, missed>>

TakeBatchSeenToo(p) ==
    LET l == poll[p] IN
    /\ l.pc = "unseen"
    /\ \E batch \in Batches(l, l.ids) : Take(p, batch, batch # l.ids)
    /\ UNCHANGED <<gmail, mailTables, paused, faults, missed>>

(* unseenIds and the batch. *)
TakeBatch(p) ==
    LET l == poll[p]
        pending == l.ids \ seen
    IN
    /\ l.pc = "unseen"
    /\ \E batch \in Batches(l, pending) : Take(p, batch, batch # pending)
    /\ UNCHANGED <<gmail, mailTables, paused, faults, missed>>

Handled(l) ==
    [l EXCEPT !.ids = @ \ {FirstOf(l)}, !.handled = @ \cup {FirstOf(l)},
              !.pc = IF l.ids = {FirstOf(l)} THEN "mark" ELSE "take"]

(* Mutant: Spartan's own emails are settled with the client's. *)
PolledAll(m, inserted) == IF paused /\ ~inserted THEN {} ELSE {m}

(* What settlePolled will look at: while paused the client emails this poll stored first, otherwise all of them. *)
Polled(m, inserted) == IF m \in Own \/ (paused /\ ~inserted) THEN {} ELSE {m}

SameMail(m, k) == m = k \/ \E copies \in Copies : {m, k} \subseteq copies

(* A draft is refused; ON CONFLICT DO NOTHING, of the Gmail id or of the RFC id. *)
Inserts(m) == m \notin Draft /\ \A k \in stored : ~SameMail(m, k)

(* One email is read and stored, and counts as handled whatever came of it: a row, a row it finds there, no row for a *)
(* draft or after an insert that failed (an answer to the caller, which does not look at it), no raw content to read. *)
Store(p) ==
    LET l == poll[p]
        m == FirstOf(l)
        Done(inserted) == Set(p, [Handled(l) EXCEPT !.polled = @ \cup Polled(m, inserted)])
    IN
    /\ l.pc = "take" /\ m \notin gone
    /\ \/ Inserts(m) /\ stored' = stored \cup {m} /\ Done(TRUE) /\ UNCHANGED <<missed, faults>>
       \/ ~Inserts(m) /\ Done(FALSE) /\ UNCHANGED <<stored, missed, faults>>
       \/ m \notin Draft /\ Goes("store", StoreFailures) /\ Done(FALSE) /\ UNCHANGED <<stored, missed>>
       \/ Goes("blank", Blanks) /\ GoPast({m}) /\ Set(p, Handled(l)) /\ UNCHANGED stored
    /\ UNCHANGED <<gmail, cursor, seen, held, decided, paused>>

(* Reading an email that is not there any more is a 404, which is thrown like any other error. *)
StoreThrows(p) ==
    LET l == poll[p] IN
    /\ l.pc = "take" /\ FirstOf(l) \in gone
    /\ Set(p, Idle)
    /\ UNCHANGED <<gmail, mailTables, paused, faults, missed>>

MarkSeen(p) ==
    LET l == poll[p] IN
    /\ l.pc = "mark"
    /\ seen' = seen \cup l.handled
    /\ Set(p, [l EXCEPT !.pc = IF l.truncated THEN "settle" ELSE "move", !.handled = {}, !.newest = FALSE, !.truncated = FALSE])
    /\ UNCHANGED <<gmail, cursor, stored, held, decided, paused, faults, missed>>

(* Blind: an older poll may move it back. *)
WriteCursor(p) ==
    LET l == poll[p] IN
    /\ l.pc = "move"
    /\ cursor' = l.next
    /\ Set(p, [l EXCEPT !.pc = "settle", !.next = 0])
    /\ UNCHANGED <<gmail, seen, stored, held, decided, paused, faults, missed>>

(* Paused: what this poll stored first is marked.  Otherwise, and only when the poll is the live intake, what is  *)
(* undecided is decided thread by thread: decideDelivery reads the stored mail, and a thread that throws, or that *)
(* the time budget does not reach, is left to the sweep.                                                          *)
SettlePolled(p) ==
    LET l == poll[p] IN
    /\ l.pc = "settle"
    /\ IF paused
       THEN held' = held \cup l.polled /\ UNCHANGED decided
       ELSE /\ \E ids \in IF Live THEN SUBSET ((l.polled \cap stored) \ (decided \cup held)) ELSE {{}} :
                 decided' = decided \cup ids
            /\ UNCHANGED held
    /\ Set(p, Idle)
    /\ UNCHANGED <<gmail, cursor, seen, stored, paused, faults, missed>>

(* Any request or query of a poll throws, or the invocation ends. *)
Stop(p) ==
    /\ poll[p].pc # "idle" /\ Goes("stop", Stops)
    /\ Set(p, Idle)
    /\ UNCHANGED <<gmail, mailTables, paused, missed>>

-----------------------------------------------------------------------------
(* The undecided sweep of the minute sync, in one step (Decide takes it apart); it does not run while paused. *)
SweepUndecided ==
    LET left == stored \ (Own \cup decided \cup held) IN
    /\ ~paused /\ left # {}
    /\ decided' = decided \cup left
    /\ UNCHANGED <<gmail, cursor, seen, stored, held, poll, paused, faults, missed>>

PollStep(p) ==
    \/ ReadCursor(p) \/ WalkHistory(p) \/ ReanchorList(p) \/ ReanchorProfile(p) \/ TakeBatch(p)
    \/ Store(p) \/ StoreThrows(p) \/ MarkSeen(p) \/ WriteCursor(p) \/ SettlePolled(p)

MailNext ==
    \/ Arrive \/ DaysPass \/ SweepUndecided
    \/ \E m \in Email : Vanish(m)
    \/ \E p \in Poll : PollStep(p) \/ Stop(p)

MailSpec == MailInit /\ [][MailNext]_mailVars

(* The cron starts a poll every two minutes whatever became of the last; the minute sync likewise. *)
MailFair ==
    /\ \A p \in Poll : WF_mailVars(PollStep(p))
    /\ WF_mailVars(SweepUndecided)

MailFairSpec == MailSpec /\ MailFair

-----------------------------------------------------------------------------
Covered == IF cursor = NoCursor THEN {} ELSE 1..cursor

(* Emails the store has, as themselves or as a copy, and those that are not for it. *)
InStore == {m \in Email : \E k \in stored : SameMail(m, k)}
Excused == InStore \cup Draft \cup missed

(* At-least-once (gmailCursor.ts, cursorDb.ts): an email that Gmail gave a poll is not skipped.  One the cursor has passed is in the  *)
(* store, gone from the mailbox, or was never given to the poll that passed it: older than the window when the history had expired,  *)
(* beyond the listing's page or the walk's last, arrived between the re-anchor's listing and its profile, or without content; and    *)
(* the seen set holds no other.  Nothing a poll may stop at, or two overlapping ones do, skips one; a failed insert costs its own.   *)
NothingSkipped ==
    /\ Cardinality(Covered \ (Excused \cup gone)) <= faults.store
    /\ Cardinality(seen \ Excused) <= faults.store

(* gmailCursor.ts:15, "at-least-once, never at-most-once": every client email is given to some poll.  The caps and the *)
(* re-anchor's two requests make it false.                                                                          *)
EveryEmailGiven == missed \subseteq stored

(* "Marked handled as soon as it is DURABLE" (mail-poll/route.ts:123). *)
SeenIsDurable == seen \subseteq stored

(* A backlog drains whatever the batch, the overlap and the stops: every client email that arrives is decided, or held *)
(* while paused, unless Gmail never gave it to the poll that passed it or the store has it as a copy already.  (Paused, *)
(* a poll that stops between storing an email and marking it leaves it unmarked: the mark is for what the poll itself   *)
(* stored first, and the next one finds it stored.)                                                                    *)
EveryEmailSettled ==
    \A m \in Email \ Own :
        m <= arrived ~> (\/ m \in decided \cup held \cup missed \cup gone \cup (InStore \ stored)
                         \/ paused /\ faults.stop > 0)
=============================================================================
