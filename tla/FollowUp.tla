------------------------------- MODULE FollowUp -------------------------------
(***************************************************************************)
(* Who is waiting for whom on one thread (followup/clock.ts), the board    *)
(* that shows it (board.ts) and the people who dismiss what they see       *)
(* (FollowUpRow.tsx, suppressionDb.ts).  The wait is computed from the     *)
(* stored messages each time; a dismissal is a row that names the wait it  *)
(* was made for.                                                           *)
(*                                                                         *)
(* Messages are numbered by date and may be stored late; a wait is the     *)
(* number of the message it dates from, 0 for none.  A day is the wait's   *)
(* threshold.                                                              *)
(***************************************************************************)
EXTENDS Integers, Sequences, FiniteSets, FiniteSetsExt

CONSTANTS
    Viewer,       \* people with the board open
    Horizon,      \* the days after which a wait is dormant
    MaxMessages,  \* bound on messages
    LastDate,     \* bound on days
    MaxClicks     \* bound on dismissals and restores

ASSUME FollowAssumption == Viewer # {} /\ {Horizon, MaxMessages, LastDate, MaxClicks} \subseteq Nat /\ Horizon > 0

VARIABLES
    letters,    \* what was written: [by, needs, date]
    letterRows, \* thread_messages
    date,
    row,        \* followup_suppressions' row: the wait dismissed, 0 when there is none
    screen,     \* the wait each viewer is shown
    posting,    \* the dismissal each has sent, 0 for none
    dismissed,  \* history: every wait a row has named
    clicks

followVars == <<letters, letterRows, date, row, screen, posting, dismissed, clicks>>

-----------------------------------------------------------------------------
(* waitingPeriod. *)

(* substantive: machine mail answers nobody. *)
Spoken == {m \in letterRows : letters[m].by # "machine"}

(* The unbroken run of messages of who spoke last, ... *)
TrailingRun == {m \in Spoken : \A n \in Spoken : n > m => letters[n].by = letters[m].by}

(* Mutant: a chase begins the wait anew. *)
WaitAnew ==
    LET asks == {m \in TrailingRun : letters[m].needs} IN
    IF asks = {} THEN 0 ELSE Max(asks)

(* ... which waits from the first that needs an answer: a client's that is no sign-off, or ours that asks. *)
Wait ==
    LET asks == {m \in TrailingRun : letters[m].needs} IN
    IF asks = {} THEN 0 ELSE Min(asks)

Overdue(w) == date - letters[w].date >= 1
Dormant(w) == date - letters[w].date > Horizon

(* followupBoard's alert for the thread.  A read of the suppressions that fails hides nothing. *)
IsSuppressed(w, r) == r = w

Alert(r) ==
    LET w == Wait IN
    IF w = 0 \/ ~Overdue(w) \/ IsSuppressed(w, r) \/ Dormant(w) THEN 0 ELSE w

-----------------------------------------------------------------------------
FollowTypeOK ==
    /\ letterRows \subseteq DOMAIN letters
    /\ \A m \in DOMAIN letters : letters[m].date \in 0..date
    /\ dismissed \subseteq letterRows /\ row \in dismissed \cup {0}
    /\ \A v \in Viewer : screen[v] \in letterRows \cup {0} /\ posting[v] \in letterRows \cup {0}

FollowInit ==
    /\ letters = <<>> /\ letterRows = {} /\ date = 0 /\ row = 0
    /\ screen = [v \in Viewer |-> 0] /\ posting = [v \in Viewer |-> 0]
    /\ dismissed = {} /\ clicks = 0

(* Somebody writes; needsResponse is a judgement of its words. *)
WriteLetter ==
    /\ Len(letters) < MaxMessages
    /\ \E by \in {"us", "client", "machine"}, needs \in BOOLEAN :
         /\ by = "machine" => ~needs
         /\ letters' = Append(letters, [by |-> by, needs |-> needs, date |-> date])
    /\ UNCHANGED <<letterRows, date, row, screen, posting, dismissed, clicks>>

(* Intake stores it, in whatever order it comes to it. *)
StoreLetter ==
    /\ \E m \in DOMAIN letters \ letterRows : letterRows' = letterRows \cup {m}
    /\ UNCHANGED <<letters, date, row, screen, posting, dismissed, clicks>>

NextDate ==
    /\ date < LastDate /\ date' = date + 1
    /\ UNCHANGED <<letters, letterRows, row, screen, posting, dismissed, clicks>>

(* The board is loaded on opening the page, and after each dismissal, of this thread or another, whatever came of that. *)
Load(v) ==
    /\ \E r \in {row, 0} : screen' = [screen EXCEPT ![v] = Alert(r)]
    /\ UNCHANGED <<letters, letterRows, date, row, posting, dismissed, clicks>>

(* A click takes the alert off the screen at once, and sends the wait it was shown with. *)
ClickDismiss(v) ==
    /\ clicks < MaxClicks /\ clicks' = clicks + 1
    /\ posting[v] = 0 /\ screen[v] # 0
    /\ posting' = [posting EXCEPT ![v] = screen[v]]
    /\ screen' = [screen EXCEPT ![v] = 0]
    /\ UNCHANGED <<letters, letterRows, date, row, dismissed>>

(* suppress: the thread's one row takes the wait sent, whatever it held. *)
Suppress(v) ==
    /\ posting[v] # 0
    /\ row' = posting[v]
    /\ dismissed' = dismissed \cup {posting[v]}
    /\ posting' = [posting EXCEPT ![v] = 0]
    /\ UNCHANGED <<letters, letterRows, date, screen, clicks>>

SuppressFails(v) ==
    /\ posting[v] # 0
    /\ posting' = [posting EXCEPT ![v] = 0]
    /\ UNCHANGED <<letters, letterRows, date, row, screen, dismissed, clicks>>

(* unsuppress, by the route's "restore". *)
Restore ==
    /\ clicks < MaxClicks /\ clicks' = clicks + 1
    /\ row # 0 /\ row' = 0 /\ dismissed' = dismissed \ {row}
    /\ UNCHANGED <<letters, letterRows, date, screen, posting>>

FollowNext ==
    \/ WriteLetter \/ StoreLetter \/ NextDate \/ Restore
    \/ \E v \in Viewer : Load(v) \/ ClickDismiss(v) \/ Suppress(v) \/ SuppressFails(v)

FollowSpec == FollowInit /\ [][FollowNext]_followVars

-----------------------------------------------------------------------------
(* What we still owe: the client's messages that need an answer, and that nothing of ours has come after. *)
Owed == {m \in letterRows : /\ letters[m].by = "client" /\ letters[m].needs
                        /\ \A n \in letterRows : letters[n].by = "us" => n < m}

(* "Further messages from the same waiting party must not reset the clock" (clock.ts:16), and "a person dismissing an alert is saying *)
(* something about the silence in front of them" (suppressionDb.ts:5): a client's message overdue its answer is on the board, whatever *)
(* they or a machine wrote after it, however late it was stored, and whatever was dismissed of waits that are over.  Only a dismissal  *)
(* that names a message still unanswered, or one unanswered beyond the horizon, keeps it off.                                          *)
OwedIsShown ==
    /\ \E m \in Owed : Overdue(m)
    /\ \A m \in Owed : ~Dormant(m)
    /\ Owed \cap dismissed = {}
    => Alert(row) \in Owed

(* "The moment somebody speaks, the flip point moves, the stored value stops matching, and the thread is live again" *)
(* (suppressionDb.ts:12-13): a client's new message that needs an answer is not hidden by an older dismissal.         *)
LaterMessageIsShown ==
    [][\A m \in letterRows' \ letterRows :
        /\ letters[m].by = "client" /\ letters[m].needs
        /\ \A n \in letterRows : n < m
        => ~IsSuppressed(Wait', row)]_followVars
=============================================================================
