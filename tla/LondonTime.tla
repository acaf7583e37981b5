------------------------------ MODULE LondonTime ------------------------------
(***************************************************************************)
(* A shift's day and hours, which the client gives in London's time, and   *)
(* the two UTC instants OnSinch holds (bot/ops.ts), over a year with its   *)
(* two clock changes; and a new start, which moves the shift with its      *)
(* length (interpret/plan.ts).  A shift that ends no later than it begins  *)
(* ends the next day.  A time that London's clock never shows, or shows    *)
(* twice, is refused.                                                      *)
(*                                                                         *)
(* Time is in units of which Hour make an hour, from a midnight before the *)
(* summer; a wall time is the clock's reading in the same units.           *)
(***************************************************************************)
EXTENDS Integers

CONSTANTS
    Hour,     \* units in an hour
    Spring,   \* the instant the clock goes forward by an hour
    Autumn,   \* the instant it goes back
    AskedDays \* the days on which a shift may be asked for

Day == 24 * Hour

ASSUME TimeAssumption ==
    /\ Hour \in Nat \ {0} /\ Spring \in Nat /\ Autumn \in Nat
    /\ Spring >= Day /\ Autumn - Spring >= Day
    /\ AskedDays \subseteq Nat

VARIABLES
    asked,   \* the hours as the email, or the shift moved, gives them
    window   \* the shift in OnSinch

timeVars == <<asked, window>>

-----------------------------------------------------------------------------
(* Europe/London, as Intl has it. *)
Offset(t) == IF Spring <= t /\ t < Autumn THEN Hour ELSE 0
Clock(t) == t + Offset(t)

LondonDay(t) == Clock(t) \div Day
WallTime(t) == Clock(t) % Day

(* londonToUtc: what the clock reads at a candidate, corrected three times. *)
Nearer(w, t) == w - Offset(t)
ToUtc(w) == Nearer(w, Nearer(w, Nearer(w, w)))

(* It must read back, and no instant an hour away may read the same. *)
Unclear(w) ==
    LET t == ToUtc(w) IN Clock(t) # w \/ Clock(t - Hour) = w \/ Clock(t + Hour) = w

(* The TV's conversion (feed/project.ts): one correction and no check. *)
Instant(w) == w - (Clock(w) - w)

-----------------------------------------------------------------------------
(* shiftWindow: the end is converted on the start's day first, and again on the next when that is no later. *)
NoWindow == [b |-> 0, e |-> 0]

(* Mutant: the end of the next day is taken to be a day later. *)
ShiftWindowADayOn(d, s, e) ==
    LET begin == ToUtc(d * Day + s)
        same == ToUtc(d * Day + e)
    IN
    IF s = e \/ Unclear(d * Day + s) \/ Unclear(d * Day + e) THEN NoWindow
    ELSE IF same > begin THEN [b |-> begin, e |-> same]
    ELSE [b |-> begin, e |-> same + Day]

ShiftWindow(d, s, e) ==
    LET begin == ToUtc(d * Day + s)
        same == ToUtc(d * Day + e)
        next == (d + 1) * Day + e
    IN
    IF s = e \/ Unclear(d * Day + s) \/ Unclear(d * Day + e) THEN NoWindow
    ELSE IF same > begin THEN [b |-> begin, e |-> same]
    ELSE IF Unclear(next) THEN NoWindow
    ELSE [b |-> begin, e |-> ToUtc(next)]

TimeTypeOK ==
    /\ asked.day \in AskedDays /\ asked.start \in 0..Day - 1 /\ asked.end \in 0..Day - 1
    /\ window.b \in Nat /\ window.e \in Nat

TimeInit ==
    /\ \E d \in AskedDays, s, e \in 0..Day - 1 : asked = [day |-> d, start |-> s, end |-> e]
    /\ window = NoWindow

Book ==
    /\ window = NoWindow
    /\ window' = ShiftWindow(asked.day, asked.start, asked.end)
    /\ window' # NoWindow
    /\ UNCHANGED asked

(* A change of time that gives the new start alone, or a length alone: the end is what the clock reads so much later. *)
Retime(day, start, length) ==
    /\ window # NoWindow /\ day \in AskedDays
    /\ asked' = [day |-> day, start |-> start, end |-> (start + length) % Day]
    /\ window' = ShiftWindow(asked'.day, asked'.start, asked'.end)
    /\ window' # NoWindow

MoveStart ==
    \E start \in 0..Day - 1 : Retime(LondonDay(window.b), start, window.e - window.b)

TimeNext == Book \/ MoveStart

TimeSpec == TimeInit /\ [][TimeNext]_timeVars

-----------------------------------------------------------------------------
(* The one instant of London's wall time w. *)
Shows(t, w) == Clock(t) = w /\ Clock(t - Hour) # w /\ Clock(t + Hour) # w

(* "A time that does not exist ... or happens twice ... is refused: either reading is a guess about a shift time" (ops.ts:62-65): the   *)
(* window OnSinch is given begins and ends when London's clock shows what was asked, and at no other time, ends after it begins, within *)
(* a day by the clock, and is where the TV's own conversion puts it; across a clock change as on any night.                             *)
WindowAsAsked ==
    window # NoWindow =>
        /\ Shows(window.b, asked.day * Day + asked.start)
        /\ \E d \in {asked.day, asked.day + 1} : Shows(window.e, d * Day + asked.end)
        /\ window.b < window.e /\ Clock(window.e) - Clock(window.b) <= Day
        /\ Instant(Clock(window.b)) = window.b /\ Instant(Clock(window.e)) = window.e

(* "A new start alone moves the whole call and keeps its length" (plan.ts:811-812): by the clock, or in hours worked. *)
MoveKeepsLength ==
    [][window # NoWindow =>
        \/ window'.e - window'.b = window.e - window.b
        \/ Clock(window'.e) - Clock(window'.b) = Clock(window.e) - Clock(window.b)]_timeVars

(* Only a time that does not exist or happens twice is refused (ops.ts:62-65): not a shift whose start and end are both shown once. *)
ShownOnce(w) == \E t \in {w, w - Hour} : Shows(t, w)
RefusedRightly ==
    LET at == asked.day * Day + asked.start
        to == asked.day * Day + asked.end
    IN
    asked.start # asked.end /\ ShownOnce(at) /\ ShownOnce(IF asked.end > asked.start THEN to ELSE to + Day) =>
        ShiftWindow(asked.day, asked.start, asked.end) # NoWindow
=============================================================================
