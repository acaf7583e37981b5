---------------------------- MODULE Safety_proofs ----------------------------
(***************************************************************************)
(* Proofs about what a thread and its shifts are shown as: the TV's needs  *)
(* and ticks (Feed), who waits for whom (FollowUp), for any number of      *)
(* emails, viewers, days and touches, and a shift's hours (LondonTime), for*)
(* any year with one summer.  With the proofs of the other parts, the      *)
(* types of the run.                                                       *)
(***************************************************************************)
EXTENDS MCSafety, MailPoll_proofs, Planner_proofs, OnSinch_proofs

Letter == [by : {"us", "client", "machine"}, needs : BOOLEAN, date : Nat]

FollowTyped ==
  /\ letters \in Seq(Letter) /\ letterRows \subseteq 1..Len(letters) /\ date \in Nat
  /\ dismissed \subseteq letterRows /\ row \in dismissed \cup {0}
  /\ screen \in [Viewer -> letterRows \cup {0}] /\ posting \in [Viewer -> letterRows \cup {0}]

\* Messages are numbered by date, and none is of a day to come.
ByDate ==
  /\ \A m \in 1..Len(letters) : letters[m].date <= date
  /\ \A m, n \in 1..Len(letters) : m <= n => letters[m].date <= letters[n].date

FollowInv == FollowTyped /\ ByDate

-----------------------------------------------------------------------------
\* What a thread waits from is one of its messages.
LEMMA WaitIsARow ==
  ASSUME FollowTyped
  PROVE  Wait \in letterRows \cup {0} /\ \A r : Alert(r) \in letterRows \cup {0}
<1> DEFINE asks == {m \in TrailingRun : letters[m].needs}
<1>1. asks \subseteq letterRows /\ letterRows \subseteq Nat
  BY DEF TrailingRun, Spoken, FollowTyped
<1>2. Wait = IF asks = {} THEN 0 ELSE Min(asks)
  BY DEF Wait
<1> HIDE DEF asks
<1>3. Wait \in letterRows \cup {0}
  BY <1>1, <1>2, MinIsLeast
<1>4. QED BY <1>3 DEF Alert

LEMMA LetterTypes ==
  ASSUME FollowTyped
  PROVE  /\ DOMAIN letters = 1..Len(letters) /\ letterRows \subseteq Nat
         /\ \A m \in 1..Len(letters) : /\ letters[m].by \in {"us", "client", "machine"}
                                       /\ letters[m].needs \in BOOLEAN /\ letters[m].date \in Nat
<1>1. DOMAIN letters = 1..Len(letters) /\ \A m \in 1..Len(letters) : letters[m] \in Letter
  BY DEF FollowTyped
<1>2. \A l \in Letter : l.by \in {"us", "client", "machine"} /\ l.needs \in BOOLEAN /\ l.date \in Nat
  BY DEF Letter
<1>3. QED BY <1>1, <1>2 DEF FollowTyped

LEMMA FollowStart == FollowInit => FollowInv
BY DEF FollowInit, FollowInv, FollowTyped, ByDate

LEMMA WriteLetterInv == ASSUME FollowInv, WriteLetter PROVE FollowInv'
<1>1. PICK new \in Letter : letters' = Append(letters, new) /\ new.date = date
  <2>1. PICK by \in {"us", "client", "machine"}, needs \in BOOLEAN :
          letters' = Append(letters, [by |-> by, needs |-> needs, date |-> date])
    BY DEF WriteLetter
  <2>2. [by |-> by, needs |-> needs, date |-> date] \in Letter
    BY DEF FollowInv, FollowTyped, Letter
  <2>3. QED BY <2>1, <2>2
<1>2. letters \in Seq(Letter) /\ Len(letters) \in Nat /\ date \in Nat
  BY DEF FollowInv, FollowTyped
<1>3. /\ letters' \in Seq(Letter) /\ Len(letters') = Len(letters) + 1
      /\ \A m \in 1..Len(letters) : letters'[m] = letters[m]
      /\ letters'[Len(letters) + 1] = new
  BY <1>1, <1>2
<1>4. FollowTyped'
  BY <1>2, <1>3 DEF FollowInv, FollowTyped, WriteLetter
<1>5. ByDate'
  BY <1>1, <1>2, <1>3 DEF FollowInv, ByDate, WriteLetter
<1>6. QED BY <1>4, <1>5 DEF FollowInv

LEMMA StoreLetterInv == ASSUME FollowInv, StoreLetter PROVE FollowInv'
<1>1. PICK m \in DOMAIN letters : letterRows' = letterRows \cup {m}
  BY DEF StoreLetter
<1>2. m \in 1..Len(letters)
  BY <1>1 DEF FollowInv, FollowTyped
<1>3. QED BY <1>1, <1>2 DEF FollowInv, FollowTyped, ByDate, StoreLetter

LEMMA NextDateInv == ASSUME FollowInv, NextDate PROVE FollowInv'
<1>1. \A m \in 1..Len(letters) : letters[m].date \in Nat
  BY LetterTypes DEF FollowInv
<1>2. QED BY <1>1 DEF FollowInv, FollowTyped, ByDate, NextDate

LEMMA LoadInv == ASSUME FollowInv, NEW v \in Viewer, Load(v) PROVE FollowInv'
<1>1. PICK r : screen' = [screen EXCEPT ![v] = Alert(r)]
  BY DEF Load
<1>2. Alert(r) \in letterRows \cup {0}
  BY WaitIsARow DEF FollowInv
<1>3. QED BY <1>1, <1>2 DEF FollowInv, FollowTyped, ByDate, Load

LEMMA DismissInv ==
  ASSUME FollowInv, NEW v \in Viewer, ClickDismiss(v) \/ Suppress(v) \/ SuppressFails(v)
  PROVE  FollowInv'
<1>1. CASE ClickDismiss(v)
  BY <1>1 DEF FollowInv, FollowTyped, ByDate, ClickDismiss
<1>2. CASE Suppress(v)
  BY <1>2 DEF FollowInv, FollowTyped, ByDate, Suppress
<1>3. CASE SuppressFails(v)
  BY <1>3 DEF FollowInv, FollowTyped, ByDate, SuppressFails
<1>4. QED BY <1>1, <1>2, <1>3

LEMMA FollowStep == FollowInv /\ [FollowNext]_followVars => FollowInv'
<1> SUFFICES ASSUME FollowInv, [FollowNext]_followVars PROVE FollowInv'
  OBVIOUS
<1>1. CASE Restore
  BY <1>1 DEF FollowInv, FollowTyped, ByDate, Restore
<1>2. CASE UNCHANGED followVars
  BY <1>2 DEF FollowInv, FollowTyped, ByDate, followVars
<1>3. QED
  BY <1>1, <1>2, WriteLetterInv, StoreLetterInv, NextDateInv, LoadInv, DismissInv DEF FollowNext

-----------------------------------------------------------------------------
\* A thread we owe an answer on waits from the first of what we owe: the run that spoke last is the client's.
LEMMA WaitsFromOwed ==
  ASSUME FollowInv, Owed # {}
  PROVE  Wait \in Owed /\ \A m \in Owed : Wait <= m
<1> DEFINE asks == {m \in TrailingRun : letters[m].needs}
<1>1. /\ letterRows \subseteq Nat
      /\ \A m \in letterRows : letters[m].by \in {"us", "client", "machine"}
  BY LetterTypes DEF FollowInv, FollowTyped
<1>2. Owed \subseteq asks
  <2> SUFFICES ASSUME NEW o \in Owed PROVE o \in asks
    OBVIOUS
  <2>1. o \in Spoken /\ letters[o].by = "client" /\ letters[o].needs
    BY DEF Owed, Spoken
  <2>2. \A n \in Spoken : n > o => letters[n].by = "client"
    BY <1>1 DEF Owed, Spoken
  <2>3. QED BY <2>1, <2>2 DEF TrailingRun
<1>3. asks \subseteq Owed
  <2> SUFFICES ASSUME NEW m \in asks PROVE m \in Owed
    OBVIOUS
  <2>1. PICK o \in Owed : TRUE
    OBVIOUS
  <2>2. m \in letterRows /\ o \in letterRows /\ m \in Nat /\ o \in Nat
    BY <1>1 DEF Owed, TrailingRun, Spoken
  <2>3. letters[m].by = "client"
    <3>1. CASE m < o
      BY <1>1, <2>2, <3>1 DEF Owed, TrailingRun, Spoken
    <3>2. CASE m >= o
      BY <1>1, <2>2, <3>2 DEF Owed, TrailingRun, Spoken
    <3>3. QED BY <2>2, <3>1, <3>2
  <2>4. \A n \in letterRows : letters[n].by = "us" => n < m
    <3> SUFFICES ASSUME NEW n \in letterRows, letters[n].by = "us" PROVE n < m
      OBVIOUS
    <3>1. n \in Nat /\ n # m /\ n \in Spoken
      BY <1>1, <2>3 DEF Spoken
    <3>2. ~(n > m)
      BY <2>3, <3>1 DEF TrailingRun
    <3>3. QED BY <2>2, <3>1, <3>2
  <2>5. QED BY <2>2, <2>3, <2>4 DEF Owed
<1>4. asks = Owed /\ asks \subseteq Nat
  BY <1>1, <1>2, <1>3 DEF Owed
<1>5. Wait = Min(asks)
  BY <1>4 DEF Wait
<1> HIDE DEF asks
<1>6. QED BY <1>4, <1>5, MinIsLeast

LEMMA FollowImplies == FollowInv => FollowTypeOK /\ OwedIsShown
<1> SUFFICES ASSUME FollowInv PROVE FollowTypeOK /\ OwedIsShown
  OBVIOUS
<1>1. FollowTypeOK
  <2>1. letters \in Seq(Letter) /\ DOMAIN letters = 1..Len(letters) /\ \A m \in DOMAIN letters : letters[m].date \in Nat
    BY LetterTypes DEF FollowInv, FollowTyped
  <2>2. \A m \in DOMAIN letters : letters[m].date \in 0..date
    BY <2>1 DEF FollowInv, FollowTyped, ByDate
  <2>3. QED BY <2>1, <2>2 DEF FollowInv, FollowTyped, FollowTypeOK
<1>2. OwedIsShown
  <2> SUFFICES ASSUME NEW m \in Owed, Overdue(m), \A o \in Owed : ~Dormant(o), Owed \cap dismissed = {}
               PROVE  Alert(row) \in Owed
    BY DEF OwedIsShown
  <2>1. Wait \in Owed /\ Wait <= m
    BY WaitsFromOwed
  <2>2. Wait \in 1..Len(letters) /\ m \in 1..Len(letters) /\ Wait # 0
    BY <2>1 DEF Owed, FollowInv, FollowTyped
  <2>3. letters[Wait].date \in Nat /\ letters[m].date \in Nat /\ date \in Nat /\ letters[Wait].date <= letters[m].date
    BY <2>1, <2>2, LetterTypes DEF FollowInv, FollowTyped, ByDate
  <2>4. Overdue(Wait)
    BY <2>3 DEF Overdue
  <2>5. ~IsSuppressed(Wait, row)
    BY <2>1, <2>2 DEF IsSuppressed, FollowInv, FollowTyped
  <2>6. Alert(row) = Wait
    BY <2>1, <2>2, <2>4, <2>5 DEF Alert
  <2>7. QED BY <2>1, <2>6
<1>3. QED BY <1>1, <1>2

LEMMA FollowAlways == FollowSpec => []FollowInv
BY FollowStart, FollowStep, PTL DEF FollowSpec

\* Every stored message and dismissal keeps its type (letters, rows and the wait a viewer is shown or has dismissed).
THEOREM FollowTypeCorrect == FollowSpec => []FollowTypeOK
BY FollowAlways, FollowImplies, PTL

\* A client's message overdue its answer is on the board, whatever order the messages were stored in, whatever came after it but an
\* answer of ours, and whatever was dismissed of other waits (clock.ts's waitingPeriod, board.ts, suppressionDb.ts).
THEOREM OwedStaysShown == FollowSpec => []OwedIsShown
BY FollowAlways, FollowImplies, PTL

-----------------------------------------------------------------------------
(* The hours of a shift. *)

TimeTyped ==
  /\ asked \in [day : AskedDays, start : 0..Day - 1, end : 0..Day - 1]
  /\ window \in [b : Nat, e : Nat]

TimeInv == TimeTyped /\ WindowAsAsked

LEMMA DayTypes ==
  /\ Hour \in Nat /\ Hour > 0 /\ Day \in Nat /\ Day > Hour /\ Spring \in Nat /\ Autumn \in Nat
  /\ Spring > Hour /\ Autumn - Spring > Hour
BY TimeAssumption DEF Day

\* What ToUtc gives of a wall time that is not unclear: its one instant, and the one the TV's conversion gives.
LEMMA ClearInstant ==
  ASSUME NEW w \in Nat, ~Unclear(w)
  PROVE  /\ ToUtc(w) \in Nat /\ Clock(ToUtc(w)) = w /\ Shows(ToUtc(w), w) /\ Instant(w) = ToUtc(w)
<1> DEFINE t == ToUtc(w)
<1>1. t \in {w, w - Hour} /\ t \in Int
  BY DayTypes DEF ToUtc, Nearer, Offset
<1>2. Clock(t) = w /\ Clock(t - Hour) # w /\ Clock(t + Hour) # w
  BY DEF Unclear
<1> HIDE DEF t
<1>3. CASE Spring <= t /\ t < Autumn
  <2>1. Clock(t) = t + Hour /\ t = w - Hour
    BY <1>1, <1>2, <1>3, DayTypes DEF Clock, Offset
  <2>2. t + Hour < Autumn
    BY <1>1, <1>2, <1>3, <2>1, DayTypes DEF Clock, Offset
  <2>3. Instant(w) = t
    BY <1>3, <2>1, <2>2, DayTypes DEF Instant, Clock, Offset
  <2>4. t \in Nat
    BY <1>1, <1>3, DayTypes
  <2>5. QED BY <1>2, <2>3, <2>4 DEF t, Shows
<1>4. CASE ~(Spring <= t /\ t < Autumn)
  <2>1. Clock(t) = t /\ t = w
    BY <1>1, <1>2, <1>4, DayTypes DEF Clock, Offset
  <2>2. Instant(w) = t
    BY <1>4, <2>1, DayTypes DEF Instant, Clock, Offset
  <2>3. QED BY <1>2, <2>1, <2>2 DEF t, Shows
<1>5. QED BY <1>3, <1>4

\* Of two wall times that are not unclear, the later is the later instant.
LEMMA ClearOrder ==
  ASSUME NEW v \in Nat, NEW w \in Nat, ~Unclear(v), ~Unclear(w), v < w
  PROVE  ToUtc(v) < ToUtc(w)
<1> DEFINE s == ToUtc(v)
           t == ToUtc(w)
<1>1. /\ s \in Nat /\ t \in Nat /\ Clock(s) = v /\ Clock(t) = w
      /\ Clock(s - Hour) # v /\ Clock(s + Hour) # v /\ Clock(t - Hour) # w /\ Clock(t + Hour) # w
  BY ClearInstant DEF Shows
<1> HIDE DEF s, t
<1>2. s < t
  BY <1>1, DayTypes DEF Clock, Offset
<1>3. QED BY <1>2 DEF s, t

\* What WindowAsAsked says of a window, of the hours it was asked for.
AsAskedFor(W, d, s, e) ==
  /\ Shows(W.b, d * Day + s)
  /\ \E x \in {d, d + 1} : Shows(W.e, x * Day + e)
  /\ W.b < W.e /\ Clock(W.e) - Clock(W.b) <= Day
  /\ Instant(Clock(W.b)) = W.b /\ Instant(Clock(W.e)) = W.e

LEMMA WindowRight ==
  ASSUME NEW d \in Nat, NEW s \in 0..Day - 1, NEW e \in 0..Day - 1, ShiftWindow(d, s, e) # NoWindow
  PROVE  ShiftWindow(d, s, e) \in [b : Nat, e : Nat] /\ AsAskedFor(ShiftWindow(d, s, e), d, s, e)
<1> DEFINE from == d * Day + s
           to == d * Day + e
           next == (d + 1) * Day + e
           W == ShiftWindow(d, s, e)
<1>1. d * Day \in Nat /\ (d + 1) * Day = d * Day + Day
  BY DayTypes
<1>2. /\ s \in Nat /\ e \in Nat /\ s < Day /\ e < Day /\ Day \in Nat
      /\ from \in Nat /\ to \in Nat /\ next \in Nat /\ to - from = e - s /\ next - from = Day + e - s
  BY <1>1, DayTypes
<1>3. s # e /\ ~Unclear(from) /\ ~Unclear(to)
  BY DEF ShiftWindow
<1>4. W = IF ToUtc(to) > ToUtc(from) THEN [b |-> ToUtc(from), e |-> ToUtc(to)]
          ELSE IF Unclear(next) THEN NoWindow ELSE [b |-> ToUtc(from), e |-> ToUtc(next)]
  BY <1>3 DEF ShiftWindow
<1>5. \E x \in {d, d + 1}, end \in {to, next} :
        /\ end = x * Day + e /\ end > from /\ end - from <= Day /\ ~Unclear(end)
        /\ W = [b |-> ToUtc(from), e |-> ToUtc(end)]
  <2>1. CASE ToUtc(to) > ToUtc(from)
    <3>1. ToUtc(to) \in Nat /\ ToUtc(from) \in Nat
      BY <1>2, <1>3, ClearInstant
    <3>2. e > s
      <4>1. e < s => ToUtc(to) < ToUtc(from)
        BY <1>2, <1>3, ClearOrder
      <4>2. QED BY <1>2, <1>3, <2>1, <3>1, <4>1
    <3>3. W = [b |-> ToUtc(from), e |-> ToUtc(to)]
      BY <1>4, <2>1
    <3> HIDE DEF W
    <3>4. to > from /\ to - from <= Day
      BY <1>2, <3>2
    <3>5. QED BY <1>3, <3>3, <3>4
  <2>2. CASE ~(ToUtc(to) > ToUtc(from))
    <3>1. e < s
      <4>1. e > s => ToUtc(to) > ToUtc(from)
        BY <1>2, <1>3, ClearOrder, ClearInstant
      <4>2. QED BY <1>2, <1>3, <2>2, <4>1
    <3>2. ~Unclear(next) /\ W = [b |-> ToUtc(from), e |-> ToUtc(next)]
      BY <1>4, <2>2
    <3> HIDE DEF W
    <3>3. next > from /\ next - from <= Day
      BY <1>2, <3>1
    <3>4. QED BY <3>2, <3>3
  <2>3. QED BY <2>1, <2>2
<1>6. PICK x \in {d, d + 1}, end \in {to, next} :
        /\ end = x * Day + e /\ end > from /\ end - from <= Day /\ ~Unclear(end)
        /\ W = [b |-> ToUtc(from), e |-> ToUtc(end)]
  BY <1>5
<1>7. end \in Nat /\ W.b = ToUtc(from) /\ W.e = ToUtc(end)
  BY <1>2, <1>6
<1>8. W \in [b : Nat, e : Nat]
  BY <1>2, <1>3, <1>6, <1>7, ClearInstant
<1> HIDE DEF W
<1>9. Shows(W.b, from) /\ Clock(W.b) = from /\ Instant(from) = W.b
  BY <1>2, <1>3, <1>7, ClearInstant
<1>10. Shows(W.e, end) /\ Clock(W.e) = end /\ Instant(end) = W.e
  BY <1>6, <1>7, ClearInstant
<1>11. W.b < W.e
  BY <1>2, <1>3, <1>6, <1>7, ClearOrder
<1>12. AsAskedFor(W, d, s, e)
  BY <1>6, <1>9, <1>10, <1>11 DEF AsAskedFor
<1>13. QED BY <1>8, <1>12 DEF W

LEMMA TimeStart == TimeInit => TimeInv
BY DayTypes DEF TimeInit, TimeInv, TimeTyped, WindowAsAsked, NoWindow

LEMMA WindowMoves ==
  ASSUME NEW d \in AskedDays, NEW s \in 0..Day - 1, NEW e \in 0..Day - 1, asked' = [day |-> d, start |-> s, end |-> e],
         window' = ShiftWindow(d, s, e), window' # NoWindow
  PROVE  TimeInv'
<1>1. d \in Nat
  BY TimeAssumption
<1>2. window' \in [b : Nat, e : Nat] /\ AsAskedFor(window', d, s, e)
  BY <1>1, WindowRight
<1>3. WindowAsAsked'
  BY <1>2 DEF WindowAsAsked, AsAskedFor, Shows, Instant, Clock, Offset
<1>4. QED BY <1>2, <1>3 DEF TimeInv, TimeTyped

LEMMA TimeStep == TimeInv /\ [TimeNext]_timeVars => TimeInv'
<1> SUFFICES ASSUME TimeInv, [TimeNext]_timeVars PROVE TimeInv'
  OBVIOUS
<1>1. CASE Book
  BY <1>1, WindowMoves DEF Book, TimeInv, TimeTyped
<1>2. ASSUME NEW start \in 0..Day - 1, Retime(LondonDay(window.b), start, window.e - window.b)
      PROVE  TimeInv'
  <2> DEFINE d == LondonDay(window.b)
             e == (start + (window.e - window.b)) % Day
  <2>1. window.e \in Nat /\ window.b \in Nat /\ Day \in Nat /\ Day > 0
    BY DayTypes DEF TimeInv, TimeTyped
  <2>2. e \in 0..Day - 1
    BY <2>1
  <2>3. d \in AskedDays /\ asked' = [day |-> d, start |-> start, end |-> e] /\ window' # NoWindow
    BY <1>2 DEF Retime
  <2>4. window' = ShiftWindow(d, start, e)
    BY <1>2, <2>3 DEF Retime
  <2> HIDE DEF d, e
  <2>5. QED BY <2>2, <2>3, <2>4, WindowMoves
<1>3. CASE UNCHANGED timeVars
  BY <1>3 DEF timeVars, TimeInv, TimeTyped, WindowAsAsked, Shows, Instant, Clock, Offset
<1>4. QED BY <1>1, <1>2, <1>3 DEF TimeNext, MoveStart

LEMMA TimeAlways == TimeSpec => []TimeInv
BY TimeStart, TimeStep, PTL DEF TimeSpec

\* The hours asked for stay a day and two hours of one day, and the window two instants.
THEOREM TimeTypeCorrect == TimeSpec => []TimeTypeOK
<1>1. TimeInv => TimeTypeOK
  BY DEF TimeInv, TimeTyped, TimeTypeOK
<1>2. QED BY <1>1, TimeAlways, PTL

\* A booked shift begins and ends when London's clock shows what was asked, and at no other instant, ends after it begins within a day
\* by the clock, and is where the TV's one-correction conversion puts it (ops.ts's londonToUtc and shiftWindow, feed/project.ts).
THEOREM HoursAsAsked == TimeSpec => []WindowAsAsked
<1>1. TimeInv => WindowAsAsked
  BY DEF TimeInv
<1>2. QED BY <1>1, TimeAlways, PTL

-----------------------------------------------------------------------------
(* The feed. *)

MailRow == [kind : Answers, new : BOOLEAN, day : Nat, ord : Nat, read : [asks : BOOLEAN, day : Nat],
            executed : {"none", "some", "all"}, replan : Replans]

FeedTyped ==
  /\ mail \in Seq(MailRow) /\ ticked \subseteq DOMAIN mail
  /\ \A x \in marks : x = [key |-> x.key, mark |-> x.mark]

\* A tick is kept under the key its email has now, and what has faded went green.
TicksKept ==
  /\ \A e \in ticked : Has(KeyOf(mail, e), "checked")
  /\ \A k \in faded : Green(k)

FeedInv == FeedTyped /\ TicksKept

\* Keys are of one email each, and a key changes only with its email's decision, what a hand-off is read as asking, or what the bot
\* wrote of it.
LEMMA KeyFacts ==
  /\ \A m, e : KeyOf(m, e).email = e
  /\ \A m, n, e : /\ m[e].kind = n[e].kind /\ m[e].new = n[e].new /\ m[e].ord = n[e].ord /\ m[e].executed = n[e].executed
                  /\ m[e].kind = "write" \/ m[e].read.asks = n[e].read.asks
                  => KeyOf(m, e) = KeyOf(n, e)
<1>1. \A m, e : KeyOf(m, e).email = e
  BY DEF KeyOf
<1>2. ASSUME NEW m, NEW n, NEW e, m[e].kind = n[e].kind, m[e].new = n[e].new, m[e].ord = n[e].ord, m[e].executed = n[e].executed,
             m[e].kind = "write" \/ m[e].read.asks = n[e].read.asks
      PROVE  KeyOf(m, e) = KeyOf(n, e)
  <2>1. AtFirst(m[e]) = AtFirst(n[e]) /\ AtFirst(m[e]).kind = m[e].kind
    BY <1>2 DEF AtFirst
  <2>2. Classify(AtFirst(m[e]), m[e].read, NoLink, m[e].executed = "all") = Classify(AtFirst(n[e]), n[e].read, NoLink, n[e].executed = "all")
    BY <1>2, <2>1 DEF Classify
  <2>3. QED BY <1>2, <2>2 DEF KeyOf
<1>3. QED BY <1>1, <1>2

LEMMA OnCard == \A m, linked : RowsOnCard(m, linked) \subseteq DOMAIN m
BY DEF RowsOnCard

\* What is on the card: a row's own item, under its key, or a need that went green.
LEMMA ItemForms ==
  ASSUME NEW i \in Items(mail, link)
  PROVE  /\ i.email \in DOMAIN mail
         /\ i.key = KeyOf(mail, i.email) \/ Green(i.key)
<1>1. PICK e \in RowsOnCard(mail, link) : i \in ItemOf(mail, link, e)
  BY DEF Items
<1>2. e \in DOMAIN mail
  BY <1>1, OnCard
<1>3. CASE i = [email |-> e, key |-> KeyOf(mail, e), kind |-> KindNow(mail[e], link), at |-> e]
  <2>1. i.email = e /\ i.key = KeyOf(mail, e)
    BY <1>3
  <2>2. QED BY <1>2, <2>1
<1>4. CASE \E w \in Remembered(mail, link, e) : /\ Green(w.key)
                                               /\ i = [email |-> e, key |-> w.key, kind |-> w.key.kind, at |-> w.at]
  <2>1. PICK w : Green(w.key) /\ i = [email |-> e, key |-> w.key, kind |-> w.key.kind, at |-> w.at]
    BY <1>4
  <2>2. i.email = e /\ i.key = w.key
    BY <2>1
  <2>3. QED BY <1>2, <2>1, <2>2
<1>5. QED BY <1>1, <1>3, <1>4 DEF ItemOf

-----------------------------------------------------------------------------
LEMMA FeedStart == FeedInit => FeedInv
BY DEF FeedInit, FeedInv, FeedTyped, TicksKept

LEMMA DecidedInv == ASSUME FeedInv, Decided PROVE FeedInv'
<1>1. PICK r \in Rows : mail' = Append(mail, [kind |-> r.kind, new |-> r.new, day |-> r.day, ord |-> r.ord,
                                              read |-> Reading(r), executed |-> "none", replan |-> NoAnswer])
  BY DEF Decided
<1> DEFINE new == [kind |-> r.kind, new |-> r.new, day |-> r.day, ord |-> r.ord, read |-> Reading(r), executed |-> "none", replan |-> NoAnswer]
<1>2. new \in MailRow
  BY FeedAssumption DEF MailRow, Reading, Replans
<1> HIDE DEF new
<1>3. mail \in Seq(MailRow) /\ DOMAIN mail = 1..Len(mail) /\ ticked \subseteq DOMAIN mail
  BY DEF FeedInv, FeedTyped
<1>4. mail' \in Seq(MailRow) /\ DOMAIN mail \subseteq DOMAIN mail' /\ \A e \in DOMAIN mail : mail'[e] = mail[e]
  BY <1>1, <1>2, <1>3 DEF new
<1>5. \A e \in ticked : KeyOf(mail', e) = KeyOf(mail, e)
  BY <1>3, <1>4, KeyFacts
<1>6. UNCHANGED <<marks, faded, ticked>>
  BY DEF Decided
<1>7. TicksKept'
  BY <1>5, <1>6 DEF FeedInv, TicksKept, Has, Green
<1>8. QED BY <1>3, <1>4, <1>6, <1>7 DEF FeedInv, FeedTyped

LEMMA ExecuteInv == ASSUME FeedInv, NEW e \in DOMAIN mail, Execute(e) PROVE FeedInv'
<1>1. PICK x \in {"some", "all"} : mail' = [mail EXCEPT ![e].executed = x]
  BY DEF Execute
<1>2. mail \in Seq(MailRow) /\ DOMAIN mail = 1..Len(mail) /\ ticked \subseteq DOMAIN mail /\ mail[e] \in MailRow
  BY DEF FeedInv, FeedTyped
<1>3. [mail[e] EXCEPT !.executed = x] \in MailRow
  BY <1>2 DEF MailRow
<1>4. /\ mail' \in Seq(MailRow) /\ DOMAIN mail' = DOMAIN mail
      /\ \A o \in DOMAIN mail \ {e} : mail'[o] = mail[o]
  BY <1>1, <1>2, <1>3
<1>5. ticked' = ticked \ {e} /\ UNCHANGED <<marks, faded>>
  BY DEF Execute
<1>6. \A o \in ticked' : KeyOf(mail', o) = KeyOf(mail, o)
  BY <1>2, <1>4, <1>5, KeyFacts
<1>7. TicksKept'
  BY <1>5, <1>6 DEF FeedInv, TicksKept, Has, Green
<1>8. QED BY <1>2, <1>4, <1>5, <1>7 DEF FeedInv, FeedTyped

LEMMA SaveReplanInv == ASSUME FeedInv, NEW e \in DOMAIN mail, SaveReplan(e) PROVE FeedInv'
<1>1. PICK answer \in Replans, read \in Readings \cup {Reading(mail[e])} :
        /\ mail' = [mail EXCEPT ![e] = [@ EXCEPT !.replan = answer, !.read = read]]
        /\ ticked' = IF mail[e].kind = "write" \/ read.asks = mail[e].read.asks THEN ticked ELSE ticked \ {e}
  BY DEF SaveReplan
<1>2. mail \in Seq(MailRow) /\ DOMAIN mail = 1..Len(mail) /\ ticked \subseteq DOMAIN mail /\ mail[e] \in MailRow
  BY DEF FeedInv, FeedTyped
<1> DEFINE row2 == [mail[e] EXCEPT !.replan = answer, !.read = read]
<1>3. /\ row2 \in MailRow /\ row2.kind = mail[e].kind /\ row2.new = mail[e].new /\ row2.ord = mail[e].ord
      /\ row2.executed = mail[e].executed /\ row2.read = read
  <2>1. read \in [asks : BOOLEAN, day : Nat]
    BY <1>2, FeedAssumption DEF Readings, Reading, MailRow
  <2>2. QED BY <1>2, <2>1 DEF MailRow
<1> HIDE DEF row2
<1>4. /\ mail' \in Seq(MailRow) /\ DOMAIN mail' = DOMAIN mail /\ mail'[e] = row2
      /\ \A o \in DOMAIN mail \ {e} : mail'[o] = mail[o]
  BY <1>1, <1>2, <1>3 DEF row2
<1>5. UNCHANGED <<marks, faded>> /\ ticked' \subseteq ticked
  BY <1>1 DEF SaveReplan
<1>6. \A o \in ticked' : KeyOf(mail', o) = KeyOf(mail, o)
  <2>1. ASSUME NEW o \in ticked', o # e PROVE KeyOf(mail', o) = KeyOf(mail, o)
    BY <1>2, <1>4, <1>5, <2>1, KeyFacts
  <2>2. ASSUME e \in ticked' PROVE KeyOf(mail', e) = KeyOf(mail, e)
    <3>1. mail[e].kind = "write" \/ read.asks = mail[e].read.asks
      BY <1>1, <2>2
    <3>2. QED BY <1>3, <1>4, <3>1, KeyFacts
  <2>3. QED BY <2>1, <2>2
<1>7. TicksKept'
  BY <1>5, <1>6 DEF FeedInv, TicksKept, Has, Green
<1>8. QED BY <1>2, <1>4, <1>5, <1>7 DEF FeedInv, FeedTyped

\* A mark made, with nothing unmarked, unticks and fades nothing.
LEMMA MarkMade ==
  ASSUME FeedInv, UNCHANGED <<mail, faded>>, marks \subseteq marks', \A x \in marks' : x = [key |-> x.key, mark |-> x.mark],
         ticked' \subseteq DOMAIN mail, \A e \in ticked' \ ticked : Has(KeyOf(mail, e), "checked")'
  PROVE  FeedInv'
<1>1. \A e \in ticked' : Has(KeyOf(mail, e), "checked")'
  BY DEF FeedInv, TicksKept, Has
<1>2. TicksKept'
  BY <1>1 DEF FeedInv, TicksKept, Has, Green
<1>3. QED BY <1>2 DEF FeedInv, FeedTyped

LEMMA RefreshInv == ASSUME FeedInv, Refresh PROVE FeedInv'
<1>1. /\ marks' = marks \cup {[key |-> k, mark |-> "resolved"] : k \in NowResolved}
      /\ UNCHANGED <<mail, faded, ticked>>
  BY DEF Refresh, thread
<1>2. \A x \in marks' : x = [key |-> x.key, mark |-> x.mark]
  BY <1>1 DEF FeedInv, FeedTyped
<1>3. QED BY <1>1, <1>2, MarkMade DEF FeedInv, FeedTyped

LEMMA TickInv == ASSUME FeedInv, Tick PROVE FeedInv'
<1>1. PICK i \in Items(mail, link) :
        /\ marks' = marks \cup {[key |-> i.key, mark |-> "checked"]}
        /\ ticked' = IF i.kind \in Need /\ i.key = KeyOf(mail, i.email) THEN ticked \cup {i.email} ELSE ticked
  BY DEF Tick
<1>2. UNCHANGED <<mail, faded>>
  BY DEF Tick, thread
<1>3. i.email \in DOMAIN mail
  BY ItemForms
<1>4. \A x \in marks' : x = [key |-> x.key, mark |-> x.mark]
  BY <1>1 DEF FeedInv, FeedTyped
<1>5. \A e \in ticked' \ ticked : e = i.email /\ i.key = KeyOf(mail, e)
  BY <1>1
<1>6. \A e \in ticked' \ ticked : Has(KeyOf(mail, e), "checked")'
  BY <1>1, <1>2, <1>5 DEF Has
<1>7. ticked' \subseteq DOMAIN mail
  BY <1>1, <1>3 DEF FeedInv, FeedTyped
<1>8. QED BY <1>1, <1>2, <1>4, <1>6, <1>7, MarkMade

LEMMA UntickInv == ASSUME FeedInv, Untick PROVE FeedInv'
<1>1. PICK i \in Items(mail, link) :
        /\ marks' = marks \ {[key |-> i.key, mark |-> "checked"]}
        /\ faded' = faded \ {i.key}
        /\ ticked' = ticked \ {i.key.email}
  BY DEF Untick
<1>2. UNCHANGED mail
  BY DEF Untick, thread
<1>3. \A k, g : k # i.key /\ [key |-> k, mark |-> g] \in marks => [key |-> k, mark |-> g] \in marks'
  BY <1>1
<1>4. \A e \in ticked' : KeyOf(mail, e) # i.key
  BY <1>1, KeyFacts
<1>5. \A e \in ticked' : Has(KeyOf(mail, e), "checked")'
  BY <1>1, <1>2, <1>3, <1>4 DEF FeedInv, TicksKept, Has
<1>6. \A k \in faded' : Green(k)'
  BY <1>1, <1>3 DEF FeedInv, TicksKept, Green
<1>7. FeedTyped'
  BY <1>1, <1>2 DEF FeedInv, FeedTyped
<1>8. QED BY <1>2, <1>5, <1>6, <1>7 DEF FeedInv, TicksKept

LEMMA MarkNeedInv == ASSUME FeedInv, MarkNeed PROVE FeedInv'
<1>1. PICK e \in RowsOnCard(mail, link), k \in {"done", "agreed"} :
        LET key == KeyOf(mail, e) IN
        \/ marks' = marks \cup {[key |-> key, mark |-> k]} /\ UNCHANGED faded
        \/ marks' = marks \ {[key |-> key, mark |-> "done"]} /\ faded' = faded \ {key}
        \/ marks' = marks \ {[key |-> key, mark |-> "agreed"]} /\ UNCHANGED faded
  BY DEF MarkNeed
<1>2. UNCHANGED <<mail, ticked>>
  BY DEF MarkNeed, thread
<1> DEFINE key == KeyOf(mail, e)
<1> HIDE DEF key
<1>3. FeedTyped'
  BY <1>1, <1>2 DEF FeedInv, FeedTyped
<1>4. \A o \in ticked : Has(KeyOf(mail, o), "checked")'
  BY <1>1, <1>2 DEF FeedInv, TicksKept, Has
<1>5. \A f \in faded' : Green(f)'
  BY <1>1, <1>2 DEF FeedInv, TicksKept, Green, GreenMark
<1>6. QED BY <1>2, <1>3, <1>4, <1>5 DEF FeedInv, TicksKept

LEMMA FadeInv == ASSUME FeedInv, Fade \/ WeeksPass PROVE FeedInv'
<1>1. UNCHANGED <<mail, marks, ticked>>
  BY DEF Fade, WeeksPass, thread
<1>2. \A x \in marks : x.mark \in GreenMark => Green(x.key)
  BY DEF FeedInv, FeedTyped, Green
<1>3. \A k \in faded' : Green(k)
  BY <1>2 DEF FeedInv, TicksKept, Fade, WeeksPass
<1>4. QED BY <1>1, <1>3 DEF FeedInv, FeedTyped, TicksKept, Has, Green

LEMMA FeedStep == FeedInv /\ [FeedNext]_feedVars => FeedInv'
<1> SUFFICES ASSUME FeedInv, [FeedNext]_feedVars PROVE FeedInv'
  OBVIOUS
<1>1. ASSUME UNCHANGED <<mail, marks, faded, ticked>> PROVE FeedInv'
  BY <1>1 DEF FeedInv, FeedTyped, TicksKept, Has, Green
<1>2. CASE LinkFound \/ SendReply \/ DayPasses \/ (\E e \in DOMAIN mail : TakeReplan(e)) \/ UNCHANGED feedVars
  BY <1>1, <1>2 DEF LinkFound, SendReply, DayPasses, TakeReplan, feedVars, thread
<1>3. CASE Dismiss
  <2>1. marks \subseteq marks' /\ \A x \in marks' : x = [key |-> x.key, mark |-> x.mark]
    BY <1>3 DEF Dismiss, FeedInv, FeedTyped
  <2>2. QED BY <1>3, <2>1, MarkMade DEF Dismiss, thread, FeedInv, FeedTyped
<1>4. QED
  BY <1>2, <1>3, DecidedInv, ExecuteInv, SaveReplanInv, RefreshInv, TickInv, UntickInv, MarkNeedInv, FadeInv DEF FeedNext

-----------------------------------------------------------------------------
\* A need that nothing has answered is on the card, and its item is its own.
LEMMA NeedOnCard ==
  ASSUME FeedInv, NEW e \in DOMAIN mail, NeedsWork(mail[e], link), \A l \in e + 1..Len(mail) : ~AnswersNeed(mail[l], mail[e])
  PROVE  /\ e \in RowsOnCard(mail, link)
         /\ ItemOf(mail, link, e) = {[email |-> e, key |-> KeyOf(mail, e), kind |-> KindNow(mail[e], link), at |-> e]}
<1>1. e \in RowsOnCard(mail, link)
  BY DEF RowsOnCard, OlderOpen
<1>2. KindNow(mail[e], link) \notin Check
  BY DEF NeedsWork, Need, Check
<1>3. Remembered(mail, link, e) = {}
  BY <1>2 DEF Remembered
<1>4. QED BY <1>1, <1>3 DEF ItemOf

LEMMA FeedImplies == FeedInv => NeedKept /\ TickHolds
<1> SUFFICES ASSUME FeedInv PROVE NeedKept /\ TickHolds
  OBVIOUS
<1>1. NeedKept
  <2> SUFFICES ASSUME NEW e \in DOMAIN mail, NeedsWork(mail[e], link), \A l \in e + 1..Len(mail) : ~AnswersNeed(mail[l], mail[e]),
                      ~Cleared(e), ~TimeIsUp(e)
               PROVE  \E i \in OpenNeeds(Items(mail, link)) : i.email = e
    BY DEF NeedKept
  <2> DEFINE i == [email |-> e, key |-> KeyOf(mail, e), kind |-> KindNow(mail[e], link), at |-> e]
  <2>1. e \in RowsOnCard(mail, link) /\ i \in ItemOf(mail, link, e)
    BY NeedOnCard
  <2>2. i.email = e /\ i.key = KeyOf(mail, e) /\ i.kind = KindNow(mail[e], link) /\ i.at = e
    OBVIOUS
  <2> HIDE DEF i
  <2>3. ~Green(i.key) /\ ~Has(i.key, "agreed") /\ ~Dismissed
    BY <2>2 DEF Cleared
  <2>4. i.key \notin faded
    BY <2>3 DEF FeedInv, TicksKept
  <2>5. i.kind \in Need /\ i.kind # "needs-reply"
    BY <2>2 DEF NeedsWork, Need
  <2>6. ~Over(mail[e].read.day) /\ ~(mail[e].read.day = 0 /\ i.at <= old)
    BY <2>2 DEF TimeIsUp
  <2>7. i \in UNION {ItemOf(mail, link, o) : o \in {r \in RowsOnCard(mail, link) : ~Over(mail[r].read.day)}}
    BY <2>1, <2>6
  <2>8. i \in Items(mail, link)
    BY <2>2, <2>3, <2>4, <2>5, <2>6, <2>7 DEF Items
  <2>9. QED BY <2>2, <2>3, <2>5, <2>8 DEF OpenNeeds
<1>2. TickHolds
  <2> SUFFICES ASSUME NEW i \in OpenNeeds(Items(mail, link)), i.key.email \in ticked PROVE FALSE
    BY DEF TickHolds
  <2>1. i \in Items(mail, link) /\ ~Green(i.key)
    BY DEF OpenNeeds
  <2>2. i.key = KeyOf(mail, i.email) /\ i.key.email = i.email
    BY <2>1, ItemForms, KeyFacts
  <2>3. Has(i.key, "checked")
    BY <2>2 DEF FeedInv, TicksKept
  <2>4. QED BY <2>1, <2>3 DEF Has, Green, GreenMark
<1>3. QED BY <1>1, <1>2

LEMMA FeedAlways == FeedSpec => []FeedInv
BY FeedStart, FeedStep, PTL DEF FeedSpec

\* A need that neither a person, nor staff's work, nor a later email has dealt with is on the TV, whatever came on the thread after it
\* (project.ts's items, feed/v2.ts's olderOpen).
THEOREM NeedStaysShown == FeedSpec => []NeedKept
BY FeedAlways, FeedImplies, PTL

\* A need a person ticked, and the bot has not written on since, is not put on the TV again, however its email is planned again or
\* linked, so long as no re-plan reads the email as asking for another thing: that moves the key (feed/v2.ts's key of the first
\* decision).
THEOREM TickStays == FeedSpec => []TickHolds
BY FeedAlways, FeedImplies, PTL

-----------------------------------------------------------------------------
(* The feed's types. *)

FeedKey == [email : Nat, kind : FeedKind, made : BOOLEAN]
OpenMark == [key : FeedKey, at : Nat]

\* What the TV remembers is of emails that came, and each need once.
InRange ==
  /\ planning \in 0..Len(mail) /\ out \in 0..Len(mail) /\ old \in 0..Len(mail) /\ today \in 1..LastDay
  /\ opened \in Seq(OpenMark)
  /\ \A k \in 1..Len(opened) : opened[k].at <= Len(mail)
  /\ \A j, k \in 1..Len(opened) : opened[j].key = opened[k].key => j = k

FeedRange == FeedInv /\ InRange

LEMMA KeyIsKey ==
  ASSUME FeedInv, NEW e \in DOMAIN mail
  PROVE  KeyOf(mail, e) \in FeedKey /\ KindNow(mail[e], link) \in FeedKind /\ KeyOf(mail, e).email = e
<1>1. mail[e] \in MailRow /\ e \in Nat
  BY DEF FeedInv, FeedTyped
<1>2. \A d, read, linked, written : Classify(d, read, linked, written) \in FeedKind
  BY DEF Classify, FeedKind
<1>3. KindNow(mail[e], link) \in FeedKind
  BY <1>2 DEF KindNow, FeedKind
<1>4. KeyOf(mail, e) \in FeedKey /\ KeyOf(mail, e).email = e
  BY <1>1, <1>2 DEF KeyOf, FeedKey, MailRow
<1>5. QED BY <1>3, <1>4

\* What is newly open is each its email's own key.
LEMMA NewlyOpenAre ==
  ASSUME FeedInv
  PROVE  /\ IsFiniteSet(NewlyOpen) /\ NewlyOpen \subseteq FeedKey
         /\ \A k \in 1..Len(opened) : opened[k].key \notin NewlyOpen \/ opened \notin Seq(OpenMark)
<1> DEFINE keys == {KeyOf(mail, e) : e \in DOMAIN mail}
<1>1. DOMAIN mail = 1..Len(mail) /\ Len(mail) \in Nat
  BY DEF FeedInv, FeedTyped
<1>2. IsFiniteSet(keys)
  <2> DEFINE f == [e \in DOMAIN mail |-> KeyOf(mail, e)]
  <2>1. f \in Surjection(DOMAIN mail, keys)
    BY DEF Surjection
  <2>2. IsFiniteSet(DOMAIN mail)
    BY <1>1, FS_Interval
  <2>3. QED BY <2>1, <2>2, FS_Surjection
<1>3. \A i \in OpenNeeds(Items(mail, link)) : i.key \in keys
  <2> SUFFICES ASSUME NEW i \in OpenNeeds(Items(mail, link)) PROVE i.key \in keys
    OBVIOUS
  <2>1. i \in Items(mail, link) /\ ~Green(i.key)
    BY DEF OpenNeeds
  <2>2. QED BY <2>1, ItemForms
<1>4. NewlyOpen \subseteq keys
  BY <1>3 DEF NewlyOpen
<1>5. keys \subseteq FeedKey
  BY KeyIsKey
<1>6. \A k \in DOMAIN opened : opened[k].key \notin NewlyOpen
  BY DEF NewlyOpen
<1>7. QED BY <1>2, <1>4, <1>5, <1>6, FS_Subset

LEMMA RangeStart == FeedInit => InRange
BY FeedAssumption DEF FeedInit, InRange

LEMMA RangeMoves ==
  ASSUME InRange, Len(mail) \in Nat, Len(mail') \in Nat, Len(mail) <= Len(mail'), UNCHANGED opened,
         planning' \in 0..Len(mail'), out' \in 0..Len(mail'), old' \in 0..Len(mail'), today' \in 1..LastDay
  PROVE  InRange'
<1>1. \A k \in 1..Len(opened) : opened[k].at \in Nat
  <2>1. \A k \in 1..Len(opened) : opened[k] \in OpenMark
    BY DEF InRange
  <2>2. QED BY <2>1 DEF OpenMark
<1>2. \A k \in 1..Len(opened) : opened[k].at <= Len(mail)
  BY DEF InRange
<1>3. \A k \in 1..Len(opened) : opened[k].at <= Len(mail')
  BY <1>1, <1>2
<1>4. \A k \in 1..Len(opened') : opened'[k].at <= Len(mail')
  BY <1>3
<1>5. QED BY <1>4 DEF InRange

LEMMA RefreshRange == ASSUME FeedRange, Refresh PROVE InRange'
<1> USE DEF FeedRange
<1>0. Len(mail) \in Nat /\ opened \in Seq(OpenMark) /\ UNCHANGED <<mail, planning, out, old, today>>
  BY DEF InRange, Refresh, thread, clock, FeedInv, FeedTyped
<1>1. PICK keys \in NewestFirst(NewlyOpen) : opened' = opened \o [k \in DOMAIN keys |-> [key |-> keys[k], at |-> Len(mail)]]
  BY DEF Refresh
<1> DEFINE n == Cardinality(NewlyOpen)
<1>2. n \in Nat
  BY NewlyOpenAre, FS_CardinalityType
<1> HIDE DEF n
<1>3. /\ keys \in [1..n -> NewlyOpen]
      /\ \A i, j \in 1..n : i < j => keys[i].email > keys[j].email
  BY DEF NewestFirst, n
<1> DEFINE more == [k \in DOMAIN keys |-> [key |-> keys[k], at |-> Len(mail)]]
<1>4. \A k \in 1..n : keys[k] \in FeedKey /\ keys[k] \in NewlyOpen
  BY <1>3, NewlyOpenAre
<1>5. \A i, j \in 1..n : keys[i] = keys[j] => i = j
  <2> SUFFICES ASSUME NEW i \in 1..n, NEW j \in 1..n, keys[i] = keys[j], i < j PROVE FALSE
    BY <1>2
  <2>1. keys[i].email \in Nat /\ keys[i].email > keys[j].email
    BY <1>3, <1>4 DEF FeedKey
  <2>2. QED BY <2>1
<1>6. /\ more \in Seq(OpenMark) /\ Len(more) = n
      /\ \A k \in 1..n : more[k].key = keys[k] /\ more[k].at = Len(mail)
  BY <1>0, <1>2, <1>3, <1>4 DEF OpenMark
<1> HIDE DEF more
<1>7. opened' = opened \o more
  BY <1>1 DEF more
<1> DEFINE m == Len(opened)
<1>8. /\ opened' \in Seq(OpenMark) /\ Len(opened') = m + n /\ m \in Nat
      /\ \A k \in 1..m : opened'[k] = opened[k]
      /\ \A k \in 1..n : opened'[m + k] = more[k]
  BY <1>0, <1>2, <1>6, <1>7
<1>9. \A k \in 1..m + n : k \in 1..m \/ (k - m \in 1..n /\ opened'[k] = more[k - m])
  <2> SUFFICES ASSUME NEW k \in 1..m + n, k \notin 1..m PROVE k - m \in 1..n /\ opened'[k] = more[k - m]
    OBVIOUS
  <2>1. k - m \in 1..n /\ m + (k - m) = k
    BY <1>2, <1>8
  <2>2. opened'[m + (k - m)] = more[k - m]
    BY <1>8, <2>1
  <2>3. QED BY <2>1, <2>2
<1> HIDE DEF m
<1>10. \A k \in 1..m : opened[k].at <= Len(mail) /\ opened[k].key \notin NewlyOpen
  BY <1>0, NewlyOpenAre DEF InRange, m
<1>11. \A k \in 1..Len(opened') : opened'[k].at <= Len(mail)
  BY <1>0, <1>6, <1>8, <1>9, <1>10
<1>12. \A j, k \in 1..m : opened[j].key = opened[k].key => j = k
  BY DEF InRange, m
<1>13. \A k \in 1..m + n : \/ k \in 1..m /\ opened'[k].key = opened[k].key
                           \/ k - m \in 1..n /\ opened'[k].key = keys[k - m]
  <2> TAKE k \in 1..m + n
  <2>1. CASE k \in 1..m
    <3>1. opened'[k] = opened[k]
      BY <1>8, <2>1
    <3>2. QED BY <2>1, <3>1
  <2>2. CASE k - m \in 1..n /\ opened'[k] = more[k - m]
    <3>1. opened'[k].key = keys[k - m]
      BY <1>6, <2>2
    <3>2. QED BY <2>2, <3>1
  <2>3. QED BY <1>9, <2>1, <2>2
<1>14. \A j, k \in 1..m + n : opened'[j].key = opened'[k].key => j = k
  <2> SUFFICES ASSUME NEW j \in 1..m + n, NEW k \in 1..m + n, opened'[j].key = opened'[k].key PROVE j = k
    OBVIOUS
  <2>1. CASE j \in 1..m /\ k \in 1..m
    BY <1>8, <1>12, <2>1
  <2>2. CASE j - m \in 1..n /\ opened'[j].key = keys[j - m] /\ k - m \in 1..n /\ opened'[k].key = keys[k - m]
    <3>1. j - m = k - m
      BY <1>5, <2>2
    <3>2. QED BY <1>8, <1>2, <3>1
  <2>3. CASE j \in 1..m /\ k - m \in 1..n /\ opened'[k].key = keys[k - m]
    BY <1>4, <1>8, <1>10, <2>3
  <2>4. CASE k \in 1..m /\ j - m \in 1..n /\ opened'[j].key = keys[j - m]
    BY <1>4, <1>8, <1>10, <2>4
  <2>5. QED BY <1>13, <2>1, <2>2, <2>3, <2>4
<1>15. QED BY <1>0, <1>8, <1>11, <1>14 DEF InRange

LEMMA RangeStep == FeedRange /\ [FeedNext]_feedVars => InRange'
<1> SUFFICES ASSUME FeedRange, [FeedNext]_feedVars PROVE InRange'
  OBVIOUS
<1>1. InRange /\ mail \in Seq(MailRow) /\ Len(mail) \in Nat
  BY DEF FeedRange, FeedInv, FeedTyped
<1> USE DEF thread, clock
<1>2. ASSUME UNCHANGED <<mail, planning, out, old, today, opened>> PROVE InRange'
  BY <1>1, <1>2, RangeMoves DEF InRange
<1>3. CASE Decided
  <2>1. Len(mail') = Len(mail) + 1
    BY <1>1, <1>3 DEF Decided
  <2>2. UNCHANGED <<planning, out, old, today, opened>>
    BY <1>3 DEF Decided
  <2>3. planning \in 0..Len(mail') /\ out \in 0..Len(mail') /\ old \in 0..Len(mail') /\ today \in 1..LastDay
    BY <1>1, <2>1 DEF InRange
  <2>4. QED BY <1>1, <2>1, <2>2, <2>3, RangeMoves
<1>4. ASSUME NEW e \in DOMAIN mail, Execute(e) \/ TakeReplan(e) \/ SaveReplan(e) PROVE InRange'
  <2>1. DOMAIN mail = 1..Len(mail) /\ e \in 0..Len(mail)
    BY <1>1
  <2>2. Len(mail') = Len(mail)
    <3>1. CASE Execute(e)
      <4>1. PICK x : mail' = [mail EXCEPT ![e].executed = x]
        BY <3>1 DEF Execute
      <4>2. QED BY <1>1, <4>1
    <3>2. CASE TakeReplan(e)
      BY <3>2 DEF TakeReplan
    <3>3. CASE SaveReplan(e)
      <4>1. PICK x : mail' = [mail EXCEPT ![e] = x]
        BY <3>3 DEF SaveReplan
      <4>2. QED BY <1>1, <4>1
    <3>4. QED BY <1>4, <3>1, <3>2, <3>3
  <2>3. planning' \in 0..Len(mail) /\ UNCHANGED <<out, old, today, opened>>
    <3>1. planning' \in {planning, 0, e} /\ UNCHANGED <<out, old, today, opened>>
      BY <1>4 DEF Execute, TakeReplan, SaveReplan
    <3>2. QED BY <1>1, <2>1, <3>1 DEF InRange
  <2>4. QED BY <1>1, <2>2, <2>3, RangeMoves DEF InRange
<1>5. CASE SendReply \/ DayPasses \/ WeeksPass
  <2>1. UNCHANGED <<mail, planning, opened>>
    BY <1>5 DEF SendReply, DayPasses, WeeksPass
  <2>2. out' \in 0..Len(mail) /\ old' \in 0..Len(mail)
    BY <1>1, <1>5 DEF SendReply, DayPasses, WeeksPass, InRange
  <2>3. today' \in 1..LastDay
    BY <1>1, <1>5, FeedAssumption DEF SendReply, DayPasses, WeeksPass, InRange
  <2>4. QED BY <1>1, <2>1, <2>2, <2>3, RangeMoves DEF InRange
<1>6. CASE LinkFound \/ Fade \/ Tick \/ Untick \/ Dismiss \/ MarkNeed \/ UNCHANGED feedVars
  BY <1>2, <1>6 DEF LinkFound, Fade, Tick, Untick, Dismiss, MarkNeed, feedVars
<1>7. QED BY <1>3, <1>4, <1>5, <1>6, RefreshRange DEF FeedNext

LEMMA RangeAlways == FeedSpec => []FeedRange
<1>1. FeedInit => FeedRange
  BY FeedStart, RangeStart DEF FeedRange
<1>2. FeedRange /\ [FeedNext]_feedVars => FeedRange'
  BY FeedStep, RangeStep DEF FeedRange
<1>3. QED BY <1>1, <1>2, PTL DEF FeedSpec

\* The thread's rows, the marks the TV keeps and the items it lists are of the
\* kinds the feed has, and no need is remembered twice as it was first seen.
THEOREM FeedTypeCorrect == FeedSpec => []FeedTypeOK
<1>1. FeedRange => FeedTypeOK
  <2> SUFFICES ASSUME FeedRange PROVE FeedTypeOK
    OBVIOUS
  <2>1. FeedInv /\ InRange
    BY DEF FeedRange
  <2>2. \A e \in DOMAIN mail : /\ mail[e].executed \in {"none", "some", "all"} /\ mail[e].replan \in Replans
                              /\ mail[e].read \in [asks : BOOLEAN, day : Nat]
    <3>1. \A e \in DOMAIN mail : mail[e] \in MailRow
      BY <2>1 DEF FeedInv, FeedTyped
    <3>2. QED BY <3>1 DEF MailRow
  <2>3. DOMAIN opened = 1..Len(opened) /\ \A k \in 1..Len(opened) : opened[k] \in OpenMark
    BY <2>1 DEF InRange
  <2>4. \A k \in 1..Len(opened) : opened[k].key.kind \in FeedKind /\ opened[k].at \in 0..Len(mail)
    <3>1. \A k \in 1..Len(opened) : opened[k].key \in FeedKey /\ opened[k].at \in Nat
      BY <2>3 DEF OpenMark
    <3>2. \A k \in 1..Len(opened) : opened[k].at \in 0..Len(mail)
      BY <2>1, <3>1 DEF InRange, FeedInv, FeedTyped
    <3>3. QED BY <3>1, <3>2 DEF FeedKey
  <2>5. IsInjective([k \in DOMAIN opened |-> opened[k].key])
    BY <2>1, <2>3 DEF IsInjective, InRange
  <2>6. \A i \in Items(mail, link) : i.kind \in FeedKind
    <3> SUFFICES ASSUME NEW i \in Items(mail, link) PROVE i.kind \in FeedKind
      OBVIOUS
    <3>1. PICK e \in RowsOnCard(mail, link) : i \in ItemOf(mail, link, e)
      BY DEF Items
    <3>2. e \in DOMAIN mail
      BY <3>1, OnCard
    <3>3. CASE i = [email |-> e, key |-> KeyOf(mail, e), kind |-> KindNow(mail[e], link), at |-> e]
      <4>1. i.kind = KindNow(mail[e], link)
        BY <3>3
      <4>2. QED BY <2>1, <3>2, <4>1, KeyIsKey
    <3>4. CASE \E w \in Remembered(mail, link, e) : i = [email |-> e, key |-> w.key, kind |-> w.key.kind, at |-> w.at]
      <4>1. PICK w \in Remembered(mail, link, e) : i = [email |-> e, key |-> w.key, kind |-> w.key.kind, at |-> w.at]
        BY <3>4
      <4>2. w = opened[Len(opened)] /\ opened # <<>>
        BY DEF Remembered, Last
      <4>3. Len(opened) \in 1..Len(opened)
        BY <2>1, <4>2 DEF InRange
      <4>4. w.key.kind \in FeedKind /\ i.kind = w.key.kind
        BY <2>4, <4>1, <4>2, <4>3
      <4>5. QED BY <4>4
    <3>5. QED BY <3>1, <3>3, <3>4 DEF ItemOf
  <2>7. QED BY <2>1, <2>2, <2>3, <2>4, <2>5, <2>6 DEF FeedTypeOK, InRange, FeedInv, FeedTyped, TicksKept
<1>2. QED BY RangeAlways, <1>1, PTL

-----------------------------------------------------------------------------
(* The run. *)

\* A behaviour of MCSafety is, of each part, one of the part's own: emails
\* polled, planned, booked, copied, shown and waited on keep their types.
THEOREM SafetyTypes == Spec => []TypeOK
<1>1. Init => MailInit /\ PlannerInit /\ CreateInit /\ MirrorInit /\ FeedInit /\ TimeInit /\ FollowInit
  BY DEF Init
<1>2. [Next]_<<part, mailVars, plannerVars, createVars, mirrorVars, feedVars, timeVars, followVars>>
      => /\ [MailNext]_mailVars /\ [PlannerNext]_plannerVars /\ [CreateNext]_createVars /\ [MirrorNext]_mirrorVars
         /\ [FeedNext]_feedVars /\ [TimeNext]_timeVars /\ [FollowNext]_followVars
  BY DEF Next
<1>3. /\ MailTypeOK /\ PlannerTypeOK /\ CreateTypeOK /\ MirrorTypeOK /\ FeedTypeOK /\ TimeTypeOK /\ FollowTypeOK
      => TypeOK
  BY DEF TypeOK
<1>4. QED
  BY <1>1, <1>2, <1>3, MailTypeCorrect, TypesHold, CreateTypeCorrect, MirrorTypeCorrect, FeedTypeCorrect, TimeTypeCorrect,
     FollowTypeCorrect, PTL
  DEF Spec, MailSpec, PlannerSpec, CreateSpec, MirrorSpec, FeedSpec, TimeSpec, FollowSpec

=============================================================================
