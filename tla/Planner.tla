------------------------------- MODULE Planner -------------------------------
(***************************************************************************)
(* What the planner asks the bot to write for one email (interpret/plan.ts)*)
(* against the client's orders, the writes as they land, and the same      *)
(* email planned again.  Each request is planned against the orders as     *)
(* they stood when the email was planned; the operations go out one after  *)
(* the other; staff work in OnSinch before it is planned, and after.       *)
(*                                                                         *)
(* Hours are London's, whole, and a call that does not end after it begins *)
(* ends the next day.  The finder has found the order an email names; the  *)
(* email names one venue and the client's orders stand at it; a trade is   *)
(* one with a live profession.                                             *)
(***************************************************************************)
EXTENDS Integers, FiniteSets, Sequences, SequencesExt, FiniteSetsExt

CONSTANTS
    Emails,      \* what may be asked: [named, asks, near], near when a new order is within the lead days
    Books,       \* what the client's orders may hold: sets of positions
    StaffEdits   \* bound on what staff change meanwhile

Absent == -1
Action == {"new_shift", "change_times", "change_crew", "cancel_shift"}
Kind == {"chief", "crew", "trade"}

Shift == [order : Nat, team : Nat]
NoShift == [order |-> 0, team |-> 0]
Time == 0..23 \cup {Absent}
Ask == [action : Action, day : Nat, to : Nat \cup {Absent}, at : Time, start : Time, end : Time, length : Nat \cup {Absent},
        crew : Nat, more : Nat, fewer : Nat, set : BOOLEAN, chief : BOOLEAN, trade : BOOLEAN, shift : Shift]
Position == [id : Nat \ {0}, order : Nat \ {0}, team : Nat \ {0}, kind : Kind, size : Nat \ {0}, b : Nat, e : Nat]

(* A position is at least one person for some time, and one of its number. *)
WellFormed(ps) ==
    /\ IsFiniteSet(ps) /\ ps \subseteq Position
    /\ \A s, u \in ps : s.b < s.e /\ (s.id = u.id => s = u)

(* A new shift without a headcount is left to a person (interpret.ts:364), and hours it lacks are assumed before it is planned          *)
(* (assume.ts): here it has both.  A change is about the shift its day and start single out; the reader's own pick (shift_id) is left out. *)
ASSUME PlannerAssumption ==
    /\ StaffEdits \in Nat
    /\ \A ps \in Books : WellFormed(ps)
    /\ \A m \in Emails : /\ m.asks \in Seq(Ask) /\ m.near \in BOOLEAN
                          /\ \A i \in DOMAIN m.asks :
                               /\ m.asks[i].shift = NoShift
                               /\ m.asks[i].action = "new_shift" => Absent \notin {m.asks[i].start, m.asks[i].end} /\ m.asks[i].crew > 0

VARIABLES
    book,      \* the positions of the client's orders in OnSinch
    email,      \* the email
    touched,   \* the shifts staff made or changed since it was sent
    stage,     \* how far it is
    todo,      \* the operations still to write
    before,    \* what the orders held when it was planned
    edits

plannerVars == <<book, email, touched, stage, todo, before, edits>>

-----------------------------------------------------------------------------
(* Crews, windows, shifts. *)

ChiefsFor(total, asked) ==
    CASE total < 1 -> 0
      [] total \in 1..3 -> IF asked THEN 1 ELSE 0
      [] OTHER -> 1 + total \div 10

Window(day, start, end) == [b |-> 24 * day + start, e |-> 24 * day + end + IF end <= start THEN 24 ELSE 0]
HourOf(t) == t % 24
DayOf(t) == t \div 24

People(ps) == MapThenSumSet(LAMBDA p : p.size, ps)
InOrderBy(S, Before(_, _)) == CHOOSE f \in [1..Cardinality(S) -> S] : \A i, j \in DOMAIN f : i < j => Before(f[i], f[j])
First(ps) == CHOOSE p \in ps : \A q \in ps : p.id <= q.id
Teams(ps) == {[order |-> p.order, team |-> p.team] : p \in ps}
Of(ps, t) == {p \in ps : p.order = t.order /\ p.team = t.team}
OfKind(ps, kind) == {p \in ps : p.kind = kind}
Orders(ps) == {p.order : p \in ps}
OnOrder(ps, o) == IF o = 0 THEN ps ELSE {s \in ps : s.order = o}

-----------------------------------------------------------------------------
(* A plan while it is built; a person makes it once anything in it is refused. *)

NoPlan == [refused |-> FALSE, ops |-> <<>>, asked |-> {}, moved |-> {}]
Refused == [NoPlan EXCEPT !.refused = TRUE]
Do(p, op) == [p EXCEPT !.ops = Append(@, op)]
DoAll(p, ops) == [p EXCEPT !.ops = @ \o ops]

SetSize(s, n) == [kind |-> "size", slot |-> s.id, size |-> n]
SetTimes(s, w) == [kind |-> "times", slot |-> s.id, w |-> w]
CancelPosition(s) == [kind |-> "cancel", slot |-> s.id]
AddPosition(t, kind, n, w) == [kind |-> "add", at |-> t, position |-> [kind |-> kind, size |-> n], w |-> w]
AddShift(o, w, ps) == [kind |-> "shift", order |-> o, w |-> w, positions |-> ps]

(* targetShift: the shifts that day, then those at the start written, then the ones of the new length within two hours of it. *)
Candidates(ps, r) ==
    LET onDay == {t \in Teams(ps) : \E s \in Of(ps, t) : DayOf(s.b) = r.day}
        atStart == {t \in onDay : \E s \in Of(ps, t) : HourOf(s.b) = r.at}
        named == IF Cardinality(onDay) > 1 /\ r.at # Absent THEN atStart ELSE onDay
        apart(t) == {(HourOf(First(Of(ps, t)).b) - r.start) % 24, (r.start - HourOf(First(Of(ps, t)).b)) % 24}
        near == {t \in named : /\ (First(Of(ps, t)).e - First(Of(ps, t)).b) % 24 = (r.end - r.start) % 24
                               /\ Min(apart(t)) <= 2}
    IN
    IF Cardinality(named) > 1 /\ r.start # Absent /\ r.end # Absent /\ Cardinality(near) = 1 THEN near ELSE named

(* The hours a time change gives the positions it is for, as the first of them stands. *)
ChangedHours(first, day, r) ==
    LET start == CASE r.start # Absent -> r.start
                   [] r.start = Absent /\ r.end # Absent /\ r.length # Absent -> (r.end - r.length) % 24
                   [] OTHER -> HourOf(first.b)
        end == CASE r.end # Absent -> r.end
                 [] r.end = Absent /\ r.length # Absent -> (start + r.length) % 24
                 [] r.end = Absent /\ r.length = Absent /\ r.start # Absent -> (start + first.e - first.b) % 24
                 [] OTHER -> HourOf(first.e)
    IN Window(day, start, end)

ById(ps) == InOrderBy(ps, LAMBDA s, u : s.id < u.id)

(* A window whose end is its start has no length. *)
Move(p, t, late, w) ==
    IF w.e - w.b = 24 THEN Refused
    ELSE [DoAll(p, [i \in DOMAIN late |-> SetTimes(late[i], w)]) EXCEPT !.moved = @ \cup {[at |-> t, w |-> w]}]
MoveLate(p, t, slots, w) == Move(p, t, ById({s \in slots : s.b # w.b \/ s.e # w.e}), w)

ChangeTimesOf(p, slots, t, day, r) ==
    IF slots = {} \/ (r.crew # 0 /\ r.crew # People(slots)) THEN Refused
    ELSE MoveLate(p, t, slots, ChangedHours(First(slots), day, r))

(* A time for the chief or a trade moves only those positions. *)
ChangeTimes(p, ps, t, r) ==
    ChangeTimesOf(p, IF r.chief \/ r.trade THEN {s \in ps : (r.chief /\ s.kind = "chief") \/ (r.trade /\ s.kind = "trade")} ELSE ps,
                  t, IF r.to # Absent /\ r.to # r.day THEN r.to ELSE DayOf(First(ps).b), r)

(* Mutant: always the shift's own. *)
HoursForOld(p, ps, t) == [b |-> First(ps).b, e |-> First(ps).e]

(* What the position a crew change adds works: the times this email gives the shift, else the shift's. *)
HoursFor(p, ps, t) ==
    IF \E m \in p.moved : m.at = t THEN (CHOOSE m \in p.moved : m.at = t).w
    ELSE [b |-> First(ps).b, e |-> First(ps).e]

Total(r, now) == IF r.crew # 0 THEN r.crew ELSE now + r.more - r.fewer
Disagrees(r, now) == r.crew # 0 /\ ((r.more # 0 /\ r.crew # now + r.more) \/ (r.fewer # 0 /\ r.crew # now - r.fewer))

OtherHours(ps, r) ==
    LET s == HourOf(First(ps).b)
        e == HourOf(First(ps).e)
        start == IF r.start # Absent THEN r.start ELSE s
        end == IF r.end # Absent THEN r.end ELSE IF r.length # Absent THEN (start + r.length) % 24 ELSE e
    IN start # s \/ end # e

(* A trade's one position on the shift; more of it is a position of its own. *)
ChangeTradeOf(p, ps, t, r, held, now, total) ==
    IF r.more # 0 /\ r.crew = 0 /\ r.fewer = 0 THEN Do(p, AddPosition(t, "trade", r.more, HoursFor(p, ps, t)))
    ELSE IF Cardinality(held) > 1 \/ Disagrees(r, now) \/ total < 0 \/ (held = {} /\ total = 0) THEN Refused
    ELSE IF held = {} THEN Do(p, AddPosition(t, "trade", total, HoursFor(p, ps, t)))
    ELSE IF total = 0 THEN Do(p, CancelPosition(First(held)))
    ELSE IF total # now THEN Do(p, SetSize(First(held), total)) ELSE p

ChangeTrade(p, ps, t, r) ==
    LET held == OfKind(ps, "trade") IN ChangeTradeOf(p, ps, t, r, held, People(held), Total(r, People(held)))

Resize(p, s, n) == IF n < 1 THEN Refused ELSE IF n = s.size THEN p ELSE Do(p, SetSize(s, n))
Largest(ps) == CHOOSE s \in ps : \A u \in ps : u.size < s.size \/ (u.size = s.size /\ s.id <= u.id)

WithChiefs(p, ps, t, chiefs, want) ==
    IF want = People(chiefs) THEN p
    ELSE IF chiefs = {} THEN Do(p, AddPosition(t, "chief", want, HoursFor(p, ps, t)))
    ELSE IF want = 0 THEN Do(p, CancelPosition(First(chiefs)))
    ELSE Do(p, SetSize(First(chiefs), want))

(* The one chief position follows the rule, inside the number asked; several chiefs stay as they are. *)
ChangeCrewOf(p, ps, t, r, chiefs, crew, current, total, others) ==
    IF Disagrees(r, current) THEN Refused
    ELSE IF Cardinality(chiefs) > 1 THEN Resize(p, crew, crew.size + total - current)
    ELSE LET want == ChiefsFor(total + others, r.chief \/ (chiefs # {} /\ current + others < 4))
         IN Resize(WithChiefs(p, ps, t, chiefs, want), crew, total - want)

(* The largest crew position takes the change. *)
ChangeCrew(p, ps, t, r) ==
    IF OfKind(ps, "crew") = {} THEN Refused
    ELSE LET taken == OfKind(ps, "chief") \cup {Largest(OfKind(ps, "crew"))}
         IN ChangeCrewOf(p, ps, t, r, OfKind(ps, "chief"), Largest(OfKind(ps, "crew")),
                         People(taken), Total(r, People(taken)), People(ps \ taken))

ChangeShift(p, ps, t, r) ==
    CASE r.action = "change_times" -> ChangeTimes(p, ps, t, r)
      [] r.action = "cancel_shift" -> LET slots == ById(ps) IN DoAll(p, [i \in DOMAIN slots |-> CancelPosition(slots[i])])
      [] r.action = "change_crew" /\ OtherHours(ps, r) -> Refused
      [] r.action = "change_crew" /\ ~OtherHours(ps, r) -> IF r.trade THEN ChangeTrade(p, ps, t, r) ELSE ChangeCrew(p, ps, t, r)

ChangeAbout(ps, p, r, about) ==
    IF p.refused \/ Cardinality(about) # 1 \/ \E t \in about : <<t, r.action>> \in p.asked THEN Refused
    ELSE LET t == CHOOSE x \in about : TRUE IN ChangeShift([p EXCEPT !.asked = @ \cup {<<t, r.action>>}], Of(ps, t), t, r)

(* planChange: one change on the one shift it is about, and not the second of its kind there. *)
Change(ps, p, r) == ChangeAbout(ps, p, r, IF r.shift # NoShift THEN {r.shift} ELSE Candidates(ps, r))

(* A time change that also asks for people, or a new total, is two changes on that shift. *)
Split(r) ==
    IF r.action = "change_times" /\ (r.more # 0 \/ r.fewer # 0 \/ r.set)
    THEN <<[r EXCEPT !.crew = IF r.set THEN 0 ELSE @, !.more = 0, !.fewer = 0],
           [r EXCEPT !.action = "change_crew", !.start = Absent, !.end = Absent, !.length = Absent, !.crew = IF r.set THEN @ ELSE 0]>>
    ELSE <<r>>

Changes(ps, p, rs) == FoldLeft(LAMBDA q, r : Change(ps, q, r), p, rs)

(* Two writes of one kind on one position, or a write on one the same email cancels. *)
TwoOnOne(p) ==
    \E i, j \in {k \in DOMAIN p.ops : p.ops[k].kind \in {"size", "times", "cancel"}} :
        /\ i # j
        /\ p.ops[i].slot = p.ops[j].slot
        /\ p.ops[i].kind = p.ops[j].kind \/ p.ops[i].kind = "cancel"

-----------------------------------------------------------------------------
(* New shifts: one call for each day and window (windowsOf, shiftGroups). *)

WindowOf(r) == Window(r.day, r.start, r.end)
NewIn(m) == {i \in DOMAIN m.asks : m.asks[i].action = "new_shift"}
PeopleIn(m, is) == MapThenSumSet(LAMBDA i : m.asks[i].crew, is)
CallOf(m, w) ==
    LET of == {i \in NewIn(m) : WindowOf(m.asks[i]) = w}
        r == m.asks[Min(of)]
    IN [w |-> w, day |-> r.day, start |-> r.start, end |-> r.end,
        crew |-> PeopleIn(m, {i \in of : ~m.asks[i].trade}), trade |-> PeopleIn(m, {i \in of : m.asks[i].trade}),
        chief |-> \E i \in of : m.asks[i].chief]
Calls(m) == {CallOf(m, WindowOf(m.asks[i])) : i \in NewIn(m)}

(* Mutant: the chiefs come on top of the crew. *)
PositionsOnTop(c) ==
    {q \in {[kind |-> "chief", size |-> ChiefsFor(c.crew + c.trade, c.chief)], [kind |-> "crew", size |-> c.crew],
            [kind |-> "trade", size |-> c.trade]} : q.size > 0}

(* The chiefs come out of the plain crew, then out of the trade. *)
Positions(c) ==
    LET chiefs == ChiefsFor(c.crew + c.trade, c.chief)
        fromCrew == Min({chiefs, c.crew})
    IN
    {q \in {[kind |-> "chief", size |-> chiefs], [kind |-> "crew", size |-> c.crew - fromCrew],
            [kind |-> "trade", size |-> c.trade - (chiefs - fromCrew)]} : q.size > 0}

TooShort(c) == c.w.e - c.w.b < 2
NearStart(ps, c) == \E s \in ps : /\ DayOf(s.b) = c.day
                                  /\ HourOf(s.b) # c.start /\ HourOf(s.b) - c.start \in -1..1

(* Mutant: a call with a trade in it is never looked for. *)
BookedAtCrewOnly(ps, c, staff) ==
    IF c.trade > 0 \/ {s \in ps : s.b = c.w.b} = {} THEN [kind |-> "fresh", asks |-> <<>>] ELSE [kind |-> "held", asks |-> <<>>]

(* bookedAt: is the call on the order already, is it another shape of a shift there (the changes name it), or is nothing there? *)
Unheld == [kind |-> "fresh", asks |-> <<>>]
HeldWith(asks) == [kind |-> "held", asks |-> asks]
ForPerson == [kind |-> "person", asks |-> <<>>]

Reshape(c, t) == [action |-> "change_crew", day |-> c.day, to |-> Absent, at |-> c.start, start |-> Absent, end |-> Absent, length |-> Absent,
                  crew |-> 0, more |-> 0, fewer |-> 0, set |-> FALSE, chief |-> FALSE, trade |-> FALSE, shift |-> t]

BookedAs(c, at, staff) ==
    LET sameEnd == \A s \in at : s.e = c.w.e
        sameCrew == c.crew = People(at)
        shape == Reshape(c, CHOOSE t \in Teams(at) : TRUE)
    IN
    IF Teams(at) \cap staff # {} \/ (sameEnd /\ sameCrew) THEN HeldWith(<<>>)
    ELSE IF Cardinality(Teams(at)) > 1 THEN ForPerson
    ELSE HeldWith((IF sameCrew THEN <<>> ELSE <<[shape EXCEPT !.crew = c.crew, !.chief = c.chief]>>)
              \o (IF sameEnd THEN <<>> ELSE <<[shape EXCEPT !.action = "change_times", !.start = c.start, !.end = c.end]>>))

BookedAt(ps, c, staff) ==
    IF c.trade > 0 THEN IF \E s \in ps : s.b = c.w.b /\ s.e = c.w.e THEN HeldWith(<<>>) ELSE Unheld
    ELSE IF \A s \in ps : s.b # c.w.b THEN IF NearStart(ps, c) THEN ForPerson ELSE Unheld
    ELSE BookedAs(c, {s \in ps : s.b = c.w.b}, staff)

InOrder(cs) == InOrderBy(cs, LAMBDA c, d : c.w.b < d.w.b \/ (c.w.b = d.w.b /\ c.w.e < d.w.e))
AddShifts(p, o, cs) ==
    IF p.refused \/ \E c \in cs : TooShort(c) THEN Refused
    ELSE LET s == InOrder(cs) IN DoAll(p, [i \in DOMAIN s |-> AddShift(o, s[i].w, Positions(s[i]))])

(* The changes the calls already held come to. *)
Reshaped(ps, p, of) == FoldLeft(LAMBDA q, c : Changes(ps, q, of[c].asks), p, InOrder(DOMAIN of))
OfVerdict(of, kind) == {c \in DOMAIN of : of[c].kind = kind}

AddToNamedAs(p, ps, of) ==
    IF OfVerdict(of, "person") # {} THEN Refused
    ELSE AddShifts(Reshaped(ps, p, of), First(ps).order, OfVerdict(of, "fresh"))

(* addToNamed *)
AddToNamed(p, ps, m, staff) == AddToNamedAs(p, ps, [c \in Calls(m) |-> BookedAt(ps, c, staff)])

(* On the client's order that holds a shift then; several such orders only when each holds it as asked. *)
Hits(ps, c) == {s.order : s \in {u \in ps : u.b = c.w.b}}
VerdictOf(ps, c, each) ==
    IF DOMAIN each = {} THEN IF c.trade = 0 /\ NearStart(ps, c) THEN ForPerson ELSE Unheld
    ELSE IF Cardinality(DOMAIN each) > 1 /\ \E o \in DOMAIN each : each[o] # HeldWith(<<>>) THEN ForPerson
    ELSE each[Min(DOMAIN each)]
Verdict(ps, c, staff) == VerdictOf(ps, c, [o \in Hits(ps, c) |-> BookedAt(OnOrder(ps, o), c, staff)])

(* What is on no order yet goes on the one that holds the rest, or on a new one. *)
AddTheRest(p, ps, on, rest, near) ==
    IF rest = {} THEN p
    ELSE IF on # {} THEN IF Cardinality(on) = 1 THEN AddShifts(p, Min(on), rest) ELSE Refused
    ELSE IF near THEN Refused
    ELSE AddShifts(p, Max(Orders(ps) \cup {0}) + 1, rest)

BookNewAs(p, ps, of, near) ==
    IF OfVerdict(of, "person") # {} THEN Refused
    ELSE AddTheRest(Reshaped(ps, p, of), ps, {Min(Hits(ps, c)) : c \in OfVerdict(of, "held")}, OfVerdict(of, "fresh"), near)

(* bookNew *)
BookNew(p, ps, m, staff) == BookNewAs(p, ps, [c \in Calls(m) |-> Verdict(ps, c, staff)], m.near)

WithNews(p, ps, m, staff) ==
    IF p.refused \/ TwoOnOne(p) THEN Refused
    ELSE IF NewIn(m) = {} THEN p
    ELSE IF m.named # 0 THEN AddToNamed(p, OnOrder(ps, m.named), m, staff)
    ELSE BookNew(p, ps, m, staff)

(* decide: the changes, then the new shifts, on the order the email names or on the client's. *)
ChangesAsked(ps, p, rs) == FoldLeft(LAMBDA q, r : IF r.action = "new_shift" THEN q ELSE Changes(ps, q, Split(r)), p, rs)
Decide(ps, m, staff) == WithNews(ChangesAsked(OnOrder(ps, m.named), NoPlan, m.asks), ps, m, staff)

(* settle: planned again, a write on an order staff have worked on since is staff's. *)
Settle(p, ps, staff) ==
    LET orderOf(op) == CASE op.kind = "shift" -> op.order [] op.kind = "add" -> op.at.order
                         [] OTHER -> (CHOOSE s \in ps : s.id = op.slot).order
    IN IF \E i \in DOMAIN p.ops : \E t \in staff : t.order = orderOf(p.ops[i]) THEN [NoPlan EXCEPT !.asked = p.asked] ELSE p

-----------------------------------------------------------------------------
(* OnSinch, as the bot's operations leave it; a number it gave before is not given again. *)

NextId(ps) == Max({s.id : s \in ps} \cup {0}) + 1
NextTeam(ps) == Max({s.team : s \in ps} \cup {0}) + 1
Lands(was, ps, op) ==
    LET id == NextId(ps \cup was) IN
    CASE op.kind = "size" -> {IF s.id = op.slot THEN [s EXCEPT !.size = op.size] ELSE s : s \in ps}
      [] op.kind = "times" -> {IF s.id = op.slot THEN [s EXCEPT !.b = op.w.b, !.e = op.w.e] ELSE s : s \in ps}
      [] op.kind = "cancel" -> {s \in ps : s.id # op.slot}
      [] op.kind = "add" -> ps \cup {[id |-> id, order |-> op.at.order, team |-> op.at.team, kind |-> op.position.kind,
                                      size |-> op.position.size, b |-> op.w.b, e |-> op.w.e]}
      [] op.kind = "shift" ->
           LET row == SetToSeq(op.positions)
           IN ps \cup {[id |-> id + i, order |-> op.order, team |-> NextTeam(ps \cup was), kind |-> row[i].kind, size |-> row[i].size,
                        b |-> op.w.b, e |-> op.w.e] : i \in DOMAIN row}

(* The email asks new shifts only. *)
OnlyNew == NewIn(email) = DOMAIN email.asks

NoMail == [named |-> 0, asks |-> <<>>, near |-> FALSE]

Stage == {"none", "sent", "writing", "written", "nothing", "person", "same", "more"}

(* What an email of changes has still to write names positions that are there.  Not so the changes a new shift comes to: they are       *)
(* planned after TwoOnOne is asked (plan.ts:735-744), and may cancel a position and write on it.                                        *)
PlannerTypeOK ==
    /\ stage \in Stage /\ edits \in 0..StaffEdits
    /\ WellFormed(book)
    /\ NewIn(email) = {} => \A i \in DOMAIN todo : todo[i].kind \in {"size", "times", "cancel"} => \E s \in book : s.id = todo[i].slot

PlannerInit ==
    /\ book = {} /\ email = NoMail /\ touched = {} /\ before = {}
    /\ stage = "none" /\ todo = <<>> /\ edits = 0

Receive ==
    /\ stage = "none"
    /\ book' \in Books /\ email' \in Emails
    /\ email'.named \in Orders(book') \cup {0}
    /\ stage' = "sent"
    /\ UNCHANGED <<touched, todo, before, edits>>

Plan ==
    /\ stage = "sent"
    /\ \E p \in {Decide(book, email, touched)} :
         /\ todo' = IF p.refused THEN <<>> ELSE p.ops
         /\ stage' = IF p.refused THEN "person" ELSE IF p.ops = <<>> THEN "nothing" ELSE "writing"
    /\ before' = book
    /\ UNCHANGED <<book, email, touched, edits>>

Write ==
    /\ stage = "writing"
    /\ book' = Lands(before, book, Head(todo))
    /\ todo' = Tail(todo)
    /\ stage' = IF todo' = <<>> THEN "written" ELSE "writing"
    /\ UNCHANGED <<email, touched, before, edits>>

PlanAgain ==
    /\ stage \in {"written", "nothing"}
    /\ \E p \in {Settle(Decide(book, email, touched), book, touched)} :
         /\ todo' = IF p.refused THEN <<>> ELSE p.ops
         /\ stage' = IF p.refused THEN "person" ELSE IF p.ops = <<>> THEN "same" ELSE "more"
    /\ UNCHANGED <<book, email, touched, before, edits>>

(* Staff put one more on a shift. *)
StaffEdit ==
    /\ stage \in {"sent", "nothing", "written"} /\ edits < StaffEdits
    /\ \E s \in OfKind(book, "crew") :
         /\ book' = (book \ {s}) \cup {[s EXCEPT !.size = @ + 1]}
         /\ touched' = touched \cup Teams({s})
    /\ edits' = edits + 1
    /\ UNCHANGED <<email, stage, todo, before>>

PlannerNext == Receive \/ Plan \/ Write \/ PlanAgain \/ StaffEdit

PlannerSpec == PlannerInit /\ [][PlannerNext]_plannerVars

-----------------------------------------------------------------------------
(* Two calls of one email that start together are planned as the one shift that starts then: what becomes of them is not said here. *)
StartApart == \A c, d \in Calls(email) : c.w.b = d.w.b => c = d

(* One order has the people of a call of plain crew, a trade's seats counted (bookedAt) or not (a crew change), among those of `over`;   *)
(* a call with a trade is held by any shift there.                                                                                       *)
HasPeople(c, over) ==
    \E o \in Orders(over) :
        LET on == {s \in over : s.order = o} IN c.trade = 0 => c.crew \in {People(on), People(on \ OfKind(on, "trade"))}

(* "So the people who turn up are the number the client asked for" (plan.ts:343-344), for a call booked afresh and for one the order      *)
(* already holds in another shape: once the operations of an email of new calls are in, and staff have changed nothing, each call has    *)
(* exactly its people at its start on one order.                                                                                         *)
PeopleAsAsked ==
    stage = "written" /\ touched = {} /\ OnlyNew /\ StartApart =>
        \A c \in Calls(email) : HasPeople(c, {s \in book : s.b = c.w.b})

(* "A chief added beside a time change in the same email works the new times, not the old" (plan.ts:905): and all of them are there over *)
(* the whole of the call.                                                                                                                *)
AsAsked ==
    stage = "written" /\ touched = {} /\ OnlyNew /\ StartApart =>
        \A c \in Calls(email) : HasPeople(c, {s \in book : s.b = c.w.b /\ s.e = c.w.e})

(* A call that gives a held shift both a new count and a new finish: AsAsked is what goes wrong with it. *)
BothChange(c) ==
    \E o \in Orders(before) :
        LET at == {s \in before : s.order = o /\ s.b = c.w.b} IN People(at) # c.crew /\ \E s \in at : s.e # c.w.e

(* "A shift the order already holds on that day at that start is the client restating the booking or changing it, never a second one"    *)
(* (plan.ts:931-932): an email of new calls planned again once they are in writes nothing, whatever staff changed meanwhile.             *)
RestatedIsNothing ==
    stage = "more" => ~OnlyNew \/ ~StartApart \/ \E c \in Calls(email) : BothChange(c)

(* "4 or more on a shift carry a Crew Chief, 10+ two ... inside the headcount" (plan.ts:60-66), and a position a change adds "takes the  *)
(* new times" (plan.ts:722): after one change of plain crew and times on a shift of one crew position and at most one chief position,    *)
(* however many writes it took, the people are the number asked, the chiefs the rule's, and no position stays behind at the old hours.   *)
CrewFollows ==
    stage = "written" /\ touched = {} /\ Len(email.asks) = 1 =>
        LET r == email.asks[1]
            t == CHOOSE x \in Candidates(OnOrder(before, email.named), r) : TRUE
            was == Of(before, t)
            is == Of(book, t)
            plain(ps) == People(OfKind(ps, "chief") \cup OfKind(ps, "crew"))
        IN
        r.action \in {"change_times", "change_crew"} /\ ~r.trade =>
            /\ plain(is) = IF r.crew # 0 /\ (r.action = "change_crew" \/ r.set) THEN r.crew ELSE plain(was) + r.more - r.fewer
            /\ (r.action = "change_crew" \/ r.more # 0 \/ r.fewer # 0 \/ r.set) /\ People(is) >= 4 =>
                   People(OfKind(is, "chief")) = 1 + People(is) \div 10
            /\ ~r.chief => Cardinality({<<s.b, s.e>> : s \in is}) = 1
=============================================================================
