--------------------------- MODULE MailPoll_proofs ---------------------------
(***************************************************************************)
(* Proofs about MailPoll, for any mailbox, any batch, any number of polls  *)
(* that overlap and any faults.  What is behind the cursor, and behind the *)
(* place each poll is to move it to, has been reached (Ahead); and each    *)
(* email that was handled and has no excuse is a failed insert's (Counted).*)
(***************************************************************************)
EXTENDS MailPoll, FiniteSetTheorems, WellFoundedInduction, TLAPS

PollState == [pc : PC, from : 0..N \cup {NoCursor}, ids : SUBSET Email, newest : BOOLEAN, next : 0..N,
              truncated : BOOLEAN, handled : SUBSET Email, polled : SUBSET (Email \ Own)]

FaultCounts == [stop : Nat, store : Nat, vanish : Nat, blank : Nat]

Typed ==
  /\ arrived \in 0..N /\ kept \in Nat /\ recent \in Nat /\ kept <= recent /\ recent <= arrived
  /\ cursor \in 0..N \cup {NoCursor}
  /\ gone \subseteq 1..arrived /\ seen \subseteq 1..arrived /\ stored \subseteq 1..arrived
  /\ held \subseteq 1..arrived /\ decided \subseteq (1..arrived) \ Own /\ missed \subseteq 1..arrived
  /\ paused \in BOOLEAN
  /\ faults \in FaultCounts
  /\ poll \in [Poll -> PollState]

\* An email a poll needs to read no more.
Reached == stored \cup gone \cup missed \cup seen

\* The place of a poll: what it took for new ends where the cursor is to go.
Place(p) ==
  LET l == poll[p] IN
  /\ l.ids \subseteq 1..arrived /\ l.handled \subseteq (1..arrived) \ l.ids /\ l.polled \subseteq 1..arrived
  /\ l.pc \in {"take", "mark"} => (l.ids = {} <=> l.pc = "mark")
  /\ l.handled # {} => l.pc \in {"take", "mark"}
  /\ l.pc = "fetch" => l.from # NoCursor /\ 1..l.from \subseteq Reached
  /\ l.pc = "profile" => l.from # NoCursor /\ 1..l.from \subseteq Reached \cup l.ids
  /\ l.pc = "unseen" => 1..l.next \subseteq Reached \cup l.ids
  /\ l.pc \in {"take", "mark"} /\ ~l.truncated => 1..l.next \subseteq Reached \cup l.ids \cup l.handled
  /\ l.pc = "move" => 1..l.next \subseteq Reached

Ahead == Covered \subseteq Reached /\ \A p \in Poll : Place(p)

\* Handled, and marked seen or about to be, and in no store though it was given and is for one.
Lost == (seen \cup UNION {poll[p].handled : p \in Poll}) \ Excused
Counted == Cardinality(Lost) <= faults.store

IInv == Typed /\ Ahead /\ Counted

-----------------------------------------------------------------------------
LEMMA LeastNumber ==
  ASSUME NEW S, S \subseteq Nat, S # {}
  PROVE  \E x \in S : \A y \in S : x <= y
<1> DEFINE R == OpToRel(<, Nat)
<1>1. IsWellFoundedOn(R, Nat)
  BY NatLessThanWellFounded
<1>2. \A x, y \in Nat : y < x => <<y, x>> \in R
  BY DEF OpToRel
<1> HIDE DEF R
<1>3. PICK x \in S : \A y \in S : ~ (<<y, x>> \in R)
  BY <1>1, WFMin
<1>4. \A y \in S : ~ (y < x)
  BY <1>2, <1>3
<1>5. \A y \in S : x <= y
  BY <1>4
<1>6. QED BY <1>3, <1>5

LEMMA GreatestNumber ==
  ASSUME NEW n \in Nat, NEW S, S \subseteq 1..n, S # {}
  PROVE  \E x \in S : \A y \in S : y <= x
<1> DEFINE T == {k \in Nat : n - k \in S}
<1>1. PICK x \in S : TRUE
  OBVIOUS
<1>2. n - x \in Nat /\ n - (n - x) = x
  OBVIOUS
<1>3. n - x \in T
  BY <1>2
<1>4. PICK t \in T : \A y \in T : t <= y
  BY <1>3, LeastNumber
<1>5. ASSUME NEW y \in S PROVE y <= n - t
  <2>1. n - y \in T /\ y \in Nat
    OBVIOUS
  <2>2. t <= n - y /\ t \in Nat
    BY <2>1, <1>4
  <2>3. QED BY <2>1, <2>2
<1>6. QED BY <1>4, <1>5

LEMMA Constants == N \in Nat \ {0} /\ Own \subseteq Email /\ NoCursor = -1
BY MailAssumption DEF NoCursor

\* The email a poll is at is one of those it has still to take.
LEMMA FirstIsOne ==
  ASSUME NEW l \in PollState, l.ids # {}
  PROVE  FirstOf(l) \in l.ids
<1>1. l.ids \subseteq 1..N /\ N \in Nat
  BY Constants DEF PollState, Email
<1>2. \E m \in l.ids : \A k \in l.ids \ {m} : Before(l, m, k)
  <2>1. CASE l.newest
    <3>1. PICK m \in l.ids : \A k \in l.ids : k <= m
      BY <1>1, GreatestNumber
    <3>2. \A k \in l.ids \ {m} : m > k
      BY <1>1, <3>1
    <3>3. QED BY <2>1, <3>2 DEF Before
  <2>2. CASE ~l.newest
    <3>1. PICK m \in l.ids : \A k \in l.ids : m <= k
      <4>1. l.ids \subseteq Nat
        BY <1>1
      <4>2. QED BY <4>1, LeastNumber
    <3>2. \A k \in l.ids \ {m} : m < k
      BY <1>1, <3>1
    <3>3. QED BY <2>2, <3>2 DEF Before
  <2>3. QED BY <2>1, <2>2
<1>3. QED BY <1>2 DEF FirstOf

LEMMA PollTypes ==
  ASSUME Typed, NEW p \in Poll
  PROVE  /\ poll[p] \in PollState /\ poll[p].pc \in PC /\ poll[p].from \in 0..N \cup {NoCursor}
         /\ poll[p].ids \subseteq Email /\ poll[p].newest \in BOOLEAN /\ poll[p].next \in 0..N
         /\ poll[p].truncated \in BOOLEAN /\ poll[p].handled \subseteq Email
         /\ poll[p].polled \subseteq Email \ Own
         /\ poll[p].next \in Nat /\ (poll[p].from # NoCursor => poll[p].from \in 0..N /\ poll[p].from \in Nat)
<1>1. poll[p] \in PollState
  BY DEF Typed
<1>2. QED BY <1>1, Constants DEF PollState

LEMMA IdleTyped == Idle \in PollState
BY Constants DEF Idle, PollState, PC

LEMMA InitInv == MailInit => IInv
<1> SUFFICES ASSUME MailInit PROVE IInv
  OBVIOUS
<1> USE DEF MailInit
<1>1. Typed
  BY Constants, IdleTyped DEF Typed, FaultCounts
<1>2. Covered = {}
  BY Constants DEF Covered
<1>3. \A p \in Poll : poll[p] = Idle
  OBVIOUS
<1>4. \A p \in Poll : Place(p)
  BY <1>3 DEF Place, Idle
<1>5. Lost = {}
  BY <1>3 DEF Lost, Idle
<1>6. Counted
  BY <1>5, FS_EmptySet DEF Counted
<1>7. QED BY <1>1, <1>2, <1>4, <1>6 DEF IInv, Ahead

-----------------------------------------------------------------------------
(* What every step leaves in its place.                                     *)

LEMMA ExcusedStay ==
  ASSUME stored \subseteq stored', missed \subseteq missed'
  PROVE  Excused \subseteq Excused'
BY DEF Excused, InStore, SameMail

LEMMA StoredAreExcused ==
  ASSUME NEW m \in Email, m \in stored \/ m \in Draft \/ m \in missed \/ \E k \in stored : SameMail(m, k)
  PROVE  m \in Excused
BY DEF Excused, InStore, SameMail

LEMMA LostFinite ==
  ASSUME Typed
  PROVE  IsFiniteSet(Lost) /\ Cardinality(Lost) \in Nat
<1>1. \A p \in Poll : poll[p].handled \subseteq 1..N
  BY PollTypes DEF Email
<1>2. seen \subseteq 1..N
  BY Constants DEF Typed
<1>3. Lost \subseteq 1..N
  BY <1>1, <1>2 DEF Lost
<1>4. IsFiniteSet(1..N)
  BY Constants, FS_Interval
<1>5. QED BY <1>3, <1>4, FS_Subset, FS_CardinalityType

LEMMA LostStays ==
  ASSUME Typed, Typed', Counted, Lost' \subseteq Lost, faults.store <= faults'.store
  PROVE  Counted'
<1>1. IsFiniteSet(Lost) /\ Cardinality(Lost) \in Nat
  BY LostFinite
<1>2. Cardinality(Lost') <= Cardinality(Lost) /\ Cardinality(Lost') \in Nat
  BY <1>1, FS_Subset, FS_CardinalityType
<1>3. faults.store \in Nat /\ faults'.store \in Nat
  BY DEF Typed, FaultCounts
<1>4. QED BY <1>1, <1>2, <1>3 DEF Counted

\* A failed insert loses its one email.
LEMMA OneMoreLost ==
  ASSUME Typed, Typed', Counted, NEW m, Lost' \subseteq Lost \cup {m}, faults.store + 1 <= faults'.store
  PROVE  Counted'
<1>1. IsFiniteSet(Lost) /\ Cardinality(Lost) \in Nat
  BY LostFinite
<1>2. IsFiniteSet(Lost \cup {m}) /\ Cardinality(Lost \cup {m}) <= Cardinality(Lost) + 1
      /\ Cardinality(Lost \cup {m}) \in Nat
  BY <1>1, FS_AddElement, FS_CardinalityType
<1>3. Cardinality(Lost') <= Cardinality(Lost \cup {m}) /\ Cardinality(Lost') \in Nat
  BY <1>2, FS_Subset, FS_CardinalityType
<1>4. faults.store \in Nat /\ faults'.store \in Nat
  BY DEF Typed, FaultCounts
<1>5. QED BY <1>1, <1>2, <1>3, <1>4 DEF Counted

\* What is reached stays so, and so every poll's place.
LEMMA PlaceStays ==
  ASSUME NEW p, Place(p), poll'[p] = poll[p], arrived \in Nat, arrived' \in Nat, arrived <= arrived', Reached \subseteq Reached'
  PROVE  Place(p)'
<1>1. 1..arrived \subseteq 1..arrived'
  OBVIOUS
<1>2. QED BY <1>1 DEF Place

\* A step of one poll.
LEMMA PollMoves ==
  ASSUME IInv, NEW p \in Poll, NEW l \in PollState, poll' = [poll EXCEPT ![p] = l], UNCHANGED <<gmail, paused>>,
         cursor' \in 0..N \cup {NoCursor}, Covered' \subseteq Reached',
         faults' \in FaultCounts,
         seen \subseteq seen', stored \subseteq stored', missed \subseteq missed',
         seen' \subseteq 1..arrived, stored' \subseteq 1..arrived, missed' \subseteq 1..arrived,
         held' \subseteq 1..arrived, decided' \subseteq (1..arrived) \ Own,
         Place(p)'
  PROVE  Typed' /\ Ahead'
<1>1. Typed /\ Ahead
  BY DEF IInv
<1>2. Typed'
  BY <1>1 DEF Typed, gmail
<1>3. Reached \subseteq Reached' /\ arrived' = arrived /\ arrived \in Nat
  BY <1>1, Constants DEF Typed, Reached, gmail
<1>4. ASSUME NEW q \in Poll PROVE Place(q)'
  <2>1. CASE q # p
    <3>1. poll'[q] = poll[q] /\ Place(q)
      BY <1>1, <2>1 DEF Typed, Ahead
    <3>2. QED BY <1>3, <3>1, PlaceStays
  <2>2. QED BY <2>1
<1>5. QED BY <1>2, <1>4 DEF Ahead

\* One that stores no less and loses nothing.
LEMMA QuietMoves ==
  ASSUME IInv, NEW p \in Poll, NEW l \in PollState, poll' = [poll EXCEPT ![p] = l], UNCHANGED <<gmail, paused>>,
         cursor' \in 0..N \cup {NoCursor}, Covered' \subseteq Reached',
         faults' \in FaultCounts, faults.store <= faults'.store,
         seen \subseteq seen', stored \subseteq stored', missed \subseteq missed',
         seen' \subseteq seen \cup poll[p].handled, stored' \subseteq 1..arrived, missed' \subseteq 1..arrived,
         held' \subseteq 1..arrived, decided' \subseteq (1..arrived) \ Own,
         l.handled \ Excused' \subseteq poll[p].handled,
         Place(p)'
  PROVE  IInv'
<1>1. Typed /\ Place(p) /\ Counted
  BY DEF IInv, Ahead
<1>2. seen' \subseteq 1..arrived
  BY <1>1 DEF Typed, Place
<1>3. Typed' /\ Ahead'
  BY <1>2, PollMoves
<1>4. Lost' \subseteq Lost
  <2>1. \A q \in Poll : poll'[q].handled \ Excused' \subseteq poll[q].handled
    BY <1>1 DEF Typed
  <2>2. Excused \subseteq Excused'
    BY ExcusedStay
  <2>3. seen' \subseteq seen \cup UNION {poll[q].handled : q \in Poll}
    OBVIOUS
  <2>4. QED BY <2>1, <2>2, <2>3 DEF Lost
<1>5. Counted'
  BY <1>1, <1>3, <1>4, LostStays
<1>6. QED BY <1>3, <1>5 DEF IInv

LEMMA FaultCounted ==
  ASSUME Typed, NEW kind \in {"stop", "store", "vanish", "blank"}, NEW bound, Goes(kind, bound)
  PROVE  /\ faults' \in FaultCounts /\ faults.store <= faults'.store
         /\ kind = "store" => faults'.store = faults.store + 1
<1>1. faults \in FaultCounts
  BY DEF Typed
<1>2. faults' = [faults EXCEPT ![kind] = @ + 1]
  BY DEF Goes
<1>3. CASE kind = "stop"
  BY <1>1, <1>2, <1>3 DEF FaultCounts
<1>4. CASE kind = "store"
  BY <1>1, <1>2, <1>4 DEF FaultCounts
<1>5. CASE kind \in {"vanish", "blank"}
  BY <1>1, <1>2, <1>5 DEF FaultCounts
<1>6. QED BY <1>3, <1>4, <1>5

-----------------------------------------------------------------------------
(* The mailbox and the sweep.                                               *)

\* A step of none of the polls, that moves no cursor.
LEMMA OthersMove ==
  ASSUME IInv, UNCHANGED <<cursor, seen, stored, poll>>, Typed', arrived <= arrived', gone \subseteq gone',
         missed \subseteq missed', faults.store <= faults'.store
  PROVE  IInv'
<1>1. Typed /\ Ahead /\ Counted /\ arrived \in Nat /\ arrived' \in Nat
  BY Constants DEF IInv, Typed
<1>2. Reached \subseteq Reached' /\ Covered' = Covered
  BY DEF Reached, Covered
<1>3. \A p \in Poll : Place(p)'
  BY <1>1, <1>2, PlaceStays DEF Ahead
<1>4. Ahead'
  BY <1>1, <1>2, <1>3 DEF Ahead
<1>5. Lost' \subseteq Lost
  BY ExcusedStay DEF Lost
<1>6. QED BY <1>1, <1>4, <1>5, LostStays DEF IInv

LEMMA ArriveInv == ASSUME IInv, Arrive PROVE IInv'
<1>1. Typed /\ arrived \in Nat /\ N \in Nat
  BY Constants DEF IInv, Typed
<1>2. 1..arrived \subseteq 1..arrived' /\ arrived' \in 0..N /\ arrived <= arrived' /\ recent <= arrived'
  BY <1>1 DEF Arrive, Typed
<1>3. Typed'
  BY <1>1, <1>2 DEF Arrive, Typed, mailTables
<1>4. faults.store <= faults'.store
  BY <1>1 DEF Arrive, Typed, FaultCounts
<1>5. QED BY <1>2, <1>3, <1>4, OthersMove DEF Arrive, mailTables

LEMMA VanishInv == ASSUME IInv, NEW m \in Email, Vanish(m) PROVE IInv'
<1>1. Typed /\ arrived \in Nat
  BY Constants DEF IInv, Typed
<1>2. faults' \in FaultCounts /\ faults.store <= faults'.store
  BY <1>1, FaultCounted DEF Vanish
<1>3. gone' \subseteq 1..arrived
  BY <1>1, Constants DEF Vanish, Typed, Email
<1>4. Typed'
  BY <1>1, <1>2, <1>3 DEF Vanish, Typed, mailTables
<1>5. arrived <= arrived' /\ gone \subseteq gone' /\ missed \subseteq missed' /\ UNCHANGED <<cursor, seen, stored, poll>>
  BY <1>1 DEF Vanish, mailTables
<1>6. QED BY <1>2, <1>4, <1>5, OthersMove

LEMMA DaysPassInv == ASSUME IInv, DaysPass PROVE IInv'
<1>1. Typed /\ arrived \in Nat /\ recent \in Nat /\ kept \in Nat
  BY Constants DEF IInv, Typed
<1>2. kept' \in Nat /\ recent' \in Nat /\ kept' <= recent' /\ recent' <= arrived
  <2>1. PICK r \in recent..arrived : \E k \in kept..r : kept' = k /\ recent' = r
    BY DEF DaysPass
  <2>2. QED BY <1>1, <2>1
<1>3. Typed'
  BY <1>1, <1>2 DEF DaysPass, Typed, mailTables
<1>4. arrived <= arrived' /\ gone \subseteq gone' /\ missed \subseteq missed' /\ UNCHANGED <<cursor, seen, stored, poll>>
      /\ faults.store <= faults'.store
  BY <1>1 DEF DaysPass, mailTables, Typed, FaultCounts
<1>5. QED BY <1>3, <1>4, OthersMove

LEMMA SweepInv == ASSUME IInv, SweepUndecided PROVE IInv'
<1>1. Typed /\ arrived \in Nat
  BY Constants DEF IInv, Typed
<1>2. Typed'
  BY <1>1 DEF SweepUndecided, Typed, gmail
<1>3. arrived <= arrived' /\ gone \subseteq gone' /\ missed \subseteq missed' /\ UNCHANGED <<cursor, seen, stored, poll>>
      /\ faults.store <= faults'.store
  BY <1>1 DEF SweepUndecided, gmail, Typed, FaultCounts
<1>4. QED BY <1>2, <1>3, OthersMove

-----------------------------------------------------------------------------
(* The steps of a poll that handle no email.                                *)

\* A poll that goes on with all the rest as it was, but for the cursor.
LEMMA PollGoes ==
  ASSUME IInv, NEW p \in Poll, NEW l \in PollState, poll' = [poll EXCEPT ![p] = l], UNCHANGED <<gmail, paused>>,
         UNCHANGED <<cursor, seen, stored, held, decided>>,
         faults' \in FaultCounts, faults.store <= faults'.store,
         missed \subseteq missed', missed' \subseteq 1..arrived,
         l.handled \subseteq poll[p].handled, Place(p)'
  PROVE  IInv'
<1>1. Typed /\ Covered \subseteq Reached
  BY DEF IInv, Ahead
<1>2. Covered' \subseteq Reached'
  BY <1>1 DEF Covered, Reached, gmail
<1>3. QED BY <1>1, <1>2, QuietMoves DEF Typed

\* A poll that ends, wherever it was.
LEMMA PollEnds ==
  ASSUME IInv, NEW p \in Poll, Set(p, Idle), UNCHANGED <<gmail, paused, missed>>, UNCHANGED mailTables,
         faults' \in FaultCounts, faults.store <= faults'.store
  PROVE  IInv'
<1>1. Typed
  BY DEF IInv
<1>2. poll'[p] = Idle
  BY <1>1 DEF Set, Typed
<1>3. Place(p)'
  BY <1>2 DEF Place, Idle
<1>4. missed' \subseteq 1..arrived
  BY <1>1 DEF Typed
<1>5. QED BY <1>3, <1>4, IdleTyped, PollGoes DEF Set, mailTables, Idle

LEMMA StopInv == ASSUME IInv, NEW p \in Poll, Stop(p) PROVE IInv'
<1>1. faults' \in FaultCounts /\ faults.store <= faults'.store
  BY FaultCounted DEF IInv, Stop
<1>2. QED BY <1>1, PollEnds DEF Stop

LEMMA StoreThrowsInv == ASSUME IInv, NEW p \in Poll, StoreThrows(p) PROVE IInv'
<1>1. faults' \in FaultCounts /\ faults.store <= faults'.store
  BY DEF IInv, Typed, FaultCounts, StoreThrows
<1>2. QED BY <1>1, PollEnds DEF StoreThrows

LEMMA ReadCursorInv == ASSUME IInv, NEW p \in Poll, ReadCursor(p) PROVE IInv'
<1> DEFINE l == [Idle EXCEPT !.pc = IF cursor = NoCursor THEN "list" ELSE "fetch", !.from = cursor]
<1>1. Typed /\ Covered \subseteq Reached
  BY DEF IInv, Ahead
<1>2. l \in PollState
  BY <1>1, IdleTyped DEF PollState, PC, Typed
<1>3. /\ l.pc = (IF cursor = NoCursor THEN "list" ELSE "fetch") /\ l.from = cursor
      /\ l.ids = {} /\ l.handled = {} /\ l.polled = {}
  BY DEF Idle
<1>4. poll' = [poll EXCEPT ![p] = l]
  BY DEF ReadCursor, Set
<1> HIDE DEF l
<1>5. poll'[p] = l
  BY <1>1, <1>4 DEF Typed
<1>6. cursor # NoCursor => 1..cursor \subseteq Reached
  BY <1>1 DEF Covered
<1>7. Reached' = Reached
  BY DEF Reached, ReadCursor, gmail, mailTables
<1>8. Place(p)'
  BY <1>3, <1>5, <1>6, <1>7 DEF Place
<1>9. l.handled \subseteq poll[p].handled /\ missed' \subseteq 1..arrived /\ missed \subseteq missed'
  BY <1>1, <1>3 DEF Typed, ReadCursor
<1>10. faults' \in FaultCounts /\ faults.store <= faults'.store
  BY <1>1 DEF Typed, FaultCounts, ReadCursor
<1>11. QED BY <1>2, <1>4, <1>8, <1>9, <1>10, PollGoes DEF ReadCursor, mailTables

LEMMA WalkHistoryInv == ASSUME IInv, NEW p \in Poll, WalkHistory(p) PROVE IInv'
<1> DEFINE was == poll[p]
           ids == {m \in (was.from + 1)..arrived : m <= was.from + WalkCap}
           l == IF was.from < kept
                THEN [was EXCEPT !.pc = "list"]
                ELSE [was EXCEPT !.pc = "unseen", !.from = NoCursor, !.next = arrived, !.ids = ids]
<1>1. Typed /\ Place(p) /\ was.pc = "fetch" /\ was \in PollState /\ arrived \in 0..N /\ arrived \in Nat
  BY Constants DEF IInv, Ahead, WalkHistory, Typed
<1>2. was.from \in Nat /\ 1..was.from \subseteq Reached /\ was.handled = {} /\ was.polled \subseteq 1..arrived
      /\ was.ids \subseteq 1..arrived
  BY <1>1, PollTypes DEF Place
<1>3. poll' = [poll EXCEPT ![p] = l]
  BY DEF WalkHistory, Set
<1>4. ids \subseteq (was.from + 1)..arrived /\ (was.from + 1)..arrived \subseteq 1..arrived /\ 1..arrived \subseteq Email
  BY <1>1, <1>2, Constants DEF Email
<1>5. /\ l \in PollState /\ l.handled = {} /\ l.polled = was.polled
      /\ \/ l.pc = "list" /\ l.ids = was.ids
         \/ was.from >= kept /\ l.pc = "unseen" /\ l.ids = ids /\ l.next = arrived
  <2>1. kept \in Nat
    BY <1>1 DEF Typed
  <2> HIDE DEF ids
  <2>2. CASE was.from < kept
    <3>1. l = [was EXCEPT !.pc = "list"]
      BY <2>2
    <3> HIDE DEF l
    <3>2. QED BY <1>1, <1>2, <3>1 DEF PollState, PC
  <2>3. CASE ~(was.from < kept)
    <3>1. l = [was EXCEPT !.pc = "unseen", !.from = NoCursor, !.next = arrived, !.ids = ids]
      BY <2>3
    <3> HIDE DEF l
    <3>2. ids \in SUBSET Email /\ NoCursor \in 0..N \cup {NoCursor} /\ "unseen" \in PC /\ arrived \in 0..N
      BY <1>1, <1>4 DEF PC
    <3>3. /\ l \in PollState /\ l.handled = was.handled /\ l.polled = was.polled
          /\ l.pc = "unseen" /\ l.ids = ids /\ l.next = arrived
      BY <1>1, <3>1, <3>2 DEF PollState
    <3>4. was.from >= kept
      BY <1>2, <2>1, <2>3
    <3>5. QED BY <1>2, <3>3, <3>4
  <2>4. QED BY <2>2, <2>3
<1>6. missed' = missed \/ missed' = missed \cup ((((was.from + 1)..arrived) \ ids) \ stored)
  BY DEF WalkHistory, GoPast
<1>7. was.from >= kept => missed' = missed \cup ((((was.from + 1)..arrived) \ ids) \ stored)
  BY <1>1, <1>2 DEF WalkHistory, GoPast, Typed
<1> HIDE DEF l, ids
<1>8. poll'[p] = l
  BY <1>1, <1>3 DEF Typed
<1>9. Reached \subseteq Reached' /\ arrived' = arrived /\ stored' = stored /\ missed \subseteq missed' /\ missed' \subseteq 1..arrived
  BY <1>1, <1>4, <1>6 DEF Reached, WalkHistory, gmail, mailTables, Typed
<1>10. Place(p)'
  <2>1. 1..arrived \subseteq 1..was.from \cup (was.from + 1)..arrived
    BY <1>1, <1>2
  <2>2. was.from >= kept => 1..arrived \subseteq Reached' \cup ids
    <3>1. was.from >= kept => (was.from + 1)..arrived \subseteq Reached' \cup ids
      BY <1>7, <1>9 DEF Reached
    <3>2. QED BY <1>2, <1>9, <2>1, <3>1
  <2>3. QED BY <1>2, <1>4, <1>5, <1>8, <1>9, <2>2 DEF Place
<1>11. l.handled \subseteq poll[p].handled
  BY <1>5
<1>12. faults' \in FaultCounts /\ faults.store <= faults'.store
  BY <1>1 DEF Typed, FaultCounts, WalkHistory
<1>13. QED BY <1>3, <1>5, <1>9, <1>10, <1>11, <1>12, PollGoes DEF WalkHistory, mailTables

LEMMA ReanchorListInv == ASSUME IInv, NEW p \in Poll, ReanchorList(p) PROVE IInv'
<1> DEFINE was == poll[p]
           l == [was EXCEPT !.pc = "profile", !.from = arrived, !.newest = TRUE, !.ids = Listed]
<1>1. Typed /\ Place(p) /\ was.pc = "list" /\ was \in PollState /\ arrived \in 0..N /\ arrived \in Nat /\ recent \in Nat
  BY Constants DEF IInv, Ahead, ReanchorList, Typed
<1>2. was.handled = {} /\ was.polled \subseteq 1..arrived
  BY <1>1 DEF Place
<1>3. poll' = [poll EXCEPT ![p] = l]
  BY DEF ReanchorList, Set
<1>4. Listed \subseteq 1..arrived /\ Listed \in SUBSET Email
  <2>1. Listed \subseteq (recent + 1)..arrived
    BY DEF Listed
  <2>2. QED BY <1>1, <2>1, Constants DEF Email
<1>5. l \in PollState /\ l.handled = {} /\ l.polled = was.polled /\ l.pc = "profile" /\ l.from = arrived /\ l.ids = Listed
  BY <1>1, <1>2, <1>4 DEF PollState, PC
<1> HIDE DEF l
<1>6. poll'[p] = l
  BY <1>1, <1>3 DEF Typed
<1>7. missed' = missed \cup (((1..arrived) \ (Listed \cup gone)) \ stored)
  BY DEF ReanchorList, GoPast
<1>8. /\ Reached \subseteq Reached' /\ UNCHANGED <<arrived, gone, stored, seen>>
      /\ missed \subseteq missed' /\ missed' \subseteq 1..arrived
  BY <1>1, <1>7 DEF Reached, ReanchorList, gmail, mailTables, Typed
<1>9. 1..arrived \subseteq Reached' \cup l.ids /\ l.ids \subseteq 1..arrived
  BY <1>4, <1>5, <1>7, <1>8 DEF Reached
<1>10. Place(p)'
  BY <1>1, <1>2, <1>5, <1>6, <1>8, <1>9, Constants DEF Place
<1>11. l.handled \subseteq poll[p].handled
  BY <1>5
<1>12. faults' \in FaultCounts /\ faults.store <= faults'.store
  BY <1>1 DEF Typed, FaultCounts, ReanchorList
<1>13. QED BY <1>3, <1>5, <1>8, <1>10, <1>11, <1>12, PollGoes DEF ReanchorList, mailTables

LEMMA ReanchorProfileInv == ASSUME IInv, NEW p \in Poll, ReanchorProfile(p) PROVE IInv'
<1> DEFINE was == poll[p]
           l == [was EXCEPT !.pc = "unseen", !.from = NoCursor, !.next = arrived]
<1>1. Typed /\ Place(p) /\ was.pc = "profile" /\ was \in PollState /\ arrived \in 0..N /\ arrived \in Nat
  BY Constants DEF IInv, Ahead, ReanchorProfile, Typed
<1>2. /\ was.from \in Nat /\ 1..was.from \subseteq Reached \cup was.ids /\ was.handled = {}
      /\ was.polled \subseteq 1..arrived /\ was.ids \subseteq 1..arrived
  BY <1>1, PollTypes DEF Place
<1>3. poll' = [poll EXCEPT ![p] = l]
  BY DEF ReanchorProfile, Set
<1>4. l \in PollState /\ l.handled = {} /\ l.polled = was.polled /\ l.pc = "unseen" /\ l.next = arrived /\ l.ids = was.ids
  BY <1>1, <1>2 DEF PollState, PC
<1> HIDE DEF l
<1>5. poll'[p] = l
  BY <1>1, <1>3 DEF Typed
<1>6. Reached' = Reached \cup (((was.from + 1)..arrived) \ stored) /\ arrived' = arrived
  BY DEF Reached, GoPast, ReanchorProfile, gmail, mailTables
<1>7. 1..arrived \subseteq Reached' \cup l.ids
  <2>1. 1..arrived \subseteq 1..was.from \cup (was.from + 1)..arrived
    BY <1>1, <1>2
  <2>2. QED BY <1>2, <1>4, <1>6, <2>1 DEF Reached
<1>8. Place(p)'
  BY <1>2, <1>4, <1>5, <1>6, <1>7 DEF Place
<1>9. l.handled \subseteq poll[p].handled /\ missed' \subseteq 1..arrived /\ missed \subseteq missed'
  <2>1. (was.from + 1)..arrived \subseteq 1..arrived
    BY <1>1, <1>2
  <2>2. QED BY <1>1, <1>4, <2>1 DEF Typed, GoPast, ReanchorProfile
<1>10. faults' \in FaultCounts /\ faults.store <= faults'.store
  BY <1>1 DEF Typed, FaultCounts, ReanchorProfile
<1>11. QED BY <1>3, <1>4, <1>8, <1>9, <1>10, PollGoes DEF ReanchorProfile, mailTables

LEMMA TakeBatchInv == ASSUME IInv, NEW p \in Poll, TakeBatch(p) PROVE IInv'
<1> DEFINE was == poll[p]
           pending == was.ids \ seen
<1>1. Typed /\ Place(p) /\ was.pc = "unseen" /\ was \in PollState
  BY DEF IInv, Ahead, TakeBatch, Typed
<1>2. /\ was.ids \subseteq 1..arrived /\ 1..was.next \subseteq Reached \cup was.ids /\ was.handled = {}
      /\ was.polled \subseteq 1..arrived
  BY <1>1 DEF Place
<1>3. PICK batch \in Batches(was, pending) : Take(p, batch, batch # pending)
  BY DEF TakeBatch
<1>4. batch \subseteq pending /\ batch \subseteq was.ids
  BY <1>3 DEF Batches
<1> DEFINE l == [was EXCEPT !.ids = batch, !.truncated = batch # pending, !.pc = IF batch = {} THEN "mark" ELSE "take"]
<1>5. poll' = [poll EXCEPT ![p] = l]
  BY <1>3 DEF Take, Set
<1>6. /\ l \in PollState /\ l.handled = {} /\ l.polled = was.polled /\ l.next = was.next /\ l.ids = batch
      /\ l.truncated = (batch # pending) /\ l.pc = (IF batch = {} THEN "mark" ELSE "take")
  BY <1>1, <1>2, <1>4 DEF PollState, PC
<1> HIDE DEF l
<1>7. poll'[p] = l
  BY <1>1, <1>5 DEF Typed
<1>8. Reached' = Reached /\ arrived' = arrived
  BY DEF Reached, TakeBatch, gmail, mailTables
<1>9. Place(p)'
  <2>1. ~l.truncated => 1..l.next \subseteq Reached \cup l.ids
    BY <1>2, <1>6 DEF Reached
  <2>2. QED BY <1>2, <1>4, <1>6, <1>7, <1>8, <2>1 DEF Place
<1>10. l.handled \subseteq poll[p].handled /\ missed' \subseteq 1..arrived /\ missed \subseteq missed'
  BY <1>1, <1>6 DEF Typed, TakeBatch
<1>11. faults' \in FaultCounts /\ faults.store <= faults'.store
  BY <1>1 DEF Typed, FaultCounts, TakeBatch
<1>12. QED BY <1>5, <1>6, <1>9, <1>10, <1>11, PollGoes DEF TakeBatch, mailTables

-----------------------------------------------------------------------------
(* An email, and the batch.                                                 *)

LEMMA HandledIs ==
  ASSUME NEW l \in PollState, l.ids # {}, NEW inserted \in BOOLEAN, NEW k,
         k = Handled(l) \/ k = [Handled(l) EXCEPT !.polled = @ \cup Polled(FirstOf(l), inserted)]
  PROVE  /\ k \in PollState /\ FirstOf(l) \in l.ids
         /\ k.ids = l.ids \ {FirstOf(l)} /\ k.handled = l.handled \cup {FirstOf(l)}
         /\ k.pc = (IF l.ids = {FirstOf(l)} THEN "mark" ELSE "take")
         /\ k.next = l.next /\ k.truncated = l.truncated
         /\ k.polled \subseteq l.polled \cup {FirstOf(l)}
<1> DEFINE m == FirstOf(l)
           h == Handled(l)
<1>1. m \in l.ids /\ m \in Email
  BY FirstIsOne DEF PollState
<1>2. Polled(m, inserted) \subseteq {m} /\ Polled(m, inserted) \subseteq Email \ Own
  BY <1>1 DEF Polled
<1>3. h = [l EXCEPT !.ids = @ \ {m}, !.handled = @ \cup {m}, !.pc = IF l.ids = {m} THEN "mark" ELSE "take"]
  BY DEF Handled
<1>4. k = h \/ k = [h EXCEPT !.polled = @ \cup Polled(m, inserted)]
  OBVIOUS
<1> HIDE DEF m, h
<1>5. /\ h \in PollState /\ h.ids = l.ids \ {m} /\ h.handled = l.handled \cup {m}
      /\ h.pc = (IF l.ids = {m} THEN "mark" ELSE "take")
      /\ h.next = l.next /\ h.truncated = l.truncated /\ h.polled = l.polled
  BY <1>1, <1>3 DEF PollState, PC
<1>6. /\ k \in PollState /\ k.ids = h.ids /\ k.handled = h.handled /\ k.pc = h.pc /\ k.next = h.next
      /\ k.truncated = h.truncated /\ k.polled \subseteq h.polled \cup Polled(m, inserted)
  BY <1>2, <1>4, <1>5 DEF PollState
<1>7. QED BY <1>1, <1>2, <1>5, <1>6 DEF m

LEMMA StoreInv == ASSUME IInv, NEW p \in Poll, Store(p) PROVE IInv'
<1> DEFINE was == poll[p]
           m == FirstOf(was)
<1>1. Typed /\ Place(p) /\ Counted /\ was.pc = "take" /\ was \in PollState /\ Covered \subseteq Reached
  BY DEF IInv, Ahead, Store, Typed
<1>2. /\ was.ids \subseteq 1..arrived /\ was.handled \subseteq (1..arrived) \ was.ids /\ was.polled \subseteq 1..arrived
      /\ was.ids # {}
      /\ ~was.truncated => 1..was.next \subseteq Reached \cup was.ids \cup was.handled
  BY <1>1 DEF Place
<1>3. PICK l : /\ poll' = [poll EXCEPT ![p] = l]
               /\ \E inserted \in BOOLEAN :
                    l = Handled(was) \/ l = [Handled(was) EXCEPT !.polled = @ \cup Polled(m, inserted)]
  BY DEF Store, Set
<1>4. /\ l \in PollState /\ m \in was.ids /\ l.ids = was.ids \ {m} /\ l.handled = was.handled \cup {m}
      /\ l.pc = (IF was.ids = {m} THEN "mark" ELSE "take")
      /\ l.next = was.next /\ l.truncated = was.truncated /\ l.polled \subseteq was.polled \cup {m}
  BY <1>1, <1>2, <1>3, HandledIs
<1>5. stored' \in {stored, stored \cup {m}} /\ missed' \in {missed, missed \cup ({m} \ stored)}
  BY DEF Store, GoPast
<1> HIDE DEF m
<1>6. poll'[p] = l /\ m \in Email
  BY <1>1, <1>2, <1>3, <1>4, PollTypes DEF Typed
<1>7. /\ arrived' = arrived /\ stored \subseteq stored' /\ stored' \subseteq 1..arrived
      /\ missed \subseteq missed' /\ missed' \subseteq 1..arrived
      /\ UNCHANGED <<gmail, paused, cursor, seen, held, decided>>
  BY <1>1, <1>2, <1>4, <1>5 DEF Store, gmail, Typed
<1>8. Reached \subseteq Reached'
  BY <1>7 DEF Reached, gmail
<1>9. Place(p)'
  BY <1>2, <1>4, <1>6, <1>7, <1>8 DEF Place
<1>10. Covered' \subseteq Reached'
  BY <1>1, <1>7, <1>8 DEF Covered
<1>11. /\ cursor' \in 0..N \cup {NoCursor} /\ held' \subseteq 1..arrived
       /\ decided' \subseteq (1..arrived) \ Own /\ seen' \subseteq 1..arrived
  BY <1>1, <1>7 DEF Typed
<1>12. ASSUME m \in Excused', faults' \in FaultCounts, faults.store <= faults'.store
       PROVE  IInv'
  <2>1. l.handled \ Excused' \subseteq poll[p].handled
    BY <1>4, <1>12
  <2>2. seen' \subseteq seen \cup poll[p].handled
    BY <1>7
  <2>3. QED BY <1>3, <1>4, <1>7, <1>9, <1>10, <1>11, <1>12, <2>1, <2>2, QuietMoves
<1>13. CASE Inserts(m) /\ stored' = stored \cup {m} /\ UNCHANGED <<missed, faults>>
  <2>1. faults' \in FaultCounts /\ faults.store <= faults'.store
    BY <1>1, <1>13 DEF Typed, FaultCounts
  <2>2. m \in Excused'
    BY <1>6, <1>13 DEF Excused, InStore, SameMail
  <2>3. QED BY <1>12, <2>1, <2>2
<1>14. CASE ~Inserts(m) /\ UNCHANGED <<stored, missed, faults>>
  <2>1. faults' \in FaultCounts /\ faults.store <= faults'.store
    BY <1>1, <1>14 DEF Typed, FaultCounts
  <2>2. m \in Excused
    BY <1>6, <1>14, StoredAreExcused DEF Inserts
  <2>3. QED BY <1>7, <1>12, <2>1, <2>2, ExcusedStay
<1>15. CASE Goes("store", StoreFailures)
  <2>1. faults' \in FaultCounts /\ faults'.store = faults.store + 1 /\ faults.store <= faults'.store
    BY <1>1, <1>15, FaultCounted
  <2>2. Typed' /\ Ahead'
    BY <1>3, <1>4, <1>7, <1>9, <1>10, <1>11, <2>1, PollMoves
  <2>3. Lost' \subseteq Lost \cup {m}
    <3>1. \A q \in Poll : poll'[q].handled \subseteq poll[q].handled \cup {m}
      BY <1>1, <1>3, <1>4 DEF Typed
    <3>2. QED BY <1>7, <3>1, ExcusedStay DEF Lost
  <2>4. faults.store + 1 <= faults'.store
    BY <1>1, <2>1 DEF Typed, FaultCounts
  <2>5. Counted'
    BY <1>1, <2>2, <2>3, <2>4, OneMoreLost
  <2>6. QED BY <2>2, <2>5 DEF IInv
<1>16. CASE Goes("blank", Blanks) /\ missed' = missed \cup ({m} \ stored) /\ UNCHANGED stored
  <2>1. faults' \in FaultCounts /\ faults.store <= faults'.store
    BY <1>1, <1>16, FaultCounted
  <2>2. m \in Excused'
    BY <1>6, <1>16 DEF Excused, InStore, SameMail
  <2>3. QED BY <1>12, <2>1, <2>2
<1>17. QED BY <1>13, <1>14, <1>15, <1>16 DEF Store, GoPast, m

LEMMA MarkSeenInv == ASSUME IInv, NEW p \in Poll, MarkSeen(p) PROVE IInv'
<1> DEFINE was == poll[p]
           l == [was EXCEPT !.pc = IF was.truncated THEN "settle" ELSE "move", !.handled = {}, !.newest = FALSE, !.truncated = FALSE]
<1>1. Typed /\ Place(p) /\ was.pc = "mark" /\ was \in PollState /\ Covered \subseteq Reached
  BY DEF IInv, Ahead, MarkSeen, Typed
<1>2. /\ was.ids = {} /\ was.handled \subseteq 1..arrived /\ was.polled \subseteq 1..arrived
      /\ ~was.truncated => 1..was.next \subseteq Reached \cup was.handled
  BY <1>1 DEF Place
<1>3. poll' = [poll EXCEPT ![p] = l]
  BY DEF MarkSeen, Set
<1>4. /\ l \in PollState /\ l.handled = {} /\ l.polled = was.polled /\ l.next = was.next /\ l.ids = {}
      /\ l.pc = (IF was.truncated THEN "settle" ELSE "move")
  BY <1>1, <1>2 DEF PollState, PC
<1> HIDE DEF l
<1>5. poll'[p] = l
  BY <1>1, <1>3 DEF Typed
<1>6. Reached' = Reached \cup was.handled /\ seen' = seen \cup was.handled /\ arrived' = arrived
  BY DEF Reached, MarkSeen, gmail
<1>7. Place(p)'
  BY <1>2, <1>4, <1>5, <1>6 DEF Place
<1>8. Covered' \subseteq Reached'
  BY <1>1, <1>6 DEF Covered, MarkSeen
<1>9. /\ cursor' \in 0..N \cup {NoCursor} /\ missed' \subseteq 1..arrived /\ held' \subseteq 1..arrived
      /\ stored' \subseteq 1..arrived /\ decided' \subseteq (1..arrived) \ Own
      /\ faults' \in FaultCounts /\ faults.store <= faults'.store
  BY <1>1 DEF Typed, MarkSeen, FaultCounts
<1>10. UNCHANGED <<gmail, paused>> /\ stored \subseteq stored' /\ missed \subseteq missed' /\ l.handled \ Excused' \subseteq was.handled
  BY <1>4 DEF MarkSeen
<1>11. QED BY <1>3, <1>4, <1>6, <1>7, <1>8, <1>9, <1>10, QuietMoves

LEMMA WriteCursorInv == ASSUME IInv, NEW p \in Poll, WriteCursor(p) PROVE IInv'
<1> DEFINE was == poll[p]
           l == [was EXCEPT !.pc = "settle", !.next = 0]
<1>1. Typed /\ Place(p) /\ was.pc = "move" /\ was \in PollState
  BY DEF IInv, Ahead, WriteCursor, Typed
<1>2. /\ was.ids \subseteq 1..arrived /\ was.handled = {} /\ was.polled \subseteq 1..arrived
      /\ 1..was.next \subseteq Reached /\ was.next \in 0..N
  BY <1>1 DEF Place, PollState
<1>3. poll' = [poll EXCEPT ![p] = l]
  BY DEF WriteCursor, Set
<1>4. l \in PollState /\ l.handled = {} /\ l.polled = was.polled /\ l.ids = was.ids /\ l.pc = "settle"
  <2>1. 0 \in 0..N /\ "settle" \in PC
    BY Constants DEF PC
  <2>2. l \in PollState
    BY <1>1, <2>1 DEF PollState
  <2>3. l.handled = {} /\ l.polled = was.polled /\ l.ids = was.ids /\ l.pc = "settle"
    BY <1>1, <1>2 DEF PollState
  <2>4. QED BY <2>2, <2>3
<1> HIDE DEF l
<1>5. poll'[p] = l
  BY <1>1, <1>3 DEF Typed
<1>6. Reached' = Reached /\ arrived' = arrived /\ cursor' = was.next
  BY DEF Reached, WriteCursor, gmail
<1>7. Place(p)'
  BY <1>2, <1>4, <1>5, <1>6 DEF Place
<1>8. Covered' \subseteq Reached'
  BY <1>2, <1>6 DEF Covered
<1>9. /\ cursor' \in 0..N \cup {NoCursor} /\ missed' \subseteq 1..arrived /\ held' \subseteq 1..arrived
      /\ stored' \subseteq 1..arrived /\ decided' \subseteq (1..arrived) \ Own
      /\ faults' \in FaultCounts /\ faults.store <= faults'.store
  BY <1>1, <1>2, <1>6 DEF Typed, WriteCursor, FaultCounts
<1>10. /\ UNCHANGED <<gmail, paused>> /\ seen \subseteq seen' /\ seen' \subseteq seen \cup was.handled
       /\ stored \subseteq stored' /\ missed \subseteq missed' /\ l.handled \ Excused' \subseteq was.handled
  BY <1>4 DEF WriteCursor
<1>11. QED BY <1>3, <1>4, <1>7, <1>8, <1>9, <1>10, QuietMoves

LEMMA SettlePolledInv == ASSUME IInv, NEW p \in Poll, SettlePolled(p) PROVE IInv'
<1>1. Typed /\ Place(p) /\ Covered \subseteq Reached
  BY DEF IInv, Ahead
<1>2. poll' = [poll EXCEPT ![p] = Idle] /\ poll'[p] = Idle
  BY <1>1 DEF SettlePolled, Set, Typed
<1>3. Place(p)'
  BY <1>2 DEF Place, Idle
<1>4. held' \subseteq 1..arrived
  BY <1>1 DEF SettlePolled, Typed, Place
<1>5. decided' \subseteq (1..arrived) \ Own
  <2>1. poll[p].polled \cap Own = {} /\ stored \subseteq 1..arrived /\ decided \subseteq (1..arrived) \ Own
    BY <1>1, PollTypes DEF Typed
  <2>2. decided' = decided \/ \E ids \in SUBSET ((poll[p].polled \cap stored) \ (decided \cup held)) : decided' = decided \cup ids
    BY DEF SettlePolled
  <2>3. QED BY <2>1, <2>2
<1>6. Covered' \subseteq Reached'
  BY <1>1 DEF Covered, Reached, SettlePolled, gmail
<1>7. /\ cursor' \in 0..N \cup {NoCursor} /\ missed' \subseteq 1..arrived /\ stored' \subseteq 1..arrived
      /\ faults' \in FaultCounts /\ faults.store <= faults'.store
  BY <1>1 DEF Typed, SettlePolled, FaultCounts
<1>8. /\ UNCHANGED <<gmail, paused>> /\ seen \subseteq seen' /\ seen' \subseteq seen \cup poll[p].handled
      /\ stored \subseteq stored' /\ missed \subseteq missed' /\ Idle.handled \ Excused' \subseteq poll[p].handled
  BY DEF SettlePolled, Idle
<1>9. QED BY <1>2, <1>3, <1>4, <1>5, <1>6, <1>7, <1>8, IdleTyped, QuietMoves

-----------------------------------------------------------------------------
LEMMA NextInv == IInv /\ [MailNext]_mailVars => IInv'
<1> SUFFICES ASSUME IInv, [MailNext]_mailVars PROVE IInv'
  OBVIOUS
<1>1. CASE UNCHANGED mailVars
  <2>1. Typed' /\ UNCHANGED <<cursor, seen, stored, poll>> /\ arrived <= arrived' /\ gone \subseteq gone' /\ missed \subseteq missed'
        /\ faults.store <= faults'.store
    BY <1>1, Constants DEF mailVars, gmail, mailTables, IInv, Typed, FaultCounts
  <2>2. QED BY <2>1, OthersMove
<1>2. CASE Arrive \/ DaysPass \/ SweepUndecided
  BY <1>2, ArriveInv, DaysPassInv, SweepInv
<1>3. ASSUME NEW m \in Email, Vanish(m) PROVE IInv'
  BY <1>3, VanishInv
<1>4. ASSUME NEW p \in Poll, PollStep(p) \/ Stop(p) PROVE IInv'
  <2>1. CASE ReadCursor(p) \/ WalkHistory(p) \/ ReanchorList(p) \/ ReanchorProfile(p) \/ TakeBatch(p)
    BY <2>1, ReadCursorInv, WalkHistoryInv, ReanchorListInv, ReanchorProfileInv, TakeBatchInv
  <2>2. CASE Store(p) \/ StoreThrows(p) \/ MarkSeen(p) \/ WriteCursor(p) \/ SettlePolled(p) \/ Stop(p)
    BY <2>2, StoreInv, StoreThrowsInv, MarkSeenInv, WriteCursorInv, SettlePolledInv, StopInv
  <2>3. QED BY <1>4, <2>1, <2>2 DEF PollStep
<1>5. QED BY <1>1, <1>2, <1>3, <1>4 DEF MailNext

LEMMA AlwaysInv == MailSpec => []IInv
BY InitInv, NextInv, PTL DEF MailSpec

-----------------------------------------------------------------------------
(* The theorems.                                                            *)

\* The mailbox, the tables and the locals of every poll keep their types: a poll
\* handles what has arrived, each email of its batch once, and decides none of ours.
THEOREM MailTypeCorrect == MailSpec => []MailTypeOK
<1>1. IInv => MailTypeOK
  <2> SUFFICES ASSUME IInv PROVE MailTypeOK
    OBVIOUS
  <2>1. Typed /\ N \in Nat /\ arrived \in 0..N
    BY Constants DEF IInv, Typed
  <2>2. kept \in 0..N /\ recent \in kept..N
    BY <2>1 DEF Typed
  <2>3. ASSUME NEW p \in Poll
        PROVE  /\ poll[p].pc \in PC /\ poll[p].truncated \in BOOLEAN /\ poll[p].newest \in BOOLEAN
               /\ poll[p].from \in 0..N \cup {NoCursor} /\ poll[p].next \in 0..N
               /\ poll[p].ids \subseteq 1..arrived /\ poll[p].handled \subseteq (1..arrived) \ poll[p].ids
               /\ poll[p].pc \in {"take", "mark"} => (poll[p].ids = {} <=> poll[p].pc = "mark")
               /\ poll[p].polled \subseteq Email \ Own
    <3>1. Place(p)
      BY DEF IInv, Ahead
    <3>2. QED BY <2>1, <3>1, PollTypes DEF Place
  <2>4. \A s \in {gone, seen, stored, held, decided, missed} : s \subseteq 1..arrived
    BY <2>1 DEF Typed
  <2>5. decided \cap Own = {} /\ paused \in BOOLEAN /\ cursor \in 0..N \cup {NoCursor}
    BY <2>1 DEF Typed
  <2>6. QED BY <2>1, <2>2, <2>3, <2>4, <2>5 DEF MailTypeOK
<1>2. QED BY AlwaysInv, <1>1, PTL

\* The poll's at-least-once, of what it was given: however many polls overlap on the
\* cursor and the seen set, wherever they stop, and however the history expires under
\* them, an email behind the cursor or marked seen that some poll was given is in the
\* store, or not for it, but for one email a failed insert.
THEOREM NoEmailSkipped == MailSpec => []NothingSkipped
<1>1. IInv => NothingSkipped
  <2> SUFFICES ASSUME IInv PROVE NothingSkipped
    OBVIOUS
  <2>1. Typed /\ Covered \subseteq Reached /\ Counted
    BY DEF IInv, Ahead
  <2>2. stored \subseteq Excused
    <3>1. stored \subseteq Email
      BY <2>1, Constants DEF Typed, Email
    <3>2. QED BY <3>1, StoredAreExcused
  <2>3. seen \ Excused \subseteq Lost /\ Covered \ (Excused \cup gone) \subseteq Lost
    <3>1. missed \subseteq Excused
      BY DEF Excused
    <3>2. QED BY <2>1, <2>2, <3>1 DEF Lost, Reached
  <2>4. IsFiniteSet(Lost) /\ Cardinality(Lost) \in Nat
    BY <2>1, LostFinite
  <2>5. /\ Cardinality(seen \ Excused) <= Cardinality(Lost) /\ Cardinality(seen \ Excused) \in Nat
        /\ Cardinality(Covered \ (Excused \cup gone)) <= Cardinality(Lost)
        /\ Cardinality(Covered \ (Excused \cup gone)) \in Nat
    BY <2>3, <2>4, FS_Subset, FS_CardinalityType
  <2>6. Cardinality(Lost) <= faults.store /\ faults.store \in Nat
    BY <2>1 DEF Counted, Typed, FaultCounts
  <2>7. QED BY <2>4, <2>5, <2>6 DEF NothingSkipped
<1>2. QED BY AlwaysInv, <1>1, PTL
=============================================================================
