---------------------------- MODULE Resume_proofs ----------------------------
(***************************************************************************)
(* Proofs about Resume, for any number of operations, sweeps, tries and    *)
(* deaths and any length of an invocation and of the wait before a write   *)
(* is taken for stopped.  The inductive invariant has a part for each      *)
(* invocation (Part); WorkMoves carries every step that moves one of them  *)
(* and at most a key's row, and the steps that write the decision's row,   *)
(* OnSinch or the clock have a lemma each.                                 *)
(***************************************************************************)
EXTENDS Resume, SequenceTheorems, TLAPS

Begun == {"inside", "open", "saved"}
Working == {"run"} \cup Begun
Taken == Working \cup {"plan", "close"}   \* a sweep that took the write up

WorkState ==
  [at : Place, ex : Seq(Result), tag : Tag, life : 0..FunctionTicks, lease : BOOLEAN]

Typed ==
  /\ TypeOK
  /\ work \in [Worker -> WorkState]

(***************************************************************************)
(* The inductive invariant, part by part.                                   *)

\* Every number of tries leaves room for one more while an operation is left.
RowRoom == row.retries <= Tries + Len(row.executed)

RoomOf(w) ==
  LET v == work[w] IN
  /\ IF w = Intake THEN v.tag = 0 /\ v.at \in Working \cup {"record", "gone"}
                   ELSE v.at \notin {"record", "gone"}
  /\ v.at \in {"look", "plan", "close"} => v.tag <= Tries + Len(v.ex)
  /\ v.at \in Working => v.tag <= Tries + Len(v.ex) + 1
  /\ v.at \in Working \cup {"look", "plan"} => Len(v.ex) < Operations
  /\ v.at \in {"close", "record"} => v.ex # <<>>

HasRow(n) == \A i \in 1..n : ledger[i][0] # "none"
Good(ex, n) == \A i \in 1..n : ex[i] = "verified"

\* While intake lives no row is older than it, and what is recorded is good.
RowAlone ==
  Live(Intake) =>
    /\ \A o \in Op : age[o] + work[Intake].life <= FunctionTicks
    /\ Len(row.executed) < Operations
    /\ HasRow(Len(row.executed)) /\ Good(row.executed, Len(row.executed))

\* It goes on only after a good result, and each of those has its key's row.
IntakeOf ==
  LET v == work[Intake] IN
  /\ v.at \in Working => HasRow(Len(v.ex)) /\ Good(v.ex, Len(v.ex))
  /\ v.at \in Begun => ledger[OpOf(Intake)][0] # "none"
  /\ v.at = "record" => /\ HasRow(Len(v.ex) - 1) /\ Good(v.ex, Len(v.ex) - 1)
                        /\ Last(v.ex) = "verified" => ledger[Len(v.ex)][0] # "none"

\* While it lives a sweep looks at most, and at operations that have a row.
SweepOf(s) ==
  Live(Intake) =>
    /\ work[s].at \in {"idle", "look"}
    /\ work[s].at = "look" => HasRow(Len(work[s].ex))

Made(n) == \A o \in 1..n : made[o] > 0

\* Who is at an operation has the earlier ones behind it.
OrderOf(w) ==
  LET v == work[w] IN
  /\ v.at \in Working => Made(Len(v.ex))
  /\ v.at = "record" => Made(Len(v.ex) - 1) /\ (Last(v.ex) = "verified" => Made(Len(v.ex)))

\* Who has not sent has the lease or is marked without it, and what it found not
\* made is not made yet unless it is so marked.
HeldOf(w) ==
  LET v == work[w] IN
  /\ v.lease => v.at \in Begun
  /\ v.at \in {"inside", "open"} => v.lease \/ OpOf(w) \in unheld
  /\ v.at = "open" => OpOf(w) \in Creates \cup unheld \/ made[OpOf(w)] = 0

Part(w) ==
  /\ RoomOf(w) /\ OrderOf(w) /\ HeldOf(w)
  /\ w = Intake => IntakeOf
  /\ w # Intake => SweepOf(w)

\* The lease has one holder, whoever else is at an operation still.
OneHolds == \A w, q \in Worker : Holds(w) /\ Holds(q) => w = q

IInv == Typed /\ RowRoom /\ RowAlone /\ OneHolds /\ \A w \in Worker : Part(w)

-----------------------------------------------------------------------------
\* What is left of a stopped write's results: all but the last.
LEMMA FrontOf ==
  ASSUME NEW ex \in Seq(Result), ex # <<>>
  PROVE  /\ Front(ex) \in Seq(Result) /\ Len(Front(ex)) = Len(ex) - 1
         /\ Len(ex) \in Nat \ {0} /\ Last(ex) \in Result
<1>1. Len(ex) \in Nat \ {0} /\ \A i \in 1..Len(ex) : ex[i] \in Result
  BY EmptySeq, ElementOfSeq
<1>2. \A i \in 1..(Len(ex) - 1) : ex[i] \in Result
  BY <1>1
<1>3. /\ SubSeq(ex, 1, Len(ex) - 1) \in Seq(Result)
      /\ Len(SubSeq(ex, 1, Len(ex) - 1)) = IF 1 <= Len(ex) - 1 THEN Len(ex) - 1 - 1 + 1 ELSE 0
  BY <1>1, <1>2, SubSeqProperties
<1>4. Len(ex) \in 1..Len(ex) /\ Len(SubSeq(ex, 1, Len(ex) - 1)) = Len(ex) - 1
  <2> DEFINE n == Len(ex)  m == Len(SubSeq(ex, 1, Len(ex) - 1))
  <2>1. n \in Nat \ {0} /\ m = IF 1 <= n - 1 THEN n - 1 - 1 + 1 ELSE 0
    BY <1>1, <1>3
  <2> HIDE DEF n, m
  <2>2. n \in 1..n /\ m = n - 1
    BY <2>1
  <2>3. QED BY <2>2 DEF n, m
<1>5. QED
  BY <1>1, <1>3, <1>4, Zenon DEF Front, Last

\* One more result.
LEMMA OneMore ==
  ASSUME NEW ex \in Seq(Result), NEW result \in Result
  PROVE  LET more == Append(ex, result) IN
         /\ more \in Seq(Result) /\ more # <<>> /\ Len(more) = Len(ex) + 1 /\ Len(ex) \in Nat
         /\ Last(more) = result /\ \A i \in 1..Len(ex) : more[i] = ex[i]
BY AppendProperties, LenProperties DEF Last

\* A key's row, once there, stays, and an operation only grows younger by moving.
LEMMA KeyMoves ==
  ASSUME Typed, NEW w \in Worker, OpOf(w) \in Op, NEW status \in {"intent", "ended"},
         UNCHANGED <<ledger, age>> \/ Moves(w, status)
  PROVE  /\ ledger' \in [Op -> [Tag -> {"none", "intent", "ended"}]]
         /\ age' \in [Op -> 0..StillTicks]
         /\ \A o \in Op : age'[o] <= age[o] /\ (ledger[o][0] # "none" => ledger'[o][0] # "none")
         /\ Moves(w, status) /\ work[w].tag = 0 => ledger'[OpOf(w)][0] # "none"
<1>1. 0 \in Tag /\ work[w].tag \in Tag /\ StillTicks \in Nat
  BY ResumeAssumption DEF Typed, WorkState, Tag
<1>2. ledger \in [Op -> [Tag -> {"none", "intent", "ended"}]] /\ age \in [Op -> 0..StillTicks]
  BY DEF Typed, TypeOK
<1>3. CASE UNCHANGED <<ledger, age>> /\ ~Moves(w, status)
  BY <1>2, <1>3
<1>4. CASE Moves(w, status)
  <2> DEFINE o == OpOf(w)  t == work[w].tag
  <2>1. /\ ledger' = [ledger EXCEPT ![o][t] = status]
        /\ age' = IF t = 0 THEN [age EXCEPT ![o] = 0] ELSE age
    BY <1>4 DEF Moves
  <2>2. o \in Op /\ t \in Tag
    BY <1>1
  <2> HIDE DEF o, t
  <2>3. ledger' \in [Op -> [Tag -> {"none", "intent", "ended"}]]
    BY <1>2, <2>1, <2>2
  <2>4. age' \in [Op -> 0..StillTicks] /\ \A p \in Op : age'[p] <= age[p]
    BY <1>1, <1>2, <2>1, <2>2
  <2>5. \A p \in Op : ledger[p][0] # "none" => ledger'[p][0] # "none"
    BY <1>1, <1>2, <2>1, <2>2
  <2>6. t = 0 => ledger'[o][0] # "none"
    BY <1>1, <1>2, <2>1, <2>2
  <2>7. QED
    BY <2>3, <2>4, <2>5, <2>6 DEF o, t
<1>5. QED
  BY <1>3, <1>4

LEMMA InitInv == Init => IInv
<1> SUFFICES ASSUME Init PROVE IInv
  OBVIOUS
<1>0. /\ <<>> \in Seq(Result) /\ Len(<<>>) = 0 /\ 0 \in Tag /\ 0 \in 0..FunctionTicks /\ FunctionTicks \in 0..FunctionTicks
      /\ Intake \in Worker /\ Operations \in Nat \ {0} /\ Tries \in Nat /\ 0 \in 0..Deaths /\ 0 \in 0..StillTicks
      /\ FunctionTicks \in Nat
  BY ResumeAssumption, EmptySeq DEF Tag, Worker
<1>1. /\ row.executed = <<>> /\ row.retries = 0 /\ row \in [executed : Seq(Result), retries : Tag]
      /\ ledger \in [Op -> [Tag -> {"none", "intent", "ended"}]]
      /\ age \in [Op -> 0..StillTicks] /\ \A o \in Op : age[o] = 0
      /\ made \in [Op -> Nat] /\ (\A o \in Op : made[o] = 0) /\ deaths \in 0..Deaths
      /\ unheld \subseteq Op
  BY <1>0 DEF Init
<1>2. /\ work \in [Worker -> WorkState]
      /\ \A w \in Worker : /\ work[w].ex = <<>> /\ work[w].tag = 0 /\ work[w].at \in {"run", "gone", "idle"}
                           /\ work[w].lease = FALSE
                           /\ w = Intake => work[w].at \in {"run", "gone"} /\ work[w].life = FunctionTicks
                           /\ w # Intake => work[w].at = "idle"
  BY <1>0 DEF Init, Idle, Starts, WorkState, Place
<1>3. \A s \in Sweep : s \in Worker /\ s # Intake
  BY ResumeAssumption DEF Worker
<1>4. Typed
  BY <1>0, <1>1, <1>2 DEF Typed, TypeOK, WorkState
<1>5. RowRoom /\ RowAlone /\ OneHolds
  BY <1>0, <1>1, <1>2 DEF RowRoom, RowAlone, HasRow, Good, OneHolds, Holds
<1>6. ASSUME NEW w \in Worker PROVE Part(w)
  <2>1. RoomOf(w)
    BY <1>0, <1>1, <1>2 DEF RoomOf, Working, Begun
  <2>2. OrderOf(w)
    BY <1>0, <1>1, <1>2 DEF OrderOf, Made, Working, Begun
  <2>3. HeldOf(w)
    BY <1>2 DEF HeldOf
  <2>4. w = Intake => IntakeOf
    BY <1>0, <1>1, <1>2 DEF IntakeOf, HasRow, Good, Working, Begun
  <2>5. w # Intake => SweepOf(w)
    BY <1>2 DEF SweepOf
  <2>6. QED BY <2>1, <2>2, <2>3, <2>4, <2>5 DEF Part
<1>7. QED
  BY <1>4, <1>5, <1>6 DEF IInv

\* What the types say of each part.
LEMMA Types ==
  ASSUME IInv
  PROVE  /\ Operations \in Nat \ {0} /\ Tries \in Nat /\ FunctionTicks \in Nat /\ StillTicks \in Nat
         /\ FunctionTicks < StillTicks /\ 0 \in Tag
         /\ Intake \in Worker /\ \A s \in Sweep : s \in Worker /\ s # Intake
         /\ \A w \in Worker : w # Intake => w \in Sweep
         /\ \A w \in Worker : /\ work[w].at \in Place /\ work[w].tag \in Tag /\ work[w].life \in 0..FunctionTicks
                              /\ work[w].ex \in Seq(Result) /\ Len(work[w].ex) \in 0..Operations
                              /\ work[w].lease \in BOOLEAN
         /\ row.executed \in Seq(Result) /\ Len(row.executed) \in 0..Operations /\ row.retries \in Tag
         /\ \A o \in Op : age[o] \in 0..StillTicks /\ made[o] \in Nat
         /\ unheld \subseteq Op
<1>1. /\ Operations \in Nat \ {0} /\ Tries \in Nat /\ FunctionTicks \in Nat /\ StillTicks \in Nat
      /\ FunctionTicks < StillTicks /\ 0 \in Tag
  BY ResumeAssumption DEF Tag
<1>2. /\ Intake \in Worker /\ \A s \in Sweep : s \in Worker /\ s # Intake
      /\ \A w \in Worker : w # Intake => w \in Sweep
  BY ResumeAssumption DEF Worker
<1>3. ASSUME NEW w \in Worker
      PROVE  /\ work[w].at \in Place /\ work[w].tag \in Tag /\ work[w].life \in 0..FunctionTicks
             /\ work[w].ex \in Seq(Result) /\ Len(work[w].ex) \in 0..Operations
             /\ work[w].lease \in BOOLEAN
  BY <1>1, LenProperties DEF IInv, Typed, TypeOK
<1>4. row.executed \in Seq(Result) /\ Len(row.executed) \in 0..Operations /\ row.retries \in Tag
  BY <1>1, LenProperties DEF IInv, Typed, TypeOK
<1>5. (\A o \in Op : age[o] \in 0..StillTicks /\ made[o] \in Nat) /\ unheld \subseteq Op
  BY DEF IInv, Typed, TypeOK
<1>6. QED BY <1>1, <1>2, <1>3, <1>4, <1>5

\* One invocation moves, and at most a key's row with it.
LEMMA WorkMoves ==
  ASSUME IInv, NEW w \in Worker, NEW v \in WorkState, Become(w, v), Len(v.ex) <= Operations,
         UNCHANGED <<row, made>>, deaths' \in 0..Deaths,
         ledger' \in [Op -> [Tag -> {"none", "intent", "ended"}]],
         age' \in [Op -> 0..StillTicks],
         \A o \in Op : age'[o] <= age[o] /\ (ledger[o][0] # "none" => ledger'[o][0] # "none"),
         w = Intake => v.life = work[w].life /\ (v.at # "gone" => Live(w)),
         unheld \subseteq unheld', unheld' \subseteq Op,
         v.lease => Holds(w) \/ \A q \in Worker : ~Holds(q),
         Part(w)'
  PROVE  IInv'
<1> USE Types
<1>1. work' = [work EXCEPT ![w] = v] /\ work'[w] = v /\ work' \in [Worker -> WorkState]
  BY DEF Become, IInv, Typed
<1>2. \A q \in Worker \ {w} : work'[q] = work[q]
  BY <1>1
<1>3. Typed'
  BY <1>1, <1>2 DEF IInv, Typed, TypeOK, WorkState
<1>4. RowRoom'
  BY DEF RowRoom, IInv
<1>5. Live(Intake)' => Live(Intake) /\ work'[Intake].life = work[Intake].life
  <2>1. CASE w = Intake
    BY <1>1, <2>1 DEF Live, IInv, Part, RoomOf
  <2>2. CASE w # Intake
    BY <1>2, <2>2 DEF Live
  <2>3. QED BY <2>1, <2>2
<1>6. \A n : n \in 0..Operations => (HasRow(n) => HasRow(n)')
  BY DEF HasRow, Op
<1>7. RowAlone'
  <2> SUFFICES ASSUME Live(Intake)' PROVE RowAlone'
    BY DEF RowAlone
  <2>1. RowAlone /\ Live(Intake) /\ work'[Intake].life = work[Intake].life
    BY <1>5 DEF IInv
  <2>2. \A o \in Op : age'[o] + work'[Intake].life <= FunctionTicks
    BY <2>1 DEF RowAlone
  <2>3. QED BY <1>6, <2>1, <2>2 DEF RowAlone
<1>8. ASSUME NEW q \in Worker, q # w PROVE Part(q)'
  <2>1. Part(q) /\ work'[q] = work[q]
    BY <1>2, <1>8 DEF IInv
  <2>2. RoomOf(q)' /\ OrderOf(q)' /\ HeldOf(q)'
    BY <2>1 DEF Part, RoomOf, OrderOf, HeldOf, Made, OpOf
  <2>3. q = Intake => IntakeOf'
    <3> SUFFICES ASSUME q = Intake PROVE IntakeOf'
      OBVIOUS
    <3>1. IntakeOf /\ RoomOf(Intake)
      BY <2>1 DEF Part
    <3>2. work[Intake].at \in Begun => OpOf(Intake) \in Op
      BY <3>1 DEF RoomOf, OpOf, Op, Working, Begun
    <3>3. work[Intake].at = "record" => /\ Len(work[Intake].ex) \in Op
                                        /\ Len(work[Intake].ex) - 1 \in 0..Operations
      BY <3>1, EmptySeq DEF RoomOf, Op
    <3>4. QED BY <1>6, <2>1, <3>1, <3>2, <3>3 DEF IntakeOf, OpOf
  <2>4. q # Intake => SweepOf(q)'
    BY <1>5, <1>6, <2>1 DEF Part, SweepOf
  <2>5. QED BY <2>2, <2>3, <2>4 DEF Part
<1>10. OneHolds'
  <2>1. \A q \in Worker : q # w => Holds(q)' = Holds(q)
    BY <1>2 DEF Holds
  <2>2. Holds(w)' => Holds(w) \/ \A q \in Worker : ~Holds(q)
    BY <1>1 DEF Holds
  <2>3. QED BY <2>1, <2>2 DEF IInv, OneHolds
<1>9. QED
  BY <1>3, <1>4, <1>7, <1>8, <1>10 DEF IInv

\* A sweep at an operation, planning or closing finds intake gone.
LEMMA IntakeGone ==
  ASSUME IInv, NEW s \in Sweep, work[s].at \in Taken
  PROVE  ~Live(Intake)
BY Types DEF IInv, Part, SweepOf, Taken, Working, Begun

\* An operation's result: intake records it, a sweep goes on or closes.
LEMMA AnsweredInv ==
  ASSUME IInv, NEW w \in Worker, NEW result \in Result, work[w].at \in Working,
         Answered(w, result), UNCHANGED <<row, made, unheld, deaths>>,
         UNCHANGED <<ledger, age>> \/ Moves(w, "ended"),
         result = "verified" => made[OpOf(w)] > 0 /\ ~At(w, "run")
  PROVE  IInv'
<1> USE Types
<1> DEFINE l == work[w]  more == Append(l.ex, result)
           next == CASE w = Intake -> "record"
                     [] w # Intake /\ result = "verified" /\ Len(more) < Operations -> "run"
                     [] OTHER -> "close"
           v == [l EXCEPT !.ex = more, !.at = next, !.lease = FALSE]
<1>1. /\ Part(w) /\ l \in WorkState /\ l.ex \in Seq(Result) /\ Len(l.ex) \in Nat /\ Len(l.ex) < Operations
      /\ OpOf(w) \in Op /\ OpOf(w) = Len(l.ex) + 1
  <2>1. Part(w) /\ l \in WorkState
    BY DEF IInv, Typed
  <2>2. QED BY <2>1 DEF Part, RoomOf, OpOf, Op
<1>0. /\ l.tag \in Nat /\ l.tag <= Tries + Len(l.ex) + 1 /\ (w = Intake => l.tag = 0)
      /\ Made(Len(l.ex)) /\ (w = Intake => HasRow(Len(l.ex)) /\ Good(l.ex, Len(l.ex)))
  <2>1. l.tag \in Nat
    BY DEF Tag
  <2>2. RoomOf(w) /\ OrderOf(w) /\ (w = Intake => IntakeOf)
    BY <1>1 DEF Part
  <2>3. QED BY <2>1, <2>2 DEF RoomOf, OrderOf, IntakeOf
<1>2. /\ more \in Seq(Result) /\ more # <<>> /\ Len(more) = Len(l.ex) + 1
      /\ Last(more) = result /\ \A i \in 1..Len(l.ex) : more[i] = l.ex[i]
  BY <1>1, OneMore
<1>3. Become(w, v)
  BY DEF Answered, Become
<1> HIDE DEF more
<1>4. /\ v \in WorkState /\ v.ex = more /\ v.at = next /\ v.tag = l.tag /\ v.life = l.life /\ ~v.lease
      /\ next \in {"record", "run", "close"} /\ (w = Intake <=> next = "record")
      /\ (next = "run" => result = "verified" /\ Len(more) < Operations)
  BY <1>1, <1>2 DEF WorkState, Place
<1> HIDE DEF next
<1>5. work'[w] = v
  BY <1>3 DEF Become, IInv, Typed
<1>6. OpOf(w)' = OpOf(w) + 1
  BY <1>1, <1>2, <1>4, <1>5 DEF OpOf
<1> HIDE DEF v, l
<1>7. /\ ledger' \in [Op -> [Tag -> {"none", "intent", "ended"}]] /\ age' \in [Op -> 0..StillTicks]
      /\ \A o \in Op : age'[o] <= age[o] /\ (ledger[o][0] # "none" => ledger'[o][0] # "none")
  BY <1>1, KeyMoves DEF IInv
<1>8. RoomOf(w)'
  <2>1. /\ v.tag \in Nat /\ v.tag <= Tries + Len(v.ex) /\ v.ex # <<>>
    BY <1>0, <1>1, <1>2, <1>4
  <2>2. v.at = "run" => Len(v.ex) < Operations
    BY <1>4
  <2>3. Len(v.ex) \in Nat
    BY <1>1, <1>2, <1>4
  <2>4. QED BY <1>0, <1>4, <1>5, <2>1, <2>2, <2>3 DEF RoomOf, Working, Begun
<1>9. OrderOf(w)'
  <2>1. /\ \A o \in 1..Len(l.ex) : made'[o] > 0
        /\ result = "verified" => \A o \in 1..Len(more) : made'[o] > 0
    <3>1. made' = made /\ (\A o \in 1..Len(l.ex) : made[o] > 0) /\ (result = "verified" => made[OpOf(w)] > 0)
      BY <1>0 DEF Made
    <3>2. \A o \in 1..Len(more) : o \in 1..Len(l.ex) \/ o = OpOf(w)
      BY <1>1, <1>2
    <3>3. QED BY <3>1, <3>2
  <2>2. Len(more) - 1 = Len(l.ex)
    BY <1>1, <1>2
  <2>3. QED BY <1>2, <1>4, <1>5, <2>1, <2>2 DEF OrderOf, Working, Begun, Made
<1>10. HeldOf(w)'
  BY <1>4, <1>5 DEF HeldOf
<1>11. w = Intake => IntakeOf'
  <2> SUFFICES ASSUME w = Intake PROVE IntakeOf'
    OBVIOUS
  <2>1. \A i \in 1..Len(l.ex) : ledger'[i][0] # "none" /\ more[i] = "verified"
    <3>1. \A i \in 1..Len(l.ex) : i \in Op /\ ledger[i][0] # "none" /\ l.ex[i] = "verified"
      BY <1>0, <1>1 DEF HasRow, Good, Op
    <3>2. QED BY <1>2, <1>7, <3>1
  <2>2. result = "verified" => ledger'[Len(more)][0] # "none"
    BY <1>1, <1>2, <1>7 DEF Part, IntakeOf, l, At, Working, Begun
  <2>3. Len(more) - 1 = Len(l.ex)
    BY <1>1, <1>2
  <2>4. QED BY <1>2, <1>4, <1>5, <2>1, <2>2, <2>3 DEF IntakeOf, Working, Begun, HasRow, Good
<1>12. w # Intake => SweepOf(w)'
  <2> SUFFICES ASSUME w # Intake PROVE SweepOf(w)'
    OBVIOUS
  <2>1. ~Live(Intake)'
    <3>1. ~Live(Intake)
      BY IntakeGone DEF Taken
    <3>2. QED BY <1>1, <1>3, <3>1 DEF Live, Become, IInv, Typed
  <2>2. QED BY <2>1 DEF SweepOf
<1>13. Part(w)'
  BY <1>8, <1>9, <1>10, <1>11, <1>12 DEF Part
<1>14. v.life = work[w].life /\ Live(w) /\ Len(v.ex) <= Operations /\ deaths' \in 0..Deaths
  <2>1. Live(w)
    BY DEF Live, Working, Begun
  <2>2. Len(v.ex) <= Operations
    BY <1>1, <1>2, <1>4
  <2>3. deaths' \in 0..Deaths
    BY DEF IInv, Typed, TypeOK
  <2>4. QED BY <1>4, <2>1, <2>2, <2>3 DEF l
<1>15. QED
  BY <1>3, <1>4, <1>7, <1>13, <1>14, WorkMoves

LEMMA EndsInv ==
  ASSUME IInv, NEW w \in Worker,
         \/ Busy(w) \/ Seen(w) \/ AlreadySo(w)
         \/ \E result \in {"blocked", "transient"} : NotSent(w, result)
         \/ \E result \in {"verified", "unknown"} : Answer(w, result)
  PROVE  IInv'
<1>1. \A r \in {"busy", "seen", "blocked", "transient", "verified", "unknown"} : r \in Result
  BY DEF Result
<1>2. CASE Busy(w) \/ Seen(w)
  BY <1>1, <1>2, AnsweredInv DEF Busy, Seen, At, Working, Begun
<1>3. CASE AlreadySo(w)
  BY <1>1, <1>3, AnsweredInv DEF AlreadySo, At, Working, Begun
<1>4. CASE \E result \in {"blocked", "transient"} : NotSent(w, result)
  BY <1>1, <1>4, AnsweredInv DEF NotSent, Unsent, At, Working, Begun
<1>5. CASE \E result \in {"verified", "unknown"} : Answer(w, result)
  BY <1>1, <1>5, AnsweredInv DEF Answer, At, Working, Begun
<1>6. QED BY <1>2, <1>3, <1>4, <1>5

\* The key's row is inserted: the operation is under way.
LEMMA BeginInv ==
  ASSUME IInv, NEW w \in Worker, Begin(w)
  PROVE  IInv'
<1> USE Types
<1> DEFINE l == work[w]  v == [l EXCEPT !.at = "inside", !.lease = TRUE]
<1>1. /\ Part(w) /\ l \in WorkState /\ l.at = "run" /\ OpOf(w) \in Op
      /\ Become(w, v) /\ Moves(w, "intent") /\ UNCHANGED <<row, made, unheld, deaths>>
      /\ \A q \in Worker : ~Holds(q)
  BY DEF Begin, At, IInv, Typed, Part, RoomOf, OpOf, Op, Working, Begun
<1>2. /\ v \in WorkState /\ v.at = "inside" /\ v.ex = l.ex /\ v.tag = l.tag /\ v.life = l.life /\ v.lease
      /\ work' = [work EXCEPT ![w] = v] /\ work'[w] = v /\ OpOf(w)' = OpOf(w)
  BY <1>1 DEF WorkState, Place, Become, IInv, Typed, OpOf
<1> HIDE DEF v, l
<1>3. /\ ledger' \in [Op -> [Tag -> {"none", "intent", "ended"}]] /\ age' \in [Op -> 0..StillTicks]
      /\ \A o \in Op : age'[o] <= age[o] /\ (ledger[o][0] # "none" => ledger'[o][0] # "none")
      /\ l.tag = 0 => ledger'[OpOf(w)][0] # "none"
  BY <1>1, KeyMoves DEF IInv, l
<1>4. RoomOf(w)' /\ OrderOf(w)' /\ HeldOf(w)'
  BY <1>1, <1>2 DEF Part, RoomOf, OrderOf, HeldOf, Made, Working, Begun, l
<1>5. w = Intake => IntakeOf'
  <2> SUFFICES ASSUME w = Intake PROVE IntakeOf'
    OBVIOUS
  <2>1. IntakeOf /\ l.tag = 0 /\ OpOf(w) = Len(l.ex) + 1 /\ Len(l.ex) \in Nat
    BY <1>1 DEF Part, RoomOf, OpOf, l
  <2>2. \A i \in 1..Len(l.ex) : ledger'[i][0] # "none" /\ l.ex[i] = "verified"
    BY <1>1, <1>3, <2>1 DEF IntakeOf, HasRow, Good, Working, Begun, l, Op
  <2>3. work'[Intake] = v /\ OpOf(Intake)' = OpOf(w) /\ ledger'[OpOf(w)][0] # "none"
    BY <1>2, <1>3, <2>1
  <2>4. QED BY <1>2, <2>1, <2>2, <2>3 DEF IntakeOf, HasRow, Good, Begun
<1>6. w # Intake => SweepOf(w)'
  <2> SUFFICES ASSUME w # Intake PROVE SweepOf(w)'
    OBVIOUS
  <2>1. ~Live(Intake)
    BY <1>1, IntakeGone DEF Taken, Working, Begun, l
  <2>2. QED BY <1>1, <1>2, <2>1 DEF Live, SweepOf
<1>7. Part(w)'
  BY <1>4, <1>5, <1>6 DEF Part
<1>8. v.life = work[w].life /\ Live(w) /\ Len(v.ex) <= Operations /\ deaths' \in 0..Deaths
  BY <1>1, <1>2 DEF l, Live, IInv, Typed, TypeOK
<1>9. QED
  BY <1>1, <1>2, <1>3, <1>7, <1>8, WorkMoves

\* The lease is over under a run, or the run has looked and goes on to its save.
LEMMA GoesOnInv ==
  ASSUME IInv, NEW w \in Worker, LeaseOver(w) \/ Open(w)
  PROVE  IInv'
<1> USE Types
<1>1. PICK v : /\ Become(w, v) /\ UNCHANGED <<row, ledger, age, made, deaths>>
               /\ \/ /\ Holds(w) /\ v = [work[w] EXCEPT !.lease = FALSE]
                     /\ unheld' = IF Unsent(w) THEN unheld \cup {OpOf(w)} ELSE unheld
                  \/ /\ At(w, "inside") /\ (OpOf(w) \in Creates \/ made[OpOf(w)] = 0)
                     /\ v = [work[w] EXCEPT !.at = "open"] /\ unheld' = unheld
  BY DEF LeaseOver, Open, Goto
<1>2. /\ Part(w) /\ work[w] \in WorkState /\ work[w].at \in Begun
  BY <1>1 DEF IInv, Typed, Part, HeldOf, Holds, At, Begun
<1>3. OpOf(w) \in Op /\ Len(work[w].ex) <= Operations
  BY <1>2 DEF Part, RoomOf, OpOf, Op, Working, Begun
<1>4. /\ v \in WorkState /\ v.ex = work[w].ex /\ v.tag = work[w].tag /\ v.life = work[w].life
      /\ v.at \in Begun /\ (v.lease => Holds(w))
      /\ work' = [work EXCEPT ![w] = v] /\ work'[w] = v /\ OpOf(w)' = OpOf(w)
  BY <1>1, <1>2 DEF WorkState, Place, Become, IInv, Typed, OpOf, Begun, Holds
<1>5. unheld \subseteq unheld' /\ unheld' \subseteq Op
  BY <1>1, <1>3
<1>6. HeldOf(w)'
  <2>1. CASE Holds(w) /\ v = [work[w] EXCEPT !.lease = FALSE]
             /\ unheld' = IF Unsent(w) THEN unheld \cup {OpOf(w)} ELSE unheld
    <3>1. v.at = work[w].at /\ ~v.lease
      BY <1>2, <2>1 DEF WorkState
    <3>2. QED BY <1>1, <1>2, <1>4, <1>5, <2>1, <3>1 DEF HeldOf, Part, Unsent, Begun
  <2>2. CASE /\ At(w, "inside") /\ (OpOf(w) \in Creates \/ made[OpOf(w)] = 0)
             /\ v = [work[w] EXCEPT !.at = "open"] /\ unheld' = unheld
    <3>1. v.at = "open" /\ v.lease = work[w].lease
      BY <1>2, <2>2 DEF WorkState
    <3>2. QED BY <1>1, <1>2, <1>4, <2>2, <3>1 DEF HeldOf, Part, Begun, At
  <2>3. QED BY <1>1, <2>1, <2>2
<1>7. RoomOf(w)' /\ OrderOf(w)'
  BY <1>1, <1>2, <1>4 DEF Part, RoomOf, OrderOf, Made, Working, Begun
<1>8. w = Intake => IntakeOf'
  BY <1>1, <1>2, <1>4 DEF Part, IntakeOf, HasRow, Good, OpOf, Working, Begun
<1>9. w # Intake => SweepOf(w)'
  <2> SUFFICES ASSUME w # Intake PROVE SweepOf(w)'
    OBVIOUS
  <2>1. ~Live(Intake)
    BY <1>2, IntakeGone DEF Taken, Working, Begun
  <2>2. QED BY <1>1, <1>4, <2>1 DEF Live, SweepOf
<1>10. Part(w)'
  BY <1>6, <1>7, <1>8, <1>9 DEF Part
<1>11. /\ Live(w) /\ deaths' \in 0..Deaths /\ Len(v.ex) <= Operations
       /\ age' \in [Op -> 0..StillTicks] /\ ledger' \in [Op -> [Tag -> {"none", "intent", "ended"}]]
       /\ \A o \in Op : age'[o] <= age[o] /\ (ledger[o][0] # "none" => ledger'[o][0] # "none")
  BY <1>1, <1>2, <1>3, <1>4 DEF Live, Begun, IInv, Typed, TypeOK
<1>12. QED
  BY <1>1, <1>4, <1>5, <1>10, <1>11, WorkMoves

\* A killed invocation leaves what it did.
LEMMA DieInv ==
  ASSUME IInv, NEW w \in Worker, Die(w)
  PROVE  IInv'
<1> USE Types
<1> DEFINE v == IF w = Intake THEN [work[w] EXCEPT !.at = "gone", !.lease = FALSE] ELSE Idle
<1>1. /\ v \in WorkState /\ Len(v.ex) <= Operations /\ Become(w, v) /\ Live(w)
      /\ UNCHANGED <<row, made, unheld, ledger, age>> /\ deaths' \in 0..Deaths
  <2>1. [work[w] EXCEPT !.at = "gone", !.lease = FALSE] \in WorkState /\ Len(work[w].ex) <= Operations
    <3>1. work[w] \in WorkState /\ Len(work[w].ex) <= Operations
      BY DEF IInv, Typed
    <3>2. QED BY <3>1 DEF WorkState, Place
  <2>2. Idle \in WorkState /\ Idle.ex = <<>> /\ Len(<<>>) = 0
    BY EmptySeq DEF Idle, WorkState, Place
  <2>3. deaths' \in 0..Deaths
    BY ResumeAssumption DEF Die, IInv, Typed, TypeOK
  <2>4. QED BY <2>1, <2>2, <2>3 DEF Die
<1>2. /\ work'[w] = v
      /\ w = Intake => v.at = "gone" /\ v.tag = work[w].tag /\ v.life = work[w].life
      /\ w # Intake => v.at = "idle"
      /\ ~v.lease
  BY <1>1 DEF Become, IInv, Typed, WorkState, Idle
<1> HIDE DEF v
<1>3. Part(w)'
  BY <1>2 DEF IInv, Part, RoomOf, OrderOf, HeldOf, IntakeOf, SweepOf, Taken, Working, Begun
<1>4. \A o \in Op : age'[o] <= age[o] /\ (ledger[o][0] # "none" => ledger'[o][0] # "none")
  BY <1>1
<1>5. age' \in [Op -> 0..StillTicks] /\ ledger' \in [Op -> [Tag -> {"none", "intent", "ended"}]]
  BY <1>1 DEF IInv, Typed, TypeOK
<1>6. QED
  BY <1>1, <1>2, <1>3, <1>4, <1>5, WorkMoves

\* A sweep reads a row that stopped, or one it has to look into.
LEMMA ReadInv ==
  ASSUME IInv, NEW s \in Sweep, Read(s)
  PROVE  IInv'
<1> USE Types
<1>1. PICK v : /\ Become(s, v) /\ UNCHANGED <<row, ledger, age, made, unheld, deaths>>
               /\ v.tag = row.retries /\ v.life = FunctionTicks /\ ~v.lease
               /\ \/ Stopped(row) /\ v = [at |-> "plan", ex |-> Front(row.executed), tag |-> row.retries, life |-> FunctionTicks, lease |-> FALSE]
                  \/ /\ Between(row) \/ row.executed = <<>>
                     /\ v = [at |-> "look", ex |-> row.executed, tag |-> row.retries, life |-> FunctionTicks, lease |-> FALSE]
  BY DEF Read, Starts
<1>2. CASE Stopped(row) /\ v = [at |-> "plan", ex |-> Front(row.executed), tag |-> row.retries, life |-> FunctionTicks, lease |-> FALSE]
  <2>1. /\ row.executed # <<>> /\ Last(row.executed) \in {"busy", "transient"} /\ row.retries < Tries
        /\ Front(row.executed) \in Seq(Result) /\ Len(Front(row.executed)) = Len(row.executed) - 1
        /\ Len(row.executed) \in Nat \ {0}
    BY <1>2, FrontOf DEF Stopped
  <2>2. v \in WorkState /\ v.at = "plan" /\ v.ex = Front(row.executed) /\ Len(v.ex) < Operations /\ Len(v.ex) \in Nat
    BY <1>2, <2>1 DEF WorkState, Place
  <2>3. work'[s] = v
    BY <1>1 DEF Become, IInv, Typed
  <2>4. row.retries \in Nat
    BY DEF Tag
  <2>5. RoomOf(s)' /\ OrderOf(s)' /\ HeldOf(s)'
    BY <1>1, <2>1, <2>2, <2>3, <2>4 DEF RoomOf, OrderOf, HeldOf, Working, Begun
  <2>6. ~Live(Intake)'
    <3>1. ~Live(Intake)
      BY <2>1 DEF IInv, RowAlone, Good, Last
    <3>2. QED BY <1>1, <3>1 DEF Live, Become, IInv, Typed
  <2>7. SweepOf(s)'
    BY <1>1, <2>1, <2>2, <2>3, <2>6 DEF SweepOf
  <2>8. Part(s)'
    BY <2>5, <2>7 DEF Part
  <2>9. /\ Len(v.ex) <= Operations /\ deaths' \in 0..Deaths
        /\ age' \in [Op -> 0..StillTicks] /\ ledger' \in [Op -> [Tag -> {"none", "intent", "ended"}]]
        /\ \A o \in Op : age'[o] <= age[o] /\ (ledger[o][0] # "none" => ledger'[o][0] # "none")
    BY <1>1, <2>2 DEF IInv, Typed, TypeOK
  <2>10. QED BY <1>1, <2>2, <2>8, <2>9, WorkMoves
<1>3. CASE /\ Between(row) \/ row.executed = <<>>
           /\ v = [at |-> "look", ex |-> row.executed, tag |-> row.retries, life |-> FunctionTicks, lease |-> FALSE]
  <2>1. Len(row.executed) < Operations /\ row.retries \in Nat /\ row.retries <= Tries + Len(row.executed)
    BY <1>3, EmptySeq DEF Between, Tag, IInv, RowRoom
  <2>2. v \in WorkState /\ v.at = "look" /\ v.ex = row.executed
    BY <1>3 DEF WorkState, Place
  <2>3. work'[s] = v /\ (Live(Intake)' => Live(Intake))
    BY <1>1 DEF Become, IInv, Typed, Live
  <2>4. RoomOf(s)' /\ OrderOf(s)' /\ HeldOf(s)'
    BY <1>1, <2>1, <2>2, <2>3 DEF RoomOf, OrderOf, HeldOf, Working, Begun
  <2>5. Live(Intake) => /\ \A i \in 1..Len(v.ex) : ledger'[i][0] # "none"
                        /\ \A o \in Op : age'[o] + FunctionTicks <= 2 * FunctionTicks
    <3> SUFFICES ASSUME Live(Intake) PROVE /\ \A i \in 1..Len(v.ex) : ledger'[i][0] # "none"
                                           /\ \A o \in Op : age'[o] + FunctionTicks <= 2 * FunctionTicks
      OBVIOUS
    <3>1. HasRow(Len(row.executed)) /\ \A o \in Op : age[o] + work[Intake].life <= FunctionTicks
      BY DEF IInv, RowAlone
    <3>2. \A i \in 1..Len(v.ex) : ledger'[i][0] # "none"
      BY <1>1, <2>2, <3>1 DEF HasRow
    <3>3. \A o \in Op : age'[o] = age[o] /\ age[o] \in Nat
      BY <1>1
    <3>4. work[Intake].life \in Nat
      OBVIOUS
    <3>5. QED BY <3>1, <3>2, <3>3, <3>4
  <2>6. SweepOf(s)'
    BY <2>2, <2>3, <2>5 DEF SweepOf, HasRow
  <2>8. Part(s)'
    BY <2>4, <2>6 DEF Part
  <2>9. /\ Len(v.ex) <= Operations /\ deaths' \in 0..Deaths
        /\ age' \in [Op -> 0..StillTicks] /\ ledger' \in [Op -> [Tag -> {"none", "intent", "ended"}]]
        /\ \A o \in Op : age'[o] <= age[o] /\ (ledger[o][0] # "none" => ledger'[o][0] # "none")
    BY <1>1, <2>2 DEF IInv, Typed, TypeOK
  <2>10. QED BY <1>1, <2>2, <2>8, <2>9, WorkMoves
<1>4. QED BY <1>1, <1>2, <1>3

\* A write that has been still for long enough has a row that old.
LEMMA StillIsOld ==
  ASSUME IInv, NEW s \in Sweep, At(s, "look"), Still(1..OpOf(s)), HasRow(Len(work[s].ex)),
         ledger[OpOf(s)][0] # "none" \/ OpOf(s) > 1
  PROVE  \E o \in Op : age[o] >= StillTicks
<1> USE Types
<1> DEFINE n == Len(work[s].ex)
<1>1. n \in Nat /\ OpOf(s) = n + 1 /\ n < Operations
  BY DEF OpOf, At, IInv, Part, RoomOf
<1>2. CASE ledger[OpOf(s)][0] # "none"
  <2>1. OpOf(s) \in 1..OpOf(s) /\ OpOf(s) \in Op
    BY <1>1 DEF Op
  <2>2. QED BY <1>2, <2>1 DEF Still
<1>3. CASE OpOf(s) > 1
  BY <1>1, <1>3 DEF Still, HasRow, Op
<1>4. QED BY <1>2, <1>3

LEMMA LookInv ==
  ASSUME IInv, NEW s \in Sweep, Look(s)
  PROVE  IInv'
<1> USE Types
<1> DEFINE l == work[s]
<1>0. /\ Part(s) /\ l \in WorkState /\ l.at = "look" /\ Len(l.ex) \in Nat /\ Len(l.ex) < Operations
      /\ OpOf(s) = Len(l.ex) + 1 /\ l.tag \in Nat /\ l.tag <= Tries + Len(l.ex) /\ ~l.lease
      /\ UNCHANGED <<row, ledger, age, made, unheld, deaths>>
  <2>1. Part(s) /\ l \in WorkState /\ l.at = "look" /\ UNCHANGED <<row, ledger, age, made, unheld, deaths>>
    BY DEF Look, At, IInv, Typed
  <2>2. QED BY <2>1 DEF Part, RoomOf, HeldOf, Begun, OpOf, Tag
<1>1. /\ deaths' \in 0..Deaths
      /\ age' \in [Op -> 0..StillTicks] /\ ledger' \in [Op -> [Tag -> {"none", "intent", "ended"}]]
      /\ \A o \in Op : age'[o] <= age[o] /\ (ledger[o][0] # "none" => ledger'[o][0] # "none")
  BY <1>0 DEF IInv, Typed, TypeOK
<1>2. CASE Become(s, Idle)
  <2>1. Idle \in WorkState /\ Len(Idle.ex) <= Operations /\ Idle.at = "idle" /\ ~Idle.lease
    BY EmptySeq DEF Idle, WorkState, Place
  <2>2. work'[s] = Idle
    BY <1>2 DEF Become, IInv, Typed
  <2>3. Part(s)'
    BY <2>1, <2>2 DEF Part, RoomOf, OrderOf, HeldOf, SweepOf, Taken, Working, Begun
  <2>4. QED BY <1>0, <1>1, <1>2, <2>1, <2>3, WorkMoves
<1>3. ASSUME Still(1..OpOf(s)), ledger[OpOf(s)][0] # "none" \/ OpOf(s) > 1
      PROVE  ~Live(Intake)
  <2> SUFFICES ASSUME Live(Intake) PROVE FALSE
    OBVIOUS
  <2>1. HasRow(Len(l.ex)) /\ \A o \in Op : age[o] + work[Intake].life <= FunctionTicks
    BY <1>0 DEF IInv, RowAlone, Part, SweepOf
  <2>2. PICK o \in Op : age[o] >= StillTicks
    BY <1>0, <1>3, <2>1, StillIsOld DEF At
  <2>3. QED BY <2>1, <2>2
<1>4. CASE /\ Still(1..OpOf(s)) /\ ledger[OpOf(s)][0] # "none"
           /\ Become(s, [l EXCEPT !.ex = Append(@, "unknown"), !.at = "close"])
  <2> DEFINE more == Append(l.ex, "unknown")  v == [l EXCEPT !.ex = more, !.at = "close"]
  <2>1. more \in Seq(Result) /\ more # <<>> /\ Len(more) = Len(l.ex) + 1
    BY OneMore DEF Result
  <2>10. Become(s, v)
    BY <1>4
  <2> HIDE DEF more
  <2>2. /\ v \in WorkState /\ v.at = "close" /\ v.ex = more /\ v.tag = l.tag /\ ~v.lease /\ Len(v.ex) <= Operations
        /\ Become(s, v)
    <3>1. l \in [at : Place, ex : Seq(Result), tag : Tag, life : 0..FunctionTicks, lease : BOOLEAN] /\ "close" \in Place
      BY <1>0 DEF WorkState, Place
    <3>0. ~l.lease
      BY <1>0
    <3> HIDE DEF l
    <3>2. Len(more) <= Operations
      BY <1>0, <2>1
    <3>3. QED BY <2>1, <2>10, <3>0, <3>1, <3>2 DEF WorkState
  <2>11. v.tag <= Tries + Len(v.ex) /\ v.ex # <<>>
    BY <1>0, <2>1, <2>2
  <2> HIDE DEF v
  <2>3. work'[s] = v
    BY <2>2 DEF Become, IInv, Typed
  <2>4. ~Live(Intake)'
    BY <1>3, <1>4, <2>2 DEF Live, Become, IInv, Typed
  <2>6. RoomOf(s)' /\ OrderOf(s)' /\ HeldOf(s)'
    BY <2>2, <2>11, <2>3 DEF RoomOf, OrderOf, HeldOf, Working, Begun
  <2>7. SweepOf(s)'
    BY <2>4 DEF SweepOf
  <2>8. Part(s)'
    BY <2>6, <2>7 DEF Part
  <2>9. QED BY <1>0, <1>1, <2>2, <2>8, WorkMoves
<1>5. CASE Still(1..OpOf(s)) /\ OpOf(s) > 1 /\ Goto(s, "plan")
  <2> DEFINE v == [l EXCEPT !.at = "plan"]
  <2>1. /\ v \in WorkState /\ v.at = "plan" /\ v.ex = l.ex /\ v.tag = l.tag /\ ~v.lease /\ Len(v.ex) <= Operations
        /\ Become(s, v)
    <3>1. l \in [at : Place, ex : Seq(Result), tag : Tag, life : 0..FunctionTicks, lease : BOOLEAN] /\ "plan" \in Place
      BY <1>0 DEF WorkState, Place
    <3>2. Become(s, v) /\ ~l.lease /\ Len(l.ex) <= Operations
      BY <1>0, <1>5 DEF Goto
    <3> HIDE DEF l
    <3>3. QED BY <3>1, <3>2 DEF WorkState
  <2> HIDE DEF v
  <2>2. work'[s] = v
    BY <2>1 DEF Become, IInv, Typed
  <2>3. ~Live(Intake)'
    BY <1>3, <1>5, <2>1 DEF Live, Become, IInv, Typed
  <2>5. RoomOf(s)' /\ OrderOf(s)' /\ HeldOf(s)'
    BY <1>0, <2>1, <2>2 DEF RoomOf, OrderOf, HeldOf, Working, Begun
  <2>6. SweepOf(s)'
    BY <2>3 DEF SweepOf
  <2>7. Part(s)'
    BY <2>5, <2>6 DEF Part
  <2>8. QED BY <1>0, <1>1, <2>1, <2>7, WorkMoves
<1>6. QED
  BY <1>2, <1>4, <1>5 DEF Look
\* What the planner still asks for is what OnSinch does not hold: the earlier
\* operations are made and the rest is not.
LEMMA PlanInv ==
  ASSUME IInv, NEW s \in Sweep, Plan(s)
  PROVE  IInv'
<1> USE Types
<1> DEFINE l == work[s]
<1>1. /\ Part(s) /\ l \in WorkState /\ l.at = "plan" /\ Len(l.ex) \in Nat /\ Len(l.ex) < Operations
      /\ OpOf(s) = Len(l.ex) + 1 /\ l.tag \in Nat /\ l.tag <= Tries + Len(l.ex) /\ ~l.lease
      /\ UNCHANGED <<row, ledger, age, made, unheld, deaths>>
  <2>1. Part(s) /\ l \in WorkState /\ l.at = "plan" /\ UNCHANGED <<row, ledger, age, made, unheld, deaths>>
    BY DEF Plan, At, IInv, Typed
  <2>2. QED BY <2>1 DEF Part, RoomOf, HeldOf, Begun, OpOf, Tag
<1>2. /\ deaths' \in 0..Deaths
      /\ age' \in [Op -> 0..StillTicks] /\ ledger' \in [Op -> [Tag -> {"none", "intent", "ended"}]]
      /\ \A o \in Op : age'[o] <= age[o] /\ (ledger[o][0] # "none" => ledger'[o][0] # "none")
  BY <1>1 DEF IInv, Typed, TypeOK
<1>3. ~Live(Intake)
  BY <1>1, IntakeGone DEF Taken
<1>5. CASE /\ Asks(s) = Todo(s)
           /\ Become(s, [l EXCEPT !.at = "run", !.tag = @ + 1])
  <2> DEFINE v == [l EXCEPT !.at = "run", !.tag = @ + 1]
  <2>1. l.tag + 1 \in Tag /\ l.tag + 1 <= Tries + Len(l.ex) + 1
    <3> DEFINE t == l.tag  n == Len(l.ex)
    <3>1. t \in Nat /\ n \in Nat /\ n < Operations /\ t <= Tries + n
      BY <1>1
    <3> HIDE DEF t, n
    <3>2. t + 1 \in 0..(Tries + Operations) /\ t + 1 <= Tries + n + 1
      BY <3>1
    <3>3. QED BY <3>2 DEF t, n, Tag
  <2>2. /\ v \in WorkState /\ v.at = "run" /\ v.ex = l.ex /\ v.tag = l.tag + 1 /\ ~v.lease /\ Len(v.ex) <= Operations
        /\ Become(s, v)
    <3>1. l \in [at : Place, ex : Seq(Result), tag : Tag, life : 0..FunctionTicks, lease : BOOLEAN] /\ "run" \in Place
      BY <1>1 DEF WorkState, Place
    <3>2. Len(l.ex) <= Operations /\ ~l.lease
      BY <1>1
    <3> HIDE DEF l
    <3>3. QED BY <1>5, <2>1, <3>1, <3>2 DEF WorkState
  <2> HIDE DEF v
  <2>3. work'[s] = v /\ OpOf(s)' = OpOf(s) /\ ~Live(Intake)'
    BY <1>3, <2>2 DEF Become, IInv, Typed, OpOf, Live
  <2>4. \A o \in 1..Len(l.ex) : made'[o] > 0
    <3>1. \A o \in Op : (made[o] = 0 <=> o \in OpOf(s)..Operations) /\ made[o] \in Nat
      BY <1>5 DEF Asks, Todo
    <3>2. \A o \in 1..Len(l.ex) : o \in Op /\ o \notin OpOf(s)..Operations
      BY <1>1 DEF Op
    <3>3. QED BY <1>1, <3>1, <3>2
  <2>5. RoomOf(s)'
    BY <1>1, <2>1, <2>2, <2>3 DEF RoomOf, Working, Begun
  <2>6. OrderOf(s)' /\ HeldOf(s)'
    BY <2>2, <2>3, <2>4 DEF OrderOf, HeldOf, Made
  <2>7. SweepOf(s)'
    BY <2>3 DEF SweepOf
  <2>8. Part(s)'
    BY <2>5, <2>6, <2>7 DEF Part
  <2>9. QED BY <1>1, <1>2, <2>2, <2>8, WorkMoves
<1>6. CASE Become(s, [l EXCEPT !.ex = Append(@, "cancelled"), !.at = "close"])
  <2> DEFINE more == Append(l.ex, "cancelled")  v == [l EXCEPT !.ex = more, !.at = "close"]
  <2>1. more \in Seq(Result) /\ more # <<>> /\ Len(more) = Len(l.ex) + 1
    BY OneMore DEF Result
  <2>2. Become(s, v)
    BY <1>6
  <2> HIDE DEF more
  <2>3. v \in WorkState /\ v.at = "close" /\ v.ex = more /\ v.tag = l.tag /\ ~v.lease /\ Len(v.ex) <= Operations
    <3>1. l \in [at : Place, ex : Seq(Result), tag : Tag, life : 0..FunctionTicks, lease : BOOLEAN] /\ "close" \in Place
      BY <1>1 DEF WorkState, Place
    <3>2. Len(more) <= Operations /\ ~l.lease
      BY <1>1, <2>1
    <3> HIDE DEF l
    <3>3. QED BY <2>1, <3>1, <3>2 DEF WorkState
  <2>4. v.tag <= Tries + Len(v.ex) /\ v.ex # <<>>
    BY <1>1, <2>1, <2>3
  <2> HIDE DEF v
  <2>5. work'[s] = v /\ ~Live(Intake)'
    BY <1>3, <2>2 DEF Become, IInv, Typed, Live
  <2>6. RoomOf(s)' /\ OrderOf(s)' /\ HeldOf(s)'
    BY <2>3, <2>4, <2>5 DEF RoomOf, OrderOf, HeldOf, Working, Begun
  <2>7. SweepOf(s)'
    BY <2>5 DEF SweepOf
  <2>8. Part(s)'
    BY <2>6, <2>7 DEF Part
  <2>9. QED BY <1>1, <1>2, <2>2, <2>3, <2>8, WorkMoves
<1>7. QED
  BY <1>5, <1>6 DEF Plan

\* OnSinch carries the operation out, or the save is lost on its way.
LEMMA SaveInv ==
  ASSUME IInv, NEW w \in Worker, Save(w)
  PROVE  IInv'
<1> USE Types
<1> DEFINE l == work[w]  o == OpOf(w)  v == [l EXCEPT !.at = "saved"]
<1>1. /\ Part(w) /\ l \in WorkState /\ l.at = "open" /\ o \in Op /\ o = Len(l.ex) + 1 /\ Len(l.ex) \in Nat
      /\ Become(w, v) /\ UNCHANGED <<row, ledger, age, unheld, deaths>>
      /\ made' = [made EXCEPT ![o] = @ + 1] \/ made' = made
  BY DEF Save, At, Goto, IInv, Typed, Part, RoomOf, OpOf, Op, Working, Begun
<1>2. /\ made' \in [Op -> Nat] /\ \A p \in Op : made[p] > 0 => made'[p] > 0
      /\ \A p \in Op : p # o => made'[p] = made[p]
  <2>1. made \in [Op -> Nat] /\ o \in Op
    BY <1>1 DEF IInv, Typed, TypeOK
  <2> HIDE DEF o
  <2>2. CASE made' = made
    BY <2>1, <2>2
  <2>3. CASE made' = [made EXCEPT ![o] = @ + 1]
    BY <2>1, <2>3
  <2>4. QED BY <1>1, <2>2, <2>3 DEF o
<1>3. /\ v \in WorkState /\ v.at = "saved" /\ v.ex = l.ex /\ v.tag = l.tag /\ v.life = l.life /\ v.lease = l.lease
      /\ work' = [work EXCEPT ![w] = v] /\ work'[w] = v /\ OpOf(w)' = OpOf(w)
      /\ \A q \in Worker : q # w => work'[q] = work[q]
      /\ \A q \in Worker : Live(q)' = Live(q)
  BY <1>1 DEF WorkState, Place, Become, IInv, Typed, OpOf, Live
<1> HIDE DEF v
<1>4. Typed'
  BY <1>1, <1>2, <1>3 DEF IInv, Typed, TypeOK, WorkState
<1>5. \A n \in 0..Operations : Made(n) => Made(n)'
  BY <1>2 DEF Made, Op
<1>7. /\ IntakeOf => IntakeOf'
      /\ \A s \in Sweep : SweepOf(s) => SweepOf(s)'
  <2>1. IntakeOf => IntakeOf'
    BY <1>1, <1>3 DEF IntakeOf, HasRow, Good, OpOf, Working, Begun
  <2>2. ASSUME NEW s \in Sweep, SweepOf(s) PROVE SweepOf(s)'
    BY <1>1, <1>3, <2>2 DEF SweepOf, HasRow
  <2>3. QED BY <2>1, <2>2
<1>8. RowRoom' /\ RowAlone' /\ OneHolds'
  BY <1>1, <1>3 DEF IInv, RowRoom, RowAlone, HasRow, OneHolds, Holds
<1>9. Part(w)'
  <2>1. RoomOf(w)' /\ OrderOf(w)'
    BY <1>1, <1>2, <1>3, <1>5 DEF Part, RoomOf, OrderOf, Working, Begun, Made
  <2>2. HeldOf(w)'
    BY <1>1, <1>3 DEF Part, HeldOf, Begun
  <2>3. QED BY <1>1, <1>7, <2>1, <2>2 DEF Part
<1>10. ASSUME NEW q \in Worker, q # w PROVE Part(q)'
  <2>1. Part(q) /\ work'[q] = work[q]
    BY <1>3, <1>10 DEF IInv
  <2>2. RoomOf(q)'
    BY <2>1 DEF Part, RoomOf
  <2>3. OrderOf(q)'
    <3> DEFINE m == Len(work[q].ex)
    <3>1. OrderOf(q) /\ RoomOf(q) /\ m \in 0..Operations /\ (work[q].at = "record" => m - 1 \in 0..Operations)
      BY <2>1, EmptySeq DEF Part, RoomOf
    <3>2. \A n \in 0..Operations : Made(n) => \A p \in 1..n : made'[p] > 0
      BY <1>5 DEF Made
    <3>3. QED BY <2>1, <3>1, <3>2 DEF OrderOf, Made
  <2>4. HeldOf(q)'
    <3>1. HeldOf(q) /\ HeldOf(w) /\ (work[q].at = "open" => OpOf(q) \in Op)
      BY <1>1, <2>1 DEF Part, RoomOf, OpOf, Op, Working, Begun
    <3>2. work[q].at = "open" /\ OpOf(q) = o => o \in unheld
      BY <1>1, <1>10, <3>1 DEF HeldOf, IInv, OneHolds, Holds
    <3>3. QED BY <1>1, <1>2, <2>1, <3>1, <3>2 DEF HeldOf, OpOf
  <2>5. QED BY <1>7, <2>1, <2>2, <2>3, <2>4 DEF Part
<1>11. QED
  BY <1>4, <1>8, <1>9, <1>10 DEF IInv

\* Intake records its results so far: it goes on only after a good one.
LEMMA RecordInv ==
  ASSUME IInv, Record
  PROVE  IInv'
<1> USE Types
<1> DEFINE l == work[Intake]
           on == Last(l.ex) = "verified" /\ Len(l.ex) < Operations
           v == [l EXCEPT !.at = IF on THEN "run" ELSE "gone"]
<1>1. /\ Part(Intake) /\ IntakeOf /\ l \in WorkState /\ l.at = "record" /\ l.ex # <<>>
      /\ l.ex \in Seq(Result) /\ Len(l.ex) \in 1..Operations /\ l.tag = 0 /\ Last(l.ex) = l.ex[Len(l.ex)]
      /\ row' = [executed |-> l.ex, retries |-> 0] /\ Become(Intake, v)
      /\ UNCHANGED <<ledger, age, made, unheld, deaths>> /\ Live(Intake)
  <2>1. /\ Part(Intake) /\ l \in WorkState /\ l.at = "record" /\ row' = [executed |-> l.ex, retries |-> 0]
        /\ Become(Intake, v) /\ UNCHANGED <<ledger, age, made, unheld, deaths>>
    BY DEF Record, At, Goto, IInv, Typed
  <2>2. l.ex # <<>> /\ l.tag = 0 /\ IntakeOf
    BY <2>1 DEF Part, RoomOf
  <2>3. QED BY <2>1, <2>2, EmptySeq DEF Last, Live
<1>2. /\ v \in WorkState /\ v.at = (IF on THEN "run" ELSE "gone") /\ v.ex = l.ex /\ v.tag = 0 /\ v.life = l.life /\ v.lease = l.lease
      /\ work' = [work EXCEPT ![Intake] = v] /\ work'[Intake] = v /\ OpOf(Intake)' = OpOf(Intake)
      /\ row'.executed = l.ex /\ row'.retries = 0 /\ row' \in [executed : Seq(Result), retries : Tag]
      /\ \A q \in Worker : q # Intake => work'[q] = work[q]
  BY <1>1 DEF WorkState, Place, Become, IInv, Typed, OpOf
<1> HIDE DEF v
<1>3. Typed'
  BY <1>1, <1>2 DEF IInv, Typed, TypeOK, WorkState
<1>4. on => (\A i \in 1..Len(l.ex) : ledger[i][0] # "none" /\ l.ex[i] = "verified" /\ made[i] > 0)
  <2> SUFFICES ASSUME on, NEW i \in 1..Len(l.ex)
               PROVE  ledger[i][0] # "none" /\ l.ex[i] = "verified" /\ made[i] > 0
    OBVIOUS
  <2>1. OrderOf(Intake)
    BY <1>1 DEF Part
  <2>2. CASE i = Len(l.ex)
    BY <1>1, <2>1, <2>2 DEF IntakeOf, OrderOf, Made
  <2>3. CASE i # Len(l.ex)
    <3>1. i \in 1..(Len(l.ex) - 1)
      BY <1>1, <2>3
    <3>2. QED BY <1>1, <2>1, <3>1 DEF IntakeOf, OrderOf, HasRow, Good, Made
  <2>4. QED BY <2>2, <2>3
<1>5. RowRoom'
  BY <1>1, <1>2 DEF RowRoom
<1>6. RowAlone'
  <2> SUFFICES ASSUME Live(Intake)' PROVE RowAlone'
    BY DEF RowAlone
  <2>1. on
    BY <1>2 DEF Live
  <2>2. \A o \in Op : age'[o] + work'[Intake].life <= FunctionTicks
    BY <1>1, <1>2 DEF IInv, RowAlone
  <2>3. QED BY <1>1, <1>2, <1>4, <2>1, <2>2 DEF RowAlone, HasRow, Good
<1>7. Part(Intake)'
  <2>1. RoomOf(Intake)'
    BY <1>1, <1>2 DEF RoomOf, Working, Begun
  <2>0. /\ work'[Intake].at = "run" =>
             \A i \in 1..Len(l.ex) : ledger'[i][0] # "none" /\ l.ex[i] = "verified" /\ made'[i] > 0
        /\ work'[Intake].at \in {"run", "gone"} /\ work'[Intake].ex = l.ex
    BY <1>1, <1>2, <1>4
  <2>2. OrderOf(Intake)'
    BY <2>0 DEF OrderOf, Made, Working, Begun
  <2>3. HeldOf(Intake)'
    BY <1>1, <1>2 DEF Part, HeldOf, Begun
  <2>4. IntakeOf'
    BY <2>0 DEF IntakeOf, HasRow, Good, Working, Begun
  <2>5. QED BY <2>1, <2>2, <2>3, <2>4 DEF Part
<1>8. ASSUME NEW q \in Worker, q # Intake PROVE Part(q)'
  <2>1. Part(q) /\ work'[q] = work[q] /\ work[q].at \in {"idle", "look"}
    BY <1>1, <1>2, <1>8 DEF IInv, Part, SweepOf
  <2>2. RoomOf(q)' /\ OrderOf(q)' /\ HeldOf(q)'
    BY <1>1, <2>1 DEF Part, RoomOf, OrderOf, HeldOf, Working, Begun
  <2>3. SweepOf(q)'
    BY <1>1, <1>8, <2>1 DEF Part, SweepOf, HasRow
  <2>4. QED BY <1>8, <2>2, <2>3 DEF Part
<1>9. OneHolds'
  BY <1>1, <1>2 DEF IInv, OneHolds, Holds
<1>10. QED
  BY <1>3, <1>5, <1>6, <1>7, <1>8, <1>9 DEF IInv

\* A sweep closes the write.
LEMMA CloseInv ==
  ASSUME IInv, NEW s \in Sweep, Close(s)
  PROVE  IInv'
<1> USE Types
<1> DEFINE l == work[s]
<1>1. /\ l.at = "close" /\ l.tag <= Tries + Len(l.ex) /\ ~Live(Intake) /\ row' = [executed |-> l.ex, retries |-> l.tag]
      /\ work' = [work EXCEPT ![s] = Idle] /\ UNCHANGED <<ledger, age, made, unheld, deaths>>
  <2>1. l.at = "close"
    BY DEF Close, At
  <2>2. QED BY <2>1, IntakeGone DEF Close, Become, IInv, Part, RoomOf, Taken
<1>2. /\ row'.executed = l.ex /\ row'.retries = l.tag /\ row' \in [executed : Seq(Result), retries : Tag]
      /\ Idle \in WorkState /\ Idle.at = "idle" /\ ~Idle.lease /\ Len(Idle.ex) <= Operations
      /\ work'[s] = Idle /\ \A q \in Worker : q # s => work'[q] = work[q]
  BY <1>1, EmptySeq DEF IInv, Typed, Idle, WorkState, Place
<1> HIDE DEF l
<1>3. Typed'
  <2>1. Len(l.ex) <= Operations
    BY DEF l
  <2>2. work' \in [Worker -> WorkState] /\ \A q \in Worker : work'[q] \in WorkState /\ Len(work'[q].ex) <= Operations
    BY <1>1, <1>2 DEF IInv, Typed
  <2>3. QED BY <1>1, <1>2, <2>1, <2>2 DEF IInv, Typed, TypeOK, WorkState
<1>4. RowRoom' /\ RowAlone' /\ ~Live(Intake)'
  BY <1>1, <1>2 DEF RowRoom, RowAlone, Live
<1>5. Part(s)'
  BY <1>2 DEF Part, RoomOf, OrderOf, HeldOf, SweepOf, Taken, Working, Begun
<1>6. ASSUME NEW q \in Worker, q # s PROVE Part(q)'
  <2>1. Part(q) /\ work'[q] = work[q]
    BY <1>2, <1>6 DEF IInv
  <2>2. RoomOf(q)' /\ OrderOf(q)' /\ HeldOf(q)'
    BY <1>1, <2>1 DEF Part, RoomOf, OrderOf, HeldOf, Made, OpOf
  <2>3. (q = Intake => IntakeOf') /\ (q # Intake => SweepOf(q)')
    BY <1>1, <1>4, <2>1 DEF Part, IntakeOf, SweepOf, HasRow, Good, OpOf
  <2>4. QED BY <2>2, <2>3 DEF Part
<1>7. OneHolds'
  BY <1>2 DEF IInv, OneHolds, Holds
<1>8. QED
  BY <1>3, <1>4, <1>5, <1>6, <1>7 DEF IInv

\* Time passes for all alike: what grows older does not outlive who is alive.
LEMMA TickInv ==
  ASSUME IInv, Tick
  PROVE  IInv'
<1> USE Types
<1>1. /\ UNCHANGED <<row, ledger, made, unheld, deaths>> /\ age' \in [Op -> 0..StillTicks]
      /\ \A o \in Op : age'[o] <= age[o] + 1
      /\ work' \in [Worker -> WorkState]
      /\ \A w \in Worker : /\ work'[w].at = work[w].at /\ work'[w].ex = work[w].ex /\ work'[w].tag = work[w].tag
                           /\ work'[w].lease = work[w].lease
                           /\ Live(w) => work'[w].life = work[w].life - 1
  <2>1. age' \in [Op -> 0..StillTicks] /\ \A o \in Op : age'[o] <= age[o] + 1
    BY DEF Tick, IInv, Typed, TypeOK
  <2>2. ASSUME NEW w \in Worker
        PROVE  /\ work'[w] \in WorkState
               /\ work'[w].at = work[w].at /\ work'[w].ex = work[w].ex /\ work'[w].tag = work[w].tag
               /\ work'[w].lease = work[w].lease
               /\ Live(w) => work'[w].life = work[w].life - 1
    <3>1. work[w] \in WorkState /\ work'[w] = IF Live(w) THEN [work[w] EXCEPT !.life = @ - 1] ELSE work[w]
      BY DEF Tick, IInv, Typed
    <3>2. Live(w) => work[w].life - 1 \in 0..FunctionTicks
      BY DEF Tick
    <3>3. CASE Live(w)
      BY <3>1, <3>2, <3>3 DEF WorkState
    <3>4. CASE ~Live(w)
      BY <3>1, <3>4
    <3>5. QED BY <3>3, <3>4
  <2>3. work' \in [Worker -> WorkState]
    BY <2>2 DEF Tick
  <2>4. QED BY <2>1, <2>2, <2>3 DEF Tick
<1>2. Typed'
  BY <1>1 DEF IInv, Typed, TypeOK, WorkState
<1>3. \A w \in Worker : Live(w)' = Live(w) /\ OpOf(w)' = OpOf(w)
  BY <1>1 DEF Live, OpOf
<1>4. RowRoom'
  BY <1>1 DEF IInv, RowRoom
<1>5. RowAlone'
  <2> SUFFICES ASSUME Live(Intake) PROVE RowAlone'
    BY <1>3 DEF RowAlone
  <2>1. RowAlone /\ work'[Intake].life = work[Intake].life - 1
    BY <1>1 DEF IInv
  <2>2. \A o \in Op : age'[o] + work'[Intake].life <= FunctionTicks
    BY <1>1, <2>1 DEF RowAlone
  <2>3. QED BY <1>1, <2>1, <2>2 DEF RowAlone, HasRow
<1>6. OneHolds'
  BY <1>1 DEF IInv, OneHolds, Holds
<1>7. ASSUME NEW w \in Worker PROVE Part(w)'
  <2>1. Part(w) /\ work'[w].at = work[w].at /\ work'[w].ex = work[w].ex /\ work'[w].tag = work[w].tag
    BY <1>1 DEF IInv
  <2>2. RoomOf(w)' /\ OrderOf(w)'
    BY <1>1, <2>1 DEF Part, RoomOf, OrderOf, Made
  <2>3. HeldOf(w)'
    BY <1>1, <1>3, <2>1 DEF Part, HeldOf
  <2>4. w = Intake => IntakeOf'
    BY <1>1, <1>3, <2>1 DEF Part, IntakeOf, HasRow, Good
  <2>5. w # Intake => SweepOf(w)'
    BY <1>1, <1>3, <2>1 DEF Part, SweepOf, HasRow
  <2>6. QED BY <2>2, <2>3, <2>4, <2>5 DEF Part
<1>8. QED
  BY <1>2, <1>4, <1>5, <1>6, <1>7 DEF IInv

LEMMA NextInv == IInv /\ [Next]_vars => IInv'
<1> SUFFICES ASSUME IInv, [Next]_vars PROVE IInv'
  OBVIOUS
<1>1. CASE UNCHANGED vars
  <2>1. UNCHANGED <<row, ledger, age, work, made, unheld, deaths>>
    BY <1>1 DEF vars
  <2>2. Typed' /\ RowRoom' /\ RowAlone' /\ OneHolds'
    BY <2>1 DEF IInv, Typed, TypeOK, RowRoom, RowAlone, HasRow, Live, OneHolds, Holds
  <2>3. ASSUME NEW w \in Worker PROVE Part(w)'
    <3>1. Part(w)
      BY DEF IInv
    <3>2. RoomOf(w)' /\ OrderOf(w)' /\ HeldOf(w)'
      BY <2>1, <3>1 DEF Part, RoomOf, OrderOf, HeldOf, Made, OpOf
    <3>3. (w = Intake => IntakeOf') /\ (w # Intake => SweepOf(w)')
      BY <2>1, <3>1 DEF Part, IntakeOf, SweepOf, HasRow, Good, OpOf, Live
    <3>4. QED BY <3>2, <3>3 DEF Part
  <2>4. QED BY <2>2, <2>3 DEF IInv
<1>2. CASE Tick
  BY <1>2, TickInv
<1>3. ASSUME NEW w \in Worker, Step(w) \/ LeaseOver(w) \/ Die(w) PROVE IInv'
  <2>1. w # Intake => w \in Sweep
    BY DEF Worker
  <2>2. CASE RunOp(w)
    BY <2>2, EndsInv, BeginInv, GoesOnInv, SaveInv DEF RunOp
  <2>3. CASE w = Intake /\ Record
    BY <2>3, RecordInv
  <2>4. CASE w # Intake /\ (Read(w) \/ Look(w) \/ Plan(w) \/ Close(w))
    BY <2>1, <2>4, ReadInv, LookInv, PlanInv, CloseInv
  <2>5. CASE LeaseOver(w) \/ Die(w)
    BY <2>5, GoesOnInv, DieInv
  <2>6. QED BY <1>3, <2>2, <2>3, <2>4, <2>5 DEF Step
<1>4. QED
  BY <1>1, <1>2, <1>3 DEF Next

-----------------------------------------------------------------------------
LEMMA Invariance == Spec => []IInv
BY InitInv, NextInv, PTL DEF Spec

\* Every variable stays within its type: the retries are bounded, though a write
\* that died between two operations is taken up whatever their number.
THEOREM TypeCorrect == Spec => []TypeOK
<1>1. IInv => TypeOK
  BY DEF IInv, Typed
<1>2. QED
  BY <1>1, Invariance, PTL

\* A sweep never takes up a write whose own invocation is still at it
\* (RESUME_AFTER_MS against an invocation's life), for any number of sweeps.
THEOREM IntakeRunsAlone == Spec => []RunsAlone
<1>1. IInv => RunsAlone
  BY Types DEF IInv, Part, SweepOf, RunsAlone
<1>2. QED
  BY <1>1, Invariance, PTL

\* An operation that is looked for is carried out again only if its own lease was
\* over under a run that had not sent it yet, and no operation before those it
\* comes after: for any number of overlapping syncs, tries and deaths.
THEOREM OnceUnderTheLease == Spec => OnceWhileHeld
<1> DEFINE Fit == \A o \in Op : made'[o] # made[o] =>
                    /\ made[o] = 0 \/ o \in Creates \cup unheld
                    /\ \A earlier \in 1..(o - 1) : made[earlier] > 0
<1>1. IInv /\ [Next]_vars => [Fit]_made
  <2> SUFFICES ASSUME IInv, [Next]_vars PROVE Fit \/ made' = made
    BY Zenon
  <2> USE Types
  <2>1. ASSUME NEW w \in Worker, Save(w) PROVE Fit
    <3> DEFINE p == OpOf(w)
    <3>1. /\ work[w].at = "open" /\ Part(w) /\ Len(work[w].ex) \in Nat /\ p = Len(work[w].ex) + 1
          /\ made' = [made EXCEPT ![p] = @ + 1] \/ made' = made
      BY <2>1 DEF Save, At, IInv, OpOf
    <3>2. \A earlier \in 1..(p - 1) : made[earlier] > 0
      BY <3>1 DEF Part, OrderOf, Working, Begun, Made
    <3>3. made[p] = 0 \/ p \in Creates \cup unheld
      BY <3>1 DEF Part, HeldOf
    <3>4. \A o \in Op : made'[o] # made[o] => o = p
      <4> HIDE DEF p
      <4>1. QED BY <3>1 DEF IInv, Typed, TypeOK
    <3>5. QED BY <3>2, <3>3, <3>4
  <2>2. CASE UNCHANGED vars
    BY <2>2 DEF vars
  <2>3. CASE Tick
    BY <2>3 DEF Tick
  <2>4. ASSUME NEW w \in Worker, Step(w) \/ LeaseOver(w) \/ Die(w) PROVE Fit \/ made' = made
    BY <2>1, <2>4 DEF Step, RunOp, Busy, Seen, Begin, AlreadySo, Open, NotSent, Answer, Record,
       Read, Look, Plan, Close, LeaseOver, Die
  <2>5. QED BY <2>2, <2>3, <2>4 DEF Next
<1>2. QED
  BY <1>1, Invariance, PTL DEF Spec, OnceWhileHeld

=============================================================================
