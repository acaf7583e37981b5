---------------------------- MODULE Decide_proofs ----------------------------
(***************************************************************************)
(* Proofs about Decide, for any number of emails, deliveries, overlapping  *)
(* syncs, retries and deaths, and any two times of which an invocation     *)
(* lives the shorter and the sweep waits the longer.  The inductive        *)
(* invariant says what each invocation knows of the emails it has in hand  *)
(* (Part) and that no two have the same in hand (Apart); OthersKept is why *)
(* a step of one leaves what the others know true.                         *)
(***************************************************************************)
EXTENDS Decide, FiniteSetTheorems, WellFoundedInduction, TLAPS

Decider == {"check", "read", "record", "run", "result"}   \* where a worker decides on its newest email
Undone == {"check", "read", "record"}                     \* and has not recorded what it decided
Past == {"run", "result", "after"}                        \* or has

HasDecision(m) == card[m] \notin {"none", "claim"}
Unread(m) == \A l \in Msg : m \notin readWith[l]

\* Who has an email in hand has it alone.
Apart == \A w, u \in Worker : w # u => work[w].took \cap work[u].took = {}

\* A delivery: what it took it stored itself, no longer ago than it lives, and
\* until it records its decision nothing is known of any of it.
DeliveryOf(d) ==
  LET v == work[d] IN
  /\ v.task = "deliver"
  /\ v.at \in {"idle", "store", "mark", "seen", "after"} \cup Decider
  /\ v.took \subseteq stored
  /\ \A m \in v.took : age[m] + v.life <= FunctionTicks
  /\ v.at = "idle" => v.took = {}
  /\ v.at = "store" => v.todo # {}
  /\ v.at \notin {"idle", "store"} => v.newest \in v.took /\ \A m \in v.took : m <= v.newest
  /\ v.at \in {"idle", "store", "mark", "seen"} \cup Undone =>
       \A m \in v.took : card[m] = "none" /\ Unread(m)
  /\ v.at \in Past => HasDecision(v.newest)

\* A sweep: what it looks at was there for longer than a delivery lives, and what
\* it took bears its claim.
SweepOf(s) ==
  LET v == work[s] IN
  /\ v.at \in {"overtaken", "claim", "after"} \cup Decider
  /\ v.todo \cup v.took \cup {v.newest} \subseteq stored \ only
  /\ \A m \in v.todo \cup v.took : age[m] >= OldTicks /\ m <= v.newest
  /\ \A m \in v.took : card[m] # "none"
  /\ v.at \in {"overtaken", "claim"} =>
       v.todo # {} /\ (v.newest \in v.todo \cup v.took \/ card[v.newest] # "none")
  /\ v.at = "overtaken" => v.took = {}
  /\ v.at = "claim" /\ ~v.overtaken => \A m \in v.took : card[m] = "claim"
  /\ v.at \in Decider => v.newest \in v.took /\ \A m \in v.took \ {v.newest} : card[m] = "claim"
  /\ v.at \in Undone => card[v.newest] = "claim"
  /\ v.at \in Past => HasDecision(v.newest)

\* A retry: an email with a card, by itself.
RetryOf(s) ==
  LET v == work[s] IN
  /\ v.at \in {"after"} \cup Decider
  /\ v.took = {} /\ v.newest \in stored /\ v.tries < Retries
  /\ HasDecision(v.newest)

Part(w) ==
  /\ w \in Delivery => DeliveryOf(w)
  /\ w \in Sync => \/ work[w].at = "idle" /\ work[w].took = {}
                   \/ work[w].task = "sweep" /\ SweepOf(w)
                   \/ work[w].task = "retry" /\ RetryOf(w)
  /\ work[w].at \in {"run", "result"} => work[w].got \in Reading

\* What the rows of one email say of one another.
Row(m) ==
  /\ card[m] # "none" => m \in stored
  /\ m \in executed => HasDecision(m)
  /\ card[m] \in {"none", "claim"} => acted[m] = {}
  /\ m \in only => card[m] = "none" /\ Unread(m) /\ \A w \in Worker : m \notin work[w].took

\* Nobody decides on an email by itself once a later one was read with it.
Stays(w, m) ==
  work[w].newest = m =>
    /\ work[w].at \notin Decider \cup {"seen"}
    /\ work[w].at = "claim" => work[w].overtaken \/ (card[m] # "none" /\ m \notin work[w].took)
Passed(m, later) ==
  /\ acted[m] = {} /\ card[m] # "unread" /\ card[later] # "none"
  /\ \A w \in Worker : Stays(w, m)

Taken == \A m, later \in Msg : m < later /\ m \in readWith[later] => Passed(m, later)

\* One worker decides on an email, unless retries shared it, and finds nothing
\* written of it.
Alone ==
  \A w, u \in Worker :
    w # u /\ work[w].at \in Decider /\ work[u].at \in Decider /\ work[w].newest = work[u].newest =>
      work[w].newest \in shared
FreshOf(w) ==
  LET v == work[w] IN
  v.newest \notin shared =>
    /\ v.at \in Undone /\ v.task = "retry" => card[v.newest] = "unread"
    /\ v.at \in Undone \cup {"run"} => acted[v.newest] = {}
    /\ v.at \in {"run", "result"} => card[v.newest] = "write"
Written(m) ==
  m \notin shared =>
    /\ card[m] = "unread" => acted[m] = {}
    /\ acted[m] = {} \/ \E r \in Reading : acted[m] = {r}
Once == Alone /\ (\A w \in Worker : FreshOf(w)) /\ \A m \in Msg : Written(m)

IInv ==
  /\ TypeOK /\ Apart
  /\ \A w \in Worker : Part(w)
  /\ \A m \in Msg : Row(m)
  /\ Taken /\ SettledAfterNewest /\ Once

-----------------------------------------------------------------------------
LEMMA LeastNumber ==
  ASSUME NEW S, S \subseteq Nat, S # {}
  PROVE  \E x \in S : \A y \in S : x <= y
<1> DEFINE R == OpToRel(<, Nat)
<1>1. IsWellFoundedOn(R, Nat)
  BY NatLessThanWellFounded
<1>2. \A x, y \in Nat : y < x => <<y, x>> \in R
  BY DEF OpToRel
<1> HIDE DEF R
<1>3. PICK x \in S : \A y \in S : ~ (<<y, x>> \in R)
  BY <1>1, WFMin
<1>4. \A y \in S : ~ (y < x)
  BY <1>2, <1>3
<1>5. \A y \in S : x <= y
  BY <1>4
<1>6. QED BY <1>3, <1>5

\* The first and the last of some emails.
LEMMA MinIsLeast ==
  ASSUME NEW S \in SUBSET Msg, S # {}
  PROVE  Min(S) \in S /\ \A m \in S : Min(S) <= m
<1>1. S \subseteq Nat
  BY DecideAssumption DEF Msg
<1>2. QED BY <1>1, LeastNumber DEF Min

LEMMA MaxIsGreatest ==
  ASSUME NEW S \in SUBSET Msg, S # {}
  PROVE  Max(S) \in S /\ \A m \in S : m <= Max(S)
<1> USE DecideAssumption DEF Msg
<1> DEFINE T == {k \in Nat : Messages - k \in S}
<1>1. PICK x \in S : TRUE
  OBVIOUS
<1>2. Messages - x \in Nat /\ Messages - (Messages - x) = x
  OBVIOUS
<1>3. Messages - x \in T
  BY <1>2
<1>4. PICK t \in T : \A y \in T : t <= y
  BY <1>3, LeastNumber
<1>5. ASSUME NEW y \in S PROVE y <= Messages - t
  <2>1. Messages - y \in T
    OBVIOUS
  <2>2. QED BY <2>1, <1>4
<1>6. Messages - t \in S /\ \A y \in S : Messages - t >= y
  BY <1>4, <1>5
<1>7. QED BY <1>6 DEF Max

\* The types of what a step reads.
LEMMA Types ==
  ASSUME TypeOK
  PROVE  /\ stored \subseteq Msg /\ only \subseteq stored /\ executed \subseteq stored
         /\ \A m \in Msg : /\ age[m] \in 0..OldTicks /\ card[m] \in Card
                           /\ acted[m] \subseteq Reading /\ readWith[m] \subseteq stored
         /\ age \in [Msg -> 0..OldTicks] /\ card \in [Msg -> Card]
         /\ reads \in [Msg -> 0..Retries]
         /\ acted \in [Msg -> SUBSET Reading] /\ readWith \in [Msg -> SUBSET stored]
         /\ held \subseteq stored /\ shared \subseteq stored
         /\ work \in [Worker -> WorkState]
         /\ \A w \in Worker :
              LET v == work[w] IN
              /\ v \in WorkState /\ v.todo \subseteq Msg /\ v.took \subseteq Msg /\ v.newest \in Msg
              /\ v.got \in Reading \cup {"unread", "handoff"} /\ v.tries \in 0..Retries
              /\ v.life \in 0..FunctionTicks /\ v.paused \in BOOLEAN /\ v.overtaken \in BOOLEAN
         /\ Delivery \subseteq Worker /\ Sync \subseteq Worker
         /\ Msg \subseteq Nat /\ OldTicks \in Nat /\ FunctionTicks \in Nat
         /\ FunctionTicks < OldTicks /\ Retries \in Nat
<1> USE DecideAssumption
<1>1. \A w \in Worker : work[w] \in WorkState
  BY DEF TypeOK
<1>2. \A v \in WorkState :
        /\ v.todo \subseteq Msg /\ v.took \subseteq Msg /\ v.newest \in Msg
        /\ v.got \in Reading \cup {"unread", "handoff"} /\ v.tries \in 0..Retries
        /\ v.life \in 0..FunctionTicks /\ v.paused \in BOOLEAN /\ v.overtaken \in BOOLEAN
  BY DEF WorkState
<1>3. \A m \in Msg : /\ age[m] \in 0..OldTicks /\ card[m] \in Card
                     /\ acted[m] \subseteq Reading /\ readWith[m] \subseteq stored
  BY DEF TypeOK
<1>4. /\ stored \subseteq Msg /\ only \subseteq stored /\ executed \subseteq stored
      /\ age \in [Msg -> 0..OldTicks] /\ card \in [Msg -> Card]
      /\ reads \in [Msg -> 0..Retries] /\ acted \in [Msg -> SUBSET Reading]
      /\ readWith \in [Msg -> SUBSET stored] /\ held \subseteq stored /\ shared \subseteq stored
      /\ work \in [Worker -> WorkState]
  BY DEF TypeOK
<1>5. Msg \subseteq Nat /\ Delivery \subseteq Worker /\ Sync \subseteq Worker
  BY DEF Msg, Worker
<1>6. QED
  BY <1>1, <1>2, <1>3, <1>4, <1>5

LEMMA InitInv == Init => IInv
<1> SUFFICES ASSUME Init PROVE IInv
  OBVIOUS
<1> USE DecideAssumption
<1>1. 1 \in Msg /\ 0 \in 0..FunctionTicks /\ 0 \in 0..Retries /\ 0 \in 0..OldTicks
      /\ 0 \in 0..Flips /\ 0 \in 0..Deaths
  BY DEF Msg
<1>2. Idle \in WorkState
  BY <1>1 DEF Idle, WorkState
<1>3. /\ Idle.at = "idle" /\ Idle.took = {} /\ Idle.task = "deliver"
  BY DEF Idle
<1>4. TypeOK
  BY <1>1, <1>2 DEF TypeOK, Init, Card
<1>5. \A w \in Worker : work[w] = Idle
  BY DEF Init
<1>6. \A m \in Msg : card[m] = "none" /\ acted[m] = {} /\ readWith[m] = {}
  BY DEF Init
<1>7. executed = {} /\ only = {}
  BY DEF Init
<1>8. Apart
  BY <1>3, <1>5 DEF Apart
<1>9. \A w \in Worker : Part(w)
  BY <1>3, <1>5, Delivery \cap Sync = {} DEF Part, DeliveryOf, Decider, Undone, Past
<1>10. \A m \in Msg : Row(m)
  BY <1>6, <1>7 DEF Row
<1>11. Taken /\ SettledAfterNewest
  BY <1>6 DEF Taken, SettledAfterNewest
<1>12. Once
  BY <1>3, <1>5, <1>6 DEF Once, Alone, FreshOf, Written, Decider, Undone
<1>13. QED
  BY <1>4, <1>8, <1>9, <1>10, <1>11, <1>12 DEF IInv

-----------------------------------------------------------------------------
(* What a step of one invocation leaves to the others.                      *)

\* A card goes on: it is never taken away, nor a decision undone.
Onward ==
  \A m \in Msg : /\ card[m] # "none" => card'[m] # "none"
                 /\ HasDecision(m) => card'[m] \notin {"none", "claim"}

\* A step of w touches what w has in hand, what is decided, or what is free and
\* has been there for longer than a delivery lives.
Touches(w) ==
  \A m \in Msg :
    \/ m \in work[w].took
    \/ HasDecision(m)
    \/ /\ card[m] = "none" /\ age[m] >= OldTicks
       /\ Unread(m) => \A l \in Msg : m \notin readWith'[l]
    \/ /\ card'[m] = card[m]
       /\ Unread(m) => \A l \in Msg : m \notin readWith'[l]

LEMMA OthersKept ==
  ASSUME IInv, NEW w \in Worker, NEW u \in Worker, u # w, work'[u] = work[u],
         Onward, Touches(w), stored \subseteq stored', \A m \in stored : age'[m] = age[m],
         only' = only \/ (w \in Delivery /\ work[w].at = "mark" /\ only' = only \cup work[w].took)
  PROVE  Part(u)'
<1> USE Types
<1>0. TypeOK /\ Part(w) /\ Part(u) /\ \A m \in Msg : Row(m)
  BY DEF IInv
<1>1. work[w].took \cap work[u].took = {}
  BY DEF IInv, Apart
<1>2. u \in Delivery => DeliveryOf(u)'
  <2> SUFFICES ASSUME u \in Delivery PROVE DeliveryOf(u)'
    OBVIOUS
  <2>1. DeliveryOf(u)
    BY <1>0 DEF Part
  <2>2. \A m \in work[u].took : age'[m] = age[m] /\ m \in Msg /\ age[m] < OldTicks
    BY <1>0, <2>1 DEF DeliveryOf
  <2>3. ASSUME work[u].at \in {"idle", "store", "mark", "seen"} \cup Undone, NEW m \in work[u].took
        PROVE  card'[m] = "none" /\ \A l \in Msg : m \notin readWith'[l]
    <3>1. card[m] = "none" /\ Unread(m) /\ m \in Msg /\ ~HasDecision(m)
      BY <1>0, <2>1, <2>3 DEF DeliveryOf, HasDecision
    <3>2. m \notin work[w].took /\ ~(age[m] >= OldTicks)
      BY <1>0, <1>1, <2>2, <2>3
    <3>3. QED
      BY <3>1, <3>2 DEF Touches
  <2>4. work[u].at \in Past => HasDecision(work[u].newest)'
    BY <1>0, <2>1 DEF DeliveryOf, Onward, HasDecision
  <2>5. QED
    BY <2>1, <2>2, <2>3, <2>4 DEF DeliveryOf, Unread
<1>3. ASSUME u \in Sync, work[u].task = "sweep", SweepOf(u) PROVE SweepOf(u)'
  <2> DEFINE v == work[u]
  <2>1. /\ v.todo \cup v.took \cup {v.newest} \subseteq Msg
        /\ v.todo \cup v.took \cup {v.newest} \subseteq stored \ only
    BY <1>0, <1>3 DEF SweepOf
  <2>2. v.todo \cup v.took \cup {v.newest} \subseteq stored' \ only'
    <3>1. CASE only' = only
      BY <2>1, <3>1
    <3>2. CASE w \in Delivery /\ work[w].at = "mark" /\ only' = only \cup work[w].took
      <4>1. DeliveryOf(w)
        BY <1>0, <3>2 DEF Part
      <4>2. \A m \in work[w].took : m \in Msg /\ card[m] = "none" /\ age[m] < OldTicks
        BY <1>0, <3>2, <4>1 DEF DeliveryOf
      <4>3. \A m \in v.todo \cup v.took : m \notin work[w].took
        BY <1>0, <1>3, <2>1, <4>2 DEF SweepOf
      <4>4. v.newest \in v.todo \cup v.took \/ card[v.newest] # "none"
        BY <1>3 DEF SweepOf, HasDecision, Past, Decider
      <4>5. v.newest \notin work[w].took
        BY <4>2, <4>3, <4>4
      <4>6. QED
        BY <2>1, <3>2, <4>3, <4>5
    <3>3. QED BY <3>1, <3>2
  <2>3. \A m \in v.todo \cup v.took : age'[m] >= OldTicks /\ m <= v.newest
    BY <1>3, <2>1 DEF SweepOf
  <2>4. \A m \in v.took : card[m] = "claim" => card'[m] = "claim"
    BY <1>0, <1>1, <2>1 DEF Touches, HasDecision
  <2>5. \A m \in v.took \cup {v.newest} : card[m] # "none" => card'[m] # "none"
    BY <2>1 DEF Onward
  <2>6. HasDecision(v.newest) => HasDecision(v.newest)'
    BY <2>1 DEF Onward, HasDecision
  <2>7. v.at \in Undone => card'[v.newest] = "claim"
    BY <1>3, <2>4 DEF SweepOf, Undone, Decider
  <2> HIDE DEF v
  <2>8. work'[u] = v
    BY DEF v
  <2>9. QED
    BY <1>3, <2>2, <2>3, <2>4, <2>5, <2>6, <2>7, <2>8 DEF SweepOf, v
<1>4. ASSUME u \in Sync, work[u].task = "retry", RetryOf(u) PROVE RetryOf(u)'
  BY <1>0, <1>4 DEF RetryOf, Onward, HasDecision
<1>5. QED
  BY <1>0, <1>2, <1>3, <1>4 DEF Part

\* What w is about to decide on nobody else decides on, unless they share it.
Mine(w) ==
  work'[w].at \in Decider /\ work'[w].newest \notin shared' =>
    \A u \in Worker \ {w} : work[u].at \in Decider => work[u].newest # work'[w].newest

\* What a later email was read with w keeps away from.
KeepsAway(w) ==
  \A m, later \in Msg : m < later /\ m \in readWith[later] /\ Passed(m, later) => Stays(w, m)'

\* The steps that move only their invocation, and may take up a shared email.
LEMMA TakesUp ==
  ASSUME IInv, NEW w \in Worker, NEW v \in WorkState, work' = [work EXCEPT ![w] = v],
         UNCHANGED <<rows, acted, readWith, held, age>>,
         shared \subseteq shared', shared' \subseteq stored,
         paused' \in BOOLEAN, flips' \in 0..Flips, deaths' \in 0..Deaths,
         v.took \subseteq work[w].took, Part(w)', KeepsAway(w),
         FreshOf(w)' /\ Mine(w)
  PROVE  IInv'
<1> USE Types
<1>0. TypeOK /\ \A u \in Worker : work'[u] = IF u = w THEN v ELSE work[u]
  BY DEF IInv
<1>1. /\ UNCHANGED <<stored, only, card, reads, executed>>
      /\ UNCHANGED <<acted, readWith, held>> /\ UNCHANGED age
  BY DEF rows
<1>2. TypeOK'
  <2>1. work' \in [Worker -> WorkState]
    BY <1>0
  <2>2. QED BY <1>0, <1>1, <2>1 DEF TypeOK
<1>3. Apart'
  BY <1>0 DEF IInv, Apart
<1>4. ASSUME NEW u \in Worker PROVE Part(u)'
  <2>1. CASE u = w
    BY <2>1
  <2>2. CASE u # w
    <3>1. Onward /\ Touches(w)
      BY <1>1 DEF Onward, Touches, HasDecision, Unread
    <3>2. QED
      BY <1>0, <1>1, <2>2, <3>1, OthersKept
  <2>3. QED BY <2>1, <2>2
<1>5. ASSUME NEW m \in Msg PROVE Row(m)'
  <2>1. Row(m)
    BY DEF IInv
  <2>2. QED
    BY <1>0, <1>1, <2>1 DEF Row, HasDecision, Unread
<1>6. Taken'
  <2> SUFFICES ASSUME NEW m \in Msg, NEW later \in Msg, m < later, m \in readWith[later]
               PROVE  Passed(m, later)'
    BY <1>1 DEF Taken
  <2>1. Passed(m, later)
    BY DEF IInv, Taken
  <2>2. \A u \in Worker : Stays(u, m)'
    BY <1>0, <1>1, <2>1 DEF Passed, Stays, KeepsAway
  <2>3. QED
    BY <1>1, <2>1, <2>2 DEF Passed
<1>7. SettledAfterNewest'
  BY <1>1 DEF IInv, SettledAfterNewest
<1>8. Alone' /\ (\A u \in Worker : FreshOf(u)') /\ \A m \in Msg : Written(m)'
  <2>1. Alone /\ (\A u \in Worker : FreshOf(u)) /\ \A m \in Msg : Written(m)
    BY DEF IInv, Once
  <2>2. Alone'
    BY <1>0, <2>1 DEF Alone, Mine
  <2>3. \A u \in Worker : FreshOf(u)'
    BY <1>0, <1>1, <2>1 DEF FreshOf
  <2>4. \A m \in Msg : Written(m)'
    BY <1>1, <2>1 DEF Written
  <2>5. QED BY <2>2, <2>3, <2>4
<1>9. QED
  BY <1>2, <1>3, <1>4, <1>5, <1>6, <1>7, <1>8 DEF IInv, Once

\* The steps that move only their invocation.
LEMMA WorkMoves ==
  ASSUME IInv, NEW w \in Worker, NEW v \in WorkState, work' = [work EXCEPT ![w] = v],
         UNCHANGED <<rows, history, age>>,
         paused' \in BOOLEAN, flips' \in 0..Flips, deaths' \in 0..Deaths,
         v.took \subseteq work[w].took, Part(w)', KeepsAway(w), FreshOf(w)' /\ Mine(w)
  PROVE  IInv'
<1>1. UNCHANGED <<rows, acted, readWith, held, age>> /\ shared' = shared /\ shared \subseteq stored
  BY Types DEF history, IInv
<1>2. QED BY <1>1, TakesUp

\* An invocation that is over, or has not begun, has nothing in hand.
LEMMA IdleMoves ==
  ASSUME IInv, NEW w \in Worker, work' = [work EXCEPT ![w] = Idle],
         UNCHANGED <<rows, history, age>>,
         paused' \in BOOLEAN, flips' \in 0..Flips, deaths' \in 0..Deaths
  PROVE  IInv'
<1> USE Types
<1>1. Idle \in WorkState /\ Idle.took = {} /\ Idle.at = "idle" /\ Idle.task = "deliver"
  BY DecideAssumption DEF Idle, WorkState, Msg
<1>2. TypeOK /\ work'[w] = Idle
  BY DEF IInv
<1>3. Part(w)'
  BY <1>1, <1>2, DecideAssumption DEF Part, DeliveryOf, Undone, Past, Decider
<1>4. KeepsAway(w) /\ FreshOf(w)' /\ Mine(w)
  BY <1>1, <1>2 DEF KeepsAway, Stays, FreshOf, Mine, Undone, Decider
<1>5. QED
  BY <1>1, <1>3, <1>4, WorkMoves

LEMMA DeliverInv ==
  ASSUME IInv, NEW d \in Delivery, NEW n \in Msg, Deliver(d, n)
  PROVE  IInv'
<1> USE Types
<1> DEFINE v == [Idle EXCEPT !.at = "store", !.todo = 1..n, !.paused = paused,
                             !.life = FunctionTicks]
<1>1. TypeOK /\ At(d, "idle") /\ work' = [work EXCEPT ![d] = v]
      /\ UNCHANGED <<rows, history, age, paused, flips, deaths>>
  BY DEF IInv, Deliver, Become, world
<1>2. paused \in BOOLEAN /\ flips \in 0..Flips /\ deaths \in 0..Deaths
  BY <1>1 DEF TypeOK
<1>3. 1 \in Msg /\ 1..n \in SUBSET Msg /\ 1..n # {} /\ FunctionTicks \in 0..FunctionTicks /\ 0 \in 0..Retries
  <2>1. Messages \in Nat \ {0} /\ n \in 1..Messages
    BY DecideAssumption DEF Msg
  <2>2. 1 \in 1..n /\ 1..n \subseteq 1..Messages
    BY <2>1
  <2>3. 1 \in Msg /\ 1..n \in SUBSET Msg /\ 1..n # {}
    BY <2>1, <2>2 DEF Msg
  <2>4. FunctionTicks \in 0..FunctionTicks /\ 0 \in 0..Retries
    BY DecideAssumption
  <2>5. QED BY <2>3, <2>4
<1>4. /\ v.at = "store" /\ v.task = "deliver" /\ v.took = {} /\ v.todo # {}
      /\ v \in WorkState
  BY <1>2, <1>3 DEF Idle, WorkState
<1> HIDE DEF v
<1>5. work'[d] = v /\ d \notin Sync
  BY <1>1, DecideAssumption
<1>6. Part(d)'
  BY <1>4, <1>5 DEF Part, DeliveryOf, Undone, Past, Decider
<1>7. KeepsAway(d) /\ FreshOf(d)' /\ Mine(d)
  BY <1>4, <1>5 DEF KeepsAway, Stays, FreshOf, Mine, Undone, Decider
<1>8. QED
  BY <1>1, <1>2, <1>4, <1>6, <1>7, WorkMoves

LEMMA LookForDecisionInv ==
  ASSUME IInv, NEW d \in Delivery, LookForDecision(d)
  PROVE  IInv'
<1> USE Types
<1> DEFINE v == [work[d] EXCEPT !.at = "check"]
<1>1. TypeOK /\ Part(d) /\ d \notin Sync /\ d \in Worker
  BY DecideAssumption DEF IInv
<1>2. work[d].at = "seen" /\ DeliveryOf(d)
  BY <1>1 DEF LookForDecision, At, Part
<1>3. card[work[d].newest] = "none" /\ work[d].newest \in work[d].took
  BY <1>2 DEF DeliveryOf
<1>4. work' = [work EXCEPT ![d] = v] /\ UNCHANGED <<rows, history, age, paused, flips, deaths>>
  BY <1>3 DEF LookForDecision, Goto, Become, world
<1>5. paused \in BOOLEAN /\ flips \in 0..Flips /\ deaths \in 0..Deaths
  BY <1>1 DEF TypeOK
<1>6. /\ v \in WorkState /\ v.at = "check" /\ v.task = work[d].task /\ v.took = work[d].took
      /\ v.newest = work[d].newest /\ v.life = work[d].life /\ v.todo = work[d].todo
  BY <1>1 DEF WorkState
<1> HIDE DEF v
<1>7. work'[d] = v
  BY <1>1, <1>4
<1>8. UNCHANGED <<card, stored, age, readWith, acted>>
  BY <1>4 DEF rows, history
<1>9. Part(d)'
  BY <1>1, <1>2, <1>6, <1>7, <1>8 DEF Part, DeliveryOf, Undone, Past, Decider, Unread
<1>10. KeepsAway(d)
  BY <1>1, <1>2, <1>6, <1>7 DEF KeepsAway, Passed, Stays, Decider
<1>11. FreshOf(d)' /\ Mine(d)
  <2>1. acted[work[d].newest] = {}
    BY <1>1, <1>3 DEF IInv, Row
  <2>2. FreshOf(d)'
    BY <1>2, <1>6, <1>7, <1>8, <2>1 DEF FreshOf, DeliveryOf, Undone
  <2>3. ASSUME NEW u \in Worker \ {d}, work[u].at \in Decider
        PROVE  work[u].newest # v.newest
    <3>1. Part(u) /\ work[u].took \cap work[d].took = {}
      BY <1>1 DEF IInv, Apart
    <3>2. QED
      BY <1>3, <1>6, <2>3, <3>1 DEF Part, DeliveryOf, SweepOf, RetryOf, Decider, HasDecision, Worker
  <2>4. QED BY <1>7, <2>2, <2>3 DEF Mine
<1>12. QED
  BY <1>1, <1>4, <1>5, <1>6, <1>9, <1>10, <1>11, WorkMoves

\* What a decider knows, whoever it is.
LEMMA DeciderHas ==
  ASSUME IInv, NEW w \in Worker, work[w].at \in Decider
  PROVE  /\ work[w].newest \in stored \ only
         /\ work[w].newest \in work[w].took \/ HasDecision(work[w].newest)
<1> USE Types
<1>1. TypeOK /\ Part(w) /\ \A m \in Msg : Row(m)
  BY DEF IInv
<1>2. CASE w \in Delivery
  <2>1. DeliveryOf(w) /\ work[w].newest \in work[w].took /\ work[w].newest \in Msg
    BY <1>1, <1>2 DEF Part, DeliveryOf, Decider
  <2>2. QED
    BY <1>1, <2>1 DEF Row, DeliveryOf
<1>3. CASE w \in Sync
  BY <1>1, <1>3 DEF Part, SweepOf, RetryOf, Decider, Row, HasDecision
<1>4. QED BY <1>2, <1>3 DEF Worker

LEMMA CheckInv ==
  ASSUME IInv, NEW w \in Worker, Check(w)
  PROVE  IInv'
<1> USE Types
<1> DEFINE v == [work[w] EXCEPT !.at = IF work[w].newest \in executed THEN "after" ELSE "read"]
<1>1. TypeOK /\ Part(w) /\ Row(work[w].newest) /\ work[w].at = "check"
  BY DEF IInv, Check, At
<1>2. work' = [work EXCEPT ![w] = v] /\ UNCHANGED <<rows, history, age, paused, flips, deaths>>
  BY DEF Check, Goto, Become, world
<1>3. paused \in BOOLEAN /\ flips \in 0..Flips /\ deaths \in 0..Deaths
  BY <1>1 DEF TypeOK
<1>4. /\ v \in WorkState /\ v.task = work[w].task /\ v.took = work[w].took
      /\ v.newest = work[w].newest /\ v.life = work[w].life /\ v.todo = work[w].todo
      /\ v.tries = work[w].tries /\ v.overtaken = work[w].overtaken
      /\ \/ v.at = "read"
         \/ v.at = "after" /\ v.newest \in executed
  BY <1>1 DEF WorkState
<1> HIDE DEF v
<1>5. work'[w] = v
  BY <1>1, <1>2
<1>6. UNCHANGED <<card, stored, only, age, readWith, acted, shared>>
  BY <1>2 DEF rows, history
<1>7. v.at = "after" => HasDecision(v.newest)
  BY <1>1, <1>4 DEF Row
<1>8. Part(w)'
  <2>1. w \in Delivery => DeliveryOf(w)'
    BY <1>1, <1>4, <1>5, <1>6, <1>7 DEF Part, DeliveryOf, Undone, Past, Decider, Unread, HasDecision
  <2>2. w \in Sync /\ SweepOf(w) => SweepOf(w)'
    BY <1>1, <1>4, <1>5, <1>6, <1>7 DEF SweepOf, Undone, Past, Decider, HasDecision
  <2>3. w \in Sync /\ RetryOf(w) => RetryOf(w)'
    BY <1>1, <1>4, <1>5, <1>6, <1>7 DEF RetryOf, Decider, HasDecision
  <2>4. QED
    BY <1>1, <1>4, <1>5, <2>1, <2>2, <2>3 DEF Part
<1>9. KeepsAway(w)
  BY <1>1, <1>4, <1>5 DEF KeepsAway, Passed, Stays, Decider
<1>10. FreshOf(w)' /\ Mine(w)
  BY <1>1, <1>4, <1>5, <1>6 DEF IInv, Once, Alone, FreshOf, Mine, Decider, Undone
<1>11. QED
  BY <1>1, <1>2, <1>3, <1>4, <1>8, <1>9, <1>10, WorkMoves

LEMMA ReadAndPlanInv ==
  ASSUME IInv, NEW w \in Worker, NEW got \in Reading \cup {"unread", "handoff"}, ReadAndPlan(w, got)
  PROVE  IInv'
<1> USE Types
<1> DEFINE v == [work[w] EXCEPT !.at = "record", !.got = got]
<1>1. TypeOK /\ Part(w) /\ work[w].at = "read"
  BY DEF IInv, ReadAndPlan, At
<1>2. work' = [work EXCEPT ![w] = v] /\ UNCHANGED <<rows, history, age, paused, flips, deaths>>
  BY DEF ReadAndPlan, Become, world
<1>3. paused \in BOOLEAN /\ flips \in 0..Flips /\ deaths \in 0..Deaths
  BY <1>1 DEF TypeOK
<1>4. /\ v \in WorkState /\ v.task = work[w].task /\ v.took = work[w].took
      /\ v.newest = work[w].newest /\ v.life = work[w].life /\ v.todo = work[w].todo
      /\ v.tries = work[w].tries /\ v.overtaken = work[w].overtaken
      /\ v.at = "record"
  BY <1>1 DEF WorkState
<1> HIDE DEF v
<1>5. work'[w] = v
  BY <1>1, <1>2
<1>6. UNCHANGED <<card, stored, only, age, readWith, acted, shared>>
  BY <1>2 DEF rows, history
<1>8. Part(w)'
  <2>1. w \in Delivery => DeliveryOf(w)'
    BY <1>1, <1>4, <1>5, <1>6 DEF Part, DeliveryOf, Undone, Past, Decider, Unread, HasDecision
  <2>2. w \in Sync /\ SweepOf(w) => SweepOf(w)'
    BY <1>1, <1>4, <1>5, <1>6 DEF SweepOf, Undone, Past, Decider, HasDecision
  <2>3. w \in Sync /\ RetryOf(w) => RetryOf(w)'
    BY <1>1, <1>4, <1>5, <1>6 DEF RetryOf, Decider, HasDecision
  <2>4. QED
    BY <1>1, <1>4, <1>5, <2>1, <2>2, <2>3 DEF Part
<1>9. KeepsAway(w)
  BY <1>1, <1>4, <1>5 DEF KeepsAway, Passed, Stays, Decider
<1>10. FreshOf(w)' /\ Mine(w)
  BY <1>1, <1>4, <1>5, <1>6 DEF IInv, Once, Alone, FreshOf, Mine, Decider, Undone
<1>11. QED
  BY <1>1, <1>2, <1>3, <1>4, <1>8, <1>9, <1>10, WorkMoves

\* What a sweep takes up is there, free and older than a delivery.
LEMMA UndecidedIs ==
  ASSUME TypeOK
  PROVE  /\ Undecided \in SUBSET Msg /\ Undecided \subseteq stored \ only
         /\ \A m \in Undecided : card[m] = "none" /\ age[m] >= OldTicks
BY Types DEF Undecided

LEMMA SelectInv ==
  ASSUME IInv, NEW s \in Sync, Select(s)
  PROVE  IInv'
<1> USE Types
<1> DEFINE v == [Idle EXCEPT !.at = "overtaken", !.task = "sweep", !.todo = Undecided,
                             !.newest = Max(Undecided), !.life = FunctionTicks]
<1>1. TypeOK /\ work[s].at = "idle" /\ Undecided # {} /\ s \notin Delivery
  BY DecideAssumption DEF IInv, Select, At
<1>2. work' = [work EXCEPT ![s] = v] /\ UNCHANGED <<rows, history, age, paused, flips, deaths>>
  BY DEF Select, Become, world
<1>3. paused \in BOOLEAN /\ flips \in 0..Flips /\ deaths \in 0..Deaths
  BY <1>1 DEF TypeOK
<1>4. Max(Undecided) \in Undecided /\ \A m \in Undecided : m <= Max(Undecided)
  BY <1>1, UndecidedIs, MaxIsGreatest
<1>5. /\ v.at = "overtaken" /\ v.task = "sweep" /\ v.took = {} /\ v.todo = Undecided
      /\ v.newest = Max(Undecided)
  BY DEF Idle
<1>6. 1 \in Msg /\ FunctionTicks \in 0..FunctionTicks /\ 0 \in 0..Retries /\ Undecided \in SUBSET Msg
      /\ Max(Undecided) \in Msg
  BY <1>1, <1>4, UndecidedIs, DecideAssumption DEF Msg
<1>7. v \in WorkState
  BY <1>6 DEF Idle, WorkState
<1> HIDE DEF v
<1>8. work'[s] = v /\ UNCHANGED <<card, stored, only, age>>
  BY <1>1, <1>2 DEF rows, history
<1>9. Part(s)'
  <2>1. SweepOf(s)'
    BY <1>1, <1>4, <1>5, <1>8, UndecidedIs DEF SweepOf, Decider, Undone, Past
  <2>2. QED BY <1>1, <1>5, <1>8, <2>1 DEF Part
<1>10. KeepsAway(s) /\ FreshOf(s)' /\ Mine(s)
  BY <1>5, <1>8 DEF KeepsAway, Stays, FreshOf, Mine, Undone, Decider
<1>11. QED
  BY <1>1, <1>2, <1>3, <1>5, <1>7, <1>9, <1>10, WorkMoves

LEMMA LookOvertakenInv ==
  ASSUME IInv, NEW s \in Sync, LookOvertaken(s)
  PROVE  IInv'
<1> USE Types
<1> DEFINE overtaken == \E m \in Msg : m > work[s].newest /\ card[m] # "none"
           v == [work[s] EXCEPT !.at = "claim", !.overtaken = overtaken]
<1>1. TypeOK /\ Part(s) /\ work[s].at = "overtaken" /\ s \notin Delivery
  BY DecideAssumption DEF IInv, LookOvertaken, At
<1>2. work' = [work EXCEPT ![s] = v] /\ UNCHANGED <<rows, history, age, paused, flips, deaths>>
  BY DEF LookOvertaken, Become, world
<1>3. paused \in BOOLEAN /\ flips \in 0..Flips /\ deaths \in 0..Deaths
  BY <1>1 DEF TypeOK
<1>4. SweepOf(s) /\ work[s].task = "sweep"
  BY <1>1 DEF Part, RetryOf, Decider
<1>5. overtaken \in BOOLEAN
  OBVIOUS
<1>6. /\ v.task = work[s].task /\ v.took = work[s].took
      /\ v.newest = work[s].newest /\ v.todo = work[s].todo /\ v.at = "claim"
      /\ v.overtaken = overtaken /\ v \in WorkState
  <2> HIDE DEF overtaken
  <2>1. work[s] \in WorkState
    BY <1>1
  <2>2. \A b \in BOOLEAN : [work[s] EXCEPT !.at = "claim", !.overtaken = b] \in WorkState
    BY <2>1 DEF WorkState
  <2>3. v \in WorkState
    BY <1>5, <2>2
  <2>4. QED BY <2>1, <2>3 DEF WorkState
<1> HIDE DEF v
<1>7. work'[s] = v /\ UNCHANGED <<card, stored, only, age>>
  BY <1>1, <1>2 DEF rows, history
<1>8. Part(s)'
  <2>1. SweepOf(s)'
    BY <1>1, <1>4, <1>6, <1>7 DEF SweepOf, Decider, Undone, Past
  <2>2. QED BY <1>1, <1>4, <1>6, <1>7, <2>1 DEF Part
<1>9. KeepsAway(s)
  <2> SUFFICES ASSUME NEW m \in Msg, NEW later \in Msg, m < later, card[later] # "none", v.newest = m
               PROVE  overtaken
    BY <1>6, <1>7 DEF KeepsAway, Passed, Stays, Decider
  <2>1. QED BY <1>6
<1>10. FreshOf(s)' /\ Mine(s)
  BY <1>6, <1>7 DEF FreshOf, Mine, Undone, Decider
<1>11. QED
  BY <1>1, <1>2, <1>3, <1>6, <1>8, <1>9, <1>10, WorkMoves

LEMMA RetryInv ==
  ASSUME IInv, NEW s \in Sync, NEW m \in Msg, Retry(s, m)
  PROVE  IInv'
<1> USE Types
<1> DEFINE v == [Idle EXCEPT !.at = "check", !.task = "retry", !.newest = m,
                             !.tries = reads[m], !.life = FunctionTicks]
<1>1. TypeOK /\ work[s].at = "idle" /\ card[m] = "unread" /\ reads[m] < Retries /\ s \notin Delivery
      /\ Row(m)
  BY DecideAssumption DEF IInv, Retry, At
<1>2. work' = [work EXCEPT ![s] = v]
      /\ UNCHANGED <<rows, acted, readWith, held, age, paused, flips, deaths>>
      /\ shared' = IF \E u \in Worker : DecidesOn(u, m) THEN shared \cup {m} ELSE shared
  BY DEF Retry, Become, world
<1>3. paused \in BOOLEAN /\ flips \in 0..Flips /\ deaths \in 0..Deaths
  BY <1>1 DEF TypeOK
<1>4. /\ v.at = "check" /\ v.task = "retry" /\ v.took = {} /\ v.newest = m /\ v.tries = reads[m]
      /\ v \in WorkState
  <2>1. FunctionTicks \in 0..FunctionTicks /\ reads[m] \in 0..Retries
    BY <1>1
  <2>2. QED BY <2>1 DEF Idle, WorkState
<1> HIDE DEF v
<1>5. work'[s] = v /\ UNCHANGED <<card, stored, acted>>
  BY <1>1, <1>2 DEF rows
<1>6. Part(s)'
  BY <1>1, <1>4, <1>5 DEF Part, RetryOf, Decider, HasDecision, Row
<1>7. KeepsAway(s)
  BY <1>1, <1>4, <1>5 DEF KeepsAway, Passed, Stays
<1>8. shared \subseteq shared' /\ shared' \subseteq stored
  <2>1. m \in stored
    BY <1>1 DEF Row
  <2>2. QED BY <1>1, <1>2, <2>1
<1>9. FreshOf(s)'
  BY <1>1, <1>4, <1>5, <1>8 DEF FreshOf, IInv, Once, Written
<1>10. Mine(s)
  <2> SUFFICES ASSUME m \notin shared', NEW u \in Worker \ {s}, work[u].at \in Decider
               PROVE  work[u].newest # m
    BY <1>4, <1>5 DEF Mine
  <2>1. ~DecidesOn(u, m)
    BY <1>2
  <2>2. QED BY <2>1 DEF DecidesOn, Decider
<1>11. QED
  BY <1>1, <1>2, <1>3, <1>4, <1>6, <1>7, <1>8, <1>9, <1>10, TakesUp

LEMMA EndInv ==
  ASSUME IInv, NEW w \in Worker, Settled(w) \/ Kill(w)
  PROVE  IInv'
<1>1. TypeOK /\ work' = [work EXCEPT ![w] = Idle] /\ UNCHANGED <<rows, history, age, paused, flips>>
  BY DEF IInv, Settled, Kill, Become, world
<1>2. deaths' \in 0..Deaths
  BY <1>1, DecideAssumption DEF Settled, Kill, world, TypeOK
<1>3. paused \in BOOLEAN /\ flips \in 0..Flips
  BY <1>1 DEF TypeOK
<1>4. QED
  BY <1>1, <1>2, <1>3, IdleMoves

-----------------------------------------------------------------------------
(* The steps that write a row.                                              *)

\* What a step of one invocation has to show.
LEMMA Moves ==
  ASSUME IInv, NEW w \in Worker, NEW v, work' = [work EXCEPT ![w] = v], TypeOK', shared' = shared,
         Onward, Touches(w), stored \subseteq stored', \A m \in stored : age'[m] = age[m],
         only' = only \/ (w \in Delivery /\ work[w].at = "mark" /\ only' = only \cup work[w].took),
         \A u \in Worker \ {w} : v.took \cap work[u].took = {},
         Part(w)', \A m \in Msg : Row(m)',
         \A m, later \in Msg : m < later /\ m \in readWith'[later] =>
           /\ acted'[m] = {} /\ card'[m] # "unread" /\ card'[later] # "none"
           /\ Stays(w, m)' /\ \A u \in Worker \ {w} : Stays(u, m),
         \A m \in Msg : card'[m] = "together" =>
           card[m] = "together" \/ \E later \in Msg : later > m /\ HasDecision(later),
         Mine(w) /\ (\A u \in Worker : FreshOf(u)') /\ \A m \in Msg : Written(m)'
  PROVE  IInv'
<1> USE Types
<1>0. TypeOK /\ work'[w] = v /\ \A u \in Worker \ {w} : work'[u] = work[u]
  BY DEF IInv
<1>1. Apart'
  BY <1>0 DEF IInv, Apart
<1>2. \A u \in Worker : Part(u)'
  BY <1>0, OthersKept
<1>3. Taken'
  <2> SUFFICES ASSUME NEW m \in Msg, NEW later \in Msg, m < later, m \in readWith'[later]
               PROVE  Passed(m, later)'
    BY DEF Taken
  <2>1. \A u \in Worker \ {w} : Stays(u, m) => Stays(u, m)'
    BY <1>0 DEF Stays, Onward
  <2>2. QED BY <2>1 DEF Passed
<1>4. SettledAfterNewest'
  BY DEF IInv, SettledAfterNewest, Onward, HasDecision
<1>5. Alone'
  BY <1>0 DEF IInv, Once, Alone, Mine
<1>6. QED
  BY <1>1, <1>2, <1>3, <1>4, <1>5 DEF IInv, Once

\* The steps that write no decision: a claim and what becomes of one, and the
\* emails read with a later one.
LEMMA CardMoves ==
  ASSUME IInv, NEW w \in Worker, NEW v \in WorkState, work' = [work EXCEPT ![w] = v],
         UNCHANGED <<stored, only, executed, history, age>>,
         card' \in [Msg -> Card], reads' \in [Msg -> 0..Retries],
         paused' \in BOOLEAN, flips' \in 0..Flips, deaths' \in 0..Deaths,
         \A m \in Msg : card'[m] # card[m] =>
           /\ m \in stored \ only /\ card'[m] \in {"claim", "overtaken", "together", "failed"}
           /\ \/ m \in work[w].took /\ card[m] \in {"none", "claim"} /\ card'[m] # "claim"
              \/ card[m] = "none" /\ age[m] >= OldTicks,
         \A u \in Worker \ {w} : v.took \cap work[u].took = {}, v.took \cap only = {},
         Part(w)', KeepsAway(w),
         \A m \in Msg : card'[m] = "together" =>
           card[m] = "together" \/ \E later \in Msg : later > m /\ HasDecision(later),
         FreshOf(w)' /\ Mine(w)
  PROVE  IInv'
<1> USE Types
<1>0. TypeOK /\ work'[w] = v /\ \A u \in Worker \ {w} : work'[u] = work[u]
  BY DEF IInv
<1>1. UNCHANGED <<acted, readWith, held, shared>>
  BY DEF history
<1>2. TypeOK'
  <2>1. work' \in [Worker -> WorkState]
    BY <1>0
  <2>2. QED BY <1>0, <1>1, <2>1 DEF TypeOK
<1>3. Onward /\ Touches(w)
  BY <1>1 DEF Onward, Touches, HasDecision, Unread
<1>4. ASSUME NEW m \in Msg PROVE Row(m)'
  <2>1. Row(m)
    BY DEF IInv
  <2>2. m \in only => \A u \in Worker : m \notin work'[u].took
    BY <1>0, <2>1 DEF Row
  <2>3. QED
    BY <1>1, <2>1, <2>2 DEF Row, HasDecision, Unread
<1>5. ASSUME NEW m \in Msg, NEW later \in Msg, m < later, m \in readWith'[later]
      PROVE  /\ acted'[m] = {} /\ card'[m] # "unread" /\ card'[later] # "none"
             /\ Stays(w, m)' /\ \A u \in Worker \ {w} : Stays(u, m)
  <2>1. Passed(m, later)
    BY <1>1, <1>5 DEF IInv, Taken
  <2>2. QED
    BY <1>1, <1>3, <1>5, <2>1 DEF Passed, KeepsAway, Onward
<1>6. (\A u \in Worker : FreshOf(u)') /\ \A m \in Msg : Written(m)'
  <2>1. (\A u \in Worker : FreshOf(u)) /\ \A m \in Msg : Written(m)
    BY DEF IInv, Once
  <2>2. \A u \in Worker : FreshOf(u)'
    BY <1>0, <1>1, <2>1 DEF FreshOf
  <2>3. QED
    BY <1>1, <2>1, <2>2 DEF Written
<1> HIDE DEF history
<1>7. QED
  BY <1>1, <1>2, <1>3, <1>4, <1>5, <1>6, Moves

\* What a worker leaves a later step of its own: it looks after less.
LEMMA SettleInv ==
  ASSUME IInv, NEW d \in Delivery, Settle(d)
  PROVE  IInv'
<1> USE Types
<1> DEFINE n == work[d].newest
           m == Min(Earlier(d))
           v == [work[d] EXCEPT !.took = @ \ {m}]
<1>1. TypeOK /\ Part(d) /\ Row(n) /\ work[d].at = "after" /\ Earlier(d) # {} /\ d \notin Sync
  BY DecideAssumption DEF IInv, Settle, At
<1>2. DeliveryOf(d) /\ HasDecision(n) /\ n \in work[d].took /\ n \in stored
      /\ \A k \in work[d].took : k <= n
  BY <1>1 DEF Part, DeliveryOf, Past
<1>3. Earlier(d) \in SUBSET Msg
  BY <1>1 DEF Earlier
<1>4. m \in Earlier(d)
  BY <1>1, <1>3, MinIsLeast
<1>5. m \in work[d].took /\ m # n /\ m \in Msg /\ m < n
  <2>1. m \in work[d].took /\ m # n /\ m \in Msg
    BY <1>3, <1>4 DEF Earlier
  <2>2. QED BY <1>1, <1>2, <2>1
<1> HIDE DEF m
<1>6. /\ work' = [work EXCEPT ![d] = v]
      /\ card' = IF card[m] = "none" THEN [card EXCEPT ![m] = "together"] ELSE card
      /\ UNCHANGED <<stored, only, reads, executed, history, age, paused, flips, deaths>>
  BY DEF Settle, Become, world, m
<1>7. /\ v \in WorkState /\ v.at = "after" /\ v.task = work[d].task /\ v.took = work[d].took \ {m}
      /\ v.newest = n /\ v.life = work[d].life /\ v.todo = work[d].todo
  BY <1>1 DEF WorkState
<1> HIDE DEF v
<1>8. work'[d] = v /\ UNCHANGED readWith
  BY <1>1, <1>6 DEF history
<1>9. /\ card' \in [Msg -> Card]
      /\ \A k \in Msg : card'[k] # card[k] => k = m /\ card[k] = "none" /\ card'[k] = "together"
  BY <1>1, <1>5, <1>6 DEF Card
<1>10. m \in stored \ only
  BY <1>1, <1>2, <1>5 DEF DeliveryOf, IInv, Row
<1>11. Part(d)'
  <2>1. card'[n] \notin {"none", "claim"}
    BY <1>2, <1>5, <1>9, <1>1 DEF HasDecision
  <2>2. DeliveryOf(d)'
    BY <1>1, <1>2, <1>5, <1>6, <1>7, <1>8, <2>1 DEF DeliveryOf, Undone, Past, Decider, HasDecision
  <2>3. QED BY <1>1, <1>7, <1>8, <2>2 DEF Part
<1>12. KeepsAway(d) /\ FreshOf(d)' /\ Mine(d)
  BY <1>7, <1>8 DEF KeepsAway, Stays, FreshOf, Mine, Undone, Decider
<1>13. /\ \A u \in Worker \ {d} : v.took \cap work[u].took = {}
       /\ v.took \cap only = {}
  BY <1>1, <1>7 DEF IInv, Apart, Row
<1>14. reads' \in [Msg -> 0..Retries] /\ paused' \in BOOLEAN /\ flips' \in 0..Flips /\ deaths' \in 0..Deaths
  BY <1>1, <1>6 DEF TypeOK
<1>15. \A k \in Msg : card'[k] = "together" =>
         card[k] = "together" \/ \E later \in Msg : later > k /\ HasDecision(later)
  BY <1>1, <1>2, <1>5, <1>9
<1>16. \A k \in Msg : card'[k] # card[k] =>
         /\ k \in stored \ only /\ card'[k] \in {"claim", "overtaken", "together", "failed"}
         /\ \/ k \in work[d].took /\ card[k] \in {"none", "claim"} /\ card'[k] # "claim"
            \/ card[k] = "none" /\ age[k] >= OldTicks
  BY <1>5, <1>9, <1>10
<1>17. /\ d \in Worker /\ UNCHANGED <<stored, only, executed, history, age>>
       /\ work' = [work EXCEPT ![d] = v] /\ v \in WorkState /\ card' \in [Msg -> Card]
  BY <1>1, <1>6, <1>7, <1>9
<1>18. QED
  BY <1>11, <1>12, <1>13, <1>14, <1>15, <1>16, <1>17, CardMoves

LEMMA SettleClaimedInv ==
  ASSUME IInv, NEW s \in Sync, SettleClaimed(s)
  PROVE  IInv'
<1> USE Types
<1>1. TypeOK /\ Part(s) /\ work[s].at = "after" /\ work[s].task = "sweep" /\ s \notin Delivery
  BY DecideAssumption DEF IInv, SettleClaimed, At
<1>2. SweepOf(s) /\ HasDecision(work[s].newest)
  BY <1>1 DEF Part, SweepOf, Past
<1>3. /\ work' = [work EXCEPT ![s] = Idle]
      /\ card' = [m \in Msg |-> IF m \in Earlier(s) /\ card[m] = "claim" THEN "together" ELSE card[m]]
      /\ UNCHANGED <<stored, only, reads, executed, history, age, paused, flips, deaths>>
  BY DEF SettleClaimed, Become, world
<1>4. /\ Idle \in WorkState /\ Idle.took = {} /\ Idle.at = "idle" /\ Idle.task = "deliver"
  BY DecideAssumption DEF Idle, WorkState, Msg
<1>5. work'[s] = Idle
  BY <1>1, <1>3
<1>6. card' \in [Msg -> Card]
  BY <1>1, <1>3 DEF Card
<1>7. \A m \in Msg : card'[m] # card[m] =>
        m \in work[s].took /\ m # work[s].newest /\ card[m] = "claim" /\ card'[m] = "together"
  BY <1>3 DEF Earlier
<1>8. \A m \in Msg : card'[m] # card[m] =>
        /\ m \in stored \ only /\ card'[m] \in {"claim", "overtaken", "together", "failed"}
        /\ \/ m \in work[s].took /\ card[m] \in {"none", "claim"} /\ card'[m] # "claim"
           \/ card[m] = "none" /\ age[m] >= OldTicks
  BY <1>2, <1>7 DEF SweepOf
<1>9. \A m \in Msg : card'[m] = "together" =>
        card[m] = "together" \/ \E later \in Msg : later > m /\ HasDecision(later)
  <2> SUFFICES ASSUME NEW m \in Msg, card'[m] = "together", card[m] # "together"
               PROVE  work[s].newest > m
    BY <1>1, <1>2
  <2>1. m <= work[s].newest /\ m # work[s].newest
    BY <1>2, <1>7 DEF SweepOf
  <2>2. QED BY <1>1, <2>1
<1>10. Part(s)' /\ KeepsAway(s) /\ FreshOf(s)' /\ Mine(s)
  BY <1>1, <1>4, <1>5 DEF Part, KeepsAway, Stays, FreshOf, Mine, Undone, Decider
<1>11. reads' \in [Msg -> 0..Retries] /\ paused' \in BOOLEAN /\ flips' \in 0..Flips /\ deaths' \in 0..Deaths
  BY <1>1, <1>3 DEF TypeOK
<1>12. s \in Worker /\ UNCHANGED <<stored, only, executed, history, age>>
  BY <1>1, <1>3
<1>13. QED
  BY <1>3, <1>4, <1>6, <1>8, <1>9, <1>10, <1>11, <1>12, CardMoves

LEMMA CountTryInv ==
  ASSUME IInv, NEW s \in Sync, CountTry(s)
  PROVE  IInv'
<1> USE Types
<1>1. TypeOK /\ Part(s) /\ work[s].at = "after" /\ work[s].task = "retry" /\ s \notin Delivery
  BY DecideAssumption DEF IInv, CountTry, At
<1>2. RetryOf(s)
  BY <1>1 DEF Part
<1>3. /\ work' = [work EXCEPT ![s] = Idle]
      /\ reads' = IF card[work[s].newest] = "unread"
                  THEN [reads EXCEPT ![work[s].newest] = work[s].tries + 1] ELSE reads
      /\ UNCHANGED <<stored, only, card, executed, history, age, paused, flips, deaths>>
  BY DEF CountTry, Become, world
<1>4. /\ Idle \in WorkState /\ Idle.took = {} /\ Idle.at = "idle" /\ Idle.task = "deliver"
  BY DecideAssumption DEF Idle, WorkState, Msg
<1>5. work'[s] = Idle
  BY <1>1, <1>3
<1>6. Part(s)' /\ KeepsAway(s) /\ FreshOf(s)' /\ Mine(s)
  BY <1>1, <1>4, <1>5 DEF Part, KeepsAway, Stays, FreshOf, Mine, Undone, Decider
<1>7. reads' \in [Msg -> 0..Retries]
  <2>1. work[s].tries + 1 \in 0..Retries
    BY <1>1, <1>2 DEF RetryOf
  <2>2. QED BY <1>1, <1>3, <2>1
<1>8. card' \in [Msg -> Card] /\ paused' \in BOOLEAN /\ flips' \in 0..Flips /\ deaths' \in 0..Deaths
  BY <1>1, <1>3 DEF TypeOK
<1>9. s \in Worker /\ UNCHANGED <<stored, only, executed, history, age, card>>
  BY <1>1, <1>3
<1>10. QED
  BY <1>3, <1>4, <1>6, <1>7, <1>8, <1>9, CardMoves

LEMMA ThrowInv ==
  ASSUME IInv, NEW w \in Worker, Throw(w)
  PROVE  IInv'
<1> USE Types
<1> DEFINE v == IF work[w].task = "retry" THEN [work[w] EXCEPT !.at = "after"] ELSE Idle
<1>1. TypeOK /\ Part(w) /\ work[w].at \in Decider /\ Delivery \cap Sync = {}
  BY DecideAssumption DEF IInv, Throw, Decider
<1>2. /\ work' = [work EXCEPT ![w] = v]
      /\ card' = [m \in Msg |-> IF work[w].task = "sweep" /\ m \in work[w].took /\ card[m] = "claim"
                                THEN "failed" ELSE card[m]]
      /\ UNCHANGED <<stored, only, reads, executed, history, age, paused, flips>>
      /\ deaths' \in 0..Deaths
  <2>1. deaths' \in 0..Deaths
    BY <1>1, DecideAssumption DEF Throw, TypeOK
  <2>2. QED BY <2>1 DEF Throw, Goto, Become
<1>3. /\ Idle \in WorkState /\ Idle.took = {} /\ Idle.at = "idle" /\ Idle.task = "deliver"
  BY DecideAssumption DEF Idle, WorkState, Msg
<1>4. /\ v \in WorkState
      /\ \/ work[w].task # "retry" /\ v = Idle
         \/ /\ work[w].task = "retry" /\ v.at = "after" /\ v.task = "retry"
            /\ v.took = work[w].took /\ v.newest = work[w].newest /\ v.tries = work[w].tries
  BY <1>1, <1>3 DEF WorkState
<1> HIDE DEF v
<1>5. work'[w] = v
  BY <1>1, <1>2
<1>6. card' \in [Msg -> Card]
  BY <1>1, <1>2 DEF Card
<1>7. work[w].task = "retry" => w \in Sync /\ RetryOf(w)
  BY <1>1 DEF Part, DeliveryOf, Decider, Worker
<1>8. work[w].task = "sweep" => w \in Sync /\ SweepOf(w)
  BY <1>1 DEF Part, DeliveryOf, Decider, Worker
<1>9. \A m \in Msg : card'[m] # card[m] =>
        m \in stored \ only /\ m \in work[w].took /\ card[m] = "claim" /\ card'[m] = "failed"
  BY <1>2, <1>8 DEF SweepOf
<1>10. Part(w)'
  <2>1. CASE work[w].task = "retry"
    <3>1. RetryOf(w)'
      BY <1>1, <1>2, <1>4, <1>5, <1>7, <1>9, <2>1 DEF RetryOf, HasDecision
    <3>2. QED BY <1>1, <1>4, <1>5, <1>7, <2>1, <3>1 DEF Part
  <2>2. CASE work[w].task # "retry"
    BY <1>1, <1>3, <1>4, <1>5, <2>2 DEF Part, DeliveryOf, Undone, Past, Decider, Worker
  <2>3. QED BY <2>1, <2>2
<1>11. KeepsAway(w) /\ FreshOf(w)' /\ Mine(w)
  BY <1>3, <1>4, <1>5 DEF KeepsAway, Stays, FreshOf, Mine, Undone, Decider
<1>12. /\ \A u \in Worker \ {w} : v.took \cap work[u].took = {}
       /\ v.took \cap only = {}
  BY <1>1, <1>3, <1>4 DEF IInv, Apart, Row
<1>13. reads' \in [Msg -> 0..Retries] /\ paused' \in BOOLEAN /\ flips' \in 0..Flips
  BY <1>1, <1>2 DEF TypeOK
<1>14. \A m \in Msg : card'[m] # card[m] =>
        /\ m \in stored \ only /\ card'[m] \in {"claim", "overtaken", "together", "failed"}
        /\ \/ m \in work[w].took /\ card[m] \in {"none", "claim"} /\ card'[m] # "claim"
           \/ card[m] = "none" /\ age[m] >= OldTicks
  BY <1>9
<1>15. \A m \in Msg : card'[m] = "together" =>
         card[m] = "together" \/ \E later \in Msg : later > m /\ HasDecision(later)
  BY <1>9
<1>16. UNCHANGED <<stored, only, executed, history, age>>
  BY <1>2
<1>17. QED
  BY <1>2, <1>4, <1>6, <1>10, <1>11, <1>12, <1>13, <1>14, <1>15, <1>16, CardMoves

\* An email that is free for longer than a delivery lives is in nobody's hand.
LEMMA FreeIsNobodys ==
  ASSUME IInv, NEW m \in Msg, card[m] = "none", age[m] >= OldTicks, NEW u \in Worker
  PROVE  m \notin work[u].took
<1> USE Types
<1>1. TypeOK /\ Part(u)
  BY DEF IInv
<1>2. CASE u \in Delivery
  <2>1. SUFFICES ASSUME m \in work[u].took PROVE FALSE
    OBVIOUS
  <2>2. age[m] + work[u].life <= FunctionTicks
    BY <1>1, <1>2, <2>1 DEF Part, DeliveryOf
  <2>3. QED BY <1>1, <2>2
<1>3. CASE u \in Sync
  BY <1>1, <1>3 DEF Part, SweepOf, RetryOf
<1>4. QED BY <1>2, <1>3 DEF Worker

LEMMA ClaimInv ==
  ASSUME IInv, NEW s \in Sync, Claim(s)
  PROVE  IInv'
<1> USE Types
<1> DEFINE u == work[s]
           m == Min(u.todo)
           free == card[m] = "none"
           left == u.todo \ {m}
           took == IF free THEN u.took \cup {m} ELSE u.took
           v == IF left # {} THEN [u EXCEPT !.todo = left, !.took = took]
                ELSE IF u.overtaken \/ u.newest \notin took THEN Idle
                ELSE [u EXCEPT !.todo = {}, !.took = took, !.at = "check"]
<1>1. TypeOK /\ Part(s) /\ u.at = "claim" /\ s \notin Delivery /\ s \in Worker
  BY DecideAssumption DEF IInv, Claim, At
<1>2. SweepOf(s) /\ u.task = "sweep"
  BY <1>1 DEF Part, RetryOf, Decider
<1>3. u.todo # {} /\ u.todo \in SUBSET Msg /\ u.took \in SUBSET Msg /\ u \in WorkState /\ u.newest \in Msg
  BY <1>1, <1>2 DEF SweepOf
<1>4. m \in u.todo /\ m \in Msg
  BY <1>3, MinIsLeast
<1> HIDE DEF m
<1>5. /\ work' = [work EXCEPT ![s] = v]
      /\ card' = IF free THEN [card EXCEPT ![m] = IF u.overtaken THEN "overtaken" ELSE "claim"]
                 ELSE card
      /\ UNCHANGED <<stored, only, reads, executed, history, age, paused, flips, deaths>>
  BY DEF Claim, Become, world, m
<1>6. /\ m \in stored \ only /\ age[m] >= OldTicks /\ m <= u.newest
      /\ u.took \cup u.todo \cup {u.newest} \subseteq stored \ only
  BY <1>2, <1>4 DEF SweepOf
<1>7. took \in SUBSET Msg /\ left \in SUBSET Msg /\ took \subseteq u.took \cup {m} /\ took \subseteq stored \ only
  BY <1>3, <1>4, <1>6
<1>8. /\ Idle \in WorkState /\ Idle.took = {} /\ Idle.at = "idle" /\ Idle.task = "deliver"
  BY DecideAssumption DEF Idle, WorkState, Msg
<1>9. /\ card' \in [Msg -> Card]
      /\ \A k \in Msg : card'[k] # card[k] =>
           k = m /\ free /\ card'[k] = IF u.overtaken THEN "overtaken" ELSE "claim"
      /\ card'[m] # "none"
      /\ free /\ ~u.overtaken => card'[m] = "claim"
  BY <1>1, <1>4, <1>5 DEF Card
<1>10. free => m \in took
  OBVIOUS
<1>11. \A k \in took : k # m \/ ~free => k \in u.took
  OBVIOUS
<1>12. \A t \in Worker \ {s} : took \cap work[t].took = {}
  <2>1. \A t \in Worker \ {s} : u.took \cap work[t].took = {}
    BY <1>1 DEF IInv, Apart
  <2>2. free => \A t \in Worker : m \notin work[t].took
    BY <1>4, <1>6, FreeIsNobodys
  <2>3. QED BY <2>1, <2>2
<1> HIDE DEF free, took
<1>13. \A k \in took : card'[k] # "none" /\ (~u.overtaken => card'[k] = "claim")
                       /\ age[k] >= OldTicks /\ k <= u.newest
  BY <1>1, <1>2, <1>4, <1>6, <1>7, <1>9, <1>11 DEF SweepOf
<1>14. /\ v \in WorkState
       /\ \/ v = Idle
          \/ /\ v.at = "claim" /\ v.todo = left /\ left # {} /\ v.took = took
             /\ v.newest = u.newest /\ v.overtaken = u.overtaken /\ v.task = "sweep"
          \/ /\ v.at = "check" /\ v.todo = {} /\ v.took = took /\ ~u.overtaken /\ u.newest \in took
             /\ v.newest = u.newest /\ v.task = "sweep"
  <2> HIDE DEF left
  <2>1. /\ [u EXCEPT !.todo = left, !.took = took] \in WorkState
        /\ [u EXCEPT !.todo = {}, !.took = took, !.at = "check"] \in WorkState
    BY <1>3, <1>7 DEF WorkState
  <2>2. CASE left # {}
    <3>1. v = [u EXCEPT !.todo = left, !.took = took]
      BY <2>2
    <3>2. QED BY <1>1, <1>2, <1>3, <2>1, <2>2, <3>1 DEF WorkState
  <2>3. CASE left = {} /\ (u.overtaken \/ u.newest \notin took)
    BY <1>8, <2>3
  <2>4. CASE left = {} /\ ~u.overtaken /\ u.newest \in took
    <3>1. v = [u EXCEPT !.todo = {}, !.took = took, !.at = "check"]
      BY <2>4
    <3>2. QED BY <1>2, <1>3, <2>1, <2>4, <3>1 DEF WorkState
  <2>5. QED BY <2>2, <2>3, <2>4
<1> HIDE DEF v
<1>15. work'[s] = v /\ UNCHANGED <<stored, only, age>>
  BY <1>1, <1>5
<1>16. Part(s)'
  <2>1. CASE v = Idle
    BY <1>1, <1>8, <1>15, <2>1 DEF Part
  <2>2. CASE v.at = "claim" /\ v.took = took /\ v.newest = u.newest /\ v.overtaken = u.overtaken
             /\ v.task = "sweep" /\ v.todo = left /\ left # {}
    <3>1. u.newest \in left \cup took \/ card'[u.newest] # "none"
      BY <1>2, <1>3, <1>4, <1>9, <1>10, <1>1, <1>11 DEF SweepOf, took
    <3>2. SweepOf(s)'
      BY <1>2, <1>6, <1>7, <1>13, <1>15, <2>2, <3>1 DEF SweepOf, Decider, Undone, Past
    <3>3. QED BY <1>1, <1>15, <2>2, <3>2 DEF Part
  <2>3. CASE v.at = "check" /\ v.took = took /\ v.newest = u.newest /\ ~u.overtaken
             /\ u.newest \in took /\ v.task = "sweep" /\ v.todo = {}
    <3>1. SweepOf(s)'
      BY <1>6, <1>7, <1>13, <1>15, <2>3 DEF SweepOf, Decider, Undone, Past
    <3>2. QED BY <1>1, <1>15, <2>3, <3>1 DEF Part
  <2>4. QED BY <1>14, <2>1, <2>2, <2>3
<1>17. KeepsAway(s)
  <2> SUFFICES ASSUME NEW k \in Msg, Stays(s, k) PROVE Stays(s, k)'
    BY <1>1 DEF KeepsAway, Passed
  <2>1. u.newest = k => u.overtaken \/ (card[k] # "none" /\ k \notin u.took)
    BY <1>1 DEF Stays
  <2>2. u.newest = k => u.overtaken \/ (card'[k] # "none" /\ k \notin took)
    BY <1>9, <1>7, <1>11, <2>1 DEF free
  <2>3. QED
    BY <1>8, <1>14, <1>15, <2>2 DEF Stays, Decider
<1>18. ASSUME v.at = "check" PROVE card[u.newest] \in {"none", "claim"} /\ u.newest \in took
  <2>1. u.newest \in took /\ ~u.overtaken
    BY <1>8, <1>14, <1>18
  <2>2. u.newest \in u.took \/ (u.newest = m /\ free)
    BY <1>7, <1>11, <2>1
  <2>3. QED BY <1>1, <1>2, <2>1, <2>2 DEF SweepOf, free
<1>19. FreshOf(s)'
  <2>1. v.at = "check" => acted[u.newest] = {}
    BY <1>3, <1>18 DEF IInv, Row
  <2>2. QED
    BY <1>5, <1>8, <1>14, <1>15, <2>1 DEF FreshOf, Undone, history
<1>20. Mine(s)
  <2> SUFFICES ASSUME v.at = "check", NEW t \in Worker \ {s}, work[t].at \in Decider
               PROVE  work[t].newest # v.newest
    BY <1>8, <1>14, <1>15 DEF Mine, Decider
  <2>1. v.newest = u.newest /\ card[u.newest] \in {"none", "claim"} /\ u.newest \in took
    BY <1>8, <1>14, <1>18
  <2>2. QED
    BY <1>12, <2>1, DeciderHas DEF HasDecision
<1>21. v.took \cap only = {} /\ \A t \in Worker \ {s} : v.took \cap work[t].took = {}
  BY <1>7, <1>8, <1>12, <1>14
<1>22. \A k \in Msg : card'[k] # card[k] =>
        /\ k \in stored \ only /\ card'[k] \in {"claim", "overtaken", "together", "failed"}
        /\ \/ k \in work[s].took /\ card[k] \in {"none", "claim"} /\ card'[k] # "claim"
           \/ card[k] = "none" /\ age[k] >= OldTicks
  BY <1>6, <1>9 DEF free
<1>23. \A k \in Msg : card'[k] = "together" => card[k] = "together"
  BY <1>9
<1>24. reads' \in [Msg -> 0..Retries] /\ paused' \in BOOLEAN /\ flips' \in 0..Flips /\ deaths' \in 0..Deaths
  BY <1>1, <1>5 DEF TypeOK
<1>25. /\ UNCHANGED <<stored, only, executed, history, age>> /\ card' \in [Msg -> Card]
       /\ work' = [work EXCEPT ![s] = v] /\ v \in WorkState
  BY <1>5, <1>9, <1>14
<1>26. QED
  BY <1>1, <1>16, <1>17, <1>19, <1>20, <1>21, <1>22, <1>23, <1>24, <1>25, CardMoves

\* A step that writes no card, reads nothing and changes no result.
LEMMA SameCards ==
  ASSUME IInv, NEW w \in Worker, UNCHANGED <<card, readWith, acted>>
  PROVE  /\ Onward /\ Touches(w)
         /\ \A m, later \in Msg : m < later /\ m \in readWith'[later] =>
              /\ acted'[m] = {} /\ card'[m] # "unread" /\ card'[later] # "none"
              /\ \A u \in Worker : Stays(u, m)
         /\ \A m \in Msg : card'[m] = "together" =>
              card[m] = "together" \/ \E later \in Msg : later > m /\ HasDecision(later)
<1>1. Onward /\ Touches(w)
  BY DEF Onward, Touches, HasDecision, Unread
<1>2. Taken
  BY DEF IInv
<1>3. QED BY <1>1, <1>2 DEF Taken, Passed

LEMMA StoreInv ==
  ASSUME IInv, NEW d \in Delivery, Store(d)
  PROVE  IInv'
<1> USE Types
<1> DEFINE u == work[d]
           m == Min(u.todo)
           new == m \notin stored
           left == u.todo \ {m}
           took == IF new THEN u.took \cup {m} ELSE u.took
           last == [u EXCEPT !.todo = {}, !.took = took, !.newest = Max(took),
                             !.at = IF u.paused THEN "mark" ELSE "seen"]
           v == IF left # {} THEN [u EXCEPT !.todo = left, !.took = took]
                ELSE IF took = {} THEN Idle ELSE last
<1>1. TypeOK /\ Part(d) /\ u.at = "store" /\ d \notin Sync /\ d \in Worker
  BY DecideAssumption DEF IInv, Store, At
<1>2. DeliveryOf(d)
  BY <1>1 DEF Part
<1>3. u.todo # {} /\ u.todo \in SUBSET Msg /\ u.took \in SUBSET Msg /\ u \in WorkState
  BY <1>1, <1>2 DEF DeliveryOf
<1>4. m \in u.todo /\ m \in Msg
  BY <1>3, MinIsLeast
<1> HIDE DEF m
<1>5. /\ work' = [work EXCEPT ![d] = v]
      /\ stored' = stored \cup {m}
      /\ age' = IF new THEN [age EXCEPT ![m] = 0] ELSE age
      /\ held' = IF new /\ u.paused THEN held \cup {m} ELSE held
      /\ UNCHANGED <<only, card, reads, executed, acted, readWith, shared, paused, flips, deaths>>
  BY DEF Store, Become, m
<1>6. took \in SUBSET Msg /\ left \in SUBSET Msg /\ took \subseteq stored' /\ took \subseteq u.took \cup {m}
  BY <1>2, <1>3, <1>4, <1>5 DEF DeliveryOf
<1>7. /\ Idle \in WorkState /\ Idle.took = {} /\ Idle.at = "idle" /\ Idle.task = "deliver"
  BY DecideAssumption DEF Idle, WorkState, Msg
<1>8. /\ age' \in [Msg -> 0..OldTicks]
      /\ \A k \in stored : age'[k] = age[k]
      /\ new => age'[m] = 0
  BY <1>1, <1>4, <1>5
<1>9. new => card[m] = "none" /\ Unread(m) /\ m \notin only /\ \A t \in Worker : m \notin work[t].took
  <2>1. SUFFICES ASSUME new PROVE card[m] = "none" /\ Unread(m) /\ m \notin only
                                  /\ \A t \in Worker : m \notin work[t].took
    OBVIOUS
  <2>2. card[m] = "none" /\ Unread(m) /\ m \notin only
    BY <1>1, <1>4, <2>1 DEF IInv, Row, Unread
  <2>3. \A t \in Worker : work[t].took \subseteq stored
    BY DEF IInv, Part, DeliveryOf, SweepOf, RetryOf, Worker
  <2>4. QED BY <2>1, <2>2, <2>3
<1>10. \A k \in took : k \notin u.took => k = m /\ new
  OBVIOUS
<1>11. \A k \in took : card[k] = "none" /\ Unread(k) /\ k \notin only /\ age'[k] + u.life <= FunctionTicks
  <2> SUFFICES ASSUME NEW k \in took
               PROVE  card[k] = "none" /\ Unread(k) /\ k \notin only /\ age'[k] + u.life <= FunctionTicks
    OBVIOUS
  <2>1. CASE k \in u.took
    BY <1>1, <1>2, <1>3, <1>8, <2>1 DEF DeliveryOf, IInv, Row
  <2>2. CASE k \notin u.took
    BY <1>1, <1>8, <1>9, <1>10, <2>2
  <2>3. QED BY <2>1, <2>2
<1>12. \A t \in Worker \ {d} : took \cap work[t].took = {}
  BY <1>1, <1>9, <1>10 DEF IInv, Apart
<1> HIDE DEF new, left, took
<1>13. took # {} => Max(took) \in took /\ \A k \in took : k <= Max(took)
  BY <1>6, MaxIsGreatest
<1>14. /\ v \in WorkState
       /\ \/ v = Idle
          \/ /\ v.at = "store" /\ v.todo # {} /\ v.took = took /\ v.life = u.life /\ v.task = u.task
          \/ /\ v.at \in {"mark", "seen"} /\ v.took = took /\ v.life = u.life /\ v.task = u.task
             /\ v.newest \in took /\ \A k \in took : k <= v.newest
  <2>1. CASE left # {}
    <3>1. v = [u EXCEPT !.todo = left, !.took = took]
      BY <2>1
    <3>2. QED BY <1>1, <1>3, <1>6, <2>1, <3>1 DEF WorkState
  <2>2. CASE left = {} /\ took = {}
    BY <1>7, <2>2
  <2>3. CASE left = {} /\ took # {}
    <3>1. v = last /\ Max(took) \in Msg
      BY <1>6, <1>13, <2>3
    <3>2. last \in WorkState
      BY <1>3, <1>6, <3>1 DEF WorkState
    <3>3. /\ last.at \in {"mark", "seen"} /\ last.took = took /\ last.life = u.life /\ last.task = u.task
          /\ last.newest = Max(took)
      BY <1>3 DEF WorkState
    <3> HIDE DEF last, v
    <3>4. QED BY <1>13, <2>3, <3>1, <3>2, <3>3
  <2>4. QED BY <2>1, <2>2, <2>3
<1> HIDE DEF v
<1>15. work'[d] = v
  BY <1>1, <1>5
<1>16. Part(d)'
  <2>1. DeliveryOf(d)'
    <3>1. CASE v = Idle
      BY <1>7, <1>15, <3>1 DEF DeliveryOf, Decider, Undone, Past
    <3>2. CASE v.at = "store" /\ v.todo # {} /\ v.took = took /\ v.life = u.life /\ v.task = u.task
      BY <1>2, <1>5, <1>6, <1>11, <1>15, <3>2 DEF DeliveryOf, Decider, Undone, Past, Unread
    <3>3. CASE v.at \in {"mark", "seen"} /\ v.took = took /\ v.life = u.life /\ v.task = u.task
               /\ v.newest \in took /\ \A k \in took : k <= v.newest
      BY <1>2, <1>5, <1>6, <1>11, <1>15, <3>3 DEF DeliveryOf, Decider, Undone, Past, Unread
    <3>4. QED BY <1>14, <3>1, <3>2, <3>3
  <2>2. v.at \notin {"run", "result"}
    BY <1>7, <1>14
  <2>3. QED BY <1>1, <1>15, <2>1, <2>2 DEF Part
<1>17. v.took \subseteq took
  BY <1>7, <1>14
<1>18. TypeOK'
  <2>1. /\ stored' \subseteq Msg /\ only' \subseteq stored' /\ executed' \subseteq stored'
        /\ held' \subseteq stored'
    BY <1>1, <1>4, <1>5
  <2>2. readWith' \in [Msg -> SUBSET stored'] /\ work' \in [Worker -> WorkState]
    BY <1>1, <1>5, <1>14
  <2>3. QED BY <1>1, <1>5, <1>8, <2>1, <2>2 DEF TypeOK
<1>19. ASSUME NEW k \in Msg PROVE Row(k)'
  <2>1. Row(k) /\ stored \subseteq stored'
    BY <1>5 DEF IInv
  <2>2. k \in only => \A t \in Worker : k \notin work'[t].took
    <3>1. \A t \in Worker \ {d} : work'[t] = work[t]
      BY <1>1, <1>5
    <3>2. \A t \in Worker \ {d} : k \in only => k \notin work'[t].took
      BY <2>1, <3>1 DEF Row
    <3>3. k \in only => k \notin work'[d].took
      BY <1>11, <1>15, <1>17
    <3>4. QED BY <3>2, <3>3
  <2>3. QED
    BY <1>5, <2>1, <2>2 DEF Row, HasDecision, Unread
<1>20. \A k, later \in Msg : k < later /\ k \in readWith'[later] => Stays(d, k)'
  <2>1. v.at = "seen" => v.newest \in took
    BY <1>7, <1>14
  <2>2. v.at \notin Decider \cup {"claim"}
    BY <1>7, <1>14 DEF Decider
  <2>3. QED
    BY <1>5, <1>11, <1>15, <2>1, <2>2 DEF Stays, Unread
<1>21. Mine(d) /\ (\A t \in Worker : FreshOf(t)') /\ \A k \in Msg : Written(k)'
  <2>1. v.at \notin Decider /\ UNCHANGED <<card, acted, shared>>
    BY <1>5, <1>7, <1>14 DEF Decider
  <2>2. \A t \in Worker : FreshOf(t)'
    BY <1>1, <1>5, <1>15, <2>1 DEF IInv, Once, FreshOf, Decider, Undone
  <2>3. QED
    BY <1>15, <2>1, <2>2 DEF IInv, Once, Mine, Written
<1>22. /\ UNCHANGED <<card, readWith, acted, shared>> /\ only' = only /\ stored \subseteq stored'
       /\ work' = [work EXCEPT ![d] = v]
       /\ \A t \in Worker \ {d} : v.took \cap work[t].took = {}
  BY <1>5, <1>12, <1>17
<1>23. /\ Onward /\ Touches(d)
       /\ \A m1, later \in Msg : m1 < later /\ m1 \in readWith'[later] =>
            /\ acted'[m1] = {} /\ card'[m1] # "unread" /\ card'[later] # "none"
            /\ Stays(d, m1)' /\ \A t \in Worker \ {d} : Stays(t, m1)
       /\ \A m1 \in Msg : card'[m1] = "together" =>
            card[m1] = "together" \/ \E later \in Msg : later > m1 /\ HasDecision(later)
  BY <1>1, <1>20, <1>22, SameCards
<1>24. QED
  BY <1>1, <1>8, <1>16, <1>18, <1>19, <1>21, <1>22, <1>23, Moves

LEMMA MarkStoreOnlyInv ==
  ASSUME IInv, NEW d \in Delivery, MarkStoreOnly(d)
  PROVE  IInv'
<1> USE Types
<1>1. TypeOK /\ Part(d) /\ work[d].at = "mark" /\ d \notin Sync /\ d \in Worker
  BY DecideAssumption DEF IInv, MarkStoreOnly, At
<1>2. DeliveryOf(d)
  BY <1>1 DEF Part
<1>3. /\ work' = [work EXCEPT ![d] = Idle]
      /\ only' = only \cup work[d].took
      /\ UNCHANGED <<stored, card, reads, executed, acted, readWith, held, shared, age, paused, flips, deaths>>
  BY DEF MarkStoreOnly, Become, world, history
<1>4. /\ Idle \in WorkState /\ Idle.took = {} /\ Idle.at = "idle" /\ Idle.task = "deliver"
  BY DecideAssumption DEF Idle, WorkState, Msg
<1>5. work'[d] = Idle /\ \A t \in Worker \ {d} : work'[t] = work[t]
  BY <1>1, <1>3
<1>6. Part(d)'
  BY <1>1, <1>4, <1>5 DEF Part, DeliveryOf, Decider, Undone, Past
<1>7. \A m \in work[d].took : m \in stored /\ card[m] = "none" /\ Unread(m)
  BY <1>1, <1>2 DEF DeliveryOf
<1>8. TypeOK'
  BY <1>1, <1>3, <1>4, <1>7 DEF TypeOK
<1>9. ASSUME NEW m \in Msg PROVE Row(m)'
  <2>1. Row(m)
    BY DEF IInv
  <2>2. m \in only' => card[m] = "none" /\ Unread(m)
    BY <1>3, <1>7, <2>1 DEF Row
  <2>3. m \in only' => \A t \in Worker : m \notin work'[t].took
    BY <1>1, <1>3, <1>4, <1>5, <2>1 DEF IInv, Apart, Row
  <2>4. QED
    BY <1>3, <2>1, <2>2, <2>3 DEF Row, HasDecision, Unread
<1>10. Mine(d) /\ (\A t \in Worker : FreshOf(t)') /\ \A k \in Msg : Written(k)'
  BY <1>3, <1>4, <1>5 DEF IInv, Once, FreshOf, Mine, Written, Decider, Undone
<1>11. \A k \in Msg : Stays(d, k)'
  BY <1>4, <1>5 DEF Stays, Decider
<1>12. /\ UNCHANGED <<card, readWith, acted, shared>> /\ stored \subseteq stored' /\ \A m \in stored : age'[m] = age[m]
       /\ \A t \in Worker \ {d} : Idle.took \cap work[t].took = {}
  BY <1>3, <1>4
<1>13. /\ Onward /\ Touches(d)
       /\ \A m, later \in Msg : m < later /\ m \in readWith'[later] =>
            /\ acted'[m] = {} /\ card'[m] # "unread" /\ card'[later] # "none"
            /\ Stays(d, m)' /\ \A t \in Worker \ {d} : Stays(t, m)
       /\ \A m \in Msg : card'[m] = "together" =>
            card[m] = "together" \/ \E later \in Msg : later > m /\ HasDecision(later)
  BY <1>1, <1>11, <1>12, SameCards
<1>14. QED
  BY <1>1, <1>3, <1>6, <1>8, <1>9, <1>10, <1>12, <1>13, Moves

-----------------------------------------------------------------------------
(* The steps of a decision.                                                 *)

\* What a worker has in hand besides its newest email nobody else decides on.
LEMMA HandKept ==
  ASSUME IInv, NEW w \in Worker, work[w].at \in Undone, NEW k \in work[w].took, k # work[w].newest
  PROVE  /\ acted[k] = {} /\ card[k] \in {"none", "claim"}
         /\ \A u \in Worker \ {w} : Stays(u, k)
<1> USE Types
<1>1. TypeOK /\ Part(w) /\ k \in Msg
  BY DEF IInv
<1>2. \/ /\ w \in Delivery /\ card[k] = "none" /\ age[k] < OldTicks
      \/ /\ w \in Sync /\ card[k] = "claim"
  <2>1. CASE w \in Delivery
    <3>1. card[k] = "none" /\ age[k] + work[w].life <= FunctionTicks
      BY <1>1, <2>1 DEF Part, DeliveryOf
    <3>2. QED BY <1>1, <2>1, <3>1
  <2>2. CASE w \in Sync
    BY <1>1, <2>2 DEF Part, SweepOf, RetryOf, Undone, Decider
  <2>3. QED BY <2>1, <2>2 DEF Worker
<1>3. acted[k] = {} /\ card[k] \in {"none", "claim"}
  BY <1>1, <1>2 DEF IInv, Row
<1>4. ASSUME NEW u \in Worker \ {w} PROVE Stays(u, k)
  <2>1. Part(u) /\ k \notin work[u].took
    BY DEF IInv, Apart
  <2>2. CASE u \in Delivery
    BY <2>1, <2>2 DEF Part, DeliveryOf, Stays, Decider
  <2>3. CASE u \in Sync /\ work[u].at = "idle"
    BY <2>3 DEF Stays, Decider
  <2>4. CASE u \in Sync /\ SweepOf(u)
    <3>1. work[u].newest = k => work[u].at \notin Decider \cup {"seen"}
      BY <2>1, <2>4 DEF SweepOf, Decider
    <3>2. k \in work[u].todo => age[k] >= OldTicks
      BY <2>4 DEF SweepOf
    <3>3. work[u].newest = k /\ work[u].at = "claim" => card[k] # "none"
      BY <1>1, <1>2, <2>1, <2>4, <3>2 DEF SweepOf
    <3>4. QED BY <2>1, <3>1, <3>3 DEF Stays
  <2>5. CASE u \in Sync /\ RetryOf(u)
    BY <1>3, <2>5 DEF RetryOf, HasDecision, Stays
  <2>6. QED BY <2>1, <2>2, <2>3, <2>4, <2>5 DEF Part, Worker
<1>5. QED BY <1>3, <1>4

\* A decider is at none of the emails that were read with a later one.
LEMMA DecidesNotPassed ==
  ASSUME IInv, NEW w \in Worker, work[w].at \in Decider,
         NEW k \in Msg, NEW later \in Msg, k < later, k \in readWith[later]
  PROVE  /\ k # work[w].newest /\ acted[k] = {} /\ card[k] # "unread" /\ card[later] # "none"
         /\ \A u \in Worker : Stays(u, k)
<1>1. Passed(k, later)
  BY DEF IInv, Taken
<1>2. QED BY <1>1 DEF Passed, Stays

LEMMA RecordInv ==
  ASSUME IInv, NEW w \in Worker, Record(w)
  PROVE  IInv'
<1> USE Types
<1> DEFINE u == work[w]
           m == u.newest
           v == [u EXCEPT !.at = IF u.got \in Reading THEN "run" ELSE "after"]
<1>1. TypeOK /\ Part(w) /\ Row(m) /\ u.at = "record" /\ u.at \in Decider /\ u.at \in Undone
      /\ u \in WorkState /\ m \in Msg /\ u.took \in SUBSET Msg
  BY DEF IInv, Record, At, Decider, Undone
<1>2. m \in stored \ only /\ (m \in u.took \/ HasDecision(m))
  BY <1>1, DeciderHas
<1>3. /\ work' = [work EXCEPT ![w] = v]
      /\ card' = [card EXCEPT ![m] = IF u.got \in Reading THEN "write" ELSE u.got]
      /\ reads' = [reads EXCEPT ![m] = 0]
      /\ readWith' = IF u.got = "unread" THEN readWith ELSE [readWith EXCEPT ![m] = u.took \cup {m}]
      /\ UNCHANGED <<stored, only, executed, acted, held, shared, age, paused, flips, deaths>>
  BY DEF Record, Goto, Become, world
<1>4. /\ v \in WorkState /\ v.task = u.task /\ v.took = u.took /\ v.newest = m
      /\ v.life = u.life /\ v.todo = u.todo /\ v.tries = u.tries /\ v.got = u.got
      /\ v.at = IF u.got \in Reading THEN "run" ELSE "after"
  BY <1>1 DEF WorkState
<1> HIDE DEF v
<1>5. work'[w] = v /\ \A t \in Worker \ {w} : work'[t] = work[t]
  BY <1>1, <1>3
<1>6. /\ card' \in [Msg -> Card]
      /\ \A k \in Msg \ {m} : card'[k] = card[k]
      /\ card'[m] \in {"write", "unread", "handoff"}
      /\ u.got \in Reading => card'[m] = "write"
  BY <1>1, <1>3 DEF Card
<1>7. \A k \in u.took : k \in stored \ only /\ k <= m
  <2>1. u.took \subseteq stored /\ \A k \in u.took : k <= m
    BY <1>1 DEF Part, DeliveryOf, SweepOf, RetryOf, Worker, Decider
  <2>2. QED BY <1>1, <2>1 DEF IInv, Row
<1>8. \A k \in Msg, l \in Msg : k \in readWith'[l] => k \in readWith[l] \/ (l = m /\ k \in u.took \cup {m})
  BY <1>1, <1>3
<1>9. Onward
  BY <1>1, <1>6 DEF Onward, HasDecision
<1>10. Touches(w)
  BY <1>1, <1>2, <1>6, <1>8 DEF Touches, Unread
<1>11. TypeOK'
  <2>1. 0 \in 0..Retries /\ reads' \in [Msg -> 0..Retries]
    BY <1>1, <1>3
  <2>2. readWith' \in [Msg -> SUBSET stored]
    BY <1>1, <1>2, <1>3, <1>7
  <2>3. work' \in [Worker -> WorkState]
    BY <1>1, <1>3, <1>4
  <2>4. QED BY <1>1, <1>3, <1>6, <2>1, <2>2, <2>3 DEF TypeOK
<1>12. Part(w)'
  <2>1. w \in Delivery => DeliveryOf(w)'
    BY <1>1, <1>3, <1>4, <1>5, <1>6, <1>7 DEF Part, DeliveryOf, Undone, Past, Decider, HasDecision
  <2>2. w \in Sync /\ SweepOf(w) => SweepOf(w)'
    BY <1>1, <1>3, <1>4, <1>5, <1>6 DEF SweepOf, Undone, Past, Decider, HasDecision
  <2>3. w \in Sync /\ RetryOf(w) => RetryOf(w)'
    BY <1>1, <1>3, <1>4, <1>5, <1>6 DEF RetryOf, Decider, HasDecision
  <2>4. QED
    BY <1>1, <1>4, <1>5, <2>1, <2>2, <2>3 DEF Part
<1>13. ASSUME NEW k \in Msg PROVE Row(k)'
  <2>1. Row(k)
    BY DEF IInv
  <2>2. k \in only => k # m /\ k \notin u.took /\ \A t \in Worker : k \notin work'[t].took
    BY <1>2, <1>4, <1>5, <1>7, <2>1 DEF Row
  <2>3. k \in only => Unread(k)'
    BY <1>8, <2>1, <2>2 DEF Row, Unread
  <2>4. QED
    BY <1>2, <1>3, <1>6, <2>1, <2>2, <2>3 DEF Row, HasDecision
<1>14. ASSUME NEW k \in Msg, NEW later \in Msg, k < later, k \in readWith'[later]
       PROVE  /\ acted'[k] = {} /\ card'[k] # "unread" /\ card'[later] # "none"
              /\ Stays(w, k)' /\ \A t \in Worker \ {w} : Stays(t, k)
  <2>1. k # m => Stays(w, k)'
    BY <1>4, <1>5 DEF Stays
  <2>2. CASE k \in readWith[later]
    <3>1. /\ k # m /\ acted[k] = {} /\ card[k] # "unread" /\ card[later] # "none"
          /\ \A t \in Worker : Stays(t, k)
      BY <1>1, <1>14, <2>2, DecidesNotPassed
    <3>2. QED BY <1>3, <1>9, <1>6, <2>1, <3>1 DEF Onward
  <2>3. CASE k \notin readWith[later]
    <3>1. later = m /\ k \in u.took /\ k # m
      BY <1>1, <1>8, <1>14, <2>3
    <3>2. acted[k] = {} /\ card[k] \in {"none", "claim"} /\ \A t \in Worker \ {w} : Stays(t, k)
      BY <1>1, <3>1, HandKept
    <3>3. QED BY <1>3, <1>6, <2>1, <3>1, <3>2
  <2>4. QED BY <2>2, <2>3
<1>15. \A k \in Msg : card'[k] = "together" => card[k] = "together"
  BY <1>6
<1>16. Mine(w) /\ (\A t \in Worker : FreshOf(t)') /\ \A k \in Msg : Written(k)'
  <2>1. Alone /\ (\A t \in Worker : FreshOf(t)) /\ \A k \in Msg : Written(k)
    BY DEF IInv, Once
  <2>2. Mine(w)
    BY <1>1, <1>3, <1>4, <1>5, <2>1 DEF Alone, Mine
  <2>3. (m \notin shared => acted[m] = {}) /\ FreshOf(w)'
    BY <1>1, <1>3, <1>4, <1>5, <1>6, <2>1 DEF FreshOf, Undone
  <2>4. ASSUME NEW t \in Worker \ {w} PROVE FreshOf(t)'
    <3>1. work[t].at \in Decider => work[t].newest \in Msg /\ (work[t].newest # m \/ m \in shared)
      BY <1>1, <2>1 DEF Alone
    <3>2. QED BY <1>3, <1>5, <1>6, <2>1, <3>1 DEF FreshOf, Decider, Undone
  <2>5. \A k \in Msg : Written(k)'
    BY <1>3, <1>6, <2>1, <2>3 DEF Written
  <2>6. QED BY <2>2, <2>3, <2>4, <2>5
<1>17. /\ stored \subseteq stored' /\ only' = only /\ \A k \in stored : age'[k] = age[k]
       /\ \A t \in Worker \ {w} : v.took \cap work[t].took = {}
  BY <1>3, <1>4 DEF IInv, Apart
<1>18. QED
  BY <1>3, <1>9, <1>10, <1>11, <1>12, <1>13, <1>14, <1>15, <1>16, <1>17, Moves

LEMMA RunInv ==
  ASSUME IInv, NEW w \in Worker, Run(w)
  PROVE  IInv'
<1> USE Types
<1> DEFINE u == work[w]
           m == u.newest
           v == [u EXCEPT !.at = "result"]
<1>1. TypeOK /\ Part(w) /\ u.at = "run" /\ u.at \in Decider /\ u.at \in Past
      /\ u \in WorkState /\ m \in Msg /\ u.got \in Reading
  BY DEF IInv, Run, At, Decider, Past, Part
<1>2. HasDecision(m)
  BY <1>1 DEF Part, DeliveryOf, SweepOf, RetryOf, Worker
<1>3. /\ work' = [work EXCEPT ![w] = v]
      /\ acted' = acted \/ acted' = [acted EXCEPT ![m] = @ \cup {u.got}]
      /\ UNCHANGED <<stored, only, card, reads, executed, readWith, held, shared, age, paused, flips, deaths>>
  BY DEF Run, Goto, Become, world, rows
<1>4. /\ v \in WorkState /\ v.task = u.task /\ v.took = u.took /\ v.newest = m
      /\ v.life = u.life /\ v.todo = u.todo /\ v.tries = u.tries /\ v.got = u.got
      /\ v.at = "result"
  BY <1>1 DEF WorkState
<1> HIDE DEF v
<1>5. work'[w] = v /\ \A t \in Worker \ {w} : work'[t] = work[t]
  BY <1>1, <1>3
<1>6. /\ acted' \in [Msg -> SUBSET Reading]
      /\ \A k \in Msg \ {m} : acted'[k] = acted[k]
      /\ acted'[m] = acted[m] \/ acted'[m] = acted[m] \cup {u.got}
  BY <1>1, <1>3
<1>7. Onward /\ Touches(w)
  BY <1>3 DEF Onward, Touches, HasDecision, Unread
<1>8. TypeOK'
  BY <1>1, <1>3, <1>4, <1>6 DEF TypeOK
<1>9. Part(w)'
  <2>1. w \in Delivery => DeliveryOf(w)'
    BY <1>1, <1>3, <1>4, <1>5 DEF Part, DeliveryOf, Undone, Past, Decider, HasDecision
  <2>2. w \in Sync /\ SweepOf(w) => SweepOf(w)'
    BY <1>1, <1>3, <1>4, <1>5 DEF SweepOf, Undone, Past, Decider, HasDecision
  <2>3. w \in Sync /\ RetryOf(w) => RetryOf(w)'
    BY <1>1, <1>3, <1>4, <1>5 DEF RetryOf, Decider, HasDecision
  <2>4. QED
    BY <1>1, <1>4, <1>5, <2>1, <2>2, <2>3 DEF Part
<1>10. ASSUME NEW k \in Msg PROVE Row(k)'
  <2>1. Row(k)
    BY DEF IInv
  <2>2. k \in only => \A t \in Worker : k \notin work'[t].took
    BY <1>4, <1>5, <2>1 DEF Row
  <2>3. QED
    BY <1>2, <1>3, <1>6, <2>1, <2>2 DEF Row, HasDecision, Unread
<1>11. ASSUME NEW k \in Msg, NEW later \in Msg, k < later, k \in readWith'[later]
       PROVE  /\ acted'[k] = {} /\ card'[k] # "unread" /\ card'[later] # "none"
              /\ Stays(w, k)' /\ \A t \in Worker \ {w} : Stays(t, k)
  <2>1. /\ k # m /\ acted[k] = {} /\ card[k] # "unread" /\ card[later] # "none"
        /\ \A t \in Worker : Stays(t, k)
    BY <1>1, <1>3, <1>11, DecidesNotPassed
  <2>2. Stays(w, k)'
    BY <1>4, <1>5, <2>1 DEF Stays
  <2>3. QED BY <1>3, <1>6, <2>1, <2>2
<1>12. \A k \in Msg : card'[k] = "together" => card[k] = "together"
  BY <1>3
<1>13. Mine(w) /\ (\A t \in Worker : FreshOf(t)') /\ \A k \in Msg : Written(k)'
  <2>1. Alone /\ (\A t \in Worker : FreshOf(t)) /\ \A k \in Msg : Written(k)
    BY DEF IInv, Once
  <2>2. Mine(w)
    BY <1>1, <1>3, <1>4, <1>5, <2>1 DEF Alone, Mine
  <2>3. (m \notin shared => acted[m] = {} /\ card[m] = "write") /\ FreshOf(w)'
    BY <1>1, <1>3, <1>4, <1>5, <2>1 DEF FreshOf, Undone
  <2>4. ASSUME NEW t \in Worker \ {w} PROVE FreshOf(t)'
    <3>1. work[t].at \in Decider => work[t].newest \in Msg /\ (work[t].newest # m \/ m \in shared)
      BY <1>1, <2>1 DEF Alone
    <3>2. QED BY <1>3, <1>5, <1>6, <2>1, <3>1 DEF FreshOf, Decider, Undone
  <2>5. \A k \in Msg : Written(k)'
    BY <1>1, <1>3, <1>6, <2>1, <2>3 DEF Written
  <2>6. QED BY <2>2, <2>3, <2>4, <2>5
<1>14. /\ stored \subseteq stored' /\ only' = only /\ \A k \in stored : age'[k] = age[k]
       /\ \A t \in Worker \ {w} : v.took \cap work[t].took = {}
  BY <1>3, <1>4 DEF IInv, Apart
<1>15. QED
  BY <1>3, <1>7, <1>8, <1>9, <1>10, <1>11, <1>12, <1>13, <1>14, Moves

LEMMA RecordResultInv ==
  ASSUME IInv, NEW w \in Worker, RecordResult(w)
  PROVE  IInv'
<1> USE Types
<1> DEFINE u == work[w]
           m == u.newest
           v == [u EXCEPT !.at = "after"]
<1>1. TypeOK /\ Part(w) /\ u.at = "result" /\ u.at \in Decider /\ u.at \in Past
      /\ u \in WorkState /\ m \in Msg
  BY DEF IInv, RecordResult, At, Decider, Past, Part
<1>2. HasDecision(m) /\ m \in stored \ only
  BY <1>1, DeciderHas DEF Part, DeliveryOf, SweepOf, RetryOf, Worker
<1>3. /\ work' = [work EXCEPT ![w] = v]
      /\ card' = [card EXCEPT ![m] = "write"]
      /\ reads' = [reads EXCEPT ![m] = 0]
      /\ executed' = executed \cup {m}
      /\ UNCHANGED <<stored, only, acted, readWith, held, shared, age, paused, flips, deaths>>
  BY DEF RecordResult, Goto, Become, world, history
<1>4. /\ v \in WorkState /\ v.task = u.task /\ v.took = u.took /\ v.newest = m
      /\ v.life = u.life /\ v.todo = u.todo /\ v.tries = u.tries
      /\ v.at = "after"
  BY <1>1 DEF WorkState
<1> HIDE DEF v
<1>5. work'[w] = v /\ \A t \in Worker \ {w} : work'[t] = work[t]
  BY <1>1, <1>3
<1>6. /\ card' \in [Msg -> Card] /\ reads' \in [Msg -> 0..Retries]
      /\ \A k \in Msg \ {m} : card'[k] = card[k]
      /\ card'[m] = "write"
  BY <1>1, <1>3 DEF Card
<1>7. Onward /\ Touches(w)
  BY <1>1, <1>2, <1>3, <1>6 DEF Onward, Touches, HasDecision, Unread
<1>8. TypeOK'
  BY <1>1, <1>2, <1>3, <1>4, <1>6 DEF TypeOK
<1>9. Part(w)'
  <2>1. w \in Delivery => DeliveryOf(w)'
    BY <1>1, <1>3, <1>4, <1>5, <1>6 DEF Part, DeliveryOf, Undone, Past, Decider, HasDecision
  <2>2. w \in Sync /\ SweepOf(w) => SweepOf(w)'
    BY <1>1, <1>3, <1>4, <1>5, <1>6 DEF SweepOf, Undone, Past, Decider, HasDecision
  <2>3. w \in Sync /\ RetryOf(w) => RetryOf(w)'
    BY <1>1, <1>3, <1>4, <1>5, <1>6 DEF RetryOf, Decider, HasDecision
  <2>4. QED
    BY <1>1, <1>4, <1>5, <2>1, <2>2, <2>3 DEF Part
<1>10. ASSUME NEW k \in Msg PROVE Row(k)'
  <2>1. Row(k)
    BY DEF IInv
  <2>2. k \in only => k # m /\ \A t \in Worker : k \notin work'[t].took
    BY <1>2, <1>4, <1>5, <2>1 DEF Row
  <2>3. QED
    BY <1>2, <1>3, <1>6, <2>1, <2>2 DEF Row, HasDecision, Unread
<1>11. ASSUME NEW k \in Msg, NEW later \in Msg, k < later, k \in readWith'[later]
       PROVE  /\ acted'[k] = {} /\ card'[k] # "unread" /\ card'[later] # "none"
              /\ Stays(w, k)' /\ \A t \in Worker \ {w} : Stays(t, k)
  <2>1. /\ k # m /\ acted[k] = {} /\ card[k] # "unread" /\ card[later] # "none"
        /\ \A t \in Worker : Stays(t, k)
    BY <1>1, <1>3, <1>11, DecidesNotPassed
  <2>2. Stays(w, k)'
    BY <1>4, <1>5, <2>1 DEF Stays
  <2>3. QED BY <1>3, <1>6, <1>7, <2>1, <2>2 DEF Onward
<1>12. \A k \in Msg : card'[k] = "together" => card[k] = "together"
  BY <1>6
<1>13. Mine(w) /\ (\A t \in Worker : FreshOf(t)') /\ \A k \in Msg : Written(k)'
  <2>1. Alone /\ (\A t \in Worker : FreshOf(t)) /\ \A k \in Msg : Written(k)
    BY DEF IInv, Once
  <2>2. Mine(w) /\ FreshOf(w)'
    BY <1>4, <1>5 DEF Mine, FreshOf, Decider, Undone
  <2>3. ASSUME NEW t \in Worker \ {w} PROVE FreshOf(t)'
    <3>1. work[t].at \in Decider => work[t].newest \in Msg /\ (work[t].newest # m \/ m \in shared)
      BY <1>1, <2>1 DEF Alone
    <3>2. QED BY <1>3, <1>5, <1>6, <2>1, <3>1 DEF FreshOf, Decider, Undone
  <2>4. \A k \in Msg : Written(k)'
    BY <1>3, <1>6, <2>1 DEF Written
  <2>5. QED BY <2>2, <2>3, <2>4
<1>14. /\ stored \subseteq stored' /\ only' = only /\ \A k \in stored : age'[k] = age[k]
       /\ \A t \in Worker \ {w} : v.took \cap work[t].took = {}
  BY <1>3, <1>4 DEF IInv, Apart
<1>15. QED
  BY <1>3, <1>7, <1>8, <1>9, <1>10, <1>11, <1>12, <1>13, <1>14, Moves

-----------------------------------------------------------------------------
(* Time, the pause, and the whole.                                          *)

LEMMA TickInv ==
  ASSUME IInv, Tick
  PROVE  IInv'
<1> USE Types
<1>1. TypeOK /\ UNCHANGED <<stored, only, card, reads, executed, acted, readWith, held, shared>>
      /\ UNCHANGED <<paused, flips, deaths>>
  BY DEF IInv, Tick, rows, history
<1>2. age' = [m \in Msg |-> IF m \in stored /\ age[m] < OldTicks THEN age[m] + 1 ELSE age[m]]
  BY DEF Tick
<1>3. work' = [w \in Worker |-> IF Live(w) THEN [work[w] EXCEPT !.life = @ - 1] ELSE work[w]]
  BY DEF Tick
<1>4. \A w \in Worker : Live(w) => work[w].life > 0
  BY DEF Tick
<1>5. ASSUME NEW w \in Worker
      PROVE  LET v == work'[w]  u == work[w] IN
             /\ v \in WorkState /\ v.at = u.at /\ v.task = u.task /\ v.todo = u.todo /\ v.took = u.took
             /\ v.newest = u.newest /\ v.got = u.got /\ v.overtaken = u.overtaken /\ v.tries = u.tries
             /\ u.at # "idle" => v.life + 1 = u.life /\ v.life \in Nat /\ u.life \in Nat
  <2>1. work[w] \in WorkState
    BY <1>1
  <2>2. CASE ~Live(w)
    BY <1>3, <2>1, <2>2 DEF Live, At
  <2>3. CASE Live(w)
    <3>1. work'[w] = [work[w] EXCEPT !.life = @ - 1]
      BY <1>3, <2>3
    <3>2. work[w].life \in 0..FunctionTicks /\ work[w].life > 0
      BY <1>1, <1>4, <2>3
    <3>3. work[w].life - 1 \in 0..FunctionTicks /\ work[w].life - 1 + 1 = work[w].life
      BY <1>1, <3>2
    <3>4. QED BY <2>1, <3>1, <3>2, <3>3 DEF WorkState
  <2>4. QED BY <2>2, <2>3
<1>6. ASSUME NEW m \in Msg
      PROVE  /\ age'[m] \in 0..OldTicks /\ age'[m] >= age[m] /\ age'[m] <= age[m] + 1
  BY <1>1, <1>2
<1>7. TypeOK'
  <2>1. work' \in [Worker -> WorkState]
    BY <1>3, <1>5
  <2>2. age' \in [Msg -> 0..OldTicks]
    BY <1>2, <1>6
  <2>3. QED BY <1>1, <2>1, <2>2 DEF TypeOK
<1>8. Apart'
  BY <1>5 DEF IInv, Apart
<1>9. ASSUME NEW w \in Worker PROVE Part(w)'
  <2>1. Part(w)
    BY DEF IInv
  <2>2. w \in Delivery => DeliveryOf(w)'
    <3> SUFFICES ASSUME w \in Delivery PROVE DeliveryOf(w)'
      OBVIOUS
    <3>1. DeliveryOf(w)
      BY <2>1 DEF Part
    <3>2. ASSUME NEW m \in work[w].took PROVE age'[m] + work'[w].life <= FunctionTicks
      <4>1. age[m] + work[w].life <= FunctionTicks /\ work[w].at # "idle" /\ m \in Msg
        BY <1>1, <3>1, <3>2 DEF DeliveryOf
      <4>2. work'[w].life + 1 = work[w].life /\ work'[w].life \in Nat
        BY <1>5, <4>1
      <4>3. age'[m] \in Nat /\ age[m] \in Nat /\ age'[m] <= age[m] + 1
        BY <1>1, <1>6, <4>1
      <4>4. QED BY <1>1, <4>1, <4>2, <4>3
    <3>3. QED BY <1>1, <1>5, <3>1, <3>2 DEF DeliveryOf, Unread, HasDecision
  <2>3. w \in Sync /\ SweepOf(w) => SweepOf(w)'
    <3> SUFFICES ASSUME w \in Sync, SweepOf(w) PROVE SweepOf(w)'
      OBVIOUS
    <3>1. \A m \in work[w].todo \cup work[w].took : age'[m] >= OldTicks
      <4>1. \A m \in work[w].todo \cup work[w].took : m \in Msg /\ age[m] >= OldTicks
        BY <1>1 DEF SweepOf
      <4>2. \A m \in Msg : age'[m] \in Nat /\ age[m] \in Nat /\ age'[m] >= age[m]
        BY <1>1, <1>6
      <4>3. QED BY <1>1, <4>1, <4>2
    <3>2. QED BY <1>1, <1>5, <3>1 DEF SweepOf, HasDecision
  <2>4. w \in Sync /\ RetryOf(w) => RetryOf(w)'
    BY <1>1, <1>5 DEF RetryOf, HasDecision
  <2>5. QED BY <1>5, <2>1, <2>2, <2>3, <2>4 DEF Part
<1>10. \A m \in Msg : Row(m)'
  BY <1>1, <1>5 DEF IInv, Row, HasDecision, Unread
<1>11. Taken'
  BY <1>1, <1>5 DEF IInv, Taken, Passed, Stays
<1>12. SettledAfterNewest'
  BY <1>1 DEF IInv, SettledAfterNewest
<1>13. Once'
  BY <1>1, <1>5 DEF IInv, Once, Alone, FreshOf, Written
<1>14. QED
  BY <1>7, <1>8, <1>9, <1>10, <1>11, <1>12, <1>13 DEF IInv

\* A step that changes nothing an invocation knows.
LEMMA SameInv ==
  ASSUME IInv, UNCHANGED <<rows, history, age, work>>,
         paused' \in BOOLEAN, flips' \in 0..Flips, deaths' \in 0..Deaths
  PROVE  IInv'
<1>1. UNCHANGED <<stored, only, card, reads, executed>> /\ UNCHANGED <<acted, readWith, held, shared>>
      /\ UNCHANGED <<age, work>>
  BY DEF rows, history
<1>2. TypeOK'
  BY <1>1 DEF IInv, TypeOK
<1>3. Apart' /\ SettledAfterNewest'
  BY <1>1 DEF IInv, Apart, SettledAfterNewest
<1>4. \A w \in Worker : Part(w)'
  BY <1>1 DEF IInv, Part, DeliveryOf, SweepOf, RetryOf, HasDecision, Unread
<1>5. \A m \in Msg : Row(m)'
  BY <1>1 DEF IInv, Row, HasDecision, Unread
<1>6. Taken'
  BY <1>1 DEF IInv, Taken, Passed, Stays
<1>7. Once'
  BY <1>1 DEF IInv, Once, Alone, FreshOf, Written
<1>8. QED
  BY <1>2, <1>3, <1>4, <1>5, <1>6, <1>7 DEF IInv

LEMMA FlipInv ==
  ASSUME IInv, Flip
  PROVE  IInv'
<1>1. TypeOK
  BY DEF IInv
<1>2. paused' \in BOOLEAN /\ flips' \in 0..Flips /\ deaths' \in 0..Deaths
  BY <1>1, DecideAssumption DEF Flip, TypeOK
<1>3. UNCHANGED <<rows, history, age, work>>
  BY DEF Flip
<1>4. QED BY <1>2, <1>3, SameInv

LEMMA NextInv ==
  ASSUME IInv, [Next]_vars
  PROVE  IInv'
<1>1. CASE UNCHANGED vars
  <2>1. UNCHANGED <<rows, history, age, work>> /\ UNCHANGED <<paused, flips, deaths>>
    BY <1>1 DEF vars, world
  <2>2. QED BY <2>1, SameInv DEF IInv, TypeOK
<1>2. ASSUME NEW w \in Worker, DecideOn(w) PROVE IInv'
  BY <1>2, CheckInv, RecordInv, RunInv, RecordResultInv, ReadAndPlanInv DEF DecideOn
<1>3. ASSUME NEW d \in Delivery, DeliveryStep(d) \/ \E n \in Msg : Deliver(d, n) PROVE IInv'
  <2>1. d \in Worker
    BY DEF Worker
  <2>2. QED
    BY <1>2, <1>3, <2>1, StoreInv, MarkStoreOnlyInv, LookForDecisionInv, SettleInv, EndInv, DeliverInv
       DEF DeliveryStep
<1>4. ASSUME NEW s \in Sync, SyncStep(s) PROVE IInv'
  <2>1. s \in Worker
    BY DEF Worker
  <2>2. QED
    BY <1>2, <1>4, <2>1, SelectInv, LookOvertakenInv, ClaimInv, SettleClaimedInv, CountTryInv, RetryInv
       DEF SyncStep
<1>5. CASE \E w \in Worker : Throw(w) \/ Kill(w)
  BY <1>5, ThrowInv, EndInv
<1>6. QED
  BY <1>1, <1>3, <1>4, <1>5, TickInv, FlipInv DEF Next

LEMMA AlwaysInv == Spec => []IInv
BY InitInv, NextInv, PTL DEF Spec

-----------------------------------------------------------------------------
(* The theorems.                                                            *)

\* Type correctness: every table, every history and every invocation keeps its
\* type in every reachable state, for any number of emails and of invocations.
THEOREM TypeCorrect == Spec => []TypeOK
<1>1. IInv => TypeOK
  BY DEF IInv
<1>2. QED BY AlwaysInv, <1>1, PTL

\* decideDelivery and sweepUndecided settle an email as read with a later one only
\* after the later one has a decision, whatever throws or dies in between.
THEOREM NoneSettledUnread == Spec => []SettledAfterNewest
<1>1. IInv => SettledAfterNewest
  BY DEF IInv
<1>2. QED BY AlwaysInv, <1>1, PTL

\* sweepUndecided's claim goes to one: two sweeps under way never decide on the
\* same email, however many syncs overlap.
THEOREM TheClaimGoesToOne == Spec => []SweepsApart
<1>1. IInv => SweepsApart
  <2> SUFFICES ASSUME IInv, NEW s \in Sync, NEW t \in Sync, NEW m \in Msg, s # t,
                      Deciding(s, m), Deciding(t, m)
               PROVE  FALSE
    BY DEF SweepsApart
  <2>1. s \in Worker /\ t \in Worker /\ s \notin Delivery /\ t \notin Delivery
    BY DecideAssumption DEF Worker
  <2>2. Part(s) /\ Part(t) /\ work[s].took \cap work[t].took = {}
    BY <2>1 DEF IInv, Apart
  <2>3. m \in work[s].took /\ m \in work[t].took
    BY <2>2 DEF Part, SweepOf, Deciding, DecidesOn, Decider
  <2>4. QED BY <2>2, <2>3
<1>2. QED BY AlwaysInv, <1>1, PTL

\* v2_store_only: an email a paused delivery marked is decided by nothing, then or
\* after, and no reading of a later email counts it among what it took in.
THEOREM StoreOnlyStaysOut == Spec => []MarkedStaysOut
<1>1. IInv => MarkedStaysOut
  BY Types DEF IInv, Row, Unread, MarkedStaysOut
<1>2. QED BY AlwaysInv, <1>1, PTL

\* An email that a later one's decision was read with is not written to OnSinch by
\* itself, whoever decided: a delivery, overlapping sweeps or a retry.
THEOREM TakenOnce == Spec => []NotTakenTwice
<1>1. IInv => NotTakenTwice
  BY DEF IInv, Taken, Passed, NotTakenTwice
<1>2. QED BY AlwaysInv, <1>1, PTL

\* An email is written to OnSinch as one reading of it at most, by the delivery,
\* overlapping sweeps and any number of retries, unless two retries were at it at
\* once; then it may not be (DecideWrittenTwice.cfg).
THEOREM WrittenAsOneReading == Spec => []WrittenOnce
<1>1. IInv => WrittenOnce
  <2> SUFFICES ASSUME IInv, NEW m \in Msg \ shared PROVE Cardinality(acted[m]) <= 1
    BY DEF WrittenOnce
  <2>1. acted[m] = {} \/ \E r \in Reading : acted[m] = {r}
    BY DEF IInv, Once, Written
  <2>2. CASE acted[m] = {}
    BY <2>2, FS_EmptySet
  <2>3. CASE \E r \in Reading : acted[m] = {r}
    <3>1. PICK r \in Reading : acted[m] = {r}
      BY <2>3
    <3>2. Cardinality({r}) = 1
      BY FS_Singleton, Zenon
    <3>3. Cardinality(acted[m]) = 1
      BY <3>1, <3>2
    <3>4. QED BY <3>3
  <2>4. QED BY <2>1, <2>2, <2>3
<1>2. QED BY AlwaysInv, <1>1, PTL
==============================================================================
