------------------------------- MODULE Resume -------------------------------
(***************************************************************************)
(* One email's write and what becomes of it when it stops                  *)
(* (app/lib/v2/process.ts, decideMessage; app/lib/v2/resume.ts).  Intake   *)
(* runs the operations of the decision one after the other and records the *)
(* results after each.  The minute syncs, of which several may be under    *)
(* way, read the recorded row, look whether the write stopped, have it     *)
(* planned again, run what is left under keys of their own and close it.   *)
(* An operation is runOp: a key is run once (WriteOnce), under a lease that *)
(* is asked for once and may be over before the operation is: it is given  *)
(* for 240 s to an invocation of 300 s, one that lost the race for the same *)
(* key gives it back on leaving, and an edit's own release is not held up   *)
(* by its read-back (BotRun).                                              *)
(***************************************************************************)
EXTENDS Integers, Sequences

CONSTANTS
  Operations,     \* how many operations the decision holds
  Creates,        \* those that are new orders: OnSinch is not asked whether one is there
  Intake,         \* the invocation that decided on the email
  Sweep,          \* the minute syncs that may be under way
  Tries,          \* RESUME_TRIES
  StillTicks,     \* RESUME_AFTER_MS, ten minutes
  FunctionTicks,  \* the longest an invocation lives, five minutes
  Deaths          \* bound: invocations that die, or end in a throw, in one behaviour

Op == 1..Operations
Worker == {Intake} \cup Sweep
Tag == 0..(Tries + Operations)   \* 0: the email's own key, t: its t-th retry's

ASSUME ResumeAssumption ==
  /\ Operations \in Nat \ {0} /\ Tries \in Nat /\ Deaths \in Nat
  /\ Creates \subseteq Op
  /\ Intake \notin Sweep
  /\ FunctionTicks \in Nat /\ StillTicks \in Nat /\ FunctionTicks < StillTicks

VARIABLES
  row,     \* the v2_decisions row: what ran, and how often it was retried
  ledger,  \* ledger[o][t]: the bot_ledger row of operation o under its key t
  age,     \* age[o]: since the row of o's own key last moved
  work,    \* work[w]: where the invocation w is
  made,    \* made[o]: how often OnSinch carried out o (history)
  unheld,  \* operations whose run was without the lease before it had sent (history)
  deaths   \* invocations that died so far

vars == <<row, ledger, age, work, made, unheld, deaths>>

\* "transient" is a "blocked" by a passing fault; "unknown" stands for unknown,
\* mismatch and failed alike: something was sent and it is a person's.
Result == {"verified", "seen", "busy", "transient", "blocked", "unknown", "cancelled"}
Place == {"run", "inside", "open", "saved", "record", "gone",   \* intake
          "idle", "look", "plan", "close"}                      \* a sweep, with run to saved

Idle == [at |-> "idle", ex |-> <<>>, tag |-> 0, life |-> 0, lease |-> FALSE]

\* An invocation takes the write up, at a place, with the results it goes by.
Starts(place, ex, tag) ==
  [at |-> place, ex |-> ex, tag |-> tag, life |-> FunctionTicks, lease |-> FALSE]

\* The decision is recorded before anything runs.  A shadow decision, or one
\* whose invocation died there, never runs at all.
Init ==
  /\ row = [executed |-> <<>>, retries |-> 0]
  /\ ledger = [o \in Op |-> [t \in Tag |-> "none"]]
  /\ age = [o \in Op |-> 0]
  /\ \E place \in {"run", "gone"} :
       work = [w \in Worker |->
                 IF w = Intake
                 THEN Starts(place, <<>>, 0) ELSE Idle]
  /\ made = [o \in Op |-> 0]
  /\ unheld = {}
  /\ deaths = 0

Become(w, v) == work' = [work EXCEPT ![w] = v]
At(w, place) == work[w].at = place
Goto(w, place) == Become(w, [work[w] EXCEPT !.at = place])

OpOf(w) == Len(work[w].ex) + 1
Unsent(w) == work[w].at \in {"inside", "open"}
Holds(w) == work[w].lease
Live(w) == work[w].at \notin {"gone", "idle"}

Last(ex) == ex[Len(ex)]
Front(ex) == SubSeq(ex, 1, Len(ex) - 1)

-----------------------------------------------------------------------------
(* One operation, run by intake or by a sweep: `run` (runOp).               *)

\* An operation's result: intake records it before it goes on; a sweep goes on
\* with the next one after a verified result and closes the decision otherwise.
Answered(w, result) ==
  LET ex == Append(work[w].ex, result)
      next == CASE w = Intake -> "record"
                [] w # Intake /\ result = "verified" /\ Len(ex) < Operations -> "run"
                [] OTHER -> "close"
  IN Become(w, [work[w] EXCEPT !.ex = ex, !.at = next, !.lease = FALSE])

\* The key's row, and the time it last moved when it is the operation's own key.
Moves(w, status) ==
  LET o == OpOf(w)  t == work[w].tag IN
  /\ ledger' = [ledger EXCEPT ![o][t] = status]
  /\ age' = IF t = 0 THEN [age EXCEPT ![o] = 0] ELSE age

Key(w) == ledger[OpOf(w)][work[w].tag]

\* The bot is held by another operation of this email's, or by another email's.
Busy(w) ==
  /\ At(w, "run") /\ Key(w) = "none"
  /\ Answered(w, "busy")
  /\ UNCHANGED <<row, ledger, age, made, unheld, deaths>>

Seen(w) ==
  /\ At(w, "run") /\ Key(w) # "none"
  /\ Answered(w, "seen")
  /\ UNCHANGED <<row, ledger, age, made, unheld, deaths>>

\* (Fault: the lease is not asked for.)
BeginAnyway(w) ==
  /\ At(w, "run") /\ Key(w) = "none"
  /\ Moves(w, "intent")
  /\ Become(w, [work[w] EXCEPT !.at = "inside", !.lease = TRUE])
  /\ UNCHANGED <<row, made, unheld, deaths>>

Begin(w) ==
  /\ At(w, "run") /\ Key(w) = "none"
  /\ ~\E other \in Worker : Holds(other)
  /\ Moves(w, "intent")
  /\ Become(w, [work[w] EXCEPT !.at = "inside", !.lease = TRUE])
  /\ UNCHANGED <<row, made, unheld, deaths>>

\* A step of the clock is longer than the lease, so that it may be over at any
\* moment of the run; the run itself is not told.
LeaseOver(w) ==
  /\ Holds(w)
  /\ Become(w, [work[w] EXCEPT !.lease = FALSE])
  /\ unheld' = IF Unsent(w) THEN unheld \cup {OpOf(w)} ELSE unheld
  /\ UNCHANGED <<row, ledger, age, made, deaths>>

\* Refused, or stopped by a passing fault: nothing was sent.
NotSent(w, result) ==
  /\ Unsent(w)
  /\ result \in {"blocked", "transient"}
  /\ Moves(w, "ended")
  /\ Answered(w, result)
  /\ UNCHANGED <<row, made, unheld, deaths>>

\* The order is read: what OnSinch already holds is not sent again; a new order
\* is not looked for.  The save follows a minute of browser work later.
AlreadySo(w) ==
  /\ At(w, "inside")
  /\ OpOf(w) \notin Creates /\ made[OpOf(w)] > 0
  /\ Moves(w, "ended")
  /\ Answered(w, "verified")
  /\ UNCHANGED <<row, made, unheld, deaths>>

Open(w) ==
  /\ At(w, "inside")
  /\ OpOf(w) \in Creates \/ made[OpOf(w)] = 0
  /\ Goto(w, "open")
  /\ UNCHANGED <<row, ledger, age, made, unheld, deaths>>

Save(w) ==
  /\ At(w, "open")
  /\ \/ made' = [made EXCEPT ![OpOf(w)] = @ + 1]
     \/ made' = made
  /\ Goto(w, "saved")
  /\ UNCHANGED <<row, ledger, age, unheld, deaths>>

\* "verified" is read back from OnSinch.
Answer(w, result) ==
  /\ At(w, "saved")
  /\ result = "verified" => made[OpOf(w)] > 0
  /\ Moves(w, "ended")
  /\ Answered(w, result)
  /\ UNCHANGED <<row, made, unheld, deaths>>

RunOp(w) ==
  \/ Busy(w) \/ Seen(w) \/ Begin(w) \/ AlreadySo(w) \/ Open(w) \/ Save(w)
  \/ \E result \in {"blocked", "transient"} : NotSent(w, result)
  \/ \E result \in {"verified", "unknown"} : Answer(w, result)

-----------------------------------------------------------------------------
(* Intake records the results so far after every operation, and stops at    *)
(* the first that is not verified.                                          *)

Record ==
  LET ex == work[Intake].ex IN
  /\ At(Intake, "record")
  /\ row' = [executed |-> ex, retries |-> 0]
  /\ Goto(Intake, IF Last(ex) = "verified" /\ Len(ex) < Operations THEN "run" ELSE "gone")
  /\ UNCHANGED <<ledger, age, made, unheld, deaths>>

-----------------------------------------------------------------------------
(* A sweep (resumeStopped).  What it goes by is the row as it read it first. *)

\* (Fault: a stopped write is tried again without end.)
StoppedAlways(r) ==
  /\ r.executed # <<>>
  /\ Last(r.executed) \in {"busy", "transient"}

\* Stopped before anything left the browser, with a retry to go.
Stopped(r) ==
  /\ r.executed # <<>>
  /\ Last(r.executed) \in {"busy", "transient"}
  /\ r.retries < Tries

\* (Fault, the code of before 27 October: a run that died between is not looked at.)
BetweenNever(r) == FALSE

\* Every result is good and there are fewer than operations.
Between(r) ==
  /\ Len(r.executed) \in 1..(Operations - 1)
  /\ \A i \in 1..Len(r.executed) : r.executed[i] \in {"verified", "seen"}

Read(s) ==
  /\ At(s, "idle")
  /\ \/ /\ Stopped(row)
        /\ Become(s, Starts("plan", Front(row.executed), row.retries))
     \/ /\ Between(row) \/ row.executed = <<>>
        /\ Become(s, Starts("look", row.executed, row.retries))
  /\ UNCHANGED <<row, ledger, age, made, unheld, deaths>>

\* (Fault: five minutes without a move are taken for dead.)
StillSooner(ops) ==
  \A o \in ops : ledger[o][0] # "none" => age[o] >= StillTicks - 1

Still(ops) == \A o \in ops : ledger[o][0] # "none" => age[o] >= StillTicks

\* Nothing has moved for long enough: a run that died inside its next operation
\* is closed as unknown, one that died between two is planned again.  Without a
\* result and without a ledger row it is a shadow decision.
Look(s) ==
  LET next == OpOf(s)
      inside == ledger[next][0] # "none"
  IN
  /\ At(s, "look")
  /\ \/ /\ ~Still(1..next) \/ (next = 1 /\ ~inside)
        /\ Become(s, Idle)
     \/ /\ Still(1..next) /\ inside
        /\ Become(s, [work[s] EXCEPT !.ex = Append(@, "unknown"), !.at = "close"])
     \/ /\ Still(1..next) /\ ~inside /\ next > 1
        /\ Goto(s, "plan")
  /\ UNCHANGED <<row, ledger, age, made, unheld, deaths>>

\* The planner asks for what OnSinch does not hold; staff's edits, the settings
\* or a day already over may make it ask for something else at any time.
Asks(s) == {o \in Op : made[o] = 0}
Todo(s) == OpOf(s)..Operations

\* (Fault: the rest runs whatever the planner says now.)
PlanUnasked(s) ==
  /\ At(s, "plan")
  /\ Become(s, [work[s] EXCEPT !.at = "run", !.tag = @ + 1])
  /\ UNCHANGED <<row, ledger, age, made, unheld, deaths>>

Plan(s) ==
  /\ At(s, "plan")
  /\ \/ /\ Asks(s) = Todo(s)
        /\ Become(s, [work[s] EXCEPT !.at = "run", !.tag = @ + 1])
     \/ Become(s, [work[s] EXCEPT !.ex = Append(@, "cancelled"), !.at = "close"])
  /\ UNCHANGED <<row, ledger, age, made, unheld, deaths>>

Close(s) ==
  /\ At(s, "close")
  /\ row' = [executed |-> work[s].ex, retries |-> work[s].tag]
  /\ Become(s, Idle)
  /\ UNCHANGED <<ledger, age, made, unheld, deaths>>

-----------------------------------------------------------------------------
(* An invocation may be killed, or end in a throw nothing catches, anywhere; *)
(* past its time it cannot live.                                            *)

Die(w) ==
  /\ Live(w) /\ deaths < Deaths
  /\ deaths' = deaths + 1
  /\ Become(w, IF w = Intake THEN [work[w] EXCEPT !.at = "gone", !.lease = FALSE] ELSE Idle)
  /\ UNCHANGED <<row, ledger, age, made, unheld>>

Tick ==
  /\ \A w \in Worker : Live(w) => work[w].life > 0
  /\ work' = [w \in Worker |->
                IF Live(w) THEN [work[w] EXCEPT !.life = @ - 1] ELSE work[w]]
  /\ age' = [o \in Op |-> IF age[o] < StillTicks THEN age[o] + 1 ELSE age[o]]
  /\ UNCHANGED <<row, ledger, made, unheld, deaths>>

Step(w) ==
  \/ RunOp(w)
  \/ w = Intake /\ Record
  \/ w # Intake /\ (Read(w) \/ Look(w) \/ Plan(w) \/ Close(w))

Next == Tick \/ \E w \in Worker : Step(w) \/ LeaseOver(w) \/ Die(w)

Spec == Init /\ [][Next]_vars

\* The cron starts a sweep every minute, whatever became of the last one.
Fairness == WF_vars(Tick) /\ \A w \in Worker : WF_vars(Step(w))
FairSpec == Spec /\ Fairness

-----------------------------------------------------------------------------
(* Properties.                                                              *)

TypeOK ==
  /\ row \in [executed : Seq(Result), retries : Tag]
  /\ Len(row.executed) <= Operations
  /\ ledger \in [Op -> [Tag -> {"none", "intent", "ended"}]]
  /\ age \in [Op -> 0..StillTicks]
  /\ \A w \in Worker :
       /\ work[w].at \in Place /\ work[w].tag \in Tag
       /\ work[w].life \in 0..FunctionTicks
       /\ work[w].ex \in Seq(Result) /\ Len(work[w].ex) <= Operations
       /\ work[w].lease \in BOOLEAN
  /\ made \in [Op -> Nat]
  /\ unheld \subseteq Op
  /\ deaths \in 0..Deaths

\* Every operation of the email is carried out at most once and in its order,
\* under whichever of its keys, by intake or by a sweep, whatever dies.
Promise == INSTANCE OnceInOrder
CarriesOutOnceInOrder == Promise!Spec

\* Syncs that overlap may be at one operation together: a key of its own for each
\* try does not keep them apart, only the lease does, and each looks at OnSinch
\* before its save.  So an operation that is looked for is carried out again only
\* if its own lease was over under a run that had not sent it yet, and never
\* before the operations it comes after.
OnceWhileHeld ==
  [][\A o \in Op : made'[o] # made[o] =>
       /\ made[o] = 0 \/ o \in Creates \cup unheld
       /\ \A earlier \in 1..(o - 1) : made[earlier] > 0]_made

\* A sweep never takes up a write whose own invocation is still at it: ten
\* minutes without a move are longer than an invocation lives.
RunsAlone ==
  Live(Intake) =>
    \A s \in Sweep : work[s].at \notin {"plan", "run", "inside", "open", "saved", "close"}

\* What is still to be taken up: a stop with a retry to go, good results for only
\* some of the operations, a first operation nobody finished.
Unsettled ==
  LET ex == row.executed IN
  \/ ex = <<>> /\ ledger[1][0] # "none"
  \/ /\ ex # <<>> /\ Last(ex) \in {"busy", "transient"}
     /\ row.retries < Tries
  \/ /\ ex # <<>> /\ Last(ex) \in {"verified", "seen"}
     /\ Len(ex) < Operations
Closed == row.executed # <<>> /\ ~Unsettled

\* Once a decision is closed its record stands: no later sweep rewrites it.
ClosedStands == [][Closed => row' = row]_row

\* Every write that stopped is taken up, and there is an end to taking it up: it
\* is finished, closed, or has used its retries.
StoppedIsSettled == <>[]~Unsettled

-----------------------------------------------------------------------------
(* What the comments and tests say and the code does not do.                *)

\* test/resumeStopped.ts: no operation is run twice.
MadeOnce == \A o \in Op : made[o] <= 1

AtRest == \A w \in Worker : ~Live(w)

\* process.ts: a result is recorded after every operation, so that the record
\* never says "not written" over a change OnSinch holds.
RecordHoldsWhatWasMade ==
  AtRest /\ Closed =>
    \A o \in Op : made[o] > 0 =>
      o <= Len(row.executed) /\ row.executed[o] \in {"verified", "seen", "unknown"}

=============================================================================
