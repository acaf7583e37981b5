------------------------------- MODULE Decide -------------------------------
(***************************************************************************)
(* How the client emails of one thread are decided                         *)
(* (app/lib/n8nInbound.ts; app/lib/v2/process.ts: decideDelivery,          *)
(* processMessage, sweepUndecided, retryUnread).  n8n posts the thread up  *)
(* to an email; a delivery stores what is new and decides on the newest,   *)
(* the earlier ones read with it.  What a delivery left undecided is       *)
(* claimed and decided by the minute sync's sweep, and an email the model  *)
(* could not read is read again by its retry.  Paused, what arrives is     *)
(* marked and decided by nothing.                                          *)
(***************************************************************************)
EXTENDS Integers, FiniteSetsExt

CONSTANTS
  Messages,        \* how many client emails the thread has, numbered by date
  Reading,         \* the writes one email's content may be read as
  Delivery,        \* invocations of the intake route
  Sync,            \* minute syncs that may be under way
  Retries,         \* UNREAD_RETRIES
  OldTicks,        \* UNDECIDED_AFTER_MINUTES, ten minutes
  FunctionTicks,   \* the longest an invocation lives, five minutes
  Deaths,          \* bound: invocations that die, or end in a throw, in one behaviour
  Flips            \* bound: how often the pause is switched in one behaviour

Msg == 1..Messages
Worker == Delivery \cup Sync

ASSUME DecideAssumption ==
  /\ Messages \in Nat \ {0}
  /\ {"unread", "handoff"} \cap Reading = {}
  /\ Delivery \cap Sync = {}
  /\ Retries \in Nat /\ OldTicks \in Nat /\ FunctionTicks \in Nat
  /\ FunctionTicks < OldTicks
  /\ Deaths \in Nat /\ Flips \in Nat

VARIABLES
  stored,     \* the emails in thread_messages
  age,        \* age[m]: since m was stored
  only,       \* the emails in v2_store_only
  card,       \* card[m]: what m's v2_decisions row says, "none" without a row
  reads,      \* reads[m]: the tries counted on an unread card
  executed,   \* the emails whose row records the result of a write
  acted,      \* acted[m]: the readings of m that were written to OnSinch (history)
  readWith,   \* readWith[m]: the emails the last reading of m took in (history)
  held,       \* the emails stored by a paused delivery (history)
  shared,     \* the emails a retry took up while another was deciding on them (history)
  paused, flips, deaths,
  work        \* work[w]: where the invocation w is

rows == <<stored, only, card, reads, executed>>
history == <<acted, readWith, held, shared>>
world == <<age, paused, flips, deaths>>
vars == <<rows, history, world, work>>

Card == {"none", "claim", "overtaken", "failed", "unread", "together", "handoff", "write"}

\* One invocation: the emails it still has to take (to store, to claim), the
\* emails it took (stored first, claimed), the one it decides on, what it read it
\* as, whether it saw the pause, whether a later email overtook its thread.
WorkState ==
  [at : {"idle", "store", "mark", "seen", "check", "read", "record", "run",
         "result", "after", "overtaken", "claim"},
   task : {"deliver", "sweep", "retry"}, todo : SUBSET Msg, took : SUBSET Msg,
   newest : Msg, got : Reading \cup {"unread", "handoff"}, paused : BOOLEAN,
   overtaken : BOOLEAN, tries : 0..Retries, life : 0..FunctionTicks]

Idle == [at |-> "idle", task |-> "deliver", todo |-> {}, took |-> {}, newest |-> 1,
         got |-> "unread", paused |-> FALSE, overtaken |-> FALSE, tries |-> 0,
         life |-> 0]

Init ==
  /\ stored = {} /\ only = {} /\ executed = {} /\ held = {} /\ shared = {}
  /\ age = [m \in Msg |-> 0]
  /\ card = [m \in Msg |-> "none"]
  /\ reads = [m \in Msg |-> 0]
  /\ acted = [m \in Msg |-> {}]
  /\ readWith = [m \in Msg |-> {}]
  /\ paused \in BOOLEAN
  /\ flips = 0 /\ deaths = 0
  /\ work = [w \in Worker |-> Idle]

Become(w, v) == work' = [work EXCEPT ![w] = v]
At(w, place) == work[w].at = place
Goto(w, place) == Become(w, [work[w] EXCEPT !.at = place])
Live(w) == ~At(w, "idle")
Earlier(w) == work[w].took \ {work[w].newest}
DecidesOn(w, m) ==
  work[w].at \in {"check", "read", "record", "run", "result"} /\ work[w].newest = m

-----------------------------------------------------------------------------
(* A delivery (handleInbound): capture first, one row at a time.            *)

Deliver(d, n) ==
  /\ At(d, "idle")
  /\ Become(d, [Idle EXCEPT !.at = "store", !.todo = 1..n, !.paused = paused,
                            !.life = FunctionTicks])
  /\ UNCHANGED <<rows, history, world>>

Store(d) ==
  LET v == work[d]
      m == Min(v.todo)
      new == m \notin stored
      left == v.todo \ {m}
      took == IF new THEN v.took \cup {m} ELSE v.took
  IN
  /\ At(d, "store")
  /\ stored' = stored \cup {m}
  /\ age' = IF new THEN [age EXCEPT ![m] = 0] ELSE age
  /\ held' = IF new /\ v.paused THEN held \cup {m} ELSE held
  /\ Become(d, IF left # {} THEN [v EXCEPT !.todo = left, !.took = took]
               ELSE IF took = {} THEN Idle
               ELSE [v EXCEPT !.todo = {}, !.took = took, !.newest = Max(took),
                              !.at = IF v.paused THEN "mark" ELSE "seen"])
  /\ UNCHANGED <<only, card, reads, executed, acted, readWith, shared, paused, flips, deaths>>

MarkStoreOnly(d) ==
  /\ At(d, "mark")
  /\ only' = only \cup work[d].took
  /\ Become(d, Idle)
  /\ UNCHANGED <<stored, card, reads, executed, history, world>>

\* decideDelivery: a newest email that has a decision is not decided again.
LookForDecision(d) ==
  /\ At(d, "seen")
  /\ Goto(d, IF card[work[d].newest] = "none" THEN "check" ELSE "after")
  /\ UNCHANGED <<rows, history, world>>

-----------------------------------------------------------------------------
(* Deciding on one email (processMessage, decideMessage).                   *)

\* An email something was written for is not decided again.
Check(w) ==
  /\ At(w, "check")
  /\ Goto(w, IF work[w].newest \in executed THEN "after" ELSE "read")
  /\ UNCHANGED <<rows, history, world>>

\* The model and the planner: a write, no write (a person's, or nothing to do),
\* or a reading that failed.
ReadAndPlan(w, got) ==
  /\ At(w, "read")
  /\ Become(w, [work[w] EXCEPT !.at = "record", !.got = got])
  /\ UNCHANGED <<rows, history, world>>

\* recordDecision replaces the row, and keeps the results it holds.
Record(w) ==
  LET v == work[w]  m == work[w].newest IN
  /\ At(w, "record")
  /\ card' = [card EXCEPT ![m] = IF v.got \in Reading THEN "write" ELSE v.got]
  /\ reads' = [reads EXCEPT ![m] = 0]
  /\ readWith' = IF v.got = "unread" THEN readWith
                 ELSE [readWith EXCEPT ![m] = v.took \cup {m}]
  /\ Goto(w, IF v.got \in Reading THEN "run" ELSE "after")
  /\ UNCHANGED <<stored, only, executed, acted, held, shared, world>>

\* runOp: a key, made of the email and the content of the write, is run once;
\* it may be refused.
Run(w) ==
  LET v == work[w]  m == work[w].newest IN
  /\ At(w, "run")
  /\ \/ acted' = [acted EXCEPT ![m] = @ \cup {v.got}]
     \/ acted' = acted
  /\ Goto(w, "result")
  /\ UNCHANGED <<rows, readWith, held, shared, world>>

RecordResult(w) ==
  LET m == work[w].newest IN
  /\ At(w, "result")
  /\ card' = [card EXCEPT ![m] = "write"]
  /\ reads' = [reads EXCEPT ![m] = 0]
  /\ executed' = executed \cup {m}
  /\ Goto(w, "after")
  /\ UNCHANGED <<stored, only, history, world>>

\* A delivery settles the earlier emails one by one, where they have no row; a
\* sweep those it claimed at once; a retry counts the try on a card still unread.
Settle(d) ==
  LET left == Earlier(d)  m == Min(left) IN
  /\ At(d, "after") /\ work[d].task = "deliver" /\ left # {}
  /\ card' = IF card[m] = "none" THEN [card EXCEPT ![m] = "together"] ELSE card
  /\ Become(d, [work[d] EXCEPT !.took = @ \ {m}])
  /\ UNCHANGED <<stored, only, reads, executed, history, world>>

Settled(d) ==
  /\ At(d, "after") /\ work[d].task = "deliver" /\ Earlier(d) = {}
  /\ Become(d, Idle)
  /\ UNCHANGED <<rows, history, world>>

SettleClaimed(s) ==
  /\ At(s, "after") /\ work[s].task = "sweep"
  /\ card' = [m \in Msg |-> IF m \in Earlier(s) /\ card[m] = "claim"
                            THEN "together" ELSE card[m]]
  /\ Become(s, Idle)
  /\ UNCHANGED <<stored, only, reads, executed, history, world>>

CountTry(s) ==
  LET m == work[s].newest IN
  /\ At(s, "after") /\ work[s].task = "retry"
  /\ reads' = IF card[m] = "unread"
              THEN [reads EXCEPT ![m] = work[s].tries + 1] ELSE reads
  /\ Become(s, Idle)
  /\ UNCHANGED <<stored, only, card, executed, history, world>>

-----------------------------------------------------------------------------
(* The sweep (sweepUndecided).                                              *)

\* (Fault, the code of before 23 October: nobody looks for undecided emails.)
UndecidedNone == {}

\* (Fault: what is stored is taken before a delivery's time is over.)
UndecidedTooSoon == {m \in stored \ only : card[m] = "none" /\ age[m] >= OldTicks - 1}

\* (Fault: what is held back is taken too.)
UndecidedHeldToo == {m \in stored : card[m] = "none" /\ age[m] >= OldTicks}

\* Stored long enough ago that no delivery can have it in hand, without a
\* decision and not held back.
Undecided == {m \in stored \ only : card[m] = "none" /\ age[m] >= OldTicks}

Select(s) ==
  /\ At(s, "idle") /\ ~paused
  /\ Undecided # {}
  /\ Become(s, [Idle EXCEPT !.at = "overtaken", !.task = "sweep", !.todo = Undecided,
                            !.newest = Max(Undecided), !.life = FunctionTicks])
  /\ UNCHANGED <<rows, history, world>>

\* (Fault: a later decision on the thread is not looked for.)
LookOvertakenNever(s) ==
  /\ At(s, "overtaken")
  /\ Goto(s, "claim")
  /\ UNCHANGED <<rows, history, world>>

LookOvertaken(s) ==
  /\ At(s, "overtaken")
  /\ Become(s, [work[s] EXCEPT !.at = "claim",
       !.overtaken = \E m \in Msg : m > work[s].newest /\ card[m] # "none"])
  /\ UNCHANGED <<rows, history, world>>

\* (Fault: a row somebody else inserted counts as claimed.)
ClaimAnyway(s) ==
  LET v == work[s]
      m == Min(v.todo)
      left == v.todo \ {m}
      took == v.took \cup {m}
  IN
  /\ At(s, "claim")
  /\ card' = IF card[m] = "none"
             THEN [card EXCEPT ![m] = IF v.overtaken THEN "overtaken" ELSE "claim"]
             ELSE card
  /\ Become(s, IF left # {} THEN [v EXCEPT !.todo = left, !.took = took]
               ELSE IF v.overtaken \/ v.newest \notin took THEN Idle
               ELSE [v EXCEPT !.todo = {}, !.took = took, !.at = "check"])
  /\ UNCHANGED <<stored, only, reads, executed, history, world>>

\* The claim is a card of its own, inserted unless the email has a row by now.
Claim(s) ==
  LET v == work[s]
      m == Min(v.todo)
      free == card[m] = "none"
      left == v.todo \ {m}
      took == IF free THEN v.took \cup {m} ELSE v.took
  IN
  /\ At(s, "claim")
  /\ card' = IF free
             THEN [card EXCEPT ![m] = IF v.overtaken THEN "overtaken" ELSE "claim"]
             ELSE card
  /\ Become(s, IF left # {} THEN [v EXCEPT !.todo = left, !.took = took]
               ELSE IF v.overtaken \/ v.newest \notin took THEN Idle
               ELSE [v EXCEPT !.todo = {}, !.took = took, !.at = "check"])
  /\ UNCHANGED <<stored, only, reads, executed, history, world>>

-----------------------------------------------------------------------------
(* The retry (retryUnread): the email is decided again, by itself.          *)

\* (Fault: the tries are not limited.)
RetryAlways(s, m) ==
  /\ At(s, "idle") /\ ~paused
  /\ card[m] = "unread" /\ m \notin executed
  /\ shared' = IF \E w \in Worker : DecidesOn(w, m) THEN shared \cup {m} ELSE shared
  /\ Become(s, [Idle EXCEPT !.at = "check", !.task = "retry", !.newest = m,
                            !.tries = reads[m], !.life = FunctionTicks])
  /\ UNCHANGED <<rows, acted, readWith, held, world>>

\* Nothing on the card says that a retry has it in hand: another sync's may take
\* it up as well, until one of them has recorded what it read.
Retry(s, m) ==
  /\ At(s, "idle") /\ ~paused
  /\ card[m] = "unread" /\ m \notin executed /\ reads[m] < Retries
  /\ shared' = IF \E w \in Worker : DecidesOn(w, m) THEN shared \cup {m} ELSE shared
  /\ Become(s, [Idle EXCEPT !.at = "check", !.task = "retry", !.newest = m,
                            !.tries = reads[m], !.life = FunctionTicks])
  /\ UNCHANGED <<rows, acted, readWith, held, world>>

-----------------------------------------------------------------------------
(* Throws, kills, time and the pause.                                       *)

\* (Fault: a delivery whose decision threw settles the earlier emails.)
ThrowSettles(w) ==
  /\ work[w].at \in {"check", "read", "record", "run", "result"}
  /\ deaths < Deaths /\ deaths' = deaths + 1
  /\ Goto(w, "after")
  /\ UNCHANGED <<rows, history, age, paused, flips>>

\* A decision that throws: the delivery answers 500, the sweep says so on the
\* cards it claimed, the retry counts the try.
Throw(w) ==
  LET v == work[w] IN
  /\ v.at \in {"check", "read", "record", "run", "result"}
  /\ deaths < Deaths /\ deaths' = deaths + 1
  /\ card' = [m \in Msg |-> IF v.task = "sweep" /\ m \in v.took /\ card[m] = "claim"
                            THEN "failed" ELSE card[m]]
  /\ IF v.task = "retry" THEN Goto(w, "after") ELSE Become(w, Idle)
  /\ UNCHANGED <<stored, only, reads, executed, history, age, paused, flips>>

Kill(w) ==
  /\ Live(w)
  /\ deaths < Deaths /\ deaths' = deaths + 1
  /\ Become(w, Idle)
  /\ UNCHANGED <<rows, history, age, paused, flips>>

Tick ==
  /\ \A w \in Worker : Live(w) => work[w].life > 0
  /\ work' = [w \in Worker |->
                IF Live(w) THEN [work[w] EXCEPT !.life = @ - 1] ELSE work[w]]
  /\ age' = [m \in Msg |->
               IF m \in stored /\ age[m] < OldTicks THEN age[m] + 1 ELSE age[m]]
  /\ UNCHANGED <<rows, history, paused, flips, deaths>>

Flip ==
  /\ flips < Flips /\ flips' = flips + 1
  /\ paused' = ~paused
  /\ UNCHANGED <<rows, history, age, deaths, work>>

DecideOn(w) ==
  \/ Check(w) \/ Record(w) \/ Run(w) \/ RecordResult(w)
  \/ \E got \in Reading \cup {"unread", "handoff"} : ReadAndPlan(w, got)

DeliveryStep(d) ==
  \/ Store(d) \/ MarkStoreOnly(d) \/ LookForDecision(d) \/ DecideOn(d)
  \/ Settle(d) \/ Settled(d)

SyncStep(s) ==
  \/ Select(s) \/ LookOvertaken(s) \/ Claim(s) \/ SettleClaimed(s)
  \/ \E m \in Msg : Retry(s, m)
  \/ CountTry(s) \/ DecideOn(s)

Next ==
  \/ \E d \in Delivery : DeliveryStep(d) \/ \E n \in Msg : Deliver(d, n)
  \/ \E s \in Sync : SyncStep(s)
  \/ \E w \in Worker : Throw(w) \/ Kill(w)
  \/ Tick \/ Flip

Spec == Init /\ [][Next]_vars

\* The cron starts a sync every minute; an invocation within its time goes on.
Fairness ==
  /\ WF_vars(Tick)
  /\ \A d \in Delivery : WF_vars(DeliveryStep(d))
  /\ \A s \in Sync : WF_vars(SyncStep(s))
FairSpec == Spec /\ Fairness

-----------------------------------------------------------------------------
(* Properties.                                                              *)

TypeOK ==
  /\ stored \subseteq Msg /\ only \subseteq stored /\ executed \subseteq stored
  /\ age \in [Msg -> 0..OldTicks]
  /\ card \in [Msg -> Card] /\ reads \in [Msg -> 0..Retries]
  /\ acted \in [Msg -> SUBSET Reading] /\ readWith \in [Msg -> SUBSET stored]
  /\ held \subseteq stored /\ shared \subseteq stored /\ paused \in BOOLEAN
  /\ flips \in 0..Flips /\ deaths \in 0..Deaths
  /\ work \in [Worker -> WorkState]

\* An email is written to OnSinch as one reading of it at most, although reading
\* it again may read it otherwise, under another operation key: a delivery, the
\* sweeps of overlapping syncs and the retries, one after another, never both
\* write it.  Only two retries that were at it at once may (DecideWrittenTwice.cfg).
WrittenOnce == \A m \in Msg \ shared : Cardinality(acted[m]) <= 1

\* An email taken in by the reading that a later email was written by is not
\* written by itself as well: "4 crew" and "make it 5" are never both done.
NotTakenTwice ==
  \A m, later \in Msg :
    m < later /\ m \in readWith[later] /\ acted[later] # {} => acted[m] = {}

\* An email is settled as read with a later one only when the later one has a
\* decision, so that a throw on the newest never settles the others unread.
SettledAfterNewest ==
  \A m \in Msg : card[m] = "together" =>
    \E later \in Msg : later > m /\ card[later] \notin {"none", "claim"}

\* Two sweeps under way never decide on the same email: the claim goes to one.
Deciding(s, m) == work[s].task = "sweep" /\ DecidesOn(s, m)
SweepsApart ==
  \A s, t \in Sync, m \in Msg : s # t => ~(Deciding(s, m) /\ Deciding(t, m))

\* Every stored client email that is not held back ends in a decision or a card,
\* whatever died on the way, once the automation is not paused.
EveryEmailDecided ==
  <>[]~paused => \A m \in Msg : m \in stored ~> card[m] # "none" \/ m \in only

\* An email marked as store-only stays out of every decision: no sweep, no retry
\* and no later delivery takes it in, once the pause is lifted or before.
MarkedStaysOut ==
  \A m \in only : card[m] = "none" /\ \A later \in Msg : m \notin readWith[later]

-----------------------------------------------------------------------------
(* What the comments in the code say and the code does not do.              *)

\* process.ts:171, decideDelivery: "Each message is decided once".
DecidedOnce == \A m \in Msg : Cardinality(acted[m]) <= 1

\* paused.ts: nothing decides what arrives while paused, then or after.
HeldIsNeverRead ==
  \A m \in held : \A later \in Msg : m \notin readWith[later]

\* process.ts, decideDelivery: several new client messages are read as one, so
\* an email settled as read with a later one is in the reading that decided.
ReadAsOne ==
  \A m \in Msg :
    card[m] = "together" /\ (\A later \in Msg : later > m => card[later] \in {"write", "handoff"})
      => \E later \in Msg : later > m /\ m \in readWith[later]

=============================================================================
