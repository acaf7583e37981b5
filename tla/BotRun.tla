------------------------------- MODULE BotRun -------------------------------
(***************************************************************************)
(* How one operation reaches OnSinch (app/lib/v2/bot/run.ts, runOp): the   *)
(* one-row lease, the ledger row per operation key, the saves clicked in   *)
(* the browser or posted to the API, the read-back and the recorded        *)
(* outcome.  Every runner is one serverless invocation executing runOp;    *)
(* each database query and each request to OnSinch is a step of its own,   *)
(* because the database driver gives every query its own transaction, and  *)
(* an invocation may be killed between any two of them.                    *)
(***************************************************************************)
EXTENDS Integers

CONSTANTS
  Runner,         \* invocations that may be running an operation
  Key,            \* operation keys: the source message and the operation's content
  NoKey,
  Kind,           \* Kind[k]: "edit" (a form edit or a cancel), "add", "create"
  Saves,          \* Saves[k]: how many saves the operation is made of
  MaxSaves,
  Legacy,         \* keys whose operation ran under the key of before 27 October
  LeaseTicks,     \* the lease, 240 s
  FunctionTicks   \* the longest an invocation lives, 300 s

Save == 1..MaxSaves

ASSUME RunAssumption ==
  /\ NoKey \notin Key
  /\ Legacy \subseteq Key
  /\ Kind \in [Key -> {"edit", "add", "create"}]
  /\ MaxSaves \in Nat
  /\ Saves \in [Key -> Save]
  /\ \A k \in Key : Kind[k] = "edit" => Saves[k] = 1
  /\ LeaseTicks \in Nat \ {0}
  /\ FunctionTicks \in Nat \ {0}

VARIABLES
  run,        \* run[p]: where the invocation p is in runOp
  lease,      \* the bot_lease row
  ledger,     \* bot_ledger: the status of each key's row, "none" without a row
  sent,       \* sent[k][i]: how often save i of k left for OnSinch (history)
  landed,     \* landed[k]: the saves of k that OnSinch carried out (history)
  contested   \* keys whose lease a run took although another run had taken it (history)

vars == <<run, lease, ledger, sent, landed, contested>>
onsinch == <<sent, landed>>

Stage == {"blocked", "failed", "unknown", "submitted"}
Status == Stage \cup {"intent", "verified", "mismatch"}
Final == Status \ {"intent", "submitted"}
Place == {"idle", "lease", "wait", "intent", "check", "drive", "answer",
          "note", "readback", "write", "catch", "end"}

\* One invocation: the time it and its lease have left, the save it is at, the
\* outcome to be recorded, whether a throw may hide a save (phase), whether a
\* made operation is only half there, whether it is inside finish, and whether
\* its lease release has been asked for.
RunState ==
  [pc : Place, key : Key \cup {NoKey}, life : 0..FunctionTicks,
   mine : 0..LeaseTicks, at : 0..(MaxSaves + 1), out : Status \cup {"none"},
   phase : {"pre", "browser"}, half : BOOLEAN, finishing : BOOLEAN,
   released : BOOLEAN]

Idle == [pc |-> "idle", key |-> NoKey, life |-> 0, mine |-> 0, at |-> 0,
         out |-> "none", phase |-> "pre", half |-> FALSE,
         finishing |-> FALSE, released |-> FALSE]

Init ==
  /\ run = [p \in Runner |-> Idle]
  /\ lease = [holder |-> NoKey, left |-> 0]
  /\ ledger = [k \in Key |-> "none"]
  /\ sent = [k \in Key |-> [i \in Save |-> 0]]
  /\ landed = [k \in Key |-> {}]
  /\ contested = {}

Become(p, r) == run' = [run EXCEPT ![p] = r]
At(p, place) == run[p].pc = place
Goto(p, place) == Become(p, [run[p] EXCEPT !.pc = place])

Active(p) == run[p].pc \notin {"idle", "lease", "wait"}
Driving(p) == run[p].pc \in {"drive", "answer"}

-----------------------------------------------------------------------------
(* Taking the operation up.  A key that already has a row, or had one under *)
(* its legacy form, answers "seen" and changes nothing.                     *)

\* (Fault: an operation run under its legacy key is not asked for.)
LookupNewKeyOnly(p, k, t) ==
  /\ At(p, "idle")
  /\ ledger[k] = "none"
  /\ Become(p, [Idle EXCEPT !.pc = "lease", !.key = k, !.life = t])
  /\ UNCHANGED <<lease, ledger, onsinch, contested>>

Lookup(p, k, t) ==
  /\ At(p, "idle")
  /\ ledger[k] = "none" /\ k \notin Legacy
  /\ Become(p, [Idle EXCEPT !.pc = "lease", !.key = k, !.life = t])
  /\ UNCHANGED <<lease, ledger, onsinch, contested>>

\* (Fault: the lease is taken a tick before it runs out.)
FreeEarly(k) == lease.left <= 1 \/ lease.holder = k

Free(k) == lease.left = 0 \/ lease.holder = k

AcquireLease(p) ==
  LET k == run[p].key IN
  /\ At(p, "lease")
  /\ Free(k)
  /\ lease' = [holder |-> k, left |-> LeaseTicks]
  /\ contested' = IF \/ ledger[k] # "none"
                     \/ \E q \in Runner \ {p} : Active(q) /\ run[q].key = k
                  THEN contested \cup {k} ELSE contested
  /\ Become(p, [run[p] EXCEPT !.pc = "intent", !.mine = LeaseTicks])
  /\ UNCHANGED <<ledger, onsinch>>

\* "busy" is answered before the ledger or the browser; the caller asks again
\* for two minutes (runWhenFree) or gives up.
Busy(p) ==
  /\ At(p, "lease")
  /\ ~Free(run[p].key)
  /\ Goto(p, "wait")
  /\ UNCHANGED <<lease, ledger, onsinch, contested>>

AskAgain(p) ==
  /\ At(p, "wait")
  /\ IF ledger[run[p].key] = "none" THEN Goto(p, "lease") ELSE Become(p, Idle)
  /\ UNCHANGED <<lease, ledger, onsinch, contested>>

GiveUp(p) ==
  /\ At(p, "wait")
  /\ Become(p, Idle)
  /\ UNCHANGED <<lease, ledger, onsinch, contested>>

\* (Fault: an intent row that is already there does not stop the run.)
WriteIntentAnyway(p) ==
  /\ At(p, "intent")
  /\ ledger' = [ledger EXCEPT ![run[p].key] = "intent"]
  /\ Goto(p, "check")
  /\ UNCHANGED <<lease, onsinch, contested>>

WriteIntent(p) ==
  LET k == run[p].key IN
  /\ At(p, "intent")
  /\ IF ledger[k] = "none"
     THEN ledger' = [ledger EXCEPT ![k] = "intent"] /\ Goto(p, "check")
     ELSE ledger' = ledger /\ Goto(p, "end")
  /\ UNCHANGED <<lease, onsinch, contested>>

-----------------------------------------------------------------------------
(* Before the browser: the order is read, refused, already so, or driven.   *)
(* Staff may change OnSinch at any moment, so what a read finds is open.    *)

Refuse(p) ==
  /\ At(p, "check")
  /\ Become(p, [run[p] EXCEPT !.pc = "write", !.out = "blocked"])
  /\ UNCHANGED <<lease, ledger, onsinch, contested>>

AlreadySo(p) ==
  /\ At(p, "check")
  /\ Kind[run[p].key] # "create"
  /\ Become(p, [run[p] EXCEPT !.pc = "write", !.out = "verified"])
  /\ UNCHANGED <<lease, ledger, onsinch, contested>>

Open(p) ==
  /\ At(p, "check")
  /\ Become(p, [run[p] EXCEPT !.pc = "drive", !.at = 1, !.phase = "browser"])
  /\ UNCHANGED <<lease, ledger, onsinch, contested>>

-----------------------------------------------------------------------------
(* The saves.                                                               *)

\* (Fault: the loop over the saves goes one too far.)
NextSaveOneMore(r, i) ==
  [r EXCEPT !.pc = IF i > Saves[r.key] + 1 THEN "readback" ELSE "drive", !.at = i]

\* Save i is next, or there is none left.
NextSave(r, i) ==
  [r EXCEPT !.pc = IF i > Saves[r.key] THEN "readback" ELSE "drive", !.at = i]

\* What follows a save that ended in `stage`.  An edit goes to finish, whose
\* promise is returned without being awaited: from there the lease is released
\* beside it and a throw is no longer caught.  An addition is half made when its
\* shift went in and cannot be told from another new one, or a later save did
\* not go in.  A create leaves the shift whose position did not go in, and may
\* go on with a later shift.
After(p, stage) ==
  LET r == run[p]
      whole == stage = "submitted"
  IN CASE Kind[r.key] = "edit" ->
            IF whole THEN {[r EXCEPT !.pc = "note", !.finishing = TRUE]}
            ELSE {[r EXCEPT !.pc = "write", !.out = stage, !.finishing = TRUE]}
       [] Kind[r.key] = "add" ->
            IF whole
            THEN {NextSave(r, r.at + 1)} \cup
                 (IF r.at = 1 THEN {[r EXCEPT !.pc = "readback", !.half = TRUE]} ELSE {})
            ELSE IF r.at = 1 THEN {[r EXCEPT !.pc = "write", !.out = stage]}
            ELSE {[r EXCEPT !.pc = "readback", !.half = TRUE]}
       [] Kind[r.key] = "create" ->
            IF r.at = 1 THEN {[r EXCEPT !.pc = "note"]}
            ELSE IF whole THEN {NextSave(r, r.at + 1)}
            ELSE {[NextSave(r, i) EXCEPT !.half = TRUE] :
                     i \in (r.at + 1)..(Saves[r.key] + 1)}

FromApi(p) == Kind[run[p].key] = "create" /\ run[p].at = 1

\* Stopped before the click, or aborted in flight by the request guard: nothing
\* left.  A browser that died is relaunched once by `step`, which is why the
\* same save may simply be tried (a step of the same drive).
Blocked(p) ==
  /\ At(p, "drive")
  /\ ~FromApi(p)
  /\ \E r \in After(p, "blocked") : Become(p, r)
  /\ UNCHANGED <<lease, ledger, onsinch, contested>>

Click(p) ==
  LET k == run[p].key  i == run[p].at IN
  /\ At(p, "drive")
  /\ sent' = [sent EXCEPT ![k][i] = @ + 1]
  /\ \/ landed' = [landed EXCEPT ![k] = @ \cup {i}]
     \/ landed' = landed
  /\ Goto(p, "answer")
  /\ UNCHANGED <<lease, ledger, contested>>

\* OnSinch's answer: true, refused, or lost.  The API client throws on the
\* other two (Throw), so an order from the API only ever answers "submitted".
Answer(p, stage) ==
  LET k == run[p].key  i == run[p].at IN
  /\ At(p, "answer")
  /\ stage = "submitted" => i \in landed[k]
  /\ stage = "failed" => i \notin landed[k]
  /\ FromApi(p) => stage = "submitted"
  /\ \E r \in After(p, stage) : Become(p, r)
  /\ UNCHANGED <<lease, ledger, onsinch, contested>>

-----------------------------------------------------------------------------
(* The outcome.                                                             *)

NoteSubmitted(p) ==
  LET r == run[p] IN
  /\ At(p, "note")
  /\ ledger' = [ledger EXCEPT ![r.key] = "submitted"]
  /\ IF r.at < Saves[r.key]
     THEN Become(p, [r EXCEPT !.pc = "drive", !.at = @ + 1])
     ELSE Goto(p, "readback")
  /\ UNCHANGED <<lease, onsinch, contested>>

\* (Fault: an operation that stopped part-way is judged by the read-back alone.)
ReadBackAlone(p, matches) ==
  /\ At(p, "readback")
  /\ Become(p, [run[p] EXCEPT !.pc = "write",
                  !.out = IF matches THEN "verified" ELSE "mismatch"])
  /\ UNCHANGED <<lease, ledger, onsinch, contested>>

ReadBack(p, matches) ==
  /\ At(p, "readback")
  /\ Become(p, [run[p] EXCEPT !.pc = "write",
                  !.out = IF matches /\ ~run[p].half THEN "verified" ELSE "mismatch"])
  /\ UNCHANGED <<lease, ledger, onsinch, contested>>

WriteOutcome(p) ==
  /\ At(p, "write")
  /\ ledger' = [ledger EXCEPT ![run[p].key] = run[p].out]
  /\ Goto(p, "end")
  /\ UNCHANGED <<lease, onsinch, contested>>

\* Any query or request may throw, and a query that throws may have been applied
\* all the same.  Inside finish nothing catches it.
Applied(p) ==
  LET k == run[p].key IN
  CASE At(p, "intent") /\ ledger[k] = "none" -> [ledger EXCEPT ![k] = "intent"]
    [] At(p, "note") -> [ledger EXCEPT ![k] = "submitted"]
    [] At(p, "write") -> [ledger EXCEPT ![k] = run[p].out]
    [] OTHER -> ledger

Throw(p) ==
  /\ run[p].pc \in {"intent", "check", "drive", "answer", "note", "readback", "write"}
  /\ Goto(p, IF run[p].finishing THEN "end" ELSE "catch")
  /\ ledger' \in {ledger, Applied(p)}
  /\ UNCHANGED <<lease, onsinch, contested>>

throwStatus(phase) == IF phase = "pre" THEN "blocked" ELSE "unknown"

\* The catch records what the phase allows; its own query may fail, unheard.
\* It updates the key's row whoever inserted it.
Catch(p) ==
  LET k == run[p].key IN
  /\ At(p, "catch")
  /\ \/ ledger' = ledger
     \/ /\ ledger[k] # "none"
        /\ ledger' = [ledger EXCEPT ![k] = throwStatus(run[p].phase)]
  /\ Goto(p, "end")
  /\ UNCHANGED <<lease, onsinch, contested>>

ReleaseLease(p) ==
  /\ At(p, "end") \/ run[p].finishing
  /\ ~run[p].released
  /\ Become(p, IF At(p, "end") THEN Idle ELSE [run[p] EXCEPT !.released = TRUE])
  /\ \/ lease' = lease
     \/ lease.holder = run[p].key /\ lease' = [lease EXCEPT !.left = 0]
  /\ UNCHANGED <<ledger, onsinch, contested>>

Return(p) ==
  /\ At(p, "end") /\ run[p].released
  /\ Become(p, Idle)
  /\ UNCHANGED <<lease, ledger, onsinch, contested>>

-----------------------------------------------------------------------------
(* Time, and the platform that ends an invocation: at its limit for certain, *)
(* before it at any moment (a deploy, a crash).                              *)

Kill(p) ==
  /\ ~At(p, "idle")
  /\ Become(p, Idle)
  /\ UNCHANGED <<lease, ledger, onsinch, contested>>

Dec(n) == IF n = 0 THEN 0 ELSE n - 1

Tick ==
  /\ \A p \in Runner : ~At(p, "idle") => run[p].life > 0
  /\ run' = [p \in Runner |->
               [run[p] EXCEPT !.life = Dec(@), !.mine = Dec(@)]]
  /\ lease' = [lease EXCEPT !.left = Dec(@)]
  /\ UNCHANGED <<ledger, onsinch, contested>>

Next ==
  \/ \E p \in Runner :
       \/ \E k \in Key, t \in 1..FunctionTicks : Lookup(p, k, t)
       \/ AcquireLease(p) \/ Busy(p) \/ AskAgain(p) \/ GiveUp(p) \/ WriteIntent(p)
       \/ Refuse(p) \/ AlreadySo(p) \/ Open(p)
       \/ Blocked(p) \/ Click(p)
       \/ \E stage \in {"submitted", "failed", "unknown"} : Answer(p, stage)
       \/ NoteSubmitted(p)
       \/ \E matches \in BOOLEAN : ReadBack(p, matches)
       \/ WriteOutcome(p) \/ Throw(p) \/ Catch(p) \/ ReleaseLease(p) \/ Return(p)
       \/ Kill(p)
  \/ Tick

Spec == Init /\ [][Next]_vars

-----------------------------------------------------------------------------
(* Properties.                                                              *)

TypeOK ==
  /\ run \in [Runner -> RunState]
  /\ lease \in [holder : Key \cup {NoKey}, left : 0..LeaseTicks]
  /\ ledger \in [Key -> Status \cup {"none"}]
  /\ sent \in [Key -> [Save -> Nat]]
  /\ landed \in [Key -> SUBSET Save]
  /\ contested \subseteq Key

\* No save of an operation is sent twice, whatever is killed, throws or races:
\* runOp looks the key up, and of two runs of one key only the one whose intent
\* row went in drives.
SentOnce == \A k \in Key, i \in Save : sent[k][i] <= 1

\* Nothing is sent without a row in the ledger, so a run that dies between the
\* save and the read-back leaves a trace that stops the operation's next run.
SentIsRecorded ==
  \A k \in Key : ledger[k] = "none" => \A i \in Save : sent[k][i] = 0

Sent(k) == \E i \in Save : sent[k][i] > 0

\* What the ledger says of an uncontested key is true: "blocked" sent nothing,
\* "failed" changed nothing, and "verified" found the change already made or
\* made the whole of it.
LedgerTrue ==
  \A k \in Key \ contested :
    /\ ledger[k] = "blocked" => ~Sent(k)
    /\ ledger[k] = "failed" => landed[k] = {}
    /\ ledger[k] = "verified" => ~Sent(k) \/ landed[k] = 1..Saves[k]

\* The lease does its work for the runs it still covers: two uncontested runs
\* that are both within the lease they took never drive OnSinch together.
SoleDriver ==
  \A p, q \in Runner :
    /\ p # q
    /\ Driving(p) /\ run[p].mine > 0 /\ run[p].key \notin contested
    /\ Driving(q) /\ run[q].mine > 0 /\ run[q].key \notin contested
    => FALSE

\* Every operation is taken up once, for good, and each of its saves leaves at
\* most once: the runs, leases and ledger rows carry out WriteOnce.
Once == INSTANCE WriteOnce WITH taken <- {k \in Key : ledger[k] # "none"}
WritesOnce == Once!Spec

-----------------------------------------------------------------------------
(* Why these hold: the inductive invariant.  The first five parts are about  *)
(* one run p, the last three relate the runs and the rows.                   *)

Owner(p) == run[p].pc \in {"check", "drive", "answer", "note", "readback", "write"}

\* Where a run can be, in the shape its steps leave it.
Shape(p) ==
  LET r == run[p] IN
  /\ r.pc # "idle" => r.key \in Key \ Legacy
  /\ r.pc \in {"drive", "answer", "note"} => r.at \in 1..Saves[r.key]
  /\ r.pc \in {"drive", "answer", "note", "readback"} => r.phase = "browser"
  /\ r.finishing => r.pc \in {"note", "readback", "write", "end"} /\ Saves[r.key] = 1
  /\ r.released => r.finishing
  /\ r.pc = "write" => r.out # "none"

\* The saves a working run has still to make are untouched, and its row is there.
ToSend(r) ==
  {i \in Save : \/ r.pc = "check"
                \/ r.pc = "drive" /\ i >= r.at
                \/ r.pc \in {"answer", "note"} /\ i > r.at}
Untouched(p) ==
  LET r == run[p] IN
  /\ Owner(p) => ledger[r.key] # "none"
  /\ Owner(p) => \A i \in ToSend(r) : sent[r.key][i] = 0

\* The row of an uncontested key is not final while its run works.
Undecided(p) ==
  LET k == run[p].key IN
  k \notin contested =>
    /\ Active(p) /\ run[p].pc \notin {"catch", "end"} => ledger[k] \notin Final
    /\ run[p].pc = "intent" => ledger[k] = "none"

\* What a run is about to record is true.
Verdict(p) ==
  LET r == run[p]  k == run[p].key IN
  /\ r.pc \in {"drive", "answer"} /\ ~r.half => 1..(r.at - 1) \subseteq landed[k]
  /\ r.pc = "note" /\ ~r.half => 1..r.at \subseteq landed[k]
  /\ r.pc = "readback" /\ ~r.half => 1..Saves[k] \subseteq landed[k]
  /\ r.pc = "write" /\ (r.phase = "pre" \/ r.out = "blocked") => ~Sent(k)
  /\ r.pc = "write" /\ r.out = "failed" => landed[k] = {}
  /\ r.pc = "write" /\ r.out = "verified" => ~Sent(k) \/ landed[k] = 1..Saves[k]
  /\ r.pc = "catch" /\ r.phase = "pre" /\ k \notin contested => ~Sent(k)

\* A run within its lease, whose key nobody shares, still holds the row.
Covered(p) ==
  Active(p) /\ run[p].mine > 0 /\ ~run[p].released /\ run[p].key \notin contested
    => lease.holder = run[p].key /\ lease.left >= run[p].mine

\* The intent row arbitrates: one run at a time works under a row it inserted,
\* and a key two runs are active on is contested.
Apart ==
  \A p, q \in Runner :
    p # q /\ run[p].key = run[q].key =>
      /\ ~(Owner(p) /\ Owner(q))
      /\ Active(p) /\ Active(q) => run[p].key \in contested

\* Only what was sent landed, and no operation has more saves than its own.
Extent ==
  \A k \in Key : \A i \in landed[k] : i <= Saves[k] /\ sent[k][i] > 0

RunInv(p) == Shape(p) /\ Untouched(p) /\ Undecided(p) /\ Verdict(p) /\ Covered(p)

Strengthening ==
  /\ \A p \in Runner : RunInv(p)
  /\ Apart /\ Extent
  /\ SentOnce /\ SentIsRecorded /\ LedgerTrue

-----------------------------------------------------------------------------
(* What the comments in the code say and the code does not do.              *)

\* process.ts: the bot runs one operation at a time.  Stated of the runs the
\* lease was taken for and that are within its time, from the first save to the
\* read-back.
InOperation(p) ==
  /\ run[p].pc \in {"drive", "answer", "note", "readback"}
  /\ run[p].mine > 0
  /\ run[p].key \notin contested
OneOperation == \A p, q \in Runner : p # q => ~(InOperation(p) /\ InOperation(q))

=============================================================================
