--------------------------- MODULE BotRun_proofs ---------------------------
(***************************************************************************)
(* Proofs about BotRun, for any number of invocations and operation keys,  *)
(* any number of saves and any length of the lease and of an invocation.   *)
(* The inductive invariant is TypeOK with Strengthening.  RunMoves carries *)
(* every step that changes nothing but one run; the steps that write the   *)
(* ledger, the lease or OnSinch have a lemma each.                         *)
(***************************************************************************)
EXTENDS BotRun, TLAPS

IInv == TypeOK /\ Strengthening

\* One run moves and nothing else does: the invariant holds if the run's own
\* part does and the run does not become active, or an owner, by moving.
LEMMA RunMoves ==
  ASSUME IInv, NEW p \in Runner, NEW r \in RunState,
         Become(p, r), UNCHANGED <<lease, ledger, onsinch, contested>>,
         Active(p)' => Active(p) /\ r.key = run[p].key,
         Owner(p)' => Owner(p),
         RunInv(p)'
  PROVE  IInv'
<1>1. run' = [run EXCEPT ![p] = r] /\ run'[p] = r
  BY DEF Become, IInv, TypeOK
<1>2. \A q \in Runner \ {p} : run'[q] = run[q]
  BY <1>1
<1>3. TypeOK'
  BY <1>1 DEF IInv, TypeOK, onsinch
<1>4. \A q \in Runner : RunInv(q)'
  <2>1. ASSUME NEW q \in Runner, q # p PROVE RunInv(q)'
    BY <1>2, <2>1 DEF IInv, Strengthening, RunInv, Shape, Untouched, Undecided, Verdict,
       Covered, Owner, Active, ToSend, Sent, onsinch
  <2>2. QED BY <2>1
<1>5. Apart'
  BY <1>1, <1>2 DEF IInv, Strengthening, Apart, Owner, Active
<1>6. Extent' /\ SentOnce' /\ SentIsRecorded' /\ LedgerTrue'
  BY DEF IInv, Strengthening, Extent, SentOnce, SentIsRecorded, LedgerTrue, Sent, onsinch
<1>7. QED
  BY <1>3, <1>4, <1>5, <1>6 DEF IInv, Strengthening

\* The values a step writes into a run are of its type.
LEMMA Values ==
  /\ {"idle", "lease", "wait", "intent", "check", "drive", "answer", "note",
      "readback", "write", "catch", "end"} \subseteq Place
  /\ Stage \cup {"intent", "verified", "mismatch"} \subseteq Status
  /\ {"blocked", "failed", "unknown", "submitted"} \subseteq Stage
  /\ \A n \in Save : n \in 0..(MaxSaves + 1) /\ n + 1 \in 0..(MaxSaves + 1)
  /\ \A k \in Key : Saves[k] \in Nat /\ 1 <= Saves[k] /\ Saves[k] <= MaxSaves
  /\ MaxSaves \in Nat /\ 0 \in 0..(MaxSaves + 1) /\ 1 \in 0..(MaxSaves + 1)
  /\ \A t \in 1..FunctionTicks : t \in 0..FunctionTicks
  /\ 0 \in 0..LeaseTicks /\ LeaseTicks \in 0..LeaseTicks
BY RunAssumption DEF Place, Status, Stage, Save

LEMMA InitInv == Init => IInv
<1> SUFFICES ASSUME Init PROVE IInv
  OBVIOUS
<1> USE RunAssumption DEF Init
<1>1. TypeOK
  BY DEF TypeOK, RunState, Idle, Place, Status, Stage, Save
<1>2. \A p \in Runner : RunInv(p)
  BY DEF Idle, RunInv, Shape, Untouched, Undecided, Verdict, Covered, Owner, Active
<1>3. Apart
  BY DEF Idle, Apart, Owner, Active
<1>4. Extent /\ SentOnce /\ SentIsRecorded /\ LedgerTrue
  BY DEF Extent, SentOnce, SentIsRecorded, LedgerTrue, Sent
<1>5. QED
  BY <1>1, <1>2, <1>3, <1>4 DEF IInv, Strengthening

-----------------------------------------------------------------------------
(* The steps that move one run and nothing else.                            *)

\* A run that goes idle.
LEMMA GoesIdle ==
  ASSUME IInv, NEW p \in Runner, Become(p, Idle),
         UNCHANGED <<lease, ledger, onsinch, contested>>
  PROVE  IInv'
<1>1. Idle \in RunState
  BY RunAssumption DEF Idle, RunState, Place, Status, Stage
<1>2. run'[p] = Idle
  BY DEF Become, IInv, TypeOK
<1>3. ~Active(p)' /\ ~Owner(p)' /\ RunInv(p)'
  BY <1>2 DEF Idle, RunInv, Shape, Untouched, Undecided, Verdict, Covered, Owner, Active
<1>4. QED
  BY <1>1, <1>3, RunMoves

\* A run that waits for the lease, or comes back to ask for it.
LEMMA Waits ==
  ASSUME IInv, NEW p \in Runner, NEW r \in RunState, Become(p, r),
         UNCHANGED <<lease, ledger, onsinch, contested>>,
         r.pc \in {"lease", "wait"}, r.key \in Key \ Legacy,
         ~r.finishing, ~r.released
  PROVE  IInv'
<1>1. run'[p] = r
  BY DEF Become, IInv, TypeOK
<1>2. ~Active(p)' /\ ~Owner(p)' /\ RunInv(p)'
  BY <1>1 DEF RunInv, Shape, Untouched, Undecided, Verdict, Covered, Owner, Active
<1>3. QED
  BY <1>2, RunMoves

LEMMA LookupInv ==
  ASSUME IInv, NEW p \in Runner, NEW k \in Key, NEW t \in 1..FunctionTicks, Lookup(p, k, t)
  PROVE  IInv'
<1> DEFINE r == [Idle EXCEPT !.pc = "lease", !.key = k, !.life = t]
<1>1. /\ r \in RunState /\ r.pc = "lease" /\ r.key \in Key \ Legacy
      /\ ~r.finishing /\ ~r.released
  <2>1. Idle \in RunState
    BY Values, RunAssumption DEF Idle, RunState
  <2>2. QED
    BY <2>1, Values DEF Lookup, Idle, RunState
<1>2. Become(p, r) /\ UNCHANGED <<lease, ledger, onsinch, contested>>
  BY DEF Lookup
<1>3. QED
  BY <1>1, <1>2, Waits

LEMMA AskingInv ==
  ASSUME IInv, NEW p \in Runner, Busy(p) \/ AskAgain(p) \/ GiveUp(p)
  PROVE  IInv'
<1>1. CASE GiveUp(p) \/ (AskAgain(p) /\ ledger[run[p].key] # "none")
  BY <1>1, GoesIdle DEF GiveUp, AskAgain
<1>2. CASE Busy(p) \/ (AskAgain(p) /\ ledger[run[p].key] = "none")
  <2>1. PICK place \in {"lease", "wait"} : Goto(p, place)
    BY <1>2 DEF Busy, AskAgain
  <2> DEFINE r == [run[p] EXCEPT !.pc = place]
  <2>2. /\ r \in RunState /\ r.pc = place /\ r.key \in Key \ Legacy
        /\ ~r.finishing /\ ~r.released
    <3>1. run[p] \in RunState /\ run[p].pc \in {"lease", "wait"} /\ Shape(p)
      BY <1>2 DEF Busy, AskAgain, At, IInv, TypeOK, Strengthening, RunInv
    <3>2. QED
      BY <3>1, Values DEF RunState, Shape
  <2>3. Become(p, r) /\ UNCHANGED <<lease, ledger, onsinch, contested>>
    BY <1>2, <2>1 DEF Busy, AskAgain, Goto
  <2>4. QED
    BY <2>2, <2>3, Waits
<1>3. QED
  BY <1>1, <1>2

\* Refused before the browser, found already so, or opened.
LEMMA CheckInv ==
  ASSUME IInv, NEW p \in Runner, Refuse(p) \/ AlreadySo(p) \/ Open(p)
  PROVE  IInv'
<1>1. PICK r \in RunState :
        /\ Become(p, r) /\ r.key = run[p].key /\ r.half = run[p].half
        /\ r.finishing = run[p].finishing /\ r.released = run[p].released
        /\ r.mine = run[p].mine
        /\ \/ r.pc = "write" /\ r.out \in {"blocked", "verified"}
           \/ r.pc = "drive" /\ r.at = 1 /\ r.phase = "browser"
  <2> DEFINE refused == [run[p] EXCEPT !.pc = "write", !.out = "blocked"]
             so == [run[p] EXCEPT !.pc = "write", !.out = "verified"]
             opened == [run[p] EXCEPT !.pc = "drive", !.at = 1, !.phase = "browser"]
  <2>1. run[p] \in RunState
    BY DEF IInv, TypeOK
  <2>2. refused \in RunState /\ so \in RunState /\ opened \in RunState
    BY <2>1, Values DEF RunState
  <2>3. Become(p, refused) \/ Become(p, so) \/ Become(p, opened)
    BY DEF Refuse, AlreadySo, Open
  <2>4. QED
    <3>1. CASE Become(p, refused)
      BY <2>1, <2>2, <3>1 DEF RunState
    <3>2. CASE Become(p, so)
      BY <2>1, <2>2, <3>2 DEF RunState
    <3>3. CASE Become(p, opened)
      <4>1. /\ opened.key = run[p].key /\ opened.half = run[p].half
            /\ opened.finishing = run[p].finishing /\ opened.released = run[p].released
            /\ opened.mine = run[p].mine
            /\ opened.pc = "drive" /\ opened.at = 1 /\ opened.phase = "browser"
        BY <2>1 DEF RunState
      <4>2. QED BY <2>2, <3>3, <4>1
    <3>4. QED BY <2>3, <3>1, <3>2, <3>3
<1>2. run[p].pc = "check" /\ UNCHANGED <<lease, ledger, onsinch, contested>>
  BY DEF Refuse, AlreadySo, Open, At
<1>3. run'[p] = r
  BY <1>1 DEF Become, IInv, TypeOK
<1>4. run[p].key \in Key \ Legacy /\ ledger[run[p].key] # "none"
      /\ (\A i \in Save : sent[run[p].key][i] = 0)
  BY <1>2 DEF IInv, Strengthening, RunInv, Shape, Untouched, Owner, ToSend
<1>5. ~Sent(run[p].key)
  BY <1>4 DEF Sent
<1>6. Active(p)' /\ Active(p) /\ Owner(p)' /\ Owner(p)
  BY <1>1, <1>2, <1>3 DEF Active, Owner
<1>7. Shape(p)'
  BY <1>1, <1>2, <1>3, <1>4, RunAssumption DEF IInv, Strengthening, RunInv, Shape, Save
<1>8. Untouched(p)'
  BY <1>1, <1>2, <1>3, <1>4 DEF Untouched, ToSend, onsinch
<1>9. Undecided(p)' /\ Covered(p)'
  BY <1>1, <1>2, <1>3, <1>6 DEF IInv, Strengthening, RunInv, Undecided, Covered, Active
<1>10. Verdict(p)'
  BY <1>1, <1>2, <1>3, <1>5 DEF Verdict, Sent, onsinch
<1>11. QED
  BY <1>1, <1>2, <1>6, <1>7, <1>8, <1>9, <1>10, RunMoves DEF RunInv

\* What a run can become after a save.
LEMMA AfterCases ==
  ASSUME IInv, NEW p \in Runner, NEW stage \in Stage, NEW r \in After(p, stage),
         Driving(p), FromApi(p) => stage = "submitted"
  PROVE  /\ r \in RunState /\ r.key = run[p].key /\ r.mine = run[p].mine
         /\ r.phase = "browser" /\ ~r.released
         /\ r.finishing => r.pc \in {"note", "write"} /\ Saves[r.key] = 1
         /\ ~r.half => ~run[p].half
         /\ \/ r.pc = "note" /\ r.at = run[p].at /\ stage = "submitted"
            \/ r.pc = "write" /\ r.out = stage /\ stage # "submitted" /\ run[p].at = 1
            \/ /\ r.pc = "drive" /\ r.at \in (run[p].at + 1)..Saves[r.key]
               /\ r.half \/ (stage = "submitted" /\ r.at = run[p].at + 1)
            \/ /\ r.pc = "readback"
               /\ r.half \/ (stage = "submitted" /\ run[p].at = Saves[r.key])
<1> DEFINE old == run[p]
           noted == [old EXCEPT !.pc = "note"]
           notedEdit == [old EXCEPT !.pc = "note", !.finishing = TRUE]
           refused == [old EXCEPT !.pc = "write", !.out = stage]
           refusedEdit == [old EXCEPT !.pc = "write", !.out = stage, !.finishing = TRUE]
           halved == [old EXCEPT !.pc = "readback", !.half = TRUE]
           save(i) == NextSave(old, i)
<1>1. /\ old \in RunState /\ old.pc \in {"drive", "answer"} /\ old.key \in Key
      /\ old.at \in 1..Saves[old.key] /\ old.phase = "browser"
      /\ ~old.finishing /\ ~old.released
  BY DEF IInv, TypeOK, Strengthening, RunInv, Shape, Driving
<1>2. /\ Saves[old.key] \in Nat /\ Saves[old.key] <= MaxSaves /\ MaxSaves \in Nat
      /\ Kind[old.key] \in {"edit", "add", "create"}
      /\ Kind[old.key] = "edit" => Saves[old.key] = 1
  BY <1>1, Values, RunAssumption
<1>3. ASSUME NEW i \in (old.at + 1)..(Saves[old.key] + 1)
      PROVE  LET s == save(i) IN
             /\ s \in RunState /\ [s EXCEPT !.half = TRUE] \in RunState
             /\ s.key = old.key /\ s.mine = old.mine /\ s.phase = "browser" /\ ~s.released
             /\ ~s.finishing /\ (~s.half => ~old.half)
             /\ \/ s.pc = "drive" /\ s.at = i /\ i <= Saves[old.key]
                \/ s.pc = "readback" /\ i = Saves[old.key] + 1
  <2>1. i \in 0..(MaxSaves + 1) /\ i \in Int
    BY <1>1, <1>2
  <2>2. CASE i > Saves[old.key]
    <3>1. save(i) = [old EXCEPT !.pc = "readback", !.at = i] /\ i = Saves[old.key] + 1
      <4>1. i = Saves[old.key] + 1
        BY <1>1, <1>2, <2>2
      <4>2. (IF i > Saves[old.key] THEN "readback" ELSE "drive") = "readback"
        BY <2>2
      <4>3. QED BY <4>1, <4>2, Zenon DEF NextSave
    <3> HIDE DEF save
    <3>2. QED BY <1>1, <2>1, <3>1, Values DEF RunState
  <2>3. CASE ~(i > Saves[old.key])
    <3>1. save(i) = [old EXCEPT !.pc = "drive", !.at = i] /\ i <= Saves[old.key]
      <4>1. i <= Saves[old.key]
        BY <1>1, <1>2, <2>3
      <4>2. (IF i > Saves[old.key] THEN "readback" ELSE "drive") = "drive"
        BY <2>3
      <4>3. QED BY <4>1, <4>2, Zenon DEF NextSave
    <3> HIDE DEF save
    <3>2. QED BY <1>1, <2>1, <3>1, Values DEF RunState
  <2>4. QED BY <2>2, <2>3
<1>4. CASE /\ r = noted \/ (r = notedEdit /\ Saves[old.key] = 1)
           /\ stage = "submitted"
  BY <1>1, <1>4, Values DEF RunState
<1>5. CASE /\ r = refused \/ (r = refusedEdit /\ Saves[old.key] = 1)
           /\ stage # "submitted" /\ old.at = 1
  BY <1>1, <1>5, Values DEF RunState
<1>6. CASE r = halved
  BY <1>1, <1>6, Values DEF RunState
<1>7. CASE r = save(old.at + 1) /\ stage = "submitted"
  <2>1. old.at + 1 \in (old.at + 1)..(Saves[old.key] + 1)
    BY <1>1, <1>2
  <2> HIDE DEF save
  <2>2. /\ r \in RunState /\ r.key = old.key /\ r.mine = old.mine /\ r.phase = "browser"
        /\ ~r.released /\ ~r.finishing /\ (~r.half => ~old.half)
        /\ \/ r.pc = "drive" /\ r.at = old.at + 1 /\ old.at + 1 <= Saves[old.key]
           \/ r.pc = "readback" /\ old.at + 1 = Saves[old.key] + 1
    BY <1>3, <1>7, <2>1
  <2>3. QED BY <1>1, <1>2, <1>7, <2>2
<1>8. CASE \E i \in (old.at + 1)..(Saves[old.key] + 1) : r = [save(i) EXCEPT !.half = TRUE]
  <2>1. PICK i \in (old.at + 1)..(Saves[old.key] + 1) : r = [save(i) EXCEPT !.half = TRUE]
    BY <1>8
  <2> HIDE DEF save
  <2>2. QED BY <1>1, <1>2, <1>3, <2>1 DEF RunState
<1>9. QED
  <2> HIDE DEF save
  <2>1. CASE Kind[old.key] = "edit"
    BY <1>1, <1>2, <1>4, <1>5, <2>1 DEF After
  <2>2. CASE Kind[old.key] = "add"
    BY <1>1, <1>2, <1>4, <1>5, <1>6, <1>7, <2>2 DEF After, save
  <2>3. CASE Kind[old.key] = "create"
    BY <1>1, <1>2, <1>4, <1>7, <1>8, <2>3 DEF After, FromApi, save
  <2>4. QED BY <1>2, <2>1, <2>2, <2>3

LEMMA AfterInv ==
  ASSUME IInv, NEW p \in Runner, NEW stage \in Stage, NEW r \in After(p, stage),
         Driving(p), FromApi(p) => stage = "submitted",
         stage = "blocked" => At(p, "drive"),
         stage = "submitted" => run[p].at \in landed[run[p].key],
         stage = "failed" => run[p].at \notin landed[run[p].key],
         Become(p, r), UNCHANGED <<lease, ledger, onsinch, contested>>
  PROVE  IInv'
<1> DEFINE k == run[p].key  at == run[p].at
<1>1. run'[p] = r /\ run[p].pc \in {"drive", "answer"}
  BY DEF Become, Driving, IInv, TypeOK
<1>2. /\ r \in RunState /\ r.key = k /\ r.mine = run[p].mine
      /\ r.phase = "browser" /\ ~r.released
      /\ r.finishing => r.pc \in {"note", "write"} /\ Saves[k] = 1
      /\ ~r.half => ~run[p].half
      /\ \/ r.pc = "note" /\ r.at = at /\ stage = "submitted"
         \/ r.pc = "write" /\ r.out = stage /\ stage # "submitted" /\ at = 1
         \/ /\ r.pc = "drive" /\ r.at \in (at + 1)..Saves[k]
            /\ r.half \/ (stage = "submitted" /\ r.at = at + 1)
         \/ /\ r.pc = "readback"
            /\ r.half \/ (stage = "submitted" /\ at = Saves[k])
  BY AfterCases
<1>3. /\ RunInv(p) /\ k \in Key \ Legacy /\ at \in 1..Saves[k] /\ Saves[k] \in Nat
      /\ Saves[k] <= MaxSaves /\ MaxSaves \in Nat /\ ledger[k] # "none"
      /\ sent[k] \in [Save -> Nat] /\ landed[k] \subseteq Save
      /\ \A i \in landed[k] : sent[k][i] > 0
  BY <1>1, Values DEF IInv, TypeOK, Strengthening, RunInv, Shape, Untouched, Owner, Extent
<1>4. Active(p) /\ Active(p)' /\ Owner(p) /\ Owner(p)'
  BY <1>1, <1>2 DEF Active, Owner
<1>5. Shape(p)'
  BY <1>1, <1>2, <1>3 DEF Shape, Stage
<1>10. /\ \A i \in Save : i > at => sent[k][i] = 0
       /\ At(p, "drive") => \A i \in Save : i >= at => sent[k][i] = 0
  <2>1. ASSUME NEW i \in Save, i > at PROVE i \in ToSend(run[p])
    <3>1. i >= at
      BY <1>3, <2>1 DEF Save
    <3>2. QED BY <1>1, <2>1, <3>1 DEF ToSend
  <2>2. At(p, "drive") => \A i \in Save : i >= at => i \in ToSend(run[p])
    BY DEF ToSend, At
  <2>3. QED BY <2>1, <2>2, <1>3, <1>4 DEF RunInv, Untouched
<1>6. Untouched(p)'
  <2>1. \A i \in ToSend(r) : i \in Save /\ i > at
    BY <1>2, <1>3 DEF ToSend, Save
  <2>2. QED BY <1>1, <1>2, <1>3, <1>10, <2>1 DEF Untouched, ToSend, onsinch
<1>7. Undecided(p)' /\ Covered(p)'
  BY <1>1, <1>2, <1>3, <1>4 DEF RunInv, Undecided, Covered, Active, Shape
<1>8. Verdict(p)'
  <2>1. r.pc \in {"drive", "note", "readback"} /\ ~r.half => 1..at \subseteq landed[k]
    BY <1>1, <1>2, <1>3 DEF RunInv, Verdict
  <2>2. r.pc = "write" /\ stage = "blocked" => ~Sent(k)
    BY <1>2, <1>10 DEF Sent, Save
  <2>3. r.pc = "write" /\ stage = "failed" => landed[k] = {}
    <3> SUFFICES ASSUME r.pc = "write", stage = "failed", NEW i \in landed[k]
                 PROVE  FALSE
      OBVIOUS
    <3>1. i \in Save /\ i # at /\ at = 1
      BY <1>2, <1>3
    <3>2. i > at
      BY <3>1, <1>3 DEF Save
    <3>3. QED BY <1>3, <1>10, <3>1, <3>2
  <2>4. QED
    BY <1>1, <1>2, <1>3, <2>1, <2>2, <2>3 DEF Verdict, Stage, Sent, onsinch
<1>9. QED
  BY <1>2, <1>4, <1>5, <1>6, <1>7, <1>8, RunMoves DEF RunInv

LEMMA SavedInv ==
  ASSUME IInv, NEW p \in Runner,
         \/ Blocked(p)
         \/ \E stage \in {"submitted", "failed", "unknown"} : Answer(p, stage)
  PROVE  IInv'
<1>1. CASE Blocked(p)
  <2>1. PICK r \in After(p, "blocked") : Become(p, r)
    BY <1>1 DEF Blocked
  <2>2. "blocked" \in Stage /\ Driving(p) /\ ~FromApi(p) /\ At(p, "drive")
    BY <1>1 DEF Blocked, At, Driving, Stage
  <2>3. UNCHANGED <<lease, ledger, onsinch, contested>>
    BY <1>1 DEF Blocked
  <2>4. QED BY <2>1, <2>2, <2>3, AfterInv
<1>2. CASE \E stage \in {"submitted", "failed", "unknown"} : Answer(p, stage)
  <2>1. PICK stage \in {"submitted", "failed", "unknown"} : Answer(p, stage)
    BY <1>2
  <2>2. PICK r \in After(p, stage) : Become(p, r)
    BY <2>1 DEF Answer
  <2>3. stage \in Stage /\ Driving(p) /\ stage # "blocked"
    BY <2>1 DEF Answer, At, Driving, Stage
  <2>4. /\ FromApi(p) => stage = "submitted"
        /\ stage = "submitted" => run[p].at \in landed[run[p].key]
        /\ stage = "failed" => run[p].at \notin landed[run[p].key]
        /\ UNCHANGED <<lease, ledger, onsinch, contested>>
    BY <2>1 DEF Answer
  <2>5. QED BY <2>2, <2>3, <2>4, AfterInv
<1>3. QED BY <1>1, <1>2

LEMMA ReadBackInv ==
  ASSUME IInv, NEW p \in Runner, NEW matches \in BOOLEAN, ReadBack(p, matches)
  PROVE  IInv'
<1> DEFINE out == IF matches /\ ~run[p].half THEN "verified" ELSE "mismatch"
           r == [run[p] EXCEPT !.pc = "write", !.out = out]
           k == run[p].key
<1>1. /\ run[p] \in RunState /\ run[p].pc = "readback" /\ RunInv(p)
      /\ k \in Key \ Legacy /\ Become(p, r) /\ landed[k] \subseteq Save
      /\ UNCHANGED <<lease, ledger, onsinch, contested>>
  BY DEF ReadBack, At, IInv, TypeOK, Strengthening, RunInv, Shape
<1>2. /\ r \in RunState /\ r.pc = "write" /\ r.key = k /\ r.mine = run[p].mine
      /\ r.phase = run[p].phase /\ r.out = out
      /\ (r.finishing => run[p].finishing) /\ (r.released => run[p].released)
      /\ (run[p].released => r.released) /\ (run[p].finishing => r.finishing)
  BY <1>1, Values DEF RunState
<1>3. run'[p] = r
  BY <1>1 DEF Become, IInv, TypeOK
<1>4. Active(p) /\ Active(p)' /\ Owner(p) /\ Owner(p)'
  BY <1>1, <1>2, <1>3 DEF Active, Owner
<1>5. out = "verified" => landed[k] = 1..Saves[k]
  <2>1. ~run[p].half => 1..Saves[k] \subseteq landed[k]
    BY <1>1 DEF RunInv, Verdict
  <2>2. \A i \in landed[k] : i \in 1..Saves[k]
    BY <1>1, Values DEF IInv, Strengthening, Extent, Save
  <2>3. QED BY <2>1, <2>2
<1>6. Shape(p)' /\ Untouched(p)'
  <2> HIDE DEF r, out
  <2>1. QED BY <1>1, <1>2, <1>3, <1>4 DEF RunInv, Shape, Untouched, ToSend, onsinch, out
<1>7. Undecided(p)' /\ Covered(p)'
  <2> HIDE DEF r, out
  <2>1. QED BY <1>1, <1>2, <1>3, <1>4 DEF RunInv, Undecided, Covered, Active
<1>8. Verdict(p)'
  <2> HIDE DEF r
  <2>1. run[p].phase = "browser" BY <1>1 DEF RunInv, Shape
  <2>2. QED BY <1>1, <1>2, <1>3, <1>5, <2>1 DEF Verdict, onsinch
<1>9. QED
  BY <1>1, <1>2, <1>4, <1>6, <1>7, <1>8, RunMoves DEF RunInv

\* A run that throws, or comes to the end, without writing the ledger.
LEMMA LeavesInv ==
  ASSUME IInv, NEW p \in Runner, Active(p), NEW place \in {"catch", "end"}, Goto(p, place),
         place = "catch" => ~run[p].finishing /\ run[p].pc # "end" /\ run[p].pc # "catch",
         UNCHANGED <<lease, ledger, onsinch, contested>>
  PROVE  IInv'
<1> DEFINE r == [run[p] EXCEPT !.pc = place]
           k == run[p].key
<1>1. run[p] \in RunState /\ RunInv(p) /\ k \in Key \ Legacy /\ Become(p, r)
  BY DEF Goto, Active, IInv, TypeOK, Strengthening, RunInv, Shape
<1>2. /\ r \in RunState /\ r.pc = place /\ r.key = k /\ r.mine = run[p].mine
      /\ r.phase = run[p].phase
      /\ (r.finishing => run[p].finishing) /\ (r.released => run[p].released)
      /\ (run[p].released => r.released) /\ (run[p].finishing => r.finishing)
  BY <1>1, Values DEF RunState
<1>3. run'[p] = r
  BY <1>1 DEF Become, IInv, TypeOK
<1> HIDE DEF r
<1>4. Active(p)' /\ ~Owner(p)'
  BY <1>2, <1>3 DEF Active, Owner
<1>5. Shape(p)' /\ Untouched(p)' /\ Undecided(p)' /\ Covered(p)'
  BY <1>1, <1>2, <1>3, <1>4 DEF RunInv, Shape, Untouched, Undecided, Covered, Active
<1>6. Verdict(p)'
  <2>1. CASE place = "end"
    BY <1>2, <1>3, <2>1 DEF Verdict
  <2>2. CASE place = "catch" /\ run[p].phase = "pre" /\ k \notin contested
    <3>1. run[p].pc \in {"intent", "check", "write"}
      BY <1>1, <2>2 DEF Active, RunInv, Shape, RunState, Place
    <3>2. CASE run[p].pc = "intent"
      <4>1. ledger[k] = "none"
        BY <1>1, <2>2, <3>2 DEF RunInv, Undecided
      <4>2. ~Sent(k)
        BY <1>1, <4>1 DEF IInv, Strengthening, SentIsRecorded, Sent
      <4>3. QED BY <1>2, <1>3, <2>2, <4>2 DEF Verdict, Sent, onsinch
    <3>3. CASE run[p].pc = "check"
      <4>1. \A i \in Save : i \in ToSend(run[p])
        BY <3>3 DEF ToSend
      <4>2. ~Sent(k)
        BY <1>1, <3>3, <4>1 DEF RunInv, Untouched, Owner, Sent
      <4>3. QED BY <1>2, <1>3, <2>2, <4>2 DEF Verdict, Sent, onsinch
    <3>4. CASE run[p].pc = "write"
      <4>1. ~Sent(k)
        BY <1>1, <2>2, <3>4 DEF RunInv, Verdict
      <4>2. QED BY <1>2, <1>3, <2>2, <4>1 DEF Verdict, Sent, onsinch
    <3>5. QED BY <3>1, <3>2, <3>3, <3>4
  <2>3. CASE place = "catch" /\ (run[p].phase = "browser" \/ k \in contested)
    BY <1>2, <1>3, <2>3 DEF Verdict, onsinch
  <2>4. QED BY <1>1, <2>1, <2>2, <2>3 DEF RunState
<1>7. QED
  BY <1>1, <1>2, <1>4, <1>5, <1>6, RunMoves DEF RunInv

-----------------------------------------------------------------------------
(* The steps that write the ledger.                                         *)

\* An active run moves and writes its row: the invariant holds if the run's own
\* part does, and what the row now says of an uncontested key is true.
LEMMA RowMoves ==
  ASSUME IInv, NEW p \in Runner, NEW r \in RunState, NEW s \in Status,
         Active(p), Become(p, r), r.key = run[p].key,
         ledger' = [ledger EXCEPT ![r.key] = s], UNCHANGED <<lease, onsinch, contested>>,
         Owner(p)' => Owner(p) \/ ledger[r.key] = "none",
         RunInv(p)',
         r.key \notin contested =>
           /\ s = "blocked" => ~Sent(r.key)
           /\ s = "failed" => landed[r.key] = {}
           /\ s = "verified" => ~Sent(r.key) \/ landed[r.key] = 1..Saves[r.key]
  PROVE  IInv'
<1> DEFINE k == r.key
<1>1. run' = [run EXCEPT ![p] = r] /\ run'[p] = r /\ k \in Key
  BY DEF Become, Active, IInv, TypeOK, Strengthening, RunInv, Shape
<1>2. \A q \in Runner \ {p} : run'[q] = run[q]
  BY <1>1
<1>3. ledger'[k] = s /\ (\A j \in Key \ {k} : ledger'[j] = ledger[j]) /\ s # "none"
  BY <1>1 DEF IInv, TypeOK, Status, Stage
<1>4. TypeOK'
  BY <1>1 DEF IInv, TypeOK, onsinch
<1>5. ASSUME NEW q \in Runner, q # p PROVE RunInv(q)'
  <2>1. run'[q] = run[q] /\ RunInv(q)
    BY <1>2, <1>5 DEF IInv, Strengthening
  <2>2. Active(q) /\ run[q].key = k => k \in contested
    BY <1>5 DEF IInv, Strengthening, Apart
  <2>3. Active(q)' = Active(q) /\ Owner(q)' = Owner(q) /\ (Owner(q) => Active(q))
    BY <2>1 DEF Active, Owner
  <2>4. run[q].pc # "idle" => run[q].key \in Key
    BY <2>1 DEF RunInv, Shape
  <2>5. Shape(q)' /\ Verdict(q)' /\ Covered(q)'
    BY <2>1, <2>3 DEF RunInv, Shape, Verdict, Covered, Sent, onsinch
  <2>6. Untouched(q)'
    BY <1>3, <2>1, <2>3, <2>4 DEF RunInv, Untouched, Owner, ToSend, onsinch
  <2>7. Undecided(q)'
    BY <1>3, <2>1, <2>2, <2>3, <2>4 DEF RunInv, Undecided, Active
  <2>8. QED BY <2>5, <2>6, <2>7 DEF RunInv
<1>6. Apart'
  <2>1. ASSUME NEW q \in Runner, q # p, run[q].key = k
        PROVE  ~(Owner(p)' /\ Owner(q)) /\ (Active(q) => k \in contested)
    <3>1. Owner(q) => ledger[k] # "none"
      BY <2>1 DEF IInv, Strengthening, RunInv, Untouched
    <3>2. ~(Owner(p) /\ Owner(q)) /\ (Active(q) => k \in contested)
      BY <2>1 DEF IInv, Strengthening, Apart
    <3>3. QED BY <3>1, <3>2
  <2>2. \A q \in Runner \ {p} : Owner(q)' = Owner(q) /\ Active(q)' = Active(q)
    BY <1>2 DEF Owner, Active
  <2>3. Apart
    BY DEF IInv, Strengthening
  <2>4. ASSUME NEW a \in Runner, NEW b \in Runner, a # b, run'[a].key = run'[b].key
        PROVE  ~(Owner(a)' /\ Owner(b)') /\ (Active(a)' /\ Active(b)' => run'[a].key \in contested)
    BY <1>1, <1>2, <2>1, <2>2, <2>3, <2>4 DEF Apart
  <2>5. QED BY <2>4 DEF Apart
<1>7. Extent' /\ SentOnce' /\ SentIsRecorded'
  BY <1>3 DEF IInv, Strengthening, Extent, SentOnce, SentIsRecorded, onsinch
<1>8. LedgerTrue'
  BY <1>3 DEF IInv, Strengthening, LedgerTrue, Sent, onsinch
<1>9. QED
  BY <1>4, <1>5, <1>6, <1>7, <1>8 DEF IInv, Strengthening

LEMMA IntentInv ==
  ASSUME IInv, NEW p \in Runner, WriteIntent(p)
  PROVE  IInv'
<1> DEFINE k == run[p].key
           r == [run[p] EXCEPT !.pc = "check"]
<1>1. run[p] \in RunState /\ run[p].pc = "intent" /\ RunInv(p) /\ k \in Key \ Legacy /\ Active(p)
  BY DEF WriteIntent, At, Active, IInv, TypeOK, Strengthening, RunInv, Shape
<1>2. CASE ledger[k] # "none"
  <2>1. Goto(p, "end") /\ UNCHANGED <<lease, ledger, onsinch, contested>>
    BY <1>2 DEF WriteIntent
  <2>2. QED BY <1>1, <2>1, LeavesInv
<1>3. CASE ledger[k] = "none"
  <2>1. /\ Become(p, r) /\ ledger' = [ledger EXCEPT ![k] = "intent"]
        /\ UNCHANGED <<lease, onsinch, contested>>
    BY <1>3 DEF WriteIntent, Goto
  <2>2. /\ r \in RunState /\ r.pc = "check" /\ r.key = k /\ r.mine = run[p].mine
        /\ (r.finishing => run[p].finishing) /\ (r.released => run[p].released)
        /\ (run[p].released => r.released)
    BY <1>1, Values DEF RunState
  <2>3. run'[p] = r /\ ledger'[k] = "intent"
    BY <1>1, <2>1 DEF Become, IInv, TypeOK
  <2> HIDE DEF r
  <2>4. \A i \in Save : sent[k][i] = 0
    BY <1>1, <1>3 DEF IInv, Strengthening, SentIsRecorded
  <2>5. RunInv(p)'
    <3>1. Shape(p)' /\ Undecided(p)' /\ Verdict(p)' /\ Covered(p)'
      BY <1>1, <2>1, <2>2, <2>3 DEF RunInv, Shape, Undecided, Verdict, Covered, Active, Final,
         onsinch
    <3>2. Untouched(p)'
      BY <2>1, <2>2, <2>3, <2>4 DEF Untouched, ToSend, onsinch
    <3>3. QED BY <3>1, <3>2 DEF RunInv
  <2>6. "intent" \in Status
    BY Values
  <2>7. QED BY <1>1, <1>3, <2>1, <2>2, <2>5, <2>6, RowMoves
<1>4. QED BY <1>2, <1>3

LEMMA NoteInv ==
  ASSUME IInv, NEW p \in Runner, NoteSubmitted(p)
  PROVE  IInv'
<1> DEFINE k == run[p].key
           at == run[p].at
           more == [run[p] EXCEPT !.pc = "drive", !.at = @ + 1]
           done == [run[p] EXCEPT !.pc = "readback"]
<1>1. /\ run[p] \in RunState /\ run[p].pc = "note" /\ RunInv(p) /\ k \in Key \ Legacy
      /\ Active(p) /\ Owner(p) /\ at \in 1..Saves[k] /\ run[p].phase = "browser"
      /\ Saves[k] \in Nat /\ Saves[k] <= MaxSaves /\ MaxSaves \in Nat
      /\ (at < Saves[k] => ~run[p].finishing /\ ~run[p].released)
  <2>1. run[p] \in RunState /\ run[p].pc = "note" /\ RunInv(p) /\ k \in Key \ Legacy
    BY DEF NoteSubmitted, At, IInv, TypeOK, Strengthening, RunInv, Shape
  <2>2. QED BY <2>1, Values DEF Active, Owner, RunInv, Shape
<1>2. PICK r \in RunState :
        /\ Become(p, r) /\ r.key = k /\ r.mine = run[p].mine /\ r.phase = "browser"
        /\ (r.finishing => run[p].finishing) /\ (r.released => run[p].released)
        /\ (run[p].released => r.released) /\ (run[p].finishing => r.finishing)
        /\ (~r.half => ~run[p].half)
        /\ \/ r.pc = "drive" /\ r.at = at + 1 /\ at < Saves[k]
           \/ r.pc = "readback" /\ at = Saves[k]
  <2>1. CASE at < Saves[k]
    <3>1. more \in RunState
      <4>1. at + 1 \in 0..(MaxSaves + 1)
        BY <1>1, <2>1
      <4>2. "drive" \in Place
        BY Values
      <4>3. QED BY <1>1, <4>1, <4>2 DEF RunState
    <3>2. /\ more.key = k /\ more.mine = run[p].mine /\ more.phase = "browser"
          /\ (more.finishing => run[p].finishing) /\ (more.released => run[p].released)
          /\ (run[p].released => more.released) /\ (run[p].finishing => more.finishing)
        /\ (~more.half => ~run[p].half)
          /\ more.pc = "drive" /\ more.at = at + 1
      BY <1>1 DEF RunState
    <3>3. Become(p, more)
      BY <2>1 DEF NoteSubmitted
    <3> HIDE DEF more
    <3>4. QED BY <2>1, <3>1, <3>2, <3>3
  <2>2. CASE ~(at < Saves[k])
    <3>1. done \in RunState
      BY <1>1, <2>2, Values DEF RunState
    <3>2. /\ done.key = k /\ done.mine = run[p].mine /\ done.phase = "browser"
          /\ (done.finishing => run[p].finishing) /\ (done.released => run[p].released)
          /\ (run[p].released => done.released) /\ (run[p].finishing => done.finishing)
        /\ (~done.half => ~run[p].half)
          /\ done.pc = "readback"
      BY <1>1 DEF RunState
    <3>3. Become(p, done) /\ at = Saves[k]
      BY <1>1, <2>2 DEF NoteSubmitted, Goto
    <3> HIDE DEF done
    <3>4. QED BY <2>2, <3>1, <3>2, <3>3
  <2>3. QED BY <2>1, <2>2
<1>3. ledger' = [ledger EXCEPT ![k] = "submitted"] /\ UNCHANGED <<lease, onsinch, contested>>
  BY DEF NoteSubmitted
<1>4. run'[p] = r /\ ledger'[k] = "submitted"
  BY <1>1, <1>2, <1>3 DEF Become, IInv, TypeOK
<1>5. Active(p)' /\ Owner(p)'
  BY <1>2, <1>4 DEF Active, Owner
<1>6. Shape(p)' /\ Undecided(p)' /\ Covered(p)'
  <2>1. Shape(p)'
    BY <1>1, <1>2, <1>4 DEF RunInv, Shape
  <2>2. Undecided(p)'
    BY <1>1, <1>2, <1>3, <1>4 DEF Undecided, Final
  <2>3. Covered(p)'
    BY <1>1, <1>2, <1>3, <1>4 DEF RunInv, Covered, Active
  <2>4. QED BY <2>1, <2>2, <2>3
<1>7. Untouched(p)'
  <2>1. \A i \in ToSend(r) : i \in ToSend(run[p])
    <3> SUFFICES ASSUME NEW i \in ToSend(r) PROVE i \in ToSend(run[p])
      OBVIOUS
    <3>1. i \in Save /\ i > at
      BY <1>1, <1>2 DEF ToSend, Save
    <3>2. QED BY <1>1, <3>1 DEF ToSend
  <2>2. QED BY <1>1, <1>2, <1>3, <1>4, <2>1 DEF RunInv, Untouched, onsinch
<1>8. Verdict(p)'
  <2>1. ~r.half => 1..at \subseteq landed[k]
    BY <1>1, <1>2 DEF RunInv, Verdict
  <2>2. QED BY <1>1, <1>2, <1>3, <1>4, <2>1 DEF Verdict, onsinch
<1>9. QED
  BY <1>1, <1>2, <1>3, <1>6, <1>7, <1>8, Values, RowMoves DEF RunInv

LEMMA OutcomeInv ==
  ASSUME IInv, NEW p \in Runner, WriteOutcome(p)
  PROVE  IInv'
<1> DEFINE k == run[p].key
           r == [run[p] EXCEPT !.pc = "end"]
<1>1. /\ run[p] \in RunState /\ run[p].pc = "write" /\ RunInv(p) /\ k \in Key \ Legacy
      /\ Active(p) /\ Become(p, r) /\ ledger' = [ledger EXCEPT ![k] = run[p].out]
      /\ UNCHANGED <<lease, onsinch, contested>>
  BY DEF WriteOutcome, Goto, At, Active, IInv, TypeOK, Strengthening, RunInv, Shape
<1>2. /\ r \in RunState /\ r.pc = "end" /\ r.key = k /\ r.mine = run[p].mine
      /\ (r.finishing => run[p].finishing) /\ (r.released => run[p].released)
      /\ (run[p].released => r.released) /\ (run[p].finishing => r.finishing)
  BY <1>1, Values DEF RunState
<1>3. run'[p] = r
  BY <1>1 DEF Become, IInv, TypeOK
<1> HIDE DEF r
<1>4. ~Owner(p)'
  BY <1>2, <1>3 DEF Owner
<1>5. RunInv(p)'
  BY <1>1, <1>2, <1>3, <1>4 DEF RunInv, Shape, Untouched, Undecided, Verdict, Covered, Active
<1>6. run[p].out \in Status
  BY <1>1 DEF RunInv, Shape, RunState
<1>7. /\ run[p].out = "blocked" => ~Sent(k)
      /\ run[p].out = "failed" => landed[k] = {}
      /\ run[p].out = "verified" => ~Sent(k) \/ landed[k] = 1..Saves[k]
  BY <1>1 DEF RunInv, Verdict
<1>8. QED
  BY <1>1, <1>2, <1>4, <1>5, <1>6, <1>7, RowMoves

LEMMA CatchInv ==
  ASSUME IInv, NEW p \in Runner, Catch(p)
  PROVE  IInv'
<1> DEFINE k == run[p].key
           r == [run[p] EXCEPT !.pc = "end"]
           s == throwStatus(run[p].phase)
<1>1. /\ run[p] \in RunState /\ run[p].pc = "catch" /\ RunInv(p) /\ k \in Key \ Legacy
      /\ Active(p) /\ Goto(p, "end") /\ UNCHANGED <<lease, onsinch, contested>>
  BY DEF Catch, At, Active, IInv, TypeOK, Strengthening, RunInv, Shape
<1>2. CASE ledger' = ledger
  BY <1>1, <1>2, LeavesInv
<1>3. CASE ledger' = [ledger EXCEPT ![k] = s]
  <2>1. /\ r \in RunState /\ r.pc = "end" /\ r.key = k /\ r.mine = run[p].mine
        /\ (r.finishing => run[p].finishing) /\ (r.released => run[p].released)
        /\ (run[p].released => r.released) /\ (run[p].finishing => r.finishing)
    BY <1>1, Values DEF RunState
  <2>2. run'[p] = r /\ Become(p, r)
    BY <1>1 DEF Goto, Become, IInv, TypeOK
  <2> HIDE DEF r
  <2>3. ~Owner(p)'
    BY <2>1, <2>2 DEF Owner
  <2>4. RunInv(p)'
    BY <1>1, <2>1, <2>2, <2>3 DEF RunInv, Shape, Untouched, Undecided, Verdict, Covered, Active
  <2>5. s \in Status /\ s # "failed" /\ s # "verified" /\ (s = "blocked" => run[p].phase = "pre")
    BY Values DEF throwStatus
  <2>6. k \notin contested /\ s = "blocked" => ~Sent(k)
    BY <1>1, <2>5 DEF RunInv, Verdict
  <2> HIDE DEF s
  <2>7. QED BY <1>1, <1>3, <2>1, <2>2, <2>3, <2>4, <2>5, <2>6, RowMoves
<1>4. QED BY <1>2, <1>3 DEF Catch

LEMMA ThrowInv ==
  ASSUME IInv, NEW p \in Runner, Throw(p)
  PROVE  IInv'
<1> DEFINE k == run[p].key
<1>1. PICK place \in {"catch", "end"} :
        Goto(p, place) /\ (place = "catch" => ~run[p].finishing) /\ (place = "end" => run[p].finishing)
  BY DEF Throw
<1> DEFINE r == [run[p] EXCEPT !.pc = place]
<1>2. /\ run[p] \in RunState /\ RunInv(p) /\ k \in Key \ Legacy /\ Active(p)
      /\ run[p].pc \in {"intent", "check", "drive", "answer", "note", "readback", "write"}
      /\ UNCHANGED <<lease, onsinch, contested>>
  BY DEF Throw, Active, IInv, TypeOK, Strengthening, RunInv, Shape
<1>3. CASE ledger' = ledger
  BY <1>1, <1>2, <1>3, LeavesInv
<1>4. CASE ledger' # ledger
  <2>1. PICK s \in Status :
          /\ ledger' = [ledger EXCEPT ![k] = s]
          /\ \/ run[p].pc = "intent" /\ s = "intent" /\ ledger[k] = "none"
             \/ run[p].pc = "note" /\ s = "submitted"
             \/ run[p].pc = "write" /\ s = run[p].out
    <3>1. ledger' = Applied(p)
      BY <1>4 DEF Throw
    <3>2. "intent" \in Status /\ "submitted" \in Status
      BY Values
    <3>3. run[p].pc = "write" => run[p].out \in Status
      BY <1>2 DEF RunInv, Shape, RunState
    <3>4. QED BY <1>4, <3>1, <3>2, <3>3 DEF Applied, At
  <2>2. /\ r \in RunState /\ r.pc = place /\ r.key = k /\ r.mine = run[p].mine
        /\ r.phase = run[p].phase
        /\ (r.finishing => run[p].finishing) /\ (r.released => run[p].released)
        /\ (run[p].released => r.released) /\ (run[p].finishing => r.finishing)
    BY <1>2, Values DEF RunState
  <2>3. run'[p] = r /\ Become(p, r)
    BY <1>1, <1>2 DEF Goto, Become, IInv, TypeOK
  <2> HIDE DEF r
  <2>4. ~Owner(p)'
    BY <2>2, <2>3 DEF Owner
  <2>5. Shape(p)' /\ Untouched(p)' /\ Undecided(p)' /\ Covered(p)'
    BY <1>1, <1>2, <2>2, <2>3, <2>4 DEF RunInv, Shape, Untouched, Undecided, Covered, Active
  <2>6. run[p].phase = "pre" => ~Sent(k)
    <3>1. CASE run[p].pc = "intent"
      BY <1>2, <2>1, <3>1 DEF IInv, Strengthening, SentIsRecorded, Sent
    <3>2. CASE run[p].pc = "note"
      BY <1>2, <3>2 DEF RunInv, Shape
    <3>3. CASE run[p].pc = "write"
      BY <1>2, <3>3 DEF RunInv, Verdict
    <3>4. QED BY <2>1, <3>1, <3>2, <3>3
  <2>7. Verdict(p)'
    BY <1>2, <2>2, <2>3, <2>6 DEF Verdict, Sent, onsinch
  <2>8. /\ s = "blocked" => ~Sent(k)
        /\ s = "failed" => landed[k] = {}
        /\ s = "verified" => ~Sent(k) \/ landed[k] = 1..Saves[k]
    BY <1>2, <2>1 DEF RunInv, Verdict
  <2>9. QED
    BY <1>2, <2>1, <2>2, <2>3, <2>4, <2>5, <2>7, <2>8, RowMoves DEF RunInv
<1>5. QED BY <1>3, <1>4

-----------------------------------------------------------------------------
(* The steps that move the lease, the save, and time.                       *)

LEMMA AcquireInv ==
  ASSUME IInv, NEW p \in Runner, AcquireLease(p)
  PROVE  IInv'
<1> DEFINE k == run[p].key
           r == [run[p] EXCEPT !.pc = "intent", !.mine = LeaseTicks]
<1>1. /\ run[p] \in RunState /\ run[p].pc = "lease" /\ RunInv(p) /\ k \in Key \ Legacy
      /\ Become(p, r) /\ lease' = [holder |-> k, left |-> LeaseTicks]
      /\ UNCHANGED <<ledger, onsinch>> /\ Free(k)
  BY DEF AcquireLease, At, IInv, TypeOK, Strengthening, RunInv, Shape
<1>2. /\ r \in RunState /\ r.pc = "intent" /\ r.key = k /\ r.mine = LeaseTicks
      /\ ~r.finishing /\ ~r.released
  BY <1>1, Values DEF RunState, RunInv, Shape
<1>3. run' = [run EXCEPT ![p] = r] /\ run'[p] = r
  BY <1>1 DEF Become, IInv, TypeOK
<1> HIDE DEF r
<1>4. \A q \in Runner \ {p} : run'[q] = run[q]
  BY <1>3
<1>5. /\ contested \subseteq contested' /\ contested' \subseteq Key
      /\ ledger[k] # "none" => k \in contested'
      /\ \A q \in Runner \ {p} : Active(q) /\ run[q].key = k => k \in contested'
  BY <1>1 DEF AcquireLease, IInv, TypeOK
<1>6. TypeOK'
  BY <1>1, <1>2, <1>3, <1>5, Values DEF IInv, TypeOK, onsinch
<1>7. RunInv(p)'
  <2>1. ~Owner(p)'
    BY <1>2, <1>3 DEF Owner
  <2>2. Shape(p)' /\ Untouched(p)' /\ Verdict(p)'
    BY <1>1, <1>2, <1>3, <2>1 DEF Shape, Untouched, Verdict
  <2>3. Undecided(p)'
    <3>1. k \notin contested' => ledger'[k] = "none"
      BY <1>1, <1>5
    <3>2. "none" \notin Final
      BY DEF Final, Status, Stage
    <3>3. QED BY <1>2, <1>3, <3>1, <3>2 DEF Undecided
  <2>4. Covered(p)'
    <3>1. lease'.holder = k /\ lease'.left = LeaseTicks /\ LeaseTicks >= LeaseTicks
      BY <1>1, RunAssumption
    <3>2. QED BY <1>2, <1>3, <3>1 DEF Covered
  <2>5. QED BY <2>2, <2>3, <2>4 DEF RunInv
<1>8. ASSUME NEW q \in Runner, q # p PROVE RunInv(q)'
  <2>1. run'[q] = run[q] /\ RunInv(q)
    BY <1>4, <1>8 DEF IInv, Strengthening
  <2>2. Active(q)' = Active(q) /\ Owner(q)' = Owner(q)
    BY <2>1 DEF Active, Owner
  <2>3. Shape(q)' /\ Untouched(q)' /\ Undecided(q)' /\ Verdict(q)'
    BY <1>1, <1>5, <2>1, <2>2 DEF RunInv, Shape, Untouched, Undecided, Verdict, Sent, onsinch
  <2>4. Covered(q)'
    <3> SUFFICES ASSUME Active(q), run[q].mine > 0, ~run[q].released, run[q].key \notin contested'
                 PROVE  FALSE
      BY <2>1, <2>2 DEF Covered
    <3>1. lease.holder = run[q].key /\ lease.left >= run[q].mine
      BY <1>5, <2>1 DEF RunInv, Covered
    <3>2. run[q].key # k
      BY <1>5, <1>8
    <3>3. run[q].mine \in Nat /\ lease.left \in Nat
      BY RunAssumption DEF IInv, TypeOK, RunState
    <3>4. QED BY <1>1, <3>1, <3>2, <3>3 DEF Free
  <2>5. QED BY <2>3, <2>4 DEF RunInv
<1>9. Apart'
  <2>1. ~Owner(p)'
    BY <1>2, <1>3 DEF Owner
  <2>2. \A q \in Runner \ {p} : Active(q)' = Active(q) /\ Owner(q)' = Owner(q)
    BY <1>4 DEF Active, Owner
  <2>3. Apart
    BY DEF IInv, Strengthening
  <2>4. ASSUME NEW a \in Runner, NEW b \in Runner, a # b, run'[a].key = run'[b].key
        PROVE  ~(Owner(a)' /\ Owner(b)') /\ (Active(a)' /\ Active(b)' => run'[a].key \in contested')
    BY <1>2, <1>3, <1>4, <1>5, <2>1, <2>2, <2>3, <2>4 DEF Apart
  <2>5. QED BY <2>4 DEF Apart
<1>10. Extent' /\ SentOnce' /\ SentIsRecorded' /\ LedgerTrue'
  BY <1>1, <1>5 DEF IInv, Strengthening, Extent, SentOnce, SentIsRecorded, LedgerTrue, Sent, onsinch
<1>11. QED
  BY <1>6, <1>7, <1>8, <1>9, <1>10 DEF IInv, Strengthening

LEMMA ReleaseInv ==
  ASSUME IInv, NEW p \in Runner, ReleaseLease(p)
  PROVE  IInv'
<1> DEFINE k == run[p].key
           freed == [run[p] EXCEPT !.released = TRUE]
<1>1. /\ run[p] \in RunState /\ RunInv(p) /\ k \in Key \ Legacy /\ Active(p)
      /\ UNCHANGED <<ledger, onsinch, contested>>
      /\ At(p, "end") \/ run[p].finishing
  BY DEF ReleaseLease, At, Active, IInv, TypeOK, Strengthening, RunInv, Shape
<1>2. PICK r \in RunState :
        /\ run' = [run EXCEPT ![p] = r]
        /\ r = Idle \/ (r = freed /\ ~At(p, "end"))
  <2>1. Idle \in RunState
    BY Values, RunAssumption DEF Idle, RunState
  <2>2. freed \in RunState
    BY <1>1 DEF RunState
  <2>3. QED BY <2>1, <2>2 DEF ReleaseLease, Become
<1>3. run'[p] = r /\ \A q \in Runner \ {p} : run'[q] = run[q]
  BY <1>2 DEF IInv, TypeOK
<1>4. lease' = lease \/ (lease.holder = k /\ lease' = [lease EXCEPT !.left = 0])
  BY DEF ReleaseLease
<1>5. TypeOK'
  <2>1. lease' \in [holder : Key \cup {NoKey}, left : 0..LeaseTicks]
    BY <1>4, Values DEF IInv, TypeOK
  <2>2. QED BY <1>1, <1>2, <2>1 DEF IInv, TypeOK, onsinch
<1>6. (Owner(p)' => Owner(p)) /\ (Active(p)' => r.key = k) /\ RunInv(p)'
  <2>1. CASE r = Idle
    BY <1>3, <2>1 DEF Idle, RunInv, Shape, Untouched, Undecided, Verdict, Covered, Owner, Active
  <2>2. CASE r = freed /\ ~At(p, "end")
    <3>1. /\ r.pc = run[p].pc /\ r.key = k /\ r.at = run[p].at /\ r.phase = run[p].phase
          /\ r.out = run[p].out /\ (~r.half => ~run[p].half) /\ r.released
          /\ (r.finishing => run[p].finishing) /\ (run[p].finishing => r.finishing)
      BY <1>1, <2>2 DEF RunState
    <3>2. Owner(p)' = Owner(p) /\ Active(p)' = Active(p)
      BY <1>3, <3>1 DEF Owner, Active
    <3>3. Shape(p)' /\ Undecided(p)' /\ Verdict(p)' /\ Covered(p)'
      BY <1>1, <1>3, <2>2, <3>1, <3>2 DEF RunInv, Shape, Undecided, Verdict, Covered, Sent,
         At, onsinch
    <3>4. ToSend(r) = ToSend(run[p])
      BY <3>1 DEF ToSend
    <3>5. Untouched(p)'
      BY <1>1, <1>3, <3>1, <3>2, <3>4 DEF RunInv, Untouched, onsinch
    <3>6. QED BY <3>1, <3>2, <3>3, <3>5 DEF RunInv
  <2>3. QED BY <1>2, <2>1, <2>2
<1>7. ASSUME NEW q \in Runner, q # p PROVE RunInv(q)'
  <2>1. run'[q] = run[q] /\ RunInv(q)
    BY <1>3, <1>7 DEF IInv, Strengthening
  <2>2. Active(q)' = Active(q) /\ Owner(q)' = Owner(q)
    BY <2>1 DEF Active, Owner
  <2>3. Shape(q)' /\ Untouched(q)' /\ Undecided(q)' /\ Verdict(q)'
    BY <1>1, <2>1, <2>2 DEF RunInv, Shape, Untouched, Undecided, Verdict, Sent, onsinch
  <2>4. Covered(q)'
    <3>1. Active(q) /\ run[q].key = k => k \in contested
      BY <1>1, <1>7 DEF IInv, Strengthening, Apart
    <3>2. QED BY <1>1, <1>4, <2>1, <2>2, <3>1 DEF RunInv, Covered
  <2>5. QED BY <2>3, <2>4 DEF RunInv
<1>8. Apart'
  BY <1>1, <1>3, <1>6 DEF IInv, Strengthening, Apart, Owner, Active
<1>9. Extent' /\ SentOnce' /\ SentIsRecorded' /\ LedgerTrue'
  BY <1>1 DEF IInv, Strengthening, Extent, SentOnce, SentIsRecorded, LedgerTrue, Sent, onsinch
<1>10. QED
  BY <1>5, <1>6, <1>7, <1>8, <1>9 DEF IInv, Strengthening

LEMMA TickInv ==
  ASSUME IInv, Tick
  PROVE  IInv'
<1>1. \A n \in Nat : Dec(n) \in Nat /\ Dec(n) <= n /\ (Dec(n) > 0 => Dec(n) = n - 1)
  BY DEF Dec
<1>2. \A n, m \in Nat : n <= m => Dec(n) <= Dec(m)
  BY DEF Dec
<1>3. ASSUME NEW p \in Runner
      PROVE  LET old == run[p]  new == run'[p] IN
             /\ new \in RunState /\ new.pc = old.pc /\ new.key = old.key /\ new.at = old.at
             /\ new.out = old.out /\ new.phase = old.phase /\ new.mine = Dec(old.mine)
             /\ (new.half => old.half) /\ (old.half => new.half)
             /\ (new.finishing => old.finishing) /\ (old.finishing => new.finishing)
             /\ (new.released => old.released) /\ (old.released => new.released)
  <2> DEFINE old == run[p]
             new == [old EXCEPT !.life = Dec(@), !.mine = Dec(@)]
  <2>1. old \in RunState /\ run'[p] = new
    BY DEF IInv, TypeOK, Tick
  <2>2. Dec(old.life) \in 0..FunctionTicks /\ Dec(old.mine) \in 0..LeaseTicks
    BY <1>1, <2>1, RunAssumption DEF RunState
  <2>3. QED BY <2>1, <2>2 DEF RunState
<1>4. \A p \in Runner : Active(p)' = Active(p) /\ Owner(p)' = Owner(p)
  BY <1>3 DEF Active, Owner
<1>5. lease.left \in Nat /\ lease'.holder = lease.holder /\ lease'.left = Dec(lease.left)
      /\ UNCHANGED <<ledger, onsinch, contested>>
  <2>1. lease \in [holder : Key \cup {NoKey}, left : 0..LeaseTicks] /\ LeaseTicks \in Nat
    BY RunAssumption DEF IInv, TypeOK
  <2>2. lease' = [lease EXCEPT !.left = Dec(@)] /\ UNCHANGED <<ledger, onsinch, contested>>
    BY DEF Tick
  <2>3. QED BY <2>1, <2>2
<1>6. TypeOK'
  <2>1. run' \in [Runner -> RunState]
    BY <1>3 DEF Tick
  <2>2. lease' \in [holder : Key \cup {NoKey}, left : 0..LeaseTicks]
    <3>1. Dec(lease.left) \in 0..LeaseTicks
      BY <1>1, RunAssumption DEF IInv, TypeOK
    <3>2. QED BY <3>1 DEF IInv, TypeOK, Tick
  <2>3. QED BY <1>5, <2>1, <2>2 DEF IInv, TypeOK, onsinch
<1>7. ASSUME NEW p \in Runner PROVE RunInv(p)'
  <2>1. RunInv(p)
    BY DEF IInv, Strengthening
  <2>2. Shape(p)' /\ Undecided(p)' /\ Verdict(p)'
    BY <1>3, <1>4, <1>5, <2>1 DEF RunInv, Shape, Undecided, Verdict, Sent, onsinch
  <2>3. Untouched(p)'
    <3>1. ToSend(run'[p]) = ToSend(run[p])
      BY <1>3 DEF ToSend
    <3>2. QED BY <1>3, <1>4, <1>5, <2>1, <3>1 DEF RunInv, Untouched, onsinch
  <2>4. Covered(p)'
    <3>1. run[p].mine \in Nat
      BY RunAssumption DEF IInv, TypeOK, RunState
    <3>2. Dec(run[p].mine) > 0 => run[p].mine > 0
      BY <1>1, <3>1
    <3>3. lease.left >= run[p].mine => Dec(lease.left) >= Dec(run[p].mine)
      BY <1>1, <1>2, <1>5, <3>1
    <3>4. QED BY <1>3, <1>4, <1>5, <2>1, <3>2, <3>3 DEF RunInv, Covered
  <2>5. QED BY <2>2, <2>3, <2>4 DEF RunInv
<1>8. Apart' /\ Extent' /\ SentOnce' /\ SentIsRecorded' /\ LedgerTrue'
  <2>1. Apart'
    BY <1>3, <1>4, <1>5 DEF IInv, Strengthening, Apart
  <2>2. QED
    BY <1>5, <2>1 DEF IInv, Strengthening, Extent, SentOnce, SentIsRecorded, LedgerTrue, Sent, onsinch
<1>9. QED
  BY <1>6, <1>7, <1>8 DEF IInv, Strengthening

\* A save leaves: it had not left before, and it leaves under a row that says
\* nothing final of an uncontested key.
LEMMA ClickInv ==
  ASSUME IInv, NEW p \in Runner, Click(p)
  PROVE  IInv' /\ sent[run[p].key][run[p].at] = 0 /\ run[p].at \in Save
<1> DEFINE k == run[p].key
           i == run[p].at
           r == [run[p] EXCEPT !.pc = "answer"]
<1>1. /\ run[p] \in RunState /\ run[p].pc = "drive" /\ RunInv(p) /\ k \in Key \ Legacy
      /\ Active(p) /\ Owner(p) /\ i \in 1..Saves[k] /\ i \in Save /\ run[p].phase = "browser"
      /\ i <= Saves[k]
  <2>1. /\ run[p] \in RunState /\ run[p].pc = "drive" /\ RunInv(p)
        /\ Active(p) /\ Owner(p)
    BY DEF Click, At, Active, Owner, IInv, TypeOK, Strengthening
  <2>2. k \in Key \ Legacy /\ i \in 1..Saves[k] /\ run[p].phase = "browser"
    BY <2>1 DEF RunInv, Shape
  <2>3. i \in Save /\ i <= Saves[k]
    BY <2>2, Values DEF Save
  <2>4. QED BY <2>1, <2>2, <2>3
<1>2. /\ run' = [run EXCEPT ![p] = r] /\ sent' = [sent EXCEPT ![k][i] = @ + 1]
      /\ landed' \in {landed, [landed EXCEPT ![k] = @ \cup {i}]}
      /\ UNCHANGED <<lease, ledger, contested>>
  BY DEF Click, Goto, Become
<1>3. /\ r \in RunState /\ r.pc = "answer" /\ r.key = k /\ r.at = i /\ r.mine = run[p].mine
      /\ r.phase = "browser" /\ (~r.half => ~run[p].half)
      /\ (r.finishing => run[p].finishing) /\ (r.released => run[p].released)
      /\ (run[p].released => r.released) /\ (run[p].finishing => r.finishing)
  BY <1>1, Values DEF RunState
<1> HIDE DEF r
<1>4. run'[p] = r /\ \A q \in Runner \ {p} : run'[q] = run[q]
  BY <1>2 DEF IInv, TypeOK
<1>5. sent[k][i] = 0
  <2>1. i \in ToSend(run[p])
    BY <1>1 DEF ToSend, Save
  <2>2. QED BY <1>1, <2>1 DEF RunInv, Untouched
<1>6. /\ sent \in [Key -> [Save -> Nat]] /\ landed \in [Key -> SUBSET Save]
      /\ sent'[k][i] = 1
      /\ \A j \in Save \ {i} : sent'[k][j] = sent[k][j]
      /\ \A h \in Key \ {k} : sent'[h] = sent[h] /\ landed'[h] = landed[h]
      /\ landed[k] \subseteq landed'[k] /\ landed'[k] \subseteq landed[k] \cup {i}
  BY <1>1, <1>2, <1>5 DEF IInv, TypeOK
<1>7. ledger[k] # "none" /\ (k \notin contested => ledger[k] \notin Final)
  BY <1>1 DEF RunInv, Untouched, Undecided
<1>8. TypeOK'
  BY <1>1, <1>2, <1>3 DEF IInv, TypeOK
<1>9. RunInv(p)'
  <2>1. Shape(p)' /\ Undecided(p)' /\ Covered(p)'
    BY <1>1, <1>2, <1>3, <1>4, <1>7 DEF RunInv, Shape, Undecided, Covered, Active
  <2>2. Untouched(p)'
    <3>1. ASSUME NEW j \in ToSend(r) PROVE sent'[k][j] = 0
      <4>1. j \in Save /\ j # i /\ j >= i
        BY <1>1, <1>3 DEF ToSend, Save
      <4>2. j \in ToSend(run[p])
        BY <1>1, <4>1 DEF ToSend
      <4>3. QED BY <1>1, <1>6, <4>1, <4>2 DEF RunInv, Untouched
    <3>2. QED BY <1>2, <1>3, <1>4, <1>7, <3>1 DEF Untouched
  <2>3. Verdict(p)'
    BY <1>1, <1>3, <1>4, <1>6 DEF RunInv, Verdict
  <2>4. QED BY <2>1, <2>2, <2>3 DEF RunInv
<1>10. ASSUME NEW q \in Runner, q # p PROVE RunInv(q)'
  <2>1. run'[q] = run[q] /\ RunInv(q)
    BY <1>4, <1>10 DEF IInv, Strengthening
  <2>2. Active(q)' = Active(q) /\ Owner(q)' = Owner(q)
    BY <2>1 DEF Active, Owner
  <2>3. Shape(q)' /\ Undecided(q)' /\ Covered(q)'
    BY <1>2, <2>1, <2>2 DEF RunInv, Shape, Undecided, Covered
  <2>4. run[q].key = k => ~Owner(q) /\ (Active(q) => k \in contested)
    BY <1>1, <1>10 DEF IInv, Strengthening, Apart
  <2>5. run[q].pc # "idle" => run[q].key \in Key
    BY <2>1 DEF RunInv, Shape
  <2>6. Untouched(q)'
    BY <1>2, <1>6, <2>1, <2>2, <2>4, <2>5 DEF RunInv, Untouched, Owner
  <2>7. Verdict(q)'
    <3>1. CASE run[q].key = k
      BY <1>2, <2>1, <2>4, <3>1 DEF Verdict, Owner, Active
    <3>2. CASE run[q].key # k
      BY <1>2, <1>6, <2>1, <2>5, <3>2 DEF RunInv, Verdict, Sent
    <3>3. QED BY <3>1, <3>2
  <2>8. QED BY <2>3, <2>6, <2>7 DEF RunInv
<1>11. Apart'
  BY <1>1, <1>2, <1>3, <1>4 DEF IInv, Strengthening, Apart, Owner, Active
<1>12. Extent'
  <2>1. ASSUME NEW h \in Key, NEW j \in landed'[h] PROVE j <= Saves[h] /\ sent'[h][j] > 0
    <3>1. CASE h = k /\ j = i
      BY <1>1, <1>6, <3>1
    <3>2. CASE ~(h = k /\ j = i)
      <4>1. j \in landed[h] /\ j \in Save
        BY <1>6, <2>1, <3>2
      <4>2. sent'[h][j] = sent[h][j]
        BY <1>6, <3>2, <4>1
      <4>3. QED BY <4>1, <4>2 DEF IInv, Strengthening, Extent
    <3>3. QED BY <3>1, <3>2
  <2>2. QED BY <2>1 DEF Extent
<1>13. SentOnce' /\ SentIsRecorded'
  <2>1. ASSUME NEW h \in Key, NEW j \in Save
        PROVE  sent'[h][j] <= 1 /\ (ledger'[h] = "none" => sent'[h][j] = 0)
    <3>1. CASE h = k /\ j = i
      BY <1>2, <1>6, <1>7, <3>1
    <3>2. CASE ~(h = k /\ j = i)
      BY <1>2, <1>6, <3>2 DEF IInv, Strengthening, SentOnce, SentIsRecorded
    <3>3. QED BY <3>1, <3>2
  <2>2. QED BY <2>1 DEF SentOnce, SentIsRecorded
<1>14. LedgerTrue'
  <2>1. {"blocked", "failed", "verified"} \subseteq Final
    BY DEF Final, Status, Stage
  <2>2. QED
    BY <1>2, <1>6, <1>7, <2>1 DEF IInv, Strengthening, LedgerTrue, Sent
<1>15. QED
  BY <1>1, <1>5, <1>8, <1>9, <1>10, <1>11, <1>12, <1>13, <1>14 DEF IInv, Strengthening

-----------------------------------------------------------------------------
(* The theorems.                                                            *)

LEMMA NextInv == IInv /\ [Next]_vars => IInv'
<1> SUFFICES ASSUME IInv, [Next]_vars PROVE IInv'
  OBVIOUS
<1>1. CASE UNCHANGED vars
  <2>1. TypeOK'
    BY <1>1 DEF IInv, TypeOK, vars
  <2>2. \A p \in Runner : RunInv(p)'
    BY <1>1 DEF IInv, Strengthening, RunInv, Shape, Untouched, Undecided, Verdict, Covered,
       Owner, Active, Sent, vars
  <2>3. Apart' /\ Extent' /\ SentOnce' /\ SentIsRecorded' /\ LedgerTrue'
    BY <1>1 DEF IInv, Strengthening, Apart, Owner, Active, Extent, SentOnce, SentIsRecorded,
       LedgerTrue, Sent, vars
  <2>4. QED BY <2>1, <2>2, <2>3 DEF IInv, Strengthening
<1>2. CASE Tick
  BY <1>2, TickInv
<1>3. ASSUME NEW p \in Runner,
             \/ \E k \in Key, t \in 1..FunctionTicks : Lookup(p, k, t)
             \/ AcquireLease(p) \/ Busy(p) \/ AskAgain(p) \/ GiveUp(p) \/ WriteIntent(p)
             \/ Refuse(p) \/ AlreadySo(p) \/ Open(p)
             \/ Blocked(p) \/ Click(p)
             \/ \E stage \in {"submitted", "failed", "unknown"} : Answer(p, stage)
             \/ NoteSubmitted(p)
             \/ \E matches \in BOOLEAN : ReadBack(p, matches)
             \/ WriteOutcome(p) \/ Throw(p) \/ Catch(p) \/ ReleaseLease(p) \/ Return(p)
             \/ Kill(p)
      PROVE  IInv'
  <2>1. CASE \E k \in Key, t \in 1..FunctionTicks : Lookup(p, k, t)
    BY <2>1, LookupInv
  <2>2. CASE AcquireLease(p)
    BY <2>2, AcquireInv
  <2>3. CASE Busy(p) \/ AskAgain(p) \/ GiveUp(p)
    BY <2>3, AskingInv
  <2>4. CASE WriteIntent(p)
    BY <2>4, IntentInv
  <2>5. CASE Refuse(p) \/ AlreadySo(p) \/ Open(p)
    BY <2>5, CheckInv
  <2>6. CASE Blocked(p) \/ \E stage \in {"submitted", "failed", "unknown"} : Answer(p, stage)
    BY <2>6, SavedInv
  <2>7. CASE Click(p)
    BY <2>7, ClickInv
  <2>8. CASE NoteSubmitted(p)
    BY <2>8, NoteInv
  <2>9. CASE \E matches \in BOOLEAN : ReadBack(p, matches)
    BY <2>9, ReadBackInv
  <2>10. CASE WriteOutcome(p)
    BY <2>10, OutcomeInv
  <2>11. CASE Throw(p)
    BY <2>11, ThrowInv
  <2>12. CASE Catch(p)
    BY <2>12, CatchInv
  <2>13. CASE ReleaseLease(p)
    BY <2>13, ReleaseInv
  <2>14. CASE Return(p) \/ Kill(p)
    BY <2>14, GoesIdle DEF Return, Kill
  <2>15. QED
    BY <1>3, <2>1, <2>2, <2>3, <2>4, <2>5, <2>6, <2>7, <2>8, <2>9, <2>10, <2>11, <2>12,
       <2>13, <2>14
<1>4. QED
  BY <1>1, <1>2, <1>3 DEF Next

\* The invariant holds: what the runs, the lease, the ledger and OnSinch are to
\* one another, in every state of any number of invocations.
THEOREM Invariance == Spec => [](TypeOK /\ Strengthening)
<1>1. Init => IInv
  BY InitInv
<1>2. IInv /\ [Next]_vars => IInv'
  BY NextInv
<1>3. IInv => TypeOK /\ Strengthening
  BY DEF IInv
<1>4. QED
  BY <1>1, <1>2, <1>3, PTL DEF Spec

\* Every variable stays within its type.
THEOREM TypeCorrect == Spec => []TypeOK
BY Invariance, PTL

\* No save of an operation ever leaves for OnSinch twice (runOp's lookup and
\* ledgerIntent's insert), and none leaves without a row in the ledger.
THEOREM NeverSentTwice == Spec => [](SentOnce /\ SentIsRecorded)
<1>1. TypeOK /\ Strengthening => SentOnce /\ SentIsRecorded
  BY DEF Strengthening
<1>2. QED
  BY <1>1, Invariance, PTL

\* What the ledger says of an operation whose lease no second run took over is
\* true of OnSinch.
THEOREM LedgerIsTrue == Spec => []LedgerTrue
<1>1. TypeOK /\ Strengthening => LedgerTrue
  BY DEF Strengthening
<1>2. QED
  BY <1>1, Invariance, PTL

\* Two runs still covered by the leases they took never drive OnSinch together:
\* both would hold the one row, so they would share a key, which is contested.
THEOREM DrivesAlone == Spec => []SoleDriver
<1>1. IInv => SoleDriver
  <2> SUFFICES ASSUME IInv, NEW p \in Runner, NEW q \in Runner, p # q,
                      Driving(p), run[p].mine > 0, run[p].key \notin contested,
                      Driving(q), run[q].mine > 0, run[q].key \notin contested
               PROVE  FALSE
    BY DEF SoleDriver
  <2>1. ASSUME NEW a \in Runner, Driving(a), run[a].mine > 0, run[a].key \notin contested
        PROVE  Active(a) /\ lease.holder = run[a].key
    BY <2>1 DEF IInv, Strengthening, RunInv, Shape, Covered, Driving, Active
  <2>2. Active(p) /\ Active(q) /\ run[p].key = run[q].key
    BY <2>1
  <2>3. QED BY <2>2 DEF IInv, Strengthening, Apart
<1>2. QED
  BY <1>1, Invariance, PTL DEF IInv

\* runOp with the lease and the ledger carries out WriteOnce: an operation is
\* taken up once, never if it ran under its legacy key, and each save leaves once.
THEOREM Refinement == Spec => WritesOnce
<1> DEFINE taken == {k \in Key : ledger[k] # "none"}
<1>1. Init => Once!Init
  BY DEF Init, Once!Init
<1>2. IInv /\ [Next]_vars => [Once!Next]_(Once!vars)
  <2> SUFFICES ASSUME IInv, [Next]_vars PROVE Once!Next \/ UNCHANGED <<taken, sent>>
    BY DEF Once!vars
  <2>1. CASE \E p \in Runner : Click(p)
    <3>1. PICK p \in Runner : Click(p)
      BY <2>1
    <3> DEFINE k == run[p].key  i == run[p].at
    <3>2. /\ k \in Key /\ ledger[k] # "none" /\ i \in Save /\ sent[k][i] = 0
          /\ sent \in [Key -> [Save -> Nat]]
      BY <3>1, ClickInv DEF Click, At, Owner, IInv, TypeOK, Strengthening, RunInv, Shape, Untouched
    <3>3. sent' = [sent EXCEPT ![k][i] = 1] /\ UNCHANGED taken
      BY <3>1, <3>2 DEF Click
    <3>4. Once!Send(k, i)
      BY <3>2, <3>3 DEF Once!Send
    <3>5. QED BY <3>2, <3>4 DEF Once!Next
  <2>2. CASE ~(\E p \in Runner : Click(p)) /\ ledger' = ledger
    <3>1. UNCHANGED sent
      BY <2>2 DEF Next, vars, onsinch, Lookup, AcquireLease, Busy, AskAgain, GiveUp, WriteIntent,
         Refuse, AlreadySo, Open, Blocked, Answer, NoteSubmitted, ReadBack, WriteOutcome, Throw,
         Catch, ReleaseLease, Return, Kill, Tick
    <3>2. QED BY <2>2, <3>1
  <2>3. CASE ledger' # ledger
    <3>1. PICK p \in Runner, s \in Status :
            /\ ledger' = [ledger EXCEPT ![run[p].key] = s] /\ UNCHANGED sent
            /\ run[p].key \in Key \ Legacy
      <4>1. PICK p \in Runner :
              WriteIntent(p) \/ NoteSubmitted(p) \/ WriteOutcome(p) \/ Throw(p) \/ Catch(p)
        BY <2>3 DEF Next, vars, Lookup, AcquireLease, Busy, AskAgain, GiveUp, Refuse, AlreadySo,
           Open, Blocked, Click, Answer, ReadBack, ReleaseLease, Return, Kill, Tick
      <4>2. /\ run[p].key \in Key \ Legacy /\ UNCHANGED sent
            /\ (run[p].pc = "write" => run[p].out \in Status)
        BY <4>1 DEF WriteIntent, NoteSubmitted, WriteOutcome, Throw, Catch, At, onsinch, IInv,
           TypeOK, RunState, Strengthening, RunInv, Shape
      <4>3. \E s \in Status : ledger' = [ledger EXCEPT ![run[p].key] = s]
        <5>1. CASE WriteIntent(p) \/ NoteSubmitted(p) \/ WriteOutcome(p)
          BY <2>3, <4>2, <5>1, Values DEF WriteIntent, NoteSubmitted, WriteOutcome, At
        <5>2. CASE Throw(p)
          BY <2>3, <4>2, <5>2, Values DEF Throw, Applied, At
        <5>3. CASE Catch(p)
          BY <2>3, <5>3, Values DEF Catch, throwStatus
        <5>4. QED BY <4>1, <5>1, <5>2, <5>3
      <4>4. QED BY <4>2, <4>3
    <3> DEFINE k == run[p].key
    <3>2. s # "none" /\ ledger \in [Key -> Status \cup {"none"}]
      BY DEF IInv, TypeOK, Status, Stage
    <3>3. taken' = taken \cup {k}
      BY <3>1, <3>2
    <3>4. CASE k \in taken
      BY <3>1, <3>3, <3>4
    <3>5. CASE k \notin taken
      BY <3>1, <3>3, <3>5 DEF Once!Next, Once!Take
    <3>6. QED BY <3>4, <3>5
  <2>4. QED BY <2>1, <2>2, <2>3
<1>3. QED
  BY <1>1, <1>2, Invariance, PTL DEF Spec, WritesOnce, Once!Spec, IInv

=============================================================================
