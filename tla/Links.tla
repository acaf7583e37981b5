-------------------------------- MODULE Links --------------------------------
(***************************************************************************)
(* One thread's rows in job_links: which OnSinch orders it is about.  A    *)
(* planner that finds an order by evidence links it as a guess; the        *)
(* minute sync follows each row to where its job has gone (sweepLinks) and *)
(* grades the thread against the stored orders (linkAbsolute), where an    *)
(* order the thread names, or the bot made, is linked with its proof and   *)
(* replaces the guesses outside that set.  Syncs overlap, nothing locks    *)
(* them out, and every write goes by what was read before it.              *)
(*                                                                         *)
(* Staff change OnSinch meanwhile: orders are made and deleted, jobs move. *)
(* Job j is the one that order j was made with.                            *)
(***************************************************************************)
EXTENDS Integers, FiniteSets, Sequences, FiniteSetsExt

CONSTANTS
    Order,      \* OnSinch orders, a range of numbers in the order they are made
    Made,       \* how many exist at the start
    Foreign,    \* the orders of another company than the sender's
    SameNumber, \* pairs: the second is made with the first one's R number, once that is deleted
    Rebuilt,    \* pairs: the second is the first one's client's and holds all its shifts
    Ticket,     \* the order of the thread's ticket on the jobs board, or 0
    LinkSync,   \* syncs that run at once
    Finder,     \* calls that find or write (a delivery, the re-plan, a resumed email)
    MaxChanges  \* bound on the changes staff, the client and the bot make, and on OnSinch reads that fail

ASSUME LinksAssumption ==
    /\ Order \subseteq Nat \ {0} /\ Made \in Nat /\ MaxChanges \in Nat
    /\ Foreign \subseteq Order /\ Ticket \in Order \cup {0}
    /\ SameNumber \cup Rebuilt \subseteq {p \in Order \X Order : p[1] < p[2]}

VARIABLES
    made,     \* the orders made so far are 1..made
    live,     \* those not deleted
    holder,   \* the order that holds a job, 0 for none
    mirror,   \* onsinch_orders: what was read of the two
    said,     \* what the thread's emails name, and how
    bot,      \* the orders the bot made or changed in the thread
    link,     \* job_links, by order
    graded,   \* links_graded is the stamp of what is stored now
    sync,     \* the locals of each sync
    finder,   \* the locals of each planner call
    changes

linksVars == <<made, live, holder, mirror, said, bot, link, graded, sync, finder, changes>>
onsinchVars == <<made, live, holder>>

NoLink == [state |-> "none", proof |-> FALSE, job |-> 0]
LiveState == {"linked", "relinked"}
IsLive(o) == link[o].state \in LiveState
SyncIdle == [pc |-> "idle", todo |-> {}, on |-> 0, found |-> 0, job |-> 0, fresh |-> FALSE]
FinderIdle == [pc |-> "idle", order |-> 0, job |-> 0]

LinksTypeOK ==
    /\ made \in Nat /\ live \subseteq Order
    /\ \A j \in Order : holder[j] \in live \cup {0}
    /\ \A i \in DOMAIN said : said[i].kind \in {"R", "J", "PO"} /\ said[i].of \in Order
    /\ bot \subseteq Order /\ graded \in BOOLEAN
    /\ \A o \in Order :
         /\ link[o].state \in {"none", "linked", "relinked", "held", "gone", "replaced"}
         /\ IF link[o].state = "none" THEN link[o] = NoLink ELSE o <= made
    /\ \A f \in Finder : finder[f].order \in Order \cup {0}

LinksInit ==
    /\ made = Made /\ live = {o \in Order : o <= Made}
    /\ holder = [j \in Order |-> IF j <= Made THEN j ELSE 0]
    /\ mirror = [live |-> live, holder |-> holder]
    /\ said = <<>> /\ bot = {}
    /\ link = [o \in Order |-> NoLink]
    /\ graded = FALSE
    /\ sync = [s \in LinkSync |-> SyncIdle]
    /\ finder = [f \in Finder |-> FinderIdle]
    /\ changes = 0

-----------------------------------------------------------------------------
(* OnSinch and the thread. *)

Change == changes < MaxChanges /\ changes' = changes + 1

(* The stamp moves: a sync that read it before is no longer up to date. *)
Restamp ==
    /\ graded' = FALSE
    /\ sync' = [s \in LinkSync |-> [sync[s] EXCEPT !.fresh = FALSE]]

MakeOrder ==
    /\ Change /\ made + 1 \in Order
    /\ \A p \in SameNumber : p[2] = made + 1 => p[1] \notin live
    /\ made' = made + 1
    /\ live' = live \cup {made'}
    /\ holder' = [holder EXCEPT ![made'] = made']
    /\ UNCHANGED <<mirror, said, bot, link, graded, sync, finder>>

DeleteOrder(o) ==
    /\ Change /\ o \in live
    /\ live' = live \ {o}
    /\ holder' = [j \in Order |-> IF holder[j] = o THEN 0 ELSE holder[j]]
    /\ UNCHANGED <<made, mirror, said, bot, link, graded, sync, finder>>

MoveJob(j, o) ==
    /\ Change /\ holder[j] \notin {0, o} /\ o \in live
    /\ holder' = [holder EXCEPT ![j] = o]
    /\ UNCHANGED <<made, live, mirror, said, bot, link, graded, sync, finder>>

Say(kind, o) ==
    /\ Change /\ o <= made
    /\ said' = Append(said, [kind |-> kind, of |-> o])
    /\ Restamp
    /\ UNCHANGED <<onsinchVars, mirror, bot, link, finder>>

(* The measurement loop reads some client's orders again, every half hour at the least, and the stamp is of all orders. *)
ReadOrders ==
    /\ mirror' = [live |-> live, holder |-> holder]
    /\ Restamp
    /\ UNCHANGED <<onsinchVars, said, bot, link, finder, changes>>

-----------------------------------------------------------------------------
(* The planner and the bot. *)

JobIn(where, o) == IF \E j \in Order : where[j] = o THEN Min({j \in Order : where[j] = o}) ELSE 0

(* recordLink reads the order and writes its row: what has no job there, or is not returned, keeps the row's own. *)
JobRead(o) == IF o \in live THEN JobIn(holder, o) ELSE 0

Recorded(o, job) == [link[o] EXCEPT !.state = "linked", !.job = IF job = 0 THEN @ ELSE job]

(* What the bot wrote is in the email's decision before the link is recorded; the stamp counts the decisions, and a *)
(* resumed email's is there already.                                                                               *)
BotWrite(f, o) ==
    /\ Change /\ finder[f].pc = "idle" /\ o \in live
    /\ bot' = bot \cup {o}
    /\ finder' = [finder EXCEPT ![f] = [FinderIdle EXCEPT !.pc = "read", !.order = o]]
    /\ Restamp \/ UNCHANGED <<graded, sync>>
    /\ UNCHANGED <<onsinchVars, mirror, said, link>>

(* linkFound reads the thread's rows: a guess is not linked over, or beside, one that stands or was replaced. *)
Find(f, o) ==
    /\ finder[f].pc = "idle" /\ o \in live
    /\ link[o].state \notin LiveState \cup {"gone"}
    /\ \A q \in Order : link[q].state \in {"none", "held", "gone"}
    /\ finder' = [finder EXCEPT ![f] = [FinderIdle EXCEPT !.pc = "delete", !.order = o]]
    /\ UNCHANGED <<onsinchVars, mirror, said, bot, link, graded, sync, changes>>

FoundDelete(f) ==
    /\ finder[f].pc = "delete"
    /\ link' = [o \in Order |-> IF link[o].state \in {"held", "gone"} THEN NoLink ELSE link[o]]
    /\ finder' = [finder EXCEPT ![f].pc = "read"]
    /\ UNCHANGED <<onsinchVars, mirror, said, bot, graded, sync, changes>>

FoundRead(f) ==
    /\ finder[f].pc = "read"
    /\ finder' = [finder EXCEPT ![f] = [@ EXCEPT !.pc = "record", !.job = JobRead(finder[f].order)]]
    /\ UNCHANGED <<onsinchVars, mirror, said, bot, link, graded, sync, changes>>

FoundRecord(f) ==
    /\ finder[f].pc = "record"
    /\ link' = [link EXCEPT ![finder[f].order] = Recorded(finder[f].order, finder[f].job)]
    /\ finder' = [finder EXCEPT ![f] = FinderIdle]
    /\ UNCHANGED <<onsinchVars, mirror, said, bot, graded, sync, changes>>

-----------------------------------------------------------------------------
(* The sync: the backfills, the sweep, the grading. *)

Unlinked == \A o \in Order : link[o].state = "none"

(* The bot's orders, then the board's ticket, for a thread that has no row when it is looked at. *)
Backfill(s) ==
    /\ sync[s].pc = "idle" /\ Unlinked
    /\ \E l \in [pc : {"bot"}, on : bot] \cup [pc : {"ticket"}, on : {Ticket} \cap {o \in Order : o <= made}] :
         sync' = [sync EXCEPT ![s] = [SyncIdle EXCEPT !.pc = l.pc, !.on = l.on]]
    /\ UNCHANGED <<onsinchVars, mirror, said, bot, link, graded, finder, changes>>

(* OnSinch is read for it: the bot's own order, or the one that holds the ticket's job now. *)
BackfillRead(s) ==
    /\ sync[s].pc \in {"bot", "ticket"}
    /\ LET o == IF sync[s].pc = "bot" THEN sync[s].on ELSE holder[sync[s].on] IN
         sync' = [sync EXCEPT ![s] = [@ EXCEPT !.pc = "record", !.found = o, !.job = IF o = 0 THEN 0 ELSE JobRead(o)]]
    /\ UNCHANGED <<onsinchVars, mirror, said, bot, link, graded, finder, changes>>

(* The row is written over what has come there since; a ticket with no job in OnSinch is remembered as gone, where no row is. *)
BackfillWrite(s) ==
    LET l == sync[s] IN
    /\ l.pc = "record"
    /\ link' = IF l.found # 0 THEN [link EXCEPT ![l.found] = Recorded(l.found, l.job)]
               ELSE [link EXCEPT ![l.on].state = IF @ = "none" THEN "gone" ELSE @]
    /\ sync' = [sync EXCEPT ![s] = SyncIdle]
    /\ UNCHANGED <<onsinchVars, mirror, said, bot, graded, finder, changes>>

StartSweep(s) ==
    /\ sync[s].pc = "idle"
    /\ sync' = [sync EXCEPT ![s] = [SyncIdle EXCEPT !.pc = "sweep",
                                    !.todo = {<<o, link[o].job>> : o \in {q \in Order : link[q].state \in LiveState \cup {"held"}}}]]
    /\ UNCHANGED <<onsinchVars, mirror, said, bot, link, graded, finder, changes>>

(* Where the link's job is now; else its order, the order with its number, the one order that rebuilds it. *)
WhereNow(o, job) ==
    LET byNumber == {p[2] : p \in {q \in SameNumber : q[1] = o /\ q[2] \in live}}
        rebuilds == {p[2] : p \in {q \in Rebuilt : q[1] = o /\ q[2] \in live}}
    IN
    IF job # 0 /\ holder[job] # 0 THEN holder[job]
    ELSE IF o \in live THEN o
    ELSE IF byNumber # {} THEN Min(byNumber)
    ELSE IF Cardinality(rebuilds) = 1 THEN Min(rebuilds)
    ELSE 0

(* OnSinch is read for one row of the list; a read that fails leaves the row as it is, and ends a backfill. *)
Look(s) ==
    /\ sync[s].pc = "sweep" /\ sync[s].todo # {}
    /\ \E t \in sync[s].todo :
         LET l == [sync[s] EXCEPT !.todo = @ \ {t}] IN
         sync' = [sync EXCEPT ![s] =
                    [l EXCEPT !.on = t[1], !.found = WhereNow(t[1], t[2]), !.job = JobRead(WhereNow(t[1], t[2])),
                              !.pc = IF WhereNow(t[1], t[2]) \in {0, t[1]} THEN "write" ELSE "clear"]]
    /\ UNCHANGED <<onsinchVars, mirror, said, bot, link, graded, finder, changes>>

LookFails(s) ==
    /\ Change
    /\ \/ sync[s].pc = "sweep" /\ \E t \in sync[s].todo : sync' = [sync EXCEPT ![s].todo = @ \ {t}]
       \/ sync[s].pc \in {"bot", "ticket"} /\ sync' = [sync EXCEPT ![s] = SyncIdle]
    /\ UNCHANGED <<onsinchVars, mirror, said, bot, link, graded, finder>>

(* Moved: the row of the order it moved to goes first. *)
ClearTarget(s) ==
    /\ sync[s].pc = "clear"
    /\ link' = [link EXCEPT ![sync[s].found] = NoLink]
    /\ sync' = [sync EXCEPT ![s].pc = "write"]
    /\ UNCHANGED <<onsinchVars, mirror, said, bot, graded, finder, changes>>

BackToSweep(s) == sync' = [sync EXCEPT ![s] = [@ EXCEPT !.pc = "sweep", !.on = 0, !.found = 0, !.job = 0]]

(* The updates name the row by its order and look at nothing else; one that is not there is not updated, and a   *)
(* move on to an order another call has just linked throws.                                                      *)
SweepWrite(s) ==
    LET l == sync[s]
        row == link[l.on]
    IN
    /\ l.pc = "write"
    /\ link' = IF row.state = "none" THEN link
               ELSE IF l.found = 0 THEN [link EXCEPT ![l.on].state = "held"]
               ELSE IF l.found = l.on THEN [link EXCEPT ![l.on].state = IF @ = "held" THEN "linked" ELSE @,
                                                        ![l.on].job = l.job]
               ELSE IF link[l.found].state # "none" THEN link
               ELSE [link EXCEPT ![l.on] = NoLink,
                                 ![l.found] = [row EXCEPT !.state = "relinked", !.job = l.job]]
    /\ BackToSweep(s)
    /\ UNCHANGED <<onsinchVars, mirror, said, bot, graded, finder, changes>>

(* gradeThread, on what is stored: a job is where it was last read, a deleted order names nothing, an order's proof *)
(* is the first that names it, and the bot's own order comes last.                                                 *)
Names(m) == (IF m.kind = "J" THEN {mirror.holder[m.of]} ELSE {m.of}) \cap mirror.live
NamedBy(o) == {i \in DOMAIN said : o \in Names(said[i])}
Named == {o \in mirror.live : o \in bot \/ NamedBy(o) # {}}
ByPo == {o \in Named : NamedBy(o) # {} /\ said[Min(NamedBy(o))].kind = "PO"}
Conflict ==
    \/ Named \cap Foreign # {}
    \/ bot \cap Named # {} /\ ByPo # {} /\ ByPo \cap bot = {}

(* Mutant: the guesses outside the set are left standing. *)
GradeOnlyProves(s) ==
    /\ sync[s].pc = "sweep" /\ sync[s].todo = {}
    /\ sync' = [sync EXCEPT ![s] =
                  IF graded THEN SyncIdle
                  ELSE [SyncIdle EXCEPT !.pc = "grade", !.fresh = TRUE,
                          !.todo = IF Conflict THEN {} ELSE {<<o, "prove">> : o \in {q \in Named : ~link[q].proof}}]]
    /\ UNCHANGED <<onsinchVars, mirror, said, bot, link, graded, finder, changes>>

(* linkAbsolute: nothing when the stamp is as it was last graded; otherwise the rows and the set are read once. *)
Grade(s) ==
    /\ sync[s].pc = "sweep" /\ sync[s].todo = {}
    /\ sync' = [sync EXCEPT ![s] =
                  IF graded THEN SyncIdle
                  ELSE [SyncIdle EXCEPT !.pc = "grade", !.fresh = TRUE,
                          !.todo = IF Conflict \/ Named = {} THEN {}
                                   ELSE {<<o, "prove">> : o \in {q \in Named : ~link[q].proof \/ link[q].state = "replaced"}}
                                        \cup {<<o, "replace">> : o \in {q \in Order \ Named : IsLive(q) /\ ~link[q].proof}}]]
    /\ UNCHANGED <<onsinchVars, mirror, said, bot, link, graded, finder, changes>>

Proved(row, o) ==
    IF row.state = "none" THEN [state |-> "linked", proof |-> TRUE, job |-> JobIn(mirror.holder, o)]
    ELSE [row EXCEPT !.proof = TRUE, !.state = IF @ = "replaced" THEN "linked" ELSE @]

GradeWrite(s) ==
    /\ sync[s].pc = "grade"
    /\ \E t \in sync[s].todo :
         /\ t[2] = "replace" => \A u \in sync[s].todo : u[2] = "replace"
         /\ link' = IF t[2] = "prove" THEN [link EXCEPT ![t[1]] = Proved(@, t[1])]
                    ELSE IF link[t[1]].state = "none" THEN link
                    ELSE [link EXCEPT ![t[1]].state = "replaced"]
         /\ sync' = [sync EXCEPT ![s].todo = @ \ {t}]
    /\ UNCHANGED <<onsinchVars, mirror, said, bot, graded, finder, changes>>

Graded(s) ==
    /\ sync[s].pc = "grade" /\ sync[s].todo = {}
    /\ graded' = sync[s].fresh
    /\ sync' = [sync EXCEPT ![s] = SyncIdle]
    /\ UNCHANGED <<onsinchVars, mirror, said, bot, link, finder, changes>>

LinkSyncStep(s) ==
    \/ BackfillRead(s) \/ BackfillWrite(s)
    \/ StartSweep(s) \/ Look(s) \/ ClearTarget(s) \/ SweepWrite(s) \/ Grade(s) \/ GradeWrite(s) \/ Graded(s)

FinderStep(f) == FoundDelete(f) \/ FoundRead(f) \/ FoundRecord(f)

LinksNext ==
    \/ MakeOrder \/ ReadOrders
    \/ \E o \in Order : DeleteOrder(o)
    \/ \E o, j \in Order : MoveJob(j, o)
    \/ \E o \in Order, kind \in {"R", "J", "PO"} : Say(kind, o)
    \/ \E f \in Finder : FinderStep(f) \/ \E o \in Order : Find(f, o) \/ BotWrite(f, o)
    \/ \E s \in LinkSync : LinkSyncStep(s) \/ Backfill(s) \/ LookFails(s)

LinksSpec == LinksInit /\ [][LinksNext]_linksVars

(* Two syncs a minute, whatever became of the last; the measurement loop. *)
LinksFair ==
    /\ \A s \in LinkSync : WF_linksVars(LinkSyncStep(s))
    /\ \A f \in Finder : WF_linksVars(FinderStep(f))
    /\ WF_linksVars(ReadOrders)

LinksFairSpec == LinksSpec /\ LinksFair

-----------------------------------------------------------------------------
Settled ==
    \/ Named = {} \/ Conflict
    \/ /\ \A o \in Named : link[o].state \in LiveState \cup {"gone"} /\ link[o].proof
       /\ \A o \in Order : IsLive(o) => link[o].proof

(* "Kept true every minute" (links.ts): whatever two syncs and the planner's guesses do to each other's rows, once the *)
(* thread and its orders stay as they are every order the thread names is linked with its proof and no guess stands    *)
(* beside one.  (An order the board's ticket left remembered as gone stays so: the upsert only brings back one that    *)
(* was replaced.)                                                                                                      *)
LinksSettle == []<>Settled
=============================================================================
