---------------------------- MODULE Progress_proofs ----------------------------
(***************************************************************************)
(* Proofs about the parts of MCProgress, for any signals, limits, windows  *)
(* and heartbeats that overlap (Alarms), any orders, syncs and planners    *)
(* (Links), any threads, runs and refusals (Labels): the claim on a window *)
(* is one heartbeat's, and no older than the last email that was sent;     *)
(* a thread is linked to orders that were made; a label remembered is worn *)
(* but for what n8n still holds.  With MailPoll_proofs, the run's types.   *)
(***************************************************************************)
EXTENDS MCProgress, Links, MailPoll_proofs, SequenceTheorems

-----------------------------------------------------------------------------
(* Alarms. *)

AlarmsTyped ==
  /\ stopped \subseteq Signal /\ heard \subseteq Signal /\ repeated \subseteq Signal
  /\ age \in [Signal -> Nat] /\ \A s \in Signal : age[s] <= Limit[s] + 1
  /\ claimed \in [Signal -> 0..Quiet] /\ told \in [Signal -> 0..Quiet]
  /\ report \in [Beat -> [Signal -> ReportPC]]
  /\ asked \subseteq Beat /\ notify \in BOOLEAN /\ standing \in BOOLEAN /\ wrong \in 0..Faults

\* While someone was emailed within the window, the row says so.
Remembered == \A s \in Signal : told[s] < Quiet => claimed[s] <= told[s]

\* Whoever is to email took the window in this period, no one was emailed in it, and it is the only one.
Holds(h, s) == report[h][s] = "claimed"
Held ==
  \A s \in Signal, h \in Beat :
    Holds(h, s) => /\ claimed[s] = 0 /\ told[s] = Quiet
                   /\ \A g \in Beat : Holds(g, s) => g = h

AlarmsInv == AlarmsTyped /\ Remembered /\ Held /\ OneEmailAWindow

-----------------------------------------------------------------------------
LEMMA AlarmsStart == AlarmsInit => AlarmsInv
<1> SUFFICES ASSUME AlarmsInit PROVE AlarmsInv
  OBVIOUS
<1> USE AlarmsAssumption DEF AlarmsInit
<1>1. AlarmsTyped
  <2>1. age \in [Signal -> Nat] /\ \A s \in Signal : age[s] <= Limit[s] + 1
    OBVIOUS
  <2>2. report \in [Beat -> [Signal -> ReportPC]]
    BY DEF ReportPC
  <2>3. claimed \in [Signal -> 0..Quiet] /\ told \in [Signal -> 0..Quiet] /\ wrong \in 0..Faults
    OBVIOUS
  <2>4. QED BY <2>1, <2>2, <2>3 DEF AlarmsTyped
<1>2. Remembered /\ Held /\ OneEmailAWindow
  BY DEF Remembered, Held, Holds, OneEmailAWindow
<1>3. QED BY <1>1, <1>2 DEF AlarmsInv

\* The steps of the runs themselves and of time.
LEMMA StopRunInv == ASSUME AlarmsInv, NEW s \in Signal, StopRun(s) \/ Mend(s) PROVE AlarmsInv'
<1> USE DEF AlarmsInv, StopRun, Mend
<1>1. AlarmsTyped'
  BY DEF AlarmsTyped
<1>2. (Remembered /\ Held /\ OneEmailAWindow)'
  BY DEF Remembered, Held, Holds, OneEmailAWindow
<1>3. QED BY <1>1, <1>2

LEMMA PauseInv == ASSUME AlarmsInv, PauseOrNot PROVE AlarmsInv'
<1> USE DEF AlarmsInv, PauseOrNot
<1>1. AlarmsTyped'
  BY DEF AlarmsTyped
<1>2. (Remembered /\ Held /\ OneEmailAWindow)'
  BY DEF Remembered, Held, Holds, OneEmailAWindow
<1>3. QED BY <1>1, <1>2

LEMMA PeriodInv == ASSUME AlarmsInv, Period PROVE AlarmsInv'
<1> USE AlarmsAssumption DEF AlarmsInv, Period
<1>1. AlarmsTyped'
  <2>1. age' \in [Signal -> Nat] /\ \A s \in Signal : age'[s] <= Limit[s] + 1
    BY DEF AlarmsTyped, Least
  <2>2. claimed' \in [Signal -> 0..Quiet] /\ told' \in [Signal -> 0..Quiet]
    BY DEF AlarmsTyped, Least
  <2>3. QED BY <2>1, <2>2 DEF AlarmsTyped
<1>2. Remembered'
  BY DEF AlarmsTyped, Remembered, Least
<1>3. Held'
  BY DEF Held, Holds, Finished
<1>4. OneEmailAWindow'
  BY DEF OneEmailAWindow
<1>5. QED BY <1>1, <1>2, <1>3, <1>4

LEMMA HeartbeatInv == ASSUME AlarmsInv, NEW h \in Beat, Heartbeat(h) PROVE AlarmsInv'
<1> USE AlarmsAssumption DEF AlarmsInv, Heartbeat
<1>1. PICK unread \in SUBSET Judged :
        /\ unread # {} => wrong < Faults
        /\ report' = [report EXCEPT ![h] = [s \in Signal |-> IF s \in Judged /\ (Stale(s) \/ s \in unread) THEN "counted" ELSE "none"]]
        /\ wrong' = IF unread # {} THEN wrong + 1 ELSE wrong
  BY Zenon
<1>2. AlarmsTyped'
  <2>1. report' \in [Beat -> [Signal -> ReportPC]]
    BY <1>1 DEF AlarmsTyped, ReportPC
  <2>2. wrong' \in 0..Faults
    BY <1>1 DEF AlarmsTyped
  <2>3. QED BY <2>1, <2>2 DEF AlarmsTyped
<1>3. \A s \in Signal, g \in Beat : Holds(g, s)' => Holds(g, s)
  BY <1>1 DEF AlarmsTyped, Holds
<1>4. (Remembered /\ Held /\ OneEmailAWindow)'
  BY <1>3 DEF Remembered, Held, OneEmailAWindow
<1>5. QED BY <1>2, <1>4

-----------------------------------------------------------------------------
(* The steps of a report.                                                   *)

\* A report goes to one place and the others stay where they are.
LEMMA AtMoves ==
  ASSUME AlarmsTyped, NEW h \in Beat, NEW s \in Signal, NEW pc \in ReportPC, At(h, s, pc)
  PROVE  /\ report' \in [Beat -> [Signal -> ReportPC]]
         /\ Holds(h, s)' <=> pc = "claimed"
         /\ \A g \in Beat, t \in Signal : (g # h \/ t # s) => (Holds(g, t)' <=> Holds(g, t))
BY DEF AlarmsTyped, At, Holds

LEMMA ClaimInv == ASSUME AlarmsInv, NEW h \in Beat, NEW s \in Signal, Claim(h, s) PROVE AlarmsInv'
<1> USE AlarmsAssumption DEF AlarmsInv, Claim
<1>1. CASE notify /\ claimed[s] = Quiet
  <2>1. At(h, s, "claimed") /\ claimed' = [claimed EXCEPT ![s] = 0]
    BY <1>1
  <2>2. /\ report' \in [Beat -> [Signal -> ReportPC]]
        /\ Holds(h, s)'
        /\ \A g \in Beat, t \in Signal : (g # h \/ t # s) => (Holds(g, t)' <=> Holds(g, t))
    BY <2>1, AtMoves DEF ReportPC
  <2>3. AlarmsTyped'
    BY <2>1, <2>2 DEF AlarmsTyped
  <2>4. \A g \in Beat : ~Holds(g, s)
    BY <1>1 DEF Held
  <2>5. told[s] = Quiet
    BY <1>1 DEF AlarmsTyped, Remembered
  <2>6. Remembered'
    BY <2>1, <2>5 DEF Remembered, AlarmsTyped
  <2>7. Held'
    <3> SUFFICES ASSUME NEW t \in Signal, NEW g \in Beat, Holds(g, t)'
                 PROVE  /\ claimed'[t] = 0 /\ told'[t] = Quiet
                        /\ \A k \in Beat : Holds(k, t)' => k = g
      BY DEF Held
    <3>1. CASE t = s
      BY <3>1, <2>1, <2>2, <2>4, <2>5 DEF AlarmsTyped
    <3>2. CASE t # s
      BY <3>2, <2>1, <2>2 DEF Held, AlarmsTyped
    <3>3. QED BY <3>1, <3>2
  <2>8. QED BY <2>3, <2>6, <2>7 DEF OneEmailAWindow
<1>2. CASE ~(notify /\ claimed[s] = Quiet)
  <2>1. At(h, s, "none") /\ claimed' = claimed /\ told' = told
    BY <1>2
  <2>2. /\ report' \in [Beat -> [Signal -> ReportPC]]
        /\ \A g \in Beat, t \in Signal : Holds(g, t)' => Holds(g, t)
    BY <2>1, AtMoves DEF ReportPC
  <2>3. AlarmsTyped'
    BY <2>1, <2>2 DEF AlarmsTyped
  <2>4. (Remembered /\ Held /\ OneEmailAWindow)'
    BY <2>1, <2>2 DEF Remembered, Held, OneEmailAWindow
  <2>5. QED BY <2>3, <2>4
<1>3. QED BY <1>1, <1>2

LEMMA SentInv == ASSUME AlarmsInv, NEW h \in Beat, NEW s \in Signal, Sent(h, s) PROVE AlarmsInv'
<1> USE AlarmsAssumption DEF AlarmsInv, Sent, Emailed
<1>1. Holds(h, s) /\ claimed[s] = 0 /\ told[s] = Quiet /\ \A g \in Beat : Holds(g, s) => g = h
  BY DEF Holds, Held
<1>2. /\ report' \in [Beat -> [Signal -> ReportPC]]
      /\ ~Holds(h, s)'
      /\ \A g \in Beat, t \in Signal : (g # h \/ t # s) => (Holds(g, t)' <=> Holds(g, t))
  BY AtMoves DEF ReportPC
<1>3. repeated' = repeated
  BY <1>1
<1>4. AlarmsTyped'
  BY <1>2, <1>3 DEF AlarmsTyped
<1>5. Remembered'
  BY <1>1 DEF Remembered, AlarmsTyped
<1>6. Held'
  BY <1>1, <1>2 DEF Held, AlarmsTyped
<1>7. QED BY <1>3, <1>4, <1>5, <1>6 DEF OneEmailAWindow

LEMMA NotSentInv == ASSUME AlarmsInv, NEW h \in Beat, NEW s \in Signal, NotSent(h, s) PROVE AlarmsInv'
<1> USE AlarmsAssumption DEF AlarmsInv, NotSent, Emailed
<1>1. Holds(h, s) /\ claimed[s] = 0 /\ told[s] = Quiet /\ \A g \in Beat : Holds(g, s) => g = h
  BY DEF Holds, Held
<1>2. /\ report' \in [Beat -> [Signal -> ReportPC]]
      /\ ~Holds(h, s)'
      /\ \A g \in Beat, t \in Signal : (g # h \/ t # s) => (Holds(g, t)' <=> Holds(g, t))
  BY AtMoves DEF ReportPC
<1>3. repeated' = repeated /\ heard' \subseteq heard \cup {s}
  BY <1>1
<1>4. AlarmsTyped'
  BY <1>2, <1>3 DEF AlarmsTyped
<1>5. Remembered'
  BY <1>1 DEF Remembered, AlarmsTyped
<1>6. Held'
  BY <1>1, <1>2 DEF Held, AlarmsTyped
<1>7. QED BY <1>3, <1>4, <1>5, <1>6 DEF OneEmailAWindow

LEMMA DroppedInv == ASSUME AlarmsInv, NEW h \in Beat, NEW s \in Signal, Dropped(h, s) PROVE AlarmsInv'
<1> USE AlarmsAssumption DEF AlarmsInv, Dropped
<1>1. /\ report' \in [Beat -> [Signal -> ReportPC]]
      /\ \A g \in Beat, t \in Signal : Holds(g, t)' => Holds(g, t)
  BY AtMoves DEF ReportPC
<1>2. AlarmsTyped'
  BY <1>1 DEF AlarmsTyped
<1>3. (Remembered /\ Held /\ OneEmailAWindow)'
  BY <1>1 DEF Remembered, Held, OneEmailAWindow
<1>4. QED BY <1>2, <1>3

-----------------------------------------------------------------------------
LEMMA AlarmsStep == AlarmsInv /\ [AlarmsNext]_alarmsVars => AlarmsInv'
<1> SUFFICES ASSUME AlarmsInv, [AlarmsNext]_alarmsVars PROVE AlarmsInv'
  OBVIOUS
<1>1. CASE UNCHANGED alarmsVars
  BY <1>1 DEF alarmsVars, AlarmsInv, AlarmsTyped, Remembered, Held, Holds, OneEmailAWindow
<1>2. CASE Period
  BY <1>2, PeriodInv
<1>3. CASE PauseOrNot
  BY <1>3, PauseInv
<1>4. ASSUME NEW s \in Signal, StopRun(s) \/ Mend(s) PROVE AlarmsInv'
  BY <1>4, StopRunInv
<1>5. ASSUME NEW h \in Beat, Heartbeat(h) PROVE AlarmsInv'
  BY <1>5, HeartbeatInv
<1>6. ASSUME NEW h \in Beat, NEW s \in Signal, Claim(h, s) \/ Sent(h, s) \/ NotSent(h, s) \/ Dropped(h, s)
      PROVE  AlarmsInv'
  BY <1>6, ClaimInv, SentInv, NotSentInv, DroppedInv
<1>7. QED
  BY <1>1, <1>2, <1>3, <1>4, <1>5, <1>6 DEF AlarmsNext

LEMMA AlarmsAlways == AlarmsSpec => []AlarmsInv
BY AlarmsStart, AlarmsStep, PTL DEF AlarmsSpec

-----------------------------------------------------------------------------
(* The theorems.                                                            *)

\* The marks, the row of each signal and the reports keep their types, and what
\* goes wrong stays within its bound.
THEOREM AlarmsTypeCorrect == AlarmsSpec => []AlarmsTypeOK
<1>1. AlarmsInv => AlarmsTypeOK
  <2> SUFFICES ASSUME AlarmsInv PROVE AlarmsTypeOK
    OBVIOUS
  <2>1. \A s \in Signal : age[s] \in 0..Limit[s] + 1
    BY AlarmsAssumption DEF AlarmsInv, AlarmsTyped
  <2>2. QED BY <2>1 DEF AlarmsInv, AlarmsTyped, AlarmsTypeOK
<1>2. QED BY AlarmsAlways, <1>1, PTL

\* claimEmail and its give-back: heartbeats that overlap, claims that are put back
\* and reports that are dropped make no second email about a signal within the
\* window of one the receiver said it had sent, however many there are of each.
THEOREM EmailedOnce == AlarmsSpec => []OneEmailAWindow
<1>1. AlarmsInv => OneEmailAWindow
  BY DEF AlarmsInv
<1>2. QED BY AlarmsAlways, <1>1, PTL

-----------------------------------------------------------------------------
(* Links. *)

LEMMA MinIsLeast ==
  ASSUME NEW S, S \subseteq Nat, S # {}
  PROVE  Min(S) \in S /\ \A y \in S : Min(S) <= y
BY LeastNumber DEF Min

Or0 == Order \cup {0}
Known == {o \in Order : o <= made}   \* OnSinch has numbered them
LinkState == {"none", "linked", "relinked", "held", "gone", "replaced"}
LinkRow == [state : LinkState, proof : BOOLEAN, job : Or0]
SyncState == [pc : {"idle", "bot", "ticket", "record", "sweep", "clear", "write", "grade"},
              todo : SUBSET (Order \X (Or0 \cup {"prove", "replace"})), on : Or0, found : Or0, job : Or0, fresh : BOOLEAN]
FinderState == [pc : {"idle", "delete", "read", "record"}, order : Or0, job : Or0]

LinksTyped ==
  /\ made \in Nat /\ live \subseteq Order /\ holder \in [Order -> Or0]
  /\ mirror \in [live : SUBSET Order, holder : [Order -> Or0]]
  /\ said \in Seq([kind : {"R", "J", "PO"}, of : Order])
  /\ bot \subseteq Order /\ graded \in BOOLEAN
  /\ link \in [Order -> LinkRow] /\ sync \in [LinkSync -> SyncState] /\ finder \in [Finder -> FinderState]

\* What a sync holds of the thread's rows: those on its list, and the one it is about to write.
SyncPart(s) ==
  /\ sync[s].pc \in {"bot", "ticket"} => sync[s].on \in Known
  /\ sync[s].pc = "record" => sync[s].on \in Known /\ sync[s].found \in Known \cup {0}
  /\ sync[s].pc = "sweep" => sync[s].todo \subseteq Known \X Or0
  /\ sync[s].pc = "grade" => sync[s].todo \subseteq Known \X {"prove", "replace"}
  /\ sync[s].pc \in {"clear", "write"} => /\ sync[s].on \in Known /\ sync[s].found \in Known \cup {0}
                                          /\ sync[s].todo \subseteq Known \X Or0
  /\ sync[s].pc = "clear" => sync[s].found # 0

\* All that is linked, or is about to be, is an order that was made.
LinksKnown ==
  /\ live \subseteq Known /\ mirror.live \subseteq Known /\ bot \subseteq Known
  /\ \A j \in Order : holder[j] \in live \cup {0}
  /\ \A o \in Order : link[o].state = "none" => link[o] = NoLink
  /\ \A o \in Order : link[o].state # "none" => o \in Known
  /\ \A f \in Finder : finder[f].pc # "idle" => finder[f].order \in Known
  /\ \A s \in LinkSync : SyncPart(s)

LinksInv == LinksTyped /\ LinksKnown

-----------------------------------------------------------------------------
LEMMA OrdersAre == Order \subseteq Nat \ {0} /\ Made \in Nat /\ Ticket \in Or0 /\ Or0 \subseteq Nat
BY LinksAssumption DEF Or0

LEMMA JobInIs == ASSUME NEW where \in [Order -> Or0], NEW o PROVE JobIn(where, o) \in Or0
<1> DEFINE js == {j \in Order : where[j] = o}
<1>1. js # {} => Min(js) \in js
  BY OrdersAre, MinIsLeast
<1>2. JobIn(where, o) = IF js # {} THEN Min(js) ELSE 0
  BY DEF JobIn
<1> HIDE DEF js
<1>3. js \subseteq Order
  BY DEF js
<1>4. QED BY <1>1, <1>2, <1>3 DEF Or0

LEMMA JobReadIs == ASSUME LinksInv, NEW o PROVE JobRead(o) \in Or0
BY JobInIs DEF JobRead, LinksInv, LinksTyped, Or0

LEMMA RecordedIs ==
  ASSUME LinksInv, NEW o \in Order, NEW job \in Or0
  PROVE  Recorded(o, job) \in LinkRow /\ Recorded(o, job).state = "linked"
<1>1. link[o] \in LinkRow
  BY DEF LinksInv, LinksTyped
<1>2. QED BY <1>1 DEF Recorded, LinkRow, LinkState

LEMMA LinksStart == LinksInit => LinksInv
<1> SUFFICES ASSUME LinksInit PROVE LinksInv
  OBVIOUS
<1> USE OrdersAre DEF LinksInit
<1>1. live \subseteq Order /\ holder \in [Order -> Or0] /\ \A j \in Order : holder[j] \in live \cup {0}
  BY DEF Or0
<1>2. SyncIdle \in SyncState /\ FinderIdle \in FinderState /\ NoLink \in LinkRow
  BY DEF SyncIdle, SyncState, FinderIdle, FinderState, NoLink, LinkRow, LinkState, Or0
<1>3. LinksTyped
  <2>1. mirror \in [live : SUBSET Order, holder : [Order -> Or0]] /\ said \in Seq([kind : {"R", "J", "PO"}, of : Order])
    BY <1>1
  <2>2. link \in [Order -> LinkRow] /\ sync \in [LinkSync -> SyncState] /\ finder \in [Finder -> FinderState]
    BY <1>2
  <2>3. made \in Nat /\ bot \subseteq Order /\ graded \in BOOLEAN
    OBVIOUS
  <2>4. QED BY <1>1, <2>1, <2>2, <2>3 DEF LinksTyped
<1>4. live \subseteq Known /\ mirror.live \subseteq Known /\ bot \subseteq Known
  BY DEF Known
<1>5. LinksKnown
  BY <1>1, <1>4 DEF LinksKnown, SyncPart, SyncIdle, FinderIdle, NoLink
<1>6. QED BY <1>3, <1>5 DEF LinksInv

\* Steps that leave the rows and the syncs' and planners' places alone.
LEMMA OnSinchMoves ==
  ASSUME LinksInv, UNCHANGED <<bot, link, finder>>, made' \in Nat, made <= made',
         live' \subseteq Order, live' \subseteq Known', holder' \in [Order -> Or0], \A j \in Order : holder'[j] \in live' \cup {0},
         mirror' \in [live : SUBSET Order, holder : [Order -> Or0]], mirror'.live \subseteq Known',
         said' \in Seq([kind : {"R", "J", "PO"}, of : Order]), graded' \in BOOLEAN,
         sync' \in [LinkSync -> SyncState],
         \A s \in LinkSync : sync'[s] = [sync[s] EXCEPT !.fresh = sync'[s].fresh]
  PROVE  LinksInv'
<1>1. Known \subseteq Known'
  BY OrdersAre DEF Known, LinksInv, LinksTyped
<1>2. LinksTyped'
  BY DEF LinksInv, LinksTyped, LinkRow, Or0
<1>3. \A s \in LinkSync : SyncPart(s)'
  <2> SUFFICES ASSUME NEW s \in LinkSync PROVE SyncPart(s)'
    OBVIOUS
  <2>1. sync[s] \in SyncState
    BY DEF LinksInv, LinksTyped
  <2>2. sync'[s].pc = sync[s].pc /\ sync'[s].todo = sync[s].todo /\ sync'[s].on = sync[s].on /\ sync'[s].found = sync[s].found
    BY <2>1 DEF SyncState
  <2>3. SyncPart(s)
    BY DEF LinksInv, LinksKnown
  <2>4. QED BY <1>1, <2>2, <2>3 DEF SyncPart, Or0
<1>4. LinksKnown'
  BY <1>1, <1>3 DEF LinksInv, LinksKnown, NoLink
<1>5. QED BY <1>2, <1>4 DEF LinksInv

LEMMA RestampIs ==
  ASSUME LinksInv, Restamp
  PROVE  /\ graded' \in BOOLEAN /\ sync' \in [LinkSync -> SyncState]
         /\ \A s \in LinkSync : sync'[s] = [sync[s] EXCEPT !.fresh = sync'[s].fresh]
<1>1. \A s \in LinkSync : sync[s] \in SyncState
  BY DEF LinksInv, LinksTyped
<1>2. QED BY <1>1 DEF Restamp, SyncState

LEMMA SyncsStay ==
  ASSUME LinksInv, sync' = sync
  PROVE  sync' \in [LinkSync -> SyncState] /\ \A s \in LinkSync : sync'[s] = [sync[s] EXCEPT !.fresh = sync'[s].fresh]
<1>1. \A s \in LinkSync : sync[s] \in SyncState
  BY DEF LinksInv, LinksTyped
<1>2. QED BY <1>1 DEF SyncState, LinksInv, LinksTyped

LEMMA MakeOrderInv == ASSUME LinksInv, MakeOrder PROVE LinksInv'
<1> USE OrdersAre DEF MakeOrder, onsinchVars
<1>1. LinksTyped /\ LinksKnown /\ made' = made + 1 /\ made + 1 \in Order
  BY DEF LinksInv
<1>2. live' \subseteq Order /\ live' \subseteq Known' /\ mirror'.live \subseteq Known'
  <2>1. Known \subseteq Known' /\ made + 1 \in Known'
    <3>1. made \in Nat /\ made' = made + 1 /\ made + 1 \in Order
      BY <1>1 DEF LinksTyped
    <3>2. \A o \in Order : o \in Nat
      OBVIOUS
    <3>3. \A o \in Order : o <= made => o <= made'
      BY <3>1, <3>2
    <3>4. made + 1 <= made'
      BY <3>1
    <3>5. QED BY <3>1, <3>3, <3>4 DEF Known
  <2>2. live \subseteq Known /\ mirror.live \subseteq Known /\ live' = live \cup {made + 1} /\ mirror' = mirror
    BY <1>1 DEF LinksKnown
  <2>3. live' \subseteq Known' /\ mirror'.live \subseteq Known'
    BY <2>1, <2>2
  <2>4. QED BY <2>3 DEF Known
<1>3. holder' \in [Order -> Or0] /\ \A j \in Order : holder'[j] \in live' \cup {0}
  BY <1>1 DEF LinksTyped, LinksKnown, Or0
<1>4. mirror' \in [live : SUBSET Order, holder : [Order -> Or0]] /\ said' \in Seq([kind : {"R", "J", "PO"}, of : Order]) /\ graded' \in BOOLEAN
  BY <1>1 DEF LinksTyped
<1>5. made' \in Nat /\ made <= made' /\ UNCHANGED <<bot, link, finder>> /\ sync' = sync
  BY <1>1 DEF LinksTyped
<1>6. QED BY <1>2, <1>3, <1>4, <1>5, OnSinchMoves, SyncsStay

LEMMA DeleteOrderInv == ASSUME LinksInv, NEW o \in Order, DeleteOrder(o) PROVE LinksInv'
<1> USE OrdersAre DEF DeleteOrder, onsinchVars
<1>1. LinksTyped /\ LinksKnown
  BY DEF LinksInv
<1>2. live' \subseteq Order /\ live' \subseteq Known' /\ mirror'.live \subseteq Known'
  BY <1>1 DEF LinksTyped, LinksKnown, Known
<1>3. holder' \in [Order -> Or0] /\ \A j \in Order : holder'[j] \in live' \cup {0}
  BY <1>1 DEF LinksTyped, LinksKnown, Or0
<1>4. mirror' \in [live : SUBSET Order, holder : [Order -> Or0]] /\ said' \in Seq([kind : {"R", "J", "PO"}, of : Order]) /\ graded' \in BOOLEAN
  BY <1>1 DEF LinksTyped
<1>5. made' \in Nat /\ made <= made' /\ UNCHANGED <<bot, link, finder>> /\ sync' = sync
  BY <1>1 DEF LinksTyped
<1>6. QED BY <1>2, <1>3, <1>4, <1>5, OnSinchMoves, SyncsStay

LEMMA MoveJobInv == ASSUME LinksInv, NEW o \in Order, NEW j \in Order, MoveJob(j, o) PROVE LinksInv'
<1> USE OrdersAre DEF MoveJob, onsinchVars
<1>1. LinksTyped /\ LinksKnown
  BY DEF LinksInv
<1>2. live' \subseteq Order /\ live' \subseteq Known' /\ mirror'.live \subseteq Known'
  BY <1>1 DEF LinksTyped, LinksKnown, Known
<1>3. holder' \in [Order -> Or0] /\ \A k \in Order : holder'[k] \in live' \cup {0}
  BY <1>1 DEF LinksTyped, LinksKnown, Or0
<1>4. mirror' \in [live : SUBSET Order, holder : [Order -> Or0]] /\ said' \in Seq([kind : {"R", "J", "PO"}, of : Order]) /\ graded' \in BOOLEAN
  BY <1>1 DEF LinksTyped
<1>5. made' \in Nat /\ made <= made' /\ UNCHANGED <<bot, link, finder>> /\ sync' = sync
  BY <1>1 DEF LinksTyped
<1>6. QED BY <1>2, <1>3, <1>4, <1>5, OnSinchMoves, SyncsStay

LEMMA SayInv == ASSUME LinksInv, NEW o \in Order, NEW kind \in {"R", "J", "PO"}, Say(kind, o) PROVE LinksInv'
<1> USE OrdersAre DEF Say, onsinchVars
<1>1. LinksTyped /\ LinksKnown
  BY DEF LinksInv
<1>2. live' \subseteq Order /\ live' \subseteq Known' /\ mirror'.live \subseteq Known'
  BY <1>1 DEF LinksTyped, LinksKnown, Known
<1>3. holder' \in [Order -> Or0] /\ \A k \in Order : holder'[k] \in live' \cup {0}
  BY <1>1 DEF LinksTyped, LinksKnown, Or0
<1>4. mirror' \in [live : SUBSET Order, holder : [Order -> Or0]] /\ said' \in Seq([kind : {"R", "J", "PO"}, of : Order])
  BY <1>1 DEF LinksTyped
<1>5. made' \in Nat /\ made <= made' /\ UNCHANGED <<bot, link, finder>> /\ Restamp
  BY <1>1 DEF LinksTyped
<1>6. QED BY <1>2, <1>3, <1>4, <1>5, OnSinchMoves, RestampIs

LEMMA ReadOrdersInv == ASSUME LinksInv, ReadOrders PROVE LinksInv'
<1> USE OrdersAre DEF ReadOrders, onsinchVars
<1>1. LinksTyped /\ LinksKnown
  BY DEF LinksInv
<1>2. live' \subseteq Order /\ live' \subseteq Known' /\ mirror'.live \subseteq Known'
  BY <1>1 DEF LinksTyped, LinksKnown, Known
<1>3. holder' \in [Order -> Or0] /\ \A k \in Order : holder'[k] \in live' \cup {0}
  BY <1>1 DEF LinksTyped, LinksKnown, Or0
<1>4. mirror' \in [live : SUBSET Order, holder : [Order -> Or0]] /\ said' \in Seq([kind : {"R", "J", "PO"}, of : Order])
  BY <1>1 DEF LinksTyped
<1>5. made' \in Nat /\ made <= made' /\ UNCHANGED <<bot, link, finder>> /\ Restamp
  BY <1>1 DEF LinksTyped
<1>6. QED BY <1>2, <1>3, <1>4, <1>5, OnSinchMoves, RestampIs

-----------------------------------------------------------------------------
\* Steps that write a row, or move a sync or a planner, and leave OnSinch and its copy alone.
RowsOK(l) ==
  /\ l \in [Order -> LinkRow] /\ \A o \in Order : l[o].state = "none" => l[o] = NoLink
  /\ \A o \in Order : l[o].state # "none" => o \in Known

LEMMA RowsMove ==
  ASSUME LinksInv, UNCHANGED <<made, live, holder, mirror, said>>, bot' \subseteq Known, graded' \in BOOLEAN, RowsOK(link'),
         sync' \in [LinkSync -> SyncState], \A s \in LinkSync : SyncPart(s)',
         finder' \in [Finder -> FinderState], \A f \in Finder : finder'[f].pc # "idle" => finder'[f].order \in Known
  PROVE  LinksInv'
<1>1. LinksTyped'
  BY DEF LinksInv, LinksTyped, RowsOK, Known, Or0, LinkRow, FinderState, SyncState
<1>2. LinksKnown'
  BY DEF LinksInv, LinksKnown, RowsOK, Known, NoLink
<1>3. QED BY <1>1, <1>2 DEF LinksInv

LEMMA RowsNow == ASSUME LinksInv PROVE RowsOK(link) /\ \A o \in Order : link[o] \in LinkRow
BY DEF LinksInv, LinksTyped, LinksKnown, RowsOK

LEMMA OneRow == ASSUME LinksInv, NEW l, RowsOK(l), NEW o \in Known, NEW row \in LinkRow, row.state = "none" => row = NoLink
                PROVE  RowsOK([l EXCEPT ![o] = row])
BY DEF RowsOK, Known

LEMMA NoRow == NoLink \in LinkRow /\ NoLink.state = "none" /\ NoLink.job = 0 /\ NoLink.proof = FALSE
BY DEF NoLink, LinkRow, LinkState, Or0

\* One sync moves.
LEMMA SyncMoves ==
  ASSUME LinksInv, UNCHANGED <<made, live, holder, mirror, said, bot, finder>>, graded' \in BOOLEAN, RowsOK(link'),
         NEW s \in LinkSync, NEW l \in SyncState, sync' = [sync EXCEPT ![s] = l],
         l.pc \in {"bot", "ticket"} => l.on \in Known,
         l.pc = "record" => l.on \in Known /\ l.found \in Known \cup {0},
         l.pc = "sweep" => l.todo \subseteq Known \X Or0,
         l.pc = "grade" => l.todo \subseteq Known \X {"prove", "replace"},
         l.pc \in {"clear", "write"} => l.on \in Known /\ l.found \in Known \cup {0} /\ l.todo \subseteq Known \X Or0,
         l.pc = "clear" => l.found # 0
  PROVE  LinksInv'
<1>1. sync' \in [LinkSync -> SyncState]
  BY DEF LinksInv, LinksTyped
<1>2. \A t \in LinkSync : SyncPart(t)'
  <2> SUFFICES ASSUME NEW t \in LinkSync PROVE SyncPart(t)'
    OBVIOUS
  <2>1. SyncPart(t) /\ sync'[t] = IF t = s THEN l ELSE sync[t]
    BY DEF LinksInv, LinksTyped, LinksKnown
  <2>2. QED BY <2>1 DEF SyncPart, Known, Or0
<1>3. QED BY <1>1, <1>2, RowsMove DEF LinksInv, LinksTyped, LinksKnown

LEMMA BotWriteInv == ASSUME LinksInv, NEW f \in Finder, NEW o \in Order, BotWrite(f, o) PROVE LinksInv'
<1> USE DEF BotWrite, onsinchVars
<1>1. o \in Known /\ o \in Order
  BY DEF LinksInv, LinksKnown
<1>2. sync' \in [LinkSync -> SyncState] /\ graded' \in BOOLEAN
      /\ \A s \in LinkSync : sync'[s] = [sync[s] EXCEPT !.fresh = sync'[s].fresh]
  <2>1. CASE Restamp
    BY <2>1, RestampIs
  <2>2. CASE UNCHANGED <<graded, sync>>
    BY <2>2, SyncsStay DEF LinksInv, LinksTyped
  <2>3. QED BY <2>1, <2>2
<1>3. \A s \in LinkSync : SyncPart(s)'
  <2> SUFFICES ASSUME NEW s \in LinkSync PROVE SyncPart(s)'
    OBVIOUS
  <2>1. sync[s] \in SyncState /\ SyncPart(s) /\ sync'[s] = [sync[s] EXCEPT !.fresh = sync'[s].fresh]
    BY <1>2 DEF LinksInv, LinksTyped, LinksKnown
  <2>2. sync'[s].pc = sync[s].pc /\ sync'[s].todo = sync[s].todo /\ sync'[s].on = sync[s].on /\ sync'[s].found = sync[s].found
    BY <2>1 DEF SyncState
  <2>3. QED BY <2>1, <2>2 DEF SyncPart, Known, Or0
<1>4. finder' \in [Finder -> FinderState] /\ \A g \in Finder : finder'[g].pc # "idle" => finder'[g].order \in Known
  <2>1. finder' = [finder EXCEPT ![f] = [FinderIdle EXCEPT !.pc = "read", !.order = o]]
    OBVIOUS
  <2>2. [FinderIdle EXCEPT !.pc = "read", !.order = o] \in FinderState /\ [FinderIdle EXCEPT !.pc = "read", !.order = o].order = o
    BY <1>1 DEF FinderIdle, FinderState, Or0
  <2>3. QED BY <1>1, <2>1, <2>2 DEF LinksInv, LinksTyped, LinksKnown
<1>5. bot' \subseteq Known /\ RowsOK(link')
  BY <1>1, RowsNow DEF LinksInv, LinksKnown
<1>6. UNCHANGED <<made, live, holder, mirror, said>>
  OBVIOUS
<1>7. QED BY <1>2, <1>3, <1>4, <1>5, <1>6, RowsMove

LEMMA FindInv == ASSUME LinksInv, NEW f \in Finder, NEW o \in Order, Find(f, o) PROVE LinksInv'
<1> USE DEF Find, onsinchVars
<1>1. o \in Known /\ o \in Order
  BY DEF LinksInv, LinksKnown
<1>2. finder' \in [Finder -> FinderState] /\ \A g \in Finder : finder'[g].pc # "idle" => finder'[g].order \in Known
  <2>1. [FinderIdle EXCEPT !.pc = "delete", !.order = o] \in FinderState /\ [FinderIdle EXCEPT !.pc = "delete", !.order = o].order = o
    BY <1>1 DEF FinderIdle, FinderState, Or0
  <2>2. QED BY <1>1, <2>1 DEF LinksInv, LinksTyped, LinksKnown
<1>3. \A s \in LinkSync : SyncPart(s)'
  BY DEF LinksInv, LinksKnown, SyncPart, Known, Or0
<1>4. RowsOK(link') /\ bot' \subseteq Known /\ graded' \in BOOLEAN /\ sync' \in [LinkSync -> SyncState]
  BY RowsNow DEF LinksInv, LinksTyped, LinksKnown
<1>5. QED BY <1>2, <1>3, <1>4, RowsMove

LEMMA FinderStepInv == ASSUME LinksInv, NEW f \in Finder, FinderStep(f) PROVE LinksInv'
<1> USE DEF onsinchVars
<1>0. FoundDelete(f) \/ FoundRead(f) \/ FoundRecord(f)
  BY DEF FinderStep
<1>1. UNCHANGED <<made, live, holder, mirror, said, bot, graded, sync>>
  BY <1>0 DEF FoundDelete, FoundRead, FoundRecord
<1>2. finder[f] \in FinderState /\ (finder[f].pc # "idle" => finder[f].order \in Known)
  BY DEF LinksInv, LinksTyped, LinksKnown
<1>3. finder' \in [Finder -> FinderState] /\ \A g \in Finder : finder'[g].pc # "idle" => finder'[g].order \in Known
  <2>1. \A g \in Finder : finder[g] \in FinderState /\ (finder[g].pc # "idle" => finder[g].order \in Known)
    BY DEF LinksInv, LinksTyped, LinksKnown
  <2> DEFINE l == IF finder[f].pc = "delete" THEN [finder[f] EXCEPT !.pc = "read"]
                  ELSE IF finder[f].pc = "read" THEN [finder[f] EXCEPT !.pc = "record", !.job = JobRead(finder[f].order)]
                  ELSE FinderIdle
  <2>2. finder' = [finder EXCEPT ![f] = l]
    BY <1>0 DEF FoundDelete, FoundRead, FoundRecord
  <2>3. l \in FinderState /\ (l.pc # "idle" => l.order \in Known)
    <3>1. CASE finder[f].pc = "delete"
      BY <1>2, <3>1 DEF FinderState
    <3>2. CASE finder[f].pc = "read"
      <4>1. JobRead(finder[f].order) \in Or0
        BY JobReadIs
      <4>2. QED BY <1>2, <3>2, <4>1 DEF FinderState
    <3>3. CASE finder[f].pc \notin {"delete", "read"}
      BY <3>3 DEF FinderState, FinderIdle, Or0
    <3>4. QED BY <3>1, <3>2, <3>3
  <2> HIDE DEF l
  <2>4. finder \in [Finder -> FinderState]
    BY DEF LinksInv, LinksTyped
  <2>5. QED BY <2>1, <2>2, <2>3, <2>4
<1>4. \A s \in LinkSync : SyncPart(s)'
  BY <1>1 DEF LinksInv, LinksKnown, SyncPart, Known, Or0
<1>5. RowsOK(link')
  <2>1. CASE FoundDelete(f)
    BY <2>1, RowsNow, NoRow DEF FoundDelete, RowsOK
  <2>2. CASE FoundRead(f)
    BY <2>2, RowsNow DEF FoundRead
  <2>3. CASE FoundRecord(f)
    <3>1. finder[f].order \in Known /\ finder[f].order \in Order /\ finder[f].job \in Or0
      BY <1>2, <2>3 DEF FoundRecord, Known, FinderState
    <3>2. QED BY <2>3, <3>1, RecordedIs, OneRow, RowsNow DEF FoundRecord
  <2>4. QED BY <1>0, <2>1, <2>2, <2>3
<1>6. bot' \subseteq Known /\ graded' \in BOOLEAN /\ sync' \in [LinkSync -> SyncState]
  BY <1>1 DEF LinksInv, LinksTyped, LinksKnown
<1>7. QED BY <1>1, <1>3, <1>4, <1>5, <1>6, RowsMove

-----------------------------------------------------------------------------
LEMMA WhereNowIs == ASSUME LinksInv, NEW o \in Order, NEW job \in Or0 PROVE WhereNow(o, job) \in Known \cup {0}
<1> DEFINE byNumber == {p[2] : p \in {q \in SameNumber : q[1] = o /\ q[2] \in live}}
           rebuilds == {p[2] : p \in {q \in Rebuilt : q[1] = o /\ q[2] \in live}}
<1>1. live \subseteq Known /\ live \subseteq Nat
  BY OrdersAre DEF LinksInv, LinksTyped, LinksKnown
<1>2. byNumber \subseteq live /\ rebuilds \subseteq live
  OBVIOUS
<1>3. byNumber # {} => Min(byNumber) \in live
  BY <1>1, <1>2, MinIsLeast
<1>4. Cardinality(rebuilds) = 1 /\ rebuilds # {} => Min(rebuilds) \in live
  BY <1>1, <1>2, MinIsLeast
<1>5. job # 0 /\ holder[job] # 0 => holder[job] \in live
  BY DEF LinksInv, LinksKnown, Or0
<1>6. WhereNow(o, job) = IF job # 0 /\ holder[job] # 0 THEN holder[job]
                         ELSE IF o \in live THEN o
                         ELSE IF byNumber # {} THEN Min(byNumber)
                         ELSE IF Cardinality(rebuilds) = 1 THEN Min(rebuilds) ELSE 0
  BY DEF WhereNow
<1>7. Cardinality(rebuilds) = 1 => rebuilds # {}
  BY FS_EmptySet
<1> HIDE DEF byNumber, rebuilds
<1>8. QED BY <1>1, <1>3, <1>4, <1>5, <1>6, <1>7

LEMMA SyncNow == ASSUME LinksInv, NEW s \in LinkSync PROVE sync[s] \in SyncState /\ SyncPart(s)
BY DEF LinksInv, LinksTyped, LinksKnown

LEMMA KnownTasks == Known \X Or0 \subseteq Order \X (Or0 \cup {"prove", "replace"}) /\ Known \X {"prove", "replace"} \subseteq Order \X (Or0 \cup {"prove", "replace"})
BY DEF Known

LEMMA BackfillInv == ASSUME LinksInv, NEW s \in LinkSync, Backfill(s) PROVE LinksInv'
<1> USE DEF onsinchVars
<1>1. PICK x \in [pc : {"bot"}, on : bot] \cup [pc : {"ticket"}, on : {Ticket} \cap {o \in Order : o <= made}] :
        sync' = [sync EXCEPT ![s] = [SyncIdle EXCEPT !.pc = x.pc, !.on = x.on]]
  BY DEF Backfill
<1>2. x.pc \in {"bot", "ticket"} /\ x.on \in Known /\ x.on \in Order
  BY DEF LinksInv, LinksKnown, Known
<1> DEFINE l == [SyncIdle EXCEPT !.pc = x.pc, !.on = x.on]
<1>3. sync' = [sync EXCEPT ![s] = l] /\ UNCHANGED <<made, live, holder, mirror, said, bot, link, graded, finder>>
  BY <1>1 DEF Backfill
<1>4. l \in SyncState /\ l.pc \in {"bot", "ticket"} /\ l.on \in Known
  BY <1>2 DEF SyncIdle, SyncState, Or0
<1> HIDE DEF l
<1>5. RowsOK(link') /\ graded' \in BOOLEAN
  BY <1>3, RowsNow DEF LinksInv, LinksTyped
<1>6. QED BY <1>3, <1>4, <1>5, SyncMoves

LEMMA BackfillReadInv == ASSUME LinksInv, NEW s \in LinkSync, BackfillRead(s) PROVE LinksInv'
<1> USE DEF onsinchVars
<1> DEFINE o == IF sync[s].pc = "bot" THEN sync[s].on ELSE holder[sync[s].on]
           job == IF o = 0 THEN 0 ELSE JobRead(o)
           l == [sync[s] EXCEPT !.pc = "record", !.found = o, !.job = job]
<1>1. sync[s] \in SyncState /\ sync[s].on \in Known /\ sync[s].on \in Order
  BY SyncNow DEF SyncPart, BackfillRead, Known
<1>2. o \in Known \cup {0}
  BY <1>1 DEF LinksInv, LinksKnown
<1>3. job \in Or0
  BY JobReadIs DEF Or0
<1>4. sync' = [sync EXCEPT ![s] = l] /\ UNCHANGED <<made, live, holder, mirror, said, bot, link, graded, finder>>
  BY DEF BackfillRead
<1> HIDE DEF o, job
<1>5. l \in SyncState /\ l.pc = "record" /\ l.on = sync[s].on /\ l.found = o
  BY <1>1, <1>2, <1>3 DEF SyncState, Known, Or0
<1> HIDE DEF l
<1>6. RowsOK(link') /\ graded' \in BOOLEAN
  BY <1>4, RowsNow DEF LinksInv, LinksTyped
<1>7. QED BY <1>1, <1>2, <1>4, <1>5, <1>6, SyncMoves

LEMMA BackfillWriteInv == ASSUME LinksInv, NEW s \in LinkSync, BackfillWrite(s) PROVE LinksInv'
<1> USE DEF onsinchVars
<1> DEFINE on == sync[s].on
           found == sync[s].found
<1>1. sync[s] \in SyncState /\ on \in Known /\ on \in Order /\ found \in Known \cup {0} /\ sync[s].job \in Or0
  BY SyncNow DEF SyncPart, BackfillWrite, Known, SyncState
<1>2. SyncIdle \in SyncState /\ SyncIdle.pc = "idle"
  BY DEF SyncIdle, SyncState, Or0
<1>3. sync' = [sync EXCEPT ![s] = SyncIdle] /\ UNCHANGED <<made, live, holder, mirror, said, bot, graded, finder>>
  BY DEF BackfillWrite
<1>4. RowsOK(link) /\ link[on] \in LinkRow
  BY <1>1, RowsNow
<1>5. RowsOK(link')
  <2>1. CASE found # 0
    <3>1. link' = [link EXCEPT ![found] = Recorded(found, sync[s].job)] /\ found \in Order /\ found \in Known
      BY <1>1, <2>1 DEF BackfillWrite, Known
    <3>2. QED BY <1>1, <1>4, <3>1, RecordedIs, OneRow
  <2>2. CASE found = 0
    <3> DEFINE marked == [link[on] EXCEPT !.state = IF @ = "none" THEN "gone" ELSE @]
    <3>1. link' = [link EXCEPT ![on] = marked]
      BY <2>2 DEF BackfillWrite
    <3>2. marked \in LinkRow /\ marked.state # "none"
      BY <1>4 DEF LinkRow, LinkState
    <3> HIDE DEF marked
    <3>3. QED BY <1>1, <1>4, <3>1, <3>2, OneRow
  <2>3. QED BY <2>1, <2>2
<1>6. graded' \in BOOLEAN
  BY <1>3 DEF LinksInv, LinksTyped
<1>7. QED BY <1>2, <1>3, <1>5, <1>6, SyncMoves

LEMMA StartSweepInv == ASSUME LinksInv, NEW s \in LinkSync, StartSweep(s) PROVE LinksInv'
<1> USE DEF onsinchVars
<1> DEFINE todo == {<<o, link[o].job>> : o \in {q \in Order : link[q].state \in LiveState \cup {"held"}}}
           l == [SyncIdle EXCEPT !.pc = "sweep", !.todo = todo]
<1>1. todo \subseteq Known \X Or0
  BY RowsNow DEF RowsOK, LinkRow, LiveState
<1>2. sync' = [sync EXCEPT ![s] = l] /\ UNCHANGED <<made, live, holder, mirror, said, bot, link, graded, finder>>
  BY DEF StartSweep
<1> HIDE DEF todo
<1>3. l \in SyncState /\ l.pc = "sweep" /\ l.todo = todo
  BY <1>1, KnownTasks DEF SyncIdle, SyncState, Or0
<1> HIDE DEF l
<1>4. RowsOK(link') /\ graded' \in BOOLEAN
  BY <1>2, RowsNow DEF LinksInv, LinksTyped
<1>5. QED BY <1>1, <1>2, <1>3, <1>4, SyncMoves

LEMMA LookInv == ASSUME LinksInv, NEW s \in LinkSync, Look(s) PROVE LinksInv'
<1> USE DEF onsinchVars
<1>0. sync[s] \in SyncState /\ sync[s].todo \subseteq Known \X Or0
  BY SyncNow DEF SyncPart, Look
<1>1. PICK t \in sync[s].todo :
        sync' = [sync EXCEPT ![s] = [[sync[s] EXCEPT !.todo = @ \ {t}] EXCEPT !.on = t[1], !.found = WhereNow(t[1], t[2]),
                                                      !.job = JobRead(WhereNow(t[1], t[2])),
                                                      !.pc = IF WhereNow(t[1], t[2]) \in {0, t[1]} THEN "write" ELSE "clear"]]
  BY DEF Look
<1>2. t[1] \in Known /\ t[1] \in Order /\ t[2] \in Or0
  BY <1>0 DEF Known
<1> DEFINE at == WhereNow(t[1], t[2])
           job == JobRead(at)
           l == [[sync[s] EXCEPT !.todo = @ \ {t}] EXCEPT !.on = t[1], !.found = at, !.job = job, !.pc = IF at \in {0, t[1]} THEN "write" ELSE "clear"]
<1>3. at \in Known \cup {0} /\ job \in Or0
  BY <1>2, WhereNowIs, JobReadIs
<1>4. sync' = [sync EXCEPT ![s] = l] /\ UNCHANGED <<made, live, holder, mirror, said, bot, link, graded, finder>>
  BY <1>1 DEF Look
<1> HIDE DEF at, job
<1>5. /\ l \in SyncState /\ l.pc \in {"write", "clear"} /\ (l.pc = "clear" => at # 0)
      /\ l.on = t[1] /\ l.found = at /\ l.todo = sync[s].todo \ {t}
  BY <1>0, <1>2, <1>3 DEF SyncState, Known, Or0
<1> HIDE DEF l
<1>6. RowsOK(link') /\ graded' \in BOOLEAN
  BY <1>4, RowsNow DEF LinksInv, LinksTyped
<1>7. QED BY <1>0, <1>2, <1>3, <1>4, <1>5, <1>6, SyncMoves

LEMMA LookFailsInv == ASSUME LinksInv, NEW s \in LinkSync, LookFails(s) PROVE LinksInv'
<1> USE DEF onsinchVars
<1>0. UNCHANGED <<made, live, holder, mirror, said, bot, link, graded, finder>> /\ sync[s] \in SyncState /\ SyncPart(s)
  BY SyncNow DEF LookFails
<1>1. RowsOK(link') /\ graded' \in BOOLEAN
  BY <1>0, RowsNow DEF LinksInv, LinksTyped
<1>2. CASE sync[s].pc = "sweep" /\ \E t \in sync[s].todo : sync' = [sync EXCEPT ![s].todo = @ \ {t}]
  <2>1. PICK t \in sync[s].todo : sync' = [sync EXCEPT ![s].todo = @ \ {t}]
    BY <1>2
  <2> DEFINE l == [sync[s] EXCEPT !.todo = @ \ {t}]
  <2>2. sync' = [sync EXCEPT ![s] = l]
    BY <2>1
  <2>3. l \in SyncState /\ l.pc = "sweep" /\ l.todo = sync[s].todo \ {t} /\ sync[s].todo \subseteq Known \X Or0
    BY <1>0, <1>2 DEF SyncState, SyncPart
  <2> HIDE DEF l
  <2>4. QED BY <1>0, <1>1, <2>2, <2>3, SyncMoves
<1>3. CASE sync' = [sync EXCEPT ![s] = SyncIdle]
  <2>1. SyncIdle \in SyncState /\ SyncIdle.pc = "idle"
    BY DEF SyncIdle, SyncState, Or0
  <2>2. QED BY <1>0, <1>1, <1>3, <2>1, SyncMoves
<1>4. QED BY <1>2, <1>3 DEF LookFails

LEMMA ClearTargetInv == ASSUME LinksInv, NEW s \in LinkSync, ClearTarget(s) PROVE LinksInv'
<1> USE DEF onsinchVars
<1>0. /\ sync[s] \in SyncState /\ sync[s].pc = "clear" /\ sync[s].todo \subseteq Known \X Or0
      /\ sync[s].on \in Known /\ sync[s].found \in Known
  BY SyncNow DEF SyncPart, ClearTarget
<1> DEFINE l == [sync[s] EXCEPT !.pc = "write"]
<1>1. sync' = [sync EXCEPT ![s] = l] /\ UNCHANGED <<made, live, holder, mirror, said, bot, graded, finder>>
  BY DEF ClearTarget
<1>2. l \in SyncState /\ l.pc = "write" /\ l.todo = sync[s].todo /\ l.on = sync[s].on /\ l.found = sync[s].found
  BY <1>0 DEF SyncState
<1> HIDE DEF l
<1>3. RowsOK(link')
  BY <1>0, NoRow, OneRow, RowsNow DEF ClearTarget
<1>4. graded' \in BOOLEAN
  BY <1>1 DEF LinksInv, LinksTyped
<1>5. QED BY <1>0, <1>1, <1>2, <1>3, <1>4, SyncMoves

LEMMA SweepWriteInv == ASSUME LinksInv, NEW s \in LinkSync, SweepWrite(s) PROVE LinksInv'
<1> USE DEF onsinchVars
<1>0. /\ sync[s] \in SyncState /\ sync[s].pc = "write" /\ sync[s].todo \subseteq Known \X Or0
      /\ sync[s].on \in Known /\ sync[s].found \in Known \cup {0}
  BY SyncNow DEF SyncPart, SweepWrite
<1> DEFINE l == [sync[s] EXCEPT !.pc = "sweep", !.on = 0, !.found = 0, !.job = 0]
           job == sync[s].job
           on == sync[s].on
           found == sync[s].found
<1>1. sync' = [sync EXCEPT ![s] = l] /\ UNCHANGED <<made, live, holder, mirror, said, bot, graded, finder>>
  BY DEF SweepWrite, BackToSweep
<1>2. l \in SyncState /\ l.pc = "sweep" /\ l.todo = sync[s].todo
  BY <1>0 DEF SyncState, Or0
<1> HIDE DEF l
<1>3. on \in Known /\ on \in Order /\ link[on] \in LinkRow /\ RowsOK(link)
  BY <1>0, RowsNow DEF Known
<1>4. job \in Or0
  BY <1>0 DEF SyncState
<1>5. RowsOK(link')
  <2>1. CASE link' = link
    BY <1>3, <2>1
  <2>2. CASE link[on].state # "none" /\ link' = [link EXCEPT ![on].state = "held"]
    <3>1. [link[on] EXCEPT !.state = "held"] \in LinkRow /\ [link[on] EXCEPT !.state = "held"].state = "held"
      BY <1>3 DEF LinkRow, LinkState
    <3>2. link' = [link EXCEPT ![on] = [link[on] EXCEPT !.state = "held"]]
      BY <2>2
    <3>3. QED BY <1>3, <3>1, <3>2, OneRow
  <2>3. CASE link[on].state # "none" /\ link' = [link EXCEPT ![on].state = IF @ = "held" THEN "linked" ELSE @, ![on].job = job]
    <3> DEFINE row == [link[on] EXCEPT !.state = IF @ = "held" THEN "linked" ELSE @, !.job = job]
    <3>1. row \in LinkRow /\ row.state # "none"
      BY <1>3, <1>4, <2>3 DEF LinkRow, LinkState
    <3>2. link' = [link EXCEPT ![on] = row]
      BY <1>3, <2>3 DEF LinksInv, LinksTyped
    <3> HIDE DEF row
    <3>3. QED BY <1>3, <3>1, <3>2, OneRow
  <2>4. CASE /\ link[on].state # "none" /\ found # 0
             /\ link' = [link EXCEPT ![on] = NoLink, ![found] = [link[on] EXCEPT !.state = "relinked", !.job = job]]
    <3> DEFINE row == [link[on] EXCEPT !.state = "relinked", !.job = job]
    <3>1. row \in LinkRow /\ row.state # "none"
      BY <1>3, <1>4 DEF LinkRow, LinkState
    <3>2. link' = [[link EXCEPT ![on] = NoLink] EXCEPT ![found] = row]
      BY <2>4
    <3> HIDE DEF row
    <3>3. RowsOK([link EXCEPT ![on] = NoLink])
      BY <1>3, NoRow, OneRow
    <3>4. found \in Known
      BY <1>0, <2>4
    <3> DEFINE m == [link EXCEPT ![on] = NoLink]
    <3>5. RowsOK(m) /\ link' = [m EXCEPT ![found] = row]
      BY <3>2, <3>3
    <3> HIDE DEF m
    <3>6. QED BY <3>1, <3>4, <3>5, OneRow
  <2>5. QED BY <2>1, <2>2, <2>3, <2>4 DEF SweepWrite
<1>6. graded' \in BOOLEAN
  BY <1>1 DEF LinksInv, LinksTyped
<1>7. QED BY <1>0, <1>1, <1>2, <1>5, <1>6, SyncMoves

LEMMA GradeInv == ASSUME LinksInv, NEW s \in LinkSync, Grade(s) PROVE LinksInv'
<1> USE DEF onsinchVars
<1> DEFINE todo == IF Conflict \/ Named = {} THEN {}
                   ELSE {<<o, "prove">> : o \in {q \in Named : ~link[q].proof \/ link[q].state = "replaced"}}
                        \cup {<<o, "replace">> : o \in {q \in Order \ Named : IsLive(q) /\ ~link[q].proof}}
           l == IF graded THEN SyncIdle ELSE [SyncIdle EXCEPT !.pc = "grade", !.fresh = TRUE, !.todo = todo]
<1>1. Named \subseteq Known
  BY DEF Named, LinksInv, LinksKnown
<1>2. \A q \in Order : IsLive(q) => q \in Known
  BY DEF IsLive, LiveState, LinksInv, LinksKnown
<1>3. todo \subseteq Known \X {"prove", "replace"}
  BY <1>1, <1>2
<1>4. sync' = [sync EXCEPT ![s] = l] /\ UNCHANGED <<made, live, holder, mirror, said, bot, link, graded, finder>>
  BY DEF Grade
<1> HIDE DEF todo
<1>5. l \in SyncState /\ (l.pc = "idle" \/ (l.pc = "grade" /\ l.todo = todo))
  <2>1. todo \in SUBSET (Order \X (Or0 \cup {"prove", "replace"}))
    BY <1>3, KnownTasks
  <2>2. QED BY <2>1 DEF SyncIdle, SyncState, Or0
<1> HIDE DEF l
<1>6. RowsOK(link') /\ graded' \in BOOLEAN
  BY <1>4, RowsNow DEF LinksInv, LinksTyped
<1>7. QED BY <1>3, <1>4, <1>5, <1>6, SyncMoves

LEMMA GradeWriteInv == ASSUME LinksInv, NEW s \in LinkSync, GradeWrite(s) PROVE LinksInv'
<1> USE DEF onsinchVars
<1>0. sync[s] \in SyncState /\ sync[s].pc = "grade" /\ sync[s].todo \subseteq Known \X {"prove", "replace"}
  BY SyncNow DEF SyncPart, GradeWrite
<1>1. PICK t \in sync[s].todo :
         /\ link' = IF t[2] = "prove" THEN [link EXCEPT ![t[1]] = Proved(@, t[1])]
                    ELSE IF link[t[1]].state = "none" THEN link
                    ELSE [link EXCEPT ![t[1]].state = "replaced"]
         /\ sync' = [sync EXCEPT ![s].todo = @ \ {t}]
  BY DEF GradeWrite
<1> DEFINE o == t[1]
           l == [sync[s] EXCEPT !.todo = @ \ {t}]
<1>2. o \in Known /\ o \in Order /\ link[o] \in LinkRow /\ RowsOK(link)
  BY <1>0, RowsNow DEF Known
<1>3. sync' = [sync EXCEPT ![s] = l] /\ UNCHANGED <<made, live, holder, mirror, said, bot, graded, finder>>
  BY <1>1 DEF GradeWrite
<1>4. l \in SyncState /\ l.pc = "grade" /\ l.todo = sync[s].todo \ {t}
  BY <1>0 DEF SyncState
<1> HIDE DEF l
<1>5. RowsOK(link')
  <2>1. CASE link' = [link EXCEPT ![o] = Proved(link[o], o)]
    <3>1. JobIn(mirror.holder, o) \in Or0
      BY JobInIs DEF LinksInv, LinksTyped
    <3>2. Proved(link[o], o) \in LinkRow /\ Proved(link[o], o).state # "none"
      BY <1>2, <3>1 DEF Proved, LinkRow, LinkState
    <3>3. QED BY <1>2, <2>1, <3>2, OneRow
  <2>2. CASE link[o].state # "none" /\ link' = [link EXCEPT ![o].state = "replaced"]
    <3>1. [link[o] EXCEPT !.state = "replaced"] \in LinkRow /\ [link[o] EXCEPT !.state = "replaced"].state = "replaced"
      BY <1>2 DEF LinkRow, LinkState
    <3>2. link' = [link EXCEPT ![o] = [link[o] EXCEPT !.state = "replaced"]]
      BY <2>2
    <3>3. QED BY <1>2, <3>1, <3>2, OneRow
  <2>3. CASE link' = link
    BY <1>2, <2>3
  <2>4. QED BY <1>1, <2>1, <2>2, <2>3
<1>6. graded' \in BOOLEAN
  BY <1>3 DEF LinksInv, LinksTyped
<1>7. QED BY <1>0, <1>3, <1>4, <1>5, <1>6, SyncMoves

LEMMA GradedInv == ASSUME LinksInv, NEW s \in LinkSync, Graded(s) PROVE LinksInv'
<1> USE DEF onsinchVars
<1>1. sync' = [sync EXCEPT ![s] = SyncIdle] /\ UNCHANGED <<made, live, holder, mirror, said, bot, link, finder>> /\ graded' = sync[s].fresh
  BY DEF Graded
<1>2. SyncIdle \in SyncState /\ SyncIdle.pc = "idle"
  BY DEF SyncIdle, SyncState, Or0
<1>3. RowsOK(link') /\ graded' \in BOOLEAN
  BY <1>1, RowsNow, SyncNow DEF SyncState
<1>4. QED BY <1>1, <1>2, <1>3, SyncMoves

LEMMA LinksStep == LinksInv /\ [LinksNext]_linksVars => LinksInv'
<1> SUFFICES ASSUME LinksInv, [LinksNext]_linksVars PROVE LinksInv'
  OBVIOUS
<1>1. CASE MakeOrder \/ ReadOrders
  BY <1>1, MakeOrderInv, ReadOrdersInv
<1>2. CASE \E o \in Order : DeleteOrder(o)
  BY <1>2, DeleteOrderInv
<1>3. CASE \E o, j \in Order : MoveJob(j, o)
  BY <1>3, MoveJobInv
<1>4. CASE \E o \in Order, kind \in {"R", "J", "PO"} : Say(kind, o)
  BY <1>4, SayInv
<1>5. CASE \E f \in Finder : FinderStep(f) \/ \E o \in Order : Find(f, o) \/ BotWrite(f, o)
  BY <1>5, FinderStepInv, FindInv, BotWriteInv
<1>6. CASE \E s \in LinkSync : LinkSyncStep(s) \/ Backfill(s) \/ LookFails(s)
  <2>1. PICK s \in LinkSync : LinkSyncStep(s) \/ Backfill(s) \/ LookFails(s)
    BY <1>6
  <2>2. QED
    BY <2>1, BackfillInv, BackfillReadInv, BackfillWriteInv, StartSweepInv, LookInv, LookFailsInv, ClearTargetInv, SweepWriteInv, GradeInv, GradeWriteInv, GradedInv DEF LinkSyncStep
<1>7. CASE UNCHANGED linksVars
  <2>1. UNCHANGED <<made, live, holder, mirror, said, bot, link, graded, sync, finder>>
    BY <1>7 DEF linksVars
  <2>2. LinksTyped'
    BY <2>1 DEF LinksInv, LinksTyped, LinkRow, SyncState, FinderState, Or0
  <2>3. LinksKnown'
    BY <2>1 DEF LinksInv, LinksKnown, Known, SyncPart, NoLink, Or0
  <2>4. QED BY <2>2, <2>3 DEF LinksInv
<1>8. QED BY <1>1, <1>2, <1>3, <1>4, <1>5, <1>6, <1>7 DEF LinksNext

LEMMA LinksAlways == LinksSpec => []LinksInv
<1>1. QED BY LinksStart, LinksStep, PTL DEF LinksSpec

\* job_links keeps its rows' types: a thread is linked to orders that were made
\* and carry a number, whatever staff do to them while a sync or a planner is at
\* work on rows it read before.
THEOREM LinksTypeCorrect == LinksSpec => []LinksTypeOK
<1>1. LinksInv => LinksTypeOK
  <2> SUFFICES ASSUME LinksInv PROVE LinksTypeOK
    OBVIOUS
  <2>1. \A o \in Order : link[o].state \in LinkState
    BY DEF LinksInv, LinksTyped, LinkRow
  <2>2. \A i \in DOMAIN said : said[i].kind \in {"R", "J", "PO"} /\ said[i].of \in Order
    <3>1. said \in Seq([kind : {"R", "J", "PO"}, of : Order])
      BY DEF LinksInv, LinksTyped
    <3> DEFINE Saying == [kind : {"R", "J", "PO"}, of : Order]
    <3> HIDE DEF Saying
    <3>2. \A i \in DOMAIN said : said[i] \in Saying
      <4>1. said \in Seq(Saying)
        BY <3>1 DEF Saying
      <4>2. QED BY <4>1
    <3>3. QED BY <3>2 DEF Saying
  <2>3. \A f \in Finder : finder[f].order \in Order \cup {0}
    BY DEF LinksInv, LinksTyped, FinderState, Or0
  <2>4. QED BY <2>1, <2>2, <2>3 DEF LinksInv, LinksTyped, LinksKnown, LinksTypeOK, LinkState, Known
<1>2. QED BY <1>1, LinksAlways, PTL

-----------------------------------------------------------------------------
(* Labels. *)

LabelTask == [thread : Threads, label : Wear]

LabelsTyped ==
  /\ DOMAIN wants \subseteq Threads /\ \A t \in DOMAIN wants : wants[t] \in Wear
  /\ handed \in [Threads -> Wear \cup {NotHanded}] /\ worn \in [Threads -> Wear]
  /\ run \in Seq(LabelTask) /\ Len(run) <= PerRun /\ refused \subseteq Threads
  /\ drops \in 0..Drops /\ refusals \in 0..Refusals /\ turns \in 0..Turns

\* What n8n has still to apply is what is remembered.
RunIsRemembered == \A i \in 1..Len(run) : run[i] = [thread |-> run[i].thread, label |-> handed[run[i].thread]]

LabelsInv == LabelsTyped /\ RunIsRemembered /\ RememberedIsWorn

LEMMA ThreadsFinite == IsFiniteSet(Threads)
<1>1. Thread \in Seq(Threads)
  BY LabelsAssumption DEF Threads
<1>2. Threads = {Thread[i] : i \in 1..Len(Thread)}
  BY <1>1 DEF Threads, ToSet
<1> DEFINE f == [i \in 1..Len(Thread) |-> Thread[i]]
<1>3. Len(Thread) \in Nat
  BY <1>1
<1>4. f \in Surjection(1..Len(Thread), Threads)
  BY <1>2 DEF Surjection
<1>5. IsFiniteSet(1..Len(Thread))
  BY <1>3, FS_Interval
<1>6. QED BY <1>4, <1>5, FS_Surjection

LEMMA LabelsStart == LabelsInit => LabelsInv
<1> SUFFICES ASSUME LabelsInit PROVE LabelsInv
  OBVIOUS
<1> USE LabelsAssumption DEF LabelsInit
<1>1. run \in Seq(LabelTask) /\ Len(run) = 0
  OBVIOUS
<1>2. LabelsTyped
  BY <1>1 DEF LabelsTyped, Wear
<1>3. QED BY <1>1, <1>2 DEF LabelsInv, RunIsRemembered, RememberedIsWorn

LEMMA TaskIs == ASSUME LabelsTyped, NEW t \in Threads PROVE Task(t) \in LabelTask /\ Task(t).thread = t /\ Task(t).label \in Wear
BY DEF LabelsTyped, Task, LabelTask, Wear

\* The head of the run goes, the others are as they were.
LEMMA RunShrinks ==
  ASSUME LabelsInv, run # <<>>
  PROVE  /\ Head(run) = run[1] /\ Head(run) \in LabelTask /\ Head(run) = [thread |-> Head(run).thread, label |-> handed[Head(run).thread]]
         /\ Tail(run) \in Seq(LabelTask) /\ Len(Tail(run)) = Len(run) - 1
         /\ \A i \in 1..Len(Tail(run)) : Tail(run)[i] = run[i + 1] /\ i + 1 \in 1..Len(run)
         /\ \A i \in 2..Len(run) : i - 1 \in 1..Len(Tail(run)) /\ Tail(run)[i - 1] = run[i]
<1>1. run \in Seq(LabelTask) /\ Len(run) \in Nat /\ Len(run) > 0
  BY EmptySeq DEF LabelsInv, LabelsTyped
<1>2. Head(run) = run[1] /\ 1 \in 1..Len(run) /\ run[1] \in LabelTask
  BY <1>1
<1>3. Tail(run) \in Seq(LabelTask) /\ Len(Tail(run)) = Len(run) - 1 /\ \A i \in 1..(Len(run) - 1) : Tail(run)[i] = run[i + 1]
  BY <1>1
<1>4. QED BY <1>1, <1>2, <1>3 DEF LabelsInv, RunIsRemembered

LEMMA AskInv == ASSUME LabelsInv, NEW full \in BOOLEAN, Ask(full) PROVE LabelsInv'
<1> DEFINE ts == Changed(full)
<1>0. LabelsTyped /\ run = <<>> /\ refused = {}
  BY DEF LabelsInv, Ask
<1>1. ts \subseteq Threads /\ IsFiniteSet(ts) /\ Cardinality(ts) \in Nat
  BY ThreadsFinite, FS_Subset, FS_CardinalityType DEF Changed
<1>2. PICK todo \in [1..Cardinality(ts) -> ts] :
        LET out == {i \in DOMAIN todo : i <= PerRun} IN
        /\ run' = [i \in out |-> Task(todo[i])]
        /\ handed' = [t \in Threads |-> IF \E i \in out : todo[i] = t THEN Task(t).label ELSE handed[t]]
  BY DEF Ask, InOrder
<1> HIDE DEF ts
<1> DEFINE n == IF Cardinality(ts) <= PerRun THEN Cardinality(ts) ELSE PerRun
<1>3. n \in Nat /\ n <= PerRun /\ {i \in DOMAIN todo : i <= PerRun} = 1..n
  BY <1>1, LabelsAssumption
<1>4. /\ run' = [i \in 1..n |-> Task(todo[i])]
      /\ handed' = [t \in Threads |-> IF \E i \in 1..n : todo[i] = t THEN Task(t).label ELSE handed[t]]
      /\ \A i \in 1..n : todo[i] \in Threads
  BY <1>1, <1>2, <1>3
<1>5. UNCHANGED <<wants, worn, refused, drops, refusals, turns>>
  BY DEF Ask
<1> HIDE DEF n
<1>6. \A i \in 1..n : Task(todo[i]) \in LabelTask /\ Task(todo[i]).thread = todo[i]
  BY <1>0, <1>4, TaskIs
<1>7. run' \in Seq(LabelTask) /\ Len(run') = n
  BY <1>3, <1>4, <1>6
<1>8. handed' \in [Threads -> Wear \cup {NotHanded}]
  <2>1. \A t \in Threads : Task(t).label \in Wear /\ handed[t] \in Wear \cup {NotHanded}
    BY <1>0, TaskIs DEF LabelsTyped
  <2>2. QED BY <1>4, <2>1
<1>9. LabelsTyped'
  BY <1>0, <1>3, <1>5, <1>7, <1>8 DEF LabelsTyped, Wear, Threads
<1>10. RunIsRemembered'
  <2> SUFFICES ASSUME NEW i \in 1..n PROVE run'[i] = [thread |-> run'[i].thread, label |-> handed'[run'[i].thread]]
    BY <1>7 DEF RunIsRemembered
  <2>1. run'[i] = Task(todo[i]) /\ run'[i].thread = todo[i] /\ todo[i] \in Threads
    BY <1>4, <1>6
  <2>2. handed'[todo[i]] = Task(todo[i]).label
    BY <1>4, <2>1
  <2>3. QED BY <1>6, <2>1, <2>2 DEF LabelTask
<1>11. RememberedIsWorn'
  <2> SUFFICES ASSUME drops' = 0, NEW t \in Threads PROVE handed'[t] \in {NotHanded, worn'[t]} \/ OnItsWay(t)'
    BY DEF RememberedIsWorn, Threads
  <2>1. CASE \E i \in 1..n : todo[i] = t
    <3>1. PICK i \in 1..n : todo[i] = t
      BY <2>1
    <3>2. run'[i].thread = t /\ i \in DOMAIN run'
      BY <1>4, <1>6, <3>1
    <3>3. run'[i] = [thread |-> t, label |-> handed'[t]]
      BY <1>7, <1>10, <3>1, <3>2 DEF RunIsRemembered
    <3>4. QED BY <3>2, <3>3 DEF OnItsWay
  <2>2. CASE ~ \E i \in 1..n : todo[i] = t
    <3>1. handed'[t] = handed[t] /\ worn'[t] = worn[t] /\ drops = 0
      BY <1>4, <1>5, <2>2
    <3>2. ~ OnItsWay(t)
      BY <1>0 DEF OnItsWay
    <3>3. QED BY <3>1, <3>2 DEF LabelsInv, RememberedIsWorn
  <2>3. QED BY <2>1, <2>2
<1>12. QED BY <1>9, <1>10, <1>11 DEF LabelsInv

LEMMA ApplyInv == ASSUME LabelsInv, Apply \/ Refuse PROVE LabelsInv'
<1>0. LabelsTyped /\ run # <<>> /\ run' = Tail(run) /\ UNCHANGED <<wants, handed, drops, turns>>
  BY DEF LabelsInv, Apply, Refuse
<1> DEFINE h == Head(run)
<1>1. /\ h = run[1] /\ h.thread \in Threads /\ h.label \in Wear /\ h.label = handed[h.thread]
      /\ run' \in Seq(LabelTask) /\ Len(run') = Len(run) - 1 /\ Len(run) \in Nat
      /\ \A i \in 1..Len(run') : run'[i] = run[i + 1] /\ i + 1 \in 1..Len(run)
      /\ \A i \in 2..Len(run) : i - 1 \in 1..Len(run') /\ run'[i - 1] = run[i]
  BY <1>0, RunShrinks DEF LabelTask, LabelsTyped
<1> HIDE DEF h
<1>2. \/ worn' = [worn EXCEPT ![h.thread] = h.label] /\ UNCHANGED <<refused, refusals>>
      \/ refused' = refused \cup {h.thread} /\ worn' = worn /\ refusals' \in 0..Refusals
  BY LabelsAssumption DEF Apply, Refuse, h, LabelsInv, LabelsTyped
<1>3. LabelsTyped'
  <2>1. worn' \in [Threads -> Wear] /\ refused' \subseteq Threads /\ refusals' \in 0..Refusals
    BY <1>0, <1>1, <1>2 DEF LabelsTyped
  <2>2. Len(run') <= PerRun
    BY <1>0, <1>1, LabelsAssumption DEF LabelsTyped
  <2>3. QED BY <1>0, <1>1, <2>1, <2>2 DEF LabelsTyped, Wear, Threads
<1>4. RunIsRemembered'
  BY <1>0, <1>1 DEF LabelsInv, RunIsRemembered
<1>5. RememberedIsWorn'
  <2> SUFFICES ASSUME drops' = 0, NEW t \in Threads PROVE handed'[t] \in {NotHanded, worn'[t]} \/ OnItsWay(t)'
    BY DEF RememberedIsWorn, Threads
  <2>1. handed'[t] = handed[t] /\ (handed[t] \in {NotHanded, worn[t]} \/ OnItsWay(t))
    BY <1>0 DEF LabelsInv, RememberedIsWorn
  <2>2. CASE t = h.thread
    <3>1. handed'[t] = worn'[t] \/ t \in refused'
      BY <1>0, <1>1, <1>2, <2>1, <2>2 DEF LabelsTyped
    <3>2. QED BY <3>1 DEF OnItsWay
  <2>3. CASE t # h.thread
    <3>1. worn'[t] = worn[t] /\ (t \in refused => t \in refused')
      BY <1>0, <1>2, <2>3 DEF LabelsTyped
    <3>2. CASE \E i \in DOMAIN run : run[i] = [thread |-> t, label |-> handed[t]]
      <4>1. PICK i \in 1..Len(run) : run[i] = [thread |-> t, label |-> handed[t]]
        BY <1>0, <3>2 DEF LabelsTyped
      <4>2. i \in 2..Len(run)
        <5>1. run[i].thread = t
          BY <4>1
        <5>2. QED BY <1>1, <2>3, <4>1, <5>1
      <4>3. i - 1 \in 1..Len(run') /\ run'[i - 1] = [thread |-> t, label |-> handed'[t]]
        BY <1>1, <2>1, <4>1, <4>2
      <4>4. i - 1 \in DOMAIN run'
        BY <1>1, <4>3
      <4>5. QED BY <4>3, <4>4 DEF OnItsWay
    <3>3. CASE t \in refused \/ handed[t] \in {NotHanded, worn[t]}
      BY <2>1, <3>1, <3>3 DEF OnItsWay
    <3>4. QED BY <2>1, <3>2, <3>3 DEF OnItsWay
  <2>4. QED BY <2>2, <2>3
<1>6. QED BY <1>3, <1>4, <1>5 DEF LabelsInv

LEMMA ForgetInv == ASSUME LabelsInv, Forget PROVE LabelsInv'
<1> USE DEF Forget
<1>0. LabelsTyped /\ Len(run) = 0
  BY DEF LabelsInv
<1>1. LabelsTyped'
  BY <1>0 DEF LabelsTyped, Wear, Threads
<1>2. RunIsRemembered'
  BY <1>0 DEF RunIsRemembered
<1>3. RememberedIsWorn'
  <2> SUFFICES ASSUME drops' = 0, NEW t \in Threads PROVE handed'[t] \in {NotHanded, worn'[t]} \/ OnItsWay(t)'
    BY DEF RememberedIsWorn, Threads
  <2>1. handed[t] \in {NotHanded, worn[t]} \/ t \in refused
    BY DEF LabelsInv, RememberedIsWorn, OnItsWay
  <2>2. handed'[t] = IF t \in refused THEN NotHanded ELSE handed[t]
    OBVIOUS
  <2>3. QED BY <2>1, <2>2
<1>4. QED BY <1>1, <1>2, <1>3 DEF LabelsInv

LEMMA DropRunInv == ASSUME LabelsInv, DropRun PROVE LabelsInv'
<1> USE DEF DropRun
<1>0. LabelsTyped /\ drops' # 0
  BY LabelsAssumption DEF LabelsInv, LabelsTyped
<1>1. LabelsTyped'
  <2>1. run' \in Seq(LabelTask) /\ Len(run') = 0
    OBVIOUS
  <2>2. QED BY <1>0, <2>1, LabelsAssumption DEF LabelsTyped, Wear, Threads
<1>2. (RunIsRemembered /\ RememberedIsWorn)'
  BY <1>0 DEF RunIsRemembered, RememberedIsWorn
<1>3. QED BY <1>1, <1>2 DEF LabelsInv

LEMMA TurnInv == ASSUME LabelsInv, Turn PROVE LabelsInv'
<1> USE DEF Turn
<1>0. LabelsTyped
  BY DEF LabelsInv
<1>1. LabelsTyped'
  <2>1. PICK on \in SUBSET Threads : wants' \in [on -> Wear]
    OBVIOUS
  <2>2. DOMAIN wants' \subseteq Threads /\ \A t \in DOMAIN wants' : wants'[t] \in Wear
    BY <2>1
  <2>3. QED BY <1>0, <2>2, LabelsAssumption DEF LabelsTyped, Wear, Threads
<1>2. (RunIsRemembered /\ RememberedIsWorn)'
  BY DEF LabelsInv, RunIsRemembered, RememberedIsWorn, OnItsWay, Threads
<1>3. QED BY <1>1, <1>2 DEF LabelsInv

LEMMA LabelsStep == LabelsInv /\ [LabelsNext]_labelsVars => LabelsInv'
<1> SUFFICES ASSUME LabelsInv, [LabelsNext]_labelsVars PROVE LabelsInv'
  OBVIOUS
<1>1. CASE Ask(FALSE) \/ Ask(TRUE)
  BY <1>1, AskInv
<1>2. CASE Apply \/ Refuse
  BY <1>2, ApplyInv
<1>3. CASE Forget
  BY <1>3, ForgetInv
<1>4. CASE DropRun
  BY <1>4, DropRunInv
<1>5. CASE Turn
  BY <1>5, TurnInv
<1>6. CASE UNCHANGED labelsVars
  BY <1>6 DEF labelsVars, LabelsInv, LabelsTyped, RunIsRemembered, RememberedIsWorn, OnItsWay, Threads, Wear
<1>7. QED BY <1>1, <1>2, <1>3, <1>4, <1>5, <1>6 DEF LabelsNext

LEMMA LabelsAlways == LabelsSpec => []LabelsInv
<1>1. QED BY LabelsStart, LabelsStep, PTL DEF LabelsSpec

\* What is handed out, remembered, worn and refused keeps its type, and no run of
\* n8n is given more than PER_RUN threads.
THEOREM LabelsTypeCorrect == LabelsSpec => []LabelsTypeOK
<1>1. LabelsInv => LabelsTypeOK
  <2> SUFFICES ASSUME LabelsInv PROVE LabelsTypeOK
    OBVIOUS
  <2>1. LabelsTyped
    BY DEF LabelsInv
  <2>2. \A i \in DOMAIN run : run[i].thread \in Threads /\ run[i].label \in Wear
    <3>1. run \in Seq(LabelTask)
      BY <2>1 DEF LabelsTyped
    <3>2. \A i \in DOMAIN run : run[i] \in LabelTask
      BY <3>1
    <3>3. QED BY <3>2 DEF LabelTask
  <2>3. QED BY <2>1, <2>2 DEF LabelsTyped, LabelsTypeOK
<1>2. QED BY <1>1, LabelsAlways, PTL

\* The labels' POST remembers its answer as applied: unless n8n dropped a run,
\* what thread_labels says of a thread is what it wears, but for what n8n still
\* has to apply or to report as refused, for any threads, runs and refusals.
THEOREM RememberedStaysTrue == LabelsSpec => []RememberedIsWorn
<1>1. LabelsInv => RememberedIsWorn
  BY DEF LabelsInv
<1>2. QED BY <1>1, LabelsAlways, PTL

-----------------------------------------------------------------------------
(* The run.                                                                 *)

\* A behaviour of the run is, of each part, one of the part's own.
THEOREM ProgressTypes == FairSpec => []TypeOK
<1>1. Init => MailInit /\ AlarmsInit /\ LabelsInit
  BY DEF Init
<1>2. [Next]_progressVars => [MailNext]_mailVars /\ [AlarmsNext]_alarmsVars /\ [LabelsNext]_labelsVars
  BY DEF Next, progressVars
<1>3. MailTypeOK /\ AlarmsTypeOK /\ LabelsTypeOK => TypeOK
  BY DEF TypeOK
<1>4. QED
  BY <1>1, <1>2, <1>3, MailTypeCorrect, AlarmsTypeCorrect, LabelsTypeCorrect, PTL
  DEF FairSpec, MailSpec, AlarmsSpec, LabelsSpec
=============================================================================
