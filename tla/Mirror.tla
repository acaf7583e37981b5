-------------------------------- MODULE Mirror --------------------------------
(***************************************************************************)
(* The measurement loop's copy of OnSinch (loop/truth.ts), pulled by the   *)
(* minute sync: the booking timeline page by page behind a cursor, once a  *)
(* day the contact list and the orders OnSinch no longer holds, and the    *)
(* orders the threads are linked to.  Pulls overlap (the cron's and n8n's  *)
(* sync) and each may stop at any request or query.                        *)
(*                                                                         *)
(* Row r of OnSinch's timeline is the r-th; row r in Create makes an order *)
(* called r too.  Deleting an order logs nothing and takes its row away.   *)
(***************************************************************************)
EXTENDS Integers, FiniteSets, FiniteSetsExt

CONSTANTS
    MaxRow,     \* bound on timeline rows
    Create,     \* the rows that make an order
    Other,      \* the rows of actions that are not kept
    Late,       \* the rows of actions kept only later on, behind where the cursor then stood
    Start,      \* where it stood
    PageSize,   \* rows in a page
    Pages,      \* PAGES_PER_RUN
    Contact,    \* OnSinch's contacts
    Pull,       \* pulls that run at once
    MaxPulls,   \* bound on pulls
    MaxDay,     \* bound on days
    PullStops   \* bound on pulls that throw or die

Row == 1..MaxRow

ASSUME MirrorAssumption ==
    /\ {MaxRow, Start, PageSize, Pages, MaxPulls, MaxDay, PullStops} \subseteq Nat
    /\ Start <= MaxRow /\ MaxDay > 0
    /\ Create \cup Other \cup Late \subseteq Row
    /\ Create \cap (Other \cup Late) = {} /\ Other \cap Late = {}
    /\ \A r \in Late : r <= Start
    /\ PageSize > 0 /\ IsFiniteSet(Contact)

VARIABLES
    rows,        \* OnSinch: timeline rows so far are 1..rows
    deletedIn,   \* OnSinch: orders deleted
    day,
    timeline,    \* onsinch_timeline
    tlCursor,    \* timeline_cursor
    completeAt,  \* timeline_complete_at, as the rows there were then
    lateRead,    \* late_actions_read
    contacts,    \* onsinch_contacts: when each was refreshed, 0 for no row
    metaDay,     \* the day of contacts_at, and that of orders_at
    marked,      \* onsinch_orders marked deleted
    pull,        \* the locals of each pull
    pulls, pullStops

mirrorVars == <<rows, deletedIn, day, timeline, tlCursor, completeAt, lateRead, contacts, metaDay, marked, pull, pulls, pullStops>>
timelineRows == <<timeline, tlCursor, completeAt, lateRead>>
outside == <<rows, deletedIn, day>>

NotPulling == [pc |-> "idle", at |-> 0, day |-> 0, started |-> 0, from |-> 0, pages |-> 0, read |-> {}]

MirrorTypeOK ==
    /\ rows \in 0..MaxRow /\ deletedIn \subseteq Create /\ day \in 1..MaxDay
    /\ timeline \subseteq 1..rows /\ tlCursor \in 0..rows /\ completeAt \in 0..rows
    /\ lateRead \in BOOLEAN
    /\ \A c \in Contact : contacts[c] \in 0..pulls
    /\ metaDay.contacts \in 0..day /\ metaDay.orders \in 0..day
    /\ marked \subseteq Create
    /\ \A p \in Pull : pull[p].started <= rows /\ pull[p].from <= rows /\ pull[p].day <= day

MirrorInit ==
    /\ rows = Start /\ deletedIn = {} /\ day = 1
    /\ timeline = (1..Start) \ (Other \cup Late)
    /\ tlCursor = Start /\ completeAt = 0 /\ lateRead = FALSE
    /\ contacts = [c \in Contact |-> 0]
    /\ metaDay = [contacts |-> 0, orders |-> 0]
    /\ marked = {}
    /\ pull = [p \in Pull |-> NotPulling]
    /\ pulls = 0 /\ pullStops = 0

-----------------------------------------------------------------------------
(* OnSinch and time. *)

LogRow ==
    /\ rows < MaxRow
    /\ rows' = rows + 1
    /\ UNCHANGED <<deletedIn, day, timelineRows, contacts, metaDay, marked, pull, pulls, pullStops>>

DeleteInOnsinch ==
    /\ \E o \in (Create \cap 1..rows) \ deletedIn : deletedIn' = deletedIn \cup {o}
    /\ UNCHANGED <<rows, day, timelineRows, contacts, metaDay, marked, pull, pulls, pullStops>>

(* An invocation lives five minutes: none is under way for a whole day. *)
NextDay ==
    /\ day < MaxDay /\ \A p \in Pull : pull[p].pc = "idle"
    /\ day' = day + 1
    /\ UNCHANGED <<rows, deletedIn, timelineRows, contacts, metaDay, marked, pull, pulls, pullStops>>

-----------------------------------------------------------------------------
PullTo(p, l) == pull' = [pull EXCEPT ![p] = l]
At(p, pc) == pull[p].pc = pc

(* pullTimeline *)
StartPull(p) ==
    /\ At(p, "idle") /\ pulls < MaxPulls
    /\ pulls' = pulls + 1
    /\ PullTo(p, [NotPulling EXCEPT !.pc = "page", !.at = pulls', !.day = day, !.started = rows, !.from = tlCursor])
    /\ UNCHANGED <<outside, timelineRows, contacts, metaDay, marked, pullStops>>

Page(from) == {r \in (from + 1)..rows : r \notin deletedIn /\ Cardinality(((from + 1)..r) \ deletedIn) <= PageSize}

(* A page is read and its booking rows stored, once each; an empty one, the page limit or the deadline ends the pages. *)
ReadTimelinePage(p) ==
    LET l == pull[p]
        page == Page(l.from)
    IN
    /\ At(p, "page")
    /\ IF page = {}
       THEN /\ PullTo(p, [l EXCEPT !.pc = "late", !.from = 0, !.pages = 0])
            /\ UNCHANGED timeline
       ELSE /\ timeline' = timeline \cup (page \ Other)
            /\ PullTo(p, [l EXCEPT !.pc = "cursor", !.from = Max(page), !.pages = @ + 1,
                                   !.read = IF Cardinality(page) < PageSize THEN {"all"} ELSE {}])
    /\ UNCHANGED <<outside, tlCursor, completeAt, lateRead, contacts, metaDay, marked, pulls, pullStops>>

MoveTimelineCursor(p) ==
    LET l == pull[p] IN
    /\ At(p, "cursor")
    /\ tlCursor' = l.from
    /\ \/ /\ l.read = {} /\ l.pages < Pages
          /\ PullTo(p, [l EXCEPT !.pc = "page"])
       \/ /\ l.read = {"all"} \/ l.pages = Pages
          /\ PullTo(p, [l EXCEPT !.pc = "late", !.from = 0, !.pages = 0, !.read = {},
                                 !.started = IF l.read = {"all"} THEN @ ELSE 0])
    /\ UNCHANGED <<outside, timeline, completeAt, lateRead, contacts, metaDay, marked, pulls, pullStops>>

(* The actions the cursor passed before they were kept, once; then the time up to which all is stored (started is 0 while behind). *)
ReadLateActions(p) ==
    /\ At(p, "late")
    /\ timeline' = IF lateRead THEN timeline ELSE timeline \cup {r \in Late : r <= rows}
    /\ lateRead' = TRUE
    /\ PullTo(p, [pull[p] EXCEPT !.pc = "complete"])
    /\ UNCHANGED <<outside, tlCursor, completeAt, contacts, metaDay, marked, pulls, pullStops>>

(* Mutant: all is stored up to now, not up to when the pull began. *)
MarkCompleteNow(p) ==
    LET l == pull[p] IN
    /\ At(p, "complete")
    /\ completeAt' = IF l.started = 0 THEN completeAt ELSE rows
    /\ PullTo(p, [l EXCEPT !.pc = IF metaDay.contacts = l.day THEN "list" ELSE "contacts", !.started = 0])
    /\ UNCHANGED <<outside, timeline, tlCursor, lateRead, contacts, metaDay, marked, pulls, pullStops>>

MarkComplete(p) ==
    LET l == pull[p] IN
    /\ At(p, "complete")
    /\ completeAt' = IF l.started = 0 THEN completeAt ELSE l.started
    /\ PullTo(p, [l EXCEPT !.pc = IF metaDay.contacts = l.day THEN "list" ELSE "contacts", !.started = 0])
    /\ UNCHANGED <<outside, timeline, tlCursor, lateRead, contacts, metaDay, marked, pulls, pullStops>>

(* refreshContacts, and refreshPlaces in the same way: the new list is written over the old one, then what is older goes. *)
WriteContacts(p) ==
    /\ At(p, "contacts")
    /\ contacts' = [c \in Contact |-> pull[p].at]
    /\ PullTo(p, [pull[p] EXCEPT !.pc = "drop"])
    /\ UNCHANGED <<outside, timelineRows, metaDay, marked, pulls, pullStops>>

DropOldContacts(p) ==
    /\ At(p, "drop")
    /\ contacts' = [c \in Contact |-> IF contacts[c] < pull[p].at THEN 0 ELSE contacts[c]]
    /\ PullTo(p, [pull[p] EXCEPT !.pc = "refreshed"])
    /\ UNCHANGED <<outside, timelineRows, metaDay, marked, pulls, pullStops>>

MarkContactsRead(p) ==
    /\ At(p, "refreshed")
    /\ metaDay' = [metaDay EXCEPT !.contacts = pull[p].day]
    /\ PullTo(p, [pull[p] EXCEPT !.pc = "list"])
    /\ UNCHANGED <<outside, timelineRows, contacts, marked, pulls, pullStops>>

(* refreshOrders: the stored creates that the list leaves out.  A delete while the pages are read shifts an order off them. *)
ListOrders(p) ==
    LET created == timeline \cap Create
        due == metaDay.orders < pull[p].day
    IN
    /\ At(p, "list")
    /\ \E shifted \in SUBSET (created \ deletedIn) :
         PullTo(p, [pull[p] EXCEPT !.pc = IF due THEN "confirm" ELSE "linked",
                                   !.read = IF due THEN ((created \cap deletedIn) \cup shifted) \ marked ELSE {}])
    /\ UNCHANGED <<outside, timelineRows, contacts, metaDay, marked, pulls, pullStops>>

(* Mutant: what the list leaves out is deleted. *)
ConfirmDeletedUnread(p) ==
    /\ At(p, "confirm")
    /\ marked' = marked \cup pull[p].read
    /\ metaDay' = [metaDay EXCEPT !.orders = pull[p].day]
    /\ PullTo(p, [pull[p] EXCEPT !.pc = "linked", !.read = {}])
    /\ UNCHANGED <<outside, timelineRows, contacts, pulls, pullStops>>

(* Each is read by its id; those that are not there are marked, and the day's check is done. *)
ConfirmDeleted(p) ==
    /\ At(p, "confirm")
    /\ marked' = marked \cup (pull[p].read \cap deletedIn)
    /\ metaDay' = [metaDay EXCEPT !.orders = pull[p].day]
    /\ PullTo(p, [pull[p] EXCEPT !.pc = "linked", !.read = {}])
    /\ UNCHANGED <<outside, timelineRows, contacts, pulls, pullStops>>

(* readLinkedOrders: an order that is not marked is read and written back as it was read. *)
ReadLinked(p) ==
    /\ At(p, "linked")
    /\ \/ \E o \in (Create \cap 1..rows) \ marked :
            PullTo(p, [pull[p] EXCEPT !.pc = "keep", !.from = o, !.read = {o} \cap deletedIn])
       \/ PullTo(p, NotPulling)
    /\ UNCHANGED <<outside, timelineRows, contacts, metaDay, marked, pulls, pullStops>>

KeepLinked(p) ==
    /\ At(p, "keep")
    /\ marked' = (marked \ {pull[p].from}) \cup pull[p].read
    /\ PullTo(p, NotPulling)
    /\ UNCHANGED <<outside, timelineRows, contacts, metaDay, pulls, pullStops>>

PullStop(p) ==
    /\ ~At(p, "idle") /\ pullStops < PullStops
    /\ pullStops' = pullStops + 1
    /\ PullTo(p, NotPulling)
    /\ UNCHANGED <<outside, timelineRows, contacts, metaDay, marked, pulls>>

MirrorNext ==
    \/ LogRow \/ DeleteInOnsinch \/ NextDay
    \/ \E p \in Pull :
         \/ StartPull(p) \/ ReadTimelinePage(p) \/ MoveTimelineCursor(p) \/ ReadLateActions(p) \/ MarkComplete(p)
         \/ WriteContacts(p) \/ DropOldContacts(p) \/ MarkContactsRead(p)
         \/ ListOrders(p) \/ ConfirmDeleted(p) \/ ReadLinked(p) \/ KeepLinked(p)
         \/ PullStop(p)

MirrorSpec == MirrorInit /\ [][MirrorNext]_mirrorVars

-----------------------------------------------------------------------------
(* "The cursor is only safe if every row past it is on a later page", and "caught up, every row made before this run began *)
(* is stored: the loop judges no window that closes later" (truth.ts): two pulls writing one cursor, and one that stops    *)
(* between the rows and the cursor, lose no booking row and complete no stretch that is not.                               *)
TimelineWhole ==
    LET kept == (1..rows) \ (Other \cup deletedIn \cup IF lateRead THEN {} ELSE Late) IN
    /\ \A r \in kept : r <= tlCursor => r \in timeline
    /\ \A r \in kept : r <= completeAt => r \in timeline

(* "An order shifted between pages by a delete mid-read is never taken for deleted" (truth.ts): nothing OnSinch holds is marked. *)
MarkedIsDeleted == marked \subseteq deletedIn

(* "The new list is written before the old one goes, so a reader never sees an empty list" (truth.ts). *)
ContactsNeverEmpty == metaDay.contacts # 0 => \E c \in Contact : contacts[c] # 0
=============================================================================
