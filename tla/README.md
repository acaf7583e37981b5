# A TLA+ verification of the Crew Jobber

The Crew Jobber reads a staffing firm's client email, decides what booking each email asks for, and carries it out in
OnSinch, the firm's job system: orders are made through OnSinch's API, and everything else is saved through a headless
browser, because the API cannot do it. It runs as serverless functions (at most 300 s each) over one Postgres
database. Nothing in it is long-lived: what must survive is a row, and what must not happen twice is prevented by a
row. These modules model the protocols those rows carry out, and the planner that says what is to be written; TLC checks
them on small instances, and TLAPS proves the invariants of the write path, the resume, the decisions, the poll, the planner, the orders, the copy,
the links, the labels, the alarms and of what a thread shows for any instance.

## 1. The system

| Component | State it keeps | Operations | Interacts with | Correct when |
|---|---|---|---|---|
| n8n intake (`n8nInbound.ts`, `inboundRawDb.ts`, `threadMessagesDb.ts`) | `thread_messages`, `inbound_raw`, `v2_store_only` | store the delivery row by row, mark it store-only while paused, decide on what is new | called by n8n; calls the decision driver | every stored client email is decided or carded; what arrives paused never is |
| Gmail poll (`mail-poll`, `mail/*`) | `mail_cursor`, `mail_seen` | fetch since a cursor, store, mark seen, move the cursor, settle | Gmail; the decision driver | no email is skipped, one read twice is decided once |
| Duplicate-message ledger (`messageLedgerDb.ts`) | `message_ledger` | claim, peek | n8n, before it posts | one delivery handles a message |
| Decision driver (`v2/process.ts`) | `v2_decisions` | `decideDelivery`, `processMessage`, `sweepUndecided`, `retryUnread`, `recordDecision` | the model's reading, the planner, the bot | an email is read once with what came with it, and acted on once |
| Reading and planning (`v2/interpret`) | none | an email's requests; the operations for them | OnSinch reads | the people who turn up are those asked for; an email planned again asks for nothing more |
| Bot write path (`v2/bot/run.ts`, `db.ts`, `builder.ts`) | `bot_lease`, `bot_ledger`, `bot_session` | `runOp`: look up, lease, intent, save, read back, record, release | OnSinch by API and browser | no save twice; the ledger tells the truth; one driver at a time |
| Resume (`v2/resume.ts`) | `executed` and `retries` in `v2_decisions` | plan a stopped write again, run the rest under a retry key, close | the driver, `runOp` | nothing twice, nothing left, the record final |
| Re-plan (`v2/replan.ts`) | `v2_decisions` | plan the open cards again | the planner | never disturbs a row something was sent for |
| Links (`v2/links.ts`, `threadOrder.ts`) | `job_links` | link, find, replace, mark dead | planner, bot, OnSinch | a found link never displaces a written one |
| OnSinch client (`onsinch.ts`, `bot/apiCreate.ts`) | none | create with the search for a lost one, GETs repeated | OnSinch | one order per create |
| Minute sync (`api/bot/sync`) | run marks | runs all of the sweeps in order | called each minute by the cron and by n8n, with no lock | overlapping syncs do no harm |
| Feed and marks (`feed/*`, `v2/loop/*`) | marks, history, judgements | project the rows to the TV; mark what is done | OnSinch reads | a card leaves only when its need is met |
| Labels (`api/bot/labels`, `threadLabels.ts`) | `thread_labels` | hand out what changed, forget what was refused | n8n, Gmail; the feed | a thread with a card wears what the card wants |
| Alarms (`errorReport.ts`, `heartbeat.ts`, `runMarks.ts`) | `error_reports`, run marks | mark, judge, claim, send, give back | the minute sync, a cron, the receiver of the emails | a stop is told, and once a window |
| Follow-ups (`followup/*`, off by default) | `followup_suppressions` | who waits for whom since when; dismiss, restore | `thread_messages`; people | an unanswered client is on the board; a dismissal hides one wait |
| Canary, settings, accounts, UI | their own tables | see `PROJECT.json`, components | | |

What is hard here, and hard to test, comes from three facts. The same work is started by several parties: n8n's delivery,
the minute sync's sweep, its retry and its resume, and two syncs overlap freely. Every database query is a transaction
of its own, so an invocation may die, or throw, between any two rows it writes, and the query that threw may have been
applied. And OnSinch offers no idempotency key, so a lost answer can only be settled by a row written before, and a
read made after. The hazards in `PROJECT.json` name each place where one of these bites and the properties that cover it.

## 2. The modules

| Module | Models | Checked by |
|---|---|---|
| `WriteOnce` | what the write path promises: an operation key is taken up once, for good; each save leaves once | `BotRun!WritesOnce` |
| `BotRun` | `runOp` with its lease and its ledger, run by any number of invocations | `MCBotRun`, `MCLinks` |
| `BotRun_proofs`, `Resume_proofs`, `Decide_proofs`, `MailPoll_proofs`, `Planner_proofs` | TLAPS proofs about the module they are named after (section 4) | tlapm |
| `OnSinch_proofs` | TLAPS proofs about `CreateOrder` and `Mirror` | tlapm |
| `Safety_proofs` | TLAPS proofs about `Feed`, `FollowUp` and `LondonTime`, and about the whole of `MCSafety` | tlapm |
| `Progress_proofs` | TLAPS proofs about `Links`, `Alarms` and `Labels`, and about the whole of `MCProgress` | tlapm |
| `OnceInOrder` | what an email is promised: its operations carried out once each, in order, perhaps not to the end | `Resume!CarriesOutOnceInOrder` |
| `Resume` | `decideMessage`'s loop over the operations and `resumeStopped` | `MCResume` |
| `Decide` | intake's capture and mark, `decideDelivery`, `processMessage`, `sweepUndecided`, `retryUnread` | `MCDecide` |
| `MailPoll` | `/api/mail-poll`: cursor, history, re-anchor, batch, store, seen set, settle | `MCSafety`, `MCProgress` |
| `CreateOrder` | `apiCreateOrder` and the client's `createOrder`: the company, the post, the search for a lost order; the canary's bench order | `MCSafety` |
| `Planner` | `interpret/plan.ts`: from an email's requests and the client's orders to the bot's operations, as they land, and planned again | `MCSafety` |
| `Mirror` | `loop/truth.ts`: the copy of OnSinch the measurement loop and the links read | `MCSafety` |
| `Feed` | one thread on the TV: `feed/v2.ts`, `project.ts`, `serve.ts`, the marks, `loop/cards.ts`, `replanOpen` | `MCSafety` |
| `Links` | one thread's `job_links`: `recordLink`, `linkFound`, the backfills, `sweepLinks`, `linkAbsolute` | `MCLinks` |
| `Alarms` | `heartbeat`, `reportError`, the run marks | `MCProgress` |
| `Labels` | `api/bot/labels`, `threadLabels.ts`, and n8n as it uses them | `MCProgress` |
| `FollowUp` | one thread's wait, its alert and its dismissals: `followup/clock.ts`, `board.ts`, `suppressionDb.ts`, `FollowUpRow.tsx` | `MCSafety` |
| `LondonTime` | London's wall time and OnSinch's UTC over a year's clock changes: `bot/ops.ts`, `planChange`'s new start, the feed's conversion | `MCSafety` |
| `MCSafety`, `MCProgress`, `MCLinks` | one instance each of several modules, in one run: the seven that name `MCSafety`; mail, alarms and labels; `BotRun` and `Links` | TLC |

`MCPlanner`, `MCCreateOrder`, `MCFeed`, `MCAlarms`, `MCLabels` give the instances their values.

They fit together as the code does. `Decide` treats an email's writes as one step; `Resume` takes that step apart into
operations, and treats each operation as begun, saved and answered; `BotRun` takes the operation apart into queries and
requests. What a module takes for granted of the one below it is what that one is checked for: `Resume` lets an operation
key run once and two runs not hold the lease together (`BotRun!WritesOnce`, `SoleDriver`), though a run may be without it, and
`Decide` lets a key, made of the email and the operation's content, be written once. `BotRun`'s create is one request;
`CreateOrder` takes it apart. What a plan comes to is any choice in `Decide` and `Resume`; `Planner` says which.
`MailPoll` ends where `Decide`'s thread begins, `Feed` begins where the decision's row ends, and `Links` lets its copy of OnSinch be read at any time, which `Mirror` keeps.

### BotRun

A *runner* is one invocation in `runOp`; its record holds what the function's locals hold (`phase`, the save it is
at, the outcome it is about to record) and its program counter. One action stands for one query or request:
`Lookup` (run.ts 257-260), `AcquireLease`/`Busy` (261), `WriteIntent` (266), `Refuse`/`AlreadySo` (269-270, 305-310),
`Open`, `Blocked`/`Click`/`Answer` (the save), `NoteSubmitted`, `ReadBack`, `WriteOutcome`, `Catch` (368-372) and
`ReleaseLease` (374). Three kinds of operation are kept apart because their control differs: an *edit* (or a cancel) goes through
`finish`, whose promise is returned and not awaited, so from there the release is concurrent and nothing catches a throw;
an *add* may stop between a shift and its positions; a *create* posts to the API with `phase = "browser"` already set, and goes on
in the browser. `Throw` is any query or request that fails, with its effect (`Applied`) or without; `Kill` ends an invocation at any
moment, and `Tick` cannot pass an invocation's 300 s. Staff change OnSinch whenever they like, so what a read finds is open, except that
a save that did not land is not answered with success.

`contested` is a history variable: the keys for which the lease was taken by a run although another run of
the same key was active or its row already there. `acquireLease` grants it again to the same holder name, so such runs share it.
The properties that only hold without that are stated of uncontested keys: on a contested one the loser of the intent frees the winner's lease, and a loser whose insert throws writes "blocked" over the winner's row.

### Resume

`row` is the email's `v2_decisions` row (results, retries); `ledger[o][t]` the ledger row of operation *o* under the email's own key
(*t* = 0) or under retry *t*; `age` the time since the own key's row moved, which is all `resumeStopped` looks at. Intake runs an operation
and records, operation by operation (process.ts 446-456). A sweep reads the row once (`Read`, resume.ts 68-82), looks whether anything moved
within ten minutes (`Look`, 83-102), has the email planned again (`Plan`, 104-117), runs the rest and closes (`Close`, 127, 133-137). Everything it decides on is what
it read at first. The planner is abstracted by what `sameOps` lets it say: it may ask for exactly the rest only when the rest is what OnSinch lacks, and may ask
for something else at any time (staff's edits, settings, a day gone by, or the plan failing), which closes the decision as "cancelled". `"unknown"` stands
for unknown, mismatch and failed: results that are a person's.

The lease is asked for once, for 240 s, by an invocation that lives 300 s (run.ts:261), and the loser of a race for one key gives the winner's back. So it may be over at any moment of an operation, which the run is not told of
(`LeaseOver`); a run reads the order (`AlreadySo`, `Open`) and saves a minute of browser work later (`Save`). `unheld` is a history variable: the operations whose run was without the lease before it had sent. With two syncs and a lease that ran out
an edit really is made twice: both read the order before either has saved. `OnceWhileHeld` says that this is the only way, and `MadeOnce` (`resume_twice`) that creates need not even that. With one sync at a time (`resume_alone`) everything is carried out once, lease or no lease.

### Decide

The client emails of one thread are numbered by date. A delivery posts the thread up to its newest email; `Store` inserts one row at a
time, `MarkStoreOnly` or `LookForDecision` follows, and the decision itself is `Check`, `ReadAndPlan`, `Record`, `Run`, `RecordResult`, each with a row or a
request between it and the next. The sweep's `Select`, `LookOvertaken` and `Claim` (one email at a time) and the retry's `Retry` and
`CountTry` share that decision. What a reading comes to is a choice: one of several writes, a card or nothing to write, or a failed reading. The pause is a deployment's
environment variable, so an invocation keeps the value it started with. `shared` is a history variable: the emails a retry took up while another invocation was deciding on them, which nothing in `retryUnread` prevents when two syncs overlap.

### MailPoll

Emails are numbered as they reach the mailbox, so a history id is a number and the cursor one of them. An invocation reads the cursor (`ReadCursor`), walks history from it
(`WalkHistory`: up to the page cap, while the cursor to store is the mailbox's own all the same, gmailCursor.ts 85-101) or lists the last day, one page of it, newest first, and asks for a new cursor (`ReanchorList`, `ReanchorProfile`: two requests, and mail arrives between), takes the first `Batch` ids
not seen, stores them one at a time, marks them, moves the cursor when nothing was left over, and settles. Nothing locks invocations out of each other. An email counts as handled whatever came of it: a row, a draft that is refused (`Draft`),
the row of another copy with its RFC id (`Copies`), an insert that failed, a message without its raw content (`Blanks`, mail-poll/route.ts:108). `missed` is a history variable: the emails Gmail never gave to the poll that went past them, because they were past a cap, older than the window, between the re-anchor's two requests, or blank.
`faults` counts what went wrong, against the bounds. `NothingSkipped` says that an email Gmail gave a poll is not skipped, but for one per failed insert, which `storeMessage` swallows (threadMessagesDb.ts 335-337). That every email is given to some poll ("at-least-once, never at-most-once", gmailCursor.ts:15; `EveryEmailGiven`) is not so: past the fiftieth page, or past the first of the re-anchor's, it is lost to the poll.

### CreateOrder

A call finds or makes the company, then posts. OnSinch may apply a request whose answer is lost or a 5xx, and shows what it applied only later (`Show`); the two searches and the one re-post follow onsinch.ts 283-339 branch by branch, a search that is not
answered being a throw after the post and `null` after the second one. Each process keeps a company list for five minutes. `unseen` in a call's record is a history variable: its own orders that were hidden when it looked. The canary calls the same create and deletes
what that came back with. Every canary's order has one name (canary.ts:29), so one canary may delete the order another still looks for, which is then posted again: `OneOrderPerCall` is about the bookings.

### Planner

The only module whose subject is data, because the firm's rule (the chiefs are inside the headcount) makes a change of crew several writes whose parts depend on each other. `book` is the
positions of the client's orders; a request is a record of what the reading may say of it. `Decide` is planned whole, against the orders as they stood (`before`); `Write` lands one operation at a time; `PlanAgain` is the re-plan of the same email, through `settle`; staff add to a shift in between. `StartApart` leaves out emails
with two calls at one start, which are one shift of two trades in the code. `NewIn` and `Calls` are the email's new shifts, one call for each day and window; a call's shift is looked for on the order (`BookedAt`), or on the client's orders (`Verdict`), before it is booked. A change is about the shift its day and start single out:
the reader's own pick (`shift_id`) is left out. A new shift's hours are there when it is planned (`assume.ts` puts them in). A shift is one team; OnSinch gives no number, of a position or a team, that it gave before.
Venues, places, the PO, the finder of the order and the lead days' card are outside; a trade is one with a live profession.

### Mirror

One action per page, per row written to the meta table, and per statement: two pulls read and write one cursor. `Late` are the rows of actions added to the kept ones after the cursor had passed them, which `ReadLateActions` fetches once. The order list is read page by page, so an order deleted meanwhile shifts
another off the page; what is missing is asked for by number before it is marked. Two caps are left out, because a later pull goes on where they cut: at most 40 orders are confirmed a pull, the day's mark being set only when none is left (truth.ts 245-255), and up to 20 linked orders are read, one after another, where a pull here reads one.

### Feed

One thread: its rows in order of sending, each with its decision, its re-plan and what was executed. `Items` is `project` for that thread, a function of the rows and marks, and `Refresh` is `serveFeed` with what it remembers; people tick, untick and dismiss, staff reply, days pass. A mark's time is the number of emails there were.
`Execute` and the re-plan's `TakeReplan`/`SaveReplan` are apart, because the write's row is stored before the write runs. A re-plan saves its reading of the email with its answer, and the TV reads the row by it when it names a day (live.ts:66), so `read` is what the row is read by now: whether it asks for a new booking, and its day. The key is the first decision's *by that reading* (v2.ts:139):
a re-plan that reads a hand-off as asking for something else moves it, and the tick is lost (`TickMoved.cfg`). `TickHolds` therefore speaks of ticks whose email is still read as asking for the same. A link is "older" (to an order made before the email: a new booking is shown as a change) or "named" (absolute), or there is none.

### Links

Job *j* is the one order *j* was made with, and `holder` where it is now. A sync sweeps row by row (`Look`, then `SweepWrite`), then grades the thread against the mirror as read (`Grade`) and writes order by order (`GradeWrite`). A backfill looks for a thread without rows (`Backfill`), reads OnSinch (`BackfillRead`) and writes (`BackfillWrite`), and other calls may write between; a planner's `Find` goes on with a delete, a read and a write, and the bot's own link (`BotWrite`) with the last two. The stamp counts the decisions' rows, so a resumed email's write may move it or not. `SameNumber` and `Rebuilt` are the two ways staff remake a deleted order.

### Alarms and Labels

`Alarms` counts time in the heartbeat's periods. `Claim` is the deployment's gate and then the conditional UPDATE: without `SPARTAN_ERROR_NOTIFY=1` (`notify`, any of the two from the start) a stop is counted and nobody is told (errorReport.ts 160-169, 419-424), so `StoppedIsHeard` speaks of deployments that email. `Sent`/`NotSent` are the post and its answer, `Dropped` the invocation's end between them; two heartbeats of a period overlap. `Labels` hands out and remembers in one step because the code writes the rows before it answers: the cards' threads in the order of their cards, then those that left the feed, whose rows are read in no order (`InOrder`); `Apply`, `Refuse` and `DropRun` are n8n's.
The list is cut to `PER_RUN` (labels/route.ts:18, 65), the hour's as any other. What changed and was cut off goes out the next minute, since what went before it is remembered by then; a dropped run is only put right by the hour's resend, which never comes past the first `PER_RUN` cards. So `CardsWorn` is of all cards where no run was dropped and of the first `PER_RUN` otherwise, and the comment's "put right within the hour" (27-28) is
false of the rest (`DroppedPutRight`). n8n's runs are taken not to overlap: each is applied and reported before the next asks. That is how the workflow is called, and nothing in the app holds it to it.

### FollowUp

A wait is the number of the message it dates from, computed from what is stored (`Wait`), so storing a message late changes it and nothing else does. A viewer's `screen` is what the board said when it was loaded, `posting` the dismissal on its way: two people may dismiss different waits of one thread, and the row holds the later to land.
`dismissed` is a history variable: every wait a row has named and nobody restored. The read of the suppressions may fail, which hides nothing.

### LondonTime

Two operators, `Offset` and `Clock`, are London; the rest is translated from the code: three corrections and two refusals in `ToUtc` and `Unclear`, the end's day in `ShiftWindow`. A shift is booked and then moved by emails that give a new start alone; each is one step, because nothing here is concurrent: what can go wrong is arithmetic beside the two nights.

## 3. What the runs show

The passing runs:

| Run | Instance | Shows |
|---|---|---|
| `bot_add`, bot | 2 runners; an addition of two saves, an edit already run under its legacy key | types; the ledger true; `WriteOnce` implemented |
| `bot_add`, links | 2 orders, the second a rebuild of the first and the ticket's the first, 2 overlapping syncs and a planner (fair), 2 changes | what the thread names comes to be linked with proof, and no guess beside it |
| `bot_pair` | 2 runners; a create (API, then browser) and an edit | no save sent twice; one driver within its lease |
| `resume_alone` | 2 creates, intake and one sync at a time (fair), 2 deaths | once and in order; a closed record stands; every stop is settled |
| `resume_overlap` | 2 edits, intake and two overlapping syncs, a lease that may run out, a death | no sweep acts while intake lives; an edit made again only where its lease was over before it sent, and never out of order |
| `decide_sweeps` | 2 emails, two readings, a delivery, 2 overlapping syncs with a retry, a death | one reading written per email, unless two retries were at it together; nothing both read with a later email and written alone; nothing settled before the later email has its decision; two sweeps never on one email |
| `decide_every` | 2 emails, 2 deliveries, 1 sync (fair), a death, a switch of the pause | every stored email ends in a decision, a card or the mark; what is marked stays out |
| `safety`, mail | 2 emails (one our own, which is a draft), batches of 1, a listing of 1, 2 overlapping polls, one fault of any kind, paused or not | no email a poll was given is skipped, by the cursor or as seen, but one per failed insert |
| `safety`, create | a booking of a client OnSinch may lack, its retry in another process, and the canary; 2 calls, 3 ticks | one order per booking but for the risk the code states; the order returned is the booking's; the canary deletes only its own; a client once made is found |
| `safety`, plan | one or two asks, of an order of one or two shifts or of none; one edit by staff | the people are those asked for; the same email again writes nothing; chiefs and hours follow a change |
| `safety`, mirror | 3 timeline rows, pages of 1, 2 overlapping pulls, 2 days, a stop | the copy is whole up to its cursor; nothing OnSinch holds is marked deleted |
| `safety`, feed | 2 emails of five kinds, read again in any of their ways, 2 days, 2 touches | an open need stays on the TV; a tick holds while the email is read as asking for the same |
| `safety`, time | every half-hour pair of four days, two of them with a change, and every later start | the window is what the client's clock will show, or the shift is refused |
| `safety`, follow | 2 messages of ours, the client's or a machine's, stored in any order; 2 people, 2 clicks, 4 days | an unanswered client overdue is on the board |
| `progress`, mail | 3 emails (one our own, two copies of one), a walk and a listing of 2, 1 poll (fair), a stop, paused or not | every client email a poll was given is decided or held |
| `progress`, alarms | two signals, 2 overlapping heartbeats (fair), a fault, a deployment that emails or not | a stop is told where the deployment emails; one email a window |
| `progress`, labels | 3 threads and 2 a run, a dropped run, a refusal, 2 turns of the cards | cards come to be worn, past the cut too where no run was dropped; what is remembered of a thread is worn, or on its way, unless n8n dropped a run |

`MCSafety`, `MCProgress` and `MCLinks` each put several modules that share no variable into one run: a behaviour chooses one part and the others stay at their first state, so the state spaces add up and do not multiply, and each property is checked of its own part. It is one TLC run for several questions, not a composition.

The violation runs each state one sentence of the repository's comments that the code does not keep; the quotation
and the course of events are in `PROJECT.json`, findings. In short:

* `resume_twice`: two overlapping syncs make a create twice, under two retry keys.
* `mail_wedged`: an email deleted for good after history listed it makes every poll throw at it, and the mail behind it waits.
* `chief_left`: a booking restated with a new count and a new finish adds its crew chief at the old finish.
* `record_stands`: the re-plan's answer is saved over a write that was running when it read the row.

More configurations of the same kind stand beside them. Each is run with `tlc -workers 2 -config X.cfg M` and violates the one property it names:

| Config | Module | Property | What it shows |
|---|---|---|---|
| `BotRunOneOperation` | `MCBotRun` | `OneOperation` | `finish` runs after the lease is given back (run.ts:355) |
| `ResumeRecord` | `MCResume` | `RecordHoldsWhatWasMade` | a sync that dies after a save leaves no result, and the next closes the decision as cancelled |
| `DecideWrittenTwice` | `MCDecide` | `DecidedOnce` | an unread email that two syncs read again, differently, is written twice (process.ts:171: "Each message is decided once") |
| `DecidePausedRead` | `MCDecide` | `HeldIsNeverRead` | paused mail is decided after the pause when the delivery ended between storing and marking it |
| `DecideReadAsOne` | `MCDecide` | `ReadAsOne` | earlier emails are settled with a newest that could not be read and is then read without them |
| `MailPollLost` | `MailPoll` | `SeenIsDurable` | an insert that fails is swallowed (threadMessagesDb.ts:335-337), and the email marked handled "as soon as it is DURABLE" (mail-poll/route.ts:123) |
| `TickMoved` | `MCFeed` | `MarksSurviveReplan` | a re-plan that reads a hand-off as asking for something else moves its key (v2.ts:139, live.ts:66), and its tick with it (against 83-86: "a tick or a remembered need survives the card being planned again") |
| `ContactsEmptied` | `Mirror` | `ContactsNeverEmpty` | of two overlapping pulls the second to write its contacts has the older stamp, and the other's DELETE empties the list (truth.ts:186-190, against 165-166) |
| `FollowUpLater` | `FollowUp` | `LaterMessageIsShown` | a client whose wait was dismissed writes again: the wait still dates from the first message, so the row still names it and the new one raises nothing (suppressionDb.ts:12: "the moment somebody speaks, the flip point moves"; FollowUpRow.tsx:92-93: "a later message on the same thread raises a fresh alert rather than being swallowed by an old click") |
| `TimeRefused` | `LondonTime` | `RefusedRightly` | `shiftWindow` converts the end on the start's own day first (ops.ts:103), so a shift of the evening of a change Sunday that ends at half past one the next morning is refused for the half past one already gone (against 62-65: only a time that does not exist or happens twice is) |
| `TimeMoved` | `LondonTime` | `MoveKeepsLength` | a start moved across a clock change keeps the length neither by the clock nor in hours worked (plan.ts:811-816: it "moves the whole call and keeps its length") |
| `LabelsKept` | `MCLabels` | `LabelsPutRight` | a refused removal is forgotten by deleting its row (labels/route.ts:45), and a thread without a card or a row is never sent again (against 41-42) |

### Bounds, and why they are enough

* `BotRun`: two runners, because every property relates at most two runs (of one key, or of two), and the proofs lift it to any number. A lease of 2 and a life of 3 ticks keep the one fact that matters, that the lease runs out first;
  in the pair both are 1, and a run past its last tick may still take steps, so a holder past its lease meets the next one all the same. Two saves are the least an addition or a create can stop between.
* `Resume`: a tick is five minutes, an invocation's life. Ten minutes without a move are 2 ticks when time is continuous; counting whole ticks loses up to one, so 2 over-approximates (a sweep may
  think a run still for less than ten minutes) and is used where the property allows it (`resume_overlap`), and 3 is what `ClosedStands` needs: ten minutes are *exactly* an intake's life plus the life of a sweep that holds a stale row.
  Two operations are the least that have a "between". `Tries` is the code's own 2. `Deaths` bounds how many invocations die. Two whole lives are *not* below the ten minutes, so overlapping syncs may rewrite a closed record; `ClosedStands` is checked, and only checked, for one sync at a time.
* `Decide`: the same tick, with ten minutes (`OldTicks`) of 2. Two emails give an earlier and a later; two readings give "read differently the second time". `Retries` is 1 instead of 3, since the second retry repeats the first one's choices, and 0 in `decide_every`, where a card is an end and more reads of it lead nowhere else; the pause is switched there and not in `decide_sweeps`.
* `MailPoll`: two emails and a batch of one give a backlog that one poll does not drain; two polls, because every race is of two writes of one cursor. One fault of each kind, one at a time. A walk of 2 (50 pages) and a listing of 1 or 2 (500 ids) are less than what may have come, so both caps cut.
* `CreateOrder`: two calls of one name, or one and the canary; a tick is five minutes, the list's life and the search's tolerance alike; three ticks let a list run out and a name be used again after the tolerance.
* `Planner`: hours, days and counts are chosen on both sides of each threshold: 3 and 5 about the first chief, 11 about the second, a finish after midnight, a count under what a chief leaves. Two asks are the least that can interact, two shifts the least that can be confused.
* `Mirror`: three rows and pages of one, so that a page is full, is not the last, and the cursor is passed by another pull. Two days give yesterday's list and today's. `MaxPulls` is per day.
* `Feed`: two emails give an older need and what answers or buries it; two days a job that is over; two touches a tick with a re-plan, or a link, after it.
* `FollowUp`: two messages are the least in which one wait ends and another begins, or a party chases; two clicks a late dismissal of an old wait over a newer one. More messages are the proof's. A horizon of one day stands for seven: a wait is overdue, then dormant.
* `LondonTime`: half hours, which tell a time in the changed hour from its ends; the day before and the day of each change, and the nights after them, so that a shift begins, ends or lies across it.
* `Links`: two orders, one made to replace the other, a ticket, and two changes, which are a deletion and what is made for it, or what the client says; `Foreign` is empty and the bot's orders are among those named, so a conflict of proofs (which leaves the thread to a person) does not come up in the run. Beside it `LinksSettle` was checked for two syncs with three orders, two of them there at the start, and no ticket (1.3 million states).
* `Alarms`: limits of 1 and 2 periods and a window of 2. `Labels`: `PerRun` is 2 for 3 threads, so that a thread is cut off.
* Symmetry is used in safety runs only, over invocations, readings and the two bookings with their processes, which the modules treat alike.

### Fairness

`WF(Tick)`: time passes. `WF` of each sweep's and each delivery's steps: the cron in `vercel.json` starts a sync every minute whatever became of the last, and an invocation
within its time goes on. Nothing is assumed of an invocation that dies: `Die`, `Kill` and `Throw` are not fair and only bounded. In `bot_add`, of the links: `WF` of each sync's and planner's step and of `ReadOrders` (the syncs, the measurement loop), not of when a backfill begins. In `progress`: `WF` of each poll's step and of `sweepUndecided` (the crons); of the heartbeat's period and of each of its steps; `WF` of n8n's `Apply` and `Forget`, and `SF` of both
modes of `Ask`, since a run every minute and a run in the hour's first minute happen whatever state the labels are in each time, though neither stays enabled while a run is out. Every fault (`Stop`, `StoreThrows`, `LookFails`, `Dropped`, `NotSent`, `DropRun`, `Refuse`) is bounded and unfair. Fairness of a part is asked of the behaviours that are that part's. `BotRun` has no liveness of its own; whether a stopped operation is taken up is `Resume`'s question.

## 4. What is proved

Eight modules hold theorems. Each is for every value of the constants that the module's own assumption allows, which says that bounds are numbers, that sets of parties are disjoint, and what the code fixes about times: an
invocation lives shorter (300 s) than a write is left still (`FunctionTicks < StillTicks`, ten minutes) or an email undecided (`FunctionTicks < OldTicks`, ten minutes); that the copy's cursor starts within the timeline; that summer and
winter each last more than a day. A hypothesis beyond these stands in the theorem itself.

| Module | Theorem | Says of `Spec` | Hypothesis |
|---|---|---|---|
| `BotRun_proofs` | `TypeCorrect`, `NeverSentTwice`, `LedgerIsTrue`, `DrivesAlone` | `TypeOK`, `SentOnce` (and `SentIsRecorded`), `LedgerTrue`, `SoleDriver` | none |
| | `Refinement` | `WritesOnce`: `runOp` implements `WriteOnce` | none |
| `Resume_proofs` | `TypeCorrect`, `IntakeRunsAlone` | `TypeOK`, `RunsAlone` | none |
| | `OnceUnderTheLease` | `OnceWhileHeld`, an action property | none |
| `Decide_proofs` | `TypeCorrect`, `NoneSettledUnread`, `TheClaimGoesToOne`, `StoreOnlyStaysOut`, `TakenOnce` | `TypeOK`, `SettledAfterNewest`, `SweepsApart`, `MarkedStaysOut`, `NotTakenTwice` | none |
| | `WrittenAsOneReading` | `WrittenOnce` (of emails no two retries were at together, else `DecideWrittenTwice.cfg`) | none |
| `MailPoll_proofs` | `MailTypeCorrect`, `NoEmailSkipped` | `MailTypeOK`, `NothingSkipped` | none |
| `OnSinch_proofs` | `CreateTypeCorrect`, `OwnOrderReturned`, `BookingsKept`, `ClientFoundAgain` | `CreateTypeOK`, `ReturnsItsBooking`, `NoBookingDropped`, `FoundTheNextTime` | none |
| | `OnceABooking` | `OneOrderPerCall` | none |
| | `MirrorTypeCorrect`, `NoRowLost`, `MarkedWasDeleted` | `MirrorTypeOK`, `TimelineWhole`, `MarkedIsDeleted` | none |
| `Planner_proofs` | `TypesHold` | `PlannerTypeOK` | none |
| | `ChangeIsFollowed` | `CrewFollows` | the shift asked about had one crew position, at most one chief position and one pair of hours |
| | `PeopleTurnUp`, `RestatedStays` | `PeopleAsAsked`, `RestatedIsNothing` | so had every shift that started with a call of the email (`PlainAt`) |
| `Progress_proofs` | `AlarmsTypeCorrect`, `EmailedOnce` | `AlarmsTypeOK`, `OneEmailAWindow` | none |
| | `LinksTypeCorrect` | `LinksTypeOK` | none |
| | `LabelsTypeCorrect`, `RememberedStaysTrue` | `LabelsTypeOK`, `RememberedIsWorn` | none |
| | `ProgressTypes` | `TypeOK` of `MCProgress` | none |
| `Safety_proofs` | `FeedTypeCorrect`, `NeedStaysShown`, `TickStays` | `FeedTypeOK`, `NeedKept`, `TickHolds` of `Feed` | none |
| | `FollowTypeCorrect`, `OwedStaysShown` | `FollowTypeOK`, `OwedIsShown` of `FollowUp` | none |
| | `TimeTypeCorrect`, `HoursAsAsked` | `TimeTypeOK`, `WindowAsAsked` of `LondonTime` | none |
| | `SafetyTypes` | `TypeOK` of `MCSafety` | none |

The modules that run inside `MCSafety`, `MCProgress` and `MCLinks` are proved about by their own specification (`MailSpec`, `CreateSpec`, `PlannerSpec`, `MirrorSpec`, `FeedSpec`, `FollowSpec`, `TimeSpec`, `LinksSpec`, `AlarmsSpec`, `LabelsSpec`), of which those runs are instances: a
behaviour of a run is, of each part, one of the part's own, which is how `SafetyTypes` and `ProgressTypes` follow from the parts' types. Each result follows from an inductive invariant, because hardly any of the properties is one by itself. TLC has checked the invariants beside the runs, on instances of their sizes.

* `BotRun` (`Invariance`: `TypeOK /\ Strengthening`). That no save leaves twice needs that the saves a working run has still to make
  are untouched (`Untouched`), which needs that no other run works on the same key (`Apart`), which needs that only the run whose insert went in becomes an owner, and that a row, once there, never goes. That the ledger is true needs what each
  run is about to record to be true already (`Verdict`), that an uncontested row is not final while its run works (`Undecided`), and that what landed was sent (`Extent`). That a run drives alone needs that
  within its lease the row still names it for at least as long as it counts (`Covered`). `RunMoves` carries all of the steps that move one run and leave every row alone. TLC's run covers half-made additions and creates only for two saves, the proof for any number.
* `Resume`: a part for each invocation (`Part`) says what it knows: intake goes on only after a result that is good, each with its row, and no row is older than intake itself (`RowAlone`), so a sweep that finds all of them still for longer finds intake gone. Whoever is
  at an operation has the earlier ones behind it (`OrderOf`). The lease has one holder (`OneHolds`), though others may be at their operation without it; who has not sent yet holds it or is marked `unheld`, and what it found not made is not made yet unless it is so marked (`HeldOf`), since only another holder could have made it and there was none.
* `Decide`: no two invocations have the same email in hand (`Apart`): a delivery has what it inserted, a sweep what it claimed, and the sweep looks only at rows older than any delivery that lives. `Taken` follows each email that was read with a later one to every invocation that might still decide on it alone. Of an email not `shared` one invocation decides at a time (`Alone`), so whoever is about to write it finds nothing written (`FreshOf`) or is going by the reading that was.
* `MailPoll`: all that is behind the cursor, and behind the place each poll is about to move it to, has been reached or is in that poll's hands, or is `missed` (`Ahead`); polls that overlap may move the cursor back, never over what none has. What was handled and is in the store neither itself nor as a copy, and is no draft, is counted against the inserts that failed (`Counted`).
* `CreateOrder`: an order belongs to the call that posted it, and a call's second one was posted when the first was hidden from both looks (`Twice`), which no other call can bring about but a canary of the same name (`Alone`), by deleting it. All canaries use one name (canary.ts:29), so with two of them at once a second bench order can be made; a booking never has a canary's name, and is untouched (`OnceABooking`).
* `Planner`: what is written is a beginning of one plan, the email's against `before`, and the orders are what it made of them so far (`Progress` in `PlanInv`), so the last write leaves what the plan leads to (`Leads`). What it leads to is followed operation by operation: a change of crew
  leaves the people and the rule's chiefs at the hours the email gives (`CrewDone`), a change of times all that stood at other hours at the new ones (`Moves`), both in turn what was asked (`Followed`). For an email of new calls the changes of the calls held in another shape land each on a shift of its own (`HeldLands`), and the fresh ones each on a new team (`FreshLands`), so each call is
  `Kept`: it has its people, and unless both its people and its hours had to change, nothing of it is left to change. That survives what staff do, since a shift they touched is theirs (`KeptInv`), and of a kept call the planner asks nothing more (`KeptRests`). `RestatedStays` leans on the chiefs' rule giving the chiefs it gave before (`ChiefsStay`). A headcount is a fold over a set whose
  order is a CHOOSE; that the order does not matter is proved by taking two members out in either order (`PeopleTake`), by induction on the set's size, which the prover takes as the least of the numbers that would not do (`Upwards`).
  Every book of TLC's run meets the hypotheses on the shifts; with several crew positions the code changes the largest alone, and what the theorems say of it is then not claimed.
* `Mirror`: wherever the cursor or a pull stands, all rows behind it are stored (`RowsCovered`), so a pull may be overtaken or may stop anywhere; a pull marks only what it saw was deleted, and what is deleted stays so (`Known`).
* `Links`: what is linked, and whatever a sync or a planner read before and is still to write, is an order that was made (`LinksKnown`); without the second half a write held back could name any order. A row once made never goes back to none, and a row marked gone may be given a job by a sweep that looked before: `LinksTypeOK` says no more of it than that its order was made.
* `Labels`: what n8n has still to apply is what is remembered (`RunIsRemembered`), so applying it makes what is remembered true, and a refusal puts it among the refused until its row is deleted. A full resend, or a cut at `PER_RUN`, changes nothing of that.
* `Alarms`: a claim is one heartbeat's, and while one is to email nobody was emailed within the window (`Held`); the row is never older than the last email that was sent (`Remembered`).
* `Feed`: a tick is kept under the key its email has now, and what has faded went green (`TicksKept`). What is newly open is each its email's own key, so the list of needs remembered has each once (`InRange`). The key follows neither a link nor a re-plan's answer; the bot's own writing changes it, and so does a re-plan that reads a hand-off as asking for something else (`KeyFacts`). That is why `ticked` counts the ticks on an email's own need, and lets go of one read otherwise. A tick on the need that the TV only remembers, after the
  bot's write resolved it, is of the older key: if a re-plan's answer is then saved over the write (`record_stands`), the email asks again under its newer key. TLC finds this with three touches, and `TickHolds` does not speak of it.
* `FollowUp`: messages are numbered by date (`ByDate`). When an answer is owed the run that spoke last is the client's, and its messages that need an answer are exactly those owed (`WaitsFromOwed`), so the wait is the first of them: it is overdue if any is, and its dismissal would name one of them.
* `LondonTime`: a wall time that is not refused has one instant, which three corrections and one correction both reach (`ClearInstant`), and of two such times the later is the later instant (`ClearOrder`), so the end is taken on the next day exactly when its hour is the smaller. The units, the days asked for and the two instants of change are arbitrary.

Only model-checked: `CarriesOutOnceInOrder` and `ClosedStands`, which hold with one sync at a time and not with two (`resume_twice`; what two syncs keep is `OnceWhileHeld`), and all liveness (`StoppedIsSettled`, `EveryEmailDecided`, `EveryEmailSettled`, `LinksSettle`, `StoppedIsHeard`, `CardsWorn`), for fairness and ENABLED are beyond the prover. Every other property of a passing run is proved, under the hypotheses in the table.

## 5. What is not modelled, and why

* What an email means: the model's reading is data. `Planner` takes any reading (TLC's run any of one or two requests) but one that picks its shift itself (`shift_id`); the finder of the order (`findOrder`, `identity`, OnSinch matching), venues and places, prices, the lead days and the PO are judgements of one value by another with no state of their own.
* `Decide`: mail that is not a client's (filtered with a row of its own at once), a decision started by hand, the waiting times of a retry (it may come at any time), the thread's other threads.
* `Resume`: the six-hour window, several emails in one sweep (they share no row), the links it records.
* `BotRun`: what a form holds and the request guard's contract (a step "blocked" or not), the login session, the operation key's text.
* `MailPoll`: the mailbox's other folders, the parsing of a message, the pause switched between two polls (`Decide` has it).
* `CreateOrder`: the places made for a venue OnSinch lacks, which go like the company but are never searched for.
* `Mirror`: `refreshPlaces` (the contacts' protocol with a version number), the client orders' rota, `v2_outcomes`.
* `Feed`: the history, the board of replies, cards of other threads, `done.ts`'s judgement of an order against an email (`MarkNeed` takes any).
* `Links`: the evidence a planner found an order by, the wording of names, other threads' rows.
* `FollowUp`: what a message asks for (`compose.ts`); `decide` and `sendEligible`, which nothing calls. `LondonTime`: a new start with the end kept, which `planChange` checks against the old window.
* The duplicate-message ledger (one upsert), settings, accounts, help, metrics and the UI: each has its reason in `PROJECT.json`.

## 6. The plan

What is left to model, in the order in which it matters:

1. `DecisionRow`: intake, retry, re-plan and resume on one `v2_decisions` row, with the mixed rows `recordDecision` can leave.
2. The order of the minute sync's steps, where one reads what another writes in the same minute.
3. The pure parts worth a reference definition: the state of a thread, the finder of an order.

Proofs to come: a safety property of `Links` beyond its types, and the theorems of `DecisionRow` when it is written.
