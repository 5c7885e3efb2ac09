# A formal model of YoHo Bed

YoHo Bed is a hotel system: an API (NestJS over Postgres) that front desks and owners use, a
worker that runs timers and talks to the channel manager, and a web front end. What it must never
get wrong is which rooms are free, who is in them, and what they owe. This directory models that
part in TLA+, checks it with TLC on small instances and proves the main results with TLAPS for
instances of any size.

## 1. The system

### Components

| Component | State | Operations | What makes it correct |
| --- | --- | --- | --- |
| Availability counter (`packages/db/src/inventory.ts`) | `availability_calendar.rooms_to_sell` per room type and night | `reserveStay`, `releaseStay` | rooms left + rooms kept = the hotel, on every night |
| Reservation lifecycle (`packages/db/src/lifecycle.ts`, `packages/domain/src/reservation-kinds.ts`, CHECKs of `schema/bookings.ts`) | status, kind, release time, `inventory_released_from`, the legs | reserve, release (all or from a date), reclaim, the sweep | what is given back is what was kept, once; the row's axes agree |
| Booking operations (`apps/api/src/bookings/booking.service.ts`) | the booking row | create, approve, reject, cancel, void, check in and out and their undos, no-show, reinstate, amend, change departure | a stay that can be lived in has its rooms |
| Holds (`apps/api/src/reservations/lifecycle.service.ts`) | kind and release time | confirm, hold, release; groups as sequences of them | a hold keeps its rooms exactly until it is confirmed or released |
| Reservation creation (`reservation.service.ts`) | bookings of one request, idempotency keys | quote, create, walk-in | all rooms or none, once per request |
| Calendar opening (`apps/api/src/inventory/rooms.service.ts`) | calendar rows | `openAvailability` | reopening never resells a room |
| Raw inventory calls (`inventory.service.ts`) | the counter | reserve, release | |
| Maintenance blocks (`stayview/blocks.service.ts`) | blocks of numbered rooms | create, update, release | a blocked room is not sold |
| Room assignment (`room-units.service.ts`, `packages/db/src/housekeeping-ops.ts`) | legs on numbered rooms, planned moves | assign, move, exchange, auto-assign, the sweep of planned moves | each night of a stay is in one room, and no two stays or blocks share one |
| Night audit (`nightaudit.service.ts`) and day close (`automation/day-close.service.ts`) | business date, audit runs | sweep, charges, levies, no-shows, overstays, closing of tills, roll; the timer | once per date, nobody missed or charged twice, never stuck |
| Folio and levies (`folio/*.ts`) | windows, lines, transfers | post, void, split, close, reconcile | a closed bill was settled, levies follow the stay |
| Cashiering (`cashiering.service.ts`) | drawers, shifts, vouchers, accounts | open, close, expenses, charge to and settle an account | a frozen total explains the till |
| Payments (`payments/take-payment.ts`, `packages/db/src/sequences.ts`) | payments, document series | take, refund | receipts are dense, no more is given back than was paid |
| Invoices (`finance/invoices.service.ts`) | tax documents | issue, credit | a window is invoiced once |
| OTA ingestion (`ota.service.ts`) | inbound reservations | ingest, retry, cancel | one booking per external reference |
| Channel outbox (`packages/db/src/outbox.ts`) | outbox rows | enqueue, claim, mark, requeue | every change reaches the channel manager or is a dead letter |
| Worker (`apps/worker`) | BullMQ jobs, timers | relay, job processor, failed listener, hold sweep | at-least-once, nothing in progress for ever |
| Channel-manager adapter (`packages/cm-adapter`) | none | push | a push makes the other side read the data again |
| Work orders, step-up, mail, vouchers, rates, configuration, billing, CRUD | see `PROJECT.json` | | |

### How they interact

All shared state is in Postgres. Every operation of the API is one READ COMMITTED transaction
(`withTenant`). Those on a booking lock its row and change the counter with conditional UPDATEs, so
the row locks of the nights order concurrent sales; those on money and rooms mostly read what they
decide by without a lock and write by id. The same transactions write outbox rows. The worker
polls: its relay moves outbox rows to a Redis queue every 1.5 s, its hold sweep cancels due holds
every minute. The night audit runs the same sweep in its own transaction, with the charges, the
check-outs and the tills of the whole hotel.

### What is hard

- Concurrent sales of the last room, and a sequence of releases, undos and reinstatements of one
  stay: `inventory_held`, `inventory_released_from` and the legs record the same fact three ways.
- Two clocks: the calendar date and the business date of the audit, either of which may be ahead.
- Statements of one transaction that read, and later write what was read: `openAvailability`, the
  night audit's plan, the closing of a shift or of a bill, the guest check of a block.
- Crashes between two transactions of one request (OTA imports) or between a push and its
  bookkeeping; requeues that race running jobs, retries that race the first try, replays.

`PROJECT.json` lists every such hazard at its line with the properties that are about it.

## 2. Modules

| Module | What it is |
| --- | --- |
| `StayInventory` | one room type over several nights: bookings, counter, sweep, night audit, two clocks |
| `RoomLedger` | the abstract promise of the counter; `StayInventory` refines it (`KeepsLedger`) |
| `CalendarReopen` | one night at the level of statements and row locks: reopening against sales and blocks |
| `Rooms` | the numbered rooms: legs, planned moves, blocks |
| `NightAudit` | the audit statement by statement against the desk, by hand and by the timer: room lines, levies, no-shows, check-outs, the date |
| `Tills` | shifts of the cash drawers, their two closings, the receipt series |
| `Bills` | folio windows: lines, splits, payments, refunds, the company account, closing, tax documents |
| `Intake` | channel reservations and keyed requests, delivered and retried, with crashes |
| `Outbox` | outbox rows, relay, queue, job processor, crashes |
| `*Proofs` | their theorems, one module for each of the eight above that have them |
| `MC*` | the instances TLC checks, and two statements of the repository that the code does not keep |

The state the modules share in the database (a booking's status, its dates, its legs) is modelled
in each of them as far as its own properties need it. Each module says in its header what is a
single step and why: an operation that locks the rows it reads is one step, and one that reads and
later writes without a lock is as many steps as it has statements that matter. A refusal rolls back
and is a stutter, or a step that only ends the request. Refusals for plans, approvals, documents or
room readiness only make fewer steps possible and are left out.

### StayInventory and RoomLedger

`bk[b]` is a booking row with its legs: status, kind, dates, rooms, hold (`none`, `running`, `due`
for a null, future or passed `hold_until`), `releasedFrom` (`inventory_released_from`), `live` and
`legsTo` (whether its legs are released and where they end), whether it was checked in or out today,
voided, from an OTA. `rts[n]` is the counter, `today` and `business` the two dates. There is one
action per operation of the desk, one for a worker sweep (any part of the due rows: SKIP LOCKED
leaves locked ones), one for the night audit, and two for time. A request for several room types or
a group is a sequence of single bookings. Automatic check-outs of the day close are `CheckOut` on or
after the departure day.

`RoomLedger` has two variables: the rooms each booking keeps per night and what is left. A step
either gives rooms back, for any number of bookings, or grants one booking more rooms on open nights
out of what is left; `left` always follows. `StayInventory!KeepsLedger` maps the live legs to `kept`
and `rts` to `left`.

### CalendarReopen

One night, one room type. A holder (booking or block) that updates the row holds its lock until it
commits or aborts; a block that finds no row takes no lock and reserves nothing, as
`reserveConfiguredInventory` has it. An owner counts bookings, counts blocks, and writes, in three
steps. Three history variables make the promise precise: `offered` (what the last reopening put on
offer), `over` and `lost` (the rooms it did not see, or saw although they had left).

### Rooms

`legs[b]` is the sequence of leg rows of a booking, released ones included, each with a room (or
none), its span, and whether it is live, freed by the last release or by an older one. Assigning or
moving (`Begin`, `Look`, `Write`), and blocking (`BeginBlock`, `WriteBlock`) look and write in
separate steps; the exclusion constraints of the two tables (`Fits`, `CanWriteBlock`) hold at the
write. `PlanMove` records a move for a later night and `ApplyMove` is the worker that carries it out.
A history variable, `strayed`, names the bookings of which a freed leg was moved all the same.

### NightAudit

Two audits, by hand and of the timer, each a transaction: `Begin` reads the plan and sweeps,
`LookUp` and `Insert` post one room line each, `PostLevies` all levies, and `Commit` takes effect with the
recheck under the row locks and the unique indexes. `live[k]` counts the lines not voided of a
booking, night, source and window. A desk operation is one step, except the posting of room charges
by hand (`BeginPost`, `CommitPost`), which looks and inserts like the audit. `Conflict` is the second
of two audits of one date; `Crash` a restart or a broken deadlock. `raced` and `touched` name the
bookings the desk changed while a posting or an audit was between its reads and its writes.

### Tills

A shift row, the entries on it (payments, refunds, expenses), and requests that read the shift and
write later. A closing sums in three statements and then updates by id; the audit lists the open
shifts, closes them one by one and commits later. A frozen total is the set of entries summed, not
a number. `series` is the receipt series: its next number and the transaction that holds its row.

### Bills

One stay with two windows. A request enters a window (`loadOpenFolio`), reads what it decides by,
and writes in a later step. Issuing locks the window's row, so new lines, payments, transfers (by
their foreign keys), closings and credit notes wait; a void does not. Charges and payments are of one
unit; a document is the set of its lines. `drift` and `late` say how far a closed window has moved
since its closing read it, and which requests may still move it; `raced` names the windows and the
account of which two requests read one balance. The lines of room nights and levies (`Nightly`) and
those of pick-ups, drop-offs and inclusions (`Services`) are posted and struck by the hotel itself,
which does not ask whether their window is open: they go to an open window that claims them or else to
window 1 (`Routed`), and a levy or a night at a new price to the window the others stand on (`Joined`).
Since prices are units, a higher price is one line more and a lower one a strike. The bill of a hotel
that never posts nights, whose first invoice lists the nights instead, is left out. Nights billed twice by a posting and a transfer are `NightAudit`'s subject: here a line is posted
once.

### Intake

`row[r]` is the row of a channel's reference, `key[k]` that of an idempotency key with the
transaction that has written it; `bookings` are all bookings made. Recording, importing and marking
are separate transactions, and `Die` may end a request between any two of its steps. The `try` of
`import` covers its COMMIT: when the connection is lost after Postgres has committed, the request goes
on to the catch with the booking standing (`ImportUnanswered`), and `MarkFailed` marks the booked row.
The desk checks in, cancels and reinstates channel bookings like its own and never looks at their row.
Two histories name what follows from that: `forgotten`, the bookings whose import was marked failed,
and `reinstated`, those that stand because the desk brought them back.

### Outbox

`row[e]` is the outbox row, `hands[e]` counts relay ticks that claimed it and have not queued it,
`job[e]` is the BullMQ job with the row's id and how far its run is, `dying[e]` a failed listener
that has not written yet. `version` counts the hotel's changes and `channel` is the last one the
channel manager has read. BullMQ is external: unique job ids, retries, `removeOnComplete` and
`removeOnFail`, one recovery of a stalled job. Every call that can fail has an action for it.

## 3. What is checked

| Run | Bounds | Shows |
| --- | --- | --- |
| `desk` | 2 bookings of 1-2 rooms, 2 rooms, 2 nights | `Conserved`: left + kept = hotel; `LiveStayIsHeld`; `RowChecks`: no row a CHECK would refuse; `KeepsLedger` |
| `week` | 2 bookings, 1 room, 4 nights, stays made for nights 2-3, cut and stretched to nights 2-4 | `NoShowKeepsArrival`, `RecountCoversHeld`, `SleptNightsStaySold`; with the sweep fair, `DueHoldIsReleased` |
| `reopen_race` | 2 bookings, 1 block, 2 owners, 2 rooms, 1 raw call each way | `OversoldOnlyByRaces`, `UndersoldOnlyByRaces` |
| `rooms` | 2 guests (1 handled by the desk), 2 rooms, 2 nights, a block of the last, 2 legs, 1 planned move | `NightsHaveOneLeg`; `ClashesAreKnown`: where a guest can come into a blocked room |
| `night_day` | 1 stay of any dates, 2 nights, one audit by hand, any of the timer | `EachDateClosedOnce`, `BilledOnce`, `ClosedNightIsBilled`, `LeviesMatchStay`, `OnlyUnarrivedAreNoShows` |
| `night_catchup` | 1 stay, 1 night, fairness | `BehindCatchesUp` |
| `tills` | 1 drawer, 2 shifts, 2 requests at a time, 3 in all, the audit, fairness | `TotalExplained`, `ReceiptsDense`, `RequestsEnd` |
| `bills` | 2 windows, a room night, a levy, a pick-up and an extra, 2 requests at a time, 4 in all, credit limit 1 | `ClosedOwesOnlyWhatWasUnderWay`, `InvoicedOnce`, `LimitsBreakOnlyByRaces` |
| `intake` | 1 channel reference, 2 keys, 2 requests at a time, 4 in all, 2 rooms, fairness | `BookedOnce`, `CancelledIsReleased`, `KeyBooksOnce`, `ReceivedSettles` |
| `outbox_faults` | 2 events, 2 attempts, 2 faults, 1 replay, fairness | `AllSentMeansSynced`, `DeadLetterWasTried`, `EveryRowSettles` |

All of these runs but `week` and `night_catchup` check the type invariant of their module too.

Two bookings are enough to compete for a night and to overlap partially; nights 2 to 4 give a stay a
first, a middle and a last night, with the two dates before, in and after it. Two rooms with
bookings of up to two let a booking be refused with rooms left. In `night_day` the audits meet the
desk on one booking: they treat the bookings one by one, and what relates two of them (the date, the
run) does not depend on their number. Two requests at a time are what every race of `tills`, `bills`
and `intake` is made of; the counts of requests in all are large enough for a closing to be overtaken,
an issue to follow a credit, a levy to join others on a window that was paid and closed, a channel to
cancel what a retry has booked again, and a key to be pruned and used again. Three entries of a till meet both
a closing by hand and a forced one. Two events suffice for a push to overtake another.

Runs without the deadlock check stop because a bound of the model is reached (the last night, the
last request); the hotel goes on.

**Fairness.** `week`: only the worker's sweep is fair, and for each booking that is due: its timer
fires every minute and SKIP LOCKED passes over a row only while some transaction holds it.
`night_catchup`: the timer asks again, audits that have begun go on, and so does a posting by the
desk; crashes other than conflicts, voids of lines and moves of departures come to an end, because
each of them can undo the audit's work. `tills` and `intake`: a request the server has begun goes on.
`outbox_faults`: the relay's calls, the processor, the queue and the passing of time; the faults are
finitely many. No guest, desk or owner is ever assumed to act.

**Runs that must fail.** Two runs check a statement of the repository that the code does not keep:

- `claim_unconfirmed`: a cancelled inquiry, failed online booking or unconfirmed hold cannot be
  reinstated, because `reinstate` leaves the kind alone and a CHECK refuses the row.
- `claim_reopen`: a booking that commits between the count and the write of a reopening is oversold.

**What the modelling brought up.** These behaviours are in the models; the properties are stated so
that they say exactly what remains true in spite of them.

- Rooms to sell: a lapsed hold that is reinstated keeps its past release time, and the next sweep
  cancels it again. A check-out on the arrival day frees the nights but is still counted by a
  reopening. A failed online booking holds its rooms, although a comment says it does not.
- Numbered rooms: a guest and a block may come to share a room when their requests pass each other,
  and an extension, a reinstatement, an undone check-out and a planned move look at no block. A
  planned move of a cancelled booking stays planned, and goes on keeping its destination room. The unique first night of a leg refuses some
  moves. An exchange rewrites nights that were slept.
- Night audit: a night can be billed twice when a line is transferred between a posting's look-up
  and its insert. A departure shortened while an audit's levies are pending keeps the levy.
- Bills: "A closed window never takes a new line" (`folio/windows.ts`), but room nights,
  inclusions and finished pick-ups and drop-offs go to window 1 whatever its status, levies follow the
  stay's levies onto a closed window, an amended night is posted again where it stood, and shortened
  stays, reconciled levies and cancelled pick-ups strike lines on closed windows. A closing reads, then updates by id, so a post, void, transfer or payment
  under way lands on the closed bill; so does a void of a line that was moved to it. A charge that was
  invoiced and then moved can be invoiced again on its new window. Overlapping refunds can give back
  more than was paid, and overlapping charges can pass the credit limit.
- Tills: two closings of one shift both succeed, and the later rewrites what the earlier froze.
- Intake: two retries of one failed reservation at once book it twice, although "Only failed
  reservations can be retried" (`ota.service.ts`). A cancellation that arrives before its reservation
  is forgotten. An import that died stays `received` and nothing takes it up. One whose COMMIT was not
  answered is marked `failed` although it is booked: a single retry books it twice, and a channel's
  cancellation releases nothing. A booking the channel has cancelled and the desk reinstates takes its
  room while its row stays `cancelled`, and the channel can cancel it no more.
- Outbox: a replayed dead letter may be given up again without a push.

## 4. What is proved

Every theorem is for all values of the constants that satisfy the module's named assumption: finite
sets, natural numbers, distinct markers; for `Rooms` at least one booking, because an idle request
has to name one. No behaviour is excluded but by the module's bounds. Every invariant and every safety
action property that a passing run checks is the statement of a theorem, and so is the refinement.

**StayInventory** (`StayInventoryProofs`): the type invariant, `Conserved`, `LiveStayIsHeld`,
`NoShowKeepsArrival`, `RowChecks` and `RecountCoversHeld`. None is inductive alone. What a release
gives back is computed from the row (`releasedFrom`, the dates), what a booking keeps is in its legs;
conservation needs both to agree. The inductive invariant adds this agreement for each booking
(`LegsMatch` and the other parts of `AllCoherent`). Each action has a lemma; counting is done once,
in lemmas about a booking that gives nights back, takes nights or changes them, and in `BatchStep` for
the sweep and the audit, which give back for many bookings at once. On that invariant,
the module also proves the action property `SleptNightsStaySold`, with one lemma per operation
that can write the row of a stay in house or gone, and the refinement
`KeepsLedger`: what one booking keeps more of is what the counter lost, an operation takes open nights
only, and the sweep and the audit, which write many rows, only give back.

**CalendarReopen**: both bounds of the counter, for any number of holders and owners. The extra
invariant says that a transaction holding the row's lock found the row as it still is.

**Rooms**: the type invariant, `NightsHaveOneLeg` and the action property `ClashesAreKnown`. That
each night has one leg is not inductive, because an undo brings back the rows the last release freed,
whatever happened since. The invariant (`Slept`) therefore says two things of a booking no freed leg of
which was moved: its live legs tile the nights from the arrival to where it still holds them
(`Tiles`: they stay within the dates, cover every night, and no two overlap), and the legs of the last
release tile the whole stay whenever that release was of the whole stay. A request that has looked
still asks for a date inside the leg it locked (`Requested`), so a split leaves no night out; a planned
move names a row that exists (`Planned`). Cutting, stretching, splitting, releasing and restoring each
have a lemma on sequences of legs, and the operations only combine them. `ClashesAreKnown` follows
step by step: an operation outside the list either changes no leg's room and adds no night, or gives
only rooms and nights that no block holds in the step in which it writes (`KeepsApart`).

**NightAudit**: the type invariant, `EachDateClosedOnce`, `BilledOnce`, `ClosedNightIsBilled`,
`OnlyUnarrivedAreNoShows` and `LeviesMatchStay`. The invariant (`Sound`) says what a transaction still
knows: as long as the desk has left a booking alone since the audit read it, its status and dates are
those the audit planned with, the lines it has looked up are on no bill or already pending, and a
levy stands for every night it should. An audit of an old date can only end in a conflict.

**Tills**: the type invariant, `TotalExplained` and `ReceiptsDense`. The invariant says how much of
the cash a closing has counted after each of its statements (`Summing`), that what a request counted
is of its own shift, and the same of the shifts the audit holds (`Forced`); numbers follow because the
number of receipts is what the series has given out.

**Bills**: the type invariant, `ClosedOwesOnlyWhatWasUnderWay`, `InvoicedOnce` and
`LimitsBreakOnlyByRaces`. A closing reads the lines, then the payments, and closes by id; the invariant
keeps account of it (`Counted`): what it has read differs from what is true by its drift, from the
first read to the write. A request that found its window open and has not written yet is known to the
window once that is closed, and so is the void of a line that has moved to it (`Known`), so what
changes a closed balance changes the drift by as much; that a line of the hotel's own is posted by one request
(`RoutedApart`) makes the change of a late posting exactly one. For documents, an issue under way is
alone on its window with none standing, and a credit note under way is alone on a document that still
stands (`IssueAlone`, `CreditAlone`). For limits, where no two requests have read the same balance at
most one is under way, and there is money for it (`RefundsFit`, `ChargesFit`).

**Intake**: the type invariant, `BookedOnce`, `CancelledIsReleased` and `KeyBooksOnce`. The invariant
gives each kind of request its steps (`CallsCoherent`), says that of an unraced reference at most one
request is past its record and that the row is still as it found or left it (`WriterKnows`), that
every booking the row does not name is a forgotten one (`RowKnows`) and that those of a cancelled row
that take a room are forgotten or reinstated (`Excused`), and that a key is held by the one transaction
that may book under it (`KeysCoherent`). The desk may bring a booking back at any moment, so what a
step keeps of the other references is that no booking comes back except to `reinstated`
(`NoneComesBack`).

**Outbox**: the type invariant, `AllSentMeansSynced` and `DeadLetterWasTried`. A row is sent only if
the channel manager has read a version at least as new as it announces, some row announces the newest
version, and neither row nor job counts an attempt that did not start.

**Model-checked only.** Liveness (`DueHoldIsReleased`, `BehindCatchesUp`, `RequestsEnd`,
`ReceivedSettles`, `EveryRowSettles`) depends on fairness, which is out of the prover's reach. The two
statements that the code does not keep (`claim_unconfirmed`, `claim_reopen`) are refuted by TLC's
counterexamples. For these alone the bounds of section 3 matter; a theorem does not depend on them.

## 5. What is not modelled

- Prices, taxes, rounding, currencies, splits by ratio and commissions: decimal arithmetic. A bounded
  module of the tax split and the rounding rules would be a separate, purely functional one.
- The reminder of a hold, work orders, cleaning queues, approvals with one-use tokens: each is one
  conditional UPDATE.
- Pro-formas, number formats, the legacy invoice, statements, reports, notes and searches.
- The lock order of several nights: an operation that locks several rows is one step, and a deadlock
  Postgres breaks is a refusal (`Crash` in `NightAudit`).
- Masters and other record keeping, files, mail, plans, tenancy (one tenant at a time), and the web
  front end, which is most of the repository's lines: it keeps no shared state, so the share of the
  source these modules stand for is small. `PROJECT.json` gives the reason per component.

Next: the hold reminder and work orders as once-only claims.
