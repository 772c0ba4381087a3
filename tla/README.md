# Verification of the BV platform

TLA+ modules, TLC configurations and TLAPS proofs for the Go server in `src/api`
(the web front ends in `src/web`, `src/website` and `src/packages` only call it).
Part 1 is the inventory of the system, part 2 what is modelled, part 3 what is
checked, part 4 what is proved, part 5 what is left out and why.

## 1. Inventory

The server is one Go program with two binaries (`cmd/api` for HTTP, `cmd/worker`
for River jobs) over one PostgreSQL database; there is no other shared state.
A request handler is one database transaction, opened by `platform/db` at READ
COMMITTED; a job is one or several. Components therefore interact in three ways:
they call each other inside a transaction (Go calls and hooks), they read and
write the same rows from different transactions, and they enqueue jobs in the
transaction that causes them (outbox).

| Component | State it keeps | Operations | Talks to | What is hard | What makes it correct |
|---|---|---|---|---|---|
| BVRooms booking lifecycle (`bvrooms/booking, payment, sweep, notify, admin`) | booking row (payment status, deadline, override), reservations of its lines, payments | create, cancel, choose payment, presign/confirm proof, verify, reject, refund, sweep, desk actions | hotel.Act, storage, jobs | unlocked reads, sweep in two transactions, one transaction per line, hook that counts the other lines | a closed booking holds no room, money is never forgotten or taken twice, a confirmed room is covered |
| Hotel (`hotel`) | room types, rooms, reservations | create, update, act, room status | BVRooms hook, housekeeping | availability counted under a type lock that Update does not take; `Act` decides on an unlocked read | no room twice, never more stays than rooms, rooms know their guests |
| Facility booking (`booking`) | facility, closures, bookings | create, act, close, change, delete | tenant side | exclusion constraint, stale transitions | no two bookings of one slot |
| Commercial (`commercial`) | listings, leads, sale and rental reservations, occupancy of the unit | publish, reserve, sign, pay off, move in and out, cancel | billing | two desks write one unit, unique indexes only | a unit is held by one, what is offered agrees with it |
| Task engine (`operations`, `operations/workflow`) | tasks, work orders, incidents, findings, checklist answers, SLA clock | assign, transition, update, answer, escalate | sync, tenant side, notifications | reassignment and reopening in any order, parent/child resolution, the clock racing the sweeps | only legal transitions, work has somebody to do it, the clock follows the work, the last work settles what is above it |
| Service requests (`tenantservice`) | tickets of tenants | triage, assign, generate work, answer, close, reopen | task engine | chain of work below a ticket | resolved when the last work is finished |
| Field synchronisation (`sync`) | results of mutations per device, evidence | push, bundle, acknowledge | task engine, attachments | resent batches, gaps, overlapping pushes, conflicts, handlers that die between transactions | each mutation applied once and answered the same, evidence kept |
| Unit billing (`billing`) | runs, invoices, payments, balances, penalties, credit notes, bank lines | generate, issue, initiate payment, webhook, receive, apply balance, refund, void, correct, match | providers, finance | repeated and late webhooks, overlapping receipts, balance spent twice | money that came in is in the books, once; a charge is billed once |
| Finance (`finance`) | webhook endpoints, deliveries, accounts | deliver, retry, export | external systems | retries with back-off, hand retry during delivery | delivered at least once, a success not sent again, ends |
| Jobs and worker (`platform/jobs`, `platform/events`, `worker`) | River jobs | enqueue in the transaction, work, retry | all | a job repeats after a failure, several subscribers in one job | every committed event is handled |
| Idempotent requests (`platform/httpx`) | stored responses | lookup, run, store | all handlers | three transactions | a repeated request is told an effect of its own body |
| Inventory (`inventory`) | levels, journal, parts and consumables | move, use, remove, count | task engine | decisions on earlier reads, an upsert guarded by a CHECK | the journal explains the level |
| Billing runs (`billing/runs`) | runs, their lines, the invoices they make | create, refresh, choose, generate, issue, cancel, sweep | invoices | several runs of one period meet the same charges | a charge is billed once |
| Engineering (`engineering`) | maintenance plans, schedules | publish, archive, generate, turn into work, skip | task engine | hooks of work write schedules that other handlers cancel | a schedule tells what became of its work |
| Housekeeping (`housekeeping`) | cleaning schedules and their tasks; routes, runs of a day, stops | create, change, generate, progress | task engine, hotel | a change withdraws tasks and writes them anew; progress counted by every handler that ends a stop | tasks follow the schedule as it is now; a run is over when its stops are |
| Security patrols (`security/service`) | schedules, patrols, scans | generate, scan, miss, complete | task engine, sync | scans race the completion | nothing is left unrecorded |
| Emergencies (`security/emergency`) | alerts, their timeline | raise, answer, escalate | incidents, sync, notifications | raised twice, escalated while answered, an incident with handlers of its own | one incident per alert, escalated until answered |
| Announcements (`tenantrelation/announcements`) | notices | write, plan, change, publish, archive, broadcast | notifications | a plan that changes while handlers and the sweep publish | published once, tenants told exactly if they are meant |
| Identity (`iam`) | users, sessions, refresh tokens, invitations, roles | login, refresh, revoke, invite | all | rotation, reuse detection | one live token per session |
| Workforce (`workforce`) | shifts, roster, attendance | assign, copy, change hours, cancel, clock in and out, sweep | sync, security | late clock-ins of offline devices, hours that change under a session, a sweep that ends sessions | nobody on duty twice, no hour counted twice |
| Gate (`security/permits`, `security/parking`, `visitor`) | permits, vehicles, visitors, passes | request, approve, revoke, expire, register, admit | notifications | permit and vehicle carry one date in two rows; passes follow the visitor in some actions only | what the guard looks up is what was granted |
| Assets, metering, parcels (`asset`, `metering`, `parcels`) | registers, readings, one row each | edits, guarded updates | task engine, billing | | only legal transitions |
| Tenant side (`tenantapp`, `tenantrelation/service`, `vendor`) | registrations, accounts, members | submit, review | billing, notifications | approval races | |
| Master data, reports, search, exports, audit, notifications, seeds | | edits, reads | | | |

`PROJECT.json` lists every component with its status and every hazard at its
line.

## 2. What is modelled

**How a transaction is cut.** At READ COMMITTED a plain SELECT sees what is
committed at that moment and holds nothing; an UPDATE re-evaluates its WHERE on
the committed row after waiting for the row's lock. A handler is therefore:

1. a *read step* (`...Read`) with the early returns as guards, which keeps in
   `ops[q]` exactly what the handler uses later (for example the payment status
   from which `cancelBookingTx` computes the refund);
2. a *write step* (`...Commit`) with the UPDATEs of the handler and the WHERE
   clauses, unique indexes and exclusion constraints evaluated on the rows as
   they are now.

A handler that locks what it decides on (FOR UPDATE, or an UPDATE whose WHERE
is the decision) is one step. Every handler may also end without effect. The
UPDATEs of a write phase are one step: they are several statements in the code,
but the rows stay locked until the commit, and a second writer waits and then
re-evaluates; interleaving them gives a result of some serial order or a
deadlock, whose victim rolls back. Where a handler locks a row and *then* reads
others, the lock is state (`LineLocked`, `PaymentLocked` in BookingLifecycle).

`Transactions` holds this for the desks: `ops`, and `serial`, chosen at the
start. In a *serial* behaviour no handler works between the two steps of
another (`Turn`, `Calm`): what holds only then is a property of each handler,
and what overlapping behaviours keep besides is what the locks, the guarded
UPDATEs and the constraints of the database are for.

| Module | Part of the code | State |
|---|---|---|
| `BookingLifecycle` | one BVRooms booking | below |
| `RoomInventory` | one hotel room type: creation under the type lock (desk and BVRooms), `Update`, `Act`, room statuses, closures, turnover | `stay[r]` rows of `hotel_reservations`; `room[m]` `room_status`; `today`; `repaired` history: rooms whose status was changed while a guest was in |
| `FacilityBooking` | one facility: bookings by staff and tenants, `Act`, closures, change, deletion | `facility`, `closures` (`facility_schedules`), `fbooking[b]`, `now` (unit: the five minutes a booking may begin in the past) |
| `UnitDesk` | one unit for sale and for rent | `unit` (occupancy, tenant), `listing`, `lead`, `sale`, `offer`, `rental`: one row each per number |
| `Periods` | `daterange`/`tstzrange` and the exclusion constraint | none |
| `TaskWorkflow` | transition tables, assignment, update, answers, SLA clock of one object | below |
| `TicketChain` | a ticket, the tree of work, findings, incidents and follow-ups below it, its SLA clock and sweep | `ticket`, `clock`, `chain[n]` (kind, source, status, follow-up) |
| `FieldSync`, `MutationOutcome` | the push of the field app and what it promises | below |
| `UnitBilling` | receivables of one party | `invoice`, `payment`, `credit`, `overflow`, `posted`, `note`, `penalty`, `item`, `edited` (history: penalties with items written by hand), `line`, `heard`, one comment each in the module |
| `BillingRuns` | the billing runs of one period | `run[r]` (status, `line[c]` per charge), `bill[i]` |
| `EventDelivery` | event, job, subscribers, webhook deliveries, sweeps | `job`, `told` (history), `endpoint`, `delivery`, `sweep`, `taken` (history: how often a receiver accepted a delivery, less what excuses another time) |
| `RequestRepeats` | POST requests under one Idempotency-Key | `post`, `kept`, `effects`, `replies`, `broken` (the last three history) |
| `Stock` | one stock item: levels, journal, parts and consumables | `place`, `level`, `journal`, `usage`, `work`, `cost`, `charged`, `byHand` (history: the part of `charged` that people entered) |
| `MaintenancePlan` | one plan: its schedules and the works and inspections made from them | `plan`, `due[d]` per due date, `piece[p]` (work orders and inspections), `today` |
| `CleaningPlan` | the cleaning schedule of one area: creation, change, the sweep, and the life of its tasks | `cleaning`, `chore[d]` per date, `promised` (history: the days a generation looked at), `cleaningDay` |
| `Rounds` | one cleaning route with its runs and stops; one patrol schedule with its patrols and checkpoints | `route`, `walk[d]`, `stop[d][x]`, `beat`, `patrol[d]`, `scan[d][x]`, `day` |
| `Emergencies` | alerts, their answers and escalation, the incident of each | `alert[a]` with its timeline `log`, `incident[a]`, `escalation` (the rows the sweep has locked), `moment` (unit: `EmergencyAckTimeout`) |
| `Notices` | announcements | `notice[n]` (status, planned hour, target lists, audience), `announced[n]` (history: whom each publication told), `readdressed` (history: published notices whose audience was changed), `hour` |
| `Shifts` | one member of staff: roster, hours of the shift, clock-in and clock-out, sweep | `hours`, `roster[s]` per date, `attend[r]` per session, `tick` |
| `Gate` | one vehicle with its parking permits; one visitor with his passes | `vehicle`, `permit[p]`, `apart` (history: the date was set by hand, or two permits were approved at once), `visitor`, `pass[k]`, `now` |
| `MC...` | instances; a *scene* is the part of the handlers that meets in one behaviour | `scene` |
| `..._proofs` | theorems | |

### BookingLifecycle

One BVRooms booking from creation to its end. Every statement the handlers run
is keyed by the booking's id, so bookings do not interact (availability, where
they do, is RoomInventory) and one booking is the whole story.

| Variable | Code |
|---|---|
| `booking` | `payment_status`, `payment_deadline_at`, `status_override` of `bvrooms_bookings` |
| `res[l]` | `status` of the `hotel_reservations` row of line `l`; `UnitLines` are the apartments, which Front Office handles with `unitReservationActTx`, the other lines are hotel rooms, handled with `hotel.Act` |
| `payments[p]` | `status`, `method_code` and proof object of the `bvrooms_payments` rows, numbered by `created_at` |
| `requested` | how many transactions have fixed a `created_at` |
| `ops[q]` | the handler request `q` is in, and what it has read and will use again |
| `due` | the booking is in the sweep's list of rows to expire |
| `received` | history only: the payments that were ever set to `paid` |
| `now` | the clock (`Tick`); its unit is whatever the configuration makes of the constants |

`unitReservationActTx` and `hotel.Act` update the reservation before the hook
counts the other lines; `VerifyPayment` and `RejectPayment` hold the payment:
these locks are state and writers wait. `RefundDone` reads FOR UPDATE and writes
one row: a single step. `ProofPresign` decides and writes on one row whose only
changed column is the object key: a single step. `AdminBookingAction` runs one
transaction per line and stops at the first failure: since any prefix of it is
possible, it is a free choice of line actions, one request each. `Abort` covers
every way a handler ends without effect. The sweep is `SweepSelect` (the query),
then `SweepExpire` (the transaction of the row) or `SweepFail` (its error,
logged).

Left out: names, amounts, dates other than the arrival day, prices,
notifications, the change of guest data and reviews: no guard of a modelled
action reads them. The arrival is three constants (`ArrivalDay`, `ArrivalTime`,
`DayAfter`), which is all that `AllowedActions` and the cancellation deadline
compare with the clock.

### TaskWorkflow

Tasks and work orders of `operations`: the transition table of `workflow.go`
(`Rule`), the checks of `TransitionTx` in their order (`Refusal`), assignment,
update and checklist answers.

| Variable | Code |
|---|---|
| `task[o].status`, `.assigned` | `status` and the assignees (users, or the members of the team) of `tasks`/`work_orders` |
| `task[o].evidence` | whether the checklist and photos the object requires are there (`evidenceSatisfied`) |
| `sla[o].paused`, `.resolved` | `paused_at` and `resolved_at` of `sla_tracking` are set |

`Assign`, `Transition` and `Update` read the row FOR NO KEY UPDATE before
they decide, so a handler is one step. `AnswerItemTx` reads the object without a
lock; it only adds an answer, so it is placed where it reads the status. A
`Manager` has every permission, a `Worker` those of field staff. `Update` may
change what evidence is required and therefore chooses `evidence` freely.

### TicketChain

Where TaskWorkflow is one object with every guard, TicketChain is the tree of
objects with the statuses that matter to their parents: `Below` is
`openDescendants`, `Settles` the hook that resolves findings and incidents whose
work is finished, `Verdict` what the end of the last open object does to the
ticket. A ticket has the SLA clock with its due time, pause, recomputation after
a change of priority and the sweep that marks the breach; work has none here
(TaskWorkflow has it).

### FieldSync and MutationOutcome

The field app works offline: it queues mutations (start, hold, resume, complete,
an answer, a finding), numbers them per object, and sends what is not settled;
`sync.Service.Push` answers each. FieldSync EXTENDS TaskWorkflow, so the
dispatch of a mutation is the task engine's own `Refusal` and `Move`, and
`Others` are the requests of everybody else between two transactions.

| Variable | Code |
|---|---|
| `made[d]`, `told[d][i]` | the queue of the device and what it knows of mutation `i` (`contracts/sync-api.md`) |
| `push[d][s]` | a `Push` under way: where it is, the rest of the batch, the answers, its maps `lastSeq` and `blocked`, the verdict on the current mutation |
| `stored[d][i]` | the row of `sync_mutations`: first result wins (ON CONFLICT DO NOTHING) |
| `kept[d]` | mutations whose payload went to the timeline (`preserveEvidence`) |
| `done[d][i]` | history only: how often the mutation took effect |
| `faults` | how many transactions have failed |

Every transaction of `Push` is a step: `Lookup` (`previousResult`), `Order` (the
maximum of the recorded sequence numbers, once per object and push, and the
`SEQ_GAP` answer), `Apply` or `Refuse` (the dispatch together with the record of
an effect), `Classify` (`isReassigned`, after a missing permission), `Store`
(the record of a refusal with its evidence). `LookupFails`, `ApplyFails` and
`StoreFails` are what the handler makes of an error in each: no earlier result,
a rejection, nothing. `Lose` is a handler that dies between two transactions or
an answer that is lost; the device sends again. `Slots` are the pushes of one
device that may overlap (a client that gives up waiting and sends again while
the first handler still runs). The device is external code, modelled from the
contract that `Push` is written for.

`MutationOutcome` is what synchronisation promises, without batches, sequence
numbers, transactions or tasks: a mutation gets one outcome, takes effect exactly
if that is `applied`, and the device is told that outcome and no other. `Promise`
in FieldSync reads the outcome off `done` and `stored`, and
`PromiseKept == Promise!Spec` is checked and proved.

### UnitBilling, BillingRuns

UnitBilling follows the money of one party. `settleTx`, `refundTx`,
`DecideCreditNote`, `issueTx` and `matchLineTx` lock what they decide on;
everything else (initiating a payment, receiving one by hand, applying the
balance, voiding, correcting, penalties, matching by hand) is a read and a
commit. Amounts are small numbers; a total is paid, partly paid or exceeded.
BillingRuns has lines with and without exceptions instead of amounts, because
runs of one period meet only in the index that binds a charge to one invoice.

### EventDelivery, RequestRepeats

An event is a River job in the transaction that causes it. `Handle` hands it to
three subscribers in turn; a failure or a death repeats all of them. The last one
inserts a delivery per active endpoint; `Claim` takes due ones for five minutes,
`Post` sends, `Store` writes the outcome and the back-off. RequestRepeats
is the middleware: lookup, handler and storing of the answer, with the death of
the server between them and the client answered before the answer is stored.

### RoomInventory, FacilityBooking, UnitDesk, Stock

Four desks of the same make: handlers read, decide and write by id, and a
constraint of the table stands behind them (`Excluded`, `Apart`, `SaleIndex` and
the others, `Apply` for the CHECK of a level). They differ in what the
constraint does not cover, which is what their properties are about.

### MaintenancePlan, CleaningPlan, Rounds

Work that is planned ahead: rows of a calendar from which jobs make tasks, and
hooks of the tasks that write back what became of them. A due date is
`scheduled`, generated into work when its lead time begins, and then follows the
work (`OrderHook`, `InspectionHook`); archiving, publishing again, skipping and
deleting write the same rows from the other side. A run of a route counts its
stops (`Count`, `Refreshed`) whenever one ends; a change of the route empties
the runs it found unstarted. A patrol is completed by a hook that records what
was not scanned (`AllRecorded`). The cleaning schedule of an area generates a
task for every day it asks for (`ChoresOf`); a change of it cancels the tasks to
come that nobody has begun, removes the rows of those that are cancelled, since
they would stand for their day (`Cleared`), and generates again.

### Emergencies, Notices

Answering an alert locks its row, and the incident is moved by UPDATEs that
look at its status as it is then; `AssignIncident` and `TransitionIncident`
decide on what they read. The sweep locks what it escalates (`escalation`) and
computes the level from the age, so a sweep that comes late skips levels. A
notice is changed and published by handlers that read without a lock, while the
sweep of every minute publishes what is due in one step (FOR UPDATE SKIP LOCKED).

### Shifts, Gate

Clocking in is a read (is a session open, which shift is near) and an insert that
the unique index of open sessions checks again; cancelling an assignment is a read
(has anybody come) and an UPDATE by id. The hour of a clock-in is now, or up to
`Backdate` ago when a device sends it late. Clocking out locks the session. The
sweep ends what was forgotten at the end of the shift, or `Counted` hours after
the begin. In Gate every handler is one step: none of them locks what it decides
on, and what a later handler makes of an earlier one's leftovers is the question
asked. `Grant`, `AfterRevoke` and `ParkingPermitSweep` are the three places that
write, take back or leave the date of a permit on its vehicle; `IssuePass`,
`PassAfter` and `ExpireSweep` those that write passes.

## 3. What is checked

### Properties

| Property | Module | In words | Behaviours |
|---|---|---|---|
| `HoldsReleased` | BookingLifecycle | a cancelled or expired booking holds no apartment | all |
| `ConfirmedIsCovered` | | a confirmed apartment belongs to a booking that is paid or will be at the property | all |
| `RefundBacked` | | a refund is queued only where money came in | all |
| `StaysMoveForward` | | the stay in an apartment never goes back, a guest in the house is only checked out | all |
| `MoneyAccounted` | | received money means paid, or after a cancellation a refund; never expired | one request and the sweep |
| `ChargedOnce` | | of all payments of a booking one at most is ever paid | one request and the sweep |
| `CancelledIsSynced` | | cancelling the lines one by one closes the booking | one request and the sweep |
| `OverdueReleased` | | an overdue booking does not stay overdue | fair |
| `NeverOverbooked` | RoomInventory | no night has more stays than the type has rooms | serial; two creations may meet under their lock |
| `GuestsHaveRooms` | | a room is occupied exactly while one guest is in it, unless staff closed it under the guest | serial |
| `DeletedHoldsNothing` | FacilityBooking | a deleted facility owes nobody a slot: no booking to come survives the deletion, is made after it or is brought back | serial |
| `DeskAgrees` | UnitDesk | listings and leads tell what became of their sale; one renter at a time is the tenant; a unit with a tenant is not vacant | serial |
| `WorkHasAssignee` | TaskWorkflow | work that is assigned, under way, held or finished has an assignee | all |
| `SlaFollowsWork` | | the clock stands still exactly while work is held, and is resolved exactly while it is finished | all |
| `TicketClocks` | TicketChain | the clock of a ticket and of an incident is resolved exactly while they are; it stands still while the tenant is waited for; a ticket is flagged exactly when its clock was found breached | serial |
| `LastWorkSettles` | | what finishes the last open step leaves the ticket resolved and nothing pending above it | serial |
| `AppliedOnce` | FieldSync | a mutation takes effect once at most | serial pushes |
| `StartedOnce` | | a start happens once at most | all |
| `EvidenceKept` | | the evidence of a conflict that the device dropped is in the timeline | serial pushes |
| `NoGap` | | a device that numbers in order is never refused for the order | serial pushes |
| `PromiseKept` | | Push implements `MutationOutcome` | serial pushes |
| `QueueDrains` | | every queued mutation is settled in the end | serial pushes, fair |
| `ReceivedIsBooked`, `MoneyOnce` | UnitBilling | the money of every paid payment is in the books; nothing is there that no payment brought | the first all, the second serial |
| `CreditBacked` | | the balance is never spent twice | serial |
| `InvoiceAgrees` | | payments and corrections never exceed an invoice, its status says whether they reach it, a cancelled one holds no money, the sinking fund has its share | serial |
| `PenaltyBilledOnce` | | of a penalty whose items nobody wrote by hand, no more is billed than accrued, and all of it once it counts as billed | serial |
| `LineBookedOnce` | | the money of a bank line is booked once | serial |
| `ClosedStaysClosed` | | a payment that was refunded, failed or cancelled never becomes paid | all |
| `RunsBillOnce` | BillingRuns | a charge is billed once, lines point to the live invoices that bill them, no draft is left behind | serial |
| `StockExplained` | Stock | the journal explains every level, but for what was taken before a level had a row | all |
| `UsageExplained` | | the stock charged to work is what its rows of usage say and what people entered by hand; its cost is that of its usage alone | serial |
| `HandedOn` | EventDelivery | a completed event was handled by every subscriber | all |
| `SentOnce` | | a receiver accepts a delivery once, and once more at most for every outcome that was lost, claim that lapsed under its sweep and retry asked for during the sending | all |
| `RepliesAgree` | RequestRepeats | a success told under a key is an effect of the very request; there is one effect while nothing overlaps, dies or expires | all |
| `UpkeepFollowed` | MaintenancePlan (`PlanFollowed`) | a due date is worked on once, and its row tells what became of the work | serial |
| | CleaningPlan (`CleaningFollowed`) | no task to come waits on a day the schedule does not ask for, and every day it asks for has one, unless staff took it back | serial |
| `RoundsAgree` | Rounds | a run shows what became of its stops and is over when they are; a completed patrol has every checkpoint scanned or recorded as missed | serial; the last for overlapping scans too |
| `EmergenciesKept` | Emergencies | an alert has one incident, its timeline tells the steps in order and no escalation after an answer; the incident keeps up with the answer | all; the last serial |
| `NothingWaits` | EventDelivery, Emergencies | an event is handed on or given up, so is a delivery of an active endpoint, and an alert nobody answers reaches the last level | fair |
| `PremisesAgree` | Notices (`NoticesKept`) | a notice is published once; it told the tenants it targets exactly if its audience includes tenants, unless the audience was changed since; a scheduled one has an hour | serial |
| | Shifts (`ShiftsKept`) | nobody is on duty twice; sessions begun online do not overlap, none that staff ended lies before its begin, and a shift somebody came for is not cancelled | the first all, the rest serial |
| | Gate (`GateKept`) | a vehicle shows the date of the permit that is granted and none to come without one, unless its date was set by hand or two permits were approved at once; a pass is active only while its visitor is expected, and he has it until its time is over | one handler after the other |

*Serial* means that no handler works between the read and the commit of another
(section 2): the property then says that every handler by itself, in every
sequence, does what it should. Where it fails as soon as handlers overlap,
section 5 says how.

### Runs

| Run | Instance | Shows |
|---|---|---|
| `BookingApartment` | 2 apartments, 2 requests, 2 payments | whatever overlaps, closed bookings hold no unit and stays only move forward |
| `BookingSerial` | 1 apartment, 1 hotel room, 1 request, 3 payments, `FairSpec` | money, the charge and the synchronisation of lines, with the sweep in between; overdue bookings are released |
| `BookingCancelVerify` | 1 apartment, 2 requests | `MoneyAccounted` fails: a cancellation overwrites a verification |
| `FieldSyncSerial` | 1 device, 1 push at a time, 3 mutations of 4 kinds, 1 failing dispatch, `FairSpec` | handlers die and answers get lost, every mutation takes effect once, is answered, and is settled in the end |
| `FieldSyncOverlap` | 2 overlapping pushes, 2 mutations, one failure of any transaction | a start happens once |
| `FieldSyncTwice` | a finding in 2 overlapping pushes | `AppliedOnce` fails: it is created twice |
| `UnitBilling` | 7 scenes: `provider`, `payments` (overlapping), `balance`, `notes`, `void`, `penalties`, `bank` | money that came in is in the books, once |
| `BillingCorrected` | a credit note and a void | `CorrectsIssued` fails: the note is approved after the invoice was voided |
| `Reservations` | 5 scenes: `desk`, `house`, `facility`, `sale`, `rental`, all serial | no night is overbooked although creations meet; in turn, rooms, listings and tenants agree with the reservations and a deleted facility owes nobody a slot |
| `Delivery` | 4 scenes: `event`, `sweeps`, `requests`, `emergency` | nothing is skipped or told wrongly and nothing is sent again without an excuse although workers, sweeps and the server die; nothing waits for ever |
| `Operations` | 16 scenes: `task`, `ticket`, `chain`, `parts` (overlapping too), `consumables`, `runs`, `plan`, `cleaning`, `route`, `patrol`, `scans` (overlapping), `notices`, `shifts`, `clock` (overlapping clock-ins), `parking`, `visit` | work, clocks, stock, bills, calendars, attendance and what the gate looks up agree |
| `BilledTwice` | scene `double` | `BilledOnce` fails: two overlapping requests to generate a run |

The four runs that fail are disagreements of the code with what its comments or
documents say; `PROJECT.json` quotes both. All need two handlers to overlap,
except `BillingCorrected`, where one follows the other.

### Bounds

Every bound is a constant of the module, named in its declaration and set in the
`.cfg`.

- **Requests** are two wherever handlers may overlap: the properties compare what
  one handler read with what another wrote, so a pair shows every conflict; the
  sweeps and the clock act besides them.
- **Scenes.** Desks that share no row are not interleaved with each other. A
  scene has the handlers that write common rows, and within it nothing is left
  out but what its definition in the `MC` module says.
- **BookingLifecycle**: `MaxPayments` is 3 to replace a choice twice, `MaxNow`
  stops the clock, `PaymentWindow` is 0 or 1 so that the deadline passes in the
  run, `ProofExtension` 1 so that it can be moved. Two lines are enough to have
  "the other line".
- **FieldSync**: three mutations are enough for a refused one to stand between
  two others and for a batch to be cut after any of them and sent again. One
  failure is enough to part what is stored from what was answered, and every
  further one starts from such a state. `Meanwhile` names the requests of others
  that a run needs. One device: results are keyed by device and devices meet in
  the task alone, where `Others` does what a second would.
- **Reservations**: two rooms, two stays, two nights (one room and one stay in
  `house`, where the day changes); two slots and two bookings; two rows per table of
  the unit desk and two months. Handlers that overlap are not an instance here: what
  holds then is what the constraints of the tables say, which the models have as
  guards. Two is enough for "another holds it"; a third row repeats the choice of
  one of two.
- **UnitBilling**: up to three invoices and two payments per scene, totals of 2
  and amounts of 1 and 3: part, rest and excess all occur. Of the events that close
  a payment the provider sends one; what they do to a closed payment is nothing.
  After an item of a penalty is written by hand no third invoice is made.
- **Operations**: three steps below a ticket are a chain with a branch, the last
  of them work, or two and the clock; one stock item with one location and levels up to 2, where handlers
  that overlap use one piece at a time, count one more or less and charge no work by hand
  (`StockExplained` is proved for all quantities and orders; `MaxByHand` bounds what
  people enter on a work); two charges,
  two runs and three bills (a bill of a cancelled run, generated again), where only
  the first run is computed again; one plan
  with two due dates and two works, so that a date may be generated again; two
  stops or checkpoints and two days, where stops are worked on from their day; one notice for tenants or for staff, with two target lists and three
  hours; a week of two days, a horizon of two and three days, so that a schedule
  has a day it asks for, one it does not, and one that enters the horizon later;
  two dates of a shift that lasts an hour (two ticks make a day), two sessions and
  two ticks of backdating; two permits and three days, which is a permit after a
  revoked or expired one; one pass, since one handler after the other never
  issues a second. The scene `parking` ends where a date is set by hand or two
  permits are approved at once, after which the property says no more. Handlers
  that do not overlap are one request.
- **Delivery**: two endpoints, two sweeps, two faults, two attempts (a first and
  a last), in the scene `sweeps` one endpoint and one fault besides the time-outs,
  lapsed claims and retries, which need none; two requests and three effects; an alert with three levels, as in the
  code, and five moments, so that it may be raised at the first or the second
  and the sweep may be late.

`CHECK_DEADLOCK FALSE` everywhere: closed bookings, finished work and empty
queues are end states, and the clocks are bounded. `SYMMETRY` is over rows and
requests that are interchangeable; runs with liveness do not use it.

### Fairness

**BookingLifecycle.** A request ends: its context has a deadline, so `Abort` is
weakly fair (whether it finishes its work is not assumed). The sweep runs every
minute (`PeriodicJobs`), so `SweepSelect` is weakly fair; `SweepExpire` waits
for row locks that come and go, and PostgreSQL grants a lock to its waiters in
turn, so it is strongly fair; and its transaction does not fail for ever while
the booking is to be expired (`<>[][~(SweepFail /\ StillUnpaid)]_vars`). Nothing
is assumed of customer, Finance, Front Office or clock.

**FieldSync.** A device with a queue sends it and reads the answer, a handler
takes its next step, and handlers and answers do not get lost for ever
(`<>[][~Loss]_vars`: without a connection nothing can be promised). `Loss` leaves
out the loss of an answer that tells the device nothing new, which is the same
step as its receipt: excluding it would exclude a device that is told `SEQ_GAP`
for ever. Nothing is assumed of the supervisors.

**EventDelivery** (`DeliveryFairness`). The queue fetches jobs that wait and a
job that runs goes on or dies (`Dispatch`), every sweep comes again (every
minute) and, once it has claimed, goes on (`Claim`, `Post`, `Store`), and time passes, so that a
back-off ends (`FallsDue`). Faults are bounded, endpoints need not answer.

**Emergencies** (`EmergencyFairness`). The sweep runs every minute and commits,
and time passes. Nobody has to answer. The fairness of a scene's clock must not
ask for a step another scene never takes, which would make its liveness hold for
nothing: outside the scene `emergency` no time is left to pass.

## 4. What is proved

For all constants that satisfy the assumption of the module, checked by TLAPS:

| Module | Theorem | Statement |
|---|---|---|
| `BookingLifecycle_proofs` | `TypeCorrect`, `Inductive` | `Spec => []TypeOK`, `[]IInv` |
| | `HoldsAreReleased`, `ConfirmationsAreCovered` | `[]HoldsReleased`, `[]ConfirmedIsCovered` |
| | `StaysForward` | `StaysMoveForward` |
| | `RefundsAreBacked` | `[]RefundBacked`, if every line is an apartment |
| | `MoneyIsAccounted`, `ChargesHappenOnce`, `CancellationsSync` | `Spec /\ [][InTurn]_vars => []MoneyAccounted`, `[]ChargedOnce`, `[]CancelledIsSynced`: for any number of requests that come one after the other |
| `FieldSync_proofs` | `WorkIsAssigned`, `ClockFollowsWork` | `TaskSpec => []WorkHasAssignee`, `[]SlaFollowsWork` |
| | `SyncInductive`, `TypeCorrect`, `EffectRecorded` | `Spec => []SyncInv`, `[]TypeOK`, `[]EffectIsRecorded` |
| | `SyncKeepsWorkAssigned` | `[]WorkHasAssignee`: also when the steps come from devices |
| | `ResultStays`, `StartsOnce` | `ResultIsFinal`, `[]StartedOnce` |
| | `SerialAppliedOnce`, `SerialToldTruth`, `SerialPromise` | `[]AppliedOnce`, `[]ToldTruth`, `PromiseKept`, if `Serial` |
| | `SerialEvidenceKept`, `SerialNoGap` | `[]EvidenceKept`, `[]NoGap`, if `Serial` |
| `UnitBilling_proofs` | `BooksKept`, `BillingTyped` | `Spec => []BookInv`, `[]TypeOK` |
| | `ReceivedStaysBooked`, `ClosedPaymentsStay` | `[]ReceivedIsBooked`, `ClosedStaysClosed`: requests may overlap |
| | `MoneyComesOnce`, `CreditStaysBacked`, `InvoicesAgree`, `LinesBookedOnce` | `[]MoneyOnce`, `[]CreditBacked`, `[]InvoiceAgrees`, `[]LineBookedOnce` |
| | `PenaltiesBilledOnce` | `Spec /\ [][StaysCancelled]_vars => []PenaltyBilledOnce` |
| `Reservations_proofs` | `RoomsTyped` | `RoomSpec => []RoomTypeOK` |
| | `RoomsKnowGuests`, `NeverMoreStaysThanRooms` | `[]GuestsHaveRooms`, `[]NeverOverbooked` |
| | `FacilityTyped` | `FacSpec => []FacTypeOK` |
| | `NothingOwed` | `[]DeletedHoldsNothing`: a deleted facility has no booking to come, while handlers take turns |
| | `UnitsTyped` | `UnitSpec => []UnitTypeOK` |
| | `DesksAgree` | `[]DeskAgrees` |
| `Operations_proofs` | `StockTyped`, `JournalExplains` | `StockSpec => []StockTypeOK`, `[]StockExplained` |
| | `UsageCharged` | `[]UsageExplained` |
| | `RunsTyped`, `ChargesBilledOnce` | `RunSpec => []RunTypeOK`, `[]RunsBillOnce` |
| | `ChainsTyped`, `ClocksAgree`, `LastSettles` | `ChainSpec => []ChainTypeOK`, `[]TicketClocks`, `LastWorkSettles` |
| | `RoundsTyped`, `RoundsShowTheirParts` | `RoundSpec => []RoundTypeOK`, `[]RoundsAgree` |
| `Premises_proofs` | `PlanFollows`, `CleaningFollows` | `PlanSpec => []PlanFollowed`, `CleaningSpec => []CleaningFollowed` |
| | `NoticesReach`, `ShiftsAgree`, `GateAgrees` | `NoticeSpec => []NoticesKept`, `ShiftSpec => []ShiftsKept`, `GateSpec => []GateKept` |
| | `UpkeepFollows`, `PremisesHold` | `MCOperations!SceneSpec => []UpkeepFollowed`, `[]PremisesAgree` |
| `Delivery_proofs` | `DeliveriesTyped` | `DeliverySpec => []DeliveryTypeOK` |
| | `EventsHandedOn`, `AcceptedOnce` | `[]HandedOn`, `[]SentOnce` |
| | `RepeatsTyped`, `RepliesTrue` | `RepeatSpec => []RepeatTypeOK`, `[]RepliesAgree` |
| | `EmergenciesTyped`, `EmergenciesStayKept` | `EmergencySpec => []EmergencyTypeOK`, `[]EmergenciesKept` |
| `SumTheorems` | `SumInt`, `SumRemove`, `SumAdd`, `SumLeq`, `SumSame`, `SumChange`, `SumZero`, `SumNat` | what the sums of the models (`SumFunctionOnSet`) do when one term changes, comes or goes |
| | `FiniteMax` | a finite set of naturals that is not empty has a greatest element |

The type invariants of these modules are proved and therefore not repeated in
the runs.

**BookingLifecycle.** `HoldsReleased` is not inductive: a desk transaction that
locked a line could, in an arbitrary state, commit a confirm after the booking
was closed. `IInv` says why it cannot: a desk transaction owns its line
(`LocksExclude`), the action it was allowed stays allowed (`HookAllowed`), the
lines it counted as finished stay finished (`LastIsLast`), and a booking whose
line it is about to confirm is still payable or already covered
(`NewIsPayable`, `ConfirmCovered`). Steps fall in five kinds, one lemma each:
they leave lines and statuses alone (`QuietStep`), release every held line
(`ReleaseStep`), confirm every new line (`ConfirmStep`), lock a line
(`HookStep`) or commit a desk transaction (`DeskCommitStep`); `StepIInv`
dispatches the actions to them. `RefundsAreBacked` adds that every payment
status that speaks of money, in the row *or in a snapshot*, is backed by a
payment or a finished stay (`PayBacked`), and uses `StaysForward` to know that a
finished stay is not undone. The restriction to apartments is needed: a stale
`hotel.Act` can undo it.

The money of a booking is right only while its requests run one after the other:
`BookingCancelVerify` shows what happens otherwise. The theorems say so by the
action property `[][InTurn]_vars`: a request takes a step only while every other
one is idle. The sweep and the clock come between any two steps, so what a
request has read may be stale all the same. `InTurnInv` says in which one way
(`ReadStands`): either what was read still holds, or the sweep has expired the
booking, and then each write does no harm. With it go the facts about the rows
(`RowsAgree`): one payment is open at a time, the payment status, the override
and the set of payments received agree, and a booking closed by anything but the
sweep has no stay left. TLC checked `InTurnInv` for one request and for two in
turn before it was proved.

**TaskWorkflow.** Types and the two invariants are inductive together
(`TaskInv`); there is one lemma per handler, each about the one object it
changes.

**FieldSync.** `Serial` says that the pushes of a device do not overlap (one
slot) and that only dispatches fail. `AppliedOnce` is not inductive: an arbitrary
state may hold a handler about to apply a mutation that already took effect.
`SerialInv` says why none does: an effect, its record and what was answered or
told agree, and a handler past the lookup works on a mutation that has no result
yet, which one slot and the shared transaction of effect and record preserve. The
steps of a handler either leave effects, records and answers to the device alone
(`Quiet`) or settle one mutation (`Settle`); the refinement maps the former to
stutters, `Apply` and `Store` of a verdict to `Decide`, `Receive` to `Tell`.
Without `Serial` the refinement is false, as `FieldSyncTwice` shows.

`StartsOnce` needs no such condition: what guards a start is not the table of
results but the task engine. `StartInv` says that the object of a start that took
effect has left the statuses a start is possible from, and `Onward` that no step
of anybody brings it back. `SerialEvidenceKept` rests on `ConflictKept`: the
record of a conflict and the evidence are written by one transaction, so whoever
is told of the conflict by the record finds the evidence there. `SerialNoGap`
rests on `OrderInv`: the results of a device are a prefix of what it made, a push
at work has before it all that is not settled yet, and the last number it
remembers of an object is that of the last settled mutation of the object. The
number `Last` reads is a maximum of a finite set; `FiniteMax` proves that it is
there.

**UnitBilling.** `BookInv` is one invariant for five of the properties. Its first
part holds however requests overlap: rows hang together (`RowsHang`), a request
knows of rows that are there (`AllKnow`), and `ReceivedIsBooked`. Its second part
holds while requests take turns: every invoice is sound by itself (`Sound`: what
is paid and credited fits, the status says whether it suffices), the fund has its
share, a cancelled invoice has no payment pending, nothing is paid that no payment
brought, the balance is not negative; and (`StillTrue`) what the one request at
work has read still holds when it writes. Most steps rewrite one invoice and one
payment; `MoneyStep` says when that preserves the books, with `SettleKept`,
`RefundKept`, `CorrectionStep` and `ReceivesAllots` for what a settlement, a
refund, a credit note and a receipt that is spread over several invoices do, and
one lemma per action. The sums over payments come from `SumTheorems`.

The items of a draft may be written by hand: `mergeItems` keeps the link of an item to
its penalty and takes the amount from the client. `HandItems` gives such an invoice any
items, `edited` remembers the penalties it had or has items of, and `PenaltyBilledOnce`
is about the others; by hand, more or less than accrued may be billed, which the code
allows. `PenaltiesBilledOnce` has a hypothesis, and it is needed. A penalty is billed by
an item of a new invoice, and cancelling that invoice makes the penalty billable
again. If the cancelled invoice comes back to life later, the penalty stands in
two. Two handlers bring one back: the approval of a credit note that was requested
before (`CorrectsIssued` is the finding), and the refund of a payment whose whole
amount had exceeded the invoice, because `invoiceStatusFor` computes the status
from the amounts alone. `StaysCancelled` says that no step does so; under it
`PenaltyInv` is inductive. The scenes of the run `UnitBilling` do not combine
penalties with these handlers, which is why TLC finds the property true there.

**The desks.** That two held stays, bookings or rentals never meet is what the
exclusion constraints and unique indexes of the tables say. They are guards of every
write of the models (`Excluded`, `BookingWrite`, `RentalWrite`, `SaleIndex`), so no
property states it again; the invariants carry it (`RoomHeldOnce`, `FacilityHeldOnce`,
`UnitHeldOnce`), because what the handlers keep rests on it. What holds for handlers in
turn needs an invariant on what they remember: one works at a time (`OneHandler`; `TakeTurns`,
which lets creations overlap, since only they have a lock of their own), and what
it has read is still so (`ReadHolds`, `ReadsHold`). `GuestsApart` says "one guest
per occupied room" without counting; `OneAtMost` turns it into the cardinality of
`GuestsHaveRooms`. `NeverOverbooked` compares two counts, and `CountInv` carries the
handler's own count along: for each night that a creation or a change of dates is
about to take, the stays booked there and those it adds still fit into the rooms
that are set up (`Fits`). `AvailableEachNight` gets that from `Available`, whose
maximum over the nights exists by `FiniteMax`; nobody but the handler at work adds
a stay meanwhile, because a creation holds the lock of the type and every other
handler waits, and no handler takes a room away. `DeletedHoldsNothing` is part of
`FacInv`: a handler that creates has read a facility that stands, one that approves a
booking that is still pending, and one that deletes still finds nothing to come
(`TurnsKept`).
`DeskAgrees` is inductive once rows are known to refer to rows that are there
(`RowsRefer`) and a handler to write what it has read (`DeskRemembers`): a listing
that is reserved has no closed sale, so that the unique index of held sales makes
its sale the only one, and cancelling that sale may publish the listing again.

**Stock, BillingRuns, TicketChain, Rounds.** `StockExplained` needs one more fact, that a removal under
way names a usage that was inserted (`RemovesRows`); `ApplyExplained` is the
movement that every handler makes. `UsageExplained` adds up the rows of usage
(`UsedMoves`: one row changes, the sum changes by as much), sets apart what a
transaction or a count refers to by hand (`Refer`, `byHand`), and needs that handlers
work one at a time and that what one removes is still there. `RunsBillOnce` is
inductive with what a handler has read (`ReadStands`: the run has the status that
was read, the lines are those that were seen, the invoices to be issued or
cancelled are the live ones of the run); previews, schedules and cancellations
come in any order between.
`TicketClocks` says nothing of the flag of a ticket that is over, but such a ticket
may be opened again: `TicketClock` keeps flag and breach equal until the ticket is
cancelled. The rest of `ChainInv` is what a handler has read (`StillSo`: the status
it moves from, that the ticket is not over) and, whatever overlaps, that it works on
an object of the kind it read (`PointsTo`), because kinds never change. Which objects
above are settled does not matter here, as settling stops the clock of whatever it
resolves. It does for `LastWorkSettles`, a property of steps: its invariant adds that
every object came after its source and is of the ticket exactly if that one is
(`Tree`), and that the verdict a handler carries is the one it would reach when it
writes (`ChainSaw`). Then a step that leaves nothing open was taken by a handler that
saw so, since what it settles above its work is of the same ticket (`OriginBelow`);
and what a completed follow-up leaves pending above has something open below that was
not settled. `Below` and `Settles` are recursive functions; their equations
(`BelowRows`, `SettlesRows`) come without induction from the least set closed under a
rule (`LeastSet`), and that statuses do not change what is below (`SameBelow`) from a
first object at which they would (`FirstOf`). `RunsAgree` speaks only of runs that have all their stops. `WalkAgrees`
adds what keeps the others out of it for good: a run never has more stops than it was
generated with, and at least one was. So a deletion, or a change of the route that
takes back what has not begun, leaves the run short (`WithdrawnAgrees`), and a
refreshed count tells what became of the stops because those to be done, done and
cancelled add up to all (`PresentCount`, `RefreshedAgrees`).

**EventDelivery, RequestRepeats, Emergencies.** `TurnsTaken`: the subscribers before the one
whose turn it is have handled the event. `AcceptedOnce` is an argument of
credit: `taken[d]` counts what the receiver accepted, less one for every event that
excuses another time, and `Chances` what may still be sent of `d` without an excuse: one
for every sweep that holds it and has not had it accepted, one if it may be claimed now
or after a retry. Every step that adds to one takes from the other (a claim turns a
due delivery into a held one, a request uses the holder up, an outcome that is lost, a
claim that lapses or a hand retry gives a chance back and is counted off), so that
together they never exceed one. `Honest`: every answer that is stored, about to be or
told is that of an effect of the same body. `InOrder`: while nothing overlapped,
died or expired, one request is at work and after an effect there is a key or a
request about to store it. `AlertInv`: a timeline has come no further than the
status of its alert (`Within`), so that whatever is appended comes after all that is
there (`TimelineGrows`); the sweep holds only alerts that wait for an answer, since
an answer locks the row (`Raised`), so no escalation follows one; and, while handlers
take turns, what a handler of the incident is about to write is no step back behind
the answer (`CaseRemembers`).

**MaintenancePlan, CleaningPlan, Notices, Shifts, Gate.** `PlanFollowed` starts from
rows of due dates and must know that no other work claims the date; `WorkLinked`
starts from the works: one that lives is the work of its date, whatever became of the
row. So two of one date are the same, and a hook changes the one row that shows the
work (`PieceMoves`). That new works get numbers of their own is counting:
`CreationNumbers` says that those of the dates of one commit follow the works there
are, in the order of the dates (`NthOrders`). A handler between read and commit holds
dates that still await their first work, or the work it is about to skip
(`PlanReadStands`); a row without work can change or go freely, which is why changing,
archiving and generating again are one lemma (`DueStep`). `Shows` keeps the exceptions
of the property: an inspection whose schedule the archive cancelled goes on, and stays
linked. `CleaningFollowed` holds with what a generation under way has read of the
schedule (`ScheduleStands`) and with the fact that no task is older than the schedule
(`NothingBefore`). `NoticesKept` needs what an update and a move have read
(`NoticeReadStands`): an update that keeps the hour has read a notice nobody was told of,
and a publication tells those of the audience that still stands; that `readdressed` only
grows is what a later change of the audience needs.
Clock-ins are apart because nobody is on duty when one is read, the sessions there end
before its moment, and the shift chosen stands (`ShiftReadStands`); `OneOnDuty` is an
index and holds whatever overlaps. The handlers of the gate are modelled one after the other,
so the invariants are of the rows alone: `DateShown` for the vehicle, `OnePass` and
`PassThere` for the visitor. These theorems are of the components by themselves;
`UpkeepFollows` and `PremisesHold` carry them over to the instances that TLC checks, in
which one component moves and the others are idle (`SceneParts`).

**Only model-checked** is liveness (`OverdueReleased`, `QueueDrains`,
`NothingWaits`), which is beyond the prover: it needs ENABLED and counting down.
Every safety property that a run checks is a theorem. Induction over data is
beyond the prover too, but no theorem needs it: the equations of `Below` and
`Settles` come from a least set, and a sum over a finite set from the
well-foundedness of strict inclusion among finite sets (`SumTheorems`).

## 5. What is not modelled, and what was seen on the way

**Not modelled**, by component (`PROJECT.json` has all of them):

- Identity and sessions, tenant registration, vendors, parcels, parking areas,
  entries and violations: decisions of one row, each a check of the status and a
  write.
- Assets, metering, handover of shifts and the trial period: registers with sweeps
  that write single rows.
- Read models (reports, search, overview, exports, audit), notifications and
  documents: they change no state that a handler decides on.
- Master data, authorisation tables, front ends: static, or enforced again by the
  API.
- Within modelled components: amounts beyond what a property tells apart, prices,
  texts, files, validation of input, the calendar rules of plans, the errors of
  statements that the code drops (except in FieldSync and the sweep of bookings).

Most of the remaining lines of the server are such code: queries that assemble
an answer, validation, mapping of rows to JSON.

**Seen on the way.** Each of the following was met while a property was stated.
They need handlers to overlap (so the property says "serial"), or are behaviour
that no document speaks about, and are therefore listed here and not as runs.

- *Bookings.* The sweep expires a booking whose proof arrives between its
  selection and its transaction. A late `hotel.Act` revives a room that was
  cancelled meanwhile.
- *Sync.* A `SEQ_GAP` answered to the slower of two overlapping pushes is stored
  and replayed for good.
- *Unit desk.* Completing a rental makes a unit vacant that another reservation,
  sale or owner holds; cancelling a sale does the same to a unit with a reserved
  rental; property administration writes the occupancy too.
- *Webhooks.* Fifty deliveries of ten seconds may exceed the five minutes of the
  claim, so a second sweep sends again; `RetryDelivery` does not look whether a
  sweep has the delivery; the deliveries of an event are inserted again when the
  worker dies after the last subscriber.
- *Idempotency.* An expired row blocks the storing of a new answer until the
  cleanup; overlapping requests run twice; the client is answered before the
  answer is stored.
- *Billing.* Whoever rewrites a draft that bills a penalty may give its item any amount,
  or none: the penalty counts as billed all the same.
- *Stock.* Usage from a location without a level succeeds and journals stock that
  never existed, and its removal then returns it; overlapping removals return
  stock twice; a stale count adjusts by the wrong difference; usage is recorded on
  work that was closed meanwhile.
- *Billing runs.* A refresh during a generate unbinds lines that were billed; a
  cancellation during an issue cancels issued invoices; meters of one unit share a
  key (`runs.go:393`).
- *Chains.* Two last children that finish together leave what is above them
  pending; cancelling the last open work tells nobody; a task can be generated
  from a closed finding; children can be reopened after the incident closed; a
  stale assignment revives a closed incident; a pause survives resolve and reopen.
- *Plans.* Two overlapping jobs make two works of a due date; archiving a plan
  cancels an inspection's schedule while its task lives; a cancelled schedule of a
  plan that is published again is never generated again.
- *Rounds.* Two stops that end together undercount and leave the run in progress;
  a run with a deleted stop is never completed; a stop begun during a change of
  the route keeps the old total; a checkpoint recorded as missed and then scanned
  stays counted as missed; a scan may land after the completion.
- *Notices.* When handlers overlap, a notice is published twice, is left scheduled
  without an hour so that no sweep finds it, or gets other targets after its
  publication. Whoever changes the audience of a published notice tells nobody new.
- *Shifts.* The sweep may end a session before its begin, when a shift was chosen
  by hand whose hours are over; a session sent late may overlap one begun online;
  a cancellation that overlaps a clock-in cancels the shift somebody came for.
- *Gate.* A vehicle's `permit_until` follows the permit decided last, and revoking
  that one leaves its date while another is approved; approving or changing a
  permit makes an inactive or blacklisted vehicle active; a vehicle without a date
  is valid for `scanVehicle` and not for the tenant's own list; `update` compares
  the dates only when both are given and writes back the status it read. Two
  overlapping approvals leave two active passes; the tenant's cancellation
  overwrites an overlapping check-in; a check-in does not look at the times of the
  pass; a pass without `expected_until` expires two hours before its visitor.
- *Others.* An export whose worker dies after `processing` was committed stays
  there; the trial sweep writes by id and may overwrite a conversion; metering
  bills the last reading of a period only, and a reading computed from one that is
  rejected later keeps its figure.
