# Verification of the salon scheduler

TLA+ models of this repository's core: the appointments and their deposits, the salon's
settings that decide when it is open, the waitlist, the SMS queue, subscriptions, signing in
and staying signed in, reminders. TLC
checks them on small instances, and TLAPS checks theorems about them for every size.

## 1. The system

The backend is one Node process (API) and a few workers over one PostgreSQL database.
Handlers are asynchronous: every `await` is a point where another request runs, and
most handlers are **not** transactions. They read a row, decide, and update it later
by its id. Two exclusion constraints are the only thing the database enforces across
rows.

| component | state | operations | talks to |
|---|---|---|---|
| appointment table (`prisma/migrations/*_exclusion_constraints`, `*_appointment_pending_constraints`) | one row per appointment: status, staff member, chair, interval, deadline of a hold | INSERT, UPDATE, `updateMany`; never DELETE | everyone |
| scheduling engine (`scheduling/scheduling-engine.ts`) | none of its own | `getAvailability`, `book`, `approve`, `reject`, `confirmHeld`, `findExpiredHoldWindows`, `releaseExpiredHolds`, `reschedule` (switched off in `features.ts`) | table |
| settings (`availability-config/`, `admin/controllers/admin.controller.ts`) | working hours, days off, chairs out of use, closures, booking window | one statement each; closing a day also cancels its appointments | read by the engine; engine, cancellation flow |
| cancellation (`scheduling/cancellation.ts`, `app/cancellation-flow.ts`) | cancellation records, customers' no-show counts | `cancel`, `markNoShow`, `releaseExpiredHoldsAndNotify` | table, payments, waitlist |
| booking flow (`app/booking-flow.ts`, `app/appointment-management.ts`) | none | engine calls followed by best-effort messages; walk-ins are book + approve | engine, notifications |
| maintenance worker (`notification-cron.ts`) | one running flag for the whole pass, the windows and the reminders in hand | every interval, side by side: release expired holds and announce their windows; dispatch reminders; subscription notices | cancellation flow, reminders |
| payments (`payment/payment.service.ts`) | payments, receipts, the gateway's ledger | initiate, receipt upload and review, callback, late deposit, refund, retain | table, engine, gateway |
| waitlist (`waitlist/`) | entries | join, cancel, `notifyOnFree` (`fulfillEntry` has no caller) | SMS |
| SMS queue (`messaging/`) | work, retry and dead-letter queues, delivery records | publish or send directly, consume, retry, ask for delivery reports | provider |
| subscriptions (`subscription/`) | subscription, its payments | trial, purchase, callback, activation, effective status | gateway |
| code login (`auth/auth.service.ts`) | challenges, customers, sessions | request a code, verify it | SMS |
| sessions (`auth/`, `frontend/src/api/client.ts`, `frontend/src/auth/`) | refresh sessions, the browser's cookie, each page's token | refresh with rotation, renew on 401, log in, log out | each other, over HTTP |
| reminders (`notifications/`) | the notification log, appointments in flight | one pass a minute | SMS, push |
| abuse guard, bots, referrals, catalogue, analytics, pages | see PROJECT.json | | |

What is hard here: booking requests racing for the last pair; check-then-update
handlers overwriting each other; a hold's expiry racing its payment; the worker's
read, release and announce as three steps, in one or two processes; two announcers at
one waitlist; messages delivered again after a lost channel; two callbacks of one
payment; callbacks that come before the gateway has decided, or against it; one code presented twice; one cookie shared by several pages; a log written
after the act it guards; a process dying between two statements. What makes each part
correct:

- table: no two live appointments share a staff member or a chair over overlapping times;
- settings: the page shows exactly the starts that a booking gets, whatever is edited; a
  closed day only drains;
- engine: a request is told "slot_unavailable" only after really losing, and every
  request is answered;
- lifecycle: holds have a bounded deadline, keep their slot until it, and lose it after;
  no-shows have started and are counted;
- worker: every window that an expiry frees is announced;
- payments: money and appointment agree: a deposit confirms the appointment it was paid
  for, a refund is real, a success page means money;
- waitlist: the first in line is told, and nobody is passed over;
- queue: an SMS that was taken is never lost, is not sent twice without cause, and leaves
  the queues after a bounded number of attempts;
- subscriptions: only money buys days, within the ceiling, and every checkout that the owner has
  decided ends;
- code login: one code, one session, a bounded number of guesses;
- sessions: a login is never forked and never lost without cause; signing out is final;
- reminders: once, before the visit.

## 2. Modules

| module | models | state ↔ code |
|---|---|---|
| `AppointmentTable` | the table, the overlap test, both constraints | `row[a]` is the row with id `a`; `AbsentRow` is "not inserted yet"; `StoreRow` is a statement that writes one row and fails when `Admissible` does not hold |
| `SlotCalendar` | abstract specification: what a calendar promises | `slot[a]` is what appointment `a` reserves; `Take` and `Release` are its only steps |
| `BookingLifecycle` | engine, booking flow, cancellation, no-show, completion, maintenance worker | `booking[a]` is the request that may insert row `a`: its position in `book`, its remaining and refused candidate pairs; `call[c]` is a request between its check and its update; `sweep[w]` is a worker between the statements of a pass |
| `Availability` | the settings, `getAvailability`, what `book` resolves before it races, closing a day | `salon` is what the salon, its staff, chairs, hours and closures say; `closing` the request that closes a day, with what it has listed; a query or request is a record (`QueryType`) |
| `DepositPayments` | payment service with the gateway behind it, the deposit policy and the record of a cancellation, the receipts and payments a release closes | `payment[p]`, `receipt[a]` are rows; `gate[p]` is the gateway's view of a payment, `refunds[p]` what it has paid back; `told` the customers sent to the success page; `payCall[c]` a request to the payment service between two statements; `settle[c]` the deposit policy of the cancellation that `call[c]` is executing; `refundStatus[a]` the cancellation record; `tidy[w]` the rest of a release |
| `Waitlist` | the waitlist, composed with the appointments whose windows it offers | `entry[e]` is a row; `joining`, `leaving` are requests between their check and their write; `herald[x]` is an announcer (a cancellation request or a worker): the windows left, the entry it has read, its next step |
| `SmsQueue` | the queueing provider with its fallback, the three queues, the consumer, delivery reports and records | `work`, `retry`, `dead` are the queues; a `Copy` is a message with its attempts header; `handler[h]` is a run of `handleSmsMessage` and whether it `owns` its copy still; `status[m]` is the delivery record; `sends`, `report` count what the provider accepted and what became of it |
| `SubscriptionBilling` | one salon's subscription, its purchases, the gateway and the callbacks | `sub`, `payment[p]` are rows; `buyer[p]` a purchase request and `callback[h]` a callback between two statements, each with the expiry it has read; `applied[p]` how often a payment has extended the subscription; `Effective` is `computeEffectiveStatus` |
| `OtpLogin` | the code requests and verifications of one phone | `otp[r]` is the challenge that request `r` stores; `request[r]`, `verifier[v]` are handlers between two statements, also after they came to nothing ("beaten", "dead"); `session` the sessions opened; `maker` the challenge whose sign-in made the customer |
| `BrowserSession` | the pages of one browser with the API's refresh sessions behind them | `session[i]` a stored refresh session and its login; `cookie` the browser's only cookie; `page[p]`, `run[p]` a page's token and the runs of `AuthProvider.refresh`; `renewal[p]` its refresh request, on either side of the wire |
| `Reminders` | the reminder passes, the notification log | `pass[w]` a pass with its remaining list and the appointment in hand; `log` the rows; `texted`, `refused`, `pushed` the history, `dropped[a]` the passes that failed with appointment `a` in hand |
| `MC...` | instances of these for TLC | |
| `..._proofs` | the theorems, one module for each component; those of `Waitlist` and of `Availability` are in `Compositions_proofs` | |

`BookingLifecycle` extends `AppointmentTable` and instantiates `SlotCalendar` with
`slotView`, the refinement mapping: an appointment reserves its slot exactly while it is
pending, held or confirmed. `DepositPayments` extends `BookingLifecycle`: its steps are the
lifecycle's with the payment state added (`LifecycleStep`, `CancelStep`, `ReleaseStep`) and
those of the payment service (`OpenStep`, `ServeStep`). `Waitlist` extends
`BookingLifecycle` too, and replaces the point at which a freed window is `announced` by
the announcement itself. `Availability` extends it as well: an idle booking request may
enter the race only with an offer that the settings make of a query at that moment
(`BookResolved`), and closing a day takes up the lifecycle's own `RejectRead` and
`CancelRead`. The other five stand alone: they share no row with the
appointments, except that `Reminders` reads which of them are confirmed. `OtpLogin` ends where `BrowserSession` begins, with a session and its
cookie.

How the code became actions:

- **A handler is one action per database statement that matters.** `ApproveRead` is
  taken when the status check of `approve` passes; `ApproveWrite` is the update by id,
  which no longer looks at the status. Between the two, anything may happen. A handler
  that throws before it has written anything is not an action. An update that the
  database refuses is `UpdateRefused`.
- **book** resolves services, hours, closures and equipment before it looks at
  appointments; the result of that is an *offer* (`OfferType`): interval, staff on duty,
  fitting chairs, preferences, deposit method, approval policy. `Availability` computes it
  from the settings (`OfferFor`, `Accepts`); the other modules take any offer. `BookRead` is the query
  of the existing appointments and the computation of the candidates, `BookInsert` and
  `BookConflict` are one attempt, `BookSaveServices` is the second statement,
  `BookExhausted` is the end of the loop. The candidates are kept as a set with ranks
  instead of a list. The queries have no ORDER BY, so every order of staff and of chairs
  is possible, except that a free preferred stylist comes first.
- **The page and the booking.** `GetAvailability` walks the starts of a day on the page's
  grid (`CandidateStarts`) and keeps those with a free pair; `CanBook` asks whether the
  booking would list a candidate pair there. The rules that both handlers spell out in
  the same way (working hours, closures, days off, equipment, place, duration) are stated
  once, from whichever is plainer; the parts where they differ, in how appointments are
  read, the stylist filter, the grid, the pairing and the booking window, are modelled apart. A
  set of services is taken as the one service it adds up to. The settings are read in one
  step: the handlers read them in several queries, and what one of them makes of a later
  edit without an earlier one is not modelled.
- **Closing a day** is `CloseDay` (the closure is stored), `ListDay` (the day's active
  appointments that have not started), then one request for each: `CancelListed`, or
  `ListedRefused` when it is no longer what the list said.
- **The maintenance pass** is `SweepRead` (the windows), `SweepRelease` (one
  `updateMany`, at the time captured by the pass), `SweepNotify`.
- **A payment request** keeps, in `payCall[c]`, the appointment and the payment it has
  found and the statement it executes next. `handleCallback` is `CallbackRead` (find the
  payment by its authority, with its appointment), `Verify` (ask the gateway),
  `MarkFailed` or `MarkPaid`, `PayConfirmRead` and `PayConfirmWrite` (`confirmHeld`), or the
  late path `LateCheck`, then `LateConfirm`, `LateRefused` or `LateRefund` and
  `MarkRefunded`. Each `$transaction` of the receipt review is one action.
- **The gateways.** `CustomerDecides` and `OwnerDecides` are the payer on the gateway's page. A
  callback may come at any time after the session was opened, any number of times, or
  never: it is an unauthenticated request, and the service asks the gateway anyway. An
  answer other than success reads as "not paid"; a refund may be refused.
- **Cancellation policy.** `ChooseSettlement` is the `findFirst` of the paid payment; without
  ORDER BY the choice among several is open. `Keeps` compares the clock of the request's
  start with the window and knows who cancels.
- **Announcing a window** is `HeraldRead` (`findWaiting`: the earliest entry whose window
  overlaps), `HeraldMark` (by its id), `HeraldText`; the next window follows.
- **The SMS consumer.** A run of `handleSmsMessage` goes from `Take` through `MarkSending`,
  `Send`, and `ParkForRetry`, `ScheduleVerification`, `GiveUp` or `CheckReport` to `Note` (the
  record) and `Finish` (the acknowledgement, or the rejection that dead-letters). When its
  channel is lost (`ChannelLost`) the broker gives the copy back and the run goes on as an
  *orphan* that can neither publish nor acknowledge; `WorkerDies` ends it. Retry copies return
  when their time is over (`RetryExpires`), in the order of the retry queue.
- **A subscription callback** that reports success is `SuccessRead` (the payment and its status),
  `SubRead`, `Verified` or `NotVerified` (the gateway is asked), `MarkPaid` or `MarkFailed`,
  `Activate`; one that reports a failure is `FailureRead` and `MarkFailed`, and the gateway is not
  asked. What the address says need not be what the gateway has decided, and it may not have
  decided yet: both may come at any time once the authority is stored. The new expiry
  is computed from what `SubRead` read (`Renewed`, `CappedRenewed`). Days are whole numbers.
- **The code login.** `Supersede` invalidates what it finds, `Deliver` hands the code to the
  provider, `Store` inserts the challenge: three steps. `Judge` reads the newest live
  challenge and compares; `Consume` and `CountFailure` are the two conditional SQL
  statements; `FindCustomer`, `CreateCustomer` and `IssueTokens` follow. A verification that finds no
  customer and is refused the creation, since another has made him meanwhile, is `Lost` as
  "beaten"; one whose process dies after `Consume`, as "dead".
- **Refreshing a session** is `Renewing` (the request leaves with the cookie of that moment),
  `RefreshServed` (the atomic revocation), `RefreshIssued` (the new session),
  `RefreshGranted` (the answer arrives, the browser stores the cookie, the waiting runs go
  on). Each page has one refresh request at a time, which its runs share; the answer to a page
  that has been closed may still set the cookie (`OrphanAnswered`). A page's run of `AuthProvider.refresh` publishes its
  result only if no later run has begun (`Current`).
- **A reminder pass** is `PassBegins` (the list), and for each appointment `NextReminder` (the
  log), `TextCustomer`, `LogText`, `Push`, `TextStaff`, `LogStaff`, `StaffDone`. `PassFails` is a
  death or a failing statement, which ends the whole pass: what is in hand is forgotten, stored
  rows stay. The code runs this task and the release of holds under one flag; the two modules
  model their part of the pass as if it had one of its own, since each ends.
- **Merged steps.** Reading the cancelled appointment and looking for its paid payment are
  one step, and so are the gateway's answer to `request` and the storing of its authority
  (in `DepositPayments`; in `SubscriptionBilling` they are two), and the two reads of
  `uploadManualReceipt` before the receipt is written.
- **Crashes.** `BookingDies`, `CallDies`, `WorkerDies`, `PayCallDies`, `CancellationDies`,
  `MaintenanceDies`, `HeraldDies`, `BuyerDies`, `CallbackDies`, `RequestDies`, `VerifierDies` and
  `Close` (of a page) end a request or a pass between two of its steps; stored rows stay.

Left out: texts and their wording, the text of records, time zones and opening hours (they
are inside the offer), amounts, receipt files. How a deposit is taken is part of the
offer: a salon that changes its deposit method while a hold is open is not modelled.

## 3. What TLC checks

`CHECK_DEADLOCK FALSE` everywhere: requests end, the clock is bounded, and then the system
has nothing to do.

| run | properties and question | instance |
|---|---|---|
| `availability` | `NoDoubleBooking`, `LostRaceHasWinner` under concurrent bookings; `AvailabilityIsExact`, `ClosedDayOnlyDrains` while settings are edited and a day is closed; liveness: `BookingIsAnswered`, although another booking takes the pairs it tries | 2 booking requests, 2 stylists, 3 chairs (one assigned to a stylist, one mobile), a hybrid salon with its date two ticks ahead and a mobile one with some of its time blocked, 2 days of 6 ticks, 2 services, 1 other request, 1 edit or closing |
| `lifecycle` | `NoShowIsCounted`, `HoldIsKept`, and `ImplementsCalendar`: the abstract calendar is implemented | 2 exclusive appointments (one kind held, one awaiting approval), 2 other requests, 1 worker, one death, times 0..2 |
| `maintenance` | liveness: `ExpiredHoldIsReleased` and `ExpiryIsAnnounced`, with deposits that come late; `PendingReceiptIsClosed`, although a receipt may be stored after the release | 2 exclusive appointments (gateway or card transfer), 1 payment, 1 payment request, 1 worker, one death |
| `deposits` | `RefundIsReal`, `SuccessMeansPaid`, `DepositBeforeConfirmation`, `ApprovalTakesTheHold`, with early, repeated and missing callbacks, receipts, and one death or gateway failure | 1 appointment, deposit at the gateway or by card transfer, 1 payment, 2 payment requests, 1 other request, 1 worker |
| `sms` | `NeverLost`, `NoSecondSms`, `AttemptsAreBudgeted`; liveness: `QueueDrains`, `RecordIsResolved` | 1 SMS (a code with a deadline, or a template without), 2 runs of the handler of 1 worker, 2 attempts, 1 repeated status check, one lost channel, death or answer, one refused statement |
| `waitlist` | `NobodyIsPassedOver`; liveness: `FreedWindowIsOffered` | a hold and a visit, freed by a cancellation and by the worker; 2 customers who join and leave; one death or failure |
| `subscriptions` | `WindowIsCapped`, `ActiveIsPaidFor`, `PlanIsUsable`, `AppliedIsClosed`; liveness: `CheckoutIsSettled` | 2 purchases, opened at once or one after the other, of two plans; 2 callbacks at a time, early, false, repeated at will; one death or failure; days 0..2 |
| `double_renewal` | `RenewedOnce` with two callbacks at once: **violated** | 1 purchase, 2 callbacks |
| `paid_after_failure` | `FailedIsUnpaid`: **violated** | 1 purchase, 1 callback, no failure |
| `otp` | `OneSessionPerCode`, `GuessesAreCounted`, `CodeWasSent`, `SpentCodeSignsIn`, `SupersededIsDead` | 2 code requests, 3 verifications, 2 codes, 2 guesses allowed, times 0..2, one refused delivery or death |
| `sessions` | `OneSessionPerLogin`, `SessionSurvives`, `LoginIsShown`, `SpinnerIsWatched`, `SignedOutStaysOut` | 2 pages, 2 logins, 4 sessions in use, 1 expired token, 2 runs in each page, 1 lost answer or failed request |
| `reminders` | `RepeatsHaveACause`; liveness: `VisitIsReminded`, `StaffIsTold` | 2 appointments that enter the window one after the other, 2 staff members, 1 worker, one refusal per phone, one failed pass |

**The disagreements.** `double_renewal` shows that two concurrent callbacks of one purchase
both find it pending, both ask the gateway, and both extend the subscription, against the
comment of `SubscriptionService` that "processing the same `SubscriptionPayment` twice never
applies activation twice (Property 6)". For callbacks that do not overlap the comment is right:
once a payment has extended the subscription, no callback is let in on it (`AppliedIsClosed`,
which `subscriptions` checks and section 4 proves).

`paid_after_failure` shows that a checkout is closed although the gateway's session is open: by a
callback that reports a failure, since `markPaymentFailedByAuthority` takes its word, or by one
that comes before the owner has decided, since the gateway's "not paid yet" reads as a failure.
The owner then pays, no callback activates the plan, and the next checkout may be opened
beside it. The service means to keep the lock "until the gateway sends a definitive callback",
lest "a late successful payment [...] be charged twice" (`subscription.service.ts:321-322`);
the deposits' callback asks the gateway for that reason (`payment.service.ts:552-554`).
PROJECT.json, `findings`, has the quotations.

The models also take the following steps. No property forbids them; whoever changes the
code should know them.

*Appointments and deposits*

- approve and reject (or cancel) both pass their checks; the approval, written last,
  confirms a closed appointment. With one request at a time the checks keep every final
  status; with two they do not. The calendar stays free of double bookings all the same;
- with three chairs, the three attempts of `book` can all go to one stylist who has just
  been taken, and the request gives up with the other stylist free;
- a booking whose second statement fails (`BookingDies`) answers with an error and stays
  in the calendar;
- a hold paid between the pass's read and its release is announced as free;
- a worker that dies after the release loses its announcements, which is why
  `ExpiryIsAnnounced` excuses a death; a request that dies between the two updates of
  `markNoShow` leaves the no-show uncounted, which `NoShowIsCounted` excuses, and two
  concurrent ones count it twice, which it does not forbid;
- of two callbacks of one payment the one that asked the gateway too early may write last:
  a paid payment is then recorded as failed;
- a cancelled appointment is confirmed by the late-deposit path of a callback
  (`LateConfirm`), and another request may have refunded the money by then: of two pending
  callbacks one confirms, a cancellation refunds, and the other confirms once more by the id.
  `DepositBeforeConfirmation` promises the money only while the hold runs; and where a pending appointment has taken the slot, the late deposit is
  neither confirmed nor refunded;
- two gateway sessions of one hold may both be paid: a cancellation settles one of them;
- a repeated callback answers "confirmed" for a payment that is paid while its late
  deposit has not confirmed, or cannot confirm, the appointment. The gateway has the money
  then (`SuccessMeansPaid`), but the customer may have no appointment.

*Availability*

- on the last day of the booking window, the page shows late starts that the booking
  refuses, when the salon's zone has reached the next date by then: the page compares the
  date it was asked for with the window, `book` the salon's date at the start. On
  the first day the booking, the other way round, accepts starts of an earlier date that the
  page does not offer. `AvailabilityIsExact` is stated for the days both allow;
- neither handler looks at the time of day: starts of today that are over are shown and
  can be booked;
- a booking that had passed its checks when a day was closed is stored after the day has
  been listed, and stays (`closing.racing`), although the route means to cancel "all
  remaining appointments" (`admin.controller.ts:1929`); so does an appointment whose
  approval or late confirmation read it before it was cancelled;
- the booking-policy route compares the offset with the window and then stores either:
  two concurrent requests can leave an offset of 1 over a window of 0, and no date can be
  booked.

*Waitlist*

- two announcers may read the same head: its customer gets two texts, the next one none;
- the mark goes by id, so it overwrites an entry cancelled in between;
- two join requests of one customer may both insert;
- `createdAt` is a clock: entries of one instant have no order between them, and
  `FreedWindowIsOffered` says so;
- `reject` frees a window and announces it to nobody;
- the sweep announces a window that has been confirmed meanwhile.

*SMS*

- a process, channel or answer lost between the provider's acceptance and the
  acknowledgement sends the SMS again (`NoSecondSms` assumes `faults = 0`); nothing else does;
- a record refused when a message is given up requeues it with its old count, and it is
  sent once more than `maxAttempts`: `AttemptsAreBudgeted` adds the refused statements;
- a run that goes on after its channel is lost may write "sending" over the record of its
  successor, and leave it so: `RecordIsResolved` excuses an orphaned run (and a refused
  statement), but neither a lost confirmation nor a dead worker. It needs the one worker that the
  compose file starts: with two, the older run may do the same. `NeverLost` needs no such thing.

*Subscriptions*

- two requests both find no pending purchase, and two checkouts open; when both are paid,
  the ceiling cuts the second one's days;
- a pending payment whose authority was never stored blocks every later purchase;
- any answer of the gateway but success, an outage or "not yet" among them, marks the payment
  failed, and a later callback does not open it again; so does any callback that reports a
  failure. `CheckoutIsSettled` therefore promises of a paid checkout that it ends, not that it
  ends with the plan;
- of two callbacks one may activate the plan and the other, told "not paid" by an outage or
  before, mark the same row failed: an active salon with a failed payment. The gateway has
  the money all the same (`ActiveIsPaidFor`);
- a death between `MarkPaid` and `Activate` loses the plan: the payment is paid, and the next
  callback finds it so. `CheckoutIsSettled` excuses it after a fault.

*Signing in*

- two concurrent requests leave two live challenges (each superseded what it had found);
- a refused delivery leaves the phone with no live challenge;
- a death between `Consume` and `IssueTokens` burns the code, and so does the first sign-in of a
  new phone that meets another one: both go to create the customer, and the second is
  refused. `SpentCodeSignsIn` excuses these two and nothing else;
- in the browser, a sign-out that races a refresh in flight is answered before it and leaves
  a live cookie; a late refresh answer overwrites the cookie of a newer login;
  `SignedOutStaysOut` and `SessionSurvives` are stated for a browser that is `Quiet` again, and
  `Overlapping` drops what the user asked when a sign-out overlapped the rest;
- an answer lost after the rotation leaves the browser with a dead cookie.

*Reminders*

- two workers would both find the log empty: everyone is texted twice;
- a refused SMS is tried again at every pass, with a push each time. Requirement 12.4
  (`.kiro/specs/salon-booking-system/requirements.md:188`) says that a failed SMS is recorded and
  that no "further fallback delivery" is attempted; `sendReminder` makes none
  (`notification.service.ts:443`, `:480`, and its test calls it once), but only a "sent" or "queued" row
  stops the next pass. The repetition ends when a staff notice was accepted: it is logged under the same appointment, type and channel, and the next
  pass takes it for the customer's;
- the list of a pass is not read again: an appointment cancelled since is reminded;
- a death after the SMS is logged loses the push and the staff's notices;
- an appointment that fails at every pass keeps those behind it on the list from their
  reminders: the loop of `dispatchReminders` has no catch. `VisitIsReminded` holds because
  `MaxFaults` bounds the failures.

**Bounds.** `MaxTime` stops a clock: two or three ticks pass a start (1 or 2), a hold
of one tick (a card transfer's longer one only enters the theorems), a code's window of one, a plan of two days and its grace of one.
`MaxNoShows` bounds the counter in the guard of `NoShowRead`. `MaxFaults`, `MaxOutages` and
`MaxRefusals` bound deaths, failures and refusals; one is enough for every crash above, since a
death only forgets local state. Early and false callbacks of `subscriptions` are no faults
and are not bounded; two handlers give every pair of conflicting callbacks. Two exclusive appointments and two requests give every pair of conflicting updates;
one stored appointment can cost another request all of its three pairs. `MAX_BOOKING_RETRIES` is
the code's 3 (1 in `waitlist`, where nobody competes). `Payment` bounds how many payments
are opened, `Purchase`, `Request` and `MaxLogins` likewise. In `sms` two attempts tell the first
from the last, and two runs of the handler give an orphan and its successor. `waitlist`
starts where both appointments are stored (`StoredInit`): the race for them is the matter of
`availability`. There, one edit (`MaxEdits`), which may be the closing of a day,
meets every state of the bookings; each kind of edit has one value that changes an offer;
the second day is open shorter than the first; edits while a day is being closed, its
reopening among them, need `MaxEdits = 2`, which TLC also passes but takes too long for a
run that is repeated often. The clock stands still:
it enters only through the date, which the two salons' zones tell apart. In `sessions` a dead session that nobody holds is used again, so `MaxSessions` bounds
those in use and not the rotations. A cancellation window of one tick separates a
cancellation at time 0 from one at time 1. Plans of 2 and 6 days fill a ceiling of 8, as a
month and a quarter do in `plans.ts`. Symmetry (appointments, requests, pages) is used in
runs with safety properties only; in `otp` it is over requests and verifications.

**Fairness.** A worker's next step is weakly fair: `setInterval` calls it as long as the
process lives, the running flag is cleared in a `finally`, and a supervisor restarts the
process (`PayFairness`, with the release and all that it closes; the waitlist's
`FairWlSpec`; `PassStep` of the reminders). The steps of a request that
has begun are weakly fair: the code between two awaits runs to its end (`AvFairness` for a
booking that was let in, `PayFairness`, `HeraldStep`, `CallbackStep`, `JobStep`). In `SmsFairness` the
broker delivers what is on the queue (`Take`) and returns what has waited (`RetryExpires`). In
`SubscriptionBilling` the payer's browser is sent back with what the gateway has decided
until a callback is served (`Return`): an assumption about the owner and the gateway
without which a checkout need not end, for nothing in the code looks for it. Nothing
else is assumed of customers, of staff, of the gateways, or of the clock.

**Mutants.** Each property of a passing run has a mutant (`..._Migration1`,
`..._OneShort`, ...): a mapped definition with a plausible bug, under which TLC finds the
property violated.

## 4. What TLAPS proves

Each theorem holds for every value of the constants that satisfies the module's named
assumptions (`NullAssumption`, `BookingAssumption`, `PaymentAssumption`, `WaitlistAssumption`, `AvailabilityAssumption`,
`SmsAssumption`, `BillingAssumption`, `OtpAssumption`, `SessionAssumption`,
`RemindersAssumption`, and `ResultAssumption`): sizes and types of the constants, nothing about how many
appointments, requests, messages, pages or workers there are. The runs evaluate all of them.
Type invariants are not checked by runs of their own: they are proved here.

**Appointments** (`BookingLifecycle_proofs`)

- `TypeOKCorrect`. `TypeOK` is not inductive: an update keeps the columns it does not set, so
  the row it names must have been inserted. The invariant is `TypeInv == TypeOK /\ CallsHaveRow`.
- `NoDoubleBookingCorrect`: `Spec => []NoDoubleBooking`. `TableSteps` reduces every step
  to: table unchanged, one `StoreRow`, or a release. `StoreRowKeepsCalendar` is the heart:
  one admissible write keeps the invariant whatever the request had read. The handlers'
  own checks play no part, so the promise survives every stale read.
- `LifecycleImplementsCalendar`: `Spec => Calendar!Spec`. Needs `InsertedOnce`: until a
  request inserts its row the row is absent, so an insertion takes a *free* slot. A late
  confirmation of a closed appointment is a new `Take`, which is why it must be admissible.
- `HoldsAreTimedCorrect`, `NoShowHadStartedCorrect`: by the same split into five kinds of
  step (`StepKinds`). The no-show proof adds `NoShowReady`: the comparison made at the
  read still holds at the write, because a stored start never changes.
- `HoldIsKeptCorrect`: a row leaves "held" before its deadline only by a request on that
  appointment. A pass writes late, at the time it captured; `SweepTimePassed` says that
  this time is not in the future, so what was due then is due now.
- `NoShowIsCountedCorrect` is inductive with the types: until the first death, the request that
  marked a no-show is there until it has counted it. After one the promise is void: the row
  and the count are two statements.
- `LostRaceHasWinnerCorrect`, from `RaceInv`: every refused pair is `Beaten` by a row that is
  stored, and stays so, because a row never leaves its interval and its resources
  (`SlotIsFixed`); the refused pairs number at most `MAX_BOOKING_RETRIES`; and a request with
  the answer "slot_unavailable" may not try again. `ResultAssumption` (no answer is the value
  of a request without one) is needed here.

**Deposits** (`DepositPayments_proofs`): `PayTypeOKCorrect`, `DepositsKeepCalendar`,
`ApprovalTakesTheHoldCorrect`, about `PaySpec`, from the inductive invariant `PayInv`. For the
lifecycle, `PayStepKinds` shows that a step is a step of `BookingLifecycle`, the
`Confirmation` of a stored row, or the `Abort` of a request, so the lemmas above carry
over. For the payment tables, every action has one of a few effects (`PaymentEffect`,
`ReceiptEffect`, `RequestEffect`, `SettleEffect`), and each effect keeps its part of the
invariant. What makes it inductive: a request names a stored appointment and, once it is
past opening it, an opened payment (`GoodIn`); and only a row whose offer asks for a
deposit is ever held, so the method of its payment is known. `DepositsKeepCalendar`
covers the late deposit, whose check of the slot is stale when the row is written.

The money (same module). `MoneyInvCorrect`: what a request decided on at one statement is
still true at a later one. `CallsBacked` and `SettlesBacked` say it of each request: one that acts
on the gateway's "paid" has a payment that *is* paid, one that records a refund has one
that was paid out, one that reviews a receipt has a transfer. `Steady` is why it stays true: a
payment never changes its method or its appointment, money taken stays taken, a refund stays a
refund. What could undo it is a second gateway session for the same payment, and
`OneOpener` excludes that: one request opens the session of a payment, while it is still
closed. `RefundIsRealCorrect` and `SuccessMeansPaidCorrect` are parts of `MoneyInv`.
`DepositBeforeConfirmationCorrect` adds `DepositInv`: a row whose offer takes a deposit is never
pending, so no request that approves it the ordinary way can be under way; whatever else
confirms it has the gateway's word (`CallsBacked`) or is the review of its transfer. That the
money is still there while the hold runs is `OverInvCorrect`: whoever refunds, a cancellation or a
late deposit, works on an appointment whose hold is over, and no row ever becomes held
again (`StaysOver`).

**Waitlist** (`Compositions_proofs`): `WlTypeCorrect`, `TheListIsFair` (`NobodyIsPassedOver`),
`WaitlistKeepsCalendar`. `LifecycleInside` shows that every step is a step of the lifecycle, or
the death of a request or a worker, with the waitlist beside it, so the calendar's lemmas carry
over. Fairness needs `HeadInv`: an announcer marks the entry it read some steps ago, and
whoever waits for the same window by then is no older than that entry. It holds because the
entry was the oldest when it was read, and whoever joins later joins at a later or equal time.

**Settings and availability** (same module). `AvTypeCorrect`, from `AvInv`. `SettingsKeepLifecycle` is
`AvSpec => Spec`: a booking enters the race only with what the settings make of it, closing a day
takes up the lifecycle's own requests, an edit touches no appointment; so every step is a step
of the lifecycle or leaves it alone, and all its theorems hold beside any edits
(`SettingsKeepCalendar` draws them for the two invariants of the run).
`ClosedDayOnlyDrainsCorrect` needs `OnlyRacing`: while the closure stands, whoever is past the
checks with an offer for that day was so when it was stored. It is inductive because the checks
read the closures at the step that enters the race (`AcceptedIsOpen`), and because no edit
closes a whole day, so a closure that is taken back does not return (`EditStores`).
`AvailabilityIsExactCorrect` compares the two algorithms: a start on the page's grid, with the
service and its buffer, ends within a day's hours, hence on that day (`StartIsOfTheDay`); the
booking's day is then the page's, and every appointment it could meet is among those the page
has read (`BusyIsOfTheDay`); so the pairs that are free for one are free for the other
(`PairsAgree`). It holds of any table and any settings of their types, for days, steps,
buffers and time zones of any size.

**SMS** (`SmsQueue_proofs`): `SmsTypeCorrect`, `MessagesAreNeverLost` (`NeverLost`), for any number of
messages, consumers and lost channels. `NeverLost` is not inductive: a run that is about to
acknowledge has its copy, and will have none in the next step. The invariant replaces "in
flight" by `Secured`: a copy on a queue, a run that owns its copy *and has more to do than to
acknowledge it*, a dead-lettered message, a send that was not reported failed, or a code
whose time is over. Each publication before the acknowledgement keeps it, and a lost channel
puts the copy back on the queue.

`SendsAreBudgeted` (`AttemptsAreBudgeted`) and `OneSmsStands` (`NoSecondSms`) rest on `BudgetInv`:
as long as no channel is lost, a message that may still be sent is in exactly one place
(`OneBearer`): with its caller, once on one of the queues, or with one run that has more to
do than to acknowledge. That bearer has accounted for every send there was (`CopyDue`,
`RunDue`): the attempts in the copy's header, plus the failures that could not be recorded
(`outages`), are at least the sends; and of the accepted sends only the one the bearer asks about
can be other than failed. So a copy that may send again (`verify = 0`) has none standing.
The proof goes by what a step does to the places of a message: it passes the message by
(`PassesBy`), or moves it from one place to one other. A lost channel breaks this, since the copy
is delivered a second time while the orphan run still sends; both properties say "without
a fault" for that reason.

**Subscriptions** (`SubscriptionBilling_proofs`): `BillingTypeCorrect`, `WindowIsNeverExceeded`
(`WindowIsCapped`) and `PlanLastsItsDays` (`PlanIsUsable`) for any number of concurrent
callbacks, from `BillingInv`: what a callback has read is never later than a subscription may
reach at that time (`CallbackInv`), however stale it is. `ActiveSalonHasPaid` (`ActiveIsPaidFor`) and
`AppliedPaymentIsClosed` (`AppliedIsClosed`), for any number of concurrent callbacks as well, from
`PaidInv`: a callback past the gateway's word has its money (`MoneyInv`: what the gateway has decided
stays decided), and a payment that has extended the subscription, or is about to, is
paid or failed and never pending again (`AppliedInv`). What fails for two callbacks at once, or
for one that comes early, is shown by `double_renewal` and `paid_after_failure`.

**Code login** (`OtpLogin_proofs`): `TypeCorrect`, `OneCodeOneSession` (`OneSessionPerCode`),
`SessionsNeedTheCode` (`CodeWasSent`), `EveryGuessIsCounted` (`GuessesAreCounted`), `SupersededIsNeverSpent`
(`SupersededIsDead`). A verification that is past the comparison works on a stored challenge with a
code (`BusyHasRow`), and of all verifications of a challenge at most one is past `Consume`, or
in a session: the conditional update decides, not the read. The count of a challenge is
the number of verifications that were charged, which is a cardinality that each
`CountFailure` raises by one. `SpentCodeIsNotLost` (`SpentCodeSignsIn`) needs `BeatenByAnother`: a
verification that is about to create the customer of a new phone, and finds that there is one
by now, holds another challenge than the one whose sign-in made him (`maker`,
`Rival`): no two verifications share a spent challenge, and whoever makes the customer goes on to
his session or dies with a challenge of his own.

**Sessions** (`BrowserSession_proofs`): `SessionTypeCorrect`, `LoginsAreNeverForked`
(`OneSessionPerLogin`), for any number of pages and logins. A refresh revokes the old session
in one statement and stores the new one in another; in between, the request is the only
trace of its login. `RootInv` says so: no session and no other request in that state has the
login, hence storing the new session forks nothing.

`BrowserInvCorrect` is the invariant of what pages show and what the browser holds.
`ShowInv`, page by page: whoever waits for a refresh request is answered by one, and an open
page whose status is "loading" has a newest run that is not done (`Watched`); without a
fault `/me` refuses no run (`Unrefused`), so nobody but the user signs a page out; and
without an expiry either, a page the user has signed in has a token and a newest run that says
so, or has said so (`Shown`). It needs no knowledge of other pages: a step of one page leaves the
others' records alone (`OneMoves`). `HoldInv`: every answer on its way to the browser brings a live
session that nobody else can present, hence none can have revoked (`FlightInv`); while
the user is in, the browser has a live cookie or such an answer on its way (`InInv`); once he is
out, no request presents a cookie and the session he ended lives only as long as
a sign-out with it is not served (`OutInv`, which uses that a login has one live session). The
four properties the run checks follow: `SpinnerIsWatchedCorrect`, `LoginIsShownCorrect`,
`SessionSurvivesCorrect`, `SignedOutStaysOutCorrect`.

**Reminders** (`Reminders_proofs`): `ReminderTypeCorrect` for any number of workers;
`NobodyIsRemindedTwice` (`RepeatsHaveACause`) under the assumption `OneWorker`, which the compose files
justify (`NOTIFICATION_CRON_EXTERNAL=true`). The log is behind the act: an SMS is accepted and
logged afterwards. An appointment is `Covered` when an accepted SMS is logged or its
answer is on the way into the log; an uncovered one has had no more reminders than passes
have failed with it in hand (`dropped`, `CountInv`), and what the pass in hand still owes is bounded by the same count
(`HandInv`).

**Only model-checked.** Liveness, which needs ENABLED: `ExpiredHoldIsReleased`, `BookingIsAnswered`,
`ExpiryIsAnnounced`, `PendingReceiptIsClosed`, `QueueDrains`, `RecordIsResolved`,
`FreedWindowIsOffered`, `CheckoutIsSettled`, `VisitIsReminded`, `StaffIsTold`. Every invariant
and every other action property the passing runs check is the subject of a theorem; `RenewedOnce` and
`FailedIsUnpaid` do not hold.

## 5. Plan

Done: the appointment core, the settings and the availability they give, deposits, the waitlist composed with the core, the SMS queue,
subscriptions, code login, browser sessions, reminders, with the theorems above. What is
left, in this order:

1. An abstract ledger for deposits: taken once, then kept or given back, and the steps at
   which the code leaves it.
2. `BookingAbuseGuard`, referrals and the bot conversation.

## 6. Not modelled

- **Referrals, the booking abuse guard, the bots.** Referrals and the guard count rows and then
  write, without a promise about concurrent requests; the bots drive the same handlers through
  a conversation. They come last because nothing else depends on them.
- **Queries** (analytics, lists), registration and the catalogue's forms, inbox,
  QR codes, support, formatting and localisation, HTTP validation, file contents: they read, or
  write one row that no other handler updates concurrently. This is most of the repository by
  lines, the pages of the web client above all: views over the API whose only shared state, the
  session, is `BrowserSession`.
- **Rescheduling.** `reschedule` and its negotiation are unreachable while
  `APPOINTMENT_RESCHEDULING_ENABLED` is false.
- **In modelled components:** `selectStaffContext` (one more session of the same kind), rate
  limits and roles; the mobile client's token in the body; the platform administrator's edits
  of a subscription and the expiry notices; confirmations, rejections and cancellations as
  messages (one best-effort SMS each, whose delivery is the queue's); malformed queue payloads.
- **External services** are modelled from how `src/` uses them: both payment gateways, the SMS
  provider and its reports, the broker, the browser's cookie jar.
