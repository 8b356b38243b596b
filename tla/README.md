# A TLA+ model of StorageOS (TrasterOS)

StorageOS is a multi-tenant SaaS for self-storage operators. A NestJS API over
Postgres (row-level security per tenant) with BullMQ workers and crons on Redis,
Next.js front ends, and external services: Stripe, GoCardless and Redsys for
charges, banks through SEPA files, the Spanish tax agency (Veri*Factu), e-mail,
doors. Money moves through concurrent requests, webhooks, crons and files, each in
transactions of its own; that is what this project models, checks with TLC and
proves with TLAPS.

All paths below are relative to the repository (`src/` of it is `src/apps/api/src`
unless the path says otherwise; `modules/` is `src/apps/api/src/modules/`).

## 1. Inventory

### 1.1 The parts and what each must keep

| Component | State | Operations | What makes it correct | Model |
|---|---|---|---|---|
| Invoice ledger: `modules/payments/payments.service.ts`, `modules/billing/invoices.service.ts` | `Invoice.status, amountPaid, amountRefunded`; `Payment` rows; a partial unique index | `chargeInvoice` (phases 1 and 3), `syncFromWebhook`, `syncRefundFromWebhook`, `syncDisputeFromWebhook`, `markPaidManually`, `revertPayment`, `refund`, `cancelIssued` | no money counted twice or invented; paid means covered; refunds bounded; one live charge | `InvoiceLedger` |
| Gateway charging: the same service with `stripe.gateway.ts`, `gocardless/*`, the webhook controllers | the call in progress, the idempotency key, `StripeEvent` / `GoCardlessEvent` rows | request, answer or lost answer, webhook claim and handling | never charged twice; what was captured is booked; nothing booked that was not captured | `GatewayCharging`, `Collection` |
| Sweep of stale charges: `payments/stale-charges.service.ts` | none of its own | resolve Stripe charges without id, expire Redsys orders | closes only what is over | `GatewayCharging` (Stripe), `RedsysOrders` (expiry) |
| Redsys orders: `payments/redsys/*` | `RedsysOrder` | charge a saved card, offer and replace the payment page, notify, resolve, expire | an order is booked once, only if approved, and its money is never forgotten | `RedsysOrders` |
| SEPA remittances: `sepa/sepa.service.ts`, `sepa-items.ts` | `SepaRemittance`, `SepaRemittanceItem` | create, confirm (claim, receipt of each item, resume), cancel, return | one open item per invoice; each item receipted once; the item tells whether it was | transactions in `InvoiceLedger`, processes in `SepaRemittances` |
| Bank reconciliation: `bank-reconciliation/*` | statement lines | match, unmatch, returned debit | a returned debit is taken back once | `markReturn` in `SepaRemittances`; the rest are ledger steps |
| Dunning: `dunning/dunning.service.ts` | `DunningAction` | daily tick, schedule, execute, cancel | only unpaid invoices are chased; access is cut and given back | tick in `InvoiceLedger`; rest planned `Dunning` |
| Retries and auto-charge: `payments/payment-retry.service.ts`, `auto-charge.service.ts` | `PaymentRetry` | schedule, claim, charge | at most one attempt at a time | callers of `chargeInvoice`; schedules not modelled |
| Invoice drafts, issuing, numbering, rectification: `billing/invoices.service.ts`, `invoice-series.service.ts` | series counters, drafts | issue, rectify, credit | numbers without gaps or repeats | issuing and numbering in `Verifactu` |
| Veri\*Factu: `billing/verifactu.service.ts`, its processor and cron, `aeat-client/` | hash chain, `aeatStatus`, `aeatSentAt`, the queue | append, send, retry, refresh, resend, requeue | one chain per issuer; records sent in order; the invoice agrees with the agency; nobody is forgotten | `Verifactu` |
| Sessions: `auth/sessions.service.ts`, `auth.controller.ts` | `Session` rows, the browser's cookie | login, rotate, grace of 30 s, lost answer, detect reuse, close | a race or a lost answer is not taken for a theft; what is replaced as lost was lost | `Sessions` |
| Occupancy: `contracts/*`, `facilities/units.service.ts`, `common/unit-holds.ts` | `Unit.status`, contracts, reservations | hold, reserve, sign, end, cancel, change unit now or later | one tenant per unit; status agrees with the contracts; one claimant; nothing reserved for nobody | `Occupancy` |
| Waitlist, online booking, signatures: `waitlist/*`, `move-in/*` | entries, notices, deadlines | notify, resolve, expire, book | a notice or a booking holds its unit and gives it back | `Occupancy` |
| Access control: `access/*` | credentials, debt cuts | verify, cut, restore | cut while in debt, restored after | planned with `Dunning` |
| Outgoing webhooks: `integrations/webhooks.service.ts` | deliveries, endpoint failures | enqueue, deliver, retry, disable | at least once, disabled after repeated failure | later |
| Collections, payment plans, cash, suspension holds, unit changes, rent increases, portal, retention, opportunities, stock, Holded, platform billing, bridge, web | their own tables | CRUD and schedules | - | not modelled |

### 1.2 How they interact

* `chargeInvoice` (portal, panel, auto-charge, retries) reads the invoice, checks
  for payments and remittances in flight, reserves a payment row under an advisory
  lock, asks the gateway outside any transaction, and finalises the row. Those are
  five separate steps on what the previous one read.
* Webhook controllers claim an event id (`markProcessed`), then call
  `syncFromWebhook` and its siblings, which lock rows and add or take back money.
  An exception releases the id and the gateway delivers again.
* The sweep (every 15 minutes) asks Stripe about rows that stay in `processing`
  without an id and applies the answer through the same functions.
* A Redsys order is closed by the bank's answer to the call or by a notification,
  whichever claims its row first; the sweep expires the ones nobody answered.
* Confirming a remittance registers one receipt per item through `markPaidManually`,
  each in its own transaction; five minutes later another request may resume it.
* The staff (receipts, refunds, voids, remittances), the bank reconciliation and
  the daily dunning tick write the same rows.
* A request on a contract reads it, then writes unit and contract in a later
  transaction; reservations, the waitlist and online bookings write `Unit.status` too.
* Issuing an invoice takes a number and a place in the issuer's chain in one
  transaction, queues the record, and a worker sends it; a cron queues again the ones
  that stay without an answer; the staff may query and resend.
* A browser renews its session with the token of its cookie, from any tab.
* Nothing is shared but the database and the queue: a crash of a process loses what it
  had read.

### 1.3 What is hard

Concurrent requests; an answer of the gateway that is lost after the money moved;
webhooks before the answer, repeated, or out of order; a process that stops between
the external call and the transaction that records it, or between claiming an event
and applying it; checks made in one transaction and used in the next; cumulative
refunds arriving from two sides; money taken back long after it was booked; one status
of a unit written by six services; a queue job lost after the commit; an agency that
registered what nobody was told; a token presented again because its successor never
arrived.
`PROJECT.json` lists these hazards one by one with their lines and the properties
that watch them, and, where none does, why.

## 2. Modules

```
InvoiceLedger          the transactions on one invoice, in any order
  |-- MCInvoiceLedger, InvoiceLedgerProofs (over SumLemmas)
  |-- GatewayCharging        Stripe and GoCardless: the processes that run them
  |     |-- (INSTANCE) Collection   what charging promises
  |     `-- MCGatewayCharging, GatewayChargingProofs
  |-- RedsysOrders           Redsys: call, page, notification, expiry
  |     `-- MCRedsysOrders, RedsysProofs
  `-- SepaRemittances        confirmations of remittances and returned debits
        `-- MCSepaRemittances, SepaProofs
Occupancy              who has each unit      -- MCOccupancy, OccupancyProofs
Verifactu              numbers, chain, agency -- MCVerifactu, VerifactuProofs
Sessions               renewing a session     -- MCSessions, SessionsProofs
```

The three modules over the ledger EXTEND it and use its transactions as they are; their
proof modules extend `InvoiceLedgerProofs`. The other three share no state with it: an
invoice enters the ledger once issued, and rent, access and logins are other rows.

**InvoiceLedger.** One issued invoice. `inv` is its row (`due` stands for
`dueDate < now`), `pay` the payment rows (`back` is `refundedAmount`, `gid` says
whether `gatewayPaymentId` is set), `remit` the remittances and their item of this
invoice. `justOverdue` is what `dailyTick` holds between its read and its update,
and `voiding` what `cancelIssued` holds between its reservation and its outcome.
Each action is one transaction of the code, guards and early returns included.
`SyncCharge` is `syncOneFromWebhook`, `SyncRefund` is `syncOneRefund`, and so on; `map`
in `PROJECT.json` gives the lines. Taken alone, the module lets any transaction run
at any time its own checks allow: what holds here does not depend on who calls.

**GatewayCharging.** The processes over it, for Stripe and GoCardless. An element of
`Charges` is one request of `chargeInvoice`: `call` says where it is (`idle`, `read`,
`checked`, `reserved`, `answered`, `done`, `crashed`), the amount it read and the
answer it got. `gw` is the truth at the gateway, which no code can see. `event` is the
life of each webhook event (`sent`, `claimed`, `done`), `look` what the sweep read of a
charge and has not applied. The actions follow the code: `ReadInvoice`,
`CheckInFlight`, `Reserve`, `Submit...`, `Finalize`; `ClaimEvent` and `Handle...`;
`Lookup` and `Sweep...`; `Crash...`.

**Collection.** What charging promises without rows, webhooks or sweeps: money is with
one charge at a time, a charge is tried once, and is booked only for money collected.

**RedsysOrders.** An element of `Charges` is a call of `chargeInvoice` with a saved card,
its payment row and its order; an element of `Redirects` a request of the payment page.
`order` is the row of `redsys_orders`, `call` and `handler` say where `chargeInvoice`,
`createRedirect` and `handleNotification` are and what they have read, `bank` is what the
bank decided, `booked` the receipts that a notification registered, `review` the orders put
before the staff. The call and the notification claim an order with one conditional
update (`Resolve`, `Claim`); the notification then brings its parts to the ledger one
transaction at a time (`CountRow`, `SyncRow`, `Split`, `ApplyPart`, `RefusePart`).
`ExpireOrder` and `ExpireRow` are the two updates of the sweep. `stopped` records orders
that a process left half-way where nobody takes over.

**SepaRemittances.** `conf` is a request of `confirmRemittance` (`Read`, `Claim` or
`Resume`, `List`, `Look`, `RegisterReceipt` or `ReceiptRefused`, `Set`), with the status
and claim it read; `claims` counts the values of `confirmedAt`; `noted` are the receipts
whose note carries the item's id, by which a resumption recognises them; `line` and `ret`
are the bank statement's line of a returned debit and the requests that mark it.
`FiveMinutesPass` lets a claim grow old at any moment, and `overlapped` records the ones
whose confirmation was only slow.

**Occupancy.** `unit`, `contract`, `res`, `entry` are the rows; `req` is a request on a
contract between its reading and its write; `booking` an online booking between its three
transactions. `HeldByOther` and `Released` are the two helpers of `unit-holds.ts` that all
services share. `slip` is a history of what each unit has suffered: `outdated` (a write from
a reading others had changed), `window` (a unit taken from a booking before its deadline
was stored), `left` (nobody's row gives the unit back) and `shared` (a tenant left the unit
and it went on sale over a booking of the same customer); the properties say which slips they
exempt, and section 5 where they come from.

**Verifactu.** `row` is the invoice (number, place in the chain, link, `aeatStatus`,
whether `aeatSentAt` is set), `next` the series' counters, `req` the requests that issue
(`Lock`, `ReserveNumber`, `Chain`, `Commit` or `Rollback`, `Enqueue`), query (`Refresh`,
`WriteRefresh`) and resend, `jobs` and `work` the queue and its worker (`Take`, `AskFirst`,
`Submit`, `Store`), `agency` what really happened there, a record still on its way included.
`Requeue` is the cron. `unsure` and `touched` are histories of the cases section 5 lists.

**Sessions.** `session` is the rows of a user, `jar` the token in each browser's cookie,
`req` the renewals under way. `Read`, `Claim`, `ReadAgain` are `rotate`; `Judged` and `Fork`
the grace of `rotateWithinGraceOrRevoke`; `FindHeirs` and `Replace` the two statements of
`recoverLostResponse`; `RevokeAll` is `revokeAllAndFlagReuse`. An answer is delivered late or lost
(`Deliver`, `Lose`); thirty seconds pass at any moment (`GracePasses`). `strained` is a history
of the tokens older than that which two requests presented together: the code cannot
tell those from a theft.

Operators under the headings *Variants* are slips of one definition each, used to
confirm that a property notices them; no action uses them.

**The proofs** are in one module per component, and in `SumLemmas` for what the sum of the
amounts of an invoice's payments computes.

## 3. What TLC checks

| Run | Instance | Shows |
|---|---|---|
| `ledger` | 1 Stripe and 1 Redsys charge, 1 receipt, total 2, `BoundedSpec` | `PaidMeansCovered`, `RefundsBounded`, `SucceededIsCovered` (taking money back never meets the floor at zero), `PaidMovesWithOnePayment` (amountPaid moves with exactly one row, by its amount) |
| `cards` | 2 Stripe charges (a card and a direct debit), 1 receipt, chargebacks, lost answers with or without id, 1 crash of the call, a handler or the sweep | `CapturedOnce`, `CaptureHoldsItsRow`, `PaidIsCollected`; refinement of `Collection` |
| `everybody` | 2 GoCardless debits with a receipt, a remittance, a void, the tick, returned debits and a crash of the call | `PaidIsCollected`, `BookedWasCaptured`, `OneLiveCharge` |
| `live` | 2 Stripe cards, refunds in the dashboard, lost answers, a crash of the call, `FairSpec` | `CapturedIsBooked`, `EveryChargeIsResolved` |
| `redsys` | 1 saved-card charge, 2 page requests, 2 receipts (1 in cash), total 2, 1 crash of the call, a handler or the sweep, `FairSpec` | `OrderBookedOnce`, `BookedWasApproved`, `PaidIsBooked`, `AccountedAtRest` (approved money is booked in full or put before the staff), `EveryReservationCloses` |
| `sepa` | 3 confirmations, 2 remittances, 2 returns, 3 receipts (1 in cash), total 2, 1 stop | `ReceiptedOnce`, `ItemTellsTheTruth`, `RemittedOnce`, `ReturnedOnce` |
| `moves` | 2 units, 2 customers with a contract each, 1 request that others overtake in all its operations, bookings | `OneLiveContract`, `UnitTellsTheTruth` |
| `holds` | 2 units, 2 contracts, a reservation, a waitlist entry, bookings, 1 stop | `OneClaimant`, `ReservedForSomeone` |
| `verifactu` | 2 invoices of one issuer in two series, 2 requests, 2 jobs of one invoice, 2 troubles; deadlock checked | `NumbersWithoutGaps`, `OneChain`, `SentInOrder`, `AgencyAgrees`, `NobodyForgotten` |
| `sessions` | 1 browser, 2 renewals at once, 4 sessions, 1 sibling | `NoFalseAlarm`, `ReplacedIsLost` |

Each module's type invariant is in one of its runs (`TypeOK`, `ChargingTypeOK`,
`RedsysTypeOK`, `SepaTypeOK`, `OccupancyTypeOK`, `VerifactuTypeOK`, `SessionsTypeOK`).

Two runs check what the code's own comments or its sibling code say and TLC refutes
(`findings` quotes the lines):

* `charged_and_remitted`: `chargeInvoice` looks for remittances in a transaction
  before its reservation, so a remittance created in between takes the invoice to the
  bank while the card is charged.
* `gocardless_twice`: a GoCardless request whose answer is lost is recorded as failed,
  the slot is free, and a second debit is made. Stripe's adapter keeps such a charge
  in progress; that is why `CapturedOnce` holds with Stripe.

### Bounds, and why they are enough

Two requests are the smallest number that can race, and every check in the code is
pairwise (one other live charge, one other remittance, one other holder of a unit). With
`Total` 1 each payment covers the invoice; `ledger`, `redsys` and `sepa` use 2, so partial
payments, partial refunds, receipts that complete a charge and a page whose amount is stale
occur. `sepa` has three confirmations: the first, one that resumes it and one that comes
with it.

* `MaxPaid` bounds only `BoundedSpec`: without a caller's protocol the same row could be
  failed and booked again for ever, so there no charge throws once `amountPaid` is above it.
* `MaxCrashes`, `MaxStops` are 1: after a stop the remaining processes run to the end.
* `Requests` and `Slow` (Occupancy): the requests that others may overtake between reading
  and writing, and their operations. The other operations are also there as requests that nobody overtakes.
  `moves` and `holds` divide the module: together they exceed what TLC finishes. In both each
  customer has one contract, so no unit becomes `shared`; instances with three contracts, two of
  them of one customer, were tried as well, and the theorems hold for any number.
* `MaxJobs` 2 (one job running, one queued by a resend or the cron); `MaxTroubles` 2 counts lost
  answers, stops and resends by hand together. Three invoices with one trouble, two of one
  series with two troubles and two with three troubles were tried as well.
* `MaxForks` is 3 in the code and 1 here: two siblings already race with the token they
  come from, and the limit is reached.

Symmetry is declared over sets whose elements the module does not tell apart, and only in runs
without liveness. `ledger` and `verifactu` check deadlock and find
none (a query of the agency's status is always possible). The others say
`CHECK_DEADLOCK FALSE`: contracts, sessions or rows run out, or everything has come to rest.

### Fairness

In `GatewayCharging`, `Fairness` asks that a request already made takes its next step, the gateway
settles what it accepted, an event is delivered and handled until accepted (gateways redeliver
for days; an exception releases the claim), and the cron keeps sweeping. Nobody has to
charge, dispute or refund. In `RedsysOrders` it asks the same of the call, the
notification's handler (Redsys repeats a notification until it is accepted) and the sweep; the
bank, the customer and the staff need not act. A crashed call has no steps left, so nothing
is assumed of it.

The `live` run assumes that a lost answer does not carry the charge's id
(`ErrorIds = FALSE`), that a handler or the sweep does not stop half-way, and cards.
Each of these matters: with `ErrorIds = TRUE` and a request that never arrived, the row has an
id, the sweep skips it (`stale-charges.service.ts:56`) and it stays in `processing`; a
sweep that stops between adopting a charge and applying its state leaves it to the
webhook alone; and GoCardless charges are not swept. In `redsys`, `EveryReservationCloses`
exempts what section 5 lists under `stopped`.

## 4. What is proved

With TLAPS, for every value of the constants: every set of charges, remittances, units,
invoices or sessions, every total and any number of crashes. Every safety invariant and
action property that a run checks, and the refinement of `Collection`, is stated by a theorem.
TLC checked each inductive invariant on the run's instance before it was proved.

The assumptions are those of the modules (`LedgerAssumption`, `ChargingAssumption`, ...), which say
what the constants are. Two carry weight: `PaymentsAssumption`, that an invoice has finitely
many charges and receipts, without which a sum of amounts means nothing; and that reservations, entries
of the waitlist, customers and `NoOne` are told apart (`OccupancyAssumption`). A theorem that needs
more says so itself: `StripeOnly`, and `"refund" \notin Actors` for `ChargingPaidIsCollected`.

`SumLemmas`
* `SumFunctionOnSet` chooses a function that solves the recursive equation of the sum. For a finite set
  there is one and only one (`SolutionExists`, `SolutionsAgree`), so the sum loses exactly the value of an
  element taken out, depends only on the values, and is at least that of a part. Induction over the
  set is replaced by a smallest subset for which the fact would fail (`MinimalSubset`).

`InvoiceLedgerProofs`
* `LedgerTypeOK`. `WriteRow` reduces each transaction to the row it writes.
* `LedgerPaidMeansCovered`. Inductive with the types: money enters through `Credited`,
  which turns the invoice paid only when covered; it leaves through `Debited`, which
  leaves no paid invoice; a failed void restores `issued` or `overdue`.
* `LedgerOneLiveCharge`. A charge becomes live by a reservation, which under the lock
  sees none alive, or by a webhook, whose transaction the unique index guards;
  everything else only removes live charges.
* `LedgerRefundsBounded`. Not inductive as it stands, since a payment may receive its
  gateway id after being written. `RefundsInv` adds that a payment without an id is
  neither settled nor refunded.
* `LedgerSucceededIsCovered` and `LedgerPaidMovesWithOnePayment`. A transaction writes at most one
  payment row, and what it does to `amountPaid` depends on whether that row enters or leaves the
  `succeeded` ones (`StepMovesMoney`); the sum moves by that row alone (`SumOfWrite`).
* `CollectedMoves` says the same of the settled payments, refunded ones included: a row that
  becomes settled adds its amount, one that ceases to be takes it back, any other leaves both alone.
  Each protocol shows its steps to be such moves. The ledger alone cannot: there a charge may throw
  after it succeeded, which no process does.

`GatewayChargingProofs`
* `ChargingTypes` and `ChargingIsLedger`: every step of the processes is a ledger
  transaction or leaves the rows alone, so the ledger's theorems carry over
  (`ChargingPaidMeansCovered`, `ChargingOneLiveCharge`, `ChargingRefundsBounded`,
  `ChargingPaidMovesWithOnePayment`). The induction needs `CallInv`:
  the amount a call holds was due when read, a success carries an id, no payment
  exceeds the total.
* `GatewayInv` is the heart: what happened at the gateway agrees with what the call, the
  events and the sweep know, and with the row. For instance the sweep holds `absent` only
  of a charge whose call is over and never reached Stripe, so giving it up loses nothing;
  a failed event exists only if the charge failed.
* From it: `ChargingBookedWasCaptured` (both gateways), `StripeCaptureHoldsItsRow`, and,
  since at most one row is live, `StripeCapturedOnce`. With GoCardless the last two are
  false (`gocardless_twice`).
* `StripeCollection`: charging implements `Collection`. `SubmitReached` is a `Take` because
  the reserved row is live, no other row is, and money at Stripe needs a live row.
* `ChargingPaidIsBacked`: `amountPaid` never exceeds the settled payments, whatever the dashboard
  does. `ChargingPaidIsCollected`: it equals them when nobody refunds in the dashboard. The one step that
  separates the two is a refund that reaches a payment before its success (`RefundsEarly`): the
  row counts as settled from then on and its money is never added (section 5).

`RedsysProofs`
* `RedsysTypes`; `RedsysBookedWasApproved`: a row settled by Redsys belongs to an order the bank
  approved. `RedsysInv` ties the order's status to the bank's decision and to who is
  working on it. `RedsysOneBooks` states why an order is not booked twice: of call and
  notification one at most has its result to book, for both claim the order with a
  conditional update.
* `RedsysIsLedger`: every step is a transaction of the ledger or leaves its rows alone, and so
  `RedsysPaidMeansCovered` and `RedsysPaidMovesWithOnePayment`.
* `RedsysPaidIsBooked`, by `CollectedMoves`: whoever books an order, the row it writes was not settled.
* `RedsysOrderBookedOnce` and `RedsysAccountedAtRest` from `KeptInv`: the amount of an order is that of
  its row (`AmountFine`); what is booked, what the handler still has in hand and what it refused
  make up the order (`BookFine`); a handler that found the row open counts on it (`CountsOn`);
  an approved order is with somebody, booked, in front of the staff or `stopped` (`Followed`).

`SepaProofs`
* `SepaReceiptedOnce`, `SepaItemTellsTheTruth`, `SepaRemittedOnce`, for any number of requests,
  resumptions and stops. `SepaInv` is: what a confirmation has read is still so (`Sound`); one
  at a time holds a claim that did not grow old under it (`Alone`); item, receipt and note
  agree (`Agrees`).
* `SepaReturnedOnce` from `ReturnBooks`, a count: payments taken back, plus requests that have claimed a
  line and taken nothing back yet, are no more than the lines marked `returned`. The sets of rows
  may be infinite; only finitely many have acted at any moment.
* `SepaIsLedger` and, from it, `SepaPaidMeansCovered` and `SepaPaidMovesWithOnePayment`.
* `SepaPaidIsCollected`, by `CollectedMoves`: `amountPaid` is the sum of the settled payments, so
  taking a debit or a transfer back never meets the floor at zero. No run states it.

`OccupancyProofs`
* `OccupancyOneLiveContract`, whatever overtaken requests write: a contract becomes live or moves
  only past the partial unique index; every other step keeps or ends lives (`LivesKept`).
* `OccupancyUnitTellsTheTruth`: a request on a contract writes unit and contract together
  (`RequestStep`, by operation); no other step makes a unit `occupied`, and only a change by hand
  takes that from one, when nobody rents it (`OccupiedKept`); a slip is never forgotten
  (`SlipsKept`). The argument needs `OccupancyInv` (the types, and that a request knows its row and
  a booking its unit) and `OneLiveContract`.
* `OccupancyOneClaimant`. `PapersInv` is about rows: a draft has no move, a booking has its draft, a
  request that waits cannot have met the draft of a booking, an entry names a contract once
  converted, the reservations of a unit do not overlap. `ClaimsInv` is about the units that no slip
  has touched: one claimant at most, none while the unit is on sale, no reservation or move beside
  a tenant. The proof showed that the property, as first stated, was false of a customer with
  two contracts on one unit; the case is the slip `shared` (section 5), which the property now exempts.
* `OccupancyReservedForSomeone`. `Waits(u)` lists what a reserved unit may be waiting for: a move, a draft
  whose deadline is stored or that a booking holds, an open reservation, an entry that was notified or
  whose notice has expired. A step leaves all waits but those of the rows it writes (`Lasting`), and a
  reservation or entry that became a draft stays as it is (`RecordsKept`), so the draft takes over its wait.

`VerifactuProofs`
* `VerifactuNumbersWithoutGaps` and `VerifactuOneChain` from `IssueInv`: no two open transactions are
  behind one lock (`Apart`), an open transaction holds the next number and the next place
  (`Ready`), the issued ones form an initial segment (`Placed`). No finiteness is needed.
* `VerifactuSentInOrder`, `VerifactuAgencyAgrees`, `VerifactuNobodyForgotten` from `SendInv`: what the
  worker and each request know of the agency is true (`WorkFine`, `RequestFine`), and each record's
  row, jobs and fate agree (`RecordFine`).

`SessionsProofs`
* `SessionsNoFalseAlarm` and `SessionsReplacedIsLost` from `SessionsInv`: while anybody holds a token
  that is not strained, nobody holds what was made of it (`HeirsUnheld`, in `JarFine` and `Alone`); so
  its heirs can only have been closed by the user, and replacing them takes nothing from
  anybody. `AnswerFine` says that a token on its way is held by nobody yet.

Only model-checked: the liveness properties (`CapturedIsBooked`, `EveryChargeIsResolved`,
`EveryReservationCloses`), which rest on fairness and so on ENABLED, out of the prover's reach.

## 5. Seen while modelling, without a run

Reachable in the model or read in the code; none is needed to understand the runs.

* Charging on a stale read: status and amount are those of the first read
  (`payments.service.ts:141`, `:161`), so an invoice voided or paid by hand before the
  reservation is still charged. The ledger stays consistent (`amountPaid` may exceed the
  total), and only `syncOneFromWebhook` (`:843`) announces an overpayment, not phase 3.
* A dispute handled before the success it disputes is dropped, and the success is then
  booked. A refund event before the row has its id is dropped; a refund applied before
  the success makes the success a no-op, so the money is not in `amountPaid`. This is why
  `cards` and `everybody` leave dashboard refunds out of `Actors`.
* A GoCardless event that arrives before phase 3 stores the id finds no row and stays
  processed.
* Taking one payment back from an overpaid invoice marks it due although the rest covers
  it; a void whose rectification fails may restore `issued` after a late credit.
* Refunding a manual payment may record more than that payment's amount (the total of the
  invoice still bounds the sum).
* A webhook handler that stops between claiming an event (`stripe-webhook.controller.ts:80`)
  and applying it loses the event for ever: the next delivery is a duplicate, and the sweep
  skips rows with an id.
* The daily tick updates by id the invoices it selected earlier (`dunning.service.ts:119`), and
  may mark as overdue one that was paid or voided in between.

Redsys:
* The notification claims the order, and before it books the payment the call resolves: it
  finds the order taken and reports `failed` (`redsys-charge.service.ts:203`), phase 3 marks the
  payment failed, and the slot is free. A second charge of the same invoice may be made and
  approved before the notification books the first.
* Nobody finishes what these leave half-way (`stopped`): a call that stops before its order's number
  is stored, or between closing the order and phase 3; a handler after its claim; the sweep
  between its two updates.

SEPA: a confirmation that is still running after five minutes is taken for dead and resumed
(`overlapped`); both may then register the same debit.

Occupancy:
* `outdated`: `end`, `cancel`, `changeUnit` and the others check the transition on the contract
  read before their transaction, so two of them may both pass although `docs/API.md:626` lists what
  each status allows and answers 400 to the rest; a contract ended by one request may be ended again, or
  moved, by another, which frees or occupies a unit that is no longer its own.
* `window`: a booking reserves the unit, creates the draft and stores the deadline in three
  transactions; until the third no row says whose the unit is.
* `shared`: `end` (`contracts.service.ts:2198`), `cancel` and `changeUnit` put the unit a tenant leaves on
  sale without asking `unitHeldByOther`, and `sign` (`:1323`) lets a tenant in over their own other
  reservation or draft. That other one is then a claim on a unit anybody may take.
* `left`: `changeUnit` to another unit than the scheduled one forgets the scheduled move without
  freeing its destination (`contracts.service.ts:3635`); the worker stops between expiring a
  notice and freeing its unit (`waitlist.service.ts:665`); a pending reservation that is cancelled or
  expires leaves the unit as it was; a booking that stops half-way.

Veri\*Factu:
* A duplicate (3000) whose query then fails is stored as `rejected` (`verifactu.service.ts:201`), and
  no cron looks at it again although the agency may have it.
* `resendAeat` keeps `aeatSentAt`: a resent record whose job is lost stays `pending` and sent,
  `requeueStalled` skips it, `pollOrphans` is told it is not registered and writes nothing, and the
  issuer's later records wait behind it. A record never sent whose status is asked for by hand
  during an outage becomes `error` without `aeatSentAt`, which no cron selects either.
* `refreshStatus` writes its answer whatever the row says by then. When the query that precedes a
  second attempt fails, the record is sent anyway and the duplicate answer decides.
* `docs/ARCHITECTURE.md:202` says that the worker runs two jobs at once; the code runs one.

Sessions:
* Closing the others (`users.controller.ts:233`: "esta sigue abierta") or changing the password
  (`users.service.ts:476`: "EXCEPTO la actual") leaves a revoked token in the other browser's cookie.
  When that browser renews, it is taken for reuse and the session that was kept is closed as well. The same
  happens with a session that expired while its cookie lives (`tenant-refresh-cookie.ts`).
* Two requests that recover the same lost answer together (`docs/API.md:2153` promises them a new
  session): the second sees the first one's work and may close everything (`strained`).
* A token rotated less than thirty seconds before a global logout still gets a sibling.

## 6. What is not modelled, and why

* Ledger: deposit receipts charged together with the invoice, withholding and
  compensation rows (not money), invoices of Holded, a reversal whose amount matches no
  recorded payment, the payment status `pending` (no code writes it), the refusal of the
  same receipt or refund entered twice within seconds and of partial cash receipts (they
  only remove steps), a second void started while one is being rectified.
* Charging: the customer finishing an authentication in the browser after the server has
  cancelled the intent.
* Redsys: deposits and further invoices paid with one order, saving the card, a failure of the
  notification to the staff itself, an error of the database inside `resolve`.
* SEPA: mandates and their FRST/RCUR sequence, several items of a remittance (they do not
  interact), the other operations of bank reconciliation.
* Occupancy: ended and cancelled contracts are one status, blocked units and those under maintenance
  too, a deadline matters only for drafts, entries of the waitlist are leads without an account, a
  customer's other rented unit, contracts signed before the opening, imports, the inventory repair,
  reservations without customer or with separate dates, the order of the waitlist and its
  pre-assignment; statements inside a transaction are one step.
* Veri\*Factu: stub mode, invoices issued through Holded, the yearly restart and date order of a
  series, a missing certificate, attempts counted one by one, batch sizes, the limits of
  rectifications, the reset of a tenant.
* Sessions: a token presented by another browser or user agent, accounts switched off, two-factor
  and invitations (they end in a login), two siblings counted at the same moment, a revocation of
  all sessions that misses one created in a transaction still open.
* Dunning's schedule and access cuts, retries' own schedules, refunds at the gateway inside the
  transaction, outgoing webhooks and platform billing: see the plan.
* The whole of pure I/O (mail, PDFs, reports, imports, search, AI, device drivers, user interfaces): no
  shared state whose interleavings bear on these properties.

## 7. Plan

Done, each with its MC module and proofs: `InvoiceLedger`, `GatewayCharging` and `Collection`,
`RedsysOrders`, `SepaRemittances`, `Occupancy`, `Verifactu`, `Sessions`.

Left, in this order:

1. `Dunning`: the schedule of actions, their execution on an invoice paid meanwhile, and the access
   cuts that must be lifted once the debt is paid.
2. `GatewayRefunds`: the refund that reaches the gateway inside a transaction that may still fail.
3. Outgoing webhooks: at least once, retries, endpoints disabled after repeated failures.

`moves` and `holds`, or `cards` and `everybody`, would then become one run each on smaller instances, with the
theorems covering the rest.
