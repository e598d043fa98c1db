# Formal models of the Driver Feedback and Core backend

TLA+ modules, TLC instances and TLAPS proofs for the backend in `src/`, a Fastify
modular monolith over one PostgreSQL database.  Transactions run at READ COMMITTED;
everything that must not interleave is ordered by row locks (`FOR UPDATE`, `FOR
SHARE`), advisory locks (`pg_advisory_xact_lock`), unique indexes and
compare-and-set updates.  That is where the models look.

Paths below are relative to `src/src/modules/` unless they begin with `scripts/`.

1. [The system](#1-the-system): parts, state, operations, what is hard
2. [Modules](#2-modules): what models what
3. [Runs](#3-runs): what TLC checks, in which bounds
4. [Fairness](#4-fairness)
5. [Proofs](#5-proofs)
6. [Findings and observations](#6-findings-and-observations)
7. [What is not modelled](#7-what-is-not-modelled)
8. [What could come next](#8-what-could-come-next)

## 1. The system

Two products share accounts, sessions and the database: **Core** (master data,
billing, commercial bookings and online payments) and **Driver Feedback** (tour
bookings, trips, the guests' feedback and the drivers' timeline).  A third group,
accounts and mail, serves both.

### Core

| Part | State | Operations | What is hard | Correct when |
|---|---|---|---|---|
| **Billing ledger** `core/persistence/billing.repository.ts`, `core/domain/{billing,money}.ts`, `core/legacy/invoice-import.ts` | invoices with lines and taxes, receipts, settlement adjustments, number series, audit log, outbox | createDraft, updateDraft, issue, cancel, createReceipt, changeReceipt (confirm, reverse), createAdjustment, reverseAdjustment, legacy import | two settlements at a time, a retry after a lost answer, a page that is stale, a tax rule that changed, a series at its end, imported numbers, lock order | an invoice is never overpaid; money belongs to an issued invoice; one row per key; events tell the ledger; numbers without gap or duplicate; nobody acts on what they have not read |
| **Online payments** `core/application/commercial.service.ts` (checkout, reconcile, changeStatus), `core/integrations/cashfree.provider.ts`, `core/domain/milestones.ts` | payment orders, payment attempts, milestones, booking status; at the gateway: orders and payments | checkoutForBooking, reconcile, recoverCreatingOrder, webhook, changeStatus | calls that time out and still arrive, payments after expiry, several payments of one order, observations recorded out of order, staff who cancel meanwhile | one payable order per milestone; an order asks for what is owed; a success is one receipt or one review; a success is final |
| **Reconciliation queue** `core/application/payment-reconciliation.ts`, `scripts/reconcile-payments.ts` | one job per order: next time, revision, lease token and end, failures; accepted notifications | claim, reconcile, complete, fail; enqueue by notification or request | a worker slower than its lease, a notification during a check, crashes, repeated and lost notifications | work left is scheduled; a lease belongs to its holder; accepted notifications end as recorded results |
| **Payment review** `core/application/payment-review.service.ts` | resolutions of attempts | inspect, resolve (apply to invoice, link a receipt, record a refund) | decisions on facts that changed; several attempts of one order; receipts of earlier releases | money is in one place; the review ends exactly when no attempt is open; every review can end |
| **Quotes, acceptance, schedules, policies** `core/application/commercial.service.ts` (rest) | booking, quotes, acceptances, milestones, payment policy | createBooking, addQuote, acceptForBooking, attachInvoice, billingReview, enablePayment, setSchedule, setPolicy | acceptance of a superseded quote, tax rules that change before the invoice, stale schedules | what was accepted is what is billed; a plan of milestones sums to the invoice |
| **Master data** `core/persistence/masters.repository.ts`, `tax-rule-validation.ts` | companies, customers, items, tax rules, categories, each versioned | create, update, archive | a tax rule or a company that changes while it is used | (see the parts that use them) |
| **Reports, listings** `core/persistence/{reporting,payments-report}.repository.ts`, `payment-review-predicate.ts`, `booking-list.repository.ts` | none | read: single statements, and a dashboard of several at a time | queries that see the ledger at different moments; cash by one date and balances by another; receipts linked in several ways | reports of one ledger agree; each receipt is counted once; nothing that needs a person is hidden |
| **Announcements, inquiries** | single rows | create, update with version, list | – | – |

A checkout reads the ledger's balance under a share lock of the invoice; a
reconciliation calls `createReceiptInTransaction` of the ledger inside its own
transaction; the queue decides *when* reconcile runs; review resolves what reconcile
could not apply; quotes and acceptance create the invoice draft and the milestones.

### Accounts and mail

| Part | State | Operations | What is hard | Correct when |
|---|---|---|---|---|
| **Sessions** `auth/auth.{service,repository,guard}.ts` | token hash, previous hash with a grace of 60 s, expiry, revocation | login, resolve, rotate (compare-and-set), logout, cleanup | requests of one session that renew it at a time, answers out of order or lost | the browser keeps its session |
| **Core users** `auth/core-identity.adapter.ts` | users and roles | createUser, updateUser under advisory lock 81002, passwords | two administrators demote each other | an active administrator is left |
| **Customer accounts** `customer/customer.service.ts` | accounts, memberships, invitations, recovery tokens | invite, preview, activate, revoke, recover, resetPassword, changePassword, authorize | activation against a newer invitation or a revocation, a link used twice, rights lost between check and use | old links open nothing; a link sets one password; who acts is a member |
| **Mail outbox** `customer/customer-mail.ts` and worker | rows PENDING, SENT, FAILED; attempts, next time | queue, deliver | crash after delivery, links that end before delivery | a mail is sent, given up, or its link useless |

### Driver Feedback

| Part | State | Operations | What is hard | Correct when |
|---|---|---|---|---|
| **Bookings, trips, engagements** `bookings/`, `trips/trip.service.ts`, `engagements/` | tour bookings, trips with driver, vehicle and assignment version, engagements (a driver's consecutive trips) | create, update, archive, regroup engagements, choose feedback sections | requests that have read a trip before they hold its locks; a trip moved to another booking; regrouping while feedback begins | no overlap of a driver or vehicle; engagements are those of the trips; feedback keeps its engagement |
| **Feedback** `feedback/feedback.service.ts` | handoffs, snapshots, submissions | issueHandoff, form, submit, closeHandoff | repeated and raced submissions, a link that is renewed or closed meanwhile, questions that are republished | an answer is to the questions it was shown; closed is closed |
| **Photos** `feedback/`, `shared/storage/photo-storage.ts`, `scripts/cleanup-photo-uploads.ts` | photo rows, objects in the bucket | create, complete (claim, sanitise outside the transaction, compare-and-set), cleanup | crash in PROCESSING, two completers, cleanup during completion | an attached picture has its image |
| **Timeline** `timeline/timeline.service.ts` | links, grants by assignment version, events, corrections, photos | issueLink, revokeLink, submit, setProgress, cleanup | devices that are offline and repeat, a reassigned trip, a cleanup that is interrupted | times of progress are those of the reports; an attached photo stays |
| **Questionnaires, consent** `questionnaires/` | versions DRAFT, ACTIVE, RETIRED, ARCHIVED; active consent | create, replaceQuestions, publish, archive | two publications at a time | (through Feedback) |
| **Drivers, vehicles, vendors, profiles, settings** | single rows, driver leaves | create, update, status | – | – |
| **Analytics, feedback administration** | review state | queries, updateReviewState | – | – |

## 2. Modules

```
Receivable <──implements── Ledger <──implements── LedgerTx
                             │ │                      └── LedgerTxProofs ─────────┐
                             │ └── LedgerProofs <─────────────────────────────────┤ extend
                             ├── Gateway                                          │ LedgerProofs
                             │     └── PaymentReview ── PaymentsReport            │ as well
                             │                              └── GatewayProofs ────┤
                             ├── Quotes ───┐                                      │
                             └── Reports ──┴── QuotesProofs ──────────────────────┘
Sums ── Reports, PaymentsReport, LedgerProofs
ReconcileQueue ── QueueProofs
Sessions ── Customers ── CustomersProofs
Tours ── Timeline ── ToursProofs
Questionnaires ── Feedback ── FeedbackProofs
MC*: the instances for TLC
```

A line is `EXTENDS`: the lower or right module has the variables and steps of the other and
adds its own.  In all of them a handler is one step when it does everything under one
transaction whose locks it takes before it reads, and as many steps as it has gaps
otherwise: what it reads before the transaction, before a lock, or before an await
is remembered in a variable and used later as the code uses it.  A handler that throws
rolls back, so a refused request is an action that is not enabled.  Rows are functions
from identities to records, `NoRow` when there is none.

### Receivable

The abstract specification of an invoice: a claim that is opened once with an amount that never
changes, settled between nothing and that amount, and closed only while nothing is settled.
Nothing is said about documents, numbers, taxes or keys.  Ledger implements it
(`LedgerIsReceivable`, checked by TLC and proved).

### Ledger

The tables of `billing.schema.ts`, one action per handler of `BillingRepository`.
`seen[u][i]` is the page user `u` has open of invoice `i`: updateDraft
and issue compare its version with the row's.  `Draft` is `prepare` with `replaceLines`;
`TakeNumber` is `nextNumber`; `CheckSettlement` is `balance` with `checkSettlement`;
`ChangeTaxRule` stands for the handlers of `masters.repository.ts` that change the rate
applied to a line.  `ImportInvoice` is the operator's script `importLegacyInvoice`: one step,
though the script inserts the numbered invoice (`legacy/invoice-import.ts` 117-127) before it raises the counter (203-218), since
both are in one transaction and the properties are about committed rows.

Abstractions: an invoice has one line and the tax rule is identified with its rate
(rounding is per line, half up, as in `taxAmount`); a date is its month, since only
the financial year and the order of dates matter; the outbox counts events by kind
and row; refusals that depend on master data alone are left out.  Financial years are
kept apart by their start; the code keeps two digits of the year, so dates are those of
one century.  Amounts in the code are safe integers bounded by `MAX_MINOR`, which is
the constant `MaxMinor`.

### LedgerTx

The same handlers as the statements of transactions at READ COMMITTED.  `tx[s]` is the
transaction of session `s`: the statements it has still to do (`Plan`), the locks it
holds until its end, and what it has read.  A statement that needs a lock waits until no other
session holds one that excludes it.  Writes are visible at the commit, and made of
what the transaction read before, not of the current state: so the refinement
(`TransactionsAreAtomic == Spec`, with the same variables) fails as soon as something a
handler relies on is not protected by a lock.  `Crash` ends any transaction: lost connections and
dead processes.

### Gateway and PaymentReview

One booking whose invoice has been issued from a plan of milestones.  A process is a
customer's checkout or a check of an order.  Their steps are the places where the code
awaits something others can interleave with: the two requests of `inspectOrder`,
`createOrder`, the recovery, the transaction that records an observation, and the locks of a
checkout's transaction (booking `FOR SHARE`, milestone `FOR UPDATE`, invoice `FOR
SHARE`).  A process may stop between any two steps.

* `Begin` .. `DropStale`: `reconcile` with its database time; a later observation that
  is committed makes an earlier one stale (`Overtake`).
* `RecordNothingNew`, `Apply`, `SendToReview`: the transaction that records an
  observation, with `upsertAttempts`, `paymentResult` and, in `Apply`,
  `CreateReceipt` of the ledger.
* `Checkout` .. `Created`: `checkoutForBooking` with the orders it checks first.
* `Staff`: status changes of the booking and every settlement handler of the ledger.
* The gateway (external, modelled by how `cashfree.provider.ts` uses it): creation is
  idempotent by order id and may arrive late; a payment may fail and succeed after all, also after
  its order has expired.

`PaymentReview` adds `inspect` and `resolve`: a reviewer looks at the facts of an order and decides
later, with the version of what they saw, on one payment: apply it, link a receipt, or
record a refund.  The constant `Historic` allows rows of earlier releases that the guards of
the code provide for: a gateway receipt nothing is linked to, and a reversed one.

Abstractions: UNKNOWN is PENDING; every status that ends without money is FAILED; a
payment that is not what the order asks for is one of `OddPayments`, of another amount (also zero) or of
another currency; the time of `expiresAt` is the action `Expire`; the order's mark for old unresolved payments may be
set whenever a payment is unresolved.

### Quotes

Commercial bookings up to the point where Gateway takes over, on the ledger's invoices:
quotes and their links, acceptance of what a guest has *seen*, the billing review, the invoice
that is attached or issued from the quote (`enablePayment` calls the ledger's handlers), and the
schedule.  A staff member's request keeps what it read before its transaction (`review`,
`draft`), as the code's request bodies do.

### Reports and PaymentsReport

A report is an SQL statement, so its model is an operator of the state and its properties are invariants; these modules add
no variable and no step.  `PaymentsReport` is the register of payments (one statement, as a comment of its code says) over
everything `PaymentReview` and Gateway can reach.  `Reports` has the queries of `reporting.repository.ts` over Ledger:
`Issued` is `invoiceRows`, `Within` the inclusive bounds of `range`, `Selected` and `Entries` the statement of a customer.

The sum of a column is the number of units its rows hold (`SumOf` of module `Sums`, the way Ledger counts paise): it is what
SQL's `sum` returns for natural numbers, and it can be reasoned about without induction.  `AllTime` are the
periods that contain every date.

Abstractions: dates and ageing are counted in months; debtor and due date are fixed per invoice; the balance
columns are the ledger's `Received`, `Adjusted` and `Due`, which are those of `invoiceAccounting`; filters that select rows
alike in all queries are left out.  The code runs the queries of a dashboard, or the entries and the totals of a statement,
without a transaction; the properties are about queries of one ledger.

### ReconcileQueue

One job per order with revision, lease token, lease, next time and failures in a row.
`Claim`, `Fetch`, `Record`, `Fail` and `Complete` are the statements of the worker;
`Ask` is a request of staff or a customer that enqueues a follow-up and checks the order itself;
`Receive` is `receivePaymentWebhook`.  Time is the actions `Due`, `Expire` (of a lease) and
`Age` (an order passes `closedRecheckDays`).  What the check of an order learns is
abstracted to a number of results and whether the order is still open; Gateway models
the transaction itself.  The count of failures stops at `Limit`, beyond which the code
only repeats the flag.

### Sessions and Customers

`Sessions` has browsers (the cookie in the `jar` of each session, requests under way, answers
that may be lost), and staff who create accounts, change access and passwords.  Renewal of a token
is `Resolve` then `Rotate`, two statements, the second a compare-and-set; the answer is a step of its
own.  `updateUser` is two steps: what it checks under the advisory lock and the row lock, and
the update; password changes are what is checked before hashing, and the update.

`Customers` composes it with invitations, memberships, recovery links and their mails.
Persons are accounts also before they exist.  `Invite`, `Activate`, `Reset` have the step
that reads before the (slow) hashing or the lock and the step that writes; `Check` and `Authorize` are the two
times a customer's right is read, the second under `FOR SHARE` of account, membership and company, held until `End`.
Mailers `Take`, `Post` and `Settle` under a row lock and may crash between any of these.

### Tours and Timeline

`Tours`: bookings with a period, trips that occupy a slot, engagements numbered as the code numbers
them, driver links of a booking with grants by assignment version.  A request that creates, updates or
archives a trip holds its locks from the step that takes them (`BeginCreate`, `BeginUpdate`, `BeginArchive`) to its commit;
an archive has read the trip before (`AskArchive`) and, unlike an update, does not compare it with the row it locks.  Regrouping (`Regrouped`) is a function of a booking's trips,
as `refreshEngagements` computes it; a READY engagement may be dropped, one with feedback may not.
`Timeline` composes it with the reports of drivers: a request reads the booking of its trip, waits for the lock and
reads everything again; client ids may be repeated; photos have rows, uploads and images, and a
cleanup that finds, deletes objects and deletes rows in steps.

Abstractions: hours are slots of one day; duty time is a number of slots; leave and shifts
are the constant `Away`.

### Questionnaires and Feedback

`Questionnaires`: versions and their publication; editors read before their transaction.  `Feedback`:
engagements as collections with their sections, links with a token that renewals replace, forms that guests hold while links and
questionnaires change, submissions by client id, one or many per link.  Photos are completed
outside a transaction by completers that may die, and swept by a script in steps.

## 3. Runs

Rows, keys, users, orders, payments, sessions and processes are model values, with
symmetry where no liveness is checked.  Instances have finitely many rows and edits, after
which nothing is left to do, so `CHECK_DEADLOCK FALSE` is set where that is a regular end;
lock waits that no one can end are the property `NoDeadlock` of LedgerTx.

| Run | Distinct states | Question | Instance |
|---|---|---|---|
| `ledger_settle` | 497,063 | no overpayment, no money on a cancelled invoice, one row per key, events match rows, no gap in the numbers, implements Receivable | 3 receipts, 3 keys, 1 adjustment, a total of 3 paise and amounts of 1 and 2, 2 financial years with 2 numbers each, a draft edited once |
| `tx` | 338,108 | the handlers are atomic, never deadlock, and readers see a sound balance | 2 sessions, 1 invoice, 2 receipts of one key, 1 adjustment, 2 rates, crashes |
| `gateway` | 466,183 | one payable order per milestone, asking for what is owed; a success is one receipt or a review and the order agrees; no observation undoes a success | 2 customers, 2 orders, 2 milestones, 2 receipts, 1 adjustment, 2 checks, 1 payment of what is asked, of a part of it or of a foreign currency; crashes and time-outs anywhere |
| `review` | 442,117 | money is in one place, the review ends exactly when it should and always can; the register counts each receipt once and hides nothing | 2 payments of one offered order, of what it asks, a part, zero or a foreign currency, 1 check, 1 reviewer, 2 receipts, rows of earlier releases |
| `queue` | 780,314 | work left is scheduled, a lease belongs to its holder, accepted notifications end as recorded results | 2 workers, 1 request, 1 order, 1 result, a flag after 2 failures |
| `reports` | 35,833 | reports of one ledger agree over every period | 2 invoices of 2 customers, March and April (two financial years), 2 receipts, 1 discount; the list of those who owe most has 1 row |
| `quotes` | 669,496 | billed as accepted, milestones sum to the invoice, no action on what was not read, no imported number met twice | 1 booking, 1 guest, 2 quotes, 2 plans, 2 staff, 2 invoices, 2 rates, imports of numbers of the old format (-1) and the new one (1, 2) |
| `tours` | 922,348 | no overlap, engagements are those of the trips, no grant outlives an assignment, begun feedback is kept | 2 bookings, 2 drivers, 2 trips, 2 slots, 2 requests, one of which archives |
| `tours_archive` | violation | see [Findings](#6-findings-and-observations) | the same, with both requests doing anything |
| `timeline` | 512,270 | times say what the status says and agree with the reports, what is cancelled or completed no report undoes; attached photos stay | 1 trip, 2 bookings, 2 drivers, 2 client ids, 1 photo, 3 assignment versions |
| `feedback` | 537,125 | answers are to what was asked, attached pictures have an image, closed is closed | 1 ride, 2 versions, 2 sets of questions, one of them optional, 2 editors, 2 guests, 2 client ids, 2 tokens, 1 picture with 2 completers |
| `access` | 108,436 | an administrator remains, the browser keeps its session, old links open nothing, who acts is a member, mails are sent or useless, a link sets one password | 4 accounts, 2 staff requests, 1 session with 2 requests and 3 tokens, 3 invitations, 2 recovery links, 2 handlers, 2 mailers |

Some instances combine several small scenes: a state outside every scene of the constraint
is not explored further.

* `gateway` (`OneScene`): two customers race for one milestone while nobody pays and the staff do nothing; one customer
  orders once while the staff settle and cancel; or one order is paid while two checks of it overlap and staff
  change the booking or cancel the invoice, or while its customer checks out again.  A payment that
  is not what its order asks is checked once at a time, and nobody else does anything (`OddInPeace`).
* `quotes` (`Scene`): two users edit, issue, cancel and import invoices; or one user bills one booking.
* `access` (`OneScene`): requests of one session; changes of accounts by staff; invitations of one person, whose email may
  become staff's; a member who acts while access changes; recovery and changes of a password; mails and their links.  Each
  scene has all actors its properties are about.
* `tours` (`FirstBooking`): feedback begins in, and cancellation happens to, the first booking only; trips are of both.
* `reports` (`Imported`): invoices are imported with their own number and receipts recorded by hand; drafts and numbers are
  `ledger_settle`'s subject, and no report reads them.
* `timeline` (`Small`): while a photo is about, its trip stays with the driver and reports are notes; in the third version of a trip the
  second booking is not there and the first is open.
* `feedback` (`Small`): with a picture, one guest answers the first version; without, two guests, two versions, renewals.  The second
  editor only replaces the questions of the first version, asked for while it was a draft and done whenever (`Late`).  The first
  guest may leave out what is optional, of the first version and link (`LeavesOut`).
* `review` (`OddOnce`): a payment that is not what the order asks comes beside one that is, and no receipt is reversed then; the
  theorems about `review` have no such limit.
* `queue` (`AtMostTwoChecks`): any two of the two workers and the request overlap, not all three.
  `AcceptedIsRecorded` is therefore checked over behaviours with two overlapping checks.

Why the bounds are enough for the cases in question:

* Overpayment, duplicate keys, lock conflicts, double bookings and rotations are between two requests: two sessions,
  users, customers, workers, drivers.  Three receipts make a reversal, a repetition
  and a second settlement possible in one behaviour, and exhaust a series of two
  numbers in both years.
* The total of 3 with amounts of 1 and 2 distinguishes "fits", "fits exactly" and "exceeds".
* Two imports of numbers 2 and then 1 move the counter past, and then not back.
* `gateway` has one payment, so the two requests of a check (its order, then its payments) race over that one payment only; the theorem
  `GatewayMoneyIsAccounted` is for any number of payments and overlapping checks.
* Orders of different bookings meet in nothing but the gateway, so Gateway has one booking;
  jobs of different orders meet in nothing but the worker's choice, so the queue has one order.
* Two bookings, two drivers and two trips are what a move of a trip, the loss of a pair's last trip and an
  overlap need.  `tours` lets one request archive at a time: with two, the finding below appears.
* Three invitations: an old one, one that replaces it, and one after a revocation.

Each property has mutants: the name of every mutated form begins with `Bug`.  It stands
before the definition it replaces and no specification uses it: each is a slip (a lock not
taken, a check left out, a reset forgotten) under which a property of the runs is violated.

The type invariants document the columns.  Those of Ledger, Gateway, PaymentReview and Quotes are theorems (`LedgerTyped`, `GatewayTyped`,
`ReviewTyped`, `QuotesAreTyped`); `TTypeOK`, `STypeOK`, `CTypeOK` and `TypeOK` of the queue hold on the instances above, and the
proofs about these modules have typed invariants of their own.

## 4. Fairness

**ReconcileQueue** `FairSpec`: weak fairness of each worker's next statement
(`startPaymentReconciliationWorker` polls for ever), of the passing of time (`Due`,
`Expire`), and `<>[]` no failing worker.  Without the last, nothing can be promised: a
worker may fail at every check.  Notifications are not fair: they may be lost.
`AcceptedIsRecorded` is about those that were accepted.

No safety property rests on fairness, and no other part promises progress by itself: what customers, staff,
drivers and guests do is theirs, and the scripts of cleanup and mail run when an operator's scheduler runs them.

## 5. Proofs

Every theorem holds for all values of the constants that satisfy the named assumptions.

### `LedgerProofs`, from `LedgerAssumption`

| Theorem | States |
|---|---|
| `LedgerTyped` | `Spec => []TypeOK` |
| `LedgerOneRowPerKey` | `Spec => []OneRowPerKey` |
| `LedgerSettlementsHaveIssuedInvoice` | `Spec => []SettlementsHaveIssuedInvoice` |
| `LedgerNoOverpayment` | `Spec => []NoOverpayment` |
| `LedgerImplementsReceivable` | `Spec => LedgerIsReceivable` (the refinement) |
| `LedgerInvoiceSeriesAhead` | `Spec => []InvoiceSeriesAhead` |
| `LedgerReceiptSeriesGapless` | `Spec => []ReceiptSeriesGapless` |
| `LedgerOutboxTellsTheLedger` | `Spec => []OutboxTellsTheLedger` |
| `LedgerActsOnWhatWasRead` | `Spec => ActsOnWhatWasRead` |

* `TypeOK` is inductive.  Each step has one lemma per group of handlers with one case per
  action; what a draft, an issue and an import write is a row (`DraftIsARow`,
  `PublishedIsARow`, `ClosedIsARow`).
* `OneRowPerKey` and `SettlementsHaveIssuedInvoice` are inductive relative to `TypeOK`.
  The former rests on the freshness of the key when a row is inserted and on keys
  never changing (`KeysKept`); the latter on `Cancel` looking at pending receipts
  as well: a receipt that is confirmed later finds its invoice issued.
* `NoOverpayment` is inductive relative to `TypeOK` and
  `SettlementsHaveIssuedInvoice`: the latter is needed for `Issue` and
  `ImportInvoice`, by which an invoice becomes issued that must have nothing settled
  yet.  A sum of amounts is written as the number of paise the rows hold,
  `Cardinality(Paise(rows, table))`, so that the facts about sums (`SumOfOneRow`, `SumOfMore`,
  `SumOfFewer`, `SumOfSameRows`) follow from the library's theorems on finite sets
  and no induction over data is needed.
* `LedgerImplementsReceivable` uses all of these: every step of the ledger is, for the mapped
  state, an opening, a settlement, a closing or a stutter.  That a closing has
  nothing settled is `Cancel`'s check together with `SettlementsHaveIssuedInvoice`.

* `InvoiceSeriesAhead` and `ReceiptSeriesGapless` are inductive relative to `TypeOK`: a number
  that is written is the counter's next (`NumberTaken`, `NumberWritten`, `NumberAppended`), an
  import raises the counter past its own, and the company and date of a numbered row never change.
* `OutboxTellsTheLedger` is not inductive: it says what a reader of the outbox concludes, not how often an
  event was written.  `OutboxCounts` says that, for each of the events, by the status of its row, and
  `CountsTell` that a reader then concludes the right thing.
* `ActsOnWhatWasRead` needs `ReadsAreRows`: the row a user has loaded is a row of the past, and one of the same
  version as the present draft is that draft.  That is why comparing versions suffices.

All properties that the runs check of Ledger are theorems.

### `LedgerTxProofs`, from `LedgerAssumption`

| Theorem | States |
|---|---|
| `LedgerTxIsAtomic` | `TxSpec => TransactionsAreAtomic` (the refinement: `TxSpec => Spec`) |
| `LedgerTxNoDeadlock` | `TxSpec => []NoDeadlock` |
| `LedgerTxReaderSeesABalance` | `TxSpec => []ReaderSeesABalance` |

They hold for any number of sessions.  One inductive invariant, `TxInv`, serves all three.  TLC checked its part `Transactional` on
the instance of the run `tx` before it was proved.

* The statements left to a transaction are the end of the plan of its request (`FollowsPlan`), so that what has been done is known
  from what is to be done next (`Ordered`, `Founded`, `Complete`); each lock was taken by a statement of that plan (`LocksAreTaken`), and no two sessions
  hold locks that exclude each other (`LocksExclude`).
* What a transaction has read is still so while it holds the lock (`Holds`): the key is free, the row is that of
  the invoice, the state is accepted, the sums are the settlements of the invoice, the rate is the rule's, the number is the counter's next.  A
  candidate row that was read without a lock keeps its invoice, and that is all the code uses of it.
* Any step writes only what its locks cover (`ChangesUnder`), so it disturbs no reading of another session (`Undisturbed`).
  A commit then finds the guards of its handler in Ledger true (`CommitUpdateStep` and the seven after it), and every other step changes no table.
  That the unique index of invoice numbers never refuses an issue, and that an edit is of the row its user loaded, rest on `InvoiceSeriesAhead` and
  `ReadsAreRows` of LedgerProofs.
* No circle: keys, invoices, tax rules and counters have ranks that rise along every plan (`RanksRise`), so whoever is
  waited for wants, if anything, a lock of a higher rank than the one it is waited for (`ClimbsToWait`), and there are four ranks.

### `GatewayProofs`: online payments, from `LedgerAssumption` and `GatewayAssumption`

| Theorem | States |
|---|---|
| `GatewayRows` | `GSpec => []RowsInv` |
| `GatewayTyped` | `GSpec => []GTypeOK` |
| `GatewayOneLiveOrder` | `GSpec => []OneLiveOrder` |
| `GatewayAskedIsOwed` | `GSpec => AskedIsOwed` |
| `GatewayMoneyIsAccounted` | `GSpec => []MoneyIsAccounted` |
| `GatewaySuccessIsFinal` | `GSpec => SuccessIsFinal` |

Three inductive invariants, one on top of the other:

* `RowsInv`: the types of all tables and of the running processes (`TablesTyped`, with the ledger's
  `TypeOK`), a payment and its attempt are of one order that exists (`PaymentsKnown`), and a process
  works on an order that exists and has seen payments of that order only (`ProcessesFit`).  Every
  action has a lemma that says what it does to the orders and to its own process; the
  three actions that record an observation share one description (`Recording`): which payments are applied, which
  are sent to review, what the order becomes.
* `CheckoutsInv`: `OneLiveOrder` alone is not inductive, since the reading of a milestone's orders and the insert
  are steps of their own.  The invariant adds what the locks protect meanwhile: one checkout at a time looks for the orders
  of a milestone (`OneHolds`), none is live when it inserts (`NoneIsLive`), and what it has read of the booking, the invoice and
  the balance is still so (`Asks`).  `AskedIsOwed` follows, since the insert writes what `Asks` speaks of.
* `MoneyInv`: `MoneyIsAccounted` with the other direction of each link: the receipt of an applied payment is one of
  the gateway (`Backed`), so no handler of staff touches it; the key of a gateway receipt is a payment that was applied
  (`OfPayment`); an order has a receipt exactly when it is paid (`Told`), so a second success never finds it open.
  `SuccessIsFinal` is about the same rows, and `GTypeOK` needs it for the receipt of an order.

Milestones are summed as numbers of paise, as the ledger's amounts are, so no induction over the plan is needed.
`GatewayAssumption` says that a plan has a milestone and positive amounts (`setSchedule` refuses others),
that payments are idempotency keys of receipts, that `Null` is neither a payment nor a receipt, and that an instance begins with at most one
open order.

### `GatewayProofs`: reviews, from the same

| Theorem | States |
|---|---|
| `ReviewMoneyIsInOnePlace` | `RSpec => []MoneyIsInOnePlace` |
| `ReviewStatusFollowsDecisions` | `RSpec => []StatusFollowsDecisions` |
| `ReviewHasNoDeadEnd` | `RSpec => []NoDeadEnd` |
| `ReviewTyped` | `RSpec => []RTypeOK` |

`RowsInv` holds of PaymentReview too, but `MoneyInv` does not survive the decisions of staff and the receipts of earlier releases: a
gateway receipt may have no payment that points to it, and an applied payment may be refunded once its receipt is reversed.  `ReviewInv` states anew what
stays true:

* `ReceiptKeys`: a key names one receipt, and the receipts of payments are never pending, so staff cannot confirm one;
* `AllBooked`: which receipt a payment has, by what was decided about it; a refunded payment has no receipt that counts it;
* `AllOwned`: the receipt of an order is that of one of its payments, applied or refunded;
* `AllStanding`: the status of an order from what became of its payments, unless its own receipt was reversed.

A decision is made on what the reviewer saw; the version they send makes it a decision on the rows as they are, and the guards of `resolve`
then give each conjunct (`Decide` is the step all three actions share).  `NoDeadEnd` follows: an open payment on which nothing was decided, whose only receipts are
those linked to it and whose amount is not zero, can be recorded as refunded.  A success of zero is a
dead end in the code (section 6), so the property excepts it by name.

### `GatewayProofs`: the register, also from `RegisterAssumption`

| Theorem | States |
|---|---|
| `ReviewRegisterTellsTheMoney` | `RSpec => []RegisterTellsTheMoney` |

* `ReviewInv` does not say that the amounts agree.  `AllCarry` does: a payment that has a receipt keeps it, also when it is refunded; it is the
  receipt of its order, and of its amount.  It is inductive because no step changes the amount of a receipt
  (`AmountsStay`), and a payment is given a receipt only where its order has none yet (`Accountable`).
* Then the rows of the register name the receipts one to one (`ReceiptInARow`, `ReceiptInOneRow`), and the confirmed total is the number
  of paise of the confirmed receipts (`ConfirmedAmount`, by `PaiseByRow` of LedgerProofs).
* The successes of an order fall into the one it was paid with, those left to staff and those refunded; so a row
  accounts for all its customers paid in rupees (the register sums no other currency), and shows every open payment of any currency.
* `RegisterAssumption` is that payments are finitely many, which the count of a row's payments needs.

### `QuotesProofs`: what is billed, from `LedgerAssumption` and `QuotesAssumption`

| Theorem | States |
|---|---|
| `QuotesInvoicedAsAccepted` | `QSpec => []InvoicedAsAccepted` |
| `QuotesAreTyped` | `QSpec => []QTypeOK` |

* `InvoicedAsAccepted` speaks of bookings and invoices; a request to store a schedule has read both before its transaction.  `QuotesInv` adds
  that such a draft is of a booking with an invoice and sums to its total (`DraftsFit`), that no two bookings have one invoice
  (`OneInvoiceEach`), and what a row says of its invoice and its quote at each status (`AllAgree`).
* The handlers of the ledger that run beside it keep the company, line, tax and total of every invoice that was issued (`BillsKept`),
  and an invoice a booking may have was issued; so nobody changes a bill under a booking.
* How a plan is added up does not matter: `Total` is never expanded, and every step that writes a plan has compared its
  `Total`.  `QuotesAssumption` says that plans are sequences of amounts, percentages from 1 to 99, bounds are numbers, and
  `Null` is no invoice.

### `QuotesProofs`: reports, from `LedgerAssumption` and `ReportsAssumption`

| Theorem | States |
|---|---|
| `ReportsQueriesAgree` | `Spec => []QueriesAgree` |
| `ReportsStatementBalances` | `Spec => []StatementBalances` |

* These follow from the ledger's theorems and the definitions of the queries, so they hold in every state the ledger reaches: that
  ageing and all customers who owe sum to what is outstanding needs `NoOverpayment` (nobody owes less than nothing), that the cash of payments is the
  cash of invoices needs `SettlementsHaveIssuedInvoice`.
* A sum over months, ages or customers is the sum over all rows because each row is in exactly one group (`SumOfGroups`,
  `SumOfParts` of LedgerProofs): the units of the column of sums and those of the rows are in bijection.  No induction over data is needed.
* `topOutstanding` lists ten (`TopLimit`).  A list that leaves somebody out has fewer units than all that is owed (`TopOutstandingSums`), one that leaves nobody out has
  them all.
* `ReportsAssumption` says that invoices, dates and customers are finitely many, that each invoice has a customer and perhaps a due date, and that
  `Null` is no date.

### `QueueProofs`, from `QueueAssumption`

| Theorem | States |
|---|---|
| `QueueTyped` | `Spec => []Typed` |
| `QueueForgetsNothing` | `Spec => []NothingForgotten` |
| `QueueKeepsLeases` | `Spec => LeaseIsKept` |

* `NothingForgotten` compares what was accepted with what is recorded, while a worker that ends a job decides by the
  revision it leased and by what it saw.  `QueueInv` connects them: nothing accepted is ahead of the gateway (`NewsIsOld`), a worker's
  revision is one its job has had (`RevisionsBehind`), a worker whose job was not asked for again has seen all that was
  accepted, or the observation that overtook its own has (`Learned`), and what it completes with is recorded (`SawRecorded`).
* `LeaseIsKept` follows from the types: the token of a lease is compared before anything is written with it.

### `CustomersProofs`: accounts and sessions, from `SessionsAssumption`

| Theorem | States |
|---|---|
| `SessionsLastAdmin` | `SSpec => []LastAdminRemains` |
| `CustomersLastAdmin` | `CSpec => []LastAdminRemains` |
| `CustomersKeepSessions` | `CSpec => []BrowserKeepsSession` |
| `CustomersActAsMembers` | `CSpec => []ActsAsMember` |

* `LastAdminRemains` is not inductive: between the checks of `updateUser` and its update other requests run.
  `AccountsInv` adds what makes the checks last: one request at a time is in that window (`OneChange`, advisory lock
  81002), and what it found is still so (`StillAllowed`), because everything else that changes accounts touches neither its
  locked row nor an active administrator (`OtherAccount`).
* `BrowserKeepsSession` needs `TokensInv`: unless an answer was lost, at most one answer of a session is under way, it
  carries the current token, and no request has that token before it arrives.  So only a request with the browser's own
  token can renew it (`RotateTokens`), and the answer that arrives is not an old one (`AnswerTokens`).  `SessionRows`
  is the type invariant of sessions and requests it rests on.
* `ActsAsMember` is inductive with `AccountsInv` and the types of its rows (`CustomersInv`): steps of
  Sessions never change an active customer's account (`CustomersKeptBySessions`), activation writes only a row that is absent or
  is that of an active customer, and memberships and companies that a handler has seen are share-locked until it ends.

### `CustomersProofs`: links and mails, also from `CustomersAssumption`

| Theorem | States |
|---|---|
| `CustomersOneWayIn` | `CSpec => []OneWayIn` |
| `CustomersSentOrUseless` | `CSpec => []SentOrUseless` |
| `CustomersLinkSetsOnePassword` | `CSpec => LinkSetsOnePassword` |

* `OneWayIn` and `SentOrUseless` are inductive with `WayInv` and `MailInv` over `CustomersInv`.  `WayInv`: whoever invites or activates holds the
  advisory lock of the email (`OneHoldsEmail`), and what a handler has seen of an invitation is still so
  (`LinksKnown`).  `MailInv`: whoever delivers a mail has its row to themselves (`OneHoldsMail`) and
  finds it unsettled (`MailersHold`).
* `LinkSetsOnePassword` counts the passwords each link has set (`uses`, a history variable).  It rests on `OutlivedAreConsumed` (a link
  that has been outlived is consumed, and nothing makes it work again) and `UsedAreOutlived` (a link that has set a password
  is outlived by it), so a link that still works has set none.

### `ToursProofs`: trips and grants, from `ToursAssumption`

| Theorem | States |
|---|---|
| `ToursNoDoubleBooking` | `TSpec => []NoDoubleBooking` |
| `ToursGrantsAreOwn` | `TSpec => []GrantsAreOwn` |
| `ToursEngagementsFollowTrips` | `MovesAlone`: `TSpec => []EngagementsFollowTrips` |
| `ToursBegunIsKept` | `MovesAlone`: `TSpec => BegunIsKept` |

* The trips a request checks and the trip it writes are separated by other requests' steps, so `NoDoubleBooking`
  is not inductive.  `TripsInv` adds that a request that holds its locks may rely on what it checked (`Fits`): whoever
  would take the slot of its driver or vehicle needs a lock it holds, and no two requests hold one lock
  (`RequestsInv`).  `PlaceTaken` is the step of the argument: a trip put where it fits leaves no overlap.
* Regrouping, links and feedback change engagements and grants only, so they keep `TripsInv` by what they leave
  alone.  Hours of duty are counted with the library's theorems on finite sets.
* `GrantsAreOwn` speaks of trips as they are, but a trip may be taken from a driver and given back.  `LinksInv` says what
  holds of a grant whatever the trip has become: its version is not ahead of the trip's, and if it is the trip's, so are booking and driver
  (`Opens`).  Every step keeps it, because versions never fall and a trip that keeps its version keeps its booking and driver
  (`Keeps`; `NextVersion` in `UpdateGrants`).  A new trip starts at version 1 without a stale grant because it is one nobody has had
  (`FreshInv`, which rests on `LeastIsMember`: the least of the unused numbers is one of them).  The theorem needs no bound on who archives.
* The theorems about engagements have a hypothesis.  `MovesAlone`: no request may archive while another
  one may update, or all assignments asked for are of one booking, so that nobody moves a trip to another booking while an archive of it waits.  Without it
  they are false: `archive()` locks the booking it read before, and does not compare (section 6); TLC finds `EngagementsFollowTrips` violated after
  an update and an archive of one trip that began together.  `tours.cfg` satisfies it (`OneArchives`), with two bookings.
* `EngagementsInv` over `GrantsInv`: engagements are rows of the table (`Listed`), trips have a slot and a booking, one that assignments are asked for (`Placed`, `Asked`),
  the engagements of every booking are those of its trips (`Grouped`), and every request can rely on what it checked (`Checked`): that its booking is editable and that the engagement of its trip has not begun.
  A step keeps what the others have checked because it changes only bookings that it has locked (`CheckedStill`).
* `RegroupGroups` is the argument about `rebuildEngagements`: a trip's group is the number of free trips up to it that start one (`StartedBy`), so the groups of two
  trips are equal exactly when no trip between them starts one, and then their drivers are; and the numbers given to the groups are above those that feedback holds.  `CommitGroups`
  does it for a request that touches one booking or two.
* `ToursAssumption`: the sets of the configuration are what they are for, the bounds are numbers, and `Null` is not one (a trip without an engagement is not in engagement 1).

### `ToursProofs`: the timeline, also from `TimelineAssumption`

| Theorem | States |
|---|---|
| `TimelineTimesAgree` | `TLSpec => TimesAgree` |
| `TimelineAttachedStays` | `TLSpec => AttachedStays` |
| `TimelineNoDoubleBooking`, `TimelineGrantsAreOwn` | the two theorems of Tours, of the composition |

* A driver's report and a change of progress by staff are, for the variables of Tours, the step of Tours that sets a trip's progress, so `GrantsInv` is kept and the
  theorems of Tours hold of the composition.
* `ReportsInv` over `GrantsInv`: a row of progress is consistent by itself (`Consistent`), the trip's column is what the row and the
  existence of a report make of it, and a trip that does not exist has neither.  `TimesAgree` is a property of steps: beside these rows it says what a
  report may not undo.  A report of a cancelled or completed trip is refused (`Timely`), or is of another trip, so only `ChangeProgress` takes a trip out of these
  statuses or moves its end, and that begins a new assignment version (`StepSettled`).  What a waiting call has read is not in the invariant beyond its type: the code reads
  everything again under the lock.
* `PhotosInv` is only about rows and objects.  `AttachedStays` is a property of steps, and rests on what each
  cleaner compares in its own statement: a photo that was found without a report and has one now is not touched.
* `TimelineAssumption`: `Null` is neither a time nor a client id, the bound of the times is a number.

### `FeedbackProofs`, from `FeedbackAssumption`

| Theorem | States |
|---|---|
| `FeedbackAnsweredAsAsked` | `FSpec => []AnsweredAsAsked` |
| `FeedbackClosedIsClosed` | `FSpec => ClosedIsClosed` |
| `FeedbackAttachedHasImage` | `FSpec => []AttachedHasImage` |

* `FeedbackInv`: versions are never deleted and the versions editors remember exist (`PapersInv`), the rows have their columns (`LinksTyped`,
  `AnswersTyped`), a link asks for the sections of its ride, and every answer is to the link as it is (`AnswersInv`, with `AnswerFits`).
  It is kept because no step changes an answer, the link it came by, or the questions of a version that was asked (`AnswersStay`): a
  link is renewed with the versions it had once feedback has begun, and a late `replaceQuestions` meets the rows of answers, which refer to the questions it
  would delete.  So the questions of a section that was answered stay; of a section that was left out nothing is promised (section 6).
* `FeedbackAssumption` also says that the sets of questions that may be left out are sets of questions.
* `ClosedIsClosed` is an action property over the same invariant.
* `PicturesInv`: requests and the script erase objects in steps after they have written a status, and may be late or die.  What either will
  erase is a picture that is rejected or deleted (`CompleterFits`, `SweeperFits`), and these never come back (`Gone`); so a picture that is ready or attached has its
  image.  It is attached exactly when it is of one answer.

### Only model-checked

* What happens to engagements, and to the link of `LinksHaveTrips`, when an update and an archive of one trip overlap in two bookings: there the code does not do what is
  promised, and `tours_archive` shows it.
* Liveness (`AcceptedIsRecorded`) is out of the prover's reach.
* So is induction over data: that the schedules of Quotes sum to the totals they are compared with is what the code checks and the proofs use,
  but what `Total` returns for every plan is left to TLC.

## 6. Findings and observations

* `tours_archive`, `trips/trip.service.ts:324`.  `archive()` reads the trip, then takes the lock of the booking the
  trip had, and does not read the trip again.  When an update moves the trip to another booking or driver in
  between, the engagements that are rebuilt and the link that is looked at are those of the old pair: the new pair loses its last
  trip and its link is not revoked.  FRONTEND_DRIVER_TIMELINE_PROMPT.md:425 says "Removing the driver's last active assignment
  revokes the pair link."

What the models do because the code does, and a reader may want to know:

* `receivables()` reads its total and its ageing buckets in two statements (`reporting.repository.ts:451`), and
  `customerStatement()` its entries before its totals (561).  A receipt recorded in between is in one and not in the other: a
  dashboard may show more overdue than outstanding, until it is loaded again.  CORE_REPORTS_ANALYTICS_SPEC.md:32 calls both the "balance at
  request time".
* A reversal leaves no entry in a statement (`reporting.repository.ts:556` and 559), though CORE_REPORTS_ANALYTICS_SPEC.md:480 lists among the entries
  "receipt or discount reversal: separately labelled reversal event".  Nothing needs to be checked to see it: `Entries` has none.
* An order that recovery set to NOT_CREATED may still be created at the gateway and be paid; `reconcile` returns early for
  it (`commercial.service.ts` 1255, 1327), so such a payment waits for a person to look at the gateway.
* The flag of ten failures is written by the count the worker claimed, without its lease token
  (`payment-reconciliation.ts:88`): a worker that outlived its lease may flag an order another has since checked.
* A success of zero goes to review and stays there for good: `actions()` counts `ZERO_AMOUNT` among the blockers of all three actions
  (`payment-review.service.ts:158`), while the provider's answers (`cashfree.provider.ts:145`) and the schema allow zero.  PAYMENT_REVIEW_API.md:152 says "Zero, partial or
  wrong-currency refunds cannot clear the review" of the amount that is refunded.  While it is open, `checkoutForBooking` refuses every further
  checkout of the booking (`commercial.service.ts` 1090, 1144).  `NoDeadEnd` excepts such a payment.
* A payment on which a decision was recorded (applied or linked) and whose receipt is reversed afterwards is open again, and `ALREADY_RESOLVED` (156) blocks every action on it;
  `NoDeadEnd` is about payments on which nothing was decided.
* An order whose own receipt was reversed stays PAID when its last other payment is refunded.
* `replaceQuestions` checks for a draft before its transaction (`questionnaire.service.ts:222`): a publication in
  between is overwritten, as long as no row of an answer refers to the old questions (`feedback_answers` restricts their deletion).  A guest may even have submitted
  the version: rows are written of questions that were answered (`feedback.service.ts:650`), and a version without an obligatory question may be published.  The
  submission keeps the questions it showed in its snapshot, the published version has others.  FRONTEND_PROMPT.md:169 and the summary of the route
  (`questionnaire.routes.ts:244`) call a published version immutable.  Archiving a questionnaire may meet its first publication likewise.
* A cleanup of the timeline deletes objects before its transaction commits.  When it is interrupted there, a READY row
  without an image is left, and a report that attaches it shows a picture that is gone.  `AttachedStays` is about photos that are attached when the
  cleanup looks.
* Closing the link of an engagement that is READY sets a status that the constraint
  `booking_driver_engagements_feedback_started_check` (`database/schema/trips.ts`) refuses, so `Close` of the model needs a
  collection that has begun.
* The archive of a booking may cross the first publication of a questionnaire; a link is then issued with what is published at that moment.
* A login that verified the password before it was changed and inserts its session afterwards is outside the
  revocation; `profile.changePassword` verifies outside its transaction, so a reset in between can be overwritten.
* A mail that failed eight times keeps its row, FAILED; `SentOrUseless` counts it as given up.
* The comparison of a session's creation with `passwordChangedAt` in `findSession` never decides: each change
  revokes the sessions as well.

## 7. What is not modelled

* Read-only parts: the reports of taxes, vehicles, discounts by date and audit events, exports, listings, analytics, the queries of feedback administration, `accessList`, `profile` and the
  customer's bookings.  They change nothing; that a single statement reads a committed snapshot is PostgreSQL's promise.
* Single rows with a version check and no other actor: announcements, inquiries, profiles, settings, vendors, vehicles, and
  the master data but for tax rules and companies; `updateProfile`.
* Pure I/O and wiring: routes, validation of requests, configuration, plugins, the drivers of mail and storage.
* In the modelled parts: permissions, wording and layout of documents and answers; master-data
  refusals; the share locks of master-data rows; several lines per invoice; `expiresAt` as a time.
  `inspectOrder`'s two requests are two steps, since the gateway promises no snapshot over them; that
  a second order can be offered beside a payment that has just begun follows, and is not counted as a failure of
  the code (the second success goes to review).
* Three hazards have no property.  A page of reports whose queries are read around a settlement: the properties of
  `Reports` are about one ledger, and section 6 says what a page can show.  An event whose trip is reassigned while the report waits for the lock: the model reads
  everything again under the lock as the code does, and a property could only repeat the condition.  The
  publication that `replaceQuestions` overwrites: the model has the step, `AnsweredAsAsked` says that it spares answered versions, and section 6 says what it does to others.

## 8. What could come next

1. The engagements of Tours composed with drivers' reports, and without `MovesAlone` once `archive()` compares the row it locks with the one it read.
2. Several lines per invoice, and `calculateLines` against a reference definition.
3. The tax and vehicle reports, once invoices have several lines; reports against the ledger's events, if the outbox gets a
   consumer.
