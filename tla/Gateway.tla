------------------------------ MODULE Gateway ------------------------------
(***************************************************************************)
(* Online payments of one booking: the checkouts of customers, the          *)
(* reconciliation of payment orders with the gateway, and the booking        *)
(* changes of staff (src/src/modules/core/application/commercial.service.ts) *)
(* on top of the Ledger of the booking's invoice.                            *)
(*                                                                         *)
(* A process is the checkout of a customer or the check of an order, which   *)
(* the worker of the reconciliation queue, staff or a customer start at any   *)
(* time; ReconcileQueue models when the worker does.  Processes stop at       *)
(* any step: the host dies, the gateway is unreachable, or the request is     *)
(* refused by a read outside of its transaction that the transaction repeats. *)
(* A transaction that holds its locks from the first read to the last write   *)
(* is one step.  PENDING stands for UNKNOWN too, and FAILED for every status   *)
(* that ended without money (NOT_ATTEMPTED is left out).                     *)
(***************************************************************************)
EXTENDS Ledger, Sequences, FiniteSetsExt

CONSTANTS
  Invoice,      \* the invoice of the booking
  Plan,         \* the amounts of its milestones, by position
  Orders,       \* payment orders
  Payments,     \* payments of the gateway; each is the idempotency key of its receipt
  OddPayments,  \* what a payment may be of that its order does not ask for
  Customers,    \* checkouts that run at a time
  Checkers,     \* checks that run at a time
  Offered,      \* orders of the first milestone that are open when an instance begins
  StaffActs     \* what staff do to the booking and its invoice in an instance

ASSUME GatewayAssumption ==
  /\ Invoice \in Invoices
  /\ Plan \in Seq(1 .. MaxMinor) /\ Plan # << >>
  /\ Payments \subseteq Keys
  /\ OddPayments \subseteq [amount : 0 .. MaxMinor, currency : {"INR", "FOREIGN"}]
  /\ Offered \subseteq Orders /\ \A o, q \in Offered : o = q
  /\ Customers \cap Checkers = {}
  /\ Null \notin Payments \cup Receipts
  /\ StaffActs \subseteq {"CONFIRMED", "COMPLETED", "CANCELLED", "INVOICE_CANCELLED"}

VARIABLES
  booking,      \* status of the booking
  orders,       \* core.payment_orders
  attempts,     \* core.payment_attempts, by provider payment
  procs,        \* the running processes
  remote,       \* the gateway: status of each order
  payments,     \* the gateway: payments
  calls,        \* orders whose creation has been sent to the gateway
  offered       \* orders whose session was handed to a customer

gateway == <<remote, payments, calls, offered>>
gVars == <<vars, booking, orders, attempts, procs, gateway>>

Procs == Customers \cup Checkers
Milestones == DOMAIN Plan

OrderRow ==
  [status : {"CREATING", "READY", "PAID", "EXPIRED", "TERMINATED", "REVIEW_REQUIRED", "REFUNDED"},
   milestone : Milestones, amount : 1 .. MaxMinor,
   provider : {"NONE", "NOT_CREATED", "ACTIVE", "EXPIRED", "PAID"},
   payment : Payments \cup {Null}, receipt : Receipts \cup {Null}, review : BOOLEAN]
AttemptRow ==
  [status : {"PENDING", "SUCCESS", "FAILED"}, order : Orders, amount : 0 .. MaxMinor,
   currency : {"INR", "FOREIGN"},
   accounting : {"UNAPPLIED", "APPLIED", "REVIEW_REQUIRED", "REFUNDED"},
   receipt : Receipts \cup {Null}, additional : BOOLEAN]

Payable == booking \in {"INVOICED", "CONFIRMED"}
Of(o, rows) == {p \in Payments : rows[p] # NoRow /\ rows[p].order = o}
AttemptsOf(o) == Of(o, attempts)

-----------------------------------------------------------------------------
(* Milestones are covered by the receipts of the invoice, in their order.  Their sums count *)
(* paise, as those of Ledger do.                                                            *)

Planned(ms) == Cardinality({p \in ms \X (1 .. MaxMinor) : p[2] <= Plan[p[1]]})
Before(m) == Planned(1 .. (m - 1))
Remaining(m) == Plan[m] - Min({Plan[m], Max({0, Received(Invoice) - Before(m)})})

-----------------------------------------------------------------------------
(* Processes *)

NoSnapshot == [status |-> "NONE", pays |-> Null]
Idle ==
  [pc |-> "idle", milestone |-> Null, amount |-> 0, todo |-> {}, order |-> Null,
   creating |-> FALSE, snap |-> NoSnapshot, earlier |-> {}, stale |-> FALSE]

At(c, pc) == procs[c].pc = pc
Goto(c, pc) == procs' = [procs EXCEPT ![c].pc = pc]
\* c goes on as t, its observation forgotten by the others.
Put(running, c, t) ==
  [q \in Procs |-> IF q = c THEN t ELSE [running[q] EXCEPT !.earlier = @ \ {c}]]
Stopped(c) == procs' = Put(procs, c, Idle)
Observes(c, o) == procs[c].pc \in {"fetch", "recover", "resent"} /\ procs[c].order = o

\* FOR SHARE and FOR UPDATE locks of the transaction of a checkout.
BugNotLocked == FALSE
BookingShared == \E c \in Customers : procs[c].pc \in {"tx", "order", "insert"}
BugMilestoneNotLocked(m) == FALSE
MilestoneLocked(m) ==
  \E c \in Customers : procs[c].pc \in {"order", "insert"} /\ procs[c].milestone = m
InvoiceShared == \E c \in Customers : procs[c].pc \in {"order", "insert"}

\* A new observation of o is committed: those that began before it are dropped when they end.
Overtake(running, c, o) ==
  [q \in Procs |-> [running[q] EXCEPT !.stale = @ \/ (q \in procs[c].earlier /\ Observes(q, o))]]

\* paymentResult(): of the order's row and the rows of its attempts.
Unresolved(o, row, rows) ==
  \/ \E p \in Of(o, rows) : rows[p].status = "PENDING"
  \/ row.provider = "PAID" /\ \A p \in Of(o, rows) : rows[p].status # "SUCCESS"
UnderReview(o, row, rows) ==
  row.status = "REVIEW_REQUIRED" \/ \E p \in Of(o, rows) : rows[p].accounting = "REVIEW_REQUIRED"

\* A checkout goes no further when one of the earlier orders is in this state.
Refuses(o, row, rows) ==
  \/ Unresolved(o, row, rows)
  \/ row.status = "READY" /\ (row.provider # "ACTIVE" \/ UnderReview(o, row, rows))
Refused(o) == Refuses(o, orders[o], attempts)

\* reconcile() returns to its caller.
Returned(t, refused) ==
  IF t.milestone = Null \/ refused THEN Idle
  ELSE [Idle EXCEPT !.pc = "next", !.milestone = t.milestone,
                    !.todo = t.todo \ {t.order}]

-----------------------------------------------------------------------------
(* Reconciliation *)

NotCreated(o) == orders[o].status = "TERMINATED" /\ orders[o].provider = "NOT_CREATED"

\* reconcile() reads the order, and returns when it was never created at the gateway.  Else
\* it takes the time of the database: earlier holds the observations that began before.
Begin(running, c, t, o) ==
  Put(running, c,
      IF NotCreated(o) THEN Returned([t EXCEPT !.order = o], Refused(o))
      ELSE [t EXCEPT !.order = o, !.pc = "fetch", !.creating = (orders[o].status = "CREATING"),
                     !.earlier = {q \in Procs \ {c} : Observes(q, o)}])

\* The worker, staff, or the customer who returns from the payment page checks an order.
Check(c, o) ==
  /\ procs[c] = Idle
  /\ orders[o] # NoRow
  /\ procs' = Begin(procs, c, Idle, o)
  /\ UNCHANGED <<vars, booking, orders, attempts, gateway>>

\* inspectOrder() asks for the order and for its payments at the same time.
FetchOrder(c) ==
  /\ At(c, "fetch") /\ procs[c].snap.status = "NONE"
  /\ remote[procs[c].order] # "ABSENT"
  /\ procs' = [procs EXCEPT ![c].snap.status = remote[procs[c].order]]
  /\ UNCHANGED <<vars, booking, orders, attempts, gateway>>
FetchPayments(c) ==
  /\ At(c, "fetch") /\ procs[c].snap.pays = Null
  /\ remote[procs[c].order] # "ABSENT"
  /\ procs' = [procs EXCEPT ![c].snap.pays =
       {<<p, payments[p].status>> :
          p \in {q \in Payments : payments[q] # NoRow /\ payments[q].order = procs[c].order}}]
  /\ UNCHANGED <<vars, booking, orders, attempts, gateway>>

\* Not found, and the order is still being created here: create it again with the same id.
OrderNotFound(c) ==
  /\ At(c, "fetch") /\ procs[c].creating
  /\ remote[procs[c].order] = "ABSENT"
  /\ Goto(c, "recover")
  /\ UNCHANGED <<vars, booking, orders, attempts, gateway>>

\* The second inspectOrder(), whose errors are final, unless the order is terminated by now.
Again(c, o, row) ==
  procs' = IF row.status = "TERMINATED"
           THEN Put(procs, c, Returned(procs[c], Refuses(o, row, attempts)))
           ELSE [procs EXCEPT ![c] =
                   [@ EXCEPT !.pc = "fetch", !.snap = NoSnapshot, !.creating = FALSE]]

\* recoverCreatingOrder().
Recover(c) ==
  LET o == procs[c].order
      abandoned == [orders[o] EXCEPT !.status = "TERMINATED", !.provider = "NOT_CREATED"]
  IN
  /\ At(c, "recover")
  /\ \/ /\ orders[o].status # "CREATING"
        /\ Again(c, o, orders[o])
        /\ UNCHANGED <<orders, calls>>
     \/ /\ orders[o].status = "CREATING" /\ ~ Payable
        /\ orders' = [orders EXCEPT ![o] = abandoned]
        /\ Again(c, o, abandoned)
        /\ UNCHANGED calls
     \/ /\ orders[o].status = "CREATING" /\ Payable
        /\ calls' = calls \cup {o}
        /\ Goto(c, "resent")
        /\ UNCHANGED orders
  /\ UNCHANGED <<vars, booking, attempts, remote, payments, offered>>

\* createOrder() has answered: UPDATE ... SET status = 'READY' WHERE status = 'CREATING'.
Ready(row) == [row EXCEPT !.status = IF @ = "CREATING" THEN "READY" ELSE @]
Recovered(c) ==
  LET o == procs[c].order IN
  /\ At(c, "resent")
  /\ remote[o] # "ABSENT"
  /\ orders' = [orders EXCEPT ![o] = Ready(@)]
  /\ Again(c, o, Ready(orders[o]))
  /\ UNCHANGED <<vars, booking, attempts, gateway>>

-----------------------------------------------------------------------------
(* The transaction that records an observation *)

\* A verified success is kept, and so is an end against a status that is not one.
BugReopened(old, new) == IF old = "SUCCESS" THEN old ELSE new
Upserted(old, new) ==
  IF old = "SUCCESS" \/ (old = "FAILED" /\ new = "PENDING") THEN old ELSE new
Recorded(o, pays) ==
  [p \in Payments |->
     IF \A st \in {"PENDING", "SUCCESS", "FAILED"} : <<p, st>> \notin pays
     THEN attempts[p]
     ELSE LET seenStatus == CHOOSE st \in {"PENDING", "SUCCESS", "FAILED"} : <<p, st>> \in pays
          IN IF attempts[p] = NoRow
             THEN [status |-> seenStatus, order |-> o, amount |-> payments[p].amount,
                   currency |-> payments[p].currency, accounting |-> "UNAPPLIED",
                   receipt |-> Null, additional |-> FALSE]
             ELSE [attempts[p] EXCEPT !.status = Upserted(@, seenStatus)]]

Paid(o) == orders[o].status \in {"PAID", "REFUNDED"} \/ orders[o].receipt # Null
BugAmountIgnored(o, paid) == orders[o].status # "REVIEW_REQUIRED" /\ ~ Paid(o)
OrderAccepts(o, paid) ==
  /\ orders[o].status # "REVIEW_REQUIRED" /\ ~ Paid(o)
  /\ paid.currency = "INR" /\ paid.amount = orders[o].amount
InvoiceAccepts(amount) ==
  Payable /\ RequireIssued(Invoice) /\ CheckSettlement(Invoice, amount)

\* The gateway's receipt of a payment; its key is the payment, its date today's.
GatewayReceipt(r, p, amount) ==
  \E d \in Dates : CreateReceipt(r, Invoice, d, amount, "GATEWAY", "CONFIRMED", p)

\* The order's status after the observation when its payments leave it open.
BugClosedAnyway(status, seenStatus) == IF seenStatus = "EXPIRED" THEN "EXPIRED" ELSE status
Closed(status, seenStatus) ==
  IF status \in {"PAID", "REVIEW_REQUIRED", "REFUNDED"} THEN status
  ELSE IF seenStatus = "EXPIRED" THEN "EXPIRED"
  ELSE IF status = "CREATING" /\ seenStatus = "ACTIVE" THEN "READY"
  ELSE status

\* The row written at the end.  reviewRequiredAt is cleared when nothing is unresolved or
\* under review, and set for a payment that is unresolved when its order is old.
Observed(o, rows, row, seenStatus) ==
  LET new == [row EXCEPT !.status = Closed(@, seenStatus), !.provider = seenStatus]
      unresolved == Unresolved(o, new, rows)
      mark == row.review /\ (unresolved \/ UnderReview(o, new, rows))
  IN {[new EXCEPT !.review = mark]}
       \cup (IF unresolved THEN {[new EXCEPT !.review = TRUE]} ELSE {})

Record(c, o, rows, row) ==
  /\ attempts' = rows
  /\ \E new \in Observed(o, rows, row, procs[c].snap.status) :
       /\ orders' = [orders EXCEPT ![o] = new]
       /\ procs' = Put(Overtake(procs, c, o), c, Returned(procs[c], Refuses(o, new, rows)))
  /\ UNCHANGED <<booking, gateway>>

ToRecord(c) ==
  /\ At(c, "fetch")
  /\ procs[c].snap.status # "NONE" /\ procs[c].snap.pays # Null

DropStale(c) ==
  /\ ToRecord(c) /\ procs[c].stale
  /\ procs' = Put(procs, c, Returned(procs[c], Refused(procs[c].order)))
  /\ UNCHANGED <<vars, booking, orders, attempts, gateway>>

\* The successes that are not accounted for yet.
Collected(rows, o) ==
  {p \in Of(o, rows) : rows[p].status = "SUCCESS" /\ rows[p].accounting = "UNAPPLIED"}

RecordNothingNew(c) ==
  LET o == procs[c].order
      rows == Recorded(o, procs[c].snap.pays)
  IN /\ ToRecord(c) /\ ~ procs[c].stale
     /\ Collected(rows, o) = {}
     /\ Record(c, o, rows, orders[o])
     /\ UNCHANGED vars

\* additional: ADDITIONAL_SUCCESS is among the reasons of the review.
Reviewed(rows, several, additional) ==
  [q \in Payments |->
     IF q \in several
     THEN [rows[q] EXCEPT !.accounting = "REVIEW_REQUIRED", !.additional = q \in additional]
     ELSE rows[q]]

\* The first success is applied to the invoice; any other one is left to the staff.
Apply(c, r) ==
  LET o == procs[c].order
      rows == Recorded(o, procs[c].snap.pays)
      collected == Collected(rows, o)
  IN /\ ToRecord(c) /\ ~ procs[c].stale
     /\ ~ BookingShared
     /\ \E p \in collected :
          /\ OrderAccepts(o, rows[p]) /\ InvoiceAccepts(rows[p].amount)
          /\ GatewayReceipt(r, p, rows[p].amount)
          /\ Record(c, o,
               [Reviewed(rows, collected \ {p}, collected) EXCEPT
                  ![p].accounting = "APPLIED", ![p].receipt = r],
               [orders[o] EXCEPT !.status = "PAID", !.receipt = r, !.payment = p,
                                 !.review = @ \/ collected # {p}])

\* Money that cannot be applied is kept for the staff; the order follows unless it is paid.
SendToReview(c) ==
  LET o == procs[c].order
      rows == Recorded(o, procs[c].snap.pays)
      collected == Collected(rows, o)
  IN /\ ToRecord(c) /\ ~ procs[c].stale
     /\ \E p \in collected :
          /\ \/ ~ OrderAccepts(o, rows[p])
             \/ ~ BookingShared /\ ~ InvoiceAccepts(rows[p].amount)
          /\ Record(c, o,
               Reviewed(rows, collected,
                 IF orders[o].status = "PAID" \/ orders[o].receipt # Null THEN collected
                 ELSE IF orders[o].status = "REFUNDED" THEN {p} ELSE {}),
               [orders[o] EXCEPT !.status = IF @ = "PAID" THEN @ ELSE "REVIEW_REQUIRED",
                                 !.payment = IF @ = Null THEN p ELSE @, !.review = TRUE])
     /\ UNCHANGED vars

\* The tenth failure in a row of the worker marks the order.
GiveUp(c) ==
  /\ Observes(c, procs[c].order)
  /\ orders' = [orders EXCEPT ![procs[c].order].review = TRUE]
  /\ Stopped(c)
  /\ UNCHANGED <<vars, booking, attempts, gateway>>

Stop(c) ==
  /\ procs[c] # Idle
  /\ Stopped(c)
  /\ UNCHANGED <<vars, booking, orders, attempts, gateway>>

-----------------------------------------------------------------------------
(* Checkout *)

\* The customer asks to pay a milestone; the open orders of the booking are checked first.
Checkout(c, m) ==
  /\ procs[c] = Idle
  /\ Payable
  /\ procs' = [procs EXCEPT ![c] =
       [Idle EXCEPT !.pc = "next", !.milestone = m,
          !.todo = {o \in Orders :
                      orders[o].status \in {"CREATING", "READY", "EXPIRED", "TERMINATED"}}]]
  /\ UNCHANGED <<vars, booking, orders, attempts, gateway>>

CheckPrevious(c, o) ==
  /\ At(c, "next") /\ o \in procs[c].todo
  /\ procs' = Begin(procs, c, procs[c], o)
  /\ UNCHANGED <<vars, booking, orders, attempts, gateway>>

\* The transaction: the booking FOR SHARE, then the attempts that block a checkout.
LockBooking(c) ==
  /\ At(c, "next") /\ procs[c].todo = {}
  /\ IF /\ Payable
        /\ \A p \in Payments : attempts[p] # NoRow =>
             /\ attempts[p].status # "PENDING" /\ attempts[p].accounting # "REVIEW_REQUIRED"
             /\ \/ attempts[p].accounting = "REFUNDED" \/ attempts[p].receipt = Null
                \/ receipts[attempts[p].receipt].status # "REVERSED"
     THEN Goto(c, "tx")
     ELSE Stopped(c)
  /\ UNCHANGED <<vars, booking, orders, attempts, gateway>>

MilestonePayable(m) ==
  RequireIssued(Invoice) /\ Remaining(m) > 0 /\ Remaining(m) <= Due(Invoice)

\* The milestone FOR UPDATE, then the balance with the invoice FOR SHARE.
LockMilestone(c) ==
  LET m == procs[c].milestone IN
  /\ At(c, "tx")
  /\ ~ MilestoneLocked(m)
  /\ IF MilestonePayable(m)
     THEN procs' = [procs EXCEPT ![c].pc = "order", ![c].amount = Remaining(m)]
     ELSE Stopped(c)
  /\ UNCHANGED <<vars, booking, orders, attempts, gateway>>

Live(o) == orders[o].status \in {"CREATING", "READY"}
OrdersOf(m) == {o \in Orders : orders[o] # NoRow /\ orders[o].milestone = m}
Blocked(m) == \E o \in OrdersOf(m) : orders[o].status = "REVIEW_REQUIRED"

\* The transaction has ended, and the creation of the order is sent to the gateway.
Sent(c, o) == procs' = [procs EXCEPT ![c] = [Idle EXCEPT !.pc = "sent", !.order = o]]

\* The orders of the milestone are read: none is open.
NoneOpen(c) ==
  LET m == procs[c].milestone IN
  /\ At(c, "order")
  /\ ~ Blocked(m) /\ \A o \in OrdersOf(m) : ~ Live(o)
  /\ Goto(c, "insert")
  /\ UNCHANGED <<vars, booking, orders, attempts, gateway>>

NewOrder(c, o) ==
  /\ At(c, "insert")
  /\ orders[o] = NoRow
  /\ orders' = [orders EXCEPT ![o] =
       [status |-> "CREATING", milestone |-> procs[c].milestone, amount |-> procs[c].amount, provider |-> "NONE",
        payment |-> Null, receipt |-> Null, review |-> FALSE]]
  /\ calls' = calls \cup {o}
  /\ Sent(c, o)
  /\ UNCHANGED <<vars, booking, attempts, remote, payments, offered>>

\* An order that is open already is offered again when it asks for the same amount.
ReuseOrder(c) ==
  /\ At(c, "order")
  /\ ~ Blocked(procs[c].milestone)
  /\ \E o \in OrdersOf(procs[c].milestone) :
       /\ Live(o) /\ orders[o].amount = procs[c].amount
       /\ IF orders[o].status = "READY"
          THEN Stopped(c) /\ offered' = offered \cup {o} /\ UNCHANGED calls
          ELSE Sent(c, o) /\ calls' = calls \cup {o} /\ UNCHANGED offered
  /\ UNCHANGED <<vars, booking, orders, attempts, remote, payments>>

\* The open order asks for another amount, or one is under review.
RefuseOrder(c) ==
  /\ At(c, "order")
  /\ \/ Blocked(procs[c].milestone)
     \/ \E o \in OrdersOf(procs[c].milestone) : Live(o) /\ orders[o].amount # procs[c].amount
  /\ Stopped(c)
  /\ UNCHANGED <<vars, booking, orders, attempts, gateway>>

\* createOrder() has answered: the session goes to the customer.
Created(c) ==
  /\ At(c, "sent")
  /\ remote[procs[c].order] # "ABSENT"
  /\ orders' = [orders EXCEPT ![procs[c].order] = Ready(@)]
  /\ offered' = offered \cup {procs[c].order}
  /\ Stopped(c)
  /\ UNCHANGED <<vars, booking, attempts, remote, payments, calls>>

-----------------------------------------------------------------------------
(* Staff *)

\* changeStatus().
ChangeStatus(status) ==
  /\ ~ BookingShared
  /\ \/ status = "CONFIRMED" /\ booking = "INVOICED"
          /\ RequireIssued(Invoice) /\ Remaining(1) = 0
     \/ status = "COMPLETED" /\ booking = "CONFIRMED"
     \/ status = "CANCELLED" /\ booking \in {"INVOICED", "CONFIRMED"}
  /\ booking' = status
  /\ UNCHANGED <<vars, orders, attempts, procs, gateway>>

\* Staff record, confirm and reverse receipts and adjustments, and cancel the invoice.
Settle ==
  /\ ~ InvoiceShared
  /\ \/ \E r \in Receipts, d \in Dates, a \in Amounts, status \in {"PENDING", "CONFIRMED"},
           k \in Keys \ Payments : CreateReceipt(r, Invoice, d, a, "MANUAL", status, k)
     \/ \E r \in Receipts : ConfirmReceipt(r) \/ ReverseReceipt(r)
     \/ \E x \in Adjustments : AdjustmentStep(x)
     \/ "INVOICE_CANCELLED" \in StaffActs /\ \E u \in Users : Cancel(u, Invoice)
  /\ UNCHANGED <<booking, orders, attempts, procs, gateway>>

-----------------------------------------------------------------------------
(* The gateway *)

\* A creation request arrives, now or after its sender gave up; an id is created once.
CreateRemote(o) ==
  /\ o \in calls
  /\ calls' = calls \ {o}
  /\ remote' = [remote EXCEPT ![o] = IF @ = "ABSENT" THEN "ACTIVE" ELSE @]
  /\ UNCHANGED <<vars, booking, orders, attempts, procs, payments, offered>>

Asked(o) == [amount |-> orders[o].amount, currency |-> "INR"]
\* A payment of an order, mostly of what the order asks for.
Pay(p, o, paid) ==
  /\ payments[p] = NoRow
  /\ o \in offered /\ remote[o] = "ACTIVE"
  /\ payments' = [payments EXCEPT ![p] =
       [status |-> "PENDING", order |-> o, amount |-> paid.amount, currency |-> paid.currency]]
  /\ UNCHANGED <<vars, booking, orders, attempts, procs, remote, calls, offered>>

\* A payment succeeds, even after it was reported as failed or its order expired.
Succeed(p) ==
  /\ payments[p].status \in {"PENDING", "FAILED"}
  /\ payments' = [payments EXCEPT ![p].status = "SUCCESS"]
  /\ remote' = [remote EXCEPT ![payments[p].order] = "PAID"]
  /\ UNCHANGED <<vars, booking, orders, attempts, procs, calls, offered>>

FailPayment(p) ==
  /\ payments[p].status = "PENDING"
  /\ payments' = [payments EXCEPT ![p].status = "FAILED"]
  /\ UNCHANGED <<vars, booking, orders, attempts, procs, remote, calls, offered>>

Expire(o) ==
  /\ remote[o] = "ACTIVE"
  /\ remote' = [remote EXCEPT ![o] = "EXPIRED"]
  /\ UNCHANGED <<vars, booking, orders, attempts, procs, payments, calls, offered>>

-----------------------------------------------------------------------------
\* The invoice was issued from the plan and the booking linked to it.
GInit ==
  /\ booking = "INVOICED"
  /\ \E u \in Users, c \in Companies, d \in Dates :
       /\ invoices = [i \in Invoices |->
            IF i = Invoice
            THEN [status |-> "ISSUED", version |-> 2, company |-> c, date |-> d,
                  amount |-> Planned(Milestones), rate |-> 0, total |-> Planned(Milestones),
                  number |-> 1, source |-> Null, by |-> u]
            ELSE NoRow]
       /\ counters = [s \in Series |-> IF s = SeriesOf(c, d, "I") THEN 1 ELSE 0]
  /\ receipts = [r \in Receipts |-> NoRow]
  /\ adjustments = [x \in Adjustments |-> NoRow]
  /\ outbox = [e \in InvoiceEvents \cup ReceiptEvents |->
                 IF e = <<"issued", Invoice>> THEN 1 ELSE 0]
  /\ rate \in Rates
  /\ seen = [u \in Users |-> [i \in Invoices |-> NoRow]]
  /\ orders = [o \in Orders |->
       IF o \in Offered
       THEN [status |-> "READY", milestone |-> 1, amount |-> Plan[1], provider |-> "NONE",
             payment |-> Null, receipt |-> Null, review |-> FALSE]
       ELSE NoRow]
  /\ attempts = [p \in Payments |-> NoRow]
  /\ procs = [c \in Procs |-> Idle]
  /\ remote = [o \in Orders |-> IF o \in Offered THEN "ACTIVE" ELSE "ABSENT"]
  /\ payments = [p \in Payments |-> NoRow]
  /\ calls = {} /\ offered = Offered

Reconcile(c) ==
  \/ FetchOrder(c) \/ FetchPayments(c) \/ OrderNotFound(c) \/ Recover(c)
  \/ Recovered(c) \/ DropStale(c) \/ RecordNothingNew(c)
  \/ \E r \in Receipts : Apply(c, r)
  \/ SendToReview(c)

CustomerStep(c) ==
  \/ \E m \in Milestones : Checkout(c, m)
  \/ \E o \in Orders : CheckPrevious(c, o) \/ NewOrder(c, o)
  \/ LockBooking(c) \/ LockMilestone(c) \/ NoneOpen(c) \/ ReuseOrder(c) \/ RefuseOrder(c) \/ Created(c)
CheckerStep(c) == (\E o \in Orders : Check(c, o)) \/ GiveUp(c)

Staff ==
  \/ \E status \in StaffActs : ChangeStatus(status)
  \/ Settle

Provider ==
  \/ \E o \in Orders : CreateRemote(o) \/ Expire(o)
  \/ \E p \in Payments :
       \/ \E o \in Orders : orders[o] # NoRow
                              /\ \E paid \in OddPayments \cup {Asked(o)} : Pay(p, o, paid)
       \/ Succeed(p) \/ FailPayment(p)

GNext ==
  \/ \E c \in Customers : CustomerStep(c)
  \/ \E c \in Checkers : CheckerStep(c)
  \/ \E c \in Procs : Reconcile(c) \/ Stop(c)
  \/ Staff
  \/ Provider

GSpec == GInit /\ [][GNext]_gVars

-----------------------------------------------------------------------------
(* Properties *)

\* The rows keep the check constraints of commercial.schema.ts and the keys between them.
GTypeOK ==
  /\ TypeOK
  /\ booking \in {"INVOICED", "CONFIRMED", "COMPLETED", "CANCELLED"}
  /\ orders \in [Orders -> OrderRow \cup {NoRow}]
  /\ attempts \in [Payments -> AttemptRow \cup {NoRow}]
  /\ \A o \in Orders : (orders[o] # NoRow /\ orders[o].receipt # Null) =>
       receipts[orders[o].receipt] # NoRow
  /\ \A p \in Payments : attempts[p] # NoRow => orders[attempts[p].order] # NoRow

\* Two checkouts of a milestone never leave it with two orders a customer could pay.
OneLiveOrder ==
  \A o, q \in Orders :
    (Live(o) /\ Live(q) /\ orders[o].milestone = orders[q].milestone) => o = q

\* A recorded success is either a confirmed receipt on the invoice of exactly what its order
\* asks, in its currency, written with it, or left to the staff with no receipt; and every receipt of the gateway is such a
\* success, whichever process recorded it and whatever failed on the way.  The order agrees: paid
\* by exactly one applied receipt, else under review exactly while one of its payments is.
MoneyIsAccounted ==
  /\ \A p \in Payments : attempts[p] # NoRow =>
       IF attempts[p].accounting = "APPLIED"
       THEN LET r == attempts[p].receipt IN
            /\ attempts[p].status = "SUCCESS"
            /\ attempts[p].currency = "INR"
            /\ attempts[p].amount = orders[attempts[p].order].amount
            /\ r # Null /\ receipts[r].status = "CONFIRMED" /\ receipts[r].key = p
            /\ receipts[r].invoice = Invoice /\ receipts[r].amount = attempts[p].amount
       ELSE attempts[p].status = "SUCCESS" => attempts[p].accounting # "UNAPPLIED"
  /\ \A r \in Receipts : (receipts[r] # NoRow /\ receipts[r].method = "GATEWAY") =>
       attempts[receipts[r].key] # NoRow /\ attempts[receipts[r].key].receipt = r
  /\ \A o \in Orders : orders[o] # NoRow =>
       LET applied == {p \in AttemptsOf(o) : attempts[p].accounting = "APPLIED"}
           reviewed == {p \in AttemptsOf(o) : attempts[p].accounting = "REVIEW_REQUIRED"}
       IN
       /\ orders[o].status = "PAID" <=> applied # {}
       /\ applied # {} => /\ applied = {orders[o].payment}
                          /\ attempts[orders[o].payment].receipt = orders[o].receipt
       /\ orders[o].status = "REVIEW_REQUIRED" <=> (applied = {} /\ reviewed # {})
       /\ reviewed # {} => orders[o].review

\* A verified success and its accounting outlive every late or stale observation, and a
\* payment that ended is never pending again.
SuccessIsFinal ==
  [][\A p \in Payments : attempts[p] # NoRow =>
       /\ attempts[p].status = "SUCCESS" => attempts'[p].status = "SUCCESS"
       /\ attempts[p].status = "FAILED" => attempts'[p].status # "PENDING"
       /\ attempts[p].accounting = "APPLIED" => attempts'[p] = attempts[p]]_gVars

\* A checkout commits an order for exactly what is open of its milestone, of a booking that
\* can be paid, and for no more than is due on an issued invoice, whatever staff record
\* between its reads.
AskedIsOwed ==
  [][\A o \in Orders : (orders[o] = NoRow /\ orders'[o] # NoRow) =>
       /\ Payable /\ invoices[Invoice].status = "ISSUED"
       /\ orders'[o].amount = Remaining(orders'[o].milestone)
       /\ orders'[o].amount <= Due(Invoice)]_gVars
=============================================================================
