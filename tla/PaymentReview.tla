---------------------------- MODULE PaymentReview ----------------------------
(***************************************************************************)
(* What staff do with money that could not be applied by itself             *)
(* (src/src/modules/core/application/payment-review.service.ts): they look   *)
(* at an order, and later decide about one of its payments, while             *)
(* reconciliation goes on and other staff decide too.  The decision locks the *)
(* order, the booking, the invoice and the attempts before it reads them, so   *)
(* it is one step; what the reviewer looked at may be older.                    *)
(*                                                                         *)
(* Receipts that no release of this code writes, but that its guards, its API  *)
(* and its tests provide for, are brought in by two actions of their own: a     *)
(* gateway receipt that nothing is linked to, and a gateway receipt that was     *)
(* reversed.                                                                 *)
(***************************************************************************)
EXTENDS Gateway

CONSTANTS
  Reviewers,    \* administrators
  References,   \* references of refunds at the gateway
  DecisionKeys, \* idempotency keys of decisions
  Historic      \* which rows of earlier releases an instance has

ASSUME ReviewAssumption == Historic \subseteq {"ORPHAN", "REVERSED"}

VARIABLES
  resolutions,  \* core.payment_attempt_resolutions, by payment
  desk          \* the facts each reviewer last looked at

rVars == <<gVars, resolutions, desk>>

ResolutionRow ==
  [action : {"APPLY", "LINK", "REFUND"}, by : Reviewers, key : DecisionKeys,
   receipt : Receipts \cup {Null}, reference : References \cup {Null}]

-----------------------------------------------------------------------------
(* What can be done with a payment *)

Linked(p) ==
  LET o == attempts[p].order IN
  IF attempts[p].receipt # Null THEN attempts[p].receipt
  ELSE IF orders[o].payment = p THEN orders[o].receipt ELSE Null
IsReversed(r) == r # Null /\ receipts[r].status = "REVERSED"
Others(p) == AttemptsOf(attempts[p].order) \ {p}
Identity(p) == {r \in Receipts : receipts[r] # NoRow /\ receipts[r].key = p}

Open(p) ==
  \/ attempts[p].accounting = "REVIEW_REQUIRED"
  \/ attempts[p].accounting = "APPLIED" /\ IsReversed(Linked(p))

\* What every action asks for: base blockers of actions().
Reviewable(p) ==
  /\ attempts[p] # NoRow
  /\ resolutions[p] = NoRow
  /\ attempts[p].status = "SUCCESS"
  /\ attempts[p].amount # 0
  /\ Open(p)

\* Rupees, one receipt per order, and no other success of it whose money is still here.
Accountable(p) ==
  /\ attempts[p].currency = "INR"
  /\ Payable /\ RequireIssued(Invoice)
  /\ orders[attempts[p].order].receipt = Null
  /\ \A q \in AttemptsOf(attempts[p].order) :
       attempts[q].accounting # "APPLIED" /\ attempts[q].receipt = Null
  /\ ~ attempts[p].additional
  /\ \A q \in Others(p) : attempts[q].status = "SUCCESS" => attempts[q].accounting = "REFUNDED"

\* Confirmed receipts of the gateway with the identity of p that no other row points to.
Matching(p) ==
  {r \in Identity(p) :
     /\ receipts[r].status = "CONFIRMED" /\ receipts[r].method = "GATEWAY"
     /\ receipts[r].invoice = Invoice /\ receipts[r].amount = attempts[p].amount
     /\ \A o \in Orders \ {attempts[p].order} : orders[o] # NoRow => orders[o].receipt # r
     /\ \A q \in Payments \ {p} : attempts[q] # NoRow => attempts[q].receipt # r}

CanApply(p) ==
  /\ Reviewable(p) /\ Accountable(p)
  /\ attempts[p].amount <= Due(Invoice)
  /\ Identity(p) = {}
CanLink(p) == Reviewable(p) /\ Accountable(p) /\ Matching(p) # {}

BugReceiptKept(p) == Reviewable(p)
BugRefundNeedsBooking(p) ==
  /\ Reviewable(p) /\ Payable
  /\ Linked(p) = Null \/ IsReversed(Linked(p))
  /\ \A r \in Identity(p) : IsReversed(r)
CanRefund(p) ==
  /\ Reviewable(p)
  /\ Linked(p) = Null \/ IsReversed(Linked(p))
  /\ \A r \in Identity(p) : IsReversed(r)

-----------------------------------------------------------------------------
(* The facts a decision is made on; their hash is the version of the review. *)

Facts(o) ==
  [order |-> o, row |-> <<orders[o].status, orders[o].receipt, orders[o].payment>>,
   booking |-> booking, invoice |-> invoices[Invoice].status,
   balance |-> <<Received(Invoice), Due(Invoice)>>,
   attempts |-> [p \in AttemptsOf(o) |-> attempts[p]],
   receipts |-> [r \in {x \in Receipts : receipts[x] # NoRow} |-> receipts[r].status],
   resolved |-> {p \in AttemptsOf(o) : resolutions[p] # NoRow}]
Version(facts) == facts

\* inspect().
Inspect(s, o) ==
  /\ orders[o] # NoRow
  /\ ~ BookingShared
  /\ desk' = [desk EXCEPT ![s] = Facts(o)]
  /\ UNCHANGED <<gVars, resolutions>>

-----------------------------------------------------------------------------
(* resolve() *)

\* The order after the decision on p: paid when a payment is applied to it, under review
\* while another one is open, else refunded.
BugRefundedFirst(p, accounting) == IF accounting = "REFUNDED" THEN "REFUNDED" ELSE "PAID"
NextStatus(p, accounting) ==
  LET o == attempts[p].order IN
  IF \/ accounting = "APPLIED"
     \/ \E q \in Others(p) : attempts[q].accounting = "APPLIED"
     \/ orders[o].receipt # Null /\ orders[o].payment # p
  THEN "PAID"
  ELSE IF \E q \in Others(p) : Open(q) THEN "REVIEW_REQUIRED" ELSE "REFUNDED"

Marked(p) ==
  \/ \E q \in Others(p) : Open(q)
  \/ \E q \in AttemptsOf(attempts[p].order) : attempts[q].status = "PENDING"

Decide(s, p, key, action, accounting, r, reference) ==
  LET o == attempts[p].order IN
  /\ ~ BookingShared
  /\ \A q \in Payments : resolutions[q] # NoRow => resolutions[q].key # key
  /\ desk[s] # NoRow /\ desk[s].order = o
  /\ Version(desk[s]) = Version(Facts(o))
  /\ attempts' = [attempts EXCEPT ![p].accounting = accounting, ![p].receipt = r]
  /\ orders' = [orders EXCEPT ![o] =
       [@ EXCEPT !.status = NextStatus(p, accounting), !.review = Marked(p),
                 !.receipt = IF accounting = "APPLIED" THEN r ELSE orders[o].receipt,
                 !.payment = IF accounting = "APPLIED" THEN p ELSE orders[o].payment]]
  /\ resolutions' = [resolutions EXCEPT ![p] =
       [action |-> action, by |-> s, key |-> key, receipt |-> r, reference |-> reference]]
  /\ UNCHANGED <<booking, procs, gateway, desk>>

\* APPLY_TO_LINKED_INVOICE
ApplyReviewed(s, p, key, r) ==
  /\ CanApply(p)
  /\ GatewayReceipt(r, p, attempts[p].amount)
  /\ Decide(s, p, key, "APPLY", "APPLIED", r, Null)

\* LINK_EXISTING_RECEIPT
LinkReceipt(s, p, key, r) ==
  /\ CanLink(p) /\ r \in Matching(p)
  /\ Decide(s, p, key, "LINK", "APPLIED", r, Null)
  /\ UNCHANGED vars

\* RECORD_VERIFIED_EXTERNAL_REFUND, of exactly what was paid.
RecordRefund(s, p, key, reference) ==
  /\ CanRefund(p)
  /\ \A q \in Payments : resolutions[q] # NoRow => resolutions[q].reference # reference
  /\ Decide(s, p, key, "REFUND", "REFUNDED", attempts[p].receipt, reference)
  /\ UNCHANGED vars

-----------------------------------------------------------------------------
(* Rows of earlier releases *)

OrphanReceipt(r, p) ==
  /\ "ORPHAN" \in Historic
  /\ attempts[p] # NoRow /\ attempts[p].accounting = "REVIEW_REQUIRED"
  /\ attempts[p].amount # 0 /\ attempts[p].currency = "INR"
  /\ GatewayReceipt(r, p, attempts[p].amount)
  /\ UNCHANGED <<booking, orders, attempts, procs, gateway, resolutions, desk>>

HistoricReversal(r) ==
  /\ "REVERSED" \in Historic
  /\ receipts[r].status = "CONFIRMED" /\ receipts[r].method = "GATEWAY"
  /\ receipts' = [receipts EXCEPT ![r].status = "REVERSED"]
  /\ UNCHANGED <<invoices, adjustments, counters, outbox, rate, seen>>
  /\ UNCHANGED <<booking, orders, attempts, procs, gateway, resolutions, desk>>

-----------------------------------------------------------------------------
RInit ==
  /\ GInit
  /\ resolutions = [p \in Payments |-> NoRow]
  /\ desk = [s \in Reviewers |-> NoRow]

Review(s) ==
  \/ \E o \in Orders : Inspect(s, o)
  \/ \E p \in Payments, key \in DecisionKeys :
       \/ \E r \in Receipts : ApplyReviewed(s, p, key, r) \/ LinkReceipt(s, p, key, r)
       \/ \E reference \in References : RecordRefund(s, p, key, reference)

RNext ==
  \/ GNext /\ UNCHANGED <<resolutions, desk>>
  \/ \E s \in Reviewers : Review(s)
  \/ \E r \in Receipts : HistoricReversal(r) \/ \E p \in Payments : OrphanReceipt(r, p)

RSpec == RInit /\ [][RNext]_rVars

-----------------------------------------------------------------------------
(* Properties *)

\* Resolutions name rows that exist, in the columns of payment_attempt_resolutions.
RTypeOK ==
  /\ GTypeOK
  /\ resolutions \in [Payments -> ResolutionRow \cup {NoRow}]
  /\ \A p \in Payments : resolutions[p] # NoRow => attempts[p] # NoRow

\* The money of a success is in one place: on the one receipt of its identity, with the staff,
\* or returned to the customer, and then no receipt still counts it.  Whatever reconciliation
\* and the staff do to the payments of an order in whatever order, it has at most one payment
\* on a confirmed receipt.
MoneyIsInOnePlace ==
  /\ \A p \in Payments : attempts[p] # NoRow =>
       /\ attempts[p].accounting = "REFUNDED" =>
            \A r \in Receipts : receipts[r].status = "CONFIRMED" =>
              receipts[r].key # p /\ attempts[p].receipt # r
       /\ attempts[p].accounting = "APPLIED" =>
            /\ attempts[p].currency = "INR"
            /\ receipts[attempts[p].receipt].key = p /\ Identity(p) = {attempts[p].receipt}
  /\ \A p, q \in Payments :
       (/\ attempts[p] # NoRow /\ attempts[q] # NoRow
        /\ attempts[p].order = attempts[q].order
        /\ attempts[p].accounting = "APPLIED" /\ attempts[q].accounting = "APPLIED") => p = q

\* The status of an order is what its payments make it, in whatever order they are decided:
\* paid by the applied one, else under review while one is, else refunded; and as long as one
\* is under review the order is marked for the staff.  (Not so for an order whose own receipt
\* was reversed: the code keeps such an order PAID when its last payment is refunded.)
StatusFollowsDecisions ==
  \A o \in Orders : (orders[o] # NoRow /\ ~ IsReversed(orders[o].receipt)) =>
    LET In(accounting) == {p \in AttemptsOf(o) : attempts[p].accounting = accounting} IN
    /\ orders[o].status = "PAID" <=> In("APPLIED") # {}
    /\ orders[o].status = "REVIEW_REQUIRED" <=>
         (In("APPLIED") = {} /\ In("REVIEW_REQUIRED") # {})
    /\ orders[o].status = "REFUNDED" <=>
         (In("APPLIED") = {} /\ In("REVIEW_REQUIRED") = {} /\ In("REFUNDED") # {})
    /\ In("REVIEW_REQUIRED") # {} => orders[o].review

\* Staff can always close an open case on which nothing was decided, in whatever currency, whatever
\* became of the booking, its invoice and the other payments of the order.  Two cases are left out:
\* one with a receipt of an earlier release that nothing is linked to, and a success of zero, which
\* no action takes (ZERO_AMOUNT) and which stays open for good.
NoDeadEnd ==
  \A p \in Payments :
    (/\ attempts[p] # NoRow /\ Open(p) /\ resolutions[p] = NoRow
     /\ attempts[p].amount # 0 /\ \A r \in Identity(p) : r = Linked(p))
    => CanApply(p) \/ CanLink(p) \/ CanRefund(p)

=============================================================================
