--------------------------- MODULE PaymentsReport ---------------------------
(***************************************************************************)
(* The register of payments that staff read                                *)
(* (src/src/modules/core/persistence/payments-report.repository.ts): one    *)
(* row for each payment order, with the receipt it owns and what its        *)
(* payments came to, and one for each receipt that no order owns.  It is    *)
(* one SQL statement, so it is a function of the state that PaymentReview   *)
(* and Gateway reach; a filter selects rows and is left out, but for the    *)
(* filter needsReview.  Amounts are taken as rupees.                        *)
(***************************************************************************)
EXTENDS PaymentReview, Sums

ASSUME RegisterAssumption == IsFiniteSet(Payments)

Receipted(r) == r # Null /\ receipts[r] # NoRow

\* Receipts that no order and no payment points to, whatever their method.
BugManualByMethod(r) == receipts[r] # NoRow /\ receipts[r].method # "GATEWAY"
Unlinked(r) ==
  /\ receipts[r] # NoRow
  /\ \A o \in Orders : orders[o] # NoRow => orders[o].receipt # r
  /\ \A p \in Payments : attempts[p] # NoRow => attempts[p].receipt # r

\* The receipt of an order: its own, else that of a payment of it (the latest one).
ReceiptOf(o) ==
  LET paid == {attempts[p].receipt : p \in AttemptsOf(o)} \ {Null} IN
  IF orders[o].receipt # Null THEN orders[o].receipt
  ELSE IF paid = {} THEN Null
  ELSE CHOOSE r \in paid : TRUE

Sum(chosen) == Cardinality(Paise(chosen, attempts))
\* Amounts of other currencies are not summed.
InRupees(p) == attempts[p].status = "SUCCESS" /\ attempts[p].currency = "INR"
BugReviewStatusOnly(p) == InRupees(p) /\ attempts[p].accounting = "REVIEW_REQUIRED"
ForStaff(p) ==
  /\ InRupees(p)
  /\ \/ attempts[p].accounting = "REVIEW_REQUIRED"
     \/ attempts[p].accounting = "APPLIED" /\ IsReversed(attempts[p].receipt)
ReviewAmount(o) == Sum({p \in AttemptsOf(o) : ForStaff(p)})
RefundAmount(o) ==
  Sum({p \in AttemptsOf(o) : InRupees(p) /\ attempts[p].accounting = "REFUNDED"})

\* paymentOrderNeedsReview: the shortcut to the cases staff should look at.
BugOrderOnly(o) == orders[o].status = "REVIEW_REQUIRED" \/ orders[o].review
NeedsReview(o) ==
  \/ orders[o].status = "REVIEW_REQUIRED" \/ orders[o].review
  \/ \E p \in AttemptsOf(o) : Open(p)

ManualRow(r) ==
  [source |-> "MANUAL", id |-> r, amount |-> receipts[r].amount, receipt |-> r,
   status |-> "NONE", review |-> 0, refund |-> 0, needsReview |-> FALSE]
GatewayRow(o) ==
  [source |-> "GATEWAY", id |-> o, amount |-> orders[o].amount, receipt |-> ReceiptOf(o),
   status |-> orders[o].status, review |-> ReviewAmount(o), refund |-> RefundAmount(o),
   needsReview |-> NeedsReview(o)]
Register ==
  {ManualRow(r) : r \in {x \in Receipts : Unlinked(x)}}
    \cup {GatewayRow(o) : o \in {x \in Orders : orders[x] # NoRow}}

\* The amounts of the rows whose receipt has a status.
ReceiptAmount(rows, status) ==
  SumOf([row \in {x \in rows : Receipted(x.receipt) /\ receipts[x.receipt].status = status}
           |-> receipts[row.receipt].amount])
Summary(rows) ==
  [confirmed |-> ReceiptAmount(rows, "CONFIRMED"), pending |-> ReceiptAmount(rows, "PENDING"),
   reversed |-> ReceiptAmount(rows, "REVERSED"),
   review |-> SumOf([row \in rows |-> row.review]),
   refund |-> SumOf([row \in rows |-> row.refund])]

-----------------------------------------------------------------------------
(* Properties *)

\* The register hides no money and counts none twice.  Every receipt is one row, whichever way it
\* came to be linked to an order, so its confirmed total is what the ledger counts as received.
\* What customers paid for an order in rupees, as far as reconciliation has recorded it, is in its
\* row: on the confirmed receipt, with the staff, or refunded; money of another currency is in none
\* of the amounts.  And no open payment, of any currency or amount, is missing from the list of what
\* needs review, nor one in rupees from the amount that is shown for it.
RegisterTellsTheMoney ==
  /\ Summary(Register).confirmed
       = Cardinality(Paise(UNION {Confirmed(i) : i \in Invoices}, receipts))
  /\ \A r \in Receipts : receipts[r] # NoRow =>
       Cardinality({row \in Register : row.receipt = r}) = 1
  /\ \A o \in Orders : orders[o] # NoRow =>
       LET row == GatewayRow(o) IN
       Sum({p \in AttemptsOf(o) : InRupees(p)})
         = ReceiptAmount({row}, "CONFIRMED") + row.review + row.refund
  /\ \A p \in Payments : (attempts[p] # NoRow /\ Open(p)) =>
       LET row == GatewayRow(attempts[p].order) IN
       row.needsReview /\ (attempts[p].currency = "INR" => row.review >= attempts[p].amount)
=============================================================================
