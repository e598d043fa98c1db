------------------------------- MODULE Reports -------------------------------
(***************************************************************************)
(* The financial reports                                                   *)
(* (src/src/modules/core/persistence/reporting.repository.ts) on the rows   *)
(* of Ledger.  A query is an SQL statement and so a function of the state.   *)
(* A dashboard or a statement is several queries; each is modelled on its   *)
(* own, as if nothing changed between them.                                 *)
(*                                                                         *)
(* A date is its month, as in Ledger, and ageing is counted in months.  Who  *)
(* an invoice bills and when it is due are fixed per invoice.  Filters other *)
(* than the period, the customer and includeSettled select rows alike in all *)
(* queries and are left out, as are queries of texts, vehicles, taxes and    *)
(* discounts by date.                                                       *)
(***************************************************************************)
EXTENDS Ledger, Sums

CONSTANTS
  Debtors,      \* customers
  BilledTo,     \* the customer of each invoice
  DueDate,      \* when each invoice is due, Null when it does not say
  TopLimit      \* how many customers topOutstanding() lists, 10

ASSUME ReportsAssumption ==
  /\ IsFiniteSet(Invoices) /\ IsFiniteSet(Dates) /\ IsFiniteSet(Debtors)
  /\ BilledTo \in [Invoices -> Debtors]
  /\ DueDate \in [Invoices -> Dates \cup {Null}]
  /\ Null \notin Dates
  /\ TopLimit \in Nat \ {0}

AmountOf(rows) == Cardinality(Paise(rows, receipts))

-----------------------------------------------------------------------------
(* Periods *)

YearOf(day) == [from |-> 12 * FinancialYear(day) + 3, to |-> 12 * FinancialYear(day) + 14]

\* range(): a missing bound is that of the financial year of the day of the request.
Period(input, day) ==
  [from |-> IF input.from = Null THEN YearOf(day).from ELSE input.from,
   to |-> IF input.to = Null THEN YearOf(day).to ELSE input.to]
Valid(period) == period.from <= period.to
Within(date, period) == period.from <= date /\ date <= period.to

-----------------------------------------------------------------------------
(* Queries *)

\* invoiceRows(): the issued invoices of a period, with their current balances.
Issued(period) ==
  {i \in Invoices : invoices[i].status = "ISSUED" /\ Within(invoices[i].date, period)}
Totals(rows) == SumOf([i \in rows |-> invoices[i].total])
Dues(rows) == SumOf([i \in rows |-> Due(i)])
InvoiceSummary(period) ==
  [count |-> Cardinality(Issued(period)), grand |-> Totals(Issued(period)),
   received |-> SumOf([i \in Issued(period) |-> Received(i)]),
   adjusted |-> SumOf([i \in Issued(period) |-> Adjusted(i)]),
   due |-> Dues(Issued(period))]

\* payments(): receipts by their own date, whatever the date of the invoice.
ReceivedIn(period, status) ==
  {r \in Receipts : receipts[r].status = status /\ Within(receipts[r].date, period)}
PaymentSummary(period) ==
  [confirmed |-> AmountOf(ReceivedIn(period, "CONFIRMED")),
   pending |-> AmountOf(ReceivedIn(period, "PENDING")),
   reversed |-> AmountOf(ReceivedIn(period, "REVERSED"))]

\* receivables(): the buckets by the months an invoice is overdue on a day.
Buckets == {"NO_DUE_DATE", "NOT_DUE", "1_30", "31_60", "61_90", "90_PLUS"}
Bucket(i, day) ==
  IF DueDate[i] = Null THEN "NO_DUE_DATE"
  ELSE CASE DueDate[i] >= day -> "NOT_DUE"
         [] day - DueDate[i] = 1 -> "1_30"
         [] day - DueDate[i] = 2 -> "31_60"
         [] day - DueDate[i] = 3 -> "61_90"
         [] OTHER -> "90_PLUS"
Receivables(period) == Dues(Issued(period))
Ageing(period, day) ==
  [b \in Buckets |-> Dues({i \in Issued(period) : Bucket(i, day) = b})]

\* topOutstanding(): the lists it can give of those who owe most, customers who owe the same
\* in any order.
OwedBy(period) ==
  LET owed == [c \in Debtors |-> Dues({i \in Issued(period) : BilledTo[i] = c})]
  IN [c \in {d \in Debtors : owed[d] > 0} |-> owed[c]]
TopOutstanding(period) ==
  LET owed == OwedBy(period)
      Tops == {top \in SUBSET DOMAIN owed :
                 /\ top = DOMAIN owed \/ Cardinality(top) = TopLimit
                 /\ Cardinality(top) <= TopLimit
                 /\ \A c \in top, d \in DOMAIN owed \ top : owed[c] >= owed[d]}
  IN {[c \in top |-> owed[c]] : top \in Tops}

\* financialTrend(): invoiced by the date of the invoice, received by the date of the receipt.
BugTrendOfCohort(period) ==
  [d \in Dates |->
     [invoiced |-> Totals({i \in Issued(period) : invoices[i].date = d}),
      received |-> AmountOf({r \in ReceivedIn(period, "CONFIRMED") :
                               receipts[r].date = d /\ receipts[r].invoice \in Issued(period)})]]
Trend(period) ==
  [d \in Dates |->
     [invoiced |-> Totals({i \in Issued(period) : invoices[i].date = d}),
      received |-> AmountOf({r \in ReceivedIn(period, "CONFIRMED") : receipts[r].date = d})]]

-----------------------------------------------------------------------------
(* Statements *)

\* customerStatement(): the issued invoices of a customer, the confirmed receipts and the
\* active discounts on them, whenever these were recorded.
Selected(c, period, settledToo) ==
  {i \in Issued(period) : BilledTo[i] = c /\ (settledToo \/ Due(i) > 0)}
BugReceiptsOfPeriod(c, period, settledToo) ==
  LET selected == Selected(c, period, settledToo) IN
  [INVOICE |-> selected,
   RECEIPT |-> {r \in ReceivedIn(period, "CONFIRMED") : receipts[r].invoice \in selected},
   SETTLEMENT_DISCOUNT |-> UNION {ActiveAdjustments(i) : i \in selected}]
Entries(c, period, settledToo) ==
  LET selected == Selected(c, period, settledToo) IN
  [INVOICE |-> selected,
   RECEIPT |-> UNION {Confirmed(i) : i \in selected},
   SETTLEMENT_DISCOUNT |-> UNION {ActiveAdjustments(i) : i \in selected}]
ClosingBalance(c, period, settledToo) == Dues(Selected(c, period, settledToo))

-----------------------------------------------------------------------------
(* Properties *)

Inputs == [from : Dates \cup {Null}, to : Dates \cup {Null}]
Periods == {p \in {Period(input, day) : input \in Inputs, day \in Dates} : Valid(p)}
AllTime == {p \in Periods : \A d \in Dates : Within(d, p)}

\* However invoices and receipts fall over the years, the queries agree: the trend sums to what
\* was invoiced and to the cash received in the period; ageing sums to what is outstanding, and
\* so do the customers who owe most, since nobody owes less than nothing, but when the list is
\* cut off, and then they owe less; and over all time the cash of the payments is the cash of
\* the invoices, since no confirmed receipt is on an invoice that no longer counts.
QueriesAgree ==
  /\ \A period \in Periods :
       LET trend == Trend(period) IN
       /\ SumOf([d \in Dates |-> trend[d].invoiced]) = InvoiceSummary(period).grand
       /\ SumOf([d \in Dates |-> trend[d].received]) = PaymentSummary(period).confirmed
       /\ \A top \in TopOutstanding(period) :
            IF Cardinality(DOMAIN OwedBy(period)) <= TopLimit
            THEN SumOf(top) = Receivables(period) ELSE SumOf(top) < Receivables(period)
       /\ \A day \in Dates : SumOf(Ageing(period, day)) = Receivables(period)
  /\ \A period \in AllTime :
       PaymentSummary(period).confirmed = InvoiceSummary(period).received

\* The entries of a customer's statement come to its closing balance, for every period and with
\* or without settled invoices, and to hide the settled ones changes no balance.
StatementBalances ==
  \A c \in Debtors, period \in Periods, settledToo \in BOOLEAN :
    LET entries == Entries(c, period, settledToo) IN
    /\ Totals(entries.INVOICE) - AmountOf(entries.RECEIPT)
         - Cardinality(Paise(entries.SETTLEMENT_DISCOUNT, adjustments))
         = ClosingBalance(c, period, settledToo)
    /\ ClosingBalance(c, period, settledToo) = ClosingBalance(c, period, TRUE)
=============================================================================
