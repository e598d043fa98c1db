------------------------------- MODULE Ledger -------------------------------
(***************************************************************************)
(* The billing ledger: invoices, receipts, settlement adjustments and      *)
(* document numbers, one action per handler of BillingRepository           *)
(* (src/src/modules/core/persistence/billing.repository.ts), each handler  *)
(* one atomic step.  LedgerTx splits the handlers into the statements of   *)
(* their transactions and shows that the locks make them atomic.           *)
(*                                                                         *)
(* Every handler runs in a database transaction that rolls back when it    *)
(* throws, so a refused request changes nothing: a refusal is an action    *)
(* that is not enabled.  The refusals that depend on master data only (an  *)
(* archived company, an incomplete address) never change the ledger and    *)
(* are left out.  An invoice has one line, whose tax rule is identified    *)
(* with its rate.                                                          *)
(***************************************************************************)
EXTENDS Integers, FiniteSets

CONSTANTS
  Invoices, Receipts, Adjustments, \* row identities the database hands out
  Users,        \* staff members
  Keys,         \* idempotency keys
  Sources,      \* records of the legacy system
  Companies,
  Dates,        \* a date is its month, counted from January of year 0
  Prices,       \* line amounts, in paise
  Amounts,      \* amounts of receipts and adjustments, in paise
  Rates,        \* tax rates
  Hundred,      \* a rate of 100 percent: 1000000, as rates have four decimals
  LegacyNumbers,\* numbers of imported invoices; a negative one is of another format
  MaxMinor,     \* MAX_MINOR, the largest amount
  MaxNumber,    \* the last number of a series, 999999
  MaxVersion,   \* bound of the model on the edits of one draft
  Null

ASSUME LedgerAssumption ==
  /\ IsFiniteSet(Receipts) /\ IsFiniteSet(Adjustments)
  /\ Dates \subseteq Int
  /\ MaxMinor \in Nat /\ MaxNumber \in Nat /\ MaxVersion \in Nat
  /\ Prices \subseteq 0 .. MaxMinor
  /\ Amounts \subseteq 1 .. MaxMinor
  /\ Hundred \in Nat \ {0} /\ Rates \subseteq 0 .. Hundred /\ Rates # {}
  /\ LegacyNumbers \subseteq Int \ {0}
  /\ Null \notin Sources

VARIABLES
  invoices,     \* core.invoices with its lines and the actor of its last audit row
  receipts,     \* core.receipts
  adjustments,  \* core.settlement_adjustments
  counters,     \* core.document_counters, 0 for a missing row
  outbox,       \* core.outbox: how many events of each kind were written
  rate,         \* the rate of the tax rule that applies
  seen          \* the row of each invoice as each user last loaded it

billing == <<invoices, receipts, adjustments, counters, outbox, rate>>
vars == <<billing, seen>>

-----------------------------------------------------------------------------
(* Rows *)

NoRow == [status |-> "NONE"]

FinancialYear(month) == (month - 3) \div 12
FinancialYears == {FinancialYear(d) : d \in Dates}
Series == Companies \X FinancialYears \X {"I", "R"}
SeriesOf(company, date, kind) == <<company, FinancialYear(date), kind>>

InvoiceRow ==
  [status : {"DRAFT", "ISSUED", "CANCELLED"}, version : Nat, company : Companies,
   date : Dates, amount : Nat, rate : Nat, total : Nat, number : Int,
   source : Sources \cup {Null}, by : Users]
ReceiptRow ==
  [status : {"PENDING", "CONFIRMED", "REVERSED"}, invoice : Invoices, company : Companies,
   date : Dates, amount : 1 .. MaxMinor, method : {"MANUAL", "GATEWAY"}, key : Keys,
   number : Nat]
AdjustmentRow ==
  [status : {"ACTIVE", "REVERSED"}, invoice : Invoices, amount : 1 .. MaxMinor, key : Keys]

InvoiceEvents == {"issued", "cancelled"} \X Invoices
ReceiptEvents == {"created PENDING", "created CONFIRMED", "confirmed", "reversed"} \X Receipts
Emit(event) == outbox' = [outbox EXCEPT ![event] = @ + 1]

-----------------------------------------------------------------------------
(* Money.  A sum of amounts is the number of paise they hold: the paise of a *)
(* set of rows are numbered <<row, 1>>, ..., <<row, amount>>.                 *)

\* Rounded half up, once per line.
TaxAmount(amount, r) == (amount * r + (Hundred \div 2)) \div Hundred
GrandTotal(amount, r) == amount + TaxAmount(amount, r)

Confirmed(i) == {r \in Receipts : receipts[r].status = "CONFIRMED" /\ receipts[r].invoice = i}
ActiveAdjustments(i) ==
  {x \in Adjustments : adjustments[x].status = "ACTIVE" /\ adjustments[x].invoice = i}

Paise(rows, table) == {p \in rows \X (1 .. MaxMinor) : p[2] <= table[p[1]].amount}
Received(i) == Cardinality(Paise(Confirmed(i), receipts))
Adjusted(i) == Cardinality(Paise(ActiveAdjustments(i), adjustments))
Due(i) == invoices[i].total - Received(i) - Adjusted(i)

-----------------------------------------------------------------------------
(* Guards.  The operators named Bug... are plausible slips: each is a mutated   *)
(* form of the definition after it, which no specification uses.              *)

RequireIssued(i) == invoices[i].status = "ISSUED"

BugCheckReceiptsOnly(i, amount) == amount <= invoices[i].total - Received(i)
CheckSettlement(i, amount) == amount <= Due(i)

BugVersionIgnored(u, i) == seen[u][i] # NoRow
VersionMatches(u, i) ==
  /\ seen[u][i] # NoRow
  /\ seen[u][i].version = invoices[i].version

Editable(i) == invoices[i].status = "DRAFT"

\* issue() recomputes the taxes and compares them with the stored lines.
TaxesReviewed(i) == invoices[i].rate = rate

BugKeyFreeAfterReversal(k) ==
  \A r \in Receipts : receipts[r].status \in {"PENDING", "CONFIRMED"} => receipts[r].key # k
ReceiptKeyFree(k) == \A r \in Receipts : receipts[r] # NoRow => receipts[r].key # k
AdjustmentKeyFree(k) ==
  \A x \in Adjustments : adjustments[x] # NoRow => adjustments[x].key # k

BugUnsettledByReceipts(i) ==
  \A r \in Receipts : receipts[r].status \in {"PENDING", "CONFIRMED"} => receipts[r].invoice # i
BugUnsettledByConfirmed(i) == Confirmed(i) = {} /\ ActiveAdjustments(i) = {}
Unsettled(i) ==
  /\ \A r \in Receipts : receipts[r].status \in {"PENDING", "CONFIRMED"} => receipts[r].invoice # i
  /\ ActiveAdjustments(i) = {}

\* The unique index invoice_number_unique.
NumberFree(c, d, n) ==
  \A j \in Invoices :
    (invoices[j] # NoRow /\ invoices[j].company = c
       /\ FinancialYear(invoices[j].date) = FinancialYear(d)) => invoices[j].number # n

SourceFree(s) == \A j \in Invoices : invoices[j] # NoRow => invoices[j].source # s

NextNumber(s) == counters[s] + 1
BugNumberNotStored(s) == counters[s] < MaxNumber /\ UNCHANGED counters
TakeNumber(s) ==
  /\ counters[s] < MaxNumber
  /\ counters' = [counters EXCEPT ![s] = NextNumber(s)]

-----------------------------------------------------------------------------
(* Invoices *)

Draft(u, v, c, d, a) ==
  [status |-> "DRAFT", version |-> v, company |-> c, date |-> d, amount |-> a,
   rate |-> rate, total |-> GrandTotal(a, rate), number |-> 0, source |-> Null, by |-> u]

\* A user opens an invoice (GET).
Load(u, i) ==
  /\ invoices[i] # NoRow
  /\ seen' = [seen EXCEPT ![u][i] = invoices[i]]
  /\ UNCHANGED billing

CreateDraft(u, i, c, d, a) ==
  /\ invoices[i] = NoRow
  /\ GrandTotal(a, rate) <= MaxMinor
  /\ invoices' = [invoices EXCEPT ![i] = Draft(u, 1, c, d, a)]
  /\ UNCHANGED <<receipts, adjustments, counters, outbox, rate, seen>>

UpdateDraft(u, i, c, d, a) ==
  /\ Editable(i)
  /\ VersionMatches(u, i)
  /\ invoices[i].version < MaxVersion
  /\ GrandTotal(a, rate) <= MaxMinor
  /\ invoices' = [invoices EXCEPT ![i] = Draft(u, invoices[i].version + 1, c, d, a)]
  /\ UNCHANGED <<receipts, adjustments, counters, outbox, rate, seen>>

Issue(u, i) ==
  /\ Editable(i)
  /\ VersionMatches(u, i)
  /\ TaxesReviewed(i)
  /\ LET s == SeriesOf(invoices[i].company, invoices[i].date, "I") IN
       /\ TakeNumber(s)
       /\ NumberFree(invoices[i].company, invoices[i].date, NextNumber(s))
       /\ invoices' = [invoices EXCEPT ![i] =
            [invoices[i] EXCEPT !.status = "ISSUED", !.number = NextNumber(s), !.rate = rate,
               !.total = GrandTotal(invoices[i].amount, rate),
               !.version = invoices[i].version + 1, !.by = u]]
  /\ Emit(<<"issued", i>>)
  /\ UNCHANGED <<receipts, adjustments, rate, seen>>

Cancel(u, i) ==
  /\ invoices[i].status = "ISSUED"
  /\ Unsettled(i)
  /\ invoices' = [invoices EXCEPT ![i] =
       [invoices[i] EXCEPT !.status = "CANCELLED", !.version = invoices[i].version + 1,
                           !.by = u]]
  /\ Emit(<<"cancelled", i>>)
  /\ UNCHANGED <<receipts, adjustments, counters, rate, seen>>

BugCounterOverwritten(s, n) == n
\* A number of the new format moves the counter past it, never back.
RaiseCounter(s, n) == IF n > counters[s] THEN n ELSE counters[s]

\* importLegacyInvoice: an operator's script, no event, totals taken as they are.
ImportInvoice(u, i, c, d, a, n, src) ==
  /\ invoices[i] = NoRow
  /\ SourceFree(src)
  /\ NumberFree(c, d, n)
  /\ n <= MaxNumber
  /\ invoices' = [invoices EXCEPT ![i] =
       [status |-> "ISSUED", version |-> 1, company |-> c, date |-> d, amount |-> a,
        rate |-> 0, total |-> a, number |-> n, source |-> src, by |-> u]]
  /\ LET s == SeriesOf(c, d, "I") IN
       counters' = IF n > 0 THEN [counters EXCEPT ![s] = RaiseCounter(s, n)] ELSE counters
  /\ UNCHANGED <<receipts, adjustments, outbox, rate, seen>>

\* An administrator changes the tax rules (masters.repository.ts).
ChangeTaxRule(new) ==
  /\ rate' = new
  /\ UNCHANGED <<invoices, receipts, adjustments, counters, outbox, seen>>

-----------------------------------------------------------------------------
(* Settlements.  A request whose key is known returns the stored row, or is  *)
(* refused when its content differs: either way nothing changes.             *)

CreateReceipt(r, i, d, a, method, status, k) ==
  /\ receipts[r] = NoRow
  /\ method = "GATEWAY" => status = "CONFIRMED"
  /\ ReceiptKeyFree(k)
  /\ RequireIssued(i)
  /\ status = "CONFIRMED" => CheckSettlement(i, a)
  /\ LET s == SeriesOf(invoices[i].company, d, "R") IN
       /\ TakeNumber(s)
       /\ receipts' = [receipts EXCEPT ![r] =
            [status |-> status, invoice |-> i, company |-> invoices[i].company, date |-> d,
             amount |-> a, method |-> method, key |-> k, number |-> NextNumber(s)]]
  /\ Emit(<<IF status = "PENDING" THEN "created PENDING" ELSE "created CONFIRMED", r>>)
  /\ UNCHANGED <<invoices, adjustments, rate, seen>>

ConfirmReceipt(r) ==
  /\ receipts[r].status = "PENDING"
  /\ RequireIssued(receipts[r].invoice)
  /\ CheckSettlement(receipts[r].invoice, receipts[r].amount)
  /\ receipts' = [receipts EXCEPT ![r] = [receipts[r] EXCEPT !.status = "CONFIRMED"]]
  /\ Emit(<<"confirmed", r>>)
  /\ UNCHANGED <<invoices, adjustments, counters, rate, seen>>

BugReversibleAgain(r) == receipts[r] # NoRow
Reversible(r) == receipts[r].status \in {"PENDING", "CONFIRMED"}

ReverseReceipt(r) ==
  /\ Reversible(r)
  /\ receipts[r].method # "GATEWAY"
  /\ receipts' = [receipts EXCEPT ![r] = [receipts[r] EXCEPT !.status = "REVERSED"]]
  /\ Emit(<<"reversed", r>>)
  /\ UNCHANGED <<invoices, adjustments, counters, rate, seen>>

CreateAdjustment(x, i, d, a, k) ==
  /\ adjustments[x] = NoRow
  /\ AdjustmentKeyFree(k)
  /\ RequireIssued(i)
  /\ d >= invoices[i].date
  /\ CheckSettlement(i, a)
  /\ adjustments' = [adjustments EXCEPT ![x] =
       [status |-> "ACTIVE", invoice |-> i, amount |-> a, key |-> k]]
  /\ UNCHANGED <<invoices, receipts, counters, outbox, rate, seen>>

ReverseAdjustment(x) ==
  /\ adjustments[x].status = "ACTIVE"
  /\ adjustments' = [adjustments EXCEPT ![x] = [adjustments[x] EXCEPT !.status = "REVERSED"]]
  /\ UNCHANGED <<invoices, receipts, counters, outbox, rate, seen>>

-----------------------------------------------------------------------------
Init ==
  /\ invoices = [i \in Invoices |-> NoRow]
  /\ receipts = [r \in Receipts |-> NoRow]
  /\ adjustments = [x \in Adjustments |-> NoRow]
  /\ counters = [s \in Series |-> 0]
  /\ outbox = [e \in InvoiceEvents \cup ReceiptEvents |-> 0]
  /\ rate \in Rates
  /\ seen = [u \in Users |-> [i \in Invoices |-> NoRow]]

InvoiceStep(u, i) ==
  \/ Load(u, i)
  \/ \E c \in Companies, d \in Dates, a \in Prices : CreateDraft(u, i, c, d, a)
  \/ \E c \in Companies, d \in Dates, a \in Prices : UpdateDraft(u, i, c, d, a)
  \/ Issue(u, i)
  \/ Cancel(u, i)
  \/ \E c \in Companies, d \in Dates, a \in Prices, n \in LegacyNumbers, src \in Sources :
       ImportInvoice(u, i, c, d, a, n, src)

ReceiptStep(r) ==
  \/ \E i \in Invoices, d \in Dates, a \in Amounts, method \in {"MANUAL", "GATEWAY"},
       status \in {"PENDING", "CONFIRMED"}, k \in Keys :
       CreateReceipt(r, i, d, a, method, status, k)
  \/ ConfirmReceipt(r)
  \/ ReverseReceipt(r)

AdjustmentStep(x) ==
  \/ \E i \in Invoices, d \in Dates, a \in Amounts, k \in Keys : CreateAdjustment(x, i, d, a, k)
  \/ ReverseAdjustment(x)

Next ==
  \/ \E u \in Users, i \in Invoices : InvoiceStep(u, i)
  \/ \E r \in Receipts : ReceiptStep(r)
  \/ \E x \in Adjustments : AdjustmentStep(x)
  \/ \E new \in Rates : ChangeTaxRule(new)

Spec == Init /\ [][Next]_vars

-----------------------------------------------------------------------------
(* Properties *)

\* The rows have the columns of billing.schema.ts; counters and event counts are natural.
TypeOK ==
  /\ invoices \in [Invoices -> InvoiceRow \cup {NoRow}]
  /\ receipts \in [Receipts -> ReceiptRow \cup {NoRow}]
  /\ adjustments \in [Adjustments -> AdjustmentRow \cup {NoRow}]
  /\ counters \in [Series -> Nat]
  /\ outbox \in [InvoiceEvents \cup ReceiptEvents -> Nat]
  /\ rate \in Rates
  /\ seen \in [Users -> [Invoices -> InvoiceRow \cup {NoRow}]]

\* Confirmed receipts and active adjustments together never exceed the total of an
\* issued invoice, so outstanding() never throws when a balance is read.
NoOverpayment ==
  \A i \in Invoices : invoices[i].status = "ISSUED" => Due(i) >= 0

\* Money that is recorded or on its way belongs to an issued invoice: cancel() never
\* leaves a pending or confirmed receipt or an active adjustment behind, whatever was
\* reversed and recorded before.
SettlementsHaveIssuedInvoice ==
  /\ \A r \in Receipts : receipts[r].status \in {"PENDING", "CONFIRMED"} =>
       invoices[receipts[r].invoice].status = "ISSUED"
  /\ \A x \in Adjustments : adjustments[x].status = "ACTIVE" =>
       invoices[adjustments[x].invoice].status = "ISSUED"

\* However often a request is repeated, its idempotency key names one row.
OneRowPerKey ==
  /\ \A r, q \in Receipts :
       (receipts[r] # NoRow /\ receipts[q] # NoRow /\ receipts[r].key = receipts[q].key) => r = q
  /\ \A x, y \in Adjustments :
       (adjustments[x] # NoRow /\ adjustments[y] # NoRow
          /\ adjustments[x].key = adjustments[y].key) => x = y

\* A consumer that replays the outbox rebuilds the status of every receipt and invoice, and
\* no event is written twice.  Imported invoices write no issued event.
ReplayedReceipt(r) ==
  IF outbox[<<"reversed", r>>] = 1 THEN "REVERSED"
  ELSE IF outbox[<<"confirmed", r>>] + outbox[<<"created CONFIRMED", r>>] = 1 THEN "CONFIRMED"
  ELSE IF outbox[<<"created PENDING", r>>] = 1 THEN "PENDING"
  ELSE "NONE"
OutboxTellsTheLedger ==
  /\ \A e \in DOMAIN outbox : outbox[e] <= 1
  /\ \A r \in Receipts : ReplayedReceipt(r) = receipts[r].status
  /\ \A i \in Invoices :
       /\ outbox[<<"cancelled", i>>] = 1 <=> invoices[i].status = "CANCELLED"
       /\ outbox[<<"issued", i>>] = 1 <=>
            (invoices[i].status \in {"ISSUED", "CANCELLED"} /\ invoices[i].source = Null)

\* The receipt numbers of a company and financial year are exactly 1 .. n, each used once,
\* whatever was reversed: no number is skipped and none is reused.
ReceiptsIn(s) ==
  {r \in Receipts : receipts[r] # NoRow
                      /\ SeriesOf(receipts[r].company, receipts[r].date, "R") = s}
ReceiptSeriesGapless ==
  \A s \in Series : s[3] = "R" =>
    /\ {receipts[r].number : r \in ReceiptsIn(s)} = 1 .. counters[s]
    /\ \A r, q \in ReceiptsIn(s) : receipts[r].number = receipts[q].number => r = q

\* No two invoices of a series share a number, and every number of the new format is behind
\* the counter, imported ones included: an issue never runs into the unique index.
InvoiceSeriesAhead ==
  \A i \in Invoices : invoices[i] # NoRow =>
    /\ invoices[i].number <= counters[SeriesOf(invoices[i].company, invoices[i].date, "I")]
    /\ \A j \in Invoices \ {i} :
         (/\ invoices[j] # NoRow
          /\ invoices[i].number # 0
          /\ SeriesOf(invoices[i].company, invoices[i].date, "I")
               = SeriesOf(invoices[j].company, invoices[j].date, "I"))
         => invoices[i].number # invoices[j].number

\* Whoever edits or issues a draft has loaded exactly the row it replaces: no edit of another
\* user is lost, and nobody issues a draft that changed since they read it.
ActsOnWhatWasRead ==
  [][\A i \in Invoices : (invoices[i].status = "DRAFT" /\ invoices'[i] # invoices[i]) =>
       seen[invoices'[i].by][i] = invoices[i]]_vars

\* To whoever asks what an invoice is worth, the ledger is a Receivable: drafts and their edits
\* cannot be seen, an issue or an import opens the claim, each receipt, adjustment and reversal
\* settles within it, a cancellation closes it.
AccountState ==
  [i \in Invoices |-> CASE invoices[i].status = "ISSUED" -> "OPEN"
                       [] invoices[i].status = "CANCELLED" -> "CLOSED"
                       [] OTHER -> "PREPARED"]
AccountClaim ==
  [i \in Invoices |->
     IF invoices[i].status \in {"ISSUED", "CANCELLED"} THEN invoices[i].total ELSE 0]
AccountSettled == [i \in Invoices |-> Received(i) + Adjusted(i)]

Account == INSTANCE Receivable WITH
  Bills <- Invoices, state <- AccountState, claim <- AccountClaim, settled <- AccountSettled
LedgerIsReceivable == Account!Spec
=============================================================================
