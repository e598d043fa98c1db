---------------------------- MODULE LedgerProofs ----------------------------
(***************************************************************************)
(* Theorems about Ledger, for every number of invoices, receipts, users,   *)
(* keys, dates, prices and rates; and lemmas about sums of columns, for    *)
(* the proofs of what reports add up.                                      *)
(***************************************************************************)
EXTENDS Ledger, Sums, FiniteSetTheorems, FunctionTheorems, TLAPS

USE LedgerAssumption

-----------------------------------------------------------------------------
(* Lemmas about the helpers. *)

\* A total is a natural number: the tax of an amount is not negative.
LEMMA TotalIsNatural ==
  ASSUME NEW a \in Nat, NEW r \in Rates
  PROVE  /\ r \in Nat
         /\ GrandTotal(a, r) \in Nat
<1>1. r \in Nat
  OBVIOUS
<1>2. a * r \in Nat /\ Hundred \div 2 \in Nat
  BY <1>1
<1>3. (a * r + (Hundred \div 2)) \div Hundred \in Nat
  BY <1>2
<1> QED
  BY <1>1, <1>3 DEF GrandTotal, TaxAmount

\* The series of a dated document is one of the series that are counted.
LEMMA SeriesExists ==
  ASSUME NEW c \in Companies, NEW d \in Dates, NEW kind \in {"I", "R"}
  PROVE  SeriesOf(c, d, kind) \in Series
  BY DEF SeriesOf, Series, FinancialYears

\* A row that is not NoRow is a row of its table.
LEMMA RowExists ==
  ASSUME TypeOK
  PROVE  /\ \A i \in Invoices : invoices[i] # NoRow => invoices[i] \in InvoiceRow
         /\ \A i \in Invoices : invoices[i].status # "NONE" => invoices[i] \in InvoiceRow
         /\ \A r \in Receipts : receipts[r].status # "NONE" => receipts[r] \in ReceiptRow
         /\ \A r \in Receipts : receipts[r] # NoRow => receipts[r] \in ReceiptRow
         /\ \A x \in Adjustments : adjustments[x].status # "NONE" =>
              adjustments[x] \in AdjustmentRow
         /\ \A x \in Adjustments : adjustments[x] # NoRow =>
              adjustments[x] \in AdjustmentRow
  BY DEF TypeOK, NoRow

\* Writing an event keeps the counts natural.
LEMMA EmitIsTyped ==
  ASSUME TypeOK, NEW e \in InvoiceEvents \cup ReceiptEvents, Emit(e)
  PROVE  outbox' \in [InvoiceEvents \cup ReceiptEvents -> Nat]
  BY DEF TypeOK, Emit

\* Taking a number keeps the counters natural.
LEMMA TakeNumberIsTyped ==
  ASSUME TypeOK, NEW s \in Series, TakeNumber(s)
  PROVE  /\ counters' \in [Series -> Nat]
         /\ NextNumber(s) \in Nat
  BY DEF TypeOK, TakeNumber, NextNumber

-----------------------------------------------------------------------------
(* Type correctness *)

LEMMA DraftIsARow ==
  ASSUME NEW u \in Users, NEW v \in Nat, NEW c \in Companies, NEW d \in Dates,
         NEW a \in Prices, rate \in Rates
  PROVE  Draft(u, v, c, d, a) \in InvoiceRow
<1>1. a \in Nat
  OBVIOUS
<1>2. rate \in Nat /\ GrandTotal(a, rate) \in Nat
  BY <1>1, TotalIsNatural
<1> QED
  BY <1>1, <1>2 DEF Draft, InvoiceRow

\* The two ways a row of an invoice is updated in place.
LEMMA ClosedIsARow ==
  ASSUME NEW row \in InvoiceRow, NEW u \in Users
  PROVE  [row EXCEPT !.status = "CANCELLED", !.version = row.version + 1, !.by = u]
           \in InvoiceRow
<1> DEFINE a == [row EXCEPT !.status = "CANCELLED"]
           b == [a EXCEPT !.version = row.version + 1]
           c == [b EXCEPT !.by = u]
<1>1. row.version + 1 \in Nat
  BY DEF InvoiceRow
<1>2. a \in InvoiceRow
  BY DEF InvoiceRow
<1>3. b \in InvoiceRow
  BY <1>1, <1>2 DEF InvoiceRow
<1>4. c \in InvoiceRow
  BY <1>3 DEF InvoiceRow
<1> QED
  BY <1>4

LEMMA PublishedIsARow ==
  ASSUME NEW row \in InvoiceRow, NEW u \in Users, NEW n \in Nat, NEW r \in Nat, NEW t \in Nat
  PROVE  [row EXCEPT !.status = "ISSUED", !.number = n, !.rate = r, !.total = t,
                     !.version = row.version + 1, !.by = u] \in InvoiceRow
<1> DEFINE a == [row EXCEPT !.status = "ISSUED"]
           b == [a EXCEPT !.number = n]
           c == [b EXCEPT !.rate = r]
           d == [c EXCEPT !.total = t]
           e == [d EXCEPT !.version = row.version + 1]
           f == [e EXCEPT !.by = u]
<1>1. row.version + 1 \in Nat /\ n \in Int
  BY DEF InvoiceRow
<1>2. a \in InvoiceRow
  BY DEF InvoiceRow
<1>3. b \in InvoiceRow
  BY <1>1, <1>2 DEF InvoiceRow
<1>4. c \in InvoiceRow
  BY <1>3 DEF InvoiceRow
<1>5. d \in InvoiceRow
  BY <1>4 DEF InvoiceRow
<1>6. e \in InvoiceRow
  BY <1>1, <1>5 DEF InvoiceRow
<1>7. f \in InvoiceRow
  BY <1>6 DEF InvoiceRow
<1> QED
  BY <1>7

LEMMA InitTyped == Init => TypeOK
  BY DEF Init, TypeOK

LEMMA InvoiceStepTyped ==
  ASSUME TypeOK, NEW u \in Users, NEW i \in Invoices, InvoiceStep(u, i)
  PROVE  TypeOK'
<1>1. CASE Load(u, i)
  BY <1>1 DEF Load, TypeOK, billing
<1>2. ASSUME NEW c \in Companies, NEW d \in Dates, NEW a \in Prices, CreateDraft(u, i, c, d, a)
      PROVE  TypeOK'
  <2>1. Draft(u, 1, c, d, a) \in InvoiceRow
    BY DraftIsARow DEF TypeOK
  <2> QED
    BY <1>2, <2>1 DEF CreateDraft, TypeOK
<1>3. ASSUME NEW c \in Companies, NEW d \in Dates, NEW a \in Prices, UpdateDraft(u, i, c, d, a)
      PROVE  TypeOK'
  <2>1. invoices[i] \in InvoiceRow
    BY <1>3, RowExists DEF UpdateDraft, Editable
  <2>2. invoices[i].version + 1 \in Nat
    BY <2>1 DEF InvoiceRow
  <2>3. Draft(u, invoices[i].version + 1, c, d, a) \in InvoiceRow
    BY <2>2, DraftIsARow DEF TypeOK
  <2> QED
    BY <1>3, <2>3 DEF UpdateDraft, TypeOK
<1>4. CASE Issue(u, i)
  <2> DEFINE s == SeriesOf(invoices[i].company, invoices[i].date, "I")
  <2>1. invoices[i] \in InvoiceRow
    BY <1>4, RowExists DEF Issue, Editable
  <2>2. s \in Series
    BY <2>1, SeriesExists DEF InvoiceRow
  <2>3. TakeNumber(s) /\ Emit(<<"issued", i>>)
    BY <1>4 DEF Issue
  <2>4. rate \in Nat /\ GrandTotal(invoices[i].amount, rate) \in Nat
    BY <2>1, TotalIsNatural DEF InvoiceRow, TypeOK
  <2>5. NextNumber(s) \in Nat /\ counters' \in [Series -> Nat]
    BY <2>2, <2>3, TakeNumberIsTyped
  <2>6. outbox' \in [InvoiceEvents \cup ReceiptEvents -> Nat]
    BY <2>3, EmitIsTyped DEF InvoiceEvents
  <2>7. [invoices[i] EXCEPT !.status = "ISSUED", !.number = NextNumber(s), !.rate = rate,
                            !.total = GrandTotal(invoices[i].amount, rate),
                            !.version = invoices[i].version + 1, !.by = u] \in InvoiceRow
    BY <2>1, <2>4, <2>5, PublishedIsARow
  <2>8. invoices' \in [Invoices -> InvoiceRow \cup {NoRow}]
    BY <1>4, <2>7 DEF Issue, TypeOK
  <2> QED
    BY <1>4, <2>5, <2>6, <2>8 DEF Issue, TypeOK
<1>5. CASE Cancel(u, i)
  <2>1. invoices[i] \in InvoiceRow
    BY <1>5, RowExists DEF Cancel
  <2>2. [invoices[i] EXCEPT !.status = "CANCELLED", !.version = invoices[i].version + 1, !.by = u] \in InvoiceRow
    BY <2>1, ClosedIsARow
  <2>3. outbox' \in [InvoiceEvents \cup ReceiptEvents -> Nat]
    BY <1>5, EmitIsTyped DEF Cancel, InvoiceEvents
  <2> QED
    BY <1>5, <2>2, <2>3 DEF Cancel, TypeOK
<1>6. ASSUME NEW c \in Companies, NEW d \in Dates, NEW a \in Prices, NEW n \in LegacyNumbers,
             NEW src \in Sources, ImportInvoice(u, i, c, d, a, n, src)
      PROVE  TypeOK'
  <2> DEFINE s == SeriesOf(c, d, "I")
  <2>1. s \in Series
    BY SeriesExists
  <2>2. [status |-> "ISSUED", version |-> 1, company |-> c, date |-> d, amount |-> a,
         rate |-> 0, total |-> a, number |-> n, source |-> src, by |-> u] \in InvoiceRow
    BY DEF InvoiceRow
  <2>3. counters' \in [Series -> Nat]
    BY <1>6, <2>1 DEF ImportInvoice, RaiseCounter, TypeOK
  <2> QED
    BY <1>6, <2>2, <2>3 DEF ImportInvoice, TypeOK
<1> QED
  BY <1>1, <1>2, <1>3, <1>4, <1>5, <1>6 DEF InvoiceStep

LEMMA CreateReceiptTyped ==
  ASSUME TypeOK, NEW r \in Receipts, NEW i \in Invoices, NEW d \in Dates,
         NEW a \in 1 .. MaxMinor, NEW method \in {"MANUAL", "GATEWAY"},
         NEW status \in {"PENDING", "CONFIRMED"}, NEW k \in Keys,
         CreateReceipt(r, i, d, a, method, status, k)
  PROVE  TypeOK'
<1> DEFINE s == SeriesOf(invoices[i].company, d, "R")
           row == [status |-> status, invoice |-> i, company |-> invoices[i].company,
                   date |-> d, amount |-> a, method |-> method, key |-> k,
                   number |-> NextNumber(s)]
<1>1. invoices[i].company \in Companies
  BY RowExists DEF CreateReceipt, RequireIssued, InvoiceRow
<1>2. s \in Series
  BY <1>1, SeriesExists
<1>3. TakeNumber(s) /\ receipts' = [receipts EXCEPT ![r] = row]
  BY DEF CreateReceipt
<1>4. NextNumber(s) \in Nat /\ counters' \in [Series -> Nat]
  BY <1>2, <1>3, TakeNumberIsTyped
<1>5. row \in ReceiptRow
  BY <1>1, <1>4 DEF ReceiptRow
<1>6. receipts' \in [Receipts -> ReceiptRow \cup {NoRow}]
  BY <1>3, <1>5 DEF TypeOK
<1>7. outbox' \in [InvoiceEvents \cup ReceiptEvents -> Nat]
  BY EmitIsTyped DEF CreateReceipt, ReceiptEvents
<1> QED
  BY <1>4, <1>6, <1>7 DEF CreateReceipt, TypeOK

LEMMA ReceiptStepTyped ==
  ASSUME TypeOK, NEW r \in Receipts, ReceiptStep(r)
  PROVE  TypeOK'
<1>1. ASSUME NEW i \in Invoices, NEW d \in Dates, NEW a \in Amounts,
             NEW method \in {"MANUAL", "GATEWAY"}, NEW status \in {"PENDING", "CONFIRMED"},
             NEW k \in Keys, CreateReceipt(r, i, d, a, method, status, k)
      PROVE  TypeOK'
  <2>1. a \in 1 .. MaxMinor
    BY LedgerAssumption
  <2> QED
    BY <1>1, <2>1, CreateReceiptTyped
<1>2. CASE ConfirmReceipt(r)
  <2>1. receipts[r] \in ReceiptRow
    BY <1>2, RowExists DEF ConfirmReceipt
  <2>2. [receipts[r] EXCEPT !.status = "CONFIRMED"] \in ReceiptRow
    BY <2>1 DEF ReceiptRow
  <2>3. outbox' \in [InvoiceEvents \cup ReceiptEvents -> Nat]
    BY <1>2, EmitIsTyped DEF ConfirmReceipt, ReceiptEvents
  <2> QED
    BY <1>2, <2>2, <2>3 DEF ConfirmReceipt, TypeOK
<1>3. CASE ReverseReceipt(r)
  <2>1. receipts[r] \in ReceiptRow
    BY <1>3, RowExists DEF ReverseReceipt, Reversible
  <2>2. [receipts[r] EXCEPT !.status = "REVERSED"] \in ReceiptRow
    BY <2>1 DEF ReceiptRow
  <2>3. outbox' \in [InvoiceEvents \cup ReceiptEvents -> Nat]
    BY <1>3, EmitIsTyped DEF ReverseReceipt, ReceiptEvents
  <2> QED
    BY <1>3, <2>2, <2>3 DEF ReverseReceipt, TypeOK
<1> QED
  BY <1>1, <1>2, <1>3 DEF ReceiptStep

LEMMA AdjustmentStepTyped ==
  ASSUME TypeOK, NEW x \in Adjustments, AdjustmentStep(x)
  PROVE  TypeOK'
<1>1. ASSUME NEW i \in Invoices, NEW d \in Dates, NEW a \in Amounts, NEW k \in Keys,
             CreateAdjustment(x, i, d, a, k)
      PROVE  TypeOK'
  <2>1. [status |-> "ACTIVE", invoice |-> i, amount |-> a, key |-> k] \in AdjustmentRow
    BY DEF AdjustmentRow
  <2> QED
    BY <1>1, <2>1 DEF CreateAdjustment, TypeOK
<1>2. CASE ReverseAdjustment(x)
  <2>1. adjustments[x] \in AdjustmentRow
    BY <1>2, RowExists DEF ReverseAdjustment
  <2>2. [adjustments[x] EXCEPT !.status = "REVERSED"] \in AdjustmentRow
    BY <2>1 DEF AdjustmentRow
  <2> QED
    BY <1>2, <2>2 DEF ReverseAdjustment, TypeOK
<1> QED
  BY <1>1, <1>2 DEF AdjustmentStep

LEMMA StepTyped == TypeOK /\ [Next]_vars => TypeOK'
<1> SUFFICES ASSUME TypeOK, [Next]_vars PROVE TypeOK'
  OBVIOUS
<1>1. CASE \E u \in Users, i \in Invoices : InvoiceStep(u, i)
  BY <1>1, InvoiceStepTyped
<1>2. CASE \E r \in Receipts : ReceiptStep(r)
  BY <1>2, ReceiptStepTyped
<1>3. CASE \E x \in Adjustments : AdjustmentStep(x)
  BY <1>3, AdjustmentStepTyped
<1>4. CASE \E new \in Rates : ChangeTaxRule(new)
  BY <1>4 DEF ChangeTaxRule, TypeOK
<1>5. CASE UNCHANGED vars
  BY <1>5 DEF vars, billing, TypeOK
<1> QED
  BY <1>1, <1>2, <1>3, <1>4, <1>5 DEF Next

\* Every row the handlers write has the columns and the ranges of its table.
THEOREM LedgerTyped == Spec => []TypeOK
<1>1. Init => TypeOK
  BY InitTyped
<1>2. TypeOK /\ [Next]_vars => TypeOK'
  BY StepTyped
<1> QED
  BY <1>1, <1>2, PTL DEF Spec

-----------------------------------------------------------------------------
(* One row per idempotency key *)

\* A step that keeps the keys of the rows that exist, and adds no row, keeps their uniqueness.
LEMMA KeysKept ==
  ASSUME OneRowPerKey,
         \A r \in Receipts : /\ receipts'[r] # NoRow => receipts[r] # NoRow
                             /\ receipts'[r] # NoRow => receipts'[r].key = receipts[r].key,
         \A x \in Adjustments :
           /\ adjustments'[x] # NoRow => adjustments[x] # NoRow
           /\ adjustments'[x] # NoRow => adjustments'[x].key = adjustments[x].key
  PROVE  OneRowPerKey'
  BY DEF OneRowPerKey

LEMMA KeysStep == TypeOK /\ OneRowPerKey /\ [Next]_vars => OneRowPerKey'
<1> SUFFICES ASSUME TypeOK, OneRowPerKey, [Next]_vars PROVE OneRowPerKey'
  OBVIOUS
<1>1. ASSUME NEW u \in Users, NEW i \in Invoices, InvoiceStep(u, i)
      PROVE  UNCHANGED <<receipts, adjustments>>
  BY <1>1 DEF InvoiceStep, Load, CreateDraft, UpdateDraft, Issue, Cancel, ImportInvoice, billing
<1>2. ASSUME UNCHANGED <<receipts, adjustments>>
      PROVE  OneRowPerKey'
  BY <1>2, KeysKept
<1>3. ASSUME NEW r \in Receipts, NEW i \in Invoices, NEW d \in Dates, NEW a \in Amounts,
             NEW method \in {"MANUAL", "GATEWAY"}, NEW status \in {"PENDING", "CONFIRMED"},
             NEW k \in Keys, CreateReceipt(r, i, d, a, method, status, k)
      PROVE  OneRowPerKey'
  <2>1. /\ receipts'[r].key = k
        /\ \A q \in Receipts \ {r} : receipts'[q] = receipts[q]
        /\ UNCHANGED adjustments
    BY <1>3 DEF CreateReceipt, TypeOK
  <2>2. \A q \in Receipts \ {r} : receipts[q] # NoRow => receipts[q].key # k
    BY <1>3 DEF CreateReceipt, ReceiptKeyFree
  <2> QED
    BY <2>1, <2>2 DEF OneRowPerKey
<1>4. ASSUME NEW r \in Receipts, ConfirmReceipt(r) \/ ReverseReceipt(r)
      PROVE  OneRowPerKey'
  <2>1. receipts[r] # NoRow
    BY <1>4 DEF ConfirmReceipt, ReverseReceipt, Reversible, NoRow
  <2>2. /\ receipts'[r].key = receipts[r].key
        /\ \A q \in Receipts \ {r} : receipts'[q] = receipts[q]
        /\ UNCHANGED adjustments
    BY <1>4, <2>1, RowExists DEF ConfirmReceipt, ReverseReceipt, TypeOK, ReceiptRow
  <2> QED
    BY <2>1, <2>2, KeysKept
<1>5. ASSUME NEW x \in Adjustments, NEW i \in Invoices, NEW d \in Dates, NEW a \in Amounts,
             NEW k \in Keys, CreateAdjustment(x, i, d, a, k)
      PROVE  OneRowPerKey'
  <2>1. /\ adjustments'[x].key = k
        /\ \A y \in Adjustments \ {x} : adjustments'[y] = adjustments[y]
        /\ UNCHANGED receipts
    BY <1>5 DEF CreateAdjustment, TypeOK
  <2>2. \A y \in Adjustments \ {x} : adjustments[y] # NoRow => adjustments[y].key # k
    BY <1>5 DEF CreateAdjustment, AdjustmentKeyFree
  <2> QED
    BY <2>1, <2>2 DEF OneRowPerKey
<1>6. ASSUME NEW x \in Adjustments, ReverseAdjustment(x)
      PROVE  OneRowPerKey'
  <2>1. adjustments[x] # NoRow
    BY <1>6 DEF ReverseAdjustment, NoRow
  <2>2. /\ adjustments'[x].key = adjustments[x].key
        /\ \A y \in Adjustments \ {x} : adjustments'[y] = adjustments[y]
        /\ UNCHANGED receipts
    BY <1>6, <2>1, RowExists DEF ReverseAdjustment, TypeOK, AdjustmentRow
  <2> QED
    BY <2>1, <2>2, KeysKept
<1>7. CASE UNCHANGED vars \/ \E new \in Rates : ChangeTaxRule(new)
  BY <1>2, <1>7 DEF vars, billing, ChangeTaxRule
<1> QED
  BY <1>1, <1>2, <1>3, <1>4, <1>5, <1>6, <1>7 DEF Next, ReceiptStep, AdjustmentStep

\* However often a request is repeated, and whatever is reversed in between, its key names
\* one receipt or one adjustment.
THEOREM LedgerOneRowPerKey == Spec => []OneRowPerKey
<1>1. Init => OneRowPerKey
  BY DEF Init, OneRowPerKey
<1>2. TypeOK /\ OneRowPerKey /\ [Next]_vars => OneRowPerKey'
  BY KeysStep
<1> QED
  BY <1>1, <1>2, LedgerTyped, PTL DEF Spec

-----------------------------------------------------------------------------
(* Settlements belong to issued invoices *)

\* A step in which every settlement that is open after it was open before it, for the same
\* invoice, and no invoice stops being issued.
LEMMA SettlementsKept ==
  ASSUME SettlementsHaveIssuedInvoice,
         \A i \in Invoices : invoices[i].status = "ISSUED" => invoices'[i].status = "ISSUED",
         \A r \in Receipts : receipts'[r].status \in {"PENDING", "CONFIRMED"} =>
            /\ receipts[r].status \in {"PENDING", "CONFIRMED"}
            /\ receipts'[r].invoice = receipts[r].invoice
            /\ receipts[r].invoice \in Invoices,
         \A x \in Adjustments : adjustments'[x].status = "ACTIVE" =>
            /\ adjustments[x].status = "ACTIVE"
            /\ adjustments'[x].invoice = adjustments[x].invoice
            /\ adjustments[x].invoice \in Invoices
  PROVE  SettlementsHaveIssuedInvoice'
  BY DEF SettlementsHaveIssuedInvoice

LEMMA SettledInvoiceIsAnInvoice ==
  ASSUME TypeOK
  PROVE  /\ \A r \in Receipts : receipts[r].status \in {"PENDING", "CONFIRMED"} =>
              receipts[r].invoice \in Invoices
         /\ \A x \in Adjustments : adjustments[x].status = "ACTIVE" =>
              adjustments[x].invoice \in Invoices
  BY RowExists DEF ReceiptRow, AdjustmentRow

LEMMA SettlementsInvoiceStep ==
  ASSUME TypeOK, SettlementsHaveIssuedInvoice, NEW u \in Users, NEW i \in Invoices,
         InvoiceStep(u, i)
  PROVE  SettlementsHaveIssuedInvoice'
<1>1. UNCHANGED <<receipts, adjustments>>
  BY DEF InvoiceStep, Load, CreateDraft, UpdateDraft, Issue, Cancel, ImportInvoice, billing
<1>2. CASE invoices[i].status = "ISSUED" => invoices'[i].status = "ISSUED"
  <2>1. \A j \in Invoices \ {i} : invoices'[j] = invoices[j]
    BY DEF InvoiceStep, Load, CreateDraft, UpdateDraft, Issue, Cancel, ImportInvoice, billing,
           TypeOK
  <2> QED
    BY <1>1, <1>2, <2>1, SettledInvoiceIsAnInvoice, SettlementsKept
<1>3. CASE Cancel(u, i)
  <2>1. /\ \A r \in Receipts : receipts[r].status \in {"PENDING", "CONFIRMED"} =>
              receipts[r].invoice # i
        /\ \A x \in Adjustments : adjustments[x].status = "ACTIVE" => adjustments[x].invoice # i
    BY <1>3 DEF Cancel, Unsettled, ActiveAdjustments
  <2>2. \A j \in Invoices \ {i} : invoices'[j] = invoices[j]
    BY <1>3 DEF Cancel, TypeOK
  <2> QED
    BY <1>1, <2>1, <2>2, SettledInvoiceIsAnInvoice DEF SettlementsHaveIssuedInvoice
<1>4. ASSUME ~ Cancel(u, i), invoices[i].status = "ISSUED"
      PROVE  invoices'[i].status = "ISSUED"
  <2>1. Load(u, i)
    BY <1>4 DEF InvoiceStep, CreateDraft, UpdateDraft, Issue, Editable, ImportInvoice, NoRow
  <2> QED
    BY <1>4, <2>1 DEF Load, billing
<1> QED
  BY <1>2, <1>3, <1>4

LEMMA SettlementsStep ==
  TypeOK /\ SettlementsHaveIssuedInvoice /\ [Next]_vars => SettlementsHaveIssuedInvoice'
<1> SUFFICES ASSUME TypeOK, SettlementsHaveIssuedInvoice, [Next]_vars
             PROVE  SettlementsHaveIssuedInvoice'
  OBVIOUS
<1>1. ASSUME NEW r \in Receipts, NEW i \in Invoices, NEW d \in Dates, NEW a \in Amounts,
             NEW method \in {"MANUAL", "GATEWAY"}, NEW status \in {"PENDING", "CONFIRMED"},
             NEW k \in Keys, CreateReceipt(r, i, d, a, method, status, k)
      PROVE  SettlementsHaveIssuedInvoice'
  <2>1. /\ receipts'[r].invoice = i
        /\ \A q \in Receipts \ {r} : receipts'[q] = receipts[q]
        /\ UNCHANGED <<invoices, adjustments>>
        /\ invoices[i].status = "ISSUED"
    BY <1>1 DEF CreateReceipt, RequireIssued, TypeOK
  <2> QED
    BY <2>1 DEF SettlementsHaveIssuedInvoice
<1>2. ASSUME NEW r \in Receipts, ConfirmReceipt(r)
      PROVE  SettlementsHaveIssuedInvoice'
  <2>1. receipts[r] \in ReceiptRow
    BY <1>2, RowExists DEF ConfirmReceipt
  <2>2. /\ receipts'[r].invoice = receipts[r].invoice
        /\ \A q \in Receipts \ {r} : receipts'[q] = receipts[q]
        /\ UNCHANGED <<invoices, adjustments>>
        /\ receipts[r].status = "PENDING"
    BY <1>2, <2>1 DEF ConfirmReceipt, TypeOK, ReceiptRow
  <2> QED
    BY <2>2, SettledInvoiceIsAnInvoice, SettlementsKept
<1>3. ASSUME NEW r \in Receipts, ReverseReceipt(r)
      PROVE  SettlementsHaveIssuedInvoice'
  <2>1. receipts[r] \in ReceiptRow
    BY <1>3, RowExists DEF ReverseReceipt, Reversible
  <2>2. /\ receipts'[r].status = "REVERSED"
        /\ \A q \in Receipts \ {r} : receipts'[q] = receipts[q]
        /\ UNCHANGED <<invoices, adjustments>>
    BY <1>3, <2>1 DEF ReverseReceipt, TypeOK, ReceiptRow
  <2> QED
    BY <2>2, SettledInvoiceIsAnInvoice, SettlementsKept
<1>4. ASSUME NEW x \in Adjustments, NEW i \in Invoices, NEW d \in Dates, NEW a \in Amounts,
             NEW k \in Keys, CreateAdjustment(x, i, d, a, k)
      PROVE  SettlementsHaveIssuedInvoice'
  <2>1. /\ adjustments'[x].invoice = i
        /\ \A y \in Adjustments \ {x} : adjustments'[y] = adjustments[y]
        /\ UNCHANGED <<invoices, receipts>>
        /\ invoices[i].status = "ISSUED"
    BY <1>4 DEF CreateAdjustment, RequireIssued, TypeOK
  <2> QED
    BY <2>1 DEF SettlementsHaveIssuedInvoice
<1>5. ASSUME NEW x \in Adjustments, ReverseAdjustment(x)
      PROVE  SettlementsHaveIssuedInvoice'
  <2>1. adjustments[x] \in AdjustmentRow
    BY <1>5, RowExists DEF ReverseAdjustment
  <2>2. /\ adjustments'[x].status = "REVERSED"
        /\ \A y \in Adjustments \ {x} : adjustments'[y] = adjustments[y]
        /\ UNCHANGED <<invoices, receipts>>
    BY <1>5, <2>1 DEF ReverseAdjustment, TypeOK, AdjustmentRow
  <2> QED
    BY <2>2, SettledInvoiceIsAnInvoice, SettlementsKept
<1>6. CASE UNCHANGED vars \/ \E new \in Rates : ChangeTaxRule(new)
  BY <1>6 DEF vars, billing, ChangeTaxRule, SettlementsHaveIssuedInvoice
<1> QED
  BY <1>1, <1>2, <1>3, <1>4, <1>5, <1>6, SettlementsInvoiceStep
     DEF Next, ReceiptStep, AdjustmentStep

\* No cancellation, in any order with receipts and adjustments being recorded, confirmed and
\* reversed, leaves an open settlement on an invoice that is not issued.
THEOREM LedgerSettlementsHaveIssuedInvoice == Spec => []SettlementsHaveIssuedInvoice
<1>1. Init => SettlementsHaveIssuedInvoice
  BY DEF Init, SettlementsHaveIssuedInvoice, NoRow
<1>2. TypeOK /\ SettlementsHaveIssuedInvoice /\ [Next]_vars => SettlementsHaveIssuedInvoice'
  BY SettlementsStep
<1> QED
  BY <1>1, <1>2, LedgerTyped, PTL DEF Spec

-----------------------------------------------------------------------------
(* Sums: the laws of Paise, a set with one element for each paisa of its rows *)

LEMMA IntervalSize ==
  ASSUME NEW n \in Nat
  PROVE  IsFiniteSet(1 .. n) /\ Cardinality(1 .. n) = n
<1>1. /\ IsFiniteSet(1 .. n)
      /\ Cardinality(1 .. n) = IF 1 > n THEN 0 ELSE n - 1 + 1
  BY FS_Interval
<1> QED
  BY <1>1

LEMMA SumIsNatural ==
  ASSUME NEW rows, IsFiniteSet(rows), NEW table
  PROVE  /\ IsFiniteSet(Paise(rows, table))
         /\ Cardinality(Paise(rows, table)) \in Nat
<1>1. IsFiniteSet(rows \X (1 .. MaxMinor))
  <2>1. IsFiniteSet(1 .. MaxMinor)
    BY IntervalSize
  <2> QED
    BY <2>1, FS_Product
<1>2. Paise(rows, table) \in SUBSET (rows \X (1 .. MaxMinor))
  BY DEF Paise
<1>3. IsFiniteSet(Paise(rows, table))
  BY <1>1, <1>2, FS_Subset
<1> QED
  BY <1>3, FS_CardinalityType

LEMMA SumOfNothing == \A table : Cardinality(Paise({}, table)) = 0
<1> SUFFICES ASSUME NEW table PROVE Cardinality(Paise({}, table)) = 0
  OBVIOUS
<1>1. Paise({}, table) = {}
  BY DEF Paise
<1> QED
  BY <1>1, FS_EmptySet

LEMMA SumOfOneRow ==
  ASSUME NEW r, NEW table, table[r].amount \in 0 .. MaxMinor
  PROVE  Cardinality(Paise({r}, table)) = table[r].amount
<1> DEFINE n == table[r].amount
<1>1. Paise({r}, table) = {r} \X (1 .. n)
  BY DEF Paise
<1>2. IsFiniteSet({r}) /\ Cardinality({r}) = 1
  BY FS_Singleton
<1>3. n \in Nat
  OBVIOUS
<1>4. IsFiniteSet(1 .. n) /\ Cardinality(1 .. n) = n
  BY <1>3, IntervalSize
<1>5. Cardinality({r} \X (1 .. n)) = 1 * n
  <2> DEFINE T == 1 .. n
  <2>1. IsFiniteSet(T) /\ Cardinality(T) = n
    BY <1>4
  <2> HIDE DEF T
  <2>2. Cardinality({r} \X T) = Cardinality({r}) * Cardinality(T)
    BY <1>2, <2>1, FS_Product, Zenon
  <2>3. Cardinality({r} \X T) = 1 * n
    BY <2>2, <2>1, <1>2, Zenon
  <2> QED
    BY <2>3, Zenon DEF T
<1>6. 1 * n = n
  BY <1>3
<1> QED
  BY <1>1, <1>5, <1>6

LEMMA SumOfMore ==
  ASSUME NEW rows, IsFiniteSet(rows), NEW r, r \notin rows, NEW table,
         table[r].amount \in 1 .. MaxMinor
  PROVE  Cardinality(Paise(rows \cup {r}, table))
           = Cardinality(Paise(rows, table)) + table[r].amount
<1>1. Paise(rows \cup {r}, table) = Paise(rows, table) \cup Paise({r}, table)
  BY DEF Paise
<1>2. Paise(rows, table) \cap Paise({r}, table) = {}
  BY DEF Paise
<1>3. IsFiniteSet({r})
  BY FS_Singleton
<1>4. /\ IsFiniteSet(Paise(rows, table)) /\ IsFiniteSet(Paise({r}, table))
      /\ Cardinality(Paise(rows, table)) \in Nat
  BY <1>3, SumIsNatural
<1>5. Cardinality(Paise(rows, table) \cup Paise({r}, table))
        = Cardinality(Paise(rows, table)) + Cardinality(Paise({r}, table)) - 0
  BY <1>2, <1>4, FS_Union, FS_EmptySet
<1>6. Cardinality(Paise({r}, table)) = table[r].amount
  <2>1. table[r].amount \in 0 .. MaxMinor
    OBVIOUS
  <2> QED
    BY <2>1, SumOfOneRow
<1>7. table[r].amount \in Nat
  OBVIOUS
<1> DEFINE sum == Cardinality(Paise(rows, table))
           amount == table[r].amount
<1>8. Cardinality(Paise(rows \cup {r}, table)) = sum + amount - 0
  BY <1>1, <1>5, <1>6
<1>9. sum \in Nat /\ amount \in Nat
  BY <1>4, <1>7
<1> HIDE DEF sum, amount
<1>10. Cardinality(Paise(rows \cup {r}, table)) = sum + amount
  BY <1>8, <1>9
<1> QED
  BY <1>10 DEF sum, amount

LEMMA SumOfFewer ==
  ASSUME NEW rows, IsFiniteSet(rows), NEW fewer \in SUBSET rows, NEW table, NEW new,
         \A r \in fewer : new[r].amount = table[r].amount
  PROVE  Cardinality(Paise(fewer, new)) <= Cardinality(Paise(rows, table))
<1>1. Paise(fewer, new) \in SUBSET Paise(rows, table)
  BY DEF Paise
<1> QED
  BY <1>1, SumIsNatural, FS_Subset

LEMMA SumOfSameRows ==
  ASSUME NEW rows, NEW table, NEW new, \A r \in rows : new[r].amount = table[r].amount
  PROVE  Paise(rows, new) = Paise(rows, table)
  BY DEF Paise

-----------------------------------------------------------------------------
(* Sums of columns *)

\* The members of finitely many finite sets are finitely many.
LEMMA FamilyIsFinite ==
  ASSUME NEW parts, IsFiniteSet(DOMAIN parts),
         \A x \in DOMAIN parts : IsFiniteSet(parts[x])
  PROVE  IsFiniteSet(UNION {parts[x] : x \in DOMAIN parts})
<1> DEFINE D == DOMAIN parts
           T == {parts[x] : x \in D}
           all == [x \in D |-> parts[x]]
<1>1. all \in [D -> T]
  OBVIOUS
<1>2. \A t \in T : \E x \in D : all[x] = t
  OBVIOUS
<1>3. all \in Surjection(D, T)
  <2> HIDE DEF all, T, D
  <2> QED
    BY <1>1, <1>2, Fun_IsSurj
<1>4. IsFiniteSet(T)
  <2> HIDE DEF all, T
  <2> QED
    BY <1>3, FS_Surjection
<1>5. \A t \in T : IsFiniteSet(t)
  OBVIOUS
<1> HIDE DEF T
<1>6. IsFiniteSet(UNION T)
  BY <1>4, <1>5, FS_UNION
<1> QED
  BY <1>6 DEF T

LEMMA UnitsAreFinite ==
  ASSUME NEW column, IsFiniteSet(DOMAIN column), \A x \in DOMAIN column : column[x] \in Nat
  PROVE  IsFiniteSet(Units(column))
<1> DEFINE parts == [x \in DOMAIN column |-> {x} \X (1 .. column[x])]
<1>1. \A x \in DOMAIN column : IsFiniteSet({x} \X (1 .. column[x]))
  <2> SUFFICES ASSUME NEW x \in DOMAIN column
               PROVE  IsFiniteSet({x} \X (1 .. column[x]))
    OBVIOUS
  <2>1. IsFiniteSet({x}) /\ IsFiniteSet(1 .. column[x])
    BY FS_Singleton, IntervalSize
  <2> QED
    BY <2>1, FS_Product
<1>2. DOMAIN parts = DOMAIN column /\ \A x \in DOMAIN parts : IsFiniteSet(parts[x])
  BY <1>1
<1>3. UNION {parts[x] : x \in DOMAIN parts} = Units(column)
  BY DEF Units
<1> HIDE DEF parts
<1>4. IsFiniteSet(UNION {parts[x] : x \in DOMAIN parts})
  BY <1>2, FamilyIsFinite
<1> QED
  BY <1>3, <1>4

LEMMA BijectionFacts ==
  ASSUME NEW S, NEW T, NEW b \in Bijection(S, T)
  PROVE  /\ b \in [S -> T]
         /\ \A m, n \in S : b[m] = b[n] => m = n
         /\ \A t \in T : \E n \in S : b[n] = t
<1>1. b \in [S -> T] /\ IsInjective(b) /\ \A t \in T : \E n \in S : b[n] = t
  BY DEF Bijection, Injection, Surjection
<1> QED
  BY <1>1 DEF IsInjective

\* Marking the members of a set with x does not change how many there are.
LEMMA RowSize ==
  ASSUME NEW x, NEW S, IsFiniteSet(S)
  PROVE  IsFiniteSet({x} \X S) /\ Cardinality({x} \X S) = Cardinality(S)
<1>1. IsFiniteSet({x}) /\ Cardinality({x}) = 1
  BY FS_Singleton
<1>2. IsFiniteSet({x} \X S) /\ Cardinality({x} \X S) = Cardinality({x}) * Cardinality(S)
  BY <1>1, FS_Product, Zenon
<1>3. Cardinality({x} \X S) = 1 * Cardinality(S)
  BY <1>1, <1>2, Zenon
<1>4. Cardinality(S) \in Nat
  BY FS_CardinalityType
<1>5. 1 * Cardinality(S) = Cardinality(S)
  BY <1>4
<1> QED
  BY <1>2, <1>3, <1>5, Zenon

\* A sum counts the members of disjoint sets of those sizes: the law the others follow from.
LEMMA SumOfParts ==
  ASSUME NEW D, IsFiniteSet(D), NEW column, DOMAIN column = D, NEW parts,
         \A x \in D : IsFiniteSet(parts[x]) /\ Cardinality(parts[x]) = column[x],
         \A x, y \in D : x # y => parts[x] \cap parts[y] = {}
  PROVE  SumOf(column) = Cardinality(UNION {parts[x] : x \in D})
<1> DEFINE U == UNION {parts[x] : x \in D}
           order == [x \in D |-> CHOOSE b : b \in Bijection(1 .. column[x], parts[x])]
           map == [p \in Units(column) |-> order[p[1]][p[2]]]
<1>1. \A x \in D : column[x] \in Nat
  BY FS_CardinalityType
<1>2. \A x \in D : order[x] \in Bijection(1 .. column[x], parts[x])
  <2> SUFFICES ASSUME NEW x \in D PROVE order[x] \in Bijection(1 .. column[x], parts[x])
    OBVIOUS
  <2>1. ExistsBijection(1 .. column[x], parts[x])
    BY FS_CardinalityType
  <2>2. \E b : b \in Bijection(1 .. column[x], parts[x])
    BY <2>1 DEF ExistsBijection
  <2> QED
    BY <2>2
<1> HIDE DEF order
<1>3. \A x \in D : /\ order[x] \in [1 .. column[x] -> parts[x]]
                   /\ \A m, n \in 1 .. column[x] : order[x][m] = order[x][n] => m = n
                   /\ \A t \in parts[x] : \E n \in 1 .. column[x] : order[x][n] = t
  <2> TAKE x \in D
  <2> DEFINE b == order[x]
             S == 1 .. column[x]
             T == parts[x]
  <2>1. b \in Bijection(S, T)
    BY <1>2
  <2> HIDE DEF b, S, T
  <2>2. /\ b \in [S -> T]
        /\ \A m, n \in S : b[m] = b[n] => m = n
        /\ \A t \in T : \E n \in S : b[n] = t
    BY <2>1, BijectionFacts
  <2> QED
    BY <2>2 DEF b, S, T
<1>4. \A p \in Units(column) : p[1] \in D /\ p[2] \in 1 .. column[p[1]] /\ p = <<p[1], p[2]>>
  BY DEF Units
<1>5. \A x \in D : \A n \in 1 .. column[x] : <<x, n>> \in Units(column)
  BY DEF Units
<1>6. \A p \in Units(column) : map[p] \in parts[p[1]]
  <2> SUFFICES ASSUME NEW p \in Units(column) PROVE order[p[1]][p[2]] \in parts[p[1]]
    OBVIOUS
  <2>1. p[1] \in D /\ p[2] \in 1 .. column[p[1]]
    BY <1>4
  <2>2. order[p[1]] \in [1 .. column[p[1]] -> parts[p[1]]]
    BY <1>3, <2>1
  <2> QED
    BY <2>1, <2>2
<1>7. map \in [Units(column) -> U]
  BY <1>4, <1>6
<1>8. \A p, q \in Units(column) : map[p] = map[q] => p = q
  <2> SUFFICES ASSUME NEW p \in Units(column), NEW q \in Units(column), map[p] = map[q]
               PROVE  p = q
    OBVIOUS
  <2>1. order[p[1]][p[2]] = order[q[1]][q[2]]
    OBVIOUS
  <2>2. p[1] \in D /\ q[1] \in D /\ map[p] \in parts[p[1]] /\ map[p] \in parts[q[1]]
    BY <1>4, <1>6
  <2> HIDE DEF map
  <2>3. p[1] = q[1]
    BY <2>2
  <2>4. p[2] \in 1 .. column[p[1]] /\ q[2] \in 1 .. column[p[1]]
    BY <1>4, <2>3
  <2>5. p[2] = q[2]
    BY <1>3, <2>1, <2>2, <2>3, <2>4
  <2> QED
    BY <1>4, <2>3, <2>5
<1>9. \A t \in U : \E p \in Units(column) : map[p] = t
  <2> SUFFICES ASSUME NEW t \in U PROVE \E p \in Units(column) : map[p] = t
    OBVIOUS
  <2>1. PICK x \in D : t \in parts[x]
    OBVIOUS
  <2>2. PICK n \in 1 .. column[x] : order[x][n] = t
    BY <1>3, <2>1
  <2>3. <<x, n>> \in Units(column) /\ map[<<x, n>>] = t
    BY <1>5, <2>2
  <2> QED
    BY <2>3
<1>10. ExistsBijection(Units(column), U)
  <2> HIDE DEF map, U
  <2>1. map \in Bijection(Units(column), U)
    BY <1>7, <1>8, <1>9, Fun_IsBij
  <2> QED
    BY <2>1 DEF ExistsBijection
<1>11. IsFiniteSet(Units(column))
  BY <1>1, UnitsAreFinite
<1>12. Cardinality(U) = Cardinality(Units(column))
  <2> HIDE DEF U
  <2> QED
    BY <1>10, <1>11, FS_Bijection
<1> QED
  BY <1>12 DEF SumOf

LEMMA PartsAreFinite ==
  ASSUME NEW D, IsFiniteSet(D), NEW parts, \A x \in D : IsFiniteSet(parts[x])
  PROVE  IsFiniteSet(UNION {parts[x] : x \in D})
<1> DEFINE family == [x \in D |-> parts[x]]
<1>1. DOMAIN family = D /\ \A x \in D : family[x] = parts[x]
  OBVIOUS
<1>2. UNION {family[x] : x \in DOMAIN family} = UNION {parts[x] : x \in D}
  OBVIOUS
<1> HIDE DEF family
<1>3. IsFiniteSet(UNION {family[x] : x \in DOMAIN family})
  BY <1>1, FamilyIsFinite
<1> QED
  BY <1>2, <1>3

LEMMA SumOfNaturals ==
  ASSUME NEW column, IsFiniteSet(DOMAIN column), \A x \in DOMAIN column : column[x] \in Nat
  PROVE  SumOf(column) \in Nat
  BY UnitsAreFinite, FS_CardinalityType DEF SumOf

\* Two columns side by side sum to the sum of both.
LEMMA SumsAdd ==
  ASSUME NEW D, IsFiniteSet(D), NEW f \in [D -> Nat], NEW g \in [D -> Nat], NEW h \in [D -> Nat],
         \A x \in D : h[x] = f[x] + g[x]
  PROVE  SumOf(h) = SumOf(f) + SumOf(g)
<1> DEFINE below == [x \in D |-> {x} \X (-g[x] .. -1)]
           above == [x \in D |-> {x} \X (1 .. f[x])]
           both == [x \in D |-> above[x] \cup below[x]]
           A == UNION {above[x] : x \in D}
           B == UNION {below[x] : x \in D}
<1>1. \A x \in D : IsFiniteSet(above[x]) /\ Cardinality(above[x]) = f[x]
  <2> SUFFICES ASSUME NEW x \in D, NEW S, S = 1 .. f[x]
               PROVE  IsFiniteSet({x} \X S) /\ Cardinality({x} \X S) = f[x]
    OBVIOUS
  <2>1. IsFiniteSet(S) /\ Cardinality(S) = f[x]
    BY IntervalSize
  <2> QED
    BY <2>1, RowSize
<1>2. \A x \in D : IsFiniteSet(below[x]) /\ Cardinality(below[x]) = g[x]
  <2> SUFFICES ASSUME NEW x \in D, NEW S, S = -g[x] .. -1
               PROVE  IsFiniteSet({x} \X S) /\ Cardinality({x} \X S) = g[x]
    OBVIOUS
  <2>1. -g[x] \in Int /\ -1 \in Int /\ g[x] \in Nat
    OBVIOUS
  <2>2. IsFiniteSet(S) /\ Cardinality(S) = IF -g[x] > -1 THEN 0 ELSE -1 - (-g[x]) + 1
    BY <2>1, FS_Interval
  <2>3. Cardinality(S) = g[x]
    BY <2>1, <2>2
  <2> QED
    BY <2>2, <2>3, RowSize
<1>3. \A x \in D : above[x] \cap below[x] = {}
  OBVIOUS
<1>4. \A x \in D : IsFiniteSet(both[x]) /\ Cardinality(both[x]) = h[x]
  <2> SUFFICES ASSUME NEW x \in D, NEW a, NEW b, a = above[x], b = below[x]
               PROVE  IsFiniteSet(a \cup b) /\ Cardinality(a \cup b) = h[x]
    OBVIOUS
  <2>1. /\ IsFiniteSet(a) /\ Cardinality(a) = f[x]
        /\ IsFiniteSet(b) /\ Cardinality(b) = g[x] /\ a \cap b = {}
    BY <1>1, <1>2, <1>3
  <2> HIDE DEF above, below
  <2>2. IsFiniteSet(a \cup b) /\ Cardinality(a \cup b) = f[x] + g[x] - Cardinality({})
    BY <2>1, FS_Union
  <2>3. Cardinality({}) = 0
    BY FS_EmptySet
  <2> QED
    BY <2>2, <2>3
<1>5. /\ \A x, y \in D : x # y => above[x] \cap above[y] = {}
      /\ \A x, y \in D : x # y => below[x] \cap below[y] = {}
  OBVIOUS
<1>6. \A x, y \in D : x # y => both[x] \cap both[y] = {}
  OBVIOUS
<1>7. DOMAIN above = D /\ DOMAIN below = D /\ DOMAIN both = D
  OBVIOUS
<1>8. UNION {both[x] : x \in D} = A \cup B
  OBVIOUS
<1>9. A \cap B = {}
  OBVIOUS
<1> HIDE DEF above, below, both
<1>10. IsFiniteSet(A) /\ SumOf(f) = Cardinality(A)
  <2>1. \A x \in D : IsFiniteSet(above[x])
    BY <1>1
  <2>2. IsFiniteSet(A)
    BY <2>1, PartsAreFinite, SMTT(30)
  <2>3. DOMAIN f = D
    OBVIOUS
  <2>4. SumOf(f) = Cardinality(A)
    BY <1>1, <1>5, <2>3, SumOfParts
  <2> QED
    BY <2>2, <2>4
<1>11. IsFiniteSet(B) /\ SumOf(g) = Cardinality(B)
  <2>1. \A x \in D : IsFiniteSet(below[x])
    BY <1>2
  <2>2. IsFiniteSet(B)
    BY <2>1, PartsAreFinite
  <2>3. DOMAIN g = D
    OBVIOUS
  <2>4. SumOf(g) = Cardinality(B)
    BY <1>2, <1>5, <2>3, SumOfParts
  <2> QED
    BY <2>2, <2>4
<1>12. SumOf(h) = Cardinality(A \cup B)
  <2>1. SumOf(h) = Cardinality(UNION {both[x] : x \in D})
    BY <1>4, <1>6, SumOfParts
  <2> QED
    BY <1>8, <2>1
<1>13. Cardinality(A \cup B) = Cardinality(A) + Cardinality(B) - Cardinality({})
  <2> HIDE DEF A, B
  <2> QED
    BY <1>9, <1>10, <1>11, FS_Union
<1>14. Cardinality({}) = 0 /\ Cardinality(A) \in Nat /\ Cardinality(B) \in Nat
  BY <1>10, <1>11, FS_EmptySet, FS_CardinalityType
<1> QED
  BY <1>10, <1>11, <1>12, <1>13, <1>14

\* A column sums to the sums of its groups.
LEMMA SumOfGroups ==
  ASSUME NEW D, IsFiniteSet(D), NEW f \in [D -> Nat],
         NEW G, IsFiniteSet(G), NEW group \in [D -> G],
         NEW sums, DOMAIN sums = G,
         \A k \in G : sums[k] = SumOf([x \in {y \in D : group[y] = k} |-> f[x]])
  PROVE  SumOf(sums) = SumOf(f)
<1> DEFINE Of(k) == [x \in {y \in D : group[y] = k} |-> f[x]]
           parts == [k \in G |-> Units(Of(k))]
<1>1. \A k \in G : IsFiniteSet(parts[k]) /\ Cardinality(parts[k]) = sums[k]
  <2> SUFFICES ASSUME NEW k \in G, NEW c, c = Of(k)
               PROVE  IsFiniteSet(Units(c)) /\ Cardinality(Units(c)) = sums[k]
    OBVIOUS
  <2>1. DOMAIN c = {y \in D : group[y] = k} /\ \A x \in DOMAIN c : c[x] \in Nat
    OBVIOUS
  <2>2. IsFiniteSet(DOMAIN c)
    BY <2>1, FS_Subset
  <2> QED
    BY <2>1, <2>2, UnitsAreFinite DEF SumOf
<1>2. \A k \in G : \A p : p \in parts[k] <=>
        \E x \in D : group[x] = k /\ p \in {x} \X (1 .. f[x])
  <2> SUFFICES ASSUME NEW k \in G, NEW c, c = Of(k), NEW p
               PROVE  p \in Units(c) <=> \E x \in D : group[x] = k /\ p \in {x} \X (1 .. f[x])
    OBVIOUS
  <2>1. /\ DOMAIN c = {y \in D : group[y] = k}
        /\ \A x \in DOMAIN c : c[x] = f[x]
    OBVIOUS
  <2>2. p \in Units(c) <=> \E x \in DOMAIN c : p \in {x} \X (1 .. c[x])
    BY DEF Units
  <2> HIDE DEF Of
  <2> QED
    BY <2>1, <2>2
<1>3. \A k, l \in G : k # l => parts[k] \cap parts[l] = {}
  <2> HIDE DEF parts
  <2> SUFFICES ASSUME NEW k \in G, NEW l \in G, NEW p, p \in parts[k], p \in parts[l]
               PROVE  k = l
    OBVIOUS
  <2>1. PICK x \in D : group[x] = k /\ p \in {x} \X (1 .. f[x])
    BY <1>2
  <2>2. PICK y \in D : group[y] = l /\ p \in {y} \X (1 .. f[y])
    BY <1>2
  <2>3. x = y
    BY <2>1, <2>2
  <2> QED
    BY <2>1, <2>2, <2>3
<1>4. UNION {parts[k] : k \in G} = Units(f)
  <2> HIDE DEF parts
  <2>1. \A k \in G : parts[k] \subseteq Units(f)
    BY <1>2 DEF Units
  <2>2. \A p \in Units(f) : \E k \in G : p \in parts[k]
    <3> SUFFICES ASSUME NEW p \in Units(f) PROVE \E k \in G : p \in parts[k]
      OBVIOUS
    <3>1. PICK x \in D : p \in {x} \X (1 .. f[x])
      BY DEF Units
    <3>2. p \in parts[group[x]] /\ group[x] \in G
      BY <1>2, <3>1
    <3> QED
      BY <3>2
  <2> QED
    BY <2>1, <2>2
<1>5. DOMAIN parts = G
  OBVIOUS
<1> HIDE DEF parts
<1>6. SumOf(sums) = Cardinality(UNION {parts[k] : k \in G})
  BY <1>1, <1>3, <1>5, SumOfParts
<1> QED
  BY <1>4, <1>6 DEF SumOf

\* The paise of some rows, invoice by invoice.
LEMMA PaiseByRow ==
  ASSUME NEW D, IsFiniteSet(D), NEW rows, NEW U, IsFiniteSet(U), NEW table,
         \A i \in D : rows[i] \in SUBSET U,
         \A i, j \in D : i # j => rows[i] \cap rows[j] = {}
  PROVE  SumOf([i \in D |-> Cardinality(Paise(rows[i], table))])
           = Cardinality(Paise(UNION {rows[i] : i \in D}, table))
<1> DEFINE parts == [i \in D |-> Paise(rows[i], table)]
           column == [i \in D |-> Cardinality(Paise(rows[i], table))]
<1>1. \A i \in D : IsFiniteSet(parts[i]) /\ Cardinality(parts[i]) = column[i]
  BY FS_Subset, SumIsNatural
<1>2. \A i, j \in D : i # j => parts[i] \cap parts[j] = {}
  BY DEF Paise
<1>3. UNION {parts[i] : i \in D} = Paise(UNION {rows[i] : i \in D}, table)
  BY DEF Paise
<1>4. DOMAIN column = D
  OBVIOUS
<1> HIDE DEF parts, column
<1>5. SumOf(column) = Cardinality(UNION {parts[i] : i \in D})
  BY <1>1, <1>2, <1>4, SumOfParts
<1> QED
  BY <1>3, <1>5 DEF column

\* Rows that owe nothing add nothing.
LEMMA SumOfPositive ==
  ASSUME NEW D, NEW f \in [D -> Nat]
  PROVE  SumOf([x \in {y \in D : f[y] > 0} |-> f[x]]) = SumOf(f)
<1> DEFINE g == [x \in {y \in D : f[y] > 0} |-> f[x]]
<1>1. DOMAIN g = {y \in D : f[y] > 0} /\ \A x \in DOMAIN g : g[x] = f[x]
  OBVIOUS
<1> HIDE DEF g
<1>2. \A p : p \in Units(g) <=> \E x \in DOMAIN g : p \in {x} \X (1 .. g[x])
  BY DEF Units
<1>3. \A p : p \in Units(f) <=> \E x \in D : p \in {x} \X (1 .. f[x])
  BY DEF Units
<1>4. \A p : p \in Units(g) <=> p \in Units(f)
  BY <1>1, <1>2, <1>3
<1>5. Units(g) = Units(f)
  BY <1>4
<1> QED
  BY <1>5 DEF SumOf, g

-----------------------------------------------------------------------------
(* No overpayment *)

LEMMA SettlementsAreFinite ==
  ASSUME NEW i
  PROVE  /\ IsFiniteSet(Confirmed(i)) /\ IsFiniteSet(ActiveAdjustments(i))
         /\ IsFiniteSet(Confirmed(i)') /\ IsFiniteSet(ActiveAdjustments(i)')
<1>1. /\ Confirmed(i) \in SUBSET Receipts /\ Confirmed(i)' \in SUBSET Receipts
      /\ ActiveAdjustments(i) \in SUBSET Adjustments
      /\ ActiveAdjustments(i)' \in SUBSET Adjustments
  BY DEF Confirmed, ActiveAdjustments
<1> QED
  BY <1>1, FS_Subset

LEMMA SettledIsNatural ==
  ASSUME NEW i
  PROVE  /\ Received(i) \in Nat /\ Adjusted(i) \in Nat
         /\ Received(i)' \in Nat /\ Adjusted(i)' \in Nat
  BY SettlementsAreFinite, SumIsNatural DEF Received, Adjusted

\* What is settled on an invoice that is not issued is nothing.
LEMMA NothingSettled ==
  ASSUME SettlementsHaveIssuedInvoice, NEW i \in Invoices, invoices[i].status # "ISSUED"
  PROVE  Received(i) = 0 /\ Adjusted(i) = 0
<1>1. Confirmed(i) = {} /\ ActiveAdjustments(i) = {}
  BY DEF Confirmed, ActiveAdjustments, SettlementsHaveIssuedInvoice
<1> QED
  BY <1>1, SumOfNothing DEF Received, Adjusted

\* A step that settles no more than before keeps the balances.
LEMMA BalanceKept ==
  ASSUME TypeOK, NoOverpayment, UNCHANGED invoices,
         \A i \in Invoices : Received(i)' <= Received(i) /\ Adjusted(i)' <= Adjusted(i)
  PROVE  NoOverpayment'
<1> SUFFICES ASSUME NEW i \in Invoices, invoices[i].status = "ISSUED"
             PROVE  Due(i)' >= 0
  BY DEF NoOverpayment
<1>1. invoices[i].total \in Nat
  BY RowExists DEF InvoiceRow
<1>2. Due(i) >= 0
  BY DEF NoOverpayment
<1> QED
  BY <1>1, <1>2, SettledIsNatural DEF Due

LEMMA BalanceInvoiceStep ==
  ASSUME TypeOK, TypeOK', SettlementsHaveIssuedInvoice, NoOverpayment,
         NEW u \in Users, NEW i \in Invoices, InvoiceStep(u, i)
  PROVE  NoOverpayment'
<1>1. UNCHANGED <<receipts, adjustments>>
  BY DEF InvoiceStep, Load, CreateDraft, UpdateDraft, Issue, Cancel, ImportInvoice, billing
<1>2. \A j \in Invoices : Received(j)' = Received(j) /\ Adjusted(j)' = Adjusted(j)
  BY <1>1 DEF Received, Adjusted, Confirmed, ActiveAdjustments, Paise
<1>3. \A j \in Invoices \ {i} : invoices'[j] = invoices[j]
  BY DEF InvoiceStep, Load, CreateDraft, UpdateDraft, Issue, Cancel, ImportInvoice, billing,
         TypeOK
<1>4. (invoices[i].status = "ISSUED" /\ invoices'[i].status = "ISSUED") =>
        invoices'[i] = invoices[i]
  <2> SUFFICES ASSUME invoices[i].status = "ISSUED", invoices'[i].status = "ISSUED"
               PROVE  invoices'[i] = invoices[i]
    OBVIOUS
  <2>1. ~ Cancel(u, i)
    <3>1. ASSUME Cancel(u, i) PROVE invoices'[i].status = "CANCELLED"
      BY <3>1, RowExists DEF Cancel, TypeOK, InvoiceRow
    <3> QED
      BY <3>1
  <2>2. Load(u, i)
    BY <2>1 DEF InvoiceStep, CreateDraft, UpdateDraft, Issue, Editable, ImportInvoice, NoRow
  <2> QED
    BY <2>2 DEF Load, billing
<1> SUFFICES ASSUME NEW j \in Invoices, invoices'[j].status = "ISSUED"
             PROVE  Due(j)' >= 0
  BY DEF NoOverpayment
<1>5. CASE invoices[j].status = "ISSUED"
  <2>1. invoices'[j] = invoices[j]
    BY <1>3, <1>4, <1>5
  <2> QED
    BY <1>2, <1>5, <2>1 DEF Due, NoOverpayment
<1>6. CASE invoices[j].status # "ISSUED"
  <2>1. Received(j)' = 0 /\ Adjusted(j)' = 0
    BY <1>2, <1>6, NothingSettled
  <2>2. invoices'[j].total \in Nat
    BY DEF TypeOK, InvoiceRow, NoRow
  <2> QED
    BY <2>1, <2>2 DEF Due
<1> QED
  BY <1>5, <1>6

\* A receipt that becomes confirmed adds its amount to what its invoice received, and nothing
\* to the others.
LEMMA ConfirmationAdds ==
  ASSUME NEW r \in Receipts, NEW i \in Invoices, r \notin Confirmed(i),
         receipts'[r].status = "CONFIRMED", receipts'[r].invoice = i,
         receipts'[r].amount \in 1 .. MaxMinor,
         receipts[r].status # "CONFIRMED",
         \A q \in Receipts \ {r} : receipts'[q] = receipts[q]
  PROVE  /\ Received(i)' = Received(i) + receipts'[r].amount
         /\ \A j \in Invoices \ {i} : Received(j)' = Received(j)
<1>1. Confirmed(i)' = Confirmed(i) \cup {r}
  BY DEF Confirmed
<1>2. \A q \in Confirmed(i) : receipts'[q].amount = receipts[q].amount
  BY DEF Confirmed
<1>3. Cardinality(Paise(Confirmed(i) \cup {r}, receipts'))
        = Cardinality(Paise(Confirmed(i), receipts')) + receipts'[r].amount
  BY SettlementsAreFinite, SumOfMore
<1>4. Paise(Confirmed(i), receipts') = Paise(Confirmed(i), receipts)
  BY <1>2, SumOfSameRows
<1>5. Received(i)' = Received(i) + receipts'[r].amount
  BY <1>1, <1>3, <1>4 DEF Received
<1>6. ASSUME NEW j \in Invoices \ {i} PROVE Received(j)' = Received(j)
  <2>1. Confirmed(j)' = Confirmed(j)
    BY DEF Confirmed
  <2>2. \A q \in Confirmed(j) : receipts'[q].amount = receipts[q].amount
    BY DEF Confirmed
  <2>3. Paise(Confirmed(j), receipts') = Paise(Confirmed(j), receipts)
    BY <2>2, SumOfSameRows
  <2> QED
    BY <2>1, <2>3 DEF Received
<1> QED
  BY <1>5, <1>6

\* A step of one receipt that does not confirm it settles no more than before.
LEMMA NoConfirmation ==
  ASSUME NEW r \in Receipts, receipts'[r].status # "CONFIRMED",
         \A q \in Receipts \ {r} : receipts'[q] = receipts[q]
  PROVE  \A i \in Invoices : Received(i)' <= Received(i)
<1> SUFFICES ASSUME NEW i \in Invoices PROVE Received(i)' <= Received(i)
  OBVIOUS
<1>1. Confirmed(i)' \in SUBSET Confirmed(i)
  BY DEF Confirmed
<1>2. \A q \in Confirmed(i)' : receipts'[q].amount = receipts[q].amount
  BY DEF Confirmed
<1>3. Cardinality(Paise(Confirmed(i)', receipts')) <= Cardinality(Paise(Confirmed(i), receipts))
  BY <1>1, <1>2, SettlementsAreFinite, SumOfFewer
<1> QED
  BY <1>3 DEF Received

LEMMA AdjustmentsKept ==
  ASSUME UNCHANGED adjustments
  PROVE  \A i \in Invoices : Adjusted(i)' = Adjusted(i)
  BY DEF Adjusted, ActiveAdjustments, Paise

LEMMA ReceiptsKept ==
  ASSUME UNCHANGED receipts
  PROVE  \A i \in Invoices : Received(i)' = Received(i)
  BY DEF Received, Confirmed, Paise

\* Settling an amount that checkSettlement accepts keeps the balances.
LEMMA CheckedSettlement ==
  ASSUME TypeOK, NoOverpayment, UNCHANGED invoices, NEW i \in Invoices, NEW a \in Nat,
         invoices[i].status = "ISSUED", CheckSettlement(i, a),
         Received(i)' + Adjusted(i)' = Received(i) + Adjusted(i) + a,
         \A j \in Invoices \ {i} :
           Received(j)' = Received(j) /\ Adjusted(j)' = Adjusted(j)
  PROVE  NoOverpayment'
<1>1. \A j \in Invoices \ {i} : Due(j)' = Due(j)
  BY DEF Due
<1>2. /\ invoices[i].total \in Nat
      /\ Received(i) \in Nat /\ Adjusted(i) \in Nat
      /\ Received(i)' \in Nat /\ Adjusted(i)' \in Nat
  BY RowExists, SettledIsNatural DEF InvoiceRow
<1>3. a <= invoices[i].total - Received(i) - Adjusted(i)
  BY DEF CheckSettlement, Due
<1>4. invoices[i].total - Received(i)' - Adjusted(i)' >= 0
  BY <1>2, <1>3
<1>5. Due(i)' >= 0
  BY <1>4 DEF Due
<1> QED
  BY <1>1, <1>5 DEF NoOverpayment

\* A step of a receipt changes no other receipt, no invoice and no adjustment.
LEMMA OneReceiptChanges ==
  ASSUME TypeOK, NEW r \in Receipts, ReceiptStep(r)
  PROVE  /\ UNCHANGED <<invoices, adjustments>>
         /\ \A q \in Receipts \ {r} : receipts'[q] = receipts[q]
<1>1. ASSUME NEW i \in Invoices, NEW d \in Dates, NEW a \in Amounts,
             NEW method \in {"MANUAL", "GATEWAY"}, NEW status \in {"PENDING", "CONFIRMED"},
             NEW k \in Keys, CreateReceipt(r, i, d, a, method, status, k)
      PROVE  /\ UNCHANGED <<invoices, adjustments>>
             /\ \A q \in Receipts \ {r} : receipts'[q] = receipts[q]
  BY <1>1 DEF CreateReceipt, TypeOK
<1>2. CASE ConfirmReceipt(r)
  BY <1>2 DEF ConfirmReceipt, TypeOK
<1>3. CASE ReverseReceipt(r)
  BY <1>3 DEF ReverseReceipt, TypeOK
<1> QED
  BY <1>1, <1>2, <1>3 DEF ReceiptStep

LEMMA BalanceReceiptStep ==
  ASSUME TypeOK, TypeOK', NoOverpayment, NEW r \in Receipts, ReceiptStep(r)
  PROVE  NoOverpayment'
<1>1. /\ UNCHANGED <<invoices, adjustments>>
      /\ \A q \in Receipts \ {r} : receipts'[q] = receipts[q]
  BY OneReceiptChanges
<1>2. CASE receipts'[r].status # "CONFIRMED"
  <2>1. \A i \in Invoices : Received(i)' <= Received(i)
    BY <1>1, <1>2, NoConfirmation
  <2>2. \A i \in Invoices : Adjusted(i)' <= Adjusted(i)
    BY <1>1, AdjustmentsKept, SettledIsNatural
  <2> QED
    BY <1>1, <2>1, <2>2, BalanceKept
<1>3. ASSUME NEW i \in Invoices, receipts'[r].status = "CONFIRMED", receipts'[r].invoice = i,
             receipts[r].status # "CONFIRMED", invoices[i].status = "ISSUED",
             CheckSettlement(i, receipts'[r].amount)
      PROVE  NoOverpayment'
  <2>1. receipts'[r].amount \in 1 .. MaxMinor
    BY <1>3 DEF TypeOK, ReceiptRow, NoRow
  <2>2. /\ Received(i)' = Received(i) + receipts'[r].amount
        /\ \A j \in Invoices \ {i} : Received(j)' = Received(j)
    BY <1>1, <1>3, <2>1, ConfirmationAdds DEF Confirmed
  <2>3. \A j \in Invoices : Adjusted(j)' = Adjusted(j)
    BY <1>1, AdjustmentsKept
  <2>4. receipts'[r].amount \in Nat
    BY <2>1
  <2>5. Received(i)' + Adjusted(i)' = Received(i) + Adjusted(i) + receipts'[r].amount
    BY <2>2, <2>3, <2>4, SettledIsNatural
  <2> QED
    BY <1>1, <1>3, <2>2, <2>3, <2>4, <2>5, CheckedSettlement
<1>4. ASSUME NEW i \in Invoices, NEW d \in Dates, NEW a \in Amounts,
             NEW method \in {"MANUAL", "GATEWAY"}, NEW k \in Keys,
             CreateReceipt(r, i, d, a, method, "CONFIRMED", k)
      PROVE  NoOverpayment'
  <2>1. /\ receipts'[r].status = "CONFIRMED" /\ receipts'[r].invoice = i
        /\ receipts'[r].amount = a
    BY <1>4 DEF CreateReceipt, TypeOK
  <2>2. receipts[r].status # "CONFIRMED"
    <3>1. receipts[r] = NoRow
      BY <1>4 DEF CreateReceipt
    <3> QED
      BY <3>1 DEF NoRow
  <2>3. invoices[i].status = "ISSUED" /\ CheckSettlement(i, a)
    BY <1>4 DEF CreateReceipt, RequireIssued
  <2> QED
    BY <1>3, <2>1, <2>2, <2>3
<1>5. CASE ConfirmReceipt(r)
  <2>1. receipts[r] \in ReceiptRow
    BY <1>5, RowExists DEF ConfirmReceipt
  <2>2. /\ receipts'[r].status = "CONFIRMED" /\ receipts'[r].invoice = receipts[r].invoice
        /\ receipts'[r].amount = receipts[r].amount
        /\ receipts[r].invoice \in Invoices
        /\ receipts[r].status # "CONFIRMED"
        /\ invoices[receipts[r].invoice].status = "ISSUED"
        /\ CheckSettlement(receipts[r].invoice, receipts[r].amount)
    BY <1>5, <2>1 DEF ConfirmReceipt, TypeOK, ReceiptRow, RequireIssued
  <2> QED
    BY <1>3, <2>2
<1>6. ASSUME NEW i \in Invoices, NEW d \in Dates, NEW a \in Amounts,
             NEW method \in {"MANUAL", "GATEWAY"}, NEW k \in Keys,
             CreateReceipt(r, i, d, a, method, "PENDING", k)
      PROVE  receipts'[r].status # "CONFIRMED"
  BY <1>6 DEF CreateReceipt, TypeOK
<1>7. CASE ReverseReceipt(r)
  <2>1. receipts[r] \in ReceiptRow
    BY <1>7, RowExists DEF ReverseReceipt, Reversible
  <2>2. receipts'[r].status = "REVERSED"
    BY <1>7, <2>1 DEF ReverseReceipt, TypeOK, ReceiptRow
  <2> QED
    BY <1>2, <2>2
<1> QED
  BY <1>2, <1>4, <1>5, <1>6, <1>7 DEF ReceiptStep

LEMMA BalanceAdjustmentStep ==
  ASSUME TypeOK, NoOverpayment, NEW x \in Adjustments, AdjustmentStep(x)
  PROVE  NoOverpayment'
<1>1. UNCHANGED <<invoices, receipts>>
  BY DEF AdjustmentStep, CreateAdjustment, ReverseAdjustment
<1>2. \A j \in Invoices : Received(j)' = Received(j)
  BY <1>1, ReceiptsKept
<1>3. ASSUME NEW i \in Invoices, NEW d \in Dates, NEW a \in Amounts, NEW k \in Keys,
             CreateAdjustment(x, i, d, a, k)
      PROVE  NoOverpayment'
  <2>1. /\ adjustments'[x].status = "ACTIVE" /\ adjustments'[x].invoice = i
        /\ adjustments'[x].amount = a
        /\ adjustments[x].status = "NONE"
        /\ \A y \in Adjustments \ {x} : adjustments'[y] = adjustments[y]
        /\ invoices[i].status = "ISSUED" /\ CheckSettlement(i, a)
    BY <1>3 DEF CreateAdjustment, TypeOK, NoRow, RequireIssued
  <2>2. adjustments'[x].amount \in 1 .. MaxMinor
    BY <2>1
  <2>3. IsFiniteSet(ActiveAdjustments(i))
    BY SettlementsAreFinite
  <2>4. x \notin ActiveAdjustments(i)
    BY <2>1 DEF ActiveAdjustments
  <2>5. ActiveAdjustments(i)' = ActiveAdjustments(i) \cup {x}
    BY <2>1 DEF ActiveAdjustments
  <2>6. Cardinality(Paise(ActiveAdjustments(i) \cup {x}, adjustments'))
          = Cardinality(Paise(ActiveAdjustments(i), adjustments')) + a
    <3>1. Cardinality(Paise(ActiveAdjustments(i) \cup {x}, adjustments'))
            = Cardinality(Paise(ActiveAdjustments(i), adjustments')) + adjustments'[x].amount
      BY <2>2, <2>3, <2>4, SumOfMore
    <3> QED
      BY <2>1, <3>1
  <2>7. Paise(ActiveAdjustments(i), adjustments') = Paise(ActiveAdjustments(i), adjustments)
    BY <2>1, SumOfSameRows DEF ActiveAdjustments
  <2>8. Adjusted(i)' = Adjusted(i) + a
    BY <2>5, <2>6, <2>7 DEF Adjusted
  <2>9. ASSUME NEW j \in Invoices \ {i} PROVE Adjusted(j)' = Adjusted(j)
    <3>1. ActiveAdjustments(j)' = ActiveAdjustments(j)
      BY <2>1 DEF ActiveAdjustments
    <3>2. \A y \in ActiveAdjustments(j) : adjustments'[y].amount = adjustments[y].amount
      BY <2>1 DEF ActiveAdjustments
    <3>3. Paise(ActiveAdjustments(j), adjustments') = Paise(ActiveAdjustments(j), adjustments)
      BY <3>2, SumOfSameRows
    <3> QED
      BY <3>1, <3>3 DEF Adjusted
  <2>10. a \in Nat
    OBVIOUS
  <2>11. Received(i)' + Adjusted(i)' = Received(i) + Adjusted(i) + a
    BY <1>2, <2>8, <2>10, SettledIsNatural
  <2> QED
    BY <1>1, <1>2, <2>1, <2>9, <2>10, <2>11, CheckedSettlement
<1>4. CASE ReverseAdjustment(x)
  <2>1. adjustments[x] \in AdjustmentRow
    BY <1>4, RowExists DEF ReverseAdjustment
  <2>2. /\ adjustments'[x].status = "REVERSED"
        /\ \A y \in Adjustments \ {x} : adjustments'[y] = adjustments[y]
    BY <1>4, <2>1 DEF ReverseAdjustment, TypeOK, AdjustmentRow
  <2>3. ASSUME NEW i \in Invoices PROVE Adjusted(i)' <= Adjusted(i)
    <3>1. ActiveAdjustments(i)' \in SUBSET ActiveAdjustments(i)
      BY <2>2 DEF ActiveAdjustments
    <3>2. \A y \in ActiveAdjustments(i)' : adjustments'[y].amount = adjustments[y].amount
      BY <2>2 DEF ActiveAdjustments
    <3>3. Cardinality(Paise(ActiveAdjustments(i)', adjustments'))
            <= Cardinality(Paise(ActiveAdjustments(i), adjustments))
      BY <3>1, <3>2, SettlementsAreFinite, SumOfFewer
    <3> QED
      BY <3>3 DEF Adjusted
  <2> QED
    BY <1>1, <1>2, <2>3, BalanceKept, SettledIsNatural
<1> QED
  BY <1>3, <1>4 DEF AdjustmentStep

LEMMA BalanceStep ==
  /\ TypeOK /\ TypeOK' /\ SettlementsHaveIssuedInvoice /\ NoOverpayment
  /\ [Next]_vars
  => NoOverpayment'
<1> SUFFICES ASSUME TypeOK, TypeOK', SettlementsHaveIssuedInvoice, NoOverpayment, [Next]_vars
             PROVE  NoOverpayment'
  OBVIOUS
<1>1. CASE UNCHANGED vars \/ \E new \in Rates : ChangeTaxRule(new)
  <2>1. UNCHANGED <<invoices, receipts, adjustments>>
    BY <1>1 DEF vars, billing, ChangeTaxRule
  <2> QED
    BY <2>1, AdjustmentsKept, ReceiptsKept DEF NoOverpayment, Due
<1> QED
  BY <1>1, BalanceInvoiceStep, BalanceReceiptStep, BalanceAdjustmentStep DEF Next

\* No order of receipts, confirmations, adjustments and reversals ever settles more than the
\* total of an issued invoice: the balance that is read is never negative.
THEOREM LedgerNoOverpayment == Spec => []NoOverpayment
<1>1. Init => NoOverpayment
  BY DEF Init, NoOverpayment, NoRow
<1>2. TypeOK /\ TypeOK' /\ SettlementsHaveIssuedInvoice /\ NoOverpayment /\ [Next]_vars
        => NoOverpayment'
  BY BalanceStep
<1> QED
  BY <1>1, <1>2, LedgerTyped, LedgerSettlementsHaveIssuedInvoice, PTL DEF Spec

-----------------------------------------------------------------------------
(* The ledger is a receivable *)

\* A step of one receipt leaves alone the invoices for which it is not, and was not, confirmed.
LEMMA ReceivedElsewhere ==
  ASSUME NEW r \in Receipts, NEW j \in Invoices, r \notin Confirmed(j), r \notin Confirmed(j)',
         \A q \in Receipts \ {r} : receipts'[q] = receipts[q]
  PROVE  Received(j)' = Received(j)
<1>1. Confirmed(j)' = Confirmed(j)
  BY DEF Confirmed
<1>2. \A q \in Confirmed(j) : receipts'[q].amount = receipts[q].amount
  BY DEF Confirmed
<1>3. Paise(Confirmed(j), receipts') = Paise(Confirmed(j), receipts)
  BY <1>2, SumOfSameRows
<1> QED
  BY <1>1, <1>3 DEF Received

LEMMA AdjustedElsewhere ==
  ASSUME NEW x \in Adjustments, NEW j \in Invoices,
         x \notin ActiveAdjustments(j), x \notin ActiveAdjustments(j)',
         \A y \in Adjustments \ {x} : adjustments'[y] = adjustments[y]
  PROVE  Adjusted(j)' = Adjusted(j)
<1>1. ActiveAdjustments(j)' = ActiveAdjustments(j)
  BY DEF ActiveAdjustments
<1>2. \A y \in ActiveAdjustments(j) : adjustments'[y].amount = adjustments[y].amount
  BY DEF ActiveAdjustments
<1>3. Paise(ActiveAdjustments(j), adjustments') = Paise(ActiveAdjustments(j), adjustments)
  BY <1>2, SumOfSameRows
<1> QED
  BY <1>1, <1>3 DEF Adjusted

LEMMA AccountKept ==
  ASSUME UNCHANGED invoices, \A j \in Invoices : Received(j)' = Received(j),
         \A j \in Invoices : Adjusted(j)' = Adjusted(j)
  PROVE  UNCHANGED Account!rvars
  BY DEF Account!rvars, AccountState, AccountClaim, AccountSettled

\* A step that changes what is settled on one issued invoice is a Settle of its account.
LEMMA AccountSettles ==
  ASSUME TypeOK, NoOverpayment', UNCHANGED invoices, NEW i \in Invoices,
         invoices[i].status = "ISSUED",
         \A j \in Invoices \ {i} : Received(j)' = Received(j) /\ Adjusted(j)' = Adjusted(j)
  PROVE  Account!Settle(i)
<1>1. AccountState[i] = "OPEN" /\ AccountClaim[i] = invoices[i].total
  BY DEF AccountState, AccountClaim
<1>2. UNCHANGED <<AccountState, AccountClaim>>
  BY DEF AccountState, AccountClaim
<1>3. AccountSettled' = [AccountSettled EXCEPT ![i] = AccountSettled'[i]]
  BY DEF AccountSettled
<1>4. /\ invoices[i].total \in Nat
      /\ Received(i)' \in Nat /\ Adjusted(i)' \in Nat
  BY RowExists, SettledIsNatural DEF InvoiceRow
<1>5. Due(i)' >= 0
  BY DEF NoOverpayment
<1>6. invoices[i].total - Received(i)' - Adjusted(i)' >= 0
  BY <1>5 DEF Due
<1>7. Received(i)' + Adjusted(i)' \in 0 .. invoices[i].total
  BY <1>4, <1>6
<1>8. AccountSettled'[i] \in 0 .. AccountClaim[i]
  BY <1>1, <1>7 DEF AccountSettled
<1> QED
  BY <1>1, <1>2, <1>3, <1>8 DEF Account!Settle

LEMMA AccountReceiptStep ==
  ASSUME TypeOK, TypeOK', SettlementsHaveIssuedInvoice, SettlementsHaveIssuedInvoice',
         NoOverpayment', NEW r \in Receipts, ReceiptStep(r)
  PROVE  Account!Next \/ UNCHANGED Account!rvars
<1>1. /\ UNCHANGED <<invoices, adjustments>>
      /\ \A q \in Receipts \ {r} : receipts'[q] = receipts[q]
  BY OneReceiptChanges
<1>0. receipts[r].status = "CONFIRMED" => receipts'[r].status = "REVERSED"
  <2> SUFFICES ASSUME receipts[r].status = "CONFIRMED" PROVE receipts'[r].status = "REVERSED"
    OBVIOUS
  <2>1. receipts[r] # NoRow
    BY DEF NoRow
  <2>2. ReverseReceipt(r)
    BY <2>1, ZenonT(40) DEF ReceiptStep, CreateReceipt, ConfirmReceipt
  <2> QED
    BY <2>2, RowExists DEF ReverseReceipt, TypeOK, ReceiptRow
<1>2. \A j \in Invoices : Adjusted(j)' = Adjusted(j)
  BY <1>1, AdjustmentsKept
<1>3. CASE receipts[r].status # "CONFIRMED" /\ receipts'[r].status # "CONFIRMED"
  <2>1. \A j \in Invoices : r \notin Confirmed(j) /\ r \notin Confirmed(j)'
    BY <1>3 DEF Confirmed
  <2>2. \A j \in Invoices : Received(j)' = Received(j)
    BY <1>1, <2>1, ReceivedElsewhere
  <2> QED
    BY <1>1, <1>2, <2>2, AccountKept
<1>4. ASSUME NEW i \in Invoices, invoices[i].status = "ISSUED",
             \A j \in Invoices \ {i} : r \notin Confirmed(j) /\ r \notin Confirmed(j)'
      PROVE  Account!Next
  <2>1. \A j \in Invoices \ {i} : Received(j)' = Received(j)
    BY <1>1, <1>4, ReceivedElsewhere
  <2>2. Account!Settle(i)
    BY <1>1, <1>2, <1>4, <2>1, AccountSettles
  <2> QED
    BY <2>2 DEF Account!Next
<1>5. CASE receipts[r].status = "CONFIRMED"
  <2>1. receipts[r].invoice \in Invoices /\ invoices[receipts[r].invoice].status = "ISSUED"
    BY <1>5, RowExists DEF ReceiptRow, SettlementsHaveIssuedInvoice
  <2>2. \A j \in Invoices \ {receipts[r].invoice} : r \notin Confirmed(j) /\ r \notin Confirmed(j)'
    BY <1>0, <1>5 DEF Confirmed
  <2> QED
    BY <1>4, <2>1, <2>2
<1>6. CASE receipts[r].status # "CONFIRMED" /\ receipts'[r].status = "CONFIRMED"
  <2>1. receipts'[r].invoice \in Invoices
    BY <1>6 DEF TypeOK, ReceiptRow, NoRow
  <2>2. invoices[receipts'[r].invoice].status = "ISSUED"
    BY <1>1, <1>6 DEF SettlementsHaveIssuedInvoice
  <2>3. \A j \in Invoices \ {receipts'[r].invoice} :
          r \notin Confirmed(j) /\ r \notin Confirmed(j)'
    BY <1>6 DEF Confirmed
  <2> QED
    BY <1>4, <2>1, <2>2, <2>3
<1> QED
  BY <1>3, <1>5, <1>6

LEMMA AccountAdjustmentStep ==
  ASSUME TypeOK, TypeOK', SettlementsHaveIssuedInvoice, SettlementsHaveIssuedInvoice',
         NoOverpayment', NEW x \in Adjustments, AdjustmentStep(x)
  PROVE  Account!Next
<1>1. /\ UNCHANGED <<invoices, receipts>>
      /\ \A y \in Adjustments \ {x} : adjustments'[y] = adjustments[y]
  BY DEF AdjustmentStep, CreateAdjustment, ReverseAdjustment, TypeOK
<1>2. \A j \in Invoices : Received(j)' = Received(j)
  BY <1>1, ReceiptsKept
<1>3. ASSUME NEW i \in Invoices, invoices[i].status = "ISSUED",
             \A j \in Invoices \ {i} :
               x \notin ActiveAdjustments(j) /\ x \notin ActiveAdjustments(j)'
      PROVE  Account!Next
  <2>1. \A j \in Invoices \ {i} : Adjusted(j)' = Adjusted(j)
    BY <1>1, <1>3, AdjustedElsewhere
  <2>2. Account!Settle(i)
    BY <1>1, <1>2, <1>3, <2>1, AccountSettles
  <2> QED
    BY <2>2 DEF Account!Next
<1>4. ASSUME NEW i \in Invoices, NEW d \in Dates, NEW a \in Amounts, NEW k \in Keys,
             CreateAdjustment(x, i, d, a, k)
      PROVE  Account!Next
  <2>1. /\ adjustments[x] = NoRow
        /\ adjustments'[x].invoice = i
        /\ invoices[i].status = "ISSUED"
    BY <1>4 DEF CreateAdjustment, TypeOK, RequireIssued
  <2>2. \A j \in Invoices \ {i} : x \notin ActiveAdjustments(j) /\ x \notin ActiveAdjustments(j)'
    BY <2>1 DEF ActiveAdjustments, NoRow
  <2> QED
    BY <1>3, <2>1, <2>2
<1>5. CASE ReverseAdjustment(x)
  <2>1. adjustments[x] \in AdjustmentRow /\ adjustments[x].status = "ACTIVE"
    BY <1>5, RowExists DEF ReverseAdjustment
  <2>2. /\ adjustments'[x].status = "REVERSED"
        /\ adjustments[x].invoice \in Invoices
        /\ invoices[adjustments[x].invoice].status = "ISSUED"
    BY <1>5, <2>1 DEF ReverseAdjustment, TypeOK, AdjustmentRow, SettlementsHaveIssuedInvoice
  <2>3. \A j \in Invoices \ {adjustments[x].invoice} :
          x \notin ActiveAdjustments(j) /\ x \notin ActiveAdjustments(j)'
    BY <2>2 DEF ActiveAdjustments
  <2> QED
    BY <1>3, <2>2, <2>3
<1> QED
  BY <1>4, <1>5 DEF AdjustmentStep

\* A step of an invoice opens its account, closes it, or cannot be seen.
LEMMA AccountInvoiceStep ==
  ASSUME TypeOK, TypeOK', SettlementsHaveIssuedInvoice,
         NEW u \in Users, NEW i \in Invoices, InvoiceStep(u, i)
  PROVE  Account!Next \/ UNCHANGED Account!rvars
<1>1. UNCHANGED <<receipts, adjustments>>
  BY DEF InvoiceStep, Load, CreateDraft, UpdateDraft, Issue, Cancel, ImportInvoice, billing
<1>2. UNCHANGED AccountSettled
  BY <1>1 DEF AccountSettled, Received, Adjusted, Confirmed, ActiveAdjustments, Paise
<1>3. \A j \in Invoices \ {i} : invoices'[j] = invoices[j]
  BY DEF InvoiceStep, Load, CreateDraft, UpdateDraft, Issue, Cancel, ImportInvoice, billing,
         TypeOK
<1>4. invoices'[i].status = "ISSUED" => invoices'[i].total \in Nat
  BY DEF TypeOK, InvoiceRow, NoRow
<1>5. ASSUME invoices[i].status \in {"NONE", "DRAFT"}, invoices'[i].status \in {"NONE", "DRAFT"}
      PROVE  UNCHANGED Account!rvars
  <2>1. UNCHANGED AccountState
    BY <1>3, <1>5 DEF AccountState
  <2>2. UNCHANGED AccountClaim
    BY <1>3, <1>5 DEF AccountClaim
  <2> QED
    BY <1>2, <2>1, <2>2 DEF Account!rvars
<1>6. ASSUME invoices[i].status \in {"NONE", "DRAFT"}, invoices'[i].status = "ISSUED"
      PROVE  Account!Open(i)
  <2>1. AccountState[i] = "PREPARED"
    BY <1>6 DEF AccountState
  <2>2. AccountState' = [AccountState EXCEPT ![i] = "OPEN"]
    BY <1>3, <1>6 DEF AccountState
  <2>3. AccountClaim'[i] \in Nat
    BY <1>4, <1>6 DEF AccountClaim
  <2>4. AccountClaim' = [AccountClaim EXCEPT ![i] = AccountClaim'[i]]
    BY <1>3 DEF AccountClaim
  <2> QED
    BY <1>2, <2>1, <2>2, <2>3, <2>4 DEF Account!Open
<1>7. ASSUME invoices[i].status = "ISSUED", invoices'[i].status = "CANCELLED",
             invoices'[i].total = invoices[i].total, Unsettled(i)
      PROVE  Account!Close(i)
  <2>1. AccountState[i] = "OPEN" /\ AccountState' = [AccountState EXCEPT ![i] = "CLOSED"]
    BY <1>3, <1>7 DEF AccountState
  <2>2. UNCHANGED AccountClaim
    BY <1>3, <1>7 DEF AccountClaim
  <2>3. Confirmed(i) = {} /\ ActiveAdjustments(i) = {}
    BY <1>7 DEF Unsettled, Confirmed
  <2>4. Received(i) = 0 /\ Adjusted(i) = 0
    BY <2>3, SumOfNothing DEF Received, Adjusted
  <2>5. AccountSettled[i] = 0
    BY <2>4 DEF AccountSettled
  <2> QED
    BY <1>2, <2>1, <2>2, <2>5 DEF Account!Close
<1>8. CASE Load(u, i)
  <2>1. UNCHANGED <<AccountState, AccountClaim>>
    BY <1>8 DEF Load, billing, AccountState, AccountClaim
  <2> QED
    BY <1>2, <2>1 DEF Account!rvars
<1>9. ASSUME NEW c \in Companies, NEW d \in Dates, NEW a \in Prices,
             CreateDraft(u, i, c, d, a) \/ UpdateDraft(u, i, c, d, a)
      PROVE  UNCHANGED Account!rvars
  <2>1. invoices[i].status \in {"NONE", "DRAFT"}
    BY <1>9 DEF CreateDraft, UpdateDraft, Editable, NoRow
  <2>2. invoices'[i].status = "DRAFT"
    BY <1>9 DEF CreateDraft, UpdateDraft, Draft, TypeOK
  <2> QED
    BY <1>5, <2>1, <2>2
<1>10. CASE Issue(u, i)
  <2>1. invoices[i] \in InvoiceRow /\ invoices[i].status = "DRAFT"
    BY <1>10, RowExists DEF Issue, Editable
  <2>2. invoices'[i].status = "ISSUED"
    BY <1>10, <2>1 DEF Issue, TypeOK, InvoiceRow
  <2> QED
    BY <1>6, <2>1, <2>2 DEF Account!Next
<1>11. CASE Cancel(u, i)
  <2>1. invoices[i] \in InvoiceRow /\ invoices[i].status = "ISSUED" /\ Unsettled(i)
    BY <1>11, RowExists DEF Cancel
  <2>2. invoices'[i].status = "CANCELLED" /\ invoices'[i].total = invoices[i].total
    BY <1>11, <2>1 DEF Cancel, TypeOK, InvoiceRow
  <2> QED
    BY <1>7, <2>1, <2>2 DEF Account!Next
<1>12. ASSUME NEW c \in Companies, NEW d \in Dates, NEW a \in Prices, NEW n \in LegacyNumbers,
              NEW src \in Sources, ImportInvoice(u, i, c, d, a, n, src)
       PROVE  Account!Next
  <2>1. invoices[i].status = "NONE"
    <3>1. invoices[i] = NoRow
      BY <1>12 DEF ImportInvoice
    <3> QED
      BY <3>1 DEF NoRow
  <2>2. invoices'[i].status = "ISSUED"
    BY <1>12 DEF ImportInvoice, TypeOK
  <2> QED
    BY <1>6, <2>1, <2>2 DEF Account!Next
<1> QED
  BY <1>8, <1>9, <1>10, <1>11, <1>12 DEF InvoiceStep

LEMMA AccountStep ==
  /\ TypeOK /\ TypeOK' /\ SettlementsHaveIssuedInvoice /\ SettlementsHaveIssuedInvoice'
  /\ NoOverpayment' /\ [Next]_vars
  => [Account!Next]_(Account!rvars)
<1> SUFFICES ASSUME TypeOK, TypeOK', SettlementsHaveIssuedInvoice,
                    SettlementsHaveIssuedInvoice', NoOverpayment', [Next]_vars
             PROVE  Account!Next \/ UNCHANGED Account!rvars
  OBVIOUS
<1>1. CASE UNCHANGED vars \/ \E new \in Rates : ChangeTaxRule(new)
  <2>1. UNCHANGED <<invoices, receipts, adjustments>>
    BY <1>1 DEF vars, billing, ChangeTaxRule
  <2> QED
    BY <2>1, AdjustmentsKept, ReceiptsKept, AccountKept
<1> QED
  BY <1>1, AccountInvoiceStep, AccountReceiptStep, AccountAdjustmentStep DEF Next

\* The ledger, with its drafts, repeated requests, number series, reversals, imports and
\* cancellations, implements the receivable: whatever is done to an invoice in whatever order,
\* its claim is opened once, never changes, is settled between nothing and its amount, and is
\* closed only while nothing is settled.
THEOREM LedgerImplementsReceivable == Spec => LedgerIsReceivable
<1>1. Init => Account!Init
  <2> SUFFICES ASSUME Init PROVE Account!Init
    OBVIOUS
  <2>1. \A i \in Invoices : Confirmed(i) = {} /\ ActiveAdjustments(i) = {}
    BY DEF Init, Confirmed, ActiveAdjustments, NoRow
  <2>2. \A i \in Invoices : Received(i) = 0 /\ Adjusted(i) = 0
    BY <2>1, SumOfNothing DEF Received, Adjusted
  <2>3. AccountSettled = [i \in Invoices |-> 0]
    BY <2>2 DEF AccountSettled
  <2>4. /\ AccountState = [i \in Invoices |-> "PREPARED"]
        /\ AccountClaim = [i \in Invoices |-> 0]
    BY DEF Init, NoRow, AccountState, AccountClaim
  <2> QED
    BY <2>3, <2>4 DEF Account!Init
<1>2. /\ TypeOK /\ TypeOK' /\ SettlementsHaveIssuedInvoice /\ SettlementsHaveIssuedInvoice'
      /\ NoOverpayment' /\ [Next]_vars
      => [Account!Next]_(Account!rvars)
  BY AccountStep
<1> QED
  BY <1>1, <1>2, LedgerTyped, LedgerSettlementsHaveIssuedInvoice, LedgerNoOverpayment, PTL
  DEF Spec, LedgerIsReceivable, Account!Spec

-----------------------------------------------------------------------------
(* Number series *)

\* The series an invoice is numbered in.
InvoiceSeries(row) == SeriesOf(row.company, row.date, "I")

LEMMA RowSeries ==
  ASSUME NEW row \in InvoiceRow
  PROVE  InvoiceSeries(row) \in Series
  BY SeriesExists DEF InvoiceRow, InvoiceSeries

\* Taking a number moves one counter by one.
LEMMA NumberTaken ==
  ASSUME TypeOK, NEW s \in Series, TakeNumber(s)
  PROVE  /\ NextNumber(s) \in Nat \ {0} /\ NextNumber(s) = counters[s] + 1
         /\ counters'[s] = counters[s] + 1
         /\ \A t \in Series \ {s} : counters'[t] = counters[t]
         /\ \A t \in Series : counters[t] \in Nat /\ counters[t] <= counters'[t]
  BY DEF TypeOK, TakeNumber, NextNumber

\* A row is written whose number is behind its counter, and is 0 or that of no other row of the
\* series; no counter goes back.
LEMMA NumberWritten ==
  ASSUME TypeOK, InvoiceSeriesAhead, NEW i \in Invoices, NEW row \in InvoiceRow,
         invoices' = [invoices EXCEPT ![i] = row],
         \A s \in Series : counters'[s] \in Nat /\ counters[s] <= counters'[s],
         row.number <= counters'[InvoiceSeries(row)],
         row.number # 0 =>
           \A j \in Invoices \ {i} :
             (invoices[j] # NoRow /\ InvoiceSeries(invoices[j]) = InvoiceSeries(row)) =>
               invoices[j].number # row.number
  PROVE  InvoiceSeriesAhead'
<1>1. invoices'[i] = row /\ \A j \in Invoices \ {i} : invoices'[j] = invoices[j]
  BY DEF TypeOK
<1>2. ASSUME NEW j \in Invoices, invoices'[j] # NoRow
      PROVE  invoices'[j].number <= counters'[SeriesOf(invoices'[j].company, invoices'[j].date, "I")]
  <2>1. CASE j = i
    BY <1>1, <2>1 DEF InvoiceSeries
  <2>2. CASE j # i
    <3> DEFINE s == InvoiceSeries(invoices[j])
    <3>1. invoices'[j] = invoices[j] /\ invoices[j] \in InvoiceRow
      BY <1>1, <1>2, <2>2, RowExists
    <3>2. s \in Series /\ invoices[j].number \in Int /\ invoices[j].number <= counters[s]
      BY <1>2, <3>1, RowSeries DEF InvoiceSeriesAhead, InvoiceSeries, InvoiceRow
    <3>3. counters[s] \in Nat /\ counters'[s] \in Nat /\ counters[s] <= counters'[s]
      BY <3>2 DEF TypeOK
    <3>4. invoices[j].number <= counters'[s]
      BY <3>2, <3>3
    <3> QED
      BY <3>1, <3>4 DEF InvoiceSeries
  <2> QED
    BY <2>1, <2>2
<1>3. ASSUME NEW j \in Invoices, NEW k \in Invoices \ {j}, invoices'[j] # NoRow,
             invoices'[k] # NoRow, invoices'[j].number # 0,
             InvoiceSeries(invoices'[j]) = InvoiceSeries(invoices'[k])
      PROVE  invoices'[j].number # invoices'[k].number
  <2>1. CASE j = i
    BY <1>1, <1>3, <2>1
  <2>2. CASE k = i
    <3>1. CASE row.number = 0
      BY <1>1, <1>3, <2>2, <3>1
    <3>2. CASE row.number # 0
      BY <1>1, <1>3, <2>2, <3>2
    <3> QED
      BY <3>1, <3>2
  <2>3. CASE j # i /\ k # i
    BY <1>1, <1>3, <2>3 DEF InvoiceSeriesAhead, InvoiceSeries
  <2> QED
    BY <2>1, <2>2, <2>3
<1> QED
  BY <1>2, <1>3 DEF InvoiceSeriesAhead, InvoiceSeries

LEMMA SeriesInvoiceStep ==
  ASSUME TypeOK, TypeOK', InvoiceSeriesAhead, NEW u \in Users, NEW i \in Invoices,
         InvoiceStep(u, i)
  PROVE  InvoiceSeriesAhead'
<1>1. CASE Load(u, i)
  BY <1>1 DEF Load, billing, InvoiceSeriesAhead
<1>2. ASSUME NEW v \in Nat, NEW c \in Companies, NEW d \in Dates, NEW a \in Prices,
             invoices' = [invoices EXCEPT ![i] = Draft(u, v, c, d, a)], UNCHANGED counters
      PROVE  InvoiceSeriesAhead'
  <2> DEFINE row == Draft(u, v, c, d, a)
  <2>1. row \in InvoiceRow /\ row.number = 0
    BY DraftIsARow DEF TypeOK, Draft
  <2>2. InvoiceSeries(row) \in Series
    BY <2>1, RowSeries
  <2>3. \A s \in Series : counters'[s] \in Nat /\ counters[s] <= counters'[s]
    BY <1>2 DEF TypeOK
  <2>4. row.number <= counters'[InvoiceSeries(row)]
    BY <2>1, <2>2, <2>3
  <2> HIDE DEF row
  <2> QED
    BY <1>2, <2>1, <2>3, <2>4, NumberWritten DEF row
<1>3. ASSUME NEW c \in Companies, NEW d \in Dates, NEW a \in Prices, CreateDraft(u, i, c, d, a)
      PROVE  InvoiceSeriesAhead'
  BY <1>2, <1>3 DEF CreateDraft
<1>4. ASSUME NEW c \in Companies, NEW d \in Dates, NEW a \in Prices, UpdateDraft(u, i, c, d, a)
      PROVE  InvoiceSeriesAhead'
  <2>1. invoices[i].version + 1 \in Nat
    BY <1>4, RowExists DEF UpdateDraft, Editable, InvoiceRow
  <2> QED
    BY <1>2, <1>4, <2>1 DEF UpdateDraft
<1>5. CASE Issue(u, i)
  <2> DEFINE s == InvoiceSeries(invoices[i])
             row == [invoices[i] EXCEPT !.status = "ISSUED", !.number = NextNumber(s),
                       !.rate = rate, !.total = GrandTotal(invoices[i].amount, rate),
                       !.version = invoices[i].version + 1, !.by = u]
  <2>1. invoices[i] \in InvoiceRow
    BY <1>5, RowExists DEF Issue, Editable
  <2>2. s \in Series
    BY <2>1, RowSeries
  <2>3. TakeNumber(s) /\ invoices' = [invoices EXCEPT ![i] = row]
    BY <1>5 DEF Issue, InvoiceSeries
  <2>4. rate \in Nat /\ GrandTotal(invoices[i].amount, rate) \in Nat
    BY <2>1, TotalIsNatural DEF InvoiceRow, TypeOK
  <2>5. /\ NextNumber(s) \in Nat /\ NextNumber(s) = counters[s] + 1
        /\ counters'[s] = NextNumber(s)
        /\ \A t \in Series : counters'[t] \in Nat /\ counters[t] <= counters'[t]
    BY <2>2, <2>3, NumberTaken DEF TypeOK
  <2>6. row \in InvoiceRow
    BY <2>1, <2>4, <2>5, PublishedIsARow
  <2>7. row.number = NextNumber(s) /\ InvoiceSeries(row) = s
    BY <2>1 DEF InvoiceRow, InvoiceSeries
  <2>8. ASSUME NEW j \in Invoices, invoices[j] # NoRow, InvoiceSeries(invoices[j]) = s
        PROVE  invoices[j].number # NextNumber(s)
    <3>1. invoices[j].number <= counters[s] /\ invoices[j].number \in Int
      BY <2>8, RowExists DEF InvoiceSeriesAhead, InvoiceSeries, InvoiceRow
    <3> QED
      BY <2>2, <2>5, <3>1 DEF TypeOK
  <2>9. row.number <= counters'[InvoiceSeries(row)]
    BY <2>5, <2>7
  <2> HIDE DEF row, s
  <2> QED
    BY <2>3, <2>5, <2>6, <2>7, <2>8, <2>9, NumberWritten
<1>6. CASE Cancel(u, i)
  <2> DEFINE row == [invoices[i] EXCEPT !.status = "CANCELLED",
                       !.version = invoices[i].version + 1, !.by = u]
  <2>1. invoices[i] \in InvoiceRow /\ invoices[i] # NoRow
    BY <1>6, RowExists DEF Cancel, NoRow
  <2>2. row \in InvoiceRow
    BY <2>1, ClosedIsARow
  <2>3. row.number = invoices[i].number /\ InvoiceSeries(row) = InvoiceSeries(invoices[i])
    BY <2>1 DEF InvoiceRow, InvoiceSeries
  <2>4. invoices' = [invoices EXCEPT ![i] = row] /\ UNCHANGED counters
    BY <1>6 DEF Cancel
  <2>5. \A s \in Series : counters'[s] \in Nat /\ counters[s] <= counters'[s]
    BY <2>4 DEF TypeOK
  <2>6. /\ row.number <= counters'[InvoiceSeries(row)]
        /\ row.number # 0 => \A j \in Invoices \ {i} :
             (invoices[j] # NoRow /\ InvoiceSeries(invoices[j]) = InvoiceSeries(row)) =>
               invoices[j].number # row.number
    <3> HIDE DEF row
    <3> QED
      BY <2>1, <2>3, <2>4 DEF InvoiceSeriesAhead, InvoiceSeries
  <2> HIDE DEF row
  <2> QED
    BY <2>2, <2>4, <2>5, <2>6, NumberWritten
<1>7. ASSUME NEW c \in Companies, NEW d \in Dates, NEW a \in Prices, NEW n \in LegacyNumbers,
             NEW src \in Sources, ImportInvoice(u, i, c, d, a, n, src)
      PROVE  InvoiceSeriesAhead'
  <2> DEFINE s == SeriesOf(c, d, "I")
             row == [status |-> "ISSUED", version |-> 1, company |-> c, date |-> d,
                     amount |-> a, rate |-> 0, total |-> a, number |-> n, source |-> src,
                     by |-> u]
  <2>1. s \in Series
    BY SeriesExists
  <2>2. row \in InvoiceRow /\ row.number = n /\ InvoiceSeries(row) = s
    BY DEF InvoiceRow, InvoiceSeries
  <2>3. /\ invoices' = [invoices EXCEPT ![i] = row]
        /\ counters' = IF n > 0 THEN [counters EXCEPT ![s] = RaiseCounter(s, n)] ELSE counters
    BY <1>7 DEF ImportInvoice
  <2>4. /\ \A t \in Series : counters'[t] \in Nat /\ counters[t] <= counters'[t]
        /\ n <= counters'[s]
    <3>1. n \in Int /\ counters[s] \in Nat
      BY <2>1 DEF TypeOK
    <3>2. CASE n > 0
      <4>1. RaiseCounter(s, n) \in Nat /\ counters[s] <= RaiseCounter(s, n)
            /\ n <= RaiseCounter(s, n)
        BY <3>1, <3>2 DEF RaiseCounter
      <4> HIDE DEF s
      <4> QED
        BY <2>1, <2>3, <3>2, <4>1 DEF TypeOK
    <3>3. CASE ~ (n > 0)
      <4> HIDE DEF s
      <4> QED
        BY <2>1, <2>3, <3>1, <3>3 DEF TypeOK
    <3> QED
      BY <3>2, <3>3
  <2>5. ASSUME NEW j \in Invoices, invoices[j] # NoRow, InvoiceSeries(invoices[j]) = s
        PROVE  invoices[j].number # n
    BY <1>7, <2>5 DEF ImportInvoice, NumberFree, InvoiceSeries, SeriesOf
  <2> HIDE DEF row, s
  <2> QED
    BY <2>2, <2>3, <2>4, <2>5, NumberWritten
<1> QED
  BY <1>1, <1>3, <1>4, <1>5, <1>6, <1>7 DEF InvoiceStep

\* Receipts take numbers of their own series.
LEMMA SeriesReceiptStep ==
  ASSUME TypeOK, TypeOK', InvoiceSeriesAhead, NEW r \in Receipts, ReceiptStep(r)
  PROVE  InvoiceSeriesAhead'
<1>1. CASE UNCHANGED <<invoices, counters>>
  BY <1>1 DEF InvoiceSeriesAhead
<1>2. ASSUME NEW i \in Invoices, NEW d \in Dates, NEW a \in Amounts,
             NEW method \in {"MANUAL", "GATEWAY"}, NEW status \in {"PENDING", "CONFIRMED"},
             NEW k \in Keys, CreateReceipt(r, i, d, a, method, status, k)
      PROVE  InvoiceSeriesAhead'
  <2> DEFINE s == SeriesOf(invoices[i].company, d, "R")
  <2>1. s \in Series
    BY <1>2, RowExists, SeriesExists DEF CreateReceipt, RequireIssued, InvoiceRow
  <2>2. \A t \in Series : t[3] = "I" => counters'[t] = counters[t]
    <3>1. s[3] = "R" /\ TakeNumber(s)
      BY <1>2 DEF CreateReceipt, SeriesOf
    <3> HIDE DEF s
    <3> QED
      BY <2>1, <3>1, NumberTaken
  <2>3. \A j \in Invoices : invoices[j] # NoRow =>
          /\ SeriesOf(invoices[j].company, invoices[j].date, "I") \in Series
          /\ SeriesOf(invoices[j].company, invoices[j].date, "I")[3] = "I"
    BY RowExists, RowSeries DEF InvoiceSeries, SeriesOf
  <2>4. UNCHANGED invoices
    BY <1>2 DEF CreateReceipt
  <2> QED
    BY <2>2, <2>3, <2>4 DEF InvoiceSeriesAhead
<1> QED
  BY <1>1, <1>2 DEF ReceiptStep, ConfirmReceipt, ReverseReceipt

LEMMA SeriesStep == TypeOK /\ TypeOK' /\ InvoiceSeriesAhead /\ [Next]_vars => InvoiceSeriesAhead'
<1> SUFFICES ASSUME TypeOK, TypeOK', InvoiceSeriesAhead, [Next]_vars
             PROVE  InvoiceSeriesAhead'
  OBVIOUS
<1>1. CASE UNCHANGED <<invoices, counters>>
  BY <1>1 DEF InvoiceSeriesAhead
<1> QED
  BY <1>1, SeriesInvoiceStep, SeriesReceiptStep
  DEF Next, AdjustmentStep, CreateAdjustment, ReverseAdjustment, ChangeTaxRule, vars, billing

\* No two invoices of a series have one number, and no number is ahead of its counter, whatever
\* is drafted, issued, cancelled or imported in which order.
THEOREM LedgerInvoiceSeriesAhead == Spec => []InvoiceSeriesAhead
<1>1. Init => InvoiceSeriesAhead
  BY DEF Init, InvoiceSeriesAhead
<1>2. TypeOK /\ TypeOK' /\ InvoiceSeriesAhead /\ [Next]_vars => InvoiceSeriesAhead'
  BY SeriesStep
<1> QED
  BY <1>1, <1>2, LedgerTyped, PTL DEF Spec

\* The series of a receipt.
ReceiptSeries(row) == SeriesOf(row.company, row.date, "R")

LEMMA ReceiptRowSeries ==
  ASSUME NEW row \in ReceiptRow
  PROVE  ReceiptSeries(row) \in Series /\ row.number \in Nat
  BY SeriesExists DEF ReceiptRow, ReceiptSeries

\* A receipt keeps its number and its series when its status changes.
LEMMA NumbersKept ==
  ASSUME TypeOK, ReceiptSeriesGapless, NEW r \in Receipts, receipts[r] # NoRow,
         NEW status \in {"PENDING", "CONFIRMED", "REVERSED"},
         receipts' = [receipts EXCEPT ![r] = [receipts[r] EXCEPT !.status = status]],
         UNCHANGED counters
  PROVE  ReceiptSeriesGapless'
<1> DEFINE row == [receipts[r] EXCEPT !.status = status]
<1>1. receipts[r] \in ReceiptRow
  BY RowExists
<1>2. /\ row.number = receipts[r].number /\ row.company = receipts[r].company
      /\ row.date = receipts[r].date /\ row.status = status
  BY <1>1 DEF ReceiptRow
<1>3. row # NoRow
  BY <1>2 DEF NoRow
<1>4. receipts' = [receipts EXCEPT ![r] = row]
  OBVIOUS
<1> HIDE DEF row
<1>5. \A q \in Receipts :
        /\ receipts'[q] # NoRow <=> receipts[q] # NoRow
        /\ receipts[q] # NoRow => /\ receipts'[q].number = receipts[q].number
                                  /\ receipts'[q].company = receipts[q].company
                                  /\ receipts'[q].date = receipts[q].date
  BY <1>2, <1>3, <1>4 DEF TypeOK
<1>6. \A s \in Series : ReceiptsIn(s)' = ReceiptsIn(s)
  BY <1>5 DEF ReceiptsIn
<1>7. ASSUME NEW s \in Series
      PROVE  {receipts'[q].number : q \in ReceiptsIn(s)} = {receipts[q].number : q \in ReceiptsIn(s)}
             /\ \A q \in ReceiptsIn(s) : receipts'[q].number = receipts[q].number
  BY <1>5 DEF ReceiptsIn
<1> QED
  BY <1>6, <1>7 DEF ReceiptSeriesGapless

\* The next number extends its series by one and leaves the others.
LEMMA NumberAppended ==
  ASSUME TypeOK, ReceiptSeriesGapless, NEW r \in Receipts, receipts[r] = NoRow,
         NEW row \in ReceiptRow, receipts' = [receipts EXCEPT ![r] = row],
         TakeNumber(ReceiptSeries(row)), row.number = NextNumber(ReceiptSeries(row))
  PROVE  ReceiptSeriesGapless'
<1> DEFINE t == ReceiptSeries(row)
<1>1. t \in Series
  BY ReceiptRowSeries
<1>2. /\ row.number = counters[t] + 1 /\ counters'[t] = counters[t] + 1 /\ counters[t] \in Nat
      /\ \A s \in Series \ {t} : counters'[s] = counters[s]
  BY <1>1, NumberTaken
<1>3. receipts'[r] = row /\ \A q \in Receipts \ {r} : receipts'[q] = receipts[q]
  BY DEF TypeOK
<1>4. row # NoRow
  BY DEF ReceiptRow, NoRow
<1>5. \A s \in Series : r \notin ReceiptsIn(s) /\ ReceiptsIn(s) \subseteq Receipts
  BY DEF ReceiptsIn
<1>6. ReceiptsIn(t)' = ReceiptsIn(t) \cup {r}
  BY <1>3, <1>4 DEF ReceiptsIn, ReceiptSeries
<1>7. \A s \in Series \ {t} : ReceiptsIn(s)' = ReceiptsIn(s)
  BY <1>3, <1>5 DEF ReceiptsIn, ReceiptSeries
<1> HIDE DEF t
<1>8. ASSUME NEW s \in Series, s[3] = "R"
      PROVE  /\ {receipts'[q].number : q \in ReceiptsIn(s)'} = 1 .. counters'[s]
             /\ \A q, p \in ReceiptsIn(s)' :
                  receipts'[q].number = receipts'[p].number => q = p
  <2>1. /\ {receipts[q].number : q \in ReceiptsIn(s)} = 1 .. counters[s]
        /\ \A q, p \in ReceiptsIn(s) : receipts[q].number = receipts[p].number => q = p
    BY <1>8 DEF ReceiptSeriesGapless
  <2>2. \A q \in ReceiptsIn(s) : receipts'[q] = receipts[q]
    BY <1>3, <1>5
  <2>3. CASE s # t
    BY <1>2, <1>7, <2>1, <2>2, <2>3
  <2>4. CASE s = t
    <3>1. {receipts'[q].number : q \in ReceiptsIn(s)'} = (1 .. counters[s]) \cup {counters[s] + 1}
      BY <1>2, <1>3, <1>6, <2>1, <2>2, <2>4
    <3>2. \A q \in ReceiptsIn(s) : receipts[q].number \in 1 .. counters[s]
      BY <2>1
    <3>3. \A q \in ReceiptsIn(s) : receipts'[q].number # receipts'[r].number
      BY <1>2, <1>3, <2>2, <2>4, <3>2
    <3> QED
      BY <1>2, <1>6, <2>1, <2>2, <2>4, <3>1, <3>3
  <2> QED
    BY <2>3, <2>4
<1> QED
  BY <1>8 DEF ReceiptSeriesGapless

\* Invoices take numbers of their own series.
LEMMA GaplessInvoiceStep ==
  ASSUME TypeOK, ReceiptSeriesGapless, NEW u \in Users, NEW i \in Invoices, InvoiceStep(u, i)
  PROVE  ReceiptSeriesGapless'
<1>1. UNCHANGED receipts
  BY DEF InvoiceStep, Load, CreateDraft, UpdateDraft, Issue, Cancel, ImportInvoice, billing
<1>2. \A s \in Series : s[3] = "R" => counters'[s] = counters[s]
  <2>1. CASE UNCHANGED counters
    BY <2>1
  <2>2. CASE Issue(u, i)
    <3> DEFINE t == InvoiceSeries(invoices[i])
    <3>1. t \in Series
      BY <2>2, RowExists, RowSeries DEF Issue, Editable
    <3>2. t[3] = "I" /\ TakeNumber(t)
      BY <2>2 DEF Issue, InvoiceSeries, SeriesOf
    <3> HIDE DEF t
    <3> QED
      BY <3>1, <3>2, NumberTaken
  <2>3. ASSUME NEW c \in Companies, NEW d \in Dates, NEW a \in Prices, NEW n \in LegacyNumbers,
               NEW src \in Sources, ImportInvoice(u, i, c, d, a, n, src)
        PROVE  \A s \in Series : s[3] = "R" => counters'[s] = counters[s]
    <3> DEFINE t == SeriesOf(c, d, "I")
    <3>1. t[3] = "I"
      BY DEF SeriesOf
    <3>2. counters' = [counters EXCEPT ![t] = RaiseCounter(t, n)] \/ counters' = counters
      BY <2>3 DEF ImportInvoice
    <3> HIDE DEF t
    <3> QED
      BY <3>1, <3>2 DEF TypeOK
  <2> QED
    BY <2>1, <2>2, <2>3 DEF InvoiceStep, Load, CreateDraft, UpdateDraft, Cancel, billing
<1> QED
  BY <1>1, <1>2 DEF ReceiptSeriesGapless, ReceiptsIn

LEMMA GaplessReceiptStep ==
  ASSUME TypeOK, ReceiptSeriesGapless, NEW r \in Receipts, ReceiptStep(r)
  PROVE  ReceiptSeriesGapless'
<1>1. ASSUME NEW i \in Invoices, NEW d \in Dates, NEW a \in Amounts,
             NEW method \in {"MANUAL", "GATEWAY"}, NEW status \in {"PENDING", "CONFIRMED"},
             NEW k \in Keys, CreateReceipt(r, i, d, a, method, status, k)
      PROVE  ReceiptSeriesGapless'
  <2> DEFINE s == SeriesOf(invoices[i].company, d, "R")
             row == [status |-> status, invoice |-> i, company |-> invoices[i].company,
                     date |-> d, amount |-> a, method |-> method, key |-> k,
                     number |-> NextNumber(s)]
  <2>1. invoices[i].company \in Companies
    BY <1>1, RowExists DEF CreateReceipt, RequireIssued, InvoiceRow
  <2>2. s \in Series
    BY <2>1, SeriesExists
  <2>3. TakeNumber(s) /\ receipts' = [receipts EXCEPT ![r] = row] /\ receipts[r] = NoRow
    BY <1>1 DEF CreateReceipt
  <2>4. NextNumber(s) \in Nat
    BY <2>2, <2>3, TakeNumberIsTyped
  <2>5. row \in ReceiptRow
    BY <2>1, <2>4 DEF ReceiptRow
  <2>6. ReceiptSeries(row) = s /\ row.number = NextNumber(s)
    BY DEF ReceiptSeries
  <2> HIDE DEF row, s
  <2> QED
    BY <2>3, <2>5, <2>6, NumberAppended
<1>2. CASE ConfirmReceipt(r)
  <2>1. receipts[r] # NoRow
    BY <1>2 DEF ConfirmReceipt, NoRow
  <2>2. /\ receipts' = [receipts EXCEPT ![r] = [receipts[r] EXCEPT !.status = "CONFIRMED"]]
        /\ UNCHANGED counters
    BY <1>2 DEF ConfirmReceipt
  <2> QED
    BY <2>1, <2>2, NumbersKept
<1>3. CASE ReverseReceipt(r)
  <2>1. receipts[r] # NoRow
    BY <1>3 DEF ReverseReceipt, Reversible, NoRow
  <2>2. /\ receipts' = [receipts EXCEPT ![r] = [receipts[r] EXCEPT !.status = "REVERSED"]]
        /\ UNCHANGED counters
    BY <1>3 DEF ReverseReceipt
  <2> QED
    BY <2>1, <2>2, NumbersKept
<1> QED
  BY <1>1, <1>2, <1>3 DEF ReceiptStep

\* The receipt numbers of a series are always 1 .. n, each used once: also after a reversal,
\* and although invoices are numbered by the same counters.
THEOREM LedgerReceiptSeriesGapless == Spec => []ReceiptSeriesGapless
<1>1. Init => ReceiptSeriesGapless
  BY DEF Init, ReceiptSeriesGapless, ReceiptsIn
<1>2. TypeOK /\ ReceiptSeriesGapless /\ [Next]_vars => ReceiptSeriesGapless'
  <2> SUFFICES ASSUME TypeOK, ReceiptSeriesGapless, [Next]_vars
               PROVE  ReceiptSeriesGapless'
    OBVIOUS
  <2>1. CASE UNCHANGED <<receipts, counters>>
    BY <2>1 DEF ReceiptSeriesGapless, ReceiptsIn
  <2> QED
    BY <2>1, GaplessInvoiceStep, GaplessReceiptStep
    DEF Next, AdjustmentStep, CreateAdjustment, ReverseAdjustment, ChangeTaxRule, vars, billing
<1> QED
  BY <1>1, <1>2, LedgerTyped, PTL DEF Spec

-----------------------------------------------------------------------------
(* The outbox *)

\* What has been written of each row.  An imported invoice has no issued event.
CountsOfReceipt(r) ==
  LET pending == outbox[<<"created PENDING", r>>]
      confirmed == outbox[<<"created CONFIRMED", r>>]
      later == outbox[<<"confirmed", r>>]
      reversed == outbox[<<"reversed", r>>]
      status == receipts[r].status
  IN
  /\ status = "NONE" => pending = 0 /\ confirmed = 0 /\ later = 0 /\ reversed = 0
  /\ status = "PENDING" => pending = 1 /\ confirmed = 0 /\ later = 0 /\ reversed = 0
  /\ status = "CONFIRMED" => pending + confirmed = 1 /\ later = pending /\ reversed = 0
  /\ status = "REVERSED" => pending + confirmed = 1 /\ later <= pending /\ reversed = 1
CountsOfInvoice(i) ==
  LET issued == outbox[<<"issued", i>>]
      cancelled == outbox[<<"cancelled", i>>]
      status == invoices[i].status
  IN
  /\ status \in {"NONE", "DRAFT"} => issued = 0 /\ cancelled = 0
  /\ status = "DRAFT" => invoices[i].source = Null
  /\ status \in {"ISSUED", "CANCELLED"} => issued = IF invoices[i].source = Null THEN 1 ELSE 0
  /\ status = "ISSUED" => cancelled = 0
  /\ status = "CANCELLED" => cancelled = 1
OutboxCounts ==
  /\ \A r \in Receipts : CountsOfReceipt(r)
  /\ \A i \in Invoices : CountsOfInvoice(i)

\* An event is counted once, and for its row only.
LEMMA Emitted ==
  ASSUME TypeOK, NEW e \in InvoiceEvents \cup ReceiptEvents, Emit(e)
  PROVE  /\ outbox'[e] = outbox[e] + 1
         /\ \A f \in (InvoiceEvents \cup ReceiptEvents) \ {e} : outbox'[f] = outbox[f]
  BY DEF TypeOK, Emit

\* The counts of the rows that are left alone.
LEMMA CountsKept ==
  ASSUME UNCHANGED outbox
  PROVE  /\ \A r \in Receipts : (CountsOfReceipt(r) /\ receipts'[r] = receipts[r]) =>
              CountsOfReceipt(r)'
         /\ \A i \in Invoices : (CountsOfInvoice(i) /\ invoices'[i] = invoices[i]) =>
              CountsOfInvoice(i)'
  BY DEF CountsOfReceipt, CountsOfInvoice

LEMMA OtherReceiptsKept ==
  ASSUME TypeOK, OutboxCounts, NEW r \in Receipts, NEW kind, <<kind, r>> \in ReceiptEvents,
         Emit(<<kind, r>>), UNCHANGED invoices,
         \A q \in Receipts \ {r} : receipts'[q] = receipts[q]
  PROVE  /\ \A q \in Receipts \ {r} : CountsOfReceipt(q)'
         /\ \A i \in Invoices : CountsOfInvoice(i)'
<1>1. \A f \in (InvoiceEvents \cup ReceiptEvents) \ {<<kind, r>>} : outbox'[f] = outbox[f]
  BY Emitted
<1>2. ASSUME NEW q \in Receipts \ {r}
      PROVE  CountsOfReceipt(q)'
  <2>1. \A k \in {"created PENDING", "created CONFIRMED", "confirmed", "reversed"} :
          outbox'[<<k, q>>] = outbox[<<k, q>>]
    BY <1>1 DEF ReceiptEvents
  <2> QED
    BY <2>1 DEF OutboxCounts, CountsOfReceipt
<1>3. ASSUME NEW i \in Invoices
      PROVE  CountsOfInvoice(i)'
  <2>1. kind \in {"created PENDING", "created CONFIRMED", "confirmed", "reversed"}
    BY DEF ReceiptEvents
  <2>2. \A k \in {"issued", "cancelled"} : outbox'[<<k, i>>] = outbox[<<k, i>>]
    BY <1>1, <2>1 DEF InvoiceEvents
  <2> QED
    BY <2>2 DEF OutboxCounts, CountsOfInvoice
<1> QED
  BY <1>2, <1>3

LEMMA OtherInvoicesKept ==
  ASSUME TypeOK, OutboxCounts, NEW i \in Invoices, NEW kind, <<kind, i>> \in InvoiceEvents,
         Emit(<<kind, i>>), UNCHANGED receipts,
         \A j \in Invoices \ {i} : invoices'[j] = invoices[j]
  PROVE  /\ \A r \in Receipts : CountsOfReceipt(r)'
         /\ \A j \in Invoices \ {i} : CountsOfInvoice(j)'
<1>1. \A f \in (InvoiceEvents \cup ReceiptEvents) \ {<<kind, i>>} : outbox'[f] = outbox[f]
  BY Emitted
<1>2. ASSUME NEW r \in Receipts
      PROVE  CountsOfReceipt(r)'
  <2>1. kind \in {"issued", "cancelled"}
    BY DEF InvoiceEvents
  <2>2. \A k \in {"created PENDING", "created CONFIRMED", "confirmed", "reversed"} :
          outbox'[<<k, r>>] = outbox[<<k, r>>]
    BY <1>1, <2>1 DEF ReceiptEvents
  <2> QED
    BY <2>2 DEF OutboxCounts, CountsOfReceipt
<1>3. ASSUME NEW j \in Invoices \ {i}
      PROVE  CountsOfInvoice(j)'
  <2>1. \A k \in {"issued", "cancelled"} : outbox'[<<k, j>>] = outbox[<<k, j>>]
    BY <1>1 DEF InvoiceEvents
  <2> QED
    BY <2>1 DEF OutboxCounts, CountsOfInvoice
<1> QED
  BY <1>2, <1>3

\* What one event of a receipt does to the four counts of it.
LEMMA ReceiptEmission ==
  ASSUME TypeOK, NEW r \in Receipts, NEW kind, <<kind, r>> \in ReceiptEvents, Emit(<<kind, r>>),
         NEW k, <<k, r>> \in ReceiptEvents
  PROVE  /\ outbox[<<k, r>>] \in Nat
         /\ outbox'[<<k, r>>] = IF kind = k THEN outbox[<<k, r>>] + 1 ELSE outbox[<<k, r>>]
<1>1. outbox[<<k, r>>] \in Nat
  BY DEF TypeOK
<1>2. CASE k = kind
  <2>1. outbox'[<<kind, r>>] = outbox[<<kind, r>>] + 1
    BY Emitted
  <2> QED
    BY <1>1, <1>2, <2>1
<1>3. CASE k # kind
  <2>1. <<k, r>> # <<kind, r>>
    BY <1>3
  <2>2. outbox'[<<k, r>>] = outbox[<<k, r>>]
    BY <2>1, Emitted
  <2> QED
    BY <1>1, <1>3, <2>2
<1> QED
  BY <1>2, <1>3

\* A step that writes one event of a receipt: the change of status that each event reports.
ReceiptMoves(kind, r) ==
  LET was == receipts[r].status
      is == receipts'[r].status
  IN
  /\ <<kind, r>> \in ReceiptEvents
  /\ Emit(<<kind, r>>)
  /\ UNCHANGED invoices
  /\ \A q \in Receipts \ {r} : receipts'[q] = receipts[q]
  /\ kind = "created PENDING" => was = "NONE" /\ is = "PENDING"
  /\ kind = "created CONFIRMED" => was = "NONE" /\ is = "CONFIRMED"
  /\ kind = "confirmed" => was = "PENDING" /\ is = "CONFIRMED"
  /\ kind = "reversed" => was \in {"PENDING", "CONFIRMED"} /\ is = "REVERSED"

\* The event of a change of status leaves the counts of the receipt as its new status says.
LEMMA EventCounted ==
  ASSUME TypeOK, OutboxCounts, NEW r \in Receipts, NEW kind, ReceiptMoves(kind, r)
  PROVE  OutboxCounts'
<1>1. /\ <<"created PENDING", r>> \in ReceiptEvents
      /\ <<"created CONFIRMED", r>> \in ReceiptEvents
      /\ <<"confirmed", r>> \in ReceiptEvents /\ <<"reversed", r>> \in ReceiptEvents
      /\ kind \in {"created PENDING", "created CONFIRMED", "confirmed", "reversed"}
  BY DEF ReceiptMoves, ReceiptEvents
<1>2. /\ \A q \in Receipts \ {r} : CountsOfReceipt(q)'
      /\ \A j \in Invoices : CountsOfInvoice(j)'
  BY OtherReceiptsKept DEF ReceiptMoves
<1> DEFINE P == outbox[<<"created PENDING", r>>]
           C == outbox[<<"created CONFIRMED", r>>]
           L == outbox[<<"confirmed", r>>]
           R == outbox[<<"reversed", r>>]
           was == receipts[r].status
           is == receipts'[r].status
           P2 == outbox'[<<"created PENDING", r>>]
           C2 == outbox'[<<"created CONFIRMED", r>>]
           L2 == outbox'[<<"confirmed", r>>]
           R2 == outbox'[<<"reversed", r>>]
<1>3. P \in Nat /\ C \in Nat /\ L \in Nat /\ R \in Nat
  BY <1>1 DEF TypeOK
<1>4. /\ P2 = IF kind = "created PENDING" THEN P + 1 ELSE P
      /\ C2 = IF kind = "created CONFIRMED" THEN C + 1 ELSE C
      /\ L2 = IF kind = "confirmed" THEN L + 1 ELSE L
      /\ R2 = IF kind = "reversed" THEN R + 1 ELSE R
  BY <1>1, ReceiptEmission DEF ReceiptMoves
<1>5. /\ was = "NONE" => P = 0 /\ C = 0 /\ L = 0 /\ R = 0
      /\ was = "PENDING" => P = 1 /\ C = 0 /\ L = 0 /\ R = 0
      /\ was = "CONFIRMED" => P + C = 1 /\ L = P /\ R = 0
  BY DEF OutboxCounts, CountsOfReceipt
<1>6. /\ kind = "created PENDING" => was = "NONE" /\ is = "PENDING"
      /\ kind = "created CONFIRMED" => was = "NONE" /\ is = "CONFIRMED"
      /\ kind = "confirmed" => was = "PENDING" /\ is = "CONFIRMED"
      /\ kind = "reversed" => was \in {"PENDING", "CONFIRMED"} /\ is = "REVERSED"
  BY DEF ReceiptMoves
<1>7. CountsOfReceipt(r)' <=>
        /\ is = "NONE" => P2 = 0 /\ C2 = 0 /\ L2 = 0 /\ R2 = 0
        /\ is = "PENDING" => P2 = 1 /\ C2 = 0 /\ L2 = 0 /\ R2 = 0
        /\ is = "CONFIRMED" => P2 + C2 = 1 /\ L2 = P2 /\ R2 = 0
        /\ is = "REVERSED" => P2 + C2 = 1 /\ L2 <= P2 /\ R2 = 1
  BY DEF CountsOfReceipt
<1> HIDE DEF P, C, L, R, P2, C2, L2, R2, was, is
<1>8. CountsOfReceipt(r)'
  <2>1. CASE kind = "created PENDING"
    <3>1. P2 = P + 1 /\ C2 = C /\ L2 = L /\ R2 = R
      BY <1>4, <2>1
    <3>2. P = 0 /\ C = 0 /\ L = 0 /\ R = 0 /\ is = "PENDING"
      BY <1>5, <1>6, <2>1
    <3>3. P2 = 1 /\ C2 = 0 /\ L2 = 0 /\ R2 = 0
      BY <1>3, <3>1, <3>2
    <3> QED
      BY <1>7, <3>2, <3>3
  <2>2. CASE kind = "created CONFIRMED"
    <3>1. P2 = P /\ C2 = C + 1 /\ L2 = L /\ R2 = R
      BY <1>4, <2>2
    <3>2. P = 0 /\ C = 0 /\ L = 0 /\ R = 0 /\ is = "CONFIRMED"
      BY <1>5, <1>6, <2>2
    <3>3. P2 + C2 = 1 /\ L2 = P2 /\ R2 = 0
      BY <1>3, <3>1, <3>2
    <3> QED
      BY <1>7, <3>2, <3>3
  <2>3. CASE kind = "confirmed"
    <3>1. P2 = P /\ C2 = C /\ L2 = L + 1 /\ R2 = R
      BY <1>4, <2>3
    <3>2. P = 1 /\ C = 0 /\ L = 0 /\ R = 0 /\ is = "CONFIRMED"
      BY <1>5, <1>6, <2>3
    <3>3. P2 + C2 = 1 /\ L2 = P2 /\ R2 = 0
      BY <1>3, <3>1, <3>2
    <3> QED
      BY <1>7, <3>2, <3>3
  <2>4. CASE kind = "reversed"
    <3>1. P2 = P /\ C2 = C /\ L2 = L /\ R2 = R + 1
      BY <1>4, <2>4
    <3>2. P + C = 1 /\ L <= P /\ R = 0 /\ is = "REVERSED"
      BY <1>3, <1>5, <1>6, <2>4
    <3>3. P2 + C2 = 1 /\ L2 <= P2 /\ R2 = 1
      BY <1>3, <3>1, <3>2
    <3> QED
      BY <1>7, <3>2, <3>3
  <2> QED
    BY <1>1, <2>1, <2>2, <2>3, <2>4
<1> QED
  BY <1>2, <1>8 DEF OutboxCounts

LEMMA CountsReceiptStep ==
  ASSUME TypeOK, OutboxCounts, NEW r \in Receipts, ReceiptStep(r)
  PROVE  OutboxCounts'
<1>1. ASSUME NEW i \in Invoices, NEW d \in Dates, NEW a \in Amounts,
             NEW method \in {"MANUAL", "GATEWAY"}, NEW status \in {"PENDING", "CONFIRMED"},
             NEW k \in Keys, CreateReceipt(r, i, d, a, method, status, k)
      PROVE  OutboxCounts'
  <2> DEFINE kind == IF status = "PENDING" THEN "created PENDING" ELSE "created CONFIRMED"
             row == [status |-> status, invoice |-> i, company |-> invoices[i].company,
                     date |-> d, amount |-> a, method |-> method, key |-> k,
                     number |-> NextNumber(SeriesOf(invoices[i].company, d, "R"))]
  <2>1. UNCHANGED invoices /\ Emit(<<kind, r>>)
    BY <1>1 DEF CreateReceipt
  <2>2. /\ row.status = status
        /\ receipts[r] = NoRow /\ receipts' = [receipts EXCEPT ![r] = row]
    BY <1>1 DEF CreateReceipt
  <2> HIDE DEF row
  <2>3. /\ receipts[r].status = "NONE" /\ receipts'[r].status = status
        /\ \A q \in Receipts \ {r} : receipts'[q] = receipts[q]
    BY <2>2 DEF TypeOK, NoRow
  <2>4. /\ kind \in {"created PENDING", "created CONFIRMED", "confirmed", "reversed"}
        /\ kind = "created PENDING" => status = "PENDING"
        /\ kind = "created CONFIRMED" => status = "CONFIRMED"
        /\ kind # "confirmed" /\ kind # "reversed"
    OBVIOUS
  <2> HIDE DEF kind
  <2>5. <<kind, r>> \in ReceiptEvents
    BY <2>4 DEF ReceiptEvents
  <2>6. ReceiptMoves(kind, r)
    BY <2>1, <2>3, <2>4, <2>5 DEF ReceiptMoves
  <2> QED
    BY <2>6, EventCounted
<1>2. ASSUME NEW status \in {"PENDING", "CONFIRMED", "REVERSED"}, receipts[r] # NoRow,
             receipts' = [receipts EXCEPT ![r] = [receipts[r] EXCEPT !.status = status]]
      PROVE  /\ receipts'[r].status = status
             /\ \A q \in Receipts \ {r} : receipts'[q] = receipts[q]
  BY <1>2, RowExists DEF TypeOK, ReceiptRow
<1>3. CASE ConfirmReceipt(r)
  <2>1. receipts[r] # NoRow /\ receipts[r].status = "PENDING"
    BY <1>3 DEF ConfirmReceipt, NoRow
  <2>2. /\ receipts' = [receipts EXCEPT ![r] = [receipts[r] EXCEPT !.status = "CONFIRMED"]]
        /\ UNCHANGED invoices /\ Emit(<<"confirmed", r>>)
    BY <1>3 DEF ConfirmReceipt
  <2>3. <<"confirmed", r>> \in ReceiptEvents
    BY DEF ReceiptEvents
  <2>4. ReceiptMoves("confirmed", r)
    BY <1>2, <2>1, <2>2, <2>3 DEF ReceiptMoves
  <2> QED
    BY <2>4, EventCounted
<1>4. CASE ReverseReceipt(r)
  <2>1. receipts[r] # NoRow /\ receipts[r].status \in {"PENDING", "CONFIRMED"}
    BY <1>4 DEF ReverseReceipt, Reversible, NoRow
  <2>2. /\ receipts' = [receipts EXCEPT ![r] = [receipts[r] EXCEPT !.status = "REVERSED"]]
        /\ UNCHANGED invoices /\ Emit(<<"reversed", r>>)
    BY <1>4 DEF ReverseReceipt
  <2>3. <<"reversed", r>> \in ReceiptEvents
    BY DEF ReceiptEvents
  <2>4. ReceiptMoves("reversed", r)
    BY <1>2, <2>1, <2>2, <2>3 DEF ReceiptMoves
  <2> QED
    BY <2>4, EventCounted
<1> QED
  BY <1>1, <1>3, <1>4 DEF ReceiptStep

LEMMA CountsInvoiceStep ==
  ASSUME TypeOK, OutboxCounts, NEW u \in Users, NEW i \in Invoices, InvoiceStep(u, i)
  PROVE  OutboxCounts'
<1>1. /\ <<"issued", i>> \in InvoiceEvents /\ <<"cancelled", i>> \in InvoiceEvents
      /\ outbox[<<"issued", i>>] \in Nat /\ outbox[<<"cancelled", i>>] \in Nat
  BY DEF TypeOK, InvoiceEvents
<1>2. CountsOfInvoice(i)
  BY DEF OutboxCounts
<1>3. CASE Load(u, i)
  BY <1>3, CountsKept DEF Load, billing, OutboxCounts
<1>4. ASSUME NEW row \in InvoiceRow, invoices' = [invoices EXCEPT ![i] = row],
             UNCHANGED <<receipts, outbox>>,
             invoices[i].status \in {"NONE", "DRAFT"},
             \/ row.status = "DRAFT" /\ row.source = Null
             \/ row.status = "ISSUED" /\ row.source # Null
      PROVE  OutboxCounts'
  <2>1. invoices'[i] = row /\ \A j \in Invoices \ {i} : invoices'[j] = invoices[j]
    BY <1>4 DEF TypeOK
  <2>2. CountsOfInvoice(i)'
    BY <1>2, <1>4, <2>1 DEF CountsOfInvoice
  <2> QED
    BY <1>4, <2>1, <2>2, CountsKept DEF OutboxCounts
<1>5. ASSUME NEW c \in Companies, NEW d \in Dates, NEW a \in Prices, CreateDraft(u, i, c, d, a)
      PROVE  OutboxCounts'
  <2>1. Draft(u, 1, c, d, a) \in InvoiceRow
    BY DraftIsARow DEF TypeOK
  <2>2. Draft(u, 1, c, d, a).status = "DRAFT" /\ Draft(u, 1, c, d, a).source = Null
    BY DEF Draft
  <2>3. /\ invoices' = [invoices EXCEPT ![i] = Draft(u, 1, c, d, a)]
        /\ UNCHANGED <<receipts, outbox>> /\ invoices[i].status = "NONE"
    BY <1>5 DEF CreateDraft, NoRow
  <2> QED
    BY <1>4, <2>1, <2>2, <2>3
<1>6. ASSUME NEW c \in Companies, NEW d \in Dates, NEW a \in Prices, UpdateDraft(u, i, c, d, a)
      PROVE  OutboxCounts'
  <2> DEFINE row == Draft(u, invoices[i].version + 1, c, d, a)
  <2>1. invoices[i].version + 1 \in Nat
    BY <1>6, RowExists DEF UpdateDraft, Editable, InvoiceRow
  <2>2. row \in InvoiceRow
    BY <2>1, DraftIsARow DEF TypeOK
  <2>3. row.status = "DRAFT" /\ row.source = Null
    BY DEF Draft
  <2>4. /\ invoices' = [invoices EXCEPT ![i] = row]
        /\ UNCHANGED <<receipts, outbox>> /\ invoices[i].status = "DRAFT"
    BY <1>6 DEF UpdateDraft, Editable
  <2> HIDE DEF row
  <2> QED
    BY <1>4, <2>2, <2>3, <2>4
<1>7. ASSUME NEW c \in Companies, NEW d \in Dates, NEW a \in Prices, NEW n \in LegacyNumbers,
             NEW src \in Sources, ImportInvoice(u, i, c, d, a, n, src)
      PROVE  OutboxCounts'
  <2> DEFINE row == [status |-> "ISSUED", version |-> 1, company |-> c, date |-> d,
                     amount |-> a, rate |-> 0, total |-> a, number |-> n, source |-> src,
                     by |-> u]
  <2>1. row \in InvoiceRow /\ row.status = "ISSUED" /\ row.source # Null
    BY DEF InvoiceRow
  <2>2. /\ invoices' = [invoices EXCEPT ![i] = row]
        /\ UNCHANGED <<receipts, outbox>> /\ invoices[i].status = "NONE"
    BY <1>7 DEF ImportInvoice, NoRow
  <2> HIDE DEF row
  <2> QED
    BY <1>4, <2>1, <2>2
<1>8. CASE Issue(u, i)
  <2>1. invoices[i] \in InvoiceRow
    BY <1>8, RowExists DEF Issue, Editable
  <2>2. /\ invoices'[i].status = "ISSUED" /\ invoices'[i].source = invoices[i].source
        /\ \A j \in Invoices \ {i} : invoices'[j] = invoices[j]
    BY <1>8, <2>1 DEF Issue, TypeOK, InvoiceRow
  <2>3. Emit(<<"issued", i>>) /\ UNCHANGED receipts /\ invoices[i].status = "DRAFT"
    BY <1>8 DEF Issue, Editable
  <2>4. /\ \A r \in Receipts : CountsOfReceipt(r)'
        /\ \A j \in Invoices \ {i} : CountsOfInvoice(j)'
    BY <1>1, <2>2, <2>3, OtherInvoicesKept
  <2>5. /\ outbox'[<<"issued", i>>] = outbox[<<"issued", i>>] + 1
        /\ outbox'[<<"cancelled", i>>] = outbox[<<"cancelled", i>>]
    BY <1>1, <2>3, Emitted
  <2>6. CountsOfInvoice(i)'
    BY <1>2, <2>2, <2>3, <2>5 DEF CountsOfInvoice
  <2> QED
    BY <2>4, <2>6 DEF OutboxCounts
<1>9. CASE Cancel(u, i)
  <2>1. invoices[i] \in InvoiceRow
    BY <1>9, RowExists DEF Cancel
  <2>2. /\ invoices'[i].status = "CANCELLED" /\ invoices'[i].source = invoices[i].source
        /\ \A j \in Invoices \ {i} : invoices'[j] = invoices[j]
    BY <1>9, <2>1 DEF Cancel, TypeOK, InvoiceRow
  <2>3. Emit(<<"cancelled", i>>) /\ UNCHANGED receipts /\ invoices[i].status = "ISSUED"
    BY <1>9 DEF Cancel
  <2>4. /\ \A r \in Receipts : CountsOfReceipt(r)'
        /\ \A j \in Invoices \ {i} : CountsOfInvoice(j)'
    BY <1>1, <2>2, <2>3, OtherInvoicesKept
  <2>5. /\ outbox'[<<"cancelled", i>>] = outbox[<<"cancelled", i>>] + 1
        /\ outbox'[<<"issued", i>>] = outbox[<<"issued", i>>]
    BY <1>1, <2>3, Emitted
  <2>6. CountsOfInvoice(i)'
    BY <1>2, <2>2, <2>3, <2>5 DEF CountsOfInvoice
  <2> QED
    BY <2>4, <2>6 DEF OutboxCounts
<1> QED
  BY <1>3, <1>5, <1>6, <1>7, <1>8, <1>9 DEF InvoiceStep

LEMMA PairIsItsTwoParts ==
  ASSUME NEW K, NEW S, NEW e \in K \X S
  PROVE  e = <<e[1], e[2]>> /\ e[1] \in K /\ e[2] \in S
  OBVIOUS
LEMMA ReceiptEventIsOneOfFour ==
  ASSUME NEW e \in ReceiptEvents
  PROVE  \E r \in Receipts :
           \/ e = <<"created PENDING", r>> \/ e = <<"created CONFIRMED", r>>
           \/ e = <<"confirmed", r>> \/ e = <<"reversed", r>>
<1> DEFINE kinds == {"created PENDING", "created CONFIRMED", "confirmed", "reversed"}
<1>1. e \in kinds \X Receipts
  BY DEF ReceiptEvents
<1> HIDE DEF kinds
<1>2. e = <<e[1], e[2]>> /\ e[1] \in kinds /\ e[2] \in Receipts
  BY <1>1, PairIsItsTwoParts
<1>3. \/ e[1] = "created PENDING" \/ e[1] = "created CONFIRMED"
      \/ e[1] = "confirmed" \/ e[1] = "reversed"
  BY <1>2 DEF kinds
<1> QED
  BY <1>2, <1>3, Zenon

LEMMA CountsTell == TypeOK /\ OutboxCounts => OutboxTellsTheLedger
<1> SUFFICES ASSUME TypeOK, OutboxCounts PROVE OutboxTellsTheLedger
  OBVIOUS
<1>1. ASSUME NEW r \in Receipts
      PROVE  /\ ReplayedReceipt(r) = receipts[r].status
             /\ \A kind \in {"created PENDING", "created CONFIRMED", "confirmed", "reversed"} :
                  outbox[<<kind, r>>] <= 1
  <2>1. \A kind \in {"created PENDING", "created CONFIRMED", "confirmed", "reversed"} :
          outbox[<<kind, r>>] \in Nat
    BY DEF TypeOK, ReceiptEvents
  <2>2. receipts[r].status \in {"NONE", "PENDING", "CONFIRMED", "REVERSED"}
    BY DEF TypeOK, ReceiptRow, NoRow
  <2> DEFINE P == outbox[<<"created PENDING", r>>]
             C == outbox[<<"created CONFIRMED", r>>]
             L == outbox[<<"confirmed", r>>]
             R == outbox[<<"reversed", r>>]
             status == receipts[r].status
  <2>3. P \in Nat /\ C \in Nat /\ L \in Nat /\ R \in Nat
    BY <2>1
  <2>4. /\ status = "NONE" => P = 0 /\ C = 0 /\ L = 0 /\ R = 0
        /\ status = "PENDING" => P = 1 /\ C = 0 /\ L = 0 /\ R = 0
        /\ status = "CONFIRMED" => P + C = 1 /\ L = P /\ R = 0
        /\ status = "REVERSED" => P + C = 1 /\ L <= P /\ R = 1
    BY DEF OutboxCounts, CountsOfReceipt
  <2>5. ReplayedReceipt(r) = IF R = 1 THEN "REVERSED" ELSE IF L + C = 1 THEN "CONFIRMED"
                             ELSE IF P = 1 THEN "PENDING" ELSE "NONE"
    BY DEF ReplayedReceipt
  <2> HIDE DEF P, C, L, R
  <2>6. ReplayedReceipt(r) = status /\ P <= 1 /\ C <= 1 /\ L <= 1 /\ R <= 1
    BY <2>2, <2>3, <2>4, <2>5
  <2> QED
    BY <2>6 DEF P, C, L, R
<1>2. ASSUME NEW i \in Invoices
      PROVE  /\ outbox[<<"cancelled", i>>] = 1 <=> invoices[i].status = "CANCELLED"
             /\ outbox[<<"issued", i>>] = 1 <=>
                  (invoices[i].status \in {"ISSUED", "CANCELLED"} /\ invoices[i].source = Null)
             /\ \A kind \in {"issued", "cancelled"} : outbox[<<kind, i>>] <= 1
  <2>1. invoices[i].status \in {"NONE", "DRAFT", "ISSUED", "CANCELLED"}
    BY DEF TypeOK, InvoiceRow, NoRow
  <2> QED
    BY <2>1 DEF OutboxCounts, CountsOfInvoice
<1>3. ASSUME NEW e \in DOMAIN outbox
      PROVE  outbox[e] <= 1
  <2>1. e \in InvoiceEvents \/ e \in ReceiptEvents
    BY DEF TypeOK
  <2>2. CASE e \in InvoiceEvents
    <3>1. PICK kind \in {"issued", "cancelled"}, i \in Invoices : e = <<kind, i>>
      BY <2>2 DEF InvoiceEvents
    <3> QED
      BY <1>2, <3>1
  <2>3. CASE e \in ReceiptEvents
    <3>1. PICK r \in Receipts :
            \/ e = <<"created PENDING", r>> \/ e = <<"created CONFIRMED", r>>
            \/ e = <<"confirmed", r>> \/ e = <<"reversed", r>>
      BY <2>3, ReceiptEventIsOneOfFour
    <3>2. /\ outbox[<<"created PENDING", r>>] <= 1 /\ outbox[<<"created CONFIRMED", r>>] <= 1
          /\ outbox[<<"confirmed", r>>] <= 1 /\ outbox[<<"reversed", r>>] <= 1
      BY <1>1
    <3> QED
      BY <3>1, <3>2
  <2> QED
    BY <2>1, <2>2, <2>3
<1> QED
  BY <1>1, <1>2, <1>3 DEF OutboxTellsTheLedger

\* A consumer of the outbox can rebuild the status of every receipt and invoice, and no event is
\* ever written twice, whatever is repeated, reversed or imported.
THEOREM LedgerOutboxTellsTheLedger == Spec => []OutboxTellsTheLedger
<1>1. Init => OutboxCounts
  <2> SUFFICES ASSUME Init PROVE OutboxCounts
    OBVIOUS
  <2>1. /\ \A r \in Receipts : receipts[r].status = "NONE"
        /\ \A i \in Invoices : invoices[i].status = "NONE"
    BY DEF Init, NoRow
  <2>2. \A e \in InvoiceEvents \cup ReceiptEvents : outbox[e] = 0
    BY DEF Init
  <2>3. ASSUME NEW r \in Receipts,
               NEW k \in {"created PENDING", "created CONFIRMED", "confirmed", "reversed"}
        PROVE  outbox[<<k, r>>] = 0
    <3>1. <<k, r>> \in ReceiptEvents
      BY DEF ReceiptEvents
    <3> QED
      BY <2>2, <3>1
  <2>4. ASSUME NEW i \in Invoices, NEW k \in {"issued", "cancelled"}
        PROVE  outbox[<<k, i>>] = 0
    <3>1. <<k, i>> \in InvoiceEvents
      BY DEF InvoiceEvents
    <3> QED
      BY <2>2, <3>1
  <2> QED
    BY <2>1, <2>3, <2>4 DEF OutboxCounts, CountsOfReceipt, CountsOfInvoice
<1>2. TypeOK /\ OutboxCounts /\ [Next]_vars => OutboxCounts'
  <2> SUFFICES ASSUME TypeOK, OutboxCounts, [Next]_vars
               PROVE  OutboxCounts'
    OBVIOUS
  <2>1. CASE UNCHANGED <<invoices, receipts, outbox>>
    BY <2>1, CountsKept DEF OutboxCounts
  <2> QED
    BY <2>1, CountsInvoiceStep, CountsReceiptStep
    DEF Next, AdjustmentStep, CreateAdjustment, ReverseAdjustment, ChangeTaxRule, vars, billing
<1> QED
  BY <1>1, <1>2, LedgerTyped, CountsTell, PTL DEF Spec

-----------------------------------------------------------------------------
(* What a user acted on *)

\* What a user has read of an invoice is a row that it had: as old as its version says, and
\* the row of today when the versions agree.
ReadsAreRows ==
  \A u \in Users, i \in Invoices : seen[u][i] # NoRow =>
    /\ invoices[i] # NoRow
    /\ seen[u][i].version <= invoices[i].version
    /\ seen[u][i].version = invoices[i].version => seen[u][i] = invoices[i]

\* Every change of a row gives it a version that nobody has read.
LEMMA ReadsFallBehind ==
  ASSUME TypeOK, ReadsAreRows, NEW i \in Invoices, NEW row \in InvoiceRow,
         invoices[i] # NoRow, row.version = invoices[i].version + 1,
         invoices' = [invoices EXCEPT ![i] = row], UNCHANGED seen
  PROVE  ReadsAreRows'
<1> SUFFICES ASSUME NEW u \in Users, NEW j \in Invoices, seen[u][j] # NoRow
             PROVE  /\ invoices'[j] # NoRow
                    /\ seen[u][j].version <= invoices'[j].version
                    /\ seen[u][j].version = invoices'[j].version => seen[u][j] = invoices'[j]
  BY DEF ReadsAreRows
<1>1. /\ invoices[j] # NoRow
      /\ seen[u][j].version <= invoices[j].version
      /\ seen[u][j].version = invoices[j].version => seen[u][j] = invoices[j]
  BY DEF ReadsAreRows
<1>2. CASE j = i
  <2>1. invoices'[j] = row /\ row # NoRow
    BY <1>2 DEF TypeOK, InvoiceRow, NoRow
  <2>2. seen[u][j].version \in Nat /\ invoices[j].version \in Nat
    BY <1>1, RowExists DEF TypeOK, InvoiceRow, NoRow
  <2>3. row.version = invoices[j].version + 1
    BY <1>2
  <2> QED
    BY <1>1, <2>1, <2>2, <2>3
<1>3. CASE j # i
  <2>1. invoices'[j] = invoices[j]
    BY <1>3 DEF TypeOK
  <2> QED
    BY <1>1, <2>1
<1> QED
  BY <1>2, <1>3

LEMMA ReadsInvoiceStep ==
  ASSUME TypeOK, ReadsAreRows, NEW u \in Users, NEW i \in Invoices, InvoiceStep(u, i)
  PROVE  ReadsAreRows'
<1> DEFINE row == invoices[i]
<1>1. CASE Load(u, i)
  <2>1. row # NoRow /\ seen' = [seen EXCEPT ![u][i] = row] /\ UNCHANGED invoices
    BY <1>1 DEF Load, billing
  <2>2. row.version \in Nat
    BY <2>1, RowExists DEF InvoiceRow
  <2>3. seen'[u][i] = row
    BY <2>1 DEF TypeOK
  <2>4. \A v \in Users, j \in Invoices : (v # u \/ j # i) => seen'[v][j] = seen[v][j]
    BY <2>1 DEF TypeOK
  <2> QED
    BY <2>1, <2>2, <2>3, <2>4 DEF ReadsAreRows
<1>2. ASSUME invoices[i] = NoRow, UNCHANGED seen,
             NEW new, new # NoRow, invoices' = [invoices EXCEPT ![i] = new]
      PROVE  ReadsAreRows'
  <2>1. \A j \in Invoices \ {i} : invoices'[j] = invoices[j]
    BY <1>2 DEF TypeOK
  <2>2. \A v \in Users : seen[v][i] = NoRow
    BY <1>2 DEF ReadsAreRows
  <2> QED
    BY <1>2, <2>1, <2>2 DEF ReadsAreRows
<1>3. ASSUME NEW c \in Companies, NEW d \in Dates, NEW a \in Prices, CreateDraft(u, i, c, d, a)
      PROVE  ReadsAreRows'
  <2>1. Draft(u, 1, c, d, a) # NoRow
    BY DEF Draft, NoRow
  <2>2. /\ invoices[i] = NoRow /\ UNCHANGED seen
        /\ invoices' = [invoices EXCEPT ![i] = Draft(u, 1, c, d, a)]
    BY <1>3 DEF CreateDraft
  <2> QED
    BY <1>2, <2>1, <2>2
<1>4. ASSUME NEW c \in Companies, NEW d \in Dates, NEW a \in Prices, UpdateDraft(u, i, c, d, a)
      PROVE  ReadsAreRows'
  <2> DEFINE new == Draft(u, invoices[i].version + 1, c, d, a)
  <2>1. row # NoRow /\ row.version + 1 \in Nat
    BY <1>4, RowExists DEF UpdateDraft, Editable, InvoiceRow, NoRow
  <2>2. new \in InvoiceRow
    BY <2>1, DraftIsARow DEF TypeOK
  <2>3. /\ new.version = row.version + 1
        /\ invoices' = [invoices EXCEPT ![i] = new] /\ UNCHANGED seen
    BY <1>4 DEF UpdateDraft, Draft
  <2> HIDE DEF new
  <2> QED
    BY <2>1, <2>2, <2>3, ReadsFallBehind
<1>5. CASE Issue(u, i)
  <2> DEFINE s == InvoiceSeries(row)
             new == [row EXCEPT !.status = "ISSUED", !.number = NextNumber(s), !.rate = rate,
                       !.total = GrandTotal(row.amount, rate), !.version = row.version + 1,
                       !.by = u]
  <2>1. row \in InvoiceRow /\ row # NoRow
    BY <1>5, RowExists DEF Issue, Editable, NoRow
  <2>2. s \in Series
    BY <2>1, RowSeries
  <2>3. TakeNumber(s) /\ invoices' = [invoices EXCEPT ![i] = new] /\ UNCHANGED seen
    BY <1>5 DEF Issue, InvoiceSeries
  <2>4. rate \in Nat /\ GrandTotal(row.amount, rate) \in Nat
    BY <2>1, TotalIsNatural DEF InvoiceRow, TypeOK
  <2>5. NextNumber(s) \in Nat
    BY <2>2, <2>3, NumberTaken DEF TypeOK
  <2>6. new \in InvoiceRow
    BY <2>1, <2>4, <2>5, PublishedIsARow
  <2>7. new.version = row.version + 1
    BY <2>1 DEF InvoiceRow
  <2> HIDE DEF new, s
  <2> QED
    BY <2>1, <2>3, <2>6, <2>7, ReadsFallBehind
<1>6. CASE Cancel(u, i)
  <2>1. /\ row # NoRow /\ row \in InvoiceRow /\ UNCHANGED seen
        /\ invoices' = [invoices EXCEPT ![i] =
             [row EXCEPT !.status = "CANCELLED", !.version = row.version + 1, !.by = u]]
    BY <1>6, RowExists DEF Cancel, NoRow
  <2>2. [row EXCEPT !.status = "CANCELLED", !.version = row.version + 1, !.by = u] \in InvoiceRow
    BY <2>1, ClosedIsARow
  <2>3. [row EXCEPT !.status = "CANCELLED", !.version = row.version + 1, !.by = u].version
          = row.version + 1
    BY <2>1 DEF InvoiceRow
  <2> QED
    BY <2>1, <2>2, <2>3, ReadsFallBehind
<1>7. ASSUME NEW c \in Companies, NEW d \in Dates, NEW a \in Prices, NEW n \in LegacyNumbers,
             NEW src \in Sources, ImportInvoice(u, i, c, d, a, n, src)
      PROVE  ReadsAreRows'
  <2> DEFINE new == [status |-> "ISSUED", version |-> 1, company |-> c, date |-> d,
                     amount |-> a, rate |-> 0, total |-> a, number |-> n, source |-> src,
                     by |-> u]
  <2>1. new # NoRow
    BY DEF NoRow
  <2>2. /\ invoices[i] = NoRow /\ UNCHANGED seen
        /\ invoices' = [invoices EXCEPT ![i] = new]
    BY <1>7 DEF ImportInvoice
  <2> HIDE DEF new
  <2> QED
    BY <1>2, <2>1, <2>2
<1> QED
  BY <1>1, <1>3, <1>4, <1>5, <1>6, <1>7 DEF InvoiceStep

\* Whoever changes a draft has read the row it replaces.
LEMMA DraftStep ==
  ASSUME TypeOK, ReadsAreRows, NEW u \in Users, NEW i \in Invoices, InvoiceStep(u, i),
         NEW j \in Invoices, invoices[j].status = "DRAFT", invoices'[j] # invoices[j]
  PROVE  seen[invoices'[j].by][j] = invoices[j]
<1>1. invoices[j] # NoRow /\ invoices[j] \in InvoiceRow
  BY RowExists DEF NoRow
<1>2. ASSUME VersionMatches(u, i), invoices'[i].by = u,
             \A k \in Invoices \ {i} : invoices'[k] = invoices[k]
      PROVE  seen[invoices'[j].by][j] = invoices[j]
  BY <1>2 DEF VersionMatches, ReadsAreRows
<1>3. ASSUME NEW c \in Companies, NEW d \in Dates, NEW a \in Prices, UpdateDraft(u, i, c, d, a)
      PROVE  seen[invoices'[j].by][j] = invoices[j]
  <2>1. Draft(u, invoices[i].version + 1, c, d, a).by = u
    BY DEF Draft
  <2>2. /\ VersionMatches(u, i)
        /\ invoices' = [invoices EXCEPT ![i] = Draft(u, invoices[i].version + 1, c, d, a)]
    BY <1>3 DEF UpdateDraft
  <2> QED
    BY <1>2, <2>1, <2>2 DEF TypeOK
<1>4. CASE Issue(u, i)
  <2>1. VersionMatches(u, i) /\ invoices[i] \in InvoiceRow
    BY <1>4, RowExists DEF Issue, Editable
  <2>2. invoices'[i].by = u /\ \A k \in Invoices \ {i} : invoices'[k] = invoices[k]
    BY <1>4, <2>1 DEF Issue, TypeOK, InvoiceRow
  <2> QED
    BY <1>2, <2>1, <2>2
<1>5. CASE Cancel(u, i)
  BY <1>5 DEF Cancel, TypeOK
<1>6. CASE invoices[i] = NoRow /\ \E row : invoices' = [invoices EXCEPT ![i] = row]
  BY <1>1, <1>6 DEF TypeOK
<1>7. CASE UNCHANGED invoices
  BY <1>7
<1> QED
  BY <1>3, <1>4, <1>5, <1>6, <1>7 DEF InvoiceStep, Load, billing, CreateDraft, ImportInvoice

LEMMA OtherStepsLeaveInvoices ==
  ASSUME Next
  PROVE  (\E u \in Users, i \in Invoices : InvoiceStep(u, i)) \/ UNCHANGED <<invoices, seen>>
<1>1. ASSUME NEW r \in Receipts, ReceiptStep(r) PROVE UNCHANGED <<invoices, seen>>
  <2>1. ASSUME NEW i \in Invoices, NEW d \in Dates, NEW a \in Amounts,
               NEW method \in {"MANUAL", "GATEWAY"}, NEW status \in {"PENDING", "CONFIRMED"},
               NEW k \in Keys, CreateReceipt(r, i, d, a, method, status, k)
        PROVE  UNCHANGED <<invoices, seen>>
    BY <2>1 DEF CreateReceipt
  <2>2. CASE ConfirmReceipt(r)
    BY <2>2 DEF ConfirmReceipt
  <2>3. CASE ReverseReceipt(r)
    BY <2>3 DEF ReverseReceipt
  <2> QED
    BY <1>1, <2>1, <2>2, <2>3 DEF ReceiptStep
<1>2. ASSUME NEW x \in Adjustments, AdjustmentStep(x) PROVE UNCHANGED <<invoices, seen>>
  BY <1>2 DEF AdjustmentStep, CreateAdjustment, ReverseAdjustment
<1>3. ASSUME NEW new \in Rates, ChangeTaxRule(new) PROVE UNCHANGED <<invoices, seen>>
  BY <1>3 DEF ChangeTaxRule
<1> QED
  BY <1>1, <1>2, <1>3 DEF Next

LEMMA ReadsStep == TypeOK /\ ReadsAreRows /\ [Next]_vars => ReadsAreRows'
<1> SUFFICES ASSUME TypeOK, ReadsAreRows, [Next]_vars
             PROVE  ReadsAreRows'
  OBVIOUS
<1>1. CASE UNCHANGED <<invoices, seen>>
  BY <1>1 DEF ReadsAreRows
<1> QED
  BY <1>1, OtherStepsLeaveInvoices, ReadsInvoiceStep DEF vars, billing

\* No edit of another user is lost and nobody issues a draft that changed since they read it,
\* for any number of users and edits: the version check alone carries it.
THEOREM LedgerActsOnWhatWasRead == Spec => ActsOnWhatWasRead
<1>1. Init => ReadsAreRows
  BY DEF Init, ReadsAreRows, NoRow
<1>2. TypeOK /\ ReadsAreRows /\ [Next]_vars => ReadsAreRows'
  BY ReadsStep
<1>3. TypeOK /\ ReadsAreRows /\ [Next]_vars =>
        [\A i \in Invoices : (invoices[i].status = "DRAFT" /\ invoices'[i] # invoices[i]) =>
           seen[invoices'[i].by][i] = invoices[i]]_vars
  <2> SUFFICES ASSUME TypeOK, ReadsAreRows, Next,
                      NEW j \in Invoices, invoices[j].status = "DRAFT",
                      invoices'[j] # invoices[j]
               PROVE  seen[invoices'[j].by][j] = invoices[j]
    OBVIOUS
  <2>1. \E u \in Users, i \in Invoices : InvoiceStep(u, i)
    BY OtherStepsLeaveInvoices
  <2> QED
    BY <2>1, DraftStep
<1> QED
  BY <1>1, <1>2, <1>3, LedgerTyped, PTL DEF Spec, ActsOnWhatWasRead
=============================================================================
