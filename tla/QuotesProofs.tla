---------------------------- MODULE QuotesProofs ----------------------------
(***************************************************************************)
(* Proofs about Quotes: a booking is billed what its customer accepted, for *)
(* any bookings, guests, staff, plans, policies and tax rules.  How a plan is *)
(* added up does not matter to it: Total is never expanded.  Then about       *)
(* Reports: what the ledger shows of those bills agrees with itself.          *)
(***************************************************************************)
EXTENDS Quotes, Reports, LedgerProofs, SequenceTheorems

USE QuotesAssumption

-----------------------------------------------------------------------------
(* The invariant *)

Billed(row) == row.status \in {"ISSUED", "CANCELLED"}

\* What a row of a booking says about the invoices of a table.
Agrees(row, table) ==
  /\ row.status = "QUOTED" => row.quote # NoRow
  /\ row.status = "INVOICED" => row.invoice # Null
  /\ (row.quote # NoRow /\ row.quote.rate # Null) =>
       /\ row.quote.total = GrandTotal(row.quote.amount, row.quote.rate)
       /\ Total(row.quote.plan) = row.quote.total
  /\ row.invoice # Null =>
       /\ row.quote # NoRow /\ row.quote.accepted # Null
       /\ Billed(table[row.invoice])
       /\ table[row.invoice].company = row.company
       /\ table[row.invoice].total = row.quote.total
       /\ row.quote.rate # Null =>
            /\ table[row.invoice].amount = row.quote.amount
            /\ table[row.invoice].rate = row.quote.rate
  /\ row.milestones # <<>> =>
       /\ row.invoice # Null
       /\ Total(row.milestones) = table[row.invoice].total
       /\ row.quote.rate # Null => row.milestones = row.quote.plan

AllAgree == \A b \in Bookings : bookings[b] # NoRow => Agrees(bookings[b], invoices)
OneInvoiceEach ==
  \A b, o \in Bookings :
    (/\ bookings[b] # NoRow /\ bookings[o] # NoRow
     /\ bookings[b].invoice # Null /\ bookings[b].invoice = bookings[o].invoice) => b = o

\* A schedule that is about to be stored is of a booking with an invoice, and adds up to it.
DraftsFit ==
  \A u \in Users : draft[u] # NoRow =>
    LET row == bookings[draft[u].booking] IN
    /\ draft[u].booking \in Bookings /\ row # NoRow /\ row.invoice # Null
    /\ Total(draft[u].plan) = invoices[row.invoice].total

QuotesInv == AllAgree /\ OneInvoiceEach /\ DraftsFit

ScheduleRow == [booking : Bookings, plan : Seq(Nat)]
QuotesTyped == QTypeOK /\ draft \in [Users -> ScheduleRow \cup {NoRow}]

LEMMA QuoteRowsAreNotNoRow ==
  /\ NoRow \notin QuoteRow /\ NoRow \notin BookingRow /\ NoRow \notin ScheduleRow
  /\ NoRow \notin InvoiceRow /\ NoRow.status = "NONE"
  BY DEF NoRow, QuoteRow, BookingRow, ScheduleRow, InvoiceRow

LEMMA BookingRows ==
  ASSUME QuotesTyped
  PROVE  /\ \A b \in Bookings : bookings[b] # NoRow => bookings[b] \in BookingRow
         /\ \A b \in Bookings : bookings[b].status # "NONE" => bookings[b] \in BookingRow
         /\ \A u \in Users : draft[u] # NoRow => draft[u] \in ScheduleRow
  BY QuoteRowsAreNotNoRow DEF QuotesTyped, QTypeOK

-----------------------------------------------------------------------------
(* Invoices that a booking may have stay what they are. *)

BillsKept ==
  \A i \in Invoices : Billed(invoices[i]) =>
    /\ Billed(invoices'[i])
    /\ invoices'[i].company = invoices[i].company /\ invoices'[i].total = invoices[i].total
    /\ invoices'[i].amount = invoices[i].amount /\ invoices'[i].rate = invoices[i].rate

LEMMA OneInvoiceMoves ==
  ASSUME TypeOK, NEW i \in Invoices, NEW n, invoices' = [invoices EXCEPT ![i] = n],
         ~ Billed(invoices[i])
  PROVE  BillsKept
<1>1. \A j \in Invoices \ {i} : invoices'[j] = invoices[j]
  BY DEF TypeOK
<1> QED
  BY <1>1 DEF BillsKept

LEMMA CancelKeepsBills ==
  ASSUME TypeOK, NEW u \in Users, NEW i \in Invoices, Cancel(u, i)
  PROVE  BillsKept
<1> DEFINE a == [invoices[i] EXCEPT !.status = "CANCELLED"]
           b == [a EXCEPT !.version = invoices[i].version + 1]
           c == [b EXCEPT !.by = u]
<1>1. invoices[i] \in InvoiceRow
  BY RowExists DEF Cancel
<1>2. /\ a \in InvoiceRow /\ a.status = "CANCELLED"
      /\ a.company = invoices[i].company /\ a.total = invoices[i].total
      /\ a.amount = invoices[i].amount /\ a.rate = invoices[i].rate
  BY <1>1 DEF InvoiceRow
<1>3. invoices' = [invoices EXCEPT ![i] = c]
  BY DEF Cancel
<1> HIDE DEF a
<1>4. invoices[i].version + 1 \in Nat
  BY <1>1 DEF InvoiceRow
<1>5. /\ b \in InvoiceRow /\ b.status = "CANCELLED"
      /\ b.company = invoices[i].company /\ b.total = invoices[i].total
      /\ b.amount = invoices[i].amount /\ b.rate = invoices[i].rate
  BY <1>2, <1>4 DEF InvoiceRow
<1> HIDE DEF b
<1>6. /\ c.status = "CANCELLED"
      /\ c.company = invoices[i].company /\ c.total = invoices[i].total
      /\ c.amount = invoices[i].amount /\ c.rate = invoices[i].rate
  BY <1>5 DEF InvoiceRow
<1> HIDE DEF c
<1>7. invoices'[i] = c /\ \A j \in Invoices \ {i} : invoices'[j] = invoices[j]
  BY <1>3 DEF TypeOK
<1> QED
  BY <1>6, <1>7 DEF BillsKept, Billed

LEMMA HandKeepsBills ==
  ASSUME TypeOK, NEW u \in Users, NEW i \in Invoices, InvoiceStep(u, i)
  PROVE  BillsKept
<1>1. CASE Load(u, i)
  BY <1>1 DEF Load, billing, BillsKept
<1>2. ASSUME NEW c \in Companies, NEW d \in Dates, NEW a \in Prices, CreateDraft(u, i, c, d, a)
      PROVE  BillsKept
  BY <1>2, OneInvoiceMoves, QuoteRowsAreNotNoRow DEF CreateDraft, Billed
<1>3. ASSUME NEW c \in Companies, NEW d \in Dates, NEW a \in Prices, UpdateDraft(u, i, c, d, a)
      PROVE  BillsKept
  BY <1>3, OneInvoiceMoves DEF UpdateDraft, Editable, Billed
<1>4. CASE Issue(u, i)
  BY <1>4, OneInvoiceMoves DEF Issue, Editable, Billed
<1>5. CASE Cancel(u, i)
  BY <1>5, CancelKeepsBills
<1>6. ASSUME NEW c \in Companies, NEW d \in Dates, NEW a \in Prices, NEW n \in LegacyNumbers,
             NEW src \in Sources, ImportInvoice(u, i, c, d, a, n, src)
      PROVE  BillsKept
  BY <1>6, OneInvoiceMoves, QuoteRowsAreNotNoRow DEF ImportInvoice, Billed
<1> QED
  BY <1>1, <1>2, <1>3, <1>4, <1>5, <1>6 DEF InvoiceStep

\* Schedules that are about to be stored are stored, not changed.
DraftsEnd == \A u \in Users : draft'[u] # NoRow => draft'[u] = draft[u]

\* A row that agrees with the invoices goes on to do so.
LEMMA StillAgrees ==
  ASSUME NEW row \in BookingRow, Agrees(row, invoices), BillsKept
  PROVE  Agrees(row, invoices')
<1>1. row.invoice # Null => row.invoice \in Invoices
  BY DEF BookingRow
<1> QED
  BY <1>1 DEF Agrees, BillsKept

LEMMA QuotesKept ==
  ASSUME QuotesTyped, QuotesInv, BillsKept, UNCHANGED bookings, DraftsEnd
  PROVE  QuotesInv'
<1>1. AllAgree'
  BY BookingRows, StillAgrees DEF QuotesInv, AllAgree
<1>2. DraftsFit'
  <2> SUFFICES ASSUME NEW u \in Users, draft[u] # NoRow, draft'[u] = draft[u]
               PROVE  LET row == bookings[draft[u].booking] IN
                      /\ draft[u].booking \in Bookings /\ row # NoRow /\ row.invoice # Null
                      /\ Total(draft[u].plan) = invoices'[row.invoice].total
    BY DEF DraftsFit, DraftsEnd
  <2> DEFINE row == bookings[draft[u].booking]
  <2>1. /\ draft[u].booking \in Bookings /\ row # NoRow /\ row.invoice # Null
        /\ Total(draft[u].plan) = invoices[row.invoice].total
    BY DEF QuotesInv, DraftsFit
  <2>2. row \in BookingRow /\ Agrees(row, invoices)
    BY <2>1, BookingRows DEF QuotesInv, AllAgree
  <2> HIDE DEF row
  <2>3. row.invoice \in Invoices /\ Billed(invoices[row.invoice])
    BY <2>1, <2>2 DEF Agrees, BookingRow
  <2>4. invoices'[row.invoice].total = invoices[row.invoice].total
    BY <2>3 DEF BillsKept
  <2> QED
    BY <2>1, <2>4 DEF row
<1> QED
  BY <1>1, <1>2 DEF QuotesInv, OneInvoiceEach

-----------------------------------------------------------------------------
(* Steps that write the row of one booking *)

\* The row n takes the place of bookings[b], with an invoice of its own.
Replaces(b, n) ==
  /\ bookings' = [bookings EXCEPT ![b] = n]
  /\ n \in BookingRow /\ Agrees(n, invoices')
  /\ (bookings[b] # NoRow /\ bookings[b].invoice # Null) => n.invoice = bookings[b].invoice
  /\ n.invoice # Null =>
       \A o \in Bookings \ {b} : bookings[o] # NoRow => bookings[o].invoice # n.invoice

LEMMA OneBookingMoves ==
  ASSUME QuotesTyped, QuotesInv, BillsKept, NEW b \in Bookings, NEW n, Replaces(b, n),
         DraftsEnd
  PROVE  /\ QuotesInv' /\ bookings' \in [Bookings -> BookingRow \cup {NoRow}]
<1>1. /\ bookings'[b] = n /\ \A o \in Bookings \ {b} : bookings'[o] = bookings[o]
      /\ bookings' \in [Bookings -> BookingRow \cup {NoRow}]
  BY DEF QuotesTyped, QTypeOK, Replaces
<1>2. n # NoRow /\ n \in BookingRow
  BY QuoteRowsAreNotNoRow DEF Replaces
<1>3. AllAgree'
  <2>1. ASSUME NEW o \in Bookings \ {b}, bookings[o] # NoRow PROVE Agrees(bookings[o], invoices')
    BY <2>1, BookingRows, StillAgrees DEF QuotesInv, AllAgree
  <2>2. Agrees(n, invoices')
    BY DEF Replaces
  <2> QED
    BY <1>1, <2>1, <2>2 DEF AllAgree
<1>4. OneInvoiceEach'
  <2>1. n.invoice # Null =>
          \A o \in Bookings \ {b} : bookings[o] # NoRow => bookings[o].invoice # n.invoice
    BY DEF Replaces
  <2>2. ASSUME NEW x \in Bookings, NEW y \in Bookings,
               bookings'[x] # NoRow, bookings'[y] # NoRow,
               bookings'[x].invoice # Null, bookings'[x].invoice = bookings'[y].invoice
        PROVE  x = y
    <3>1. CASE x = b /\ y = b
      BY <3>1
    <3>2. CASE x = b /\ y # b
      BY <1>1, <2>1, <2>2, <3>2
    <3>3. CASE x # b /\ y = b
      BY <1>1, <2>1, <2>2, <3>3
    <3>4. CASE x # b /\ y # b
      BY <1>1, <2>2, <3>4 DEF QuotesInv, OneInvoiceEach
    <3> QED
      BY <3>1, <3>2, <3>3, <3>4
  <2> QED
    BY <2>2 DEF OneInvoiceEach
<1>5. DraftsFit'
  <2> SUFFICES ASSUME NEW u \in Users, draft[u] # NoRow, draft'[u] = draft[u]
               PROVE  LET row == bookings'[draft[u].booking] IN
                      /\ draft[u].booking \in Bookings /\ row # NoRow /\ row.invoice # Null
                      /\ Total(draft[u].plan) = invoices'[row.invoice].total
    BY DEF DraftsFit, DraftsEnd
  <2> DEFINE o == draft[u].booking
  <2>1. /\ o \in Bookings /\ bookings[o] # NoRow /\ bookings[o].invoice # Null
        /\ Total(draft[u].plan) = invoices[bookings[o].invoice].total
    BY DEF QuotesInv, DraftsFit
  <2> HIDE DEF o
  <2>2. bookings[o] \in BookingRow /\ Agrees(bookings[o], invoices)
    BY <2>1, BookingRows DEF QuotesInv, AllAgree
  <2>3. bookings[o].invoice \in Invoices /\ Billed(invoices[bookings[o].invoice])
    BY <2>1, <2>2 DEF Agrees, BookingRow
  <2>4. invoices'[bookings[o].invoice].total = invoices[bookings[o].invoice].total
    BY <2>3 DEF BillsKept
  <2>5. bookings'[o] # NoRow /\ bookings'[o].invoice = bookings[o].invoice
    <3>1. CASE o = b
      BY <1>1, <1>2, <2>1, <3>1 DEF Replaces
    <3>2. CASE o # b
      BY <1>1, <2>1, <3>2
    <3> QED
      BY <3>1, <3>2
  <2> QED
    BY <2>1, <2>4, <2>5 DEF o
<1> QED
  BY <1>1, <1>3, <1>4, <1>5 DEF QuotesInv

\* The ways a row is written.
WithLink(row, k) == [row EXCEPT !.link = k]
WithState(row, status) == [row EXCEPT !.status = status]
WithQuote(row, quote) == [row EXCEPT !.quote = quote]
WithInvoice(row, i) == [row EXCEPT !.invoice = i]
WithPlan(row, plan) == [row EXCEPT !.milestones = plan]
AsActive(row) == [row EXCEPT !.activated = TRUE]

LEMMA RowWithLink ==
  ASSUME NEW row \in BookingRow, NEW k \in 1 .. MaxLink
  PROVE  LET n == WithLink(row, k) IN
         /\ n \in BookingRow /\ n.status = row.status /\ n.company = row.company
         /\ n.quote = row.quote /\ n.milestones = row.milestones /\ n.invoice = row.invoice
  BY DEF WithLink, BookingRow

LEMMA RowWithState ==
  ASSUME NEW row \in BookingRow, NEW status \in {"QUOTED", "INVOICED", "CANCELLED"}
  PROVE  LET n == WithState(row, status) IN
         /\ n \in BookingRow /\ n.status = status /\ n.company = row.company
         /\ n.quote = row.quote /\ n.milestones = row.milestones /\ n.invoice = row.invoice
  BY DEF WithState, BookingRow

LEMMA RowWithQuote ==
  ASSUME NEW row \in BookingRow, NEW quote \in QuoteRow
  PROVE  LET n == WithQuote(row, quote) IN
         /\ n \in BookingRow /\ n.status = row.status /\ n.company = row.company
         /\ n.quote = quote /\ n.milestones = row.milestones /\ n.invoice = row.invoice
  BY DEF WithQuote, BookingRow

LEMMA RowWithInvoice ==
  ASSUME NEW row \in BookingRow, NEW i \in Invoices
  PROVE  LET n == WithInvoice(row, i) IN
         /\ n \in BookingRow /\ n.status = row.status /\ n.company = row.company
         /\ n.quote = row.quote /\ n.milestones = row.milestones /\ n.invoice = i
  BY DEF WithInvoice, BookingRow

LEMMA RowWithPlan ==
  ASSUME NEW row \in BookingRow, NEW plan \in Seq(Nat)
  PROVE  LET n == WithPlan(row, plan) IN
         /\ n \in BookingRow /\ n.status = row.status /\ n.company = row.company
         /\ n.quote = row.quote /\ n.milestones = plan /\ n.invoice = row.invoice
  BY DEF WithPlan, BookingRow

LEMMA RowAsActive ==
  ASSUME NEW row \in BookingRow
  PROVE  LET n == AsActive(row) IN
         /\ n \in BookingRow /\ n.status = row.status /\ n.company = row.company
         /\ n.quote = row.quote /\ n.milestones = row.milestones /\ n.invoice = row.invoice
  BY DEF AsActive, BookingRow

\* A change that leaves the quote, the schedule and the invoice of a row alone.
LEMMA SameContract ==
  ASSUME QuotesTyped, QuotesInv, NEW b \in Bookings, bookings[b] # NoRow, UNCHANGED <<vars, draft>>,
         NEW n \in BookingRow, bookings' = [bookings EXCEPT ![b] = n],
         n.status \in {bookings[b].status, "CANCELLED"},
         n.company = bookings[b].company, n.quote = bookings[b].quote,
         n.milestones = bookings[b].milestones, n.invoice = bookings[b].invoice
  PROVE  QuotesInv' /\ bookings' \in [Bookings -> BookingRow \cup {NoRow}]
<1>1. Agrees(bookings[b], invoices) /\ UNCHANGED <<invoices, draft>>
  BY DEF QuotesInv, AllAgree, vars, billing
<1>2. Agrees(n, invoices')
  BY <1>1 DEF Agrees
<1>3. n.invoice # Null =>
        \A o \in Bookings \ {b} : bookings[o] # NoRow => bookings[o].invoice # n.invoice
  BY DEF QuotesInv, OneInvoiceEach
<1>4. Replaces(b, n)
  BY <1>2, <1>3 DEF Replaces
<1>5. BillsKept
  BY <1>1 DEF BillsKept
<1> QED
  BY <1>1, <1>4, <1>5, OneBookingMoves DEF DraftsEnd

-----------------------------------------------------------------------------
(* Plans *)

LEMMA PlansAddUp ==
  ASSUME NEW total \in Nat, NEW c \in Companies, policy \in [Companies -> Percents],
         NEW p \in Proposals(total, c)
  PROVE  p \in Seq(Nat) /\ Total(p) = total
<1>1. Fits(p, total)
  BY DEF Proposals
<1>3. ASSUME p \in Plans PROVE p \in Seq(Nat)
  <2>1. p \in Seq(1 .. MaxMinor)
    BY <1>3
  <2>2. 1 .. MaxMinor \subseteq Nat
    OBVIOUS
  <2> QED
    BY <2>1, <2>2, SeqMonotonic
<1>4. ASSUME NEW near \in BOOLEAN, p = DefaultPlan(total, policy[c], near)
      PROVE  p \in Seq(Nat)
  <2> DEFINE advance == Advance(total, policy[c])
  <2>1. advance \in Int
    <3>1. policy[c] \in Percents
      OBVIOUS
    <3>2. policy[c] \in 1 .. 99
      BY <3>1
    <3>3. PICK percent \in 1 .. 99 : percent = policy[c]
      BY <3>2
    <3>4. total * percent \in Int
      OBVIOUS
    <3> QED
      BY <3>3, <3>4 DEF Advance
  <2>2. p = IF near \/ advance <= 0 \/ advance >= total THEN <<total>> ELSE <<advance, total - advance>>
    BY <1>4 DEF DefaultPlan
  <2> HIDE DEF advance
  <2>3. CASE near \/ advance <= 0 \/ advance >= total
    BY <2>2, <2>3
  <2>4. CASE ~ (near \/ advance <= 0 \/ advance >= total)
    <3>1. advance \in Nat /\ total - advance \in Nat
      BY <2>1, <2>4
    <3> QED
      BY <2>2, <2>4, <3>1
  <2> QED
    BY <2>3, <2>4
<1>5. p \in Seq(Nat)
  BY <1>3, <1>4 DEF Proposals
<1> QED
  BY <1>1, <1>5 DEF Fits

-----------------------------------------------------------------------------
(* The steps *)

LEMMA SameLedger ==
  ASSUME TypeOK, UNCHANGED vars
  PROVE  TypeOK' /\ BillsKept
<1>1. BillsKept
  BY DEF BillsKept, vars, billing
<1> QED
  BY <1>1, StepTyped

LEMMA CreateBookingStep ==
  ASSUME QuotesTyped, QuotesInv, NEW b \in Bookings, NEW c \in Companies, CreateBooking(b, c)
  PROVE  QuotesTyped' /\ QuotesInv'
<1> DEFINE n == [status |-> "DRAFT", company |-> c, quote |-> NoRow, milestones |-> <<>>,
                 invoice |-> Null, activated |-> FALSE, link |-> 1]
<1>1. /\ bookings[b] = NoRow /\ bookings' = [bookings EXCEPT ![b] = n]
      /\ UNCHANGED <<vars, policy, draft>>
  BY DEF CreateBooking
<1>2. TypeOK' /\ BillsKept
  BY <1>1, SameLedger DEF QuotesTyped, QTypeOK
<1>3. n \in BookingRow
  <2>1. <<>> \in Seq(Nat) /\ 1 \in 1 .. MaxLink
    OBVIOUS
  <2> QED
    BY <2>1 DEF BookingRow
<1>4. Agrees(n, invoices')
  BY DEF Agrees
<1>5. n.invoice = Null
  OBVIOUS
<1> HIDE DEF n
<1>6. Replaces(b, n)
  BY <1>1, <1>3, <1>4, <1>5 DEF Replaces
<1>7. QuotesInv' /\ bookings' \in [Bookings -> BookingRow \cup {NoRow}]
  BY <1>1, <1>2, <1>6, OneBookingMoves DEF DraftsEnd
<1> QED
  BY <1>1, <1>2, <1>7 DEF QuotesTyped, QTypeOK

LEMMA RotateStep ==
  ASSUME QuotesTyped, QuotesInv, NEW b \in Bookings, RotateAccessToken(b)
  PROVE  QuotesTyped' /\ QuotesInv'
<1> DEFINE row == bookings[b]
           n == WithLink(row, row.link + 1)
<1>1. row # NoRow /\ row.link < MaxLink /\ row \in BookingRow
  BY BookingRows DEF RotateAccessToken, Row
<1>2. bookings' = [bookings EXCEPT ![b] = n] /\ UNCHANGED <<vars, policy, draft>>
  BY DEF RotateAccessToken, WithLink
<1>3. row.link + 1 \in 1 .. MaxLink
  BY <1>1 DEF BookingRow
<1>4. /\ n \in BookingRow /\ n.status = row.status /\ n.company = row.company
      /\ n.quote = row.quote /\ n.milestones = row.milestones /\ n.invoice = row.invoice
  BY <1>1, <1>3, RowWithLink
<1> HIDE DEF n
<1>5. QuotesInv' /\ bookings' \in [Bookings -> BookingRow \cup {NoRow}]
  BY <1>1, <1>2, <1>4, SameContract
<1>6. TypeOK'
  BY <1>2, SameLedger DEF QuotesTyped, QTypeOK
<1> QED
  BY <1>2, <1>5, <1>6 DEF QuotesTyped, QTypeOK

LEMMA CancelBookingStep ==
  ASSUME QuotesTyped, QuotesInv, NEW b \in Bookings, CancelBooking(b)
  PROVE  QuotesTyped' /\ QuotesInv'
<1> DEFINE row == bookings[b]
           n == WithState(row, "CANCELLED")
<1>1. row.status # "NONE"
  BY DEF CancelBooking, Row
<1>2. row \in BookingRow /\ row # NoRow
  BY <1>1, BookingRows, QuoteRowsAreNotNoRow
<1>3. bookings' = [bookings EXCEPT ![b] = n] /\ UNCHANGED <<vars, policy, draft>>
  BY DEF CancelBooking, WithState
<1>4. /\ n \in BookingRow /\ n.status = "CANCELLED" /\ n.company = row.company
      /\ n.quote = row.quote /\ n.milestones = row.milestones /\ n.invoice = row.invoice
  BY <1>2, RowWithState
<1> HIDE DEF n
<1>5. QuotesInv' /\ bookings' \in [Bookings -> BookingRow \cup {NoRow}]
  BY <1>2, <1>3, <1>4, SameContract
<1>6. TypeOK'
  BY <1>3, SameLedger DEF QuotesTyped, QTypeOK
<1> QED
  BY <1>3, <1>5, <1>6 DEF QuotesTyped, QTypeOK

\* A quote that is added is a row whose plan, when it has one, adds up.
LEMMA NewQuote ==
  ASSUME QuotesTyped, NEW b \in Bookings, bookings[b] \in BookingRow, Version(b) < MaxQuotes,
         NEW a \in Prices, NEW quote \in Structure(b, a) \cup Legacy(b, a)
  PROVE  /\ quote \in QuoteRow
         /\ quote.rate # Null =>
              quote.total = GrandTotal(quote.amount, quote.rate) /\ Total(quote.plan) = quote.total
<1>1. Version(b) + 1 \in 1 .. MaxQuotes
  <2>1. Version(b) \in Nat
    BY DEF Version, Quote, BookingRow, QuoteRow
  <2> QED
    BY <2>1
<1>2. a \in Nat /\ rate \in Rates /\ GrandTotal(a, rate) \in Nat
  <2>0. Prices \subseteq Nat
    BY LedgerAssumption
  <2>1. a \in Nat /\ rate \in Rates
    BY <2>0 DEF QuotesTyped, QTypeOK, TypeOK
  <2> QED
    BY <2>1, TotalIsNatural
<1>3. CASE quote \in Structure(b, a)
  <2>1. PICK p \in Proposals(GrandTotal(a, rate), Row(b).company), e \in BOOLEAN :
          quote = [version |-> Version(b) + 1, amount |-> a, rate |-> rate,
                   total |-> GrandTotal(a, rate), plan |-> p, expires |-> e, accepted |-> Null]
    BY <1>3 DEF Structure
  <2>2. Row(b).company \in Companies /\ policy \in [Companies -> Percents]
    BY DEF Row, BookingRow, QuotesTyped, QTypeOK
  <2>3. p \in Seq(Nat) /\ Total(p) = GrandTotal(a, rate)
    BY <1>2, <2>2, PlansAddUp
  <2>4. quote \in QuoteRow
    BY <1>1, <1>2, <2>1, <2>3 DEF QuoteRow
  <2> QED
    BY <2>1, <2>3, <2>4
<1>4. CASE quote \in Legacy(b, a)
  <2>1. PICK e \in BOOLEAN :
          quote = [version |-> Version(b) + 1, amount |-> a, rate |-> Null, total |-> a,
                   plan |-> <<>>, expires |-> e, accepted |-> Null]
    BY <1>4 DEF Legacy
  <2>2. <<>> \in Seq(Nat)
    OBVIOUS
  <2>3. quote \in QuoteRow
    BY <1>1, <1>2, <2>1, <2>2 DEF QuoteRow
  <2> QED
    BY <2>1, <2>3
<1> QED
  BY <1>3, <1>4

LEMMA AddQuoteStep ==
  ASSUME QuotesTyped, QuotesInv, NEW b \in Bookings, NEW a \in Prices, AddQuote(b, a)
  PROVE  QuotesTyped' /\ QuotesInv'
<1> DEFINE row == bookings[b]
<1>1. PICK quote \in Structure(b, a) \cup Legacy(b, a) :
        bookings' = [bookings EXCEPT ![b].quote = quote, ![b].status = "QUOTED"]
  BY DEF AddQuote
<1>2. /\ row.status \in {"DRAFT", "QUOTED"} /\ row.invoice = Null /\ Version(b) < MaxQuotes
      /\ UNCHANGED <<vars, policy, draft>>
  BY DEF AddQuote, Quotable, Row
<1>3. row \in BookingRow /\ row # NoRow
  BY <1>2, BookingRows, QuoteRowsAreNotNoRow
<1>4. /\ quote \in QuoteRow
      /\ quote.rate # Null =>
           quote.total = GrandTotal(quote.amount, quote.rate) /\ Total(quote.plan) = quote.total
  BY <1>2, <1>3, NewQuote
<1> DEFINE m == WithQuote(row, quote)
           n == WithState(m, "QUOTED")
<1>5. bookings' = [bookings EXCEPT ![b] = n]
  BY <1>1, <1>3 DEF WithQuote, WithState, QuotesTyped, QTypeOK
<1>6. /\ m \in BookingRow /\ m.company = row.company
      /\ m.quote = quote /\ m.milestones = row.milestones /\ m.invoice = row.invoice
  BY <1>3, <1>4, RowWithQuote
<1> HIDE DEF m
<1>7. /\ n \in BookingRow /\ n.status = "QUOTED" /\ n.company = m.company
      /\ n.quote = m.quote /\ n.milestones = m.milestones /\ n.invoice = m.invoice
  BY <1>6, RowWithState
<1> HIDE DEF n
<1>8. row.milestones = <<>>
  BY <1>2, <1>3 DEF QuotesInv, AllAgree, Agrees
<1>9. Agrees(n, invoices')
  BY <1>2, <1>4, <1>6, <1>7, <1>8, QuoteRowsAreNotNoRow DEF Agrees
<1>10. Replaces(b, n)
  BY <1>2, <1>5, <1>6, <1>7, <1>9 DEF Replaces
<1>11. TypeOK' /\ BillsKept
  BY <1>2, SameLedger DEF QuotesTyped, QTypeOK
<1>12. QuotesInv' /\ bookings' \in [Bookings -> BookingRow \cup {NoRow}]
  BY <1>2, <1>10, <1>11, OneBookingMoves DEF DraftsEnd
<1> QED
  BY <1>2, <1>11, <1>12 DEF QuotesTyped, QTypeOK

AcceptedBy(quote, g) == [quote EXCEPT !.accepted = g]

LEMMA AcceptQuoteStep ==
  ASSUME QuotesTyped, QuotesInv, NEW b \in Bookings, NEW g \in Guests, NEW asked, AcceptQuote(g, b, asked)
  PROVE  QuotesTyped' /\ QuotesInv'
<1> DEFINE row == bookings[b]
           old == row.quote
           new == AcceptedBy(old, g)
           n == WithQuote(row, new)
<1>1. /\ row.status = "QUOTED" /\ old.accepted = Null /\ UNCHANGED <<vars, policy, draft>>
      /\ bookings' = [bookings EXCEPT ![b].quote.accepted = g]
  BY DEF AcceptQuote, Row, Quote
<1>2. row \in BookingRow /\ row # NoRow /\ Agrees(row, invoices)
  <2>1. row \in BookingRow /\ row # NoRow
    BY <1>1, BookingRows, QuoteRowsAreNotNoRow
  <2> QED
    BY <2>1 DEF QuotesInv, AllAgree
<1>3. row.invoice = Null /\ row.milestones = <<>>
  BY <1>1, <1>2 DEF Agrees
<1>4. bookings' = [bookings EXCEPT ![b] = n]
  BY <1>1 DEF WithQuote, AcceptedBy
<1>5. CASE old # NoRow
  <2>1. old \in QuoteRow
    BY <1>2, <1>5 DEF BookingRow
  <2>2. /\ new \in QuoteRow /\ new.total = old.total /\ new.amount = old.amount
        /\ new.rate = old.rate /\ new.plan = old.plan
    BY <2>1 DEF AcceptedBy, QuoteRow
  <2> HIDE DEF new
  <2>3. /\ n \in BookingRow /\ n.status = row.status /\ n.company = row.company
        /\ n.quote = new /\ n.milestones = row.milestones /\ n.invoice = row.invoice
    BY <1>2, <2>2, RowWithQuote
  <2> HIDE DEF n
  <2>4. Agrees(n, invoices')
    BY <1>1, <1>2, <1>3, <1>5, <2>2, <2>3, QuoteRowsAreNotNoRow DEF Agrees
  <2>5. Replaces(b, n)
    BY <1>3, <1>4, <2>3, <2>4 DEF Replaces
  <2>6. TypeOK' /\ BillsKept
    BY <1>1, SameLedger DEF QuotesTyped, QTypeOK
  <2>7. QuotesInv' /\ bookings' \in [Bookings -> BookingRow \cup {NoRow}]
    BY <1>1, <2>5, <2>6, OneBookingMoves DEF DraftsEnd
  <2> QED
    BY <1>1, <2>6, <2>7 DEF QuotesTyped, QTypeOK
<1> QED
  BY <1>1, <1>2, <1>5 DEF Agrees

LEMMA AttachStep ==
  ASSUME QuotesTyped, QuotesInv, NEW b \in Bookings, NEW i \in Invoices, AttachInvoice(b, i)
  PROVE  QuotesTyped' /\ QuotesInv'
<1> DEFINE row == bookings[b]
           m == WithInvoice(row, i)
           n == WithState(m, "INVOICED")
<1>1. /\ row.status = "QUOTED" /\ row.invoice = Null /\ UNCHANGED <<vars, policy, draft>>
      /\ row.quote # NoRow /\ row.quote.accepted # Null
      /\ invoices[i].status = "ISSUED" /\ invoices[i].company = row.company
      /\ invoices[i].total = row.quote.total
      /\ row.quote.rate # Null =>
           invoices[i].amount = row.quote.amount /\ invoices[i].rate = row.quote.rate
      /\ \A o \in Bookings : bookings[o] # NoRow => bookings[o].invoice # i
  BY DEF AttachInvoice, Row, Accepted, Quote, PricingAgrees, Structured, Unlinked
<1>2. row \in BookingRow /\ row # NoRow
  BY <1>1, BookingRows, QuoteRowsAreNotNoRow
<1>3. bookings' = [bookings EXCEPT ![b] = n]
  <2>1. bookings' = [bookings EXCEPT ![b].invoice = i, ![b].status = "INVOICED"]
    BY DEF AttachInvoice
  <2> QED
    BY <1>2, <2>1 DEF WithInvoice, WithState, QuotesTyped, QTypeOK
<1>4. /\ m \in BookingRow /\ m.company = row.company
      /\ m.quote = row.quote /\ m.milestones = row.milestones /\ m.invoice = i
  BY <1>2, RowWithInvoice
<1> HIDE DEF m
<1>5. /\ n \in BookingRow /\ n.status = "INVOICED" /\ n.company = m.company
      /\ n.quote = m.quote /\ n.milestones = m.milestones /\ n.invoice = m.invoice
  BY <1>4, RowWithState
<1> HIDE DEF n
<1>6. Agrees(row, invoices) /\ i # Null /\ UNCHANGED invoices
  BY <1>1, <1>2 DEF QuotesInv, AllAgree, vars, billing
<1>7. row.milestones = <<>>
  BY <1>1, <1>6 DEF Agrees
<1>8. Agrees(n, invoices')
  BY <1>1, <1>4, <1>5, <1>6, <1>7 DEF Agrees, Billed
<1>9. Replaces(b, n)
  BY <1>1, <1>3, <1>4, <1>5, <1>8 DEF Replaces
<1>10. TypeOK' /\ BillsKept
  BY <1>1, SameLedger DEF QuotesTyped, QTypeOK
<1>11. QuotesInv' /\ bookings' \in [Bookings -> BookingRow \cup {NoRow}]
  BY <1>1, <1>9, <1>10, OneBookingMoves DEF DraftsEnd
<1> QED
  BY <1>1, <1>10, <1>11 DEF QuotesTyped, QTypeOK

AsIssued(row, k) == [row EXCEPT !.status = "ISSUED", !.number = k]

\* The invoice that enabling payment issues is the quote's.
LEMMA QuotedInvoice ==
  ASSUME rate \in Rates, NEW u \in Users, NEW c \in Companies, NEW d \in Dates, NEW a \in Nat,
         NEW k \in Nat
  PROVE  LET n == AsIssued(Draft(u, 2, c, d, a), k) IN
         /\ n \in InvoiceRow /\ n.status = "ISSUED" /\ n.company = c
         /\ n.amount = a /\ n.rate = rate /\ n.total = GrandTotal(a, rate)
<1> DEFINE m == Draft(u, 2, c, d, a)
           e == [m EXCEPT !.status = "ISSUED"]
           n == AsIssued(m, k)
<1>1. rate \in Nat /\ GrandTotal(a, rate) \in Nat
  BY TotalIsNatural
<1>2. /\ m \in InvoiceRow /\ m.company = c
      /\ m.amount = a /\ m.rate = rate /\ m.total = GrandTotal(a, rate)
  BY <1>1 DEF Draft, InvoiceRow
<1>3. n = [e EXCEPT !.number = k]
  BY DEF AsIssued
<1> HIDE DEF m, n
<1>4. /\ e \in InvoiceRow /\ e.status = "ISSUED" /\ e.company = c
      /\ e.amount = a /\ e.rate = rate /\ e.total = GrandTotal(a, rate)
  BY <1>2 DEF InvoiceRow
<1> HIDE DEF e
<1>5. k \in Int
  OBVIOUS
<1>6. /\ n \in InvoiceRow /\ n.status = "ISSUED" /\ n.company = c
      /\ n.amount = a /\ n.rate = rate /\ n.total = GrandTotal(a, rate)
  BY <1>3, <1>4, <1>5 DEF InvoiceRow
<1> QED
  BY <1>6 DEF n, m

LEMMA EnableStep ==
  ASSUME QuotesTyped, QuotesInv, NEW u \in Users, NEW b \in Bookings, NEW i \in Invoices,
         NEW d \in Dates, EnablePayment(u, b, i, d)
  PROVE  QuotesTyped' /\ QuotesInv'
<1> DEFINE row == bookings[b]
           s == SeriesOf(row.company, d, "I")
           bill == AsIssued(Draft(u, 2, row.company, d, row.quote.amount), NextNumber(s))
<1>1. /\ row # NoRow /\ row.status = "QUOTED" /\ row.invoice = Null /\ row.milestones = <<>>
      /\ row.quote # NoRow /\ row.quote.accepted # Null
      /\ row.quote.rate # Null /\ row.quote.rate = rate
      /\ invoices[i] = NoRow
      /\ TakeNumber(s) /\ Emit(<<"issued", i>>)
      /\ UNCHANGED <<receipts, adjustments, rate, seen, policy, draft>>
  BY DEF EnablePayment, Eligible, Row, Accepted, Quote, Structured
<1>2. invoices' = [invoices EXCEPT ![i] = bill]
  BY DEF EnablePayment, Row, Quote, AsIssued
<1>3. /\ row \in BookingRow /\ row.quote \in QuoteRow /\ Agrees(row, invoices)
  <2>1. row \in BookingRow
    BY <1>1, BookingRows
  <2>2. row.quote \in QuoteRow
    BY <1>1, <2>1 DEF BookingRow
  <2> QED
    BY <1>1, <2>1, <2>2 DEF QuotesInv, AllAgree
<1>4. /\ row.company \in Companies /\ row.quote.amount \in Nat /\ row.quote.plan \in Seq(Nat)
      /\ TypeOK /\ rate \in Rates
  BY <1>3 DEF BookingRow, QuoteRow, QuotesTyped, QTypeOK, TypeOK
<1>5. s \in Series
  BY <1>4, SeriesExists
<1> HIDE DEF s
<1>6. counters' \in [Series -> Nat] /\ NextNumber(s) \in Nat
  BY <1>1, <1>4, <1>5, TakeNumberIsTyped
<1>7. /\ bill \in InvoiceRow /\ bill.status = "ISSUED" /\ bill.company = row.company
      /\ bill.amount = row.quote.amount /\ bill.rate = rate
      /\ bill.total = GrandTotal(row.quote.amount, rate)
  BY <1>4, <1>6, QuotedInvoice
<1> HIDE DEF bill
<1>8. TypeOK'
  <2>1. invoices' \in [Invoices -> InvoiceRow \cup {NoRow}]
    BY <1>2, <1>4, <1>7 DEF TypeOK
  <2>2. outbox' \in [InvoiceEvents \cup ReceiptEvents -> Nat]
    BY <1>1, <1>4, EmitIsTyped DEF InvoiceEvents
  <2> QED
    BY <1>1, <1>4, <1>6, <2>1, <2>2 DEF TypeOK
<1>9. BillsKept
  BY <1>1, <1>2, <1>4, OneInvoiceMoves, QuoteRowsAreNotNoRow DEF Billed
<1> DEFINE m == WithInvoice(row, i)
           k == WithState(m, "INVOICED")
           l == AsActive(k)
           n == WithPlan(l, row.quote.plan)
<1>10. bookings' = [bookings EXCEPT ![b] = n]
  <2>1. bookings' = [bookings EXCEPT ![b].invoice = i, ![b].status = "INVOICED",
                                     ![b].activated = TRUE, ![b].milestones = row.quote.plan]
    BY DEF EnablePayment, Quote
  <2> QED
    BY <1>3, <2>1 DEF WithInvoice, WithState, AsActive, WithPlan, QuotesTyped, QTypeOK
<1>11. /\ m \in BookingRow /\ m.company = row.company /\ m.quote = row.quote /\ m.invoice = i
  BY <1>3, RowWithInvoice
<1> HIDE DEF m
<1>12. /\ k \in BookingRow /\ k.status = "INVOICED" /\ k.company = m.company
       /\ k.quote = m.quote /\ k.invoice = m.invoice
  BY <1>11, RowWithState
<1> HIDE DEF k
<1>13. /\ l \in BookingRow /\ l.status = k.status /\ l.company = k.company
       /\ l.quote = k.quote /\ l.invoice = k.invoice
  BY <1>12, RowAsActive
<1> HIDE DEF l
<1>14. /\ n \in BookingRow /\ n.status = l.status /\ n.company = l.company
       /\ n.quote = l.quote /\ n.invoice = l.invoice /\ n.milestones = row.quote.plan
  BY <1>4, <1>13, RowWithPlan
<1> HIDE DEF n
<1>15. /\ n.status = "INVOICED" /\ n.company = row.company
       /\ n.quote = row.quote /\ n.invoice = i
  BY <1>11, <1>12, <1>13, <1>14
<1>16. invoices'[i] = bill /\ i # Null
  BY <1>2, <1>4 DEF TypeOK
<1>17. /\ row.quote.total = GrandTotal(row.quote.amount, row.quote.rate)
       /\ Total(row.quote.plan) = row.quote.total
  BY <1>1, <1>3 DEF Agrees
<1>18. Agrees(n, invoices')
  BY <1>1, <1>7, <1>14, <1>15, <1>16, <1>17 DEF Agrees, Billed
<1>19. ASSUME NEW o \in Bookings, bookings[o] # NoRow PROVE bookings[o].invoice # i
  <2>1. bookings[o].invoice # Null => Billed(invoices[bookings[o].invoice])
    BY <1>19 DEF QuotesInv, AllAgree, Agrees
  <2> QED
    BY <1>1, <1>16, <2>1, QuoteRowsAreNotNoRow DEF Billed
<1>20. Replaces(b, n)
  BY <1>1, <1>10, <1>14, <1>15, <1>18, <1>19 DEF Replaces
<1>21. QuotesInv' /\ bookings' \in [Bookings -> BookingRow \cup {NoRow}]
  BY <1>1, <1>9, <1>20, OneBookingMoves DEF DraftsEnd
<1> QED
  BY <1>1, <1>8, <1>21 DEF QuotesTyped, QTypeOK

LEMMA PlanStep ==
  ASSUME QuotesTyped, QuotesInv, NEW u \in Users, NEW b \in Bookings, PlanSchedule(u, b)
  PROVE  QuotesTyped' /\ QuotesInv'
<1> DEFINE row == bookings[b]
<1>1. row.status = "INVOICED" /\ UNCHANGED <<vars, bookings, policy>>
  BY DEF PlanSchedule, Row
<1>2. row \in BookingRow /\ row # NoRow
  BY <1>1, BookingRows, QuoteRowsAreNotNoRow
<1>3. row.invoice # Null /\ row.invoice \in Invoices /\ row.company \in Companies
  BY <1>1, <1>2 DEF QuotesInv, AllAgree, Agrees, BookingRow
<1>4. invoices[row.invoice].total \in Nat
  <2>1. invoices[row.invoice].status # "NONE"
    BY DEF PlanSchedule, Row
  <2>2. invoices[row.invoice] \in InvoiceRow
    BY <1>3, <2>1, RowExists DEF QuotesTyped, QTypeOK
  <2> QED
    BY <2>2 DEF InvoiceRow
<1>5. PICK p \in Proposals(invoices[row.invoice].total, row.company) :
        draft' = [draft EXCEPT ![u] = [booking |-> b, plan |-> p]]
  BY DEF PlanSchedule, Row
<1>6. p \in Seq(Nat) /\ Total(p) = invoices[row.invoice].total
  <2>1. policy \in [Companies -> Percents]
    BY DEF QuotesTyped, QTypeOK
  <2> QED
    BY <1>3, <1>4, <2>1, PlansAddUp
<1> DEFINE n == [booking |-> b, plan |-> p]
<1>7. n \in ScheduleRow /\ n.booking = b /\ n.plan = p
  BY <1>6 DEF ScheduleRow
<1>8. draft' = [draft EXCEPT ![u] = n]
  BY <1>5
<1> HIDE DEF n
<1>9. /\ draft' \in [Users -> ScheduleRow \cup {NoRow}] /\ draft'[u] = n
      /\ \A w \in Users \ {u} : draft'[w] = draft[w]
  BY <1>7, <1>8 DEF QuotesTyped
<1>10. UNCHANGED <<bookings, invoices>>
  BY <1>1 DEF vars, billing
<1>11. DraftsFit'
  <2>1. ASSUME NEW w \in Users \ {u}, draft'[w] # NoRow
        PROVE  /\ draft'[w].booking \in Bookings
               /\ bookings'[draft'[w].booking] # NoRow
               /\ bookings'[draft'[w].booking].invoice # Null
               /\ Total(draft'[w].plan) = invoices'[bookings'[draft'[w].booking].invoice].total
    BY <1>9, <1>10, <2>1 DEF QuotesInv, DraftsFit
  <2>2. /\ draft'[u].booking \in Bookings
        /\ bookings'[draft'[u].booking] # NoRow
        /\ bookings'[draft'[u].booking].invoice # Null
        /\ Total(draft'[u].plan) = invoices'[bookings'[draft'[u].booking].invoice].total
    BY <1>2, <1>3, <1>6, <1>7, <1>9, <1>10
  <2> QED
    BY <2>1, <2>2 DEF DraftsFit
<1>12. AllAgree' /\ OneInvoiceEach'
  BY <1>10 DEF QuotesInv, AllAgree, OneInvoiceEach
<1>13. TypeOK'
  BY <1>1, SameLedger DEF QuotesTyped, QTypeOK
<1> QED
  BY <1>1, <1>9, <1>11, <1>12, <1>13 DEF QuotesTyped, QTypeOK, QuotesInv

LEMMA ScheduleStep ==
  ASSUME QuotesTyped, QuotesInv, NEW u \in Users, SetSchedule(u)
  PROVE  QuotesTyped' /\ QuotesInv'
<1> DEFINE b == draft[u].booking
           row == bookings[b]
           plan == draft[u].plan
           n == WithPlan(row, plan)
<1>1. /\ draft[u] # NoRow /\ draft' = [draft EXCEPT ![u] = NoRow]
      /\ UNCHANGED <<vars, policy>>
  BY DEF SetSchedule
<1>2. bookings' = IF row.status = "INVOICED" /\ row.milestones = <<>>
                       /\ (row.quote.rate # Null => plan = row.quote.plan)
                  THEN [bookings EXCEPT ![b] = n] ELSE bookings
  BY DEF SetSchedule, Schedulable, Structured, Quote, Row, WithPlan
<1>3. /\ b \in Bookings /\ row # NoRow /\ row.invoice # Null
      /\ Total(plan) = invoices[row.invoice].total
  BY <1>1 DEF QuotesInv, DraftsFit
<1>4. row \in BookingRow /\ plan \in Seq(Nat) /\ Agrees(row, invoices)
  BY <1>1, <1>3, BookingRows DEF ScheduleRow, QuotesInv, AllAgree
<1>5. draft' \in [Users -> ScheduleRow \cup {NoRow}] /\ DraftsEnd
  BY <1>1 DEF QuotesTyped, DraftsEnd
<1>6. TypeOK' /\ BillsKept /\ UNCHANGED invoices
  BY <1>1, SameLedger DEF QuotesTyped, QTypeOK, vars, billing
<1>7. CASE UNCHANGED bookings
  <2>1. QuotesInv'
    BY <1>5, <1>6, <1>7, QuotesKept
  <2> QED
    BY <1>1, <1>5, <1>6, <1>7, <2>1 DEF QuotesTyped, QTypeOK
<1>8. CASE /\ bookings' = [bookings EXCEPT ![b] = n]
           /\ row.status = "INVOICED" /\ (row.quote.rate # Null => plan = row.quote.plan)
  <2> HIDE DEF b, plan
  <2>1. /\ n \in BookingRow /\ n.status = row.status /\ n.company = row.company
        /\ n.quote = row.quote /\ n.milestones = plan /\ n.invoice = row.invoice
    BY <1>4, RowWithPlan
  <2> HIDE DEF n
  <2>2. Agrees(n, invoices')
    BY <1>3, <1>4, <1>6, <1>8, <2>1 DEF Agrees
  <2>3. row.invoice # Null =>
          \A o \in Bookings \ {b} : bookings[o] # NoRow => bookings[o].invoice # row.invoice
    BY <1>3 DEF QuotesInv, OneInvoiceEach
  <2>4. Replaces(b, n)
    BY <1>8, <2>1, <2>2, <2>3 DEF Replaces
  <2>5. QuotesInv' /\ bookings' \in [Bookings -> BookingRow \cup {NoRow}]
    BY <1>3, <1>5, <1>6, <2>4, OneBookingMoves
  <2> QED
    BY <1>1, <1>5, <1>6, <2>5 DEF QuotesTyped, QTypeOK
<1> QED
  BY <1>2, <1>7, <1>8

LEMMA QuotesStep ==
  ASSUME QuotesTyped, QuotesInv, [QNext]_qVars
  PROVE  QuotesTyped' /\ QuotesInv'
<1>1. ASSUME UNCHANGED <<vars, bookings, draft>>, policy' \in [Companies -> Percents]
      PROVE  QuotesTyped' /\ QuotesInv'
  <2>1. TypeOK' /\ BillsKept
    BY <1>1, SameLedger DEF QuotesTyped, QTypeOK
  <2>2. QuotesInv'
    BY <1>1, <2>1, QuotesKept DEF DraftsEnd
  <2> QED
    BY <1>1, <2>1, <2>2 DEF QuotesTyped, QTypeOK
<1>2. policy \in [Companies -> Percents]
  BY DEF QuotesTyped, QTypeOK
<1>3. ASSUME NEW b \in Bookings, BookingStep(b) PROVE QuotesTyped' /\ QuotesInv'
  <2>1. ASSUME NEW c \in Companies, CreateBooking(b, c) PROVE QuotesTyped' /\ QuotesInv'
    BY <2>1, CreateBookingStep
  <2>2. CASE RotateAccessToken(b)
    BY <2>2, RotateStep
  <2>3. ASSUME NEW a \in Prices \ {0}, AddQuote(b, a) PROVE QuotesTyped' /\ QuotesInv'
    BY <2>3, AddQuoteStep
  <2>4. ASSUME NEW i \in Invoices, AttachInvoice(b, i) PROVE QuotesTyped' /\ QuotesInv'
    BY <2>4, AttachStep
  <2>5. CASE CancelBooking(b)
    BY <2>5, CancelBookingStep
  <2>6. ASSUME NEW u \in Users, BillingReview(u, b) PROVE QuotesTyped' /\ QuotesInv'
    BY <1>1, <1>2, <2>6 DEF BillingReview
  <2>7. ASSUME NEW u \in Users, PlanSchedule(u, b) PROVE QuotesTyped' /\ QuotesInv'
    BY <2>7, PlanStep
  <2>8. ASSUME NEW u \in Users, NEW i \in Invoices, NEW d \in Dates, EnablePayment(u, b, i, d)
        PROVE  QuotesTyped' /\ QuotesInv'
    BY <2>8, EnableStep
  <2>9. ASSUME NEW g \in Guests, Read(g, b) PROVE QuotesTyped' /\ QuotesInv'
    BY <1>1, <1>2, <2>9 DEF Read
  <2>10. ASSUME NEW g \in Guests, NEW asked \in BOOLEAN, AcceptQuote(g, b, asked)
         PROVE  QuotesTyped' /\ QuotesInv'
    BY <2>10, AcceptQuoteStep
  <2> QED
    BY <1>3, <2>1, <2>2, <2>3, <2>4, <2>5, <2>6, <2>7, <2>8, <2>9, <2>10 DEF BookingStep
<1>4. ASSUME NEW u \in Users, SetSchedule(u) PROVE QuotesTyped' /\ QuotesInv'
  BY <1>4, ScheduleStep
<1>5. ASSUME NEW c \in Companies, NEW percent \in Percents, SetPolicy(c, percent)
      PROVE  QuotesTyped' /\ QuotesInv'
  BY <1>1, <1>2, <1>5 DEF SetPolicy
<1>6. CASE DayPasses
  BY <1>1, <1>2, <1>6 DEF DayPasses
<1>7. CASE BillByHand
  <2>1. UNCHANGED <<bookings, policy, draft>>
    BY <1>7 DEF BillByHand
  <2>2. TypeOK
    BY DEF QuotesTyped, QTypeOK
  <2>3. TypeOK' /\ BillsKept
    <3>1. ASSUME NEW u \in Users, NEW i \in Invoices, InvoiceStep(u, i) PROVE TypeOK' /\ BillsKept
      BY <2>2, <3>1, InvoiceStepTyped, HandKeepsBills
    <3>2. ASSUME NEW new \in Rates, ChangeTaxRule(new) PROVE TypeOK' /\ BillsKept
      BY <2>2, <3>2 DEF ChangeTaxRule, BillsKept, TypeOK
    <3> QED
      BY <1>7, <3>1, <3>2 DEF BillByHand
  <2>4. QuotesInv'
    BY <2>1, <2>3, QuotesKept DEF DraftsEnd
  <2> QED
    BY <2>1, <2>3, <2>4 DEF QuotesTyped, QTypeOK
<1>8. CASE UNCHANGED qVars
  BY <1>1, <1>2, <1>8 DEF qVars
<1> QED
  BY <1>3, <1>4, <1>5, <1>6, <1>7, <1>8 DEF QNext

LEMMA QuotesInit == QInit => QuotesTyped /\ QuotesInv
<1> SUFFICES ASSUME QInit PROVE QuotesTyped /\ QuotesInv
  OBVIOUS
<1>1. TypeOK
  BY InitTyped DEF QInit
<1>2. QuotesTyped
  BY <1>1 DEF QInit, QuotesTyped, QTypeOK
<1>3. QuotesInv
  BY DEF QInit, QuotesInv, AllAgree, OneInvoiceEach, DraftsFit
<1> QED
  BY <1>2, <1>3

-----------------------------------------------------------------------------
(* The theorems *)

\* Whatever is quoted, revised, accepted, taxed and billed by hand meanwhile, the row of a booking
\* agrees with its invoice (CommercialService, on top of BillingRepository).
THEOREM QuotesInvariant == QSpec => [](QuotesTyped /\ QuotesInv)
<1>1. QuotesTyped /\ QuotesInv /\ [QNext]_qVars => (QuotesTyped /\ QuotesInv)'
  BY QuotesStep
<1> QED
  BY <1>1, QuotesInit, PTL DEF QSpec

\* The rows keep the columns of commercial.schema.ts.
THEOREM QuotesAreTyped == QSpec => []QTypeOK
<1>1. QuotesTyped /\ QuotesInv => QTypeOK
  BY DEF QuotesTyped
<1> QED
  BY <1>1, QuotesInvariant, PTL

\* What a booking is billed is what its customer accepted, and its schedule adds up to it and is
\* the accepted plan when there is one (attachInvoice(), enablePayment(), setSchedule()).
THEOREM QuotesInvoicedAsAccepted == QSpec => []InvoicedAsAccepted
<1>1. ASSUME QuotesTyped, QuotesInv PROVE InvoicedAsAccepted
  <2>1. ASSUME NEW b \in Bookings, bookings[b] # NoRow, bookings[b].invoice # Null
        PROVE  LET i == bookings[b].invoice IN
               /\ Accepted(b)
               /\ invoices[i].status \in {"ISSUED", "CANCELLED"}
               /\ invoices[i].company = bookings[b].company /\ invoices[i].total = Quote(b).total
               /\ Structured(Quote(b)) =>
                    <<invoices[i].amount, invoices[i].rate>> = <<Quote(b).amount, Quote(b).rate>>
               /\ \A o \in Bookings \ {b} : bookings[o] # NoRow => bookings[o].invoice # i
    <3>1. Agrees(bookings[b], invoices)
      BY <1>1, <2>1 DEF QuotesInv, AllAgree
    <3>2. \A o \in Bookings \ {b} : bookings[o] # NoRow => bookings[o].invoice # bookings[b].invoice
      BY <1>1, <2>1 DEF QuotesInv, OneInvoiceEach
    <3> QED
      BY <2>1, <3>1, <3>2 DEF Agrees, Billed, Accepted, Quote, Structured
  <2>2. ASSUME NEW b \in Bookings, bookings[b] # NoRow, bookings[b].milestones # <<>>
        PROVE  /\ bookings[b].invoice # Null
               /\ Total(bookings[b].milestones) = invoices[bookings[b].invoice].total
               /\ Structured(Quote(b)) => bookings[b].milestones = Quote(b).plan
    <3>1. Agrees(bookings[b], invoices)
      BY <1>1, <2>2 DEF QuotesInv, AllAgree
    <3> QED
      BY <2>2, <3>1 DEF Agrees, Quote, Structured
  <2> QED
    BY <2>1, <2>2 DEF InvoicedAsAccepted
<1>2. QuotesTyped /\ QuotesInv => InvoicedAsAccepted
  BY <1>1
<1> QED
  BY <1>2, QuotesInvariant, PTL

-----------------------------------------------------------------------------
(* Reports of one ledger agree *)

HIDE QuotesAssumption

\* Settlements of the rows of the ledger, as columns.
LEMMA ReportTypes ==
  ASSUME TypeOK, NEW period
  PROVE  /\ IsFiniteSet(Issued(period)) /\ Issued(period) \subseteq Invoices
         /\ \A i \in Issued(period) : /\ invoices[i].status = "ISSUED" /\ invoices[i].total \in Nat
                                      /\ invoices[i].date \in Dates
         /\ \A i \in Invoices : Received(i) \in Nat /\ Adjusted(i) \in Nat
<1>1. Issued(period) \in SUBSET Invoices
  BY DEF Issued
<1>2. IsFiniteSet(Issued(period))
  BY <1>1, FS_Subset, ReportsAssumption
<1>3. \A i \in Issued(period) :
        invoices[i].status = "ISSUED" /\ invoices[i] \in InvoiceRow
  BY DEF Issued, TypeOK, NoRow
<1>4. \A i \in Invoices : Received(i) \in Nat /\ Adjusted(i) \in Nat
  BY SettlementsAreFinite, SumIsNatural DEF Received, Adjusted
<1> QED
  BY <1>1, <1>2, <1>3, <1>4 DEF InvoiceRow

LEMMA IssuedOwe ==
  ASSUME TypeOK, NoOverpayment, NEW period
  PROVE  \A i \in Issued(period) : Due(i) \in Nat
<1> SUFFICES ASSUME NEW i \in Issued(period) PROVE Due(i) \in Nat
  OBVIOUS
<1>1. Due(i) >= 0
  BY ReportTypes DEF NoOverpayment
<1>2. invoices[i].total \in Nat /\ Received(i) \in Nat /\ Adjusted(i) \in Nat
  BY ReportTypes
<1> QED
  BY <1>1, <1>2 DEF Due

\* A table of dues by group sums to all dues.
LEMMA DuesByGroup ==
  ASSUME TypeOK, NoOverpayment, NEW period,
         NEW G, IsFiniteSet(G), NEW group \in [Issued(period) -> G], NEW sums, DOMAIN sums = G,
         \A k \in G : sums[k] = Dues({i \in Issued(period) : group[i] = k})
  PROVE  SumOf(sums) = Receivables(period)
<1> DEFINE f == [i \in Issued(period) |-> Due(i)]
<1>1. f \in [Issued(period) -> Nat]
  BY IssuedOwe
<1>2. \A k \in G : sums[k] = SumOf([x \in {y \in Issued(period) : group[y] = k} |-> f[x]])
  <2> TAKE k \in G
  <2>1. [x \in {y \in Issued(period) : group[y] = k} |-> f[x]]
          = [i \in {y \in Issued(period) : group[y] = k} |-> Due(i)]
    OBVIOUS
  <2> HIDE DEF f
  <2> QED
    BY <2>1 DEF Dues
<1> HIDE DEF f
<1>3. SumOf(sums) = SumOf(f)
  BY <1>1, <1>2, ReportTypes, SumOfGroups
<1> QED
  BY <1>3 DEF f, Receivables, Dues

LEMMA AgeingSums ==
  ASSUME TypeOK, NoOverpayment, NEW period, NEW day \in Dates
  PROVE  SumOf(Ageing(period, day)) = Receivables(period)
<1> DEFINE group == [i \in Issued(period) |-> Bucket(i, day)]
           ageing == Ageing(period, day)
<1>1. group \in [Issued(period) -> Buckets]
  BY DEF Bucket, Buckets
<1>2. DOMAIN ageing = Buckets
      /\ \A k \in Buckets : ageing[k] = Dues({i \in Issued(period) : group[i] = k})
  <2>1. \A k \in Buckets :
          {i \in Issued(period) : group[i] = k} = {i \in Issued(period) : Bucket(i, day) = k}
    OBVIOUS
  <2> HIDE DEF group
  <2> QED
    BY <2>1 DEF Ageing
<1>3. IsFiniteSet(Buckets)
  <2>1. IsFiniteSet({"NO_DUE_DATE"})
    BY FS_Singleton
  <2>2. IsFiniteSet({"NO_DUE_DATE"} \cup {"NOT_DUE"} \cup {"1_30"} \cup {"31_60"}
                      \cup {"61_90"} \cup {"90_PLUS"})
    BY <2>1, FS_AddElement
  <2>3. Buckets = {"NO_DUE_DATE"} \cup {"NOT_DUE"} \cup {"1_30"} \cup {"31_60"}
                    \cup {"61_90"} \cup {"90_PLUS"}
    BY DEF Buckets
  <2> QED
    BY <2>2, <2>3
<1> HIDE DEF group, ageing
<1>4. SumOf(ageing) = Receivables(period)
  BY <1>1, <1>2, <1>3, DuesByGroup
<1> QED
  BY <1>4 DEF ageing

\* All who owe, listed or not.
LEMMA OwedSums ==
  ASSUME TypeOK, NoOverpayment, NEW period
  PROVE  /\ SumOf(OwedBy(period)) = Receivables(period)
         /\ IsFiniteSet(DOMAIN OwedBy(period))
         /\ \A c \in DOMAIN OwedBy(period) : OwedBy(period)[c] \in Nat \ {0}
<1> DEFINE group == [i \in Issued(period) |-> BilledTo[i]]
           owed == [c \in Debtors |-> Dues({i \in Issued(period) : BilledTo[i] = c})]
<1>1. group \in [Issued(period) -> Debtors]
  BY ReportsAssumption DEF Issued
<1>2. DOMAIN owed = Debtors
      /\ \A k \in Debtors : owed[k] = Dues({i \in Issued(period) : group[i] = k})
  <2>1. \A k \in Debtors :
          {i \in Issued(period) : group[i] = k} = {i \in Issued(period) : BilledTo[i] = k}
    OBVIOUS
  <2> HIDE DEF group
  <2> QED
    BY <2>1
<1>3. owed \in [Debtors -> Nat]
  <2> SUFFICES ASSUME NEW c \in Debtors,
                      NEW column, column = [i \in {j \in Issued(period) : BilledTo[j] = c} |-> Due(i)]
               PROVE  SumOf(column) \in Nat
    BY DEF Dues
  <2>1. /\ DOMAIN column \in SUBSET Issued(period)
        /\ \A i \in DOMAIN column : column[i] \in Nat
    BY IssuedOwe
  <2>2. IsFiniteSet(DOMAIN column)
    BY <2>1, ReportTypes, FS_Subset
  <2> QED
    BY <2>1, <2>2, SumOfNaturals
<1>4. OwedBy(period) = [c \in {d \in Debtors : owed[d] > 0} |-> owed[c]]
  BY DEF OwedBy
<1> HIDE DEF group, owed
<1>5. SumOf(owed) = Receivables(period)
  BY <1>1, <1>2, ReportsAssumption, DuesByGroup
<1>6. IsFiniteSet({d \in Debtors : owed[d] > 0})
  <2>1. {d \in Debtors : owed[d] > 0} \in SUBSET Debtors
    OBVIOUS
  <2> QED
    BY <2>1, ReportsAssumption, FS_Subset
<1>7. /\ DOMAIN OwedBy(period) = {d \in Debtors : owed[d] > 0}
      /\ \A c \in DOMAIN OwedBy(period) : OwedBy(period)[c] \in Nat \ {0}
  BY <1>3, <1>4
<1>8. SumOf(OwedBy(period)) = Receivables(period)
  BY <1>3, <1>4, <1>5, SumOfPositive
<1> QED
  BY <1>6, <1>7, <1>8

\* A list of those who owe most leaves somebody out only when it is full.
LEMMA TopOutstandingSums ==
  ASSUME TypeOK, NoOverpayment, NEW period, NEW list \in TopOutstanding(period)
  PROVE  IF Cardinality(DOMAIN OwedBy(period)) <= TopLimit
         THEN SumOf(list) = Receivables(period) ELSE SumOf(list) < Receivables(period)
<1>1. PICK owed : owed = OwedBy(period)
  OBVIOUS
<1>2. PICK top \in SUBSET DOMAIN owed :
        /\ list = [c \in top |-> owed[c]]
        /\ top = DOMAIN owed \/ Cardinality(top) = TopLimit
        /\ Cardinality(top) <= TopLimit
  BY <1>1 DEF TopOutstanding
<1>3. /\ SumOf(owed) = Receivables(period) /\ IsFiniteSet(DOMAIN owed)
      /\ \A c \in DOMAIN owed : owed[c] \in Nat \ {0}
  BY <1>1, OwedSums
<1>4. /\ IsFiniteSet(top) /\ Cardinality(top) <= Cardinality(DOMAIN owed)
      /\ Cardinality(top) = Cardinality(DOMAIN owed) => top = DOMAIN owed
  BY <1>3, FS_Subset
<1>5. /\ Cardinality(top) \in Nat /\ Cardinality(DOMAIN owed) \in Nat /\ TopLimit \in Nat
  BY <1>3, <1>4, FS_CardinalityType, ReportsAssumption
<1>6. /\ IsFiniteSet(Units(owed)) /\ Units(list) \in SUBSET Units(owed)
  <2>1. IsFiniteSet(Units(owed))
    BY <1>3, UnitsAreFinite
  <2>2. DOMAIN list = top /\ \A c \in top : list[c] = owed[c]
    BY <1>2
  <2> QED
    BY <2>1, <2>2 DEF Units
<1>7. CASE Cardinality(DOMAIN owed) <= TopLimit
  <2>1. top = DOMAIN owed
    BY <1>2, <1>4, <1>5, <1>7
  <2>2. Units(list) = Units(owed)
    BY <1>2, <2>1 DEF Units
  <2> QED
    BY <1>1, <1>3, <1>7, <2>2 DEF SumOf
<1>8. CASE ~ (Cardinality(DOMAIN owed) <= TopLimit)
  <2>1. top # DOMAIN owed
    BY <1>2, <1>5, <1>8
  <2>2. PICK c \in DOMAIN owed : c \notin top
    BY <2>1
  <2>3. <<c, 1>> \in Units(owed)
    BY <1>3, <2>2 DEF Units
  <2>4. <<c, 1>> \notin Units(list)
    BY <1>2, <2>2 DEF Units
  <2>5. /\ Cardinality(Units(list)) <= Cardinality(Units(owed))
        /\ Cardinality(Units(list)) # Cardinality(Units(owed))
    BY <1>6, <2>3, <2>4, FS_Subset
  <2>6. Cardinality(Units(list)) \in Nat /\ Cardinality(Units(owed)) \in Nat
    BY <1>6, FS_Subset, FS_CardinalityType
  <2>7. SumOf(list) < SumOf(owed)
    BY <2>5, <2>6 DEF SumOf
  <2> QED
    BY <1>1, <1>3, <1>8, <2>7
<1> QED
  BY <1>1, <1>7, <1>8

LEMMA TrendInvoicedSums ==
  ASSUME TypeOK, NEW period
  PROVE  SumOf([d \in Dates |-> Trend(period)[d].invoiced]) = InvoiceSummary(period).grand
<1> DEFINE f == [i \in Issued(period) |-> invoices[i].total]
           group == [i \in Issued(period) |-> invoices[i].date]
           sums == [d \in Dates |-> Trend(period)[d].invoiced]
<1>1. f \in [Issued(period) -> Nat] /\ group \in [Issued(period) -> Dates]
  BY ReportTypes
<1>2. DOMAIN sums = Dates
      /\ \A k \in Dates : sums[k] = SumOf([x \in {y \in Issued(period) : group[y] = k} |-> f[x]])
  <2>1. DOMAIN sums = Dates
        /\ \A k \in Dates : sums[k] = Totals({i \in Issued(period) : invoices[i].date = k})
    BY DEF Trend
  <2> HIDE DEF sums
  <2>2. \A k \in Dates : [x \in {y \in Issued(period) : group[y] = k} |-> f[x]]
          = [i \in {y \in Issued(period) : invoices[y].date = k} |-> invoices[i].total]
    OBVIOUS
  <2> HIDE DEF f, group
  <2> QED
    BY <2>1, <2>2 DEF Totals
<1> HIDE DEF f, group, sums
<1>3. SumOf(sums) = SumOf(f)
  BY <1>1, <1>2, ReportTypes, ReportsAssumption, SumOfGroups
<1> QED
  BY <1>3 DEF f, sums, InvoiceSummary, Totals

LEMMA TrendReceivedSums ==
  ASSUME TypeOK, NEW period
  PROVE  SumOf([d \in Dates |-> Trend(period)[d].received]) = PaymentSummary(period).confirmed
<1> DEFINE cash == ReceivedIn(period, "CONFIRMED")
           rows == [d \in Dates |-> {r \in cash : receipts[r].date = d}]
           sums == [d \in Dates |-> Trend(period)[d].received]
<1>1. \A d \in Dates : rows[d] \in SUBSET Receipts
  BY DEF ReceivedIn
<1>2. \A d, e \in Dates : d # e => rows[d] \cap rows[e] = {}
  OBVIOUS
<1>3. UNION {rows[d] : d \in Dates} = cash
  <2>1. \A r \in cash : receipts[r].date \in Dates
    BY DEF ReceivedIn, TypeOK, NoRow, ReceiptRow
  <2> HIDE DEF cash
  <2> QED
    BY <2>1
<1>4. sums = [d \in Dates |-> Cardinality(Paise(rows[d], receipts))]
  BY DEF Trend, AmountOf
<1> HIDE DEF rows, sums, cash
<1>5. SumOf(sums) = Cardinality(Paise(UNION {rows[d] : d \in Dates}, receipts))
  <2>1. IsFiniteSet(Dates) /\ IsFiniteSet(Receipts)
    BY ReportsAssumption, LedgerAssumption
  <2>2. SumOf([d \in Dates |-> Cardinality(Paise(rows[d], receipts))])
          = Cardinality(Paise(UNION {rows[d] : d \in Dates}, receipts))
    BY <1>1, <1>2, <2>1, PaiseByRow
  <2> QED
    BY <1>4, <2>2
<1> QED
  BY <1>3, <1>5 DEF sums, cash, PaymentSummary, AmountOf

\* What some invoices have received, and what was written off for them, are their rows.
LEMMA SettledByInvoice ==
  ASSUME NEW D, D \subseteq Invoices
  PROVE  /\ SumOf([i \in D |-> Received(i)]) = AmountOf(UNION {Confirmed(i) : i \in D})
         /\ SumOf([i \in D |-> Adjusted(i)])
              = Cardinality(Paise(UNION {ActiveAdjustments(i) : i \in D}, adjustments))
<1> DEFINE money == [i \in D |-> Confirmed(i)]
           discount == [i \in D |-> ActiveAdjustments(i)]
<1>1. IsFiniteSet(D)
  BY ReportsAssumption, FS_Subset
<1>2. /\ \A i \in D : money[i] \in SUBSET Receipts
      /\ \A i, j \in D : i # j => money[i] \cap money[j] = {}
      /\ [i \in D |-> Received(i)] = [i \in D |-> Cardinality(Paise(money[i], receipts))]
      /\ UNION {money[i] : i \in D} = UNION {Confirmed(i) : i \in D}
  BY DEF Confirmed, Received
<1>3. /\ \A i \in D : discount[i] \in SUBSET Adjustments
      /\ \A i, j \in D : i # j => discount[i] \cap discount[j] = {}
      /\ [i \in D |-> Adjusted(i)] = [i \in D |-> Cardinality(Paise(discount[i], adjustments))]
      /\ UNION {discount[i] : i \in D} = UNION {ActiveAdjustments(i) : i \in D}
  BY DEF ActiveAdjustments, Adjusted
<1> HIDE DEF money, discount
<1>4. SumOf([i \in D |-> Cardinality(Paise(money[i], receipts))])
        = Cardinality(Paise(UNION {money[i] : i \in D}, receipts))
  BY <1>1, <1>2, LedgerAssumption, PaiseByRow
<1>5. SumOf([i \in D |-> Cardinality(Paise(discount[i], adjustments))])
        = Cardinality(Paise(UNION {discount[i] : i \in D}, adjustments))
  BY <1>1, <1>3, LedgerAssumption, PaiseByRow
<1> QED
  BY <1>2, <1>3, <1>4, <1>5 DEF AmountOf

LEMMA CashOfAllTime ==
  ASSUME TypeOK, SettlementsHaveIssuedInvoice, NEW period \in AllTime
  PROVE  PaymentSummary(period).confirmed = InvoiceSummary(period).received
<1>1. \A d \in Dates : Within(d, period)
  BY DEF AllTime
<1>2. \A r \in Receipts : receipts[r].status = "CONFIRMED" =>
        /\ receipts[r].date \in Dates /\ receipts[r].invoice \in Invoices
        /\ invoices[receipts[r].invoice].status = "ISSUED"
        /\ invoices[receipts[r].invoice].date \in Dates
  <2> TAKE r \in Receipts
  <2> HAVE receipts[r].status = "CONFIRMED"
  <2>1. receipts[r] \in ReceiptRow
    BY DEF TypeOK, NoRow
  <2>2. receipts[r].date \in Dates /\ receipts[r].invoice \in Invoices
    BY <2>1 DEF ReceiptRow
  <2>3. invoices[receipts[r].invoice].status = "ISSUED"
    BY DEF SettlementsHaveIssuedInvoice
  <2>4. invoices[receipts[r].invoice] \in InvoiceRow
    BY <2>2, <2>3 DEF TypeOK, NoRow
  <2> QED
    BY <2>2, <2>3, <2>4 DEF InvoiceRow
<1>3. ReceivedIn(period, "CONFIRMED") = UNION {Confirmed(i) : i \in Issued(period)}
  BY <1>1, <1>2 DEF ReceivedIn, Confirmed, Issued
<1>4. SumOf([i \in Issued(period) |-> Received(i)])
        = AmountOf(UNION {Confirmed(i) : i \in Issued(period)})
  BY ReportTypes, SettledByInvoice
<1> QED
  BY <1>3, <1>4 DEF PaymentSummary, InvoiceSummary

LEMMA StatementSums ==
  ASSUME TypeOK, NoOverpayment, NEW period, NEW D, D \subseteq Issued(period)
  PROVE  Totals(D) - AmountOf(UNION {Confirmed(i) : i \in D})
           - Cardinality(Paise(UNION {ActiveAdjustments(i) : i \in D}, adjustments))
           = Dues(D)
<1> DEFINE total == [i \in D |-> invoices[i].total]
           received == [i \in D |-> Received(i)]
           adjusted == [i \in D |-> Adjusted(i)]
           due == [i \in D |-> Due(i)]
           open == [i \in D |-> invoices[i].total - Received(i)]
<1>1. /\ D \subseteq Invoices /\ IsFiniteSet(D)
      /\ \A i \in D : /\ invoices[i].total \in Nat /\ Received(i) \in Nat
                      /\ Adjusted(i) \in Nat /\ Due(i) \in Nat
  BY ReportTypes, IssuedOwe, FS_Subset
<1>2. \A i \in D : open[i] = adjusted[i] + due[i] /\ total[i] = received[i] + open[i]
  BY <1>1 DEF Due
<1>3. /\ total \in [D -> Nat] /\ received \in [D -> Nat]
      /\ adjusted \in [D -> Nat] /\ due \in [D -> Nat]
  BY <1>1
<1>4. open \in [D -> Nat]
  <2>1. \A i \in D : open[i] \in Nat
    <3> HIDE DEF open
    <3> QED
      BY <1>2, <1>3
  <2> QED
    BY <2>1
<1> HIDE DEF total, received, adjusted, due, open
<1>5. SumOf(open) = SumOf(adjusted) + SumOf(due)
  <2>1. IsFiniteSet(D) /\ \A i \in D : open[i] = adjusted[i] + due[i]
    BY <1>1, <1>2
  <2> QED
    BY <1>3, <1>4, <2>1, SumsAdd
<1>6. SumOf(total) = SumOf(received) + SumOf(open)
  <2>1. IsFiniteSet(D) /\ \A i \in D : total[i] = received[i] + open[i]
    BY <1>1, <1>2
  <2> QED
    BY <1>3, <1>4, <2>1, SumsAdd
<1>7. /\ SumOf(adjusted) \in Nat /\ SumOf(due) \in Nat /\ SumOf(received) \in Nat
  <2>1. DOMAIN adjusted = D /\ DOMAIN due = D /\ DOMAIN received = D
    BY <1>3
  <2> QED
    BY <1>1, <1>3, <2>1, SumOfNaturals
<1>8. SumOf(total) - SumOf(received) - SumOf(adjusted) = SumOf(due)
  BY <1>5, <1>6, <1>7
<1>9. /\ SumOf(received) = AmountOf(UNION {Confirmed(i) : i \in D})
      /\ SumOf(adjusted)
           = Cardinality(Paise(UNION {ActiveAdjustments(i) : i \in D}, adjustments))
  BY <1>1, SettledByInvoice DEF received, adjusted
<1> QED
  BY <1>8, <1>9 DEF Totals, Dues, total, due

LEMMA HidingSettled ==
  ASSUME TypeOK, NoOverpayment, NEW c \in Debtors, NEW period, NEW settledToo \in BOOLEAN
  PROVE  ClosingBalance(c, period, settledToo) = ClosingBalance(c, period, TRUE)
<1> DEFINE D == Selected(c, period, TRUE)
           due == [i \in D |-> Due(i)]
<1>1. D \subseteq Issued(period)
  BY DEF Selected
<1>2. due \in [D -> Nat]
  BY <1>1, IssuedOwe
<1>3. Selected(c, period, FALSE) = {i \in D : due[i] > 0}
  BY DEF Selected
<1>4. [i \in {j \in D : due[j] > 0} |-> Due(i)] = [i \in {j \in D : due[j] > 0} |-> due[i]]
  OBVIOUS
<1> HIDE DEF D, due
<1>5. SumOf([i \in {j \in D : due[j] > 0} |-> due[i]]) = SumOf(due)
  BY <1>2, SumOfPositive
<1>6. ClosingBalance(c, period, FALSE) = ClosingBalance(c, period, TRUE)
  BY <1>3, <1>4, <1>5 DEF ClosingBalance, Dues, D, due
<1> QED
  BY <1>6

\* The queries of a dashboard agree on every ledger the handlers of billing can reach: no
\* receipt, however its invoice is cancelled, adjusted or dated, is in one report and not
\* in another.
THEOREM ReportsQueriesAgree == Spec => []QueriesAgree
<1>1. TypeOK /\ NoOverpayment /\ SettlementsHaveIssuedInvoice => QueriesAgree
  <2> SUFFICES ASSUME TypeOK, NoOverpayment, SettlementsHaveIssuedInvoice
               PROVE  QueriesAgree
    OBVIOUS
  <2>1. \A period \in Periods :
          /\ SumOf([d \in Dates |-> Trend(period)[d].invoiced]) = InvoiceSummary(period).grand
          /\ SumOf([d \in Dates |-> Trend(period)[d].received])
               = PaymentSummary(period).confirmed
          /\ \A top \in TopOutstanding(period) :
               IF Cardinality(DOMAIN OwedBy(period)) <= TopLimit
               THEN SumOf(top) = Receivables(period) ELSE SumOf(top) < Receivables(period)
          /\ \A day \in Dates : SumOf(Ageing(period, day)) = Receivables(period)
    BY TrendInvoicedSums, TrendReceivedSums, TopOutstandingSums, AgeingSums
  <2>2. \A period \in AllTime :
          PaymentSummary(period).confirmed = InvoiceSummary(period).received
    BY CashOfAllTime
  <2> QED
    BY <2>1, <2>2 DEF QueriesAgree
<1> QED
  BY <1>1, LedgerTyped, LedgerNoOverpayment, LedgerSettlementsHaveIssuedInvoice, PTL

\* The entries of a customer's statement always come to its closing balance.
THEOREM ReportsStatementBalances == Spec => []StatementBalances
<1>1. TypeOK /\ NoOverpayment => StatementBalances
  <2> SUFFICES ASSUME TypeOK, NoOverpayment, NEW c \in Debtors, NEW period \in Periods,
                      NEW settledToo \in BOOLEAN,
                      NEW entries, entries = Entries(c, period, settledToo)
               PROVE  /\ Totals(entries.INVOICE) - AmountOf(entries.RECEIPT)
                           - Cardinality(Paise(entries.SETTLEMENT_DISCOUNT, adjustments))
                           = ClosingBalance(c, period, settledToo)
                      /\ ClosingBalance(c, period, settledToo)
                           = ClosingBalance(c, period, TRUE)
    BY DEF StatementBalances
  <2> DEFINE D == Selected(c, period, settledToo)
  <2>1. D \subseteq Issued(period)
    BY DEF Selected
  <2>2. /\ entries.INVOICE = D
        /\ entries.RECEIPT = UNION {Confirmed(i) : i \in D}
        /\ entries.SETTLEMENT_DISCOUNT = UNION {ActiveAdjustments(i) : i \in D}
    BY DEF Entries
  <2>3. ClosingBalance(c, period, settledToo) = Dues(D)
    BY DEF ClosingBalance
  <2> HIDE DEF D
  <2>4. Totals(D) - AmountOf(UNION {Confirmed(i) : i \in D})
          - Cardinality(Paise(UNION {ActiveAdjustments(i) : i \in D}, adjustments)) = Dues(D)
    BY <2>1, StatementSums
  <2>5. ClosingBalance(c, period, settledToo) = ClosingBalance(c, period, TRUE)
    BY HidingSettled
  <2> QED
    BY <2>2, <2>3, <2>4, <2>5
<1> QED
  BY <1>1, LedgerTyped, LedgerNoOverpayment, PTL
=============================================================================
