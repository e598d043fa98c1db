------------------------------- MODULE Quotes -------------------------------
(***************************************************************************)
(* Commercial bookings until they can be paid: quotes, their acceptance by   *)
(* the customer, the invoice that is linked or issued from the accepted       *)
(* quote, and the payment schedule                                            *)
(* (src/src/modules/core/application/commercial.service.ts), on top of the     *)
(* Ledger the invoices live in.  Gateway takes over from the schedule on.       *)
(*                                                                         *)
(* A quote has one line, with its tax rate when it is structured; a legacy     *)
(* quote has a total only.  Whoever decides (a customer who accepts, staff who  *)
(* enable payment or set the schedule) has read the booking in a request before, *)
(* or outside of the transaction that decides.                                  *)
(***************************************************************************)
EXTENDS Ledger, SequencesExt

CONSTANTS
  Bookings, Guests,
  Plans,        \* payment plans staff may propose, sequences of amounts
  Percents,     \* initial percentages a company's payment policy may have
  MaxLink,      \* bound of the model on the rotations of one link
  MaxQuotes     \* bound of the model on the quotes of one booking

ASSUME QuotesAssumption ==
  /\ Plans \subseteq Seq(1 .. MaxMinor) /\ Percents \subseteq 1 .. 99
  /\ MaxLink \in Nat \ {0} /\ MaxQuotes \in Nat
  /\ Null \notin Invoices

VARIABLES
  bookings,     \* core.commercial_bookings with the latest quote and the milestones of each
  policy,       \* core.payment_policies: the initial percentage of each company
  late,         \* the day a quote expires on has passed
  view,         \* what each guest last saw through a booking's link
  review,       \* the billing review each staff member last asked for
  draft         \* the schedule each staff member's request is about to store

qVars == <<vars, bookings, policy, late, view, review, draft>>

QuoteRow ==
  [version : 1 .. MaxQuotes, amount : Nat, rate : Rates \cup {Null}, total : Nat,
   plan : Seq(Nat), expires : BOOLEAN, accepted : Guests \cup {Null}]
BookingRow ==
  [status : {"DRAFT", "QUOTED", "INVOICED", "CANCELLED"}, company : Companies,
   quote : QuoteRow \cup {NoRow}, milestones : Seq(Nat),
   invoice : Invoices \cup {Null}, activated : BOOLEAN, link : 1 .. MaxLink]

Row(b) == bookings[b]
Quote(b) == bookings[b].quote
Version(b) == IF Quote(b) = NoRow THEN 0 ELSE Quote(b).version
Accepted(b) == Quote(b) # NoRow /\ Quote(b).accepted # Null
Structured(quote) == quote.rate # Null
Total(plan) == FoldSeq(LAMBDA a, sum : a + sum, 0, plan)

-----------------------------------------------------------------------------
(* Plans *)

\* The initial payment, rounded half up; all at once when it would be nothing or everything,
\* or when the travel date is near.
Advance(total, percent) == (total * percent + 50) \div 100
DefaultPlan(total, percent, near) ==
  LET advance == Advance(total, percent) IN
  IF near \/ advance <= 0 \/ advance >= total THEN <<total>> ELSE <<advance, total - advance>>

\* validateProposedMilestones(), and the checks of setSchedule().
Fits(plan, total) ==
  /\ Len(plan) \in 1 .. 12
  /\ \A k \in DOMAIN plan : plan[k] > 0
  /\ Total(plan) = total

Proposals(total, c) ==
  {p \in Plans : Fits(p, total)}
    \cup {p \in {DefaultPlan(total, policy[c], near) : near \in BOOLEAN} : Fits(p, total)}

-----------------------------------------------------------------------------
(* Bookings and quotes *)

CreateBooking(b, c) ==
  /\ bookings[b] = NoRow
  /\ bookings' = [bookings EXCEPT ![b] =
       [status |-> "DRAFT", company |-> c, quote |-> NoRow, milestones |-> <<>>,
        invoice |-> Null, activated |-> FALSE, link |-> 1]]
  /\ UNCHANGED <<vars, policy, late, view, review, draft>>

RotateAccessToken(b) ==
  /\ Row(b) # NoRow /\ Row(b).link < MaxLink
  /\ bookings' = [bookings EXCEPT ![b].link = @ + 1]
  /\ UNCHANGED <<vars, policy, late, view, review, draft>>

SetPolicy(c, percent) ==
  /\ policy' = [policy EXCEPT ![c] = percent]
  /\ UNCHANGED <<vars, bookings, late, view, review, draft>>

BugQuotable(b) == Row(b).status \in {"DRAFT", "QUOTED", "INVOICED"}
Quotable(b) == Row(b).status \in {"DRAFT", "QUOTED"} /\ Row(b).invoice = Null

Structure(b, a) ==
  {[version |-> Version(b) + 1, amount |-> a, rate |-> rate, total |-> GrandTotal(a, rate),
    plan |-> p, expires |-> e, accepted |-> Null] :
       p \in Proposals(GrandTotal(a, rate), Row(b).company), e \in BOOLEAN}
Legacy(b, a) ==
  {[version |-> Version(b) + 1, amount |-> a, rate |-> Null, total |-> a, plan |-> <<>>,
    expires |-> e, accepted |-> Null] : e \in BOOLEAN}

\* A new quote replaces the latest one, accepted or not.
AddQuote(b, a) ==
  /\ Quotable(b)
  /\ Version(b) < MaxQuotes
  /\ \E quote \in Structure(b, a) \cup Legacy(b, a) :
       bookings' = [bookings EXCEPT ![b].quote = quote, ![b].status = "QUOTED"]
  /\ UNCHANGED <<vars, policy, late, view, review, draft>>

DayPasses ==
  /\ ~ late /\ late' = TRUE
  /\ UNCHANGED <<vars, bookings, policy, view, review, draft>>

-----------------------------------------------------------------------------
(* The customer *)

\* publicDetail(), through the link of the booking.
Read(g, b) ==
  /\ Row(b) # NoRow
  /\ view' = [view EXCEPT ![g] = [booking |-> b, link |-> Row(b).link, version |-> Version(b)]]
  /\ UNCHANGED <<vars, bookings, policy, late, review, draft>>

Authorized(g, b) == view[g] # NoRow /\ view[g].booking = b /\ view[g].link = Row(b).link

\* A structured quote is accepted by its version; a legacy quote may be accepted as it is.
VersionAccepted(g, b, asked) ==
  /\ asked => view[g].version = Version(b)
  /\ asked \/ ~ Structured(Quote(b))

AcceptQuote(g, b, asked) ==
  /\ Row(b).status = "QUOTED"
  /\ Authorized(g, b)
  /\ ~ (Quote(b).expires /\ late)
  /\ VersionAccepted(g, b, asked)
  /\ Quote(b).accepted = Null
  /\ bookings' = [bookings EXCEPT ![b].quote.accepted = g]
  /\ UNCHANGED <<vars, policy, late, view, review, draft>>

-----------------------------------------------------------------------------
(* The invoice *)

\* The unique index on the invoice of a booking.
Unlinked(i) == \A b \in Bookings : bookings[b] # NoRow => bookings[b].invoice # i

\* Total, and for a structured quote the line and its tax.
PricingAgrees(b, i) ==
  /\ invoices[i].total = Quote(b).total
  /\ Structured(Quote(b)) =>
       invoices[i].amount = Quote(b).amount /\ invoices[i].rate = Quote(b).rate

AttachInvoice(b, i) ==
  /\ Row(b).status = "QUOTED" /\ Row(b).invoice = Null
  /\ Accepted(b)
  /\ invoices[i].status = "ISSUED" /\ invoices[i].company = Row(b).company
  /\ PricingAgrees(b, i) /\ Unlinked(i)
  /\ bookings' = [bookings EXCEPT ![b].invoice = i, ![b].status = "INVOICED"]
  /\ UNCHANGED <<vars, policy, late, view, review, draft>>

\* reviewInTransaction(): what the review token stands for, when nothing is in the way.  The
\* invoice is calculated with the tax rules of now and must come out as the quote says.
Eligible(b) ==
  /\ Row(b).status = "QUOTED" /\ Row(b).invoice = Null /\ Row(b).milestones = <<>>
  /\ Accepted(b) /\ Structured(Quote(b))
  /\ Quote(b).rate = rate
ReviewToken(b) == [booking |-> b, quote |-> Quote(b)]

BillingReview(u, b) ==
  /\ Row(b) # NoRow /\ Eligible(b)
  /\ review' = [review EXCEPT ![u] = ReviewToken(b)]
  /\ UNCHANGED <<vars, bookings, policy, late, view, draft>>

Reviewed(u, b) == review[u] = ReviewToken(b)

\* Draft, issue, schedule and link in one transaction; a repeated request finds it activated.
EnablePayment(u, b, i, d) ==
  LET s == SeriesOf(Row(b).company, d, "I") IN
  /\ Row(b) # NoRow /\ ~ Row(b).activated
  /\ Eligible(b) /\ Reviewed(u, b)
  /\ invoices[i] = NoRow
  /\ TakeNumber(s) /\ NumberFree(Row(b).company, d, NextNumber(s))
  /\ invoices' = [invoices EXCEPT ![i] =
       [Draft(u, 2, Row(b).company, d, Quote(b).amount) EXCEPT
          !.status = "ISSUED", !.number = NextNumber(s)]]
  /\ Emit(<<"issued", i>>)
  /\ bookings' = [bookings EXCEPT ![b].invoice = i, ![b].status = "INVOICED",
                                  ![b].activated = TRUE, ![b].milestones = Quote(b).plan]
  /\ UNCHANGED <<receipts, adjustments, rate, seen, policy, late, view, review, draft>>

-----------------------------------------------------------------------------
(* The schedule.  The booking, its invoice and the policy are read and checked before the  *)
(* transaction, which checks the booking again, but not the invoice.                        *)

PlanSchedule(u, b) ==
  /\ draft[u] = NoRow
  /\ Row(b).status = "INVOICED"
  /\ invoices[Row(b).invoice].status = "ISSUED"
  /\ \E p \in Proposals(invoices[Row(b).invoice].total, Row(b).company) :
       draft' = [draft EXCEPT ![u] = [booking |-> b, plan |-> p]]
  /\ UNCHANGED <<vars, bookings, policy, late, view, review>>

BugAgreedPlanIgnored(b, plan) == Row(b).milestones = <<>>
Schedulable(b, plan) ==
  /\ Row(b).milestones = <<>>
  /\ Structured(Quote(b)) => plan = Quote(b).plan

SetSchedule(u) ==
  /\ draft[u] # NoRow
  /\ LET b == draft[u].booking IN
     bookings' = IF Row(b).status = "INVOICED" /\ Schedulable(b, draft[u].plan)
                 THEN [bookings EXCEPT ![b].milestones = draft[u].plan]
                 ELSE bookings
  /\ draft' = [draft EXCEPT ![u] = NoRow]
  /\ UNCHANGED <<vars, policy, late, view, review>>

CancelBooking(b) ==
  /\ Row(b).status \in {"DRAFT", "QUOTED", "INVOICED"}
  /\ bookings' = [bookings EXCEPT ![b].status = "CANCELLED"]
  /\ UNCHANGED <<vars, policy, late, view, review, draft>>

-----------------------------------------------------------------------------
QInit ==
  /\ Init
  /\ bookings = [b \in Bookings |-> NoRow]
  /\ policy \in [Companies -> Percents]
  /\ late = FALSE
  /\ view = [g \in Guests |-> NoRow]
  /\ review = [u \in Users |-> NoRow] /\ draft = [u \in Users |-> NoRow]

\* Staff who bill by hand, and the tax rules.
BillByHand ==
  /\ \/ \E u \in Users, i \in Invoices : InvoiceStep(u, i)
     \/ \E new \in Rates : ChangeTaxRule(new)
  /\ UNCHANGED <<bookings, policy, late, view, review, draft>>

BookingStep(b) ==
  \/ \E c \in Companies : CreateBooking(b, c)
  \/ RotateAccessToken(b)
  \/ \E a \in Prices \ {0} : AddQuote(b, a)
  \/ \E i \in Invoices : AttachInvoice(b, i)
  \/ CancelBooking(b)
  \/ \E u \in Users :
       BillingReview(u, b) \/ PlanSchedule(u, b)
         \/ \E i \in Invoices, d \in Dates : EnablePayment(u, b, i, d)
  \/ \E g \in Guests : Read(g, b) \/ \E asked \in BOOLEAN : AcceptQuote(g, b, asked)

QNext ==
  \/ \E b \in Bookings : BookingStep(b)
  \/ \E u \in Users : SetSchedule(u)
  \/ \E c \in Companies, percent \in Percents : SetPolicy(c, percent)
  \/ DayPasses
  \/ BillByHand

QSpec == QInit /\ [][QNext]_qVars

-----------------------------------------------------------------------------
(* Properties *)

\* The rows keep the columns of commercial.schema.ts.
QTypeOK ==
  /\ TypeOK
  /\ bookings \in [Bookings -> BookingRow \cup {NoRow}]
  /\ policy \in [Companies -> Percents]

\* What a booking is billed is what the customer accepted: its invoice, linked or issued, has
\* the company and the amount of the latest quote, with its line and tax when the quote has
\* them, the quote is accepted, and no other booking has the invoice; whatever was quoted,
\* revised or taxed differently on the way.  A schedule is of a booking that was billed, adds up
\* to its invoice, and is the accepted plan when there is one.
InvoicedAsAccepted ==
  /\ \A b \in Bookings : (bookings[b] # NoRow /\ bookings[b].invoice # Null) =>
       LET i == bookings[b].invoice IN
       /\ Accepted(b)
       /\ invoices[i].status \in {"ISSUED", "CANCELLED"}
       /\ invoices[i].company = bookings[b].company /\ invoices[i].total = Quote(b).total
       /\ Structured(Quote(b)) =>
            <<invoices[i].amount, invoices[i].rate>> = <<Quote(b).amount, Quote(b).rate>>
       /\ \A o \in Bookings \ {b} : bookings[o] # NoRow => bookings[o].invoice # i
  /\ \A b \in Bookings : (bookings[b] # NoRow /\ bookings[b].milestones # <<>>) =>
       /\ bookings[b].invoice # Null
       /\ Total(bookings[b].milestones) = invoices[bookings[b].invoice].total
       /\ Structured(Quote(b)) => bookings[b].milestones = Quote(b).plan
=============================================================================
