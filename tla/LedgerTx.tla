------------------------------ MODULE LedgerTx ------------------------------
(***************************************************************************)
(* The handlers of BillingRepository as the statements of concurrent        *)
(* PostgreSQL transactions (READ COMMITTED).  A session runs one request at *)
(* a time: it takes advisory and row locks, reads what is committed at that *)
(* moment, one statement at a time, and writes from what it read.  Writes   *)
(* become visible, and locks are released, when the transaction commits; a  *)
(* refusal or a lost connection rolls it back.                              *)
(*                                                                         *)
(* The tables are those of Ledger, and every behaviour here is one of       *)
(* Ledger's: the locks make each handler atomic.  The legacy import, an     *)
(* operator's script, is not run here.                                      *)
(***************************************************************************)
EXTENDS Ledger, Sequences

CONSTANT Sessions

VARIABLE tx   \* the transaction of each session
txVars == <<vars, tx>>

Idle == [todo |-> <<>>, req |-> Null, invoice |-> Null, row |-> Null,
         received |-> 0, adjusted |-> 0, rate |-> 0, number |-> 0, locks |-> {}]

-----------------------------------------------------------------------------
(* Requests, and the statements that serve each one, in the order of the code *)

Requests ==
  [op : {"update"}, user : Users, invoice : Invoices, date : Dates, amount : Prices,
   company : Companies]
    \cup [op : {"issue", "cancel"}, user : Users, invoice : Invoices]
    \cup [op : {"read"}, invoice : Invoices]
    \cup [op : {"receipt"}, invoice : Invoices, date : Dates, amount : Amounts, key : Keys,
          method : {"MANUAL"}, status : {"PENDING", "CONFIRMED"}]
    \cup [op : {"receipt"}, invoice : Invoices, date : Dates, amount : Amounts, key : Keys,
          method : {"GATEWAY"}, status : {"CONFIRMED"}]
    \cup [op : {"confirm", "reverse"}, receipt : Receipts]
    \cup [op : {"adjust"}, invoice : Invoices, date : Dates, amount : Amounts, key : Keys]
    \cup [op : {"unadjust"}, adjustment : Adjustments]
    \cup [op : {"rule"}, rate : Rates]

Settle == <<"check", "receipts", "adjustments">>
BugReceiptPlan(status) ==
  <<"invoice", "key", "retry">>
    \o (IF status = "CONFIRMED" THEN Settle ELSE <<"check">>) \o <<"number", "commit">>
ReceiptPlan(status) ==
  <<"key", "retry", "invoice">>
    \o (IF status = "CONFIRMED" THEN Settle ELSE <<"check">>) \o <<"number", "commit">>

IssuePlan == <<"invoice", "check", "tax", "number", "commit">>

Plan(req) ==
  CASE req.op = "update" -> <<"invoice", "check", "tax", "commit">>
    [] req.op = "issue" -> IssuePlan
    [] req.op = "cancel" -> <<"invoice">> \o Settle \o <<"commit">>
    [] req.op = "receipt" -> ReceiptPlan(req.status)
    [] req.op = "confirm" -> <<"candidate", "invoice">> \o Settle \o <<"commit">>
    [] req.op \in {"reverse", "unadjust"} -> <<"candidate", "invoice", "check", "commit">>
    [] req.op = "adjust" -> <<"key", "retry", "invoice">> \o Settle \o <<"commit">>
    [] req.op = "read" -> <<"share", "receipts", "adjustments", "balance">>
    [] req.op = "rule" -> <<"tax", "commit">>

At(s, step) == tx[s].todo # <<>> /\ Head(tx[s].todo) = step
Op(s) == tx[s].req.op

\* t, with its first statement done.
Done(t) == [t EXCEPT !.todo = Tail(@)]
Continue(s, t) == tx' = [tx EXCEPT ![s] = Done(t)] /\ UNCHANGED vars
End(s) == tx' = [tx EXCEPT ![s] = Idle]
Rollback(s) == End(s) /\ UNCHANGED vars

-----------------------------------------------------------------------------
(* Locks: a session holds the locks in tx[s].locks until its transaction ends. *)

Excludes(lock) ==
  IF lock[1] = "invoice" THEN {lock, <<"share", lock[2]>>}
  ELSE IF lock[1] = "share" THEN {<<"invoice", lock[2]>>}
  ELSE {lock}

CounterOf(s) ==
  IF Op(s) = "issue" THEN SeriesOf(tx[s].row.company, tx[s].row.date, "I")
  ELSE SeriesOf(tx[s].row.company, tx[s].req.date, "R")

WantedLock(s) ==
  CASE At(s, "key") -> <<"key", tx[s].req.key>>
    [] At(s, "invoice") -> <<"invoice", tx[s].invoice>>
    [] At(s, "share") -> <<"share", tx[s].invoice>>
    [] At(s, "tax") -> <<"tax">>
    [] At(s, "number") -> <<"counter", CounterOf(s)>>

NeedsLock(s) == \E step \in {"key", "invoice", "share", "tax", "number"} : At(s, step)
WaitsFor(s) ==
  IF NeedsLock(s)
  THEN {q \in Sessions \ {s} : tx[q].locks \cap Excludes(WantedLock(s)) # {}}
  ELSE {}

Locked(s) == [tx[s] EXCEPT !.locks = @ \cup {WantedLock(s)}]

-----------------------------------------------------------------------------
(* Statements *)

\* Bounds of the model: drafts have MaxVersion edits, and the row identities are finite.
InFlight(op) == Cardinality({s \in Sessions : tx[s] # Idle /\ Op(s) = op})
RowLeft(req) ==
  CASE req.op = "update" -> seen[req.user][req.invoice].version < MaxVersion
    [] req.op = "receipt" ->
         Cardinality({r \in Receipts : receipts[r] = NoRow}) > InFlight("receipt")
    [] req.op = "adjust" ->
         Cardinality({x \in Adjustments : adjustments[x] = NoRow}) > InFlight("adjust")
    [] OTHER -> TRUE

Begin(s, req) ==
  /\ tx[s] = Idle
  /\ req.op \in {"update", "issue"} => seen[req.user][req.invoice] # NoRow
  /\ RowLeft(req)
  /\ tx' = [tx EXCEPT ![s] =
       [Idle EXCEPT !.todo = Plan(req), !.req = req,
          !.invoice = IF "invoice" \in DOMAIN req THEN req.invoice ELSE Null,
          \* The version a user presents is the one they loaded.
          !.row = IF req.op \in {"update", "issue"} THEN seen[req.user][req.invoice] ELSE Null]]
  /\ UNCHANGED vars

\* pg_advisory_xact_lock on the idempotency key.
LockKey(s) ==
  /\ At(s, "key")
  /\ WaitsFor(s) = {}
  /\ Continue(s, Locked(s))

\* A key that is known answers with the stored row, or refuses other content.
Retry(s) ==
  /\ At(s, "retry")
  /\ IF (IF Op(s) = "receipt" THEN ReceiptKeyFree(tx[s].req.key)
                              ELSE AdjustmentKeyFree(tx[s].req.key))
     THEN Continue(s, tx[s])
     ELSE Rollback(s)

\* changeReceipt and reverseAdjustment read the row to learn which invoice to lock.
Candidate(s) ==
  /\ At(s, "candidate")
  /\ LET row == IF Op(s) = "unadjust" THEN adjustments[tx[s].req.adjustment]
                                      ELSE receipts[tx[s].req.receipt]
     IN IF row = NoRow THEN Rollback(s) ELSE Continue(s, [tx[s] EXCEPT !.invoice = row.invoice])

\* The version in the request, when there is one, against the row just locked.
Presented(s) == IF Op(s) \in {"update", "issue"} THEN tx[s].row.version ELSE 0

BugReadInvoice(s) ==
  /\ At(s, "invoice")
  /\ LET row == invoices[tx[s].invoice] IN
     IF row = NoRow \/ (Op(s) \in {"update", "issue"} /\ row.version # Presented(s))
     THEN Rollback(s)
     ELSE Continue(s, [tx[s] EXCEPT !.row = row])
\* SELECT ... FOR UPDATE: waits, then reads the latest committed row.
LockInvoice(s) ==
  /\ At(s, "invoice")
  /\ WaitsFor(s) = {}
  /\ LET row == invoices[tx[s].invoice] IN
     IF row = NoRow \/ (Op(s) \in {"update", "issue"} /\ row.version # Presented(s))
     THEN Rollback(s)
     ELSE Continue(s, [Locked(s) EXCEPT !.row = row])

BugShareNothing(s) ==
  /\ At(s, "share")
  /\ IF invoices[tx[s].invoice] = NoRow
     THEN Rollback(s)
     ELSE Continue(s, [tx[s] EXCEPT !.row = invoices[tx[s].invoice]])
\* SELECT ... FOR SHARE, of get() and settlementBalance().
ShareInvoice(s) ==
  /\ At(s, "share")
  /\ WaitsFor(s) = {}
  /\ IF invoices[tx[s].invoice] = NoRow
     THEN Rollback(s)
     ELSE Continue(s, [Locked(s) EXCEPT !.row = invoices[tx[s].invoice]])

Accepted(s) ==
  CASE Op(s) \in {"update", "issue"} -> tx[s].row.status = "DRAFT"
    [] Op(s) \in {"cancel", "receipt"} -> tx[s].row.status = "ISSUED"
    [] Op(s) = "adjust" -> tx[s].row.status = "ISSUED" /\ tx[s].req.date >= tx[s].row.date
    [] Op(s) = "confirm" ->
         receipts[tx[s].req.receipt].status = "PENDING" /\ tx[s].row.status = "ISSUED"
    [] Op(s) = "reverse" ->
         Reversible(tx[s].req.receipt) /\ receipts[tx[s].req.receipt].method # "GATEWAY"
    [] Op(s) = "unadjust" -> adjustments[tx[s].req.adjustment].status = "ACTIVE"

\* The state checks; those of receipts and adjustments re-read the row under the lock.
Check(s) ==
  /\ At(s, "check")
  /\ IF Accepted(s) THEN Continue(s, tx[s]) ELSE Rollback(s)

\* balance() reads the receipts and the adjustments in two statements; so does cancel().
SumReceipts(s) ==
  /\ At(s, "receipts")
  /\ Continue(s, [tx[s] EXCEPT !.received =
       IF Op(s) = "cancel"
       THEN Cardinality({r \in Receipts : Reversible(r) /\ receipts[r].invoice = tx[s].invoice})
       ELSE Received(tx[s].invoice)])

Requested(s) ==
  IF Op(s) = "confirm" THEN receipts[tx[s].req.receipt].amount ELSE tx[s].req.amount
SumAdjustments(s) ==
  /\ At(s, "adjustments")
  /\ LET adjusted == Adjusted(tx[s].invoice)
         settled == tx[s].received + adjusted
     IN IF \/ Op(s) = "cancel" /\ settled > 0
           \/ Op(s) \in {"receipt", "confirm", "adjust"}
                /\ Requested(s) > tx[s].row.total - settled
        THEN Rollback(s)
        ELSE Continue(s, [tx[s] EXCEPT !.adjusted = adjusted])

\* prepare(): the tax-rule lock 81001, then the rates; issue() compares them with its lines.
LockTax(s) ==
  /\ At(s, "tax")
  /\ WaitsFor(s) = {}
  /\ IF \/ Op(s) = "issue" /\ tx[s].row.rate # rate
        \/ Op(s) = "update" /\ GrandTotal(tx[s].req.amount, rate) > MaxMinor
     THEN Rollback(s)
     ELSE Continue(s, [Locked(s) EXCEPT !.rate = rate])

\* INSERT ... ON CONFLICT DO UPDATE holds the counter row until the commit.
LockNumber(s) ==
  /\ At(s, "number")
  /\ WaitsFor(s) = {}
  /\ IF counters[CounterOf(s)] < MaxNumber
     THEN Continue(s, [Locked(s) EXCEPT !.number = counters[CounterOf(s)] + 1])
     ELSE Rollback(s)

\* The answer to a read: outstanding() throws when the balance is negative.
AnswerRead(s) == At(s, "balance") /\ Rollback(s)

\* The connection is lost, or the process dies: PostgreSQL rolls back.
Crash(s) == tx[s] # Idle /\ Rollback(s)

-----------------------------------------------------------------------------
(* Commits: the writes, made of what the transaction read *)

Commit(s, op) == At(s, "commit") /\ Op(s) = op /\ End(s)

CommitUpdate(s) ==
  LET q == tx[s].req  i == tx[s].invoice IN
  /\ Commit(s, "update")
  /\ invoices' = [invoices EXCEPT ![i] =
       [@ EXCEPT !.company = q.company, !.date = q.date, !.amount = q.amount,
                 !.rate = tx[s].rate, !.total = GrandTotal(q.amount, tx[s].rate),
                 !.version = tx[s].row.version + 1, !.by = q.user]]
  /\ UNCHANGED <<receipts, adjustments, counters, outbox, rate, seen>>

CommitIssue(s) ==
  LET i == tx[s].invoice IN
  /\ Commit(s, "issue")
  /\ invoices' = [invoices EXCEPT ![i] =
       [@ EXCEPT !.status = "ISSUED", !.number = tx[s].number, !.rate = tx[s].rate,
                 !.total = GrandTotal(tx[s].row.amount, tx[s].rate),
                 !.version = tx[s].row.version + 1, !.by = tx[s].req.user]]
  /\ counters' = [counters EXCEPT ![CounterOf(s)] = tx[s].number]
  /\ Emit(<<"issued", i>>)
  /\ UNCHANGED <<receipts, adjustments, rate, seen>>

CommitCancel(s) ==
  LET i == tx[s].invoice IN
  /\ Commit(s, "cancel")
  /\ invoices' = [invoices EXCEPT ![i] =
       [@ EXCEPT !.status = "CANCELLED", !.version = tx[s].row.version + 1,
                 !.by = tx[s].req.user]]
  /\ Emit(<<"cancelled", i>>)
  /\ UNCHANGED <<receipts, adjustments, counters, rate, seen>>

CommitReceipt(s, r) ==
  LET q == tx[s].req IN
  /\ Commit(s, "receipt")
  /\ receipts[r] = NoRow
  /\ receipts' = [receipts EXCEPT ![r] =
       [status |-> q.status, invoice |-> q.invoice, company |-> tx[s].row.company,
        date |-> q.date, amount |-> q.amount, method |-> q.method, key |-> q.key,
        number |-> tx[s].number]]
  /\ counters' = [counters EXCEPT ![CounterOf(s)] = tx[s].number]
  /\ Emit(<<IF q.status = "PENDING" THEN "created PENDING" ELSE "created CONFIRMED", r>>)
  /\ UNCHANGED <<invoices, adjustments, rate, seen>>

CommitChange(s) ==
  LET r == tx[s].req.receipt IN
  /\ \/ Commit(s, "confirm") /\ Emit(<<"confirmed", r>>)
       /\ receipts' = [receipts EXCEPT ![r] = [@ EXCEPT !.status = "CONFIRMED"]]
     \/ Commit(s, "reverse") /\ Emit(<<"reversed", r>>)
       /\ receipts' = [receipts EXCEPT ![r] = [@ EXCEPT !.status = "REVERSED"]]
  /\ UNCHANGED <<invoices, adjustments, counters, rate, seen>>

CommitAdjustment(s, x) ==
  LET q == tx[s].req IN
  /\ Commit(s, "adjust")
  /\ adjustments[x] = NoRow
  /\ adjustments' = [adjustments EXCEPT ![x] =
       [status |-> "ACTIVE", invoice |-> q.invoice, amount |-> q.amount, key |-> q.key]]
  /\ UNCHANGED <<invoices, receipts, counters, outbox, rate, seen>>

CommitUnadjust(s) ==
  LET x == tx[s].req.adjustment IN
  /\ Commit(s, "unadjust")
  /\ adjustments' = [adjustments EXCEPT ![x] = [@ EXCEPT !.status = "REVERSED"]]
  /\ UNCHANGED <<invoices, receipts, counters, outbox, rate, seen>>

CommitRule(s) ==
  /\ Commit(s, "rule")
  /\ rate' = tx[s].req.rate
  /\ UNCHANGED <<invoices, receipts, adjustments, counters, outbox, seen>>

\* createDraft() writes a new row only; it reads the rate under the tax-rule lock.
CreateDraftTx(u, i, c, d, a) ==
  /\ \A s \in Sessions : <<"tax">> \notin tx[s].locks
  /\ CreateDraft(u, i, c, d, a)
  /\ UNCHANGED tx

LoadTx(u, i) == Load(u, i) /\ UNCHANGED tx

-----------------------------------------------------------------------------
TxInit == Init /\ tx = [s \in Sessions |-> Idle]

Step(s) ==
  \/ LockKey(s) \/ Retry(s) \/ Candidate(s) \/ LockInvoice(s) \/ ShareInvoice(s)
  \/ Check(s) \/ SumReceipts(s) \/ SumAdjustments(s) \/ LockTax(s) \/ LockNumber(s)
  \/ AnswerRead(s)
  \/ CommitUpdate(s) \/ CommitIssue(s) \/ CommitCancel(s)
  \/ \E r \in Receipts : CommitReceipt(s, r)
  \/ CommitChange(s)
  \/ \E x \in Adjustments : CommitAdjustment(s, x)
  \/ CommitUnadjust(s) \/ CommitRule(s)

TxNext ==
  \/ \E s \in Sessions : Step(s) \/ Crash(s) \/ \E req \in Requests : Begin(s, req)
  \/ \E u \in Users, i \in Invoices :
       \/ LoadTx(u, i)
       \/ \E c \in Companies, d \in Dates, a \in Prices : CreateDraftTx(u, i, c, d, a)

TxSpec == TxInit /\ [][TxNext]_txVars

-----------------------------------------------------------------------------
(* Properties *)

\* Every interleaving of transactions, with lost connections, is a behaviour of the atomic
\* ledger: the locks hold what each handler read until it has written.
TransactionsAreAtomic == Spec

\* No set of sessions waits for its own members: the lock order key, invoice, tax rules,
\* counter is the same in every handler.
NoDeadlock ==
  \A cycle \in (SUBSET Sessions) \ {{}} : \E s \in cycle : WaitsFor(s) \cap cycle = {}

\* A balance that is read while others write adds up: the reader never finds more settled
\* than the invoice's total, so outstanding() does not throw.
ReaderSeesABalance ==
  \A s \in Sessions : (At(s, "balance") /\ tx[s].row.status = "ISSUED") =>
    tx[s].received + tx[s].adjusted <= tx[s].row.total
=============================================================================
