--------------------------- MODULE LedgerTxProofs ---------------------------
(***************************************************************************)
(* Theorems about LedgerTx, for every number of sessions: the locks and    *)
(* the order of the statements make every handler atomic, and no set of    *)
(* sessions ever waits in a circle.                                        *)
(***************************************************************************)
EXTENDS LedgerTx, LedgerProofs, SequenceTheorems

-----------------------------------------------------------------------------
(* The invariant *)

Locks ==
  ({"key"} \X Keys) \cup ({"invoice", "share"} \X Invoices) \cup {<<"tax">>}
    \cup ({"counter"} \X Series)

Statements ==
  {"key", "retry", "candidate", "invoice", "share", "check", "receipts", "adjustments", "tax",
   "number", "commit", "balance"}

\* A transaction of a session: a record of LedgerTx, whose remaining statements are the end of
\* the plan of its request.
Transaction ==
  [todo : Seq(Statements), req : Requests \cup {Null}, invoice : Invoices \cup {Null},
   row : InvoiceRow \cup {NoRow, Null}, received : Nat, adjusted : Nat, rate : Nat,
   number : Nat, locks : SUBSET Locks]

Executed(t) == Len(Plan(t.req)) - Len(t.todo)
Past(t, step) == t.todo # <<>> /\ \E k \in 1 .. Executed(t) : Plan(t.req)[k] = step

FollowsPlan(t) ==
  t.todo # <<>> =>
    /\ t.req \in Requests
    /\ Len(t.todo) <= Len(Plan(t.req))
    /\ \A k \in 1 .. Len(t.todo) : t.todo[k] = Plan(t.req)[Executed(t) + k]

-----------------------------------------------------------------------------
\* What a transaction has locked, it locked by a statement of its plan.
LockStep(lock) == IF lock[1] = "counter" THEN "number" ELSE lock[1]
LocksAreTaken(t) == \A lock \in t.locks : Past(t, LockStep(lock))

\* No lock but a shared one is held twice.
Exclusive(a, b) ==
  /\ \A lock \in a \cap b : lock[1] = "share"
  /\ \A i \in Invoices : <<"invoice", i>> \in a => <<"share", i>> \notin b
LocksExclude == \A s, q \in Sessions : s # q => Exclusive(tx[s].locks, tx[q].locks)

\* What a transaction has read is still so.
KeyFree(t) ==
  IF t.req.op = "receipt" THEN ReceiptKeyFree(t.req.key) ELSE AdjustmentKeyFree(t.req.key)
KeyHeld(t) ==
  /\ Past(t, "key") => <<"key", t.req.key>> \in t.locks
  /\ Past(t, "retry") => KeyFree(t)

NamedRow(t) ==
  IF t.req.op = "unadjust" THEN adjustments[t.req.adjustment] ELSE receipts[t.req.receipt]
InvoiceKnown(t) ==
  t.todo # <<>> =>
    IF t.req.op \in {"confirm", "reverse", "unadjust"}
    THEN Past(t, "candidate") => NamedRow(t) # NoRow /\ t.invoice = NamedRow(t).invoice
    ELSE t.req.op # "rule" => t.invoice = t.req.invoice

InvoiceHeld(t) ==
  \A mode \in {"invoice", "share"} : Past(t, mode) =>
    /\ <<mode, t.invoice>> \in t.locks
    /\ t.row = invoices[t.invoice] /\ t.row # NoRow

VersionRead(t) ==
  t.todo # <<>> /\ t.req.op \in {"update", "issue"} =>
    /\ seen[t.req.user][t.req.invoice] # NoRow
    /\ t.row \in InvoiceRow
    /\ t.row.version <= seen[t.req.user][t.req.invoice].version
    /\ t.req.op = "update" => t.row.version < MaxVersion

AcceptedBy(t) ==
  CASE t.req.op \in {"update", "issue"} -> t.row.status = "DRAFT"
    [] t.req.op \in {"cancel", "receipt"} -> t.row.status = "ISSUED"
    [] t.req.op = "adjust" -> t.row.status = "ISSUED" /\ t.req.date >= t.row.date
    [] t.req.op = "confirm" ->
         receipts[t.req.receipt].status = "PENDING" /\ t.row.status = "ISSUED"
    [] t.req.op = "reverse" ->
         Reversible(t.req.receipt) /\ receipts[t.req.receipt].method # "GATEWAY"
    [] t.req.op = "unadjust" -> adjustments[t.req.adjustment].status = "ACTIVE"
StillAccepted(t) == Past(t, "check") => AcceptedBy(t)

Open(i) == {r \in Receipts : Reversible(r) /\ receipts[r].invoice = i}
RequestedBy(t) ==
  IF t.req.op = "confirm" THEN receipts[t.req.receipt].amount ELSE t.req.amount
Covered(t) ==
  /\ t.req.op = "cancel" => t.received + t.adjusted = 0
  /\ t.req.op \in {"receipt", "confirm", "adjust"} =>
       RequestedBy(t) <= t.row.total - (t.received + t.adjusted)
SettlementRead(t) ==
  /\ Past(t, "receipts") =>
       t.received = IF t.req.op = "cancel" THEN Cardinality(Open(t.invoice))
                                           ELSE Received(t.invoice)
  /\ Past(t, "adjustments") => t.adjusted = Adjusted(t.invoice) /\ Covered(t)

TaxHeld(t) ==
  Past(t, "tax") =>
    /\ <<"tax">> \in t.locks
    /\ t.rate = rate
    /\ t.req.op = "issue" => t.row.rate = rate
    /\ t.req.op = "update" => GrandTotal(t.req.amount, rate) <= MaxMinor

Counter(t) ==
  IF t.req.op = "issue" THEN SeriesOf(t.row.company, t.row.date, "I")
                        ELSE SeriesOf(t.row.company, t.req.date, "R")
NumberHeld(t) ==
  Past(t, "number") =>
    /\ <<"counter", Counter(t)>> \in t.locks
    /\ counters[Counter(t)] < MaxNumber
    /\ t.number = counters[Counter(t)] + 1

Holds(t) ==
  /\ KeyHeld(t) /\ InvoiceKnown(t) /\ InvoiceHeld(t) /\ VersionRead(t) /\ StillAccepted(t)
  /\ SettlementRead(t) /\ TaxHeld(t) /\ NumberHeld(t)

Transactional ==
  /\ tx \in [Sessions -> Transaction]
  /\ \A s \in Sessions : FollowsPlan(tx[s]) /\ LocksAreTaken(tx[s]) /\ Holds(tx[s])
  /\ LocksExclude

-----------------------------------------------------------------------------
(* Plans *)

Kinds == {"update", "issue", "cancel", "read", "receipt", "confirm", "reverse", "adjust",
          "unadjust", "rule"}

\* What a request carries.
LEMMA RequestFields ==
  ASSUME NEW q \in Requests
  PROVE  /\ q.op \in Kinds
         /\ q.op \in {"update", "issue", "cancel"} => q.user \in Users
         /\ q.op \in {"update", "issue", "cancel", "read", "receipt", "adjust"} =>
              q.invoice \in Invoices
         /\ q.op \in {"update", "receipt", "adjust"} => q.date \in Dates
         /\ q.op = "update" => q.amount \in Prices /\ q.company \in Companies
         /\ q.op \in {"receipt", "adjust"} => q.amount \in Amounts /\ q.key \in Keys
         /\ q.op = "receipt" =>
              /\ q.method \in {"MANUAL", "GATEWAY"} /\ q.status \in {"PENDING", "CONFIRMED"}
              /\ q.method = "GATEWAY" => q.status = "CONFIRMED"
         /\ q.op \in {"confirm", "reverse"} => q.receipt \in Receipts
         /\ q.op = "unadjust" => q.adjustment \in Adjustments
         /\ q.op = "rule" => q.rate \in Rates
  BY DEF Requests, Kinds

\* The statements of each plan, one by one.
LEMMA UpdatePlan ==
  ASSUME NEW q, q.op = "update"
  PROVE  LET p == Plan(q) IN
         Len(p) = 4 /\ p[1] = "invoice" /\ p[2] = "check" /\ p[3] = "tax" /\ p[4] = "commit"
  BY DEF Plan

LEMMA IssuePlanSteps ==
  ASSUME NEW q, q.op = "issue"
  PROVE  LET p == Plan(q) IN
         /\ Len(p) = 5 /\ p[1] = "invoice" /\ p[2] = "check" /\ p[3] = "tax"
         /\ p[4] = "number" /\ p[5] = "commit"
  BY DEF Plan, IssuePlan

LEMMA CancelPlan ==
  ASSUME NEW q, q.op = "cancel"
  PROVE  LET p == Plan(q) IN
         /\ Len(p) = 5 /\ p[1] = "invoice" /\ p[2] = "check" /\ p[3] = "receipts"
         /\ p[4] = "adjustments" /\ p[5] = "commit"
  BY DEF Plan, Settle

LEMMA PendingPlan ==
  ASSUME NEW q, q.op = "receipt", q.status = "PENDING"
  PROVE  LET p == Plan(q) IN
         /\ Len(p) = 6 /\ p[1] = "key" /\ p[2] = "retry" /\ p[3] = "invoice" /\ p[4] = "check"
         /\ p[5] = "number" /\ p[6] = "commit"
  BY DEF Plan, ReceiptPlan

LEMMA ConfirmedPlan ==
  ASSUME NEW q, q.op = "receipt", q.status = "CONFIRMED"
  PROVE  LET p == Plan(q) IN
         /\ Len(p) = 8 /\ p[1] = "key" /\ p[2] = "retry" /\ p[3] = "invoice" /\ p[4] = "check"
         /\ p[5] = "receipts" /\ p[6] = "adjustments" /\ p[7] = "number" /\ p[8] = "commit"
  BY DEF Plan, ReceiptPlan, Settle

LEMMA ConfirmPlan ==
  ASSUME NEW q, q.op = "confirm"
  PROVE  LET p == Plan(q) IN
         /\ Len(p) = 6 /\ p[1] = "candidate" /\ p[2] = "invoice" /\ p[3] = "check"
         /\ p[4] = "receipts" /\ p[5] = "adjustments" /\ p[6] = "commit"
  BY DEF Plan, Settle

LEMMA ReversePlan ==
  ASSUME NEW q, q.op \in {"reverse", "unadjust"}
  PROVE  LET p == Plan(q) IN
         /\ Len(p) = 4 /\ p[1] = "candidate" /\ p[2] = "invoice" /\ p[3] = "check"
         /\ p[4] = "commit"
  BY DEF Plan

LEMMA AdjustPlan ==
  ASSUME NEW q, q.op = "adjust"
  PROVE  LET p == Plan(q) IN
         /\ Len(p) = 7 /\ p[1] = "key" /\ p[2] = "retry" /\ p[3] = "invoice" /\ p[4] = "check"
         /\ p[5] = "receipts" /\ p[6] = "adjustments" /\ p[7] = "commit"
  BY DEF Plan, Settle

LEMMA ReadPlan ==
  ASSUME NEW q, q.op = "read"
  PROVE  LET p == Plan(q) IN
         /\ Len(p) = 4 /\ p[1] = "share" /\ p[2] = "receipts" /\ p[3] = "adjustments"
         /\ p[4] = "balance"
  BY DEF Plan

LEMMA RulePlan ==
  ASSUME NEW q, q.op = "rule"
  PROVE  LET p == Plan(q) IN Len(p) = 2 /\ p[1] = "tax" /\ p[2] = "commit"
  BY DEF Plan

-----------------------------------------------------------------------------
(* Where a transaction is in its plan *)

\* The statement at hand, and those that are done.
Stage(t, step, past) == Head(t.todo) = step /\ \A y : Past(t, y) <=> y \in past

LEMMA PlanLength ==
  ASSUME NEW q \in Requests
  PROVE  Len(Plan(q)) \in Nat
<1>1. q.op \in Kinds /\ (q.op = "receipt" => q.status \in {"PENDING", "CONFIRMED"})
  BY RequestFields
<1> QED
  BY <1>1, UpdatePlan, IssuePlanSteps, CancelPlan, PendingPlan, ConfirmedPlan, ConfirmPlan,
     ReversePlan, AdjustPlan, ReadPlan, RulePlan DEF Kinds

LEMMA Place ==
  ASSUME NEW t \in Transaction, FollowsPlan(t), t.todo # <<>>
  PROVE  /\ t.req \in Requests
         /\ Executed(t) \in 0 .. Len(Plan(t.req)) - 1
         /\ Head(t.todo) = Plan(t.req)[Executed(t) + 1]
         /\ \A y : Past(t, y) <=> \E k \in 1 .. Executed(t) : Plan(t.req)[k] = y
<1>1. t.todo \in Seq(Statements) /\ Len(t.todo) \in Nat \ {0}
  BY DEF Transaction
<1>2. t.req \in Requests /\ Len(Plan(t.req)) \in Nat /\ Len(t.todo) <= Len(Plan(t.req))
  BY PlanLength DEF FollowsPlan
<1>3. Executed(t) \in 0 .. Len(Plan(t.req)) - 1
  BY <1>1, <1>2 DEF Executed
<1>4. t.todo[1] = Plan(t.req)[Executed(t) + 1]
  BY <1>1 DEF FollowsPlan
<1>5. Head(t.todo) = t.todo[1]
  BY <1>1
<1> QED
  BY <1>2, <1>3, <1>4, <1>5 DEF Past

LEMMA StageOf ==
  ASSUME NEW t \in Transaction, FollowsPlan(t), t.todo # <<>>
  PROVE  \E e \in Nat :
           /\ e < Len(Plan(t.req))
           /\ Head(t.todo) = Plan(t.req)[e + 1]
           /\ \A y : Past(t, y) <=> \E k \in 1 .. e : Plan(t.req)[k] = y
  BY Place, PlanLength

\* The stages of each kind of request.
LEMMA UpdateStages ==
  ASSUME NEW t \in Transaction, FollowsPlan(t), t.todo # <<>>, t.req.op = "update"
  PROVE  \/ Stage(t, "invoice", {})
         \/ Stage(t, "check", {"invoice"})
         \/ Stage(t, "tax", {"invoice", "check"})
         \/ Stage(t, "commit", {"invoice", "check", "tax"})
<1> DEFINE p == Plan(t.req)
<1>1. /\ Len(p) = 4 /\ p[1] = "invoice" /\ p[2] = "check" /\ p[3] = "tax"
      /\ p[4] = "commit"
  BY UpdatePlan
<1>2. PICK e \in Nat : /\ e < 4 /\ Head(t.todo) = p[e + 1]
                       /\ \A y : Past(t, y) <=> \E k \in 1 .. e : p[k] = y
  BY <1>1, StageOf
<1> HIDE DEF p
<1> QED
  BY <1>1, <1>2 DEF Stage

LEMMA IssueStages ==
  ASSUME NEW t \in Transaction, FollowsPlan(t), t.todo # <<>>, t.req.op = "issue"
  PROVE  \/ Stage(t, "invoice", {})
         \/ Stage(t, "check", {"invoice"})
         \/ Stage(t, "tax", {"invoice", "check"})
         \/ Stage(t, "number", {"invoice", "check", "tax"})
         \/ Stage(t, "commit", {"invoice", "check", "tax", "number"})
<1> DEFINE p == Plan(t.req)
<1>1. /\ Len(p) = 5 /\ p[1] = "invoice" /\ p[2] = "check" /\ p[3] = "tax"
      /\ p[4] = "number" /\ p[5] = "commit"
  BY IssuePlanSteps
<1>2. PICK e \in Nat : /\ e < 5 /\ Head(t.todo) = p[e + 1]
                       /\ \A y : Past(t, y) <=> \E k \in 1 .. e : p[k] = y
  BY <1>1, StageOf
<1> HIDE DEF p
<1> QED
  BY <1>1, <1>2 DEF Stage

LEMMA CancelStages ==
  ASSUME NEW t \in Transaction, FollowsPlan(t), t.todo # <<>>, t.req.op = "cancel"
  PROVE  \/ Stage(t, "invoice", {})
         \/ Stage(t, "check", {"invoice"})
         \/ Stage(t, "receipts", {"invoice", "check"})
         \/ Stage(t, "adjustments", {"invoice", "check", "receipts"})
         \/ Stage(t, "commit", {"invoice", "check", "receipts", "adjustments"})
<1> DEFINE p == Plan(t.req)
<1>1. /\ Len(p) = 5 /\ p[1] = "invoice" /\ p[2] = "check" /\ p[3] = "receipts"
      /\ p[4] = "adjustments" /\ p[5] = "commit"
  BY CancelPlan
<1>2. PICK e \in Nat : /\ e < 5 /\ Head(t.todo) = p[e + 1]
                       /\ \A y : Past(t, y) <=> \E k \in 1 .. e : p[k] = y
  BY <1>1, StageOf
<1> HIDE DEF p
<1> QED
  BY <1>1, <1>2 DEF Stage

LEMMA PendingStages ==
  ASSUME NEW t \in Transaction, FollowsPlan(t), t.todo # <<>>,
         t.req.op = "receipt", t.req.status = "PENDING"
  PROVE  \/ Stage(t, "key", {})
         \/ Stage(t, "retry", {"key"})
         \/ Stage(t, "invoice", {"key", "retry"})
         \/ Stage(t, "check", {"key", "retry", "invoice"})
         \/ Stage(t, "number", {"key", "retry", "invoice", "check"})
         \/ Stage(t, "commit", {"key", "retry", "invoice", "check", "number"})
<1> DEFINE p == Plan(t.req)
<1>1. /\ Len(p) = 6 /\ p[1] = "key" /\ p[2] = "retry"
      /\ p[3] = "invoice" /\ p[4] = "check" /\ p[5] = "number" /\ p[6] = "commit"
  BY PendingPlan
<1>2. PICK e \in Nat : /\ e < 6 /\ Head(t.todo) = p[e + 1]
                       /\ \A y : Past(t, y) <=> \E k \in 1 .. e : p[k] = y
  BY <1>1, StageOf
<1> HIDE DEF p
<1> QED
  BY <1>1, <1>2 DEF Stage

LEMMA ConfirmedStages ==
  ASSUME NEW t \in Transaction, FollowsPlan(t), t.todo # <<>>,
         t.req.op = "receipt", t.req.status = "CONFIRMED"
  PROVE  \/ Stage(t, "key", {})
         \/ Stage(t, "retry", {"key"})
         \/ Stage(t, "invoice", {"key", "retry"})
         \/ Stage(t, "check", {"key", "retry", "invoice"})
         \/ Stage(t, "receipts", {"key", "retry", "invoice", "check"})
         \/ Stage(t, "adjustments", {"key", "retry", "invoice", "check", "receipts"})
         \/ Stage(t, "number", {"key", "retry", "invoice", "check", "receipts", "adjustments"})
         \/ Stage(t, "commit",
                  {"key", "retry", "invoice", "check", "receipts", "adjustments", "number"})
<1> DEFINE p == Plan(t.req)
<1>1. /\ Len(p) = 8 /\ p[1] = "key" /\ p[2] = "retry" /\ p[3] = "invoice"
      /\ p[4] = "check" /\ p[5] = "receipts" /\ p[6] = "adjustments" /\ p[7] = "number"
      /\ p[8] = "commit"
  BY ConfirmedPlan
<1>2. PICK e \in Nat : /\ e < 8 /\ Head(t.todo) = p[e + 1]
                       /\ \A y : Past(t, y) <=> \E k \in 1 .. e : p[k] = y
  BY <1>1, StageOf
<1> HIDE DEF p
<1> QED
  BY <1>1, <1>2 DEF Stage

LEMMA ConfirmStages ==
  ASSUME NEW t \in Transaction, FollowsPlan(t), t.todo # <<>>, t.req.op = "confirm"
  PROVE  \/ Stage(t, "candidate", {})
         \/ Stage(t, "invoice", {"candidate"})
         \/ Stage(t, "check", {"candidate", "invoice"})
         \/ Stage(t, "receipts", {"candidate", "invoice", "check"})
         \/ Stage(t, "adjustments", {"candidate", "invoice", "check", "receipts"})
         \/ Stage(t, "commit", {"candidate", "invoice", "check", "receipts", "adjustments"})
<1> DEFINE p == Plan(t.req)
<1>1. /\ Len(p) = 6 /\ p[1] = "candidate" /\ p[2] = "invoice" /\ p[3] = "check"
      /\ p[4] = "receipts" /\ p[5] = "adjustments" /\ p[6] = "commit"
  BY ConfirmPlan
<1>2. PICK e \in Nat : /\ e < 6 /\ Head(t.todo) = p[e + 1]
                       /\ \A y : Past(t, y) <=> \E k \in 1 .. e : p[k] = y
  BY <1>1, StageOf
<1> HIDE DEF p
<1> QED
  BY <1>1, <1>2 DEF Stage

LEMMA ReverseStages ==
  ASSUME NEW t \in Transaction, FollowsPlan(t), t.todo # <<>>,
         t.req.op \in {"reverse", "unadjust"}
  PROVE  \/ Stage(t, "candidate", {})
         \/ Stage(t, "invoice", {"candidate"})
         \/ Stage(t, "check", {"candidate", "invoice"})
         \/ Stage(t, "commit", {"candidate", "invoice", "check"})
<1> DEFINE p == Plan(t.req)
<1>1. /\ Len(p) = 4 /\ p[1] = "candidate" /\ p[2] = "invoice" /\ p[3] = "check"
      /\ p[4] = "commit"
  BY ReversePlan
<1>2. PICK e \in Nat : /\ e < 4 /\ Head(t.todo) = p[e + 1]
                       /\ \A y : Past(t, y) <=> \E k \in 1 .. e : p[k] = y
  BY <1>1, StageOf
<1> HIDE DEF p
<1> QED
  BY <1>1, <1>2 DEF Stage

LEMMA AdjustStages ==
  ASSUME NEW t \in Transaction, FollowsPlan(t), t.todo # <<>>, t.req.op = "adjust"
  PROVE  \/ Stage(t, "key", {})
         \/ Stage(t, "retry", {"key"})
         \/ Stage(t, "invoice", {"key", "retry"})
         \/ Stage(t, "check", {"key", "retry", "invoice"})
         \/ Stage(t, "receipts", {"key", "retry", "invoice", "check"})
         \/ Stage(t, "adjustments", {"key", "retry", "invoice", "check", "receipts"})
         \/ Stage(t, "commit", {"key", "retry", "invoice", "check", "receipts", "adjustments"})
<1> DEFINE p == Plan(t.req)
<1>1. /\ Len(p) = 7 /\ p[1] = "key" /\ p[2] = "retry" /\ p[3] = "invoice"
      /\ p[4] = "check" /\ p[5] = "receipts" /\ p[6] = "adjustments" /\ p[7] = "commit"
  BY AdjustPlan
<1>2. PICK e \in Nat : /\ e < 7 /\ Head(t.todo) = p[e + 1]
                       /\ \A y : Past(t, y) <=> \E k \in 1 .. e : p[k] = y
  BY <1>1, StageOf
<1> HIDE DEF p
<1> QED
  BY <1>1, <1>2 DEF Stage

LEMMA ReadStages ==
  ASSUME NEW t \in Transaction, FollowsPlan(t), t.todo # <<>>, t.req.op = "read"
  PROVE  \/ Stage(t, "share", {})
         \/ Stage(t, "receipts", {"share"})
         \/ Stage(t, "adjustments", {"share", "receipts"})
         \/ Stage(t, "balance", {"share", "receipts", "adjustments"})
<1> DEFINE p == Plan(t.req)
<1>1. /\ Len(p) = 4 /\ p[1] = "share" /\ p[2] = "receipts" /\ p[3] = "adjustments"
      /\ p[4] = "balance"
  BY ReadPlan
<1>2. PICK e \in Nat : /\ e < 4 /\ Head(t.todo) = p[e + 1]
                       /\ \A y : Past(t, y) <=> \E k \in 1 .. e : p[k] = y
  BY <1>1, StageOf
<1> HIDE DEF p
<1> QED
  BY <1>1, <1>2 DEF Stage

LEMMA RuleStages ==
  ASSUME NEW t \in Transaction, FollowsPlan(t), t.todo # <<>>, t.req.op = "rule"
  PROVE  Stage(t, "tax", {}) \/ Stage(t, "commit", {"tax"})
<1> DEFINE p == Plan(t.req)
<1>1. Len(p) = 2 /\ p[1] = "tax" /\ p[2] = "commit"
  BY RulePlan
<1>2. PICK e \in Nat : /\ e < 2 /\ Head(t.todo) = p[e + 1]
                       /\ \A y : Past(t, y) <=> \E k \in 1 .. e : p[k] = y
  BY <1>1, StageOf
<1> HIDE DEF p
<1> QED
  BY <1>1, <1>2 DEF Stage

\* What each statement can count on: whose statement it is, and what was done before it.
Ordered(t) ==
  LET op == t.req.op  step == Head(t.todo) IN
  /\ step = "key" => op \in {"receipt", "adjust"} /\ \A y : ~Past(t, y)
  /\ step = "retry" => op \in {"receipt", "adjust"} /\ Past(t, "key")
  /\ step = "candidate" => op \in {"confirm", "reverse", "unadjust"} /\ \A y : ~Past(t, y)
  /\ step = "invoice" =>
       /\ op \notin {"read", "rule"}
       /\ op \in {"confirm", "reverse", "unadjust"} => Past(t, "candidate")
       /\ \A y : Past(t, y) => y \in {"key", "retry", "candidate"}
  /\ step = "share" => op = "read" /\ \A y : ~Past(t, y)
  /\ step = "check" => op \notin {"read", "rule"} /\ Past(t, "invoice")
  /\ step \in {"receipts", "adjustments"} =>
       /\ op \in {"cancel", "receipt", "confirm", "adjust", "read"}
       /\ op # "read" => Past(t, "invoice")
       /\ op = "read" => Past(t, "share")
       /\ ~Past(t, "adjustments")
  /\ step = "adjustments" => Past(t, "receipts")
  /\ step = "tax" =>
       /\ op \in {"update", "issue", "rule"}
       /\ op \in {"update", "issue"} => Past(t, "invoice")
       /\ \A y : Past(t, y) => y \in {"invoice", "check"}
  /\ step = "number" =>
       /\ op \in {"issue", "receipt"} /\ Past(t, "invoice")
       /\ ~Past(t, "number")
  /\ step = "balance" => Past(t, "share") /\ Past(t, "receipts") /\ Past(t, "adjustments")

\* What is done was done after what it needs.
Founded(t) ==
  LET op == t.req.op IN
  /\ Past(t, "retry") => Past(t, "key") /\ op \in {"receipt", "adjust"}
  /\ Past(t, "candidate") => op \in {"confirm", "reverse", "unadjust"}
  /\ Past(t, "invoice") =>
       /\ op \notin {"read", "rule"}
       /\ op \in {"confirm", "reverse", "unadjust"} => Past(t, "candidate")
  /\ Past(t, "share") => op = "read"
  /\ Past(t, "check") => Past(t, "invoice")
  /\ Past(t, "receipts") => Past(t, "invoice") \/ Past(t, "share")
  /\ Past(t, "adjustments") => Past(t, "receipts")
  /\ Past(t, "tax") /\ op \in {"update", "issue"} => Past(t, "invoice")
  /\ Past(t, "number") => Past(t, "invoice") /\ op \in {"issue", "receipt"}

\* What is done when a request commits.
Complete(t) ==
  LET op == t.req.op IN
  Head(t.todo) = "commit" =>
    /\ op \in {"update", "issue", "cancel", "receipt", "confirm", "reverse", "unadjust",
               "adjust"} => Past(t, "invoice") /\ Past(t, "check")
    /\ op \in {"update", "issue"} => Past(t, "tax")
    /\ op \in {"issue", "receipt"} => Past(t, "number")
    /\ op \in {"receipt", "adjust"} => Past(t, "key") /\ Past(t, "retry")
    /\ op \in {"cancel", "confirm", "adjust"} => Past(t, "receipts") /\ Past(t, "adjustments")
    /\ op = "receipt" /\ t.req.status = "CONFIRMED" =>
         Past(t, "receipts") /\ Past(t, "adjustments")
    /\ op \in {"confirm", "reverse", "unadjust"} => Past(t, "candidate")
    /\ op = "rule" => Past(t, "tax")
    /\ op # "read"

\* A plan never takes, reads or checks what it has not prepared, and never takes a lock before one
\* of a lower rank.
LEMMA Order ==
  ASSUME NEW t \in Transaction, FollowsPlan(t), t.todo # <<>>
  PROVE  Ordered(t) /\ Founded(t) /\ Complete(t)
<1>1. CASE t.req.op = "update"
  BY <1>1, UpdateStages DEF Stage, Ordered, Founded, Complete
<1>2. CASE t.req.op = "issue"
  BY <1>2, IssueStages DEF Stage, Ordered, Founded, Complete
<1>3. CASE t.req.op = "cancel"
  BY <1>3, CancelStages DEF Stage, Ordered, Founded, Complete
<1>4. CASE t.req.op = "receipt" /\ t.req.status = "PENDING"
  BY <1>4, PendingStages DEF Stage, Ordered, Founded, Complete
<1>5. CASE t.req.op = "receipt" /\ t.req.status = "CONFIRMED"
  BY <1>5, ConfirmedStages DEF Stage, Ordered, Founded, Complete
<1>6. CASE t.req.op = "confirm"
  BY <1>6, ConfirmStages DEF Stage, Ordered, Founded, Complete
<1>7. CASE t.req.op \in {"reverse", "unadjust"}
  BY <1>7, ReverseStages DEF Stage, Ordered, Founded, Complete
<1>8. CASE t.req.op = "adjust"
  BY <1>8, AdjustStages DEF Stage, Ordered, Founded, Complete
<1>9. CASE t.req.op = "read"
  BY <1>9, ReadStages DEF Stage, Ordered, Founded, Complete
<1>10. CASE t.req.op = "rule"
  BY <1>10, RuleStages DEF Stage, Ordered, Founded, Complete
<1>11. t.req \in Requests
  BY DEF FollowsPlan
<1> QED
  BY <1>1, <1>2, <1>3, <1>4, <1>5, <1>6, <1>7, <1>8, <1>9, <1>10, <1>11, RequestFields DEF Kinds

\* Only a commit and the answer to a read end a plan.
LEMMA LastStep ==
  ASSUME NEW t \in Transaction, FollowsPlan(t), t.todo # <<>>,
         Head(t.todo) \notin {"commit", "balance"}
  PROVE  Tail(t.todo) # <<>>
<1>1. t.req \in Requests /\ Len(Plan(t.req)) \in Nat
      /\ Plan(t.req)[Len(Plan(t.req))] \in {"commit", "balance"}
  <2>1. t.req \in Requests
    BY DEF FollowsPlan
  <2> QED
    BY <2>1, PlanLength, RequestFields, UpdatePlan, IssuePlanSteps, CancelPlan, PendingPlan,
       ConfirmedPlan, ConfirmPlan, ReversePlan, AdjustPlan, ReadPlan, RulePlan, SMTT(30) DEF Kinds
<1>2. Executed(t) + 1 # Len(Plan(t.req))
  BY <1>1, Place
<1>3. t.todo \in Seq(Statements) /\ Len(t.todo) \in Nat
  BY DEF Transaction
<1>4. Executed(t) = Len(Plan(t.req)) - Len(t.todo)
  BY DEF Executed
<1>5. Len(t.todo) # 1
  <2>1. PICK a, b, e : a = Len(Plan(t.req)) /\ b = Len(t.todo) /\ e = Executed(t)
    OBVIOUS
  <2>2. a \in Nat /\ b \in Nat /\ e = a - b /\ e + 1 # a
    BY <1>1, <1>2, <1>3, <1>4, <2>1
  <2>3. b # 1
    BY <2>2
  <2> QED
    BY <2>1, <2>3
<1>6. Tail(t.todo) \in Seq(Statements) /\ Len(Tail(t.todo)) = Len(t.todo) - 1
  BY <1>3, HeadTailProperties
<1>7. PICK rest : rest = Tail(t.todo)
  OBVIOUS
<1>8. rest \in Seq(Statements) /\ Len(rest) # 0
  BY <1>3, <1>5, <1>6, <1>7
<1> QED
  BY <1>7, <1>8

\* A statement is done: the plan goes on after it.
LEMMA Advance ==
  ASSUME NEW t \in Transaction, FollowsPlan(t), t.todo # <<>>,
         Head(t.todo) \notin {"commit", "balance"},
         NEW n \in Transaction, n.req = t.req, n.todo = Tail(t.todo)
  PROVE  /\ n.todo # <<>> /\ FollowsPlan(n)
         /\ \A y : Past(n, y) <=> Past(t, y) \/ y = Head(t.todo)
<1> DEFINE p == Plan(t.req)  e == Executed(t)
<1>1. /\ t.todo \in Seq(Statements) /\ Len(t.todo) \in Nat /\ n.todo \in Seq(Statements)
      /\ Len(n.todo) = Len(t.todo) - 1 /\ Len(n.todo) \in Nat
      /\ \A k \in 1 .. Len(n.todo) : n.todo[k] = t.todo[k + 1]
  BY HeadTailProperties DEF Transaction
<1>2. n.todo # <<>>
  BY LastStep
<1>3. p = Plan(n.req) /\ Len(p) \in Nat /\ e \in Nat /\ Executed(n) = e + 1
      /\ Len(t.todo) <= Len(p) /\ t.req \in Requests
  <2>1. t.req \in Requests /\ Len(p) \in Nat /\ Len(t.todo) <= Len(p)
    BY PlanLength DEF FollowsPlan
  <2>2. e = Len(p) - Len(t.todo) /\ Executed(n) = Len(p) - Len(n.todo)
    BY DEF Executed
  <2> HIDE DEF p, e
  <2>3. e \in Nat /\ Executed(n) = e + 1
    BY <1>1, <2>1, <2>2
  <2> QED
    BY <2>1, <2>3 DEF p
<1>4. \A k \in 1 .. Len(t.todo) : t.todo[k] = p[e + k]
  BY DEF FollowsPlan
<1>5. \A k \in 1 .. Len(n.todo) : n.todo[k] = p[(e + 1) + k]
  <2> SUFFICES ASSUME NEW k \in 1 .. Len(n.todo) PROVE n.todo[k] = p[(e + 1) + k]
    OBVIOUS
  <2> HIDE DEF p, e
  <2>1. n.todo[k] = t.todo[k + 1] /\ k + 1 \in 1 .. Len(t.todo)
    BY <1>1
  <2>2. e + (k + 1) = (e + 1) + k
    BY <1>3
  <2> QED
    BY <1>4, <2>1, <2>2
<1>6. FollowsPlan(n)
  BY <1>1, <1>3, <1>5 DEF FollowsPlan
<1>7. Head(t.todo) = p[e + 1]
  BY Place
<1>8. \A y : Past(n, y) <=> \E k \in 1 .. e + 1 : p[k] = y
  BY <1>2, <1>3 DEF Past
<1>9. \A y : Past(t, y) <=> \E k \in 1 .. e : p[k] = y
  BY <1>3 DEF Past
<1> HIDE DEF p, e
<1>10. \A y : (\E k \in 1 .. e + 1 : p[k] = y) <=> (\E k \in 1 .. e : p[k] = y) \/ y = p[e + 1]
  BY <1>3
<1> QED
  BY <1>2, <1>6, <1>7, <1>8, <1>9, <1>10

-----------------------------------------------------------------------------
(* What the steps of others leave as it was *)

\* A step that changes rows only under the locks of L: new rows take their place freely, but
\* a new settlement needs the lock of its invoice and of its key.
Kept(old, new, L) ==
  \/ new = old
  \/ /\ new # NoRow /\ <<"invoice", new.invoice>> \in L
     /\ IF old = NoRow THEN <<"key", new.key>> \in L
                       ELSE new.invoice = old.invoice /\ new.key = old.key
ChangesUnder(L) ==
  /\ \A i \in Invoices :
       invoices'[i] = invoices[i] \/ invoices[i] = NoRow \/ <<"invoice", i>> \in L
  /\ \A r \in Receipts : Kept(receipts[r], receipts'[r], L)
  /\ \A x \in Adjustments : Kept(adjustments[x], adjustments'[x], L)
  /\ \A c \in Series : counters'[c] = counters[c] \/ <<"counter", c>> \in L
  /\ rate' = rate \/ <<"tax">> \in L
  /\ \A u \in Users, i \in Invoices : seen[u][i] # NoRow =>
       seen'[u][i] # NoRow /\ seen[u][i].version <= seen'[u][i].version

Apart(a, b) == Exclusive(a, b) /\ Exclusive(b, a)

\* A lock is told by its first element.
LEMMA LockNames ==
  ASSUME NEW a, NEW b
  PROVE  /\ <<"key", a>>[1] = "key" /\ <<"invoice", a>>[1] = "invoice"
         /\ <<"share", a>>[1] = "share" /\ <<"counter", a>>[1] = "counter"
         /\ <<"tax">>[1] = "tax"
  OBVIOUS

\* Two transactions do not hold one lock, and nobody writes what another one shares.
LEMMA HeldApart ==
  ASSUME NEW a, NEW b, Apart(a, b)
  PROVE  /\ \A k : <<"key", k>> \in a => <<"key", k>> \notin b
         /\ \A c : <<"counter", c>> \in a => <<"counter", c>> \notin b
         /\ <<"tax">> \in a => <<"tax">> \notin b
         /\ \A i \in Invoices :
              <<"invoice", i>> \in a \/ <<"share", i>> \in a => <<"invoice", i>> \notin b
  BY LockNames DEF Apart, Exclusive

\* The invoice of a transaction is known before it is locked.
LEMMA InvoiceNamed ==
  ASSUME TypeOK, NEW t \in Transaction, FollowsPlan(t), InvoiceKnown(t), t.todo # <<>>,
         t.req.op # "rule", t.req.op \in {"confirm", "reverse", "unadjust"} => Past(t, "candidate")
  PROVE  t.invoice \in Invoices
<1>1. t.req \in Requests
  BY DEF FollowsPlan
<1>2. CASE t.req.op \in {"confirm", "reverse"}
  <2>1. NamedRow(t) = receipts[t.req.receipt] /\ t.req.receipt \in Receipts
    BY <1>1, <1>2, RequestFields DEF NamedRow
  <2>2. NamedRow(t) # NoRow /\ t.invoice = NamedRow(t).invoice
    BY <1>2 DEF InvoiceKnown
  <2> QED
    BY <2>1, <2>2 DEF TypeOK, ReceiptRow
<1>3. CASE t.req.op = "unadjust"
  <2>1. NamedRow(t) = adjustments[t.req.adjustment] /\ t.req.adjustment \in Adjustments
    BY <1>1, <1>3, RequestFields DEF NamedRow
  <2>2. NamedRow(t) # NoRow /\ t.invoice = NamedRow(t).invoice
    BY <1>3 DEF InvoiceKnown
  <2> QED
    BY <2>1, <2>2 DEF TypeOK, AdjustmentRow
<1>4. CASE t.req.op \notin {"confirm", "reverse", "unadjust"}
  <2>1. t.invoice = t.req.invoice
    BY <1>4 DEF InvoiceKnown
  <2>2. t.req.op \in {"update", "issue", "cancel", "read", "receipt", "adjust"}
    BY <1>1, <1>4, RequestFields DEF Kinds
  <2> QED
    BY <1>1, <2>1, <2>2, RequestFields
<1> QED
  BY <1>2, <1>3, <1>4

\* The settlements of an invoice that others do not write stay as they are.
LEMMA SettlementsStay ==
  ASSUME NEW L, ChangesUnder(L), NEW i \in Invoices, <<"invoice", i>> \notin L
  PROVE  /\ invoices[i] # NoRow => invoices'[i] = invoices[i]
         /\ \A r \in Receipts : receipts[r] # NoRow /\ receipts[r].invoice = i =>
              receipts'[r] = receipts[r]
         /\ \A x \in Adjustments : adjustments[x] # NoRow /\ adjustments[x].invoice = i =>
              adjustments'[x] = adjustments[x]
         /\ Received(i)' = Received(i) /\ Adjusted(i)' = Adjusted(i) /\ Open(i)' = Open(i)
<1>1. \A r \in Receipts :
        \/ receipts'[r] = receipts[r]
        \/ receipts'[r].invoice # i /\ (receipts[r] = NoRow \/ receipts[r].invoice # i)
  BY DEF ChangesUnder, Kept
<1>2. \A x \in Adjustments :
        \/ adjustments'[x] = adjustments[x]
        \/ adjustments'[x].invoice # i /\ (adjustments[x] = NoRow \/ adjustments[x].invoice # i)
  BY DEF ChangesUnder, Kept
<1>3. NoRow.status = "NONE"
  BY DEF NoRow
<1>4. Confirmed(i)' = Confirmed(i) /\ \A r \in Confirmed(i) : receipts'[r] = receipts[r]
  BY <1>1, <1>3 DEF Confirmed
<1>5. Open(i)' = Open(i)
  BY <1>1, <1>3 DEF Open, Reversible
<1>6. /\ ActiveAdjustments(i)' = ActiveAdjustments(i)
      /\ \A x \in ActiveAdjustments(i) : adjustments'[x] = adjustments[x]
  BY <1>2, <1>3 DEF ActiveAdjustments
<1>7. Received(i)' = Received(i)
  BY <1>4, SumOfSameRows DEF Received
<1>8. Adjusted(i)' = Adjusted(i)
  BY <1>6, SumOfSameRows DEF Adjusted
<1> QED
  BY <1>1, <1>2, <1>5, <1>7, <1>8 DEF ChangesUnder

\* The row of a transaction, locked or shared, is one of the table.
LEMMA RowHeld ==
  ASSUME TypeOK, NEW t \in Transaction, FollowsPlan(t), InvoiceKnown(t), InvoiceHeld(t),
         Past(t, "invoice") \/ Past(t, "share")
  PROVE  /\ t.invoice \in Invoices /\ t.row = invoices[t.invoice] /\ t.row # NoRow
         /\ t.row \in InvoiceRow
         /\ <<"invoice", t.invoice>> \in t.locks \/ <<"share", t.invoice>> \in t.locks
<1>1. t.invoice \in Invoices
  <2>1. t.todo # <<>> /\ Founded(t)
    BY Order DEF Past
  <2>2. /\ t.req.op # "rule"
        /\ t.req.op \in {"confirm", "reverse", "unadjust"} => Past(t, "candidate")
    BY <2>1 DEF Founded
  <2> QED
    BY <2>1, <2>2, InvoiceNamed
<1>2. t.row = invoices[t.invoice] /\ t.row # NoRow
  BY DEF InvoiceHeld
<1>3. t.row \in InvoiceRow
  BY <1>1, <1>2 DEF TypeOK
<1> QED
  BY <1>1, <1>2, <1>3 DEF InvoiceHeld

\* The key that a transaction has locked stays as free as it was.
LEMMA KeyUndisturbed ==
  ASSUME NEW t \in Transaction, FollowsPlan(t), KeyHeld(t), NEW L, ChangesUnder(L),
         Apart(t.locks, L)
  PROVE  KeyHeld(t)'
<1> SUFFICES ASSUME Past(t, "retry") PROVE KeyFree(t)'
  BY DEF KeyHeld
<1>1. t.todo # <<>> /\ Past(t, "key") /\ t.req.op \in {"receipt", "adjust"}
  BY Order DEF Past, Founded
<1>2. <<"key", t.req.key>> \notin L /\ KeyFree(t)
  BY <1>1, HeldApart DEF KeyHeld
<1>3. CASE t.req.op = "receipt"
  <2>1. \A r \in Receipts : receipts[r] # NoRow => receipts[r].key # t.req.key
    BY <1>2, <1>3 DEF KeyFree, ReceiptKeyFree
  <2>2. \A r \in Receipts : receipts'[r] # NoRow => receipts'[r].key # t.req.key
    BY <1>2, <2>1 DEF ChangesUnder, Kept
  <2> QED
    BY <1>3, <2>2 DEF KeyFree, ReceiptKeyFree
<1>4. CASE t.req.op = "adjust"
  <2>1. \A x \in Adjustments : adjustments[x] # NoRow => adjustments[x].key # t.req.key
    BY <1>2, <1>4 DEF KeyFree, AdjustmentKeyFree
  <2>2. \A x \in Adjustments : adjustments'[x] # NoRow => adjustments'[x].key # t.req.key
    BY <1>2, <2>1 DEF ChangesUnder, Kept
  <2> QED
    BY <1>4, <2>2 DEF KeyFree, AdjustmentKeyFree
<1> QED
  BY <1>1, <1>3, <1>4

LEMMA NameUndisturbed ==
  ASSUME NEW t \in Transaction, FollowsPlan(t), InvoiceKnown(t), NEW L, ChangesUnder(L)
  PROVE  InvoiceKnown(t)'
<1>1. CASE t.todo = <<>> \/ t.req.op \notin {"confirm", "reverse", "unadjust"}
  BY <1>1 DEF InvoiceKnown
<1>2. CASE t.todo # <<>> /\ t.req.op \in {"confirm", "reverse", "unadjust"}
  <2>1. t.req \in Requests
    BY <1>2 DEF FollowsPlan
  <2>2. NamedRow(t) # NoRow => NamedRow(t)' # NoRow /\ NamedRow(t)'.invoice = NamedRow(t).invoice
    <3>1. CASE t.req.op = "unadjust"
      BY <2>1, <3>1, RequestFields DEF NamedRow, ChangesUnder, Kept
    <3>2. CASE t.req.op \in {"confirm", "reverse"}
      BY <2>1, <3>2, RequestFields DEF NamedRow, ChangesUnder, Kept
    <3> QED
      BY <1>2, <3>1, <3>2
  <2> QED
    BY <1>2, <2>2 DEF InvoiceKnown
<1> QED
  BY <1>1, <1>2

\* The invoice it has locked is not written by others.
LEMMA RowUndisturbed ==
  ASSUME TypeOK, NEW t \in Transaction, FollowsPlan(t), InvoiceKnown(t), InvoiceHeld(t),
         NEW L, ChangesUnder(L), Apart(t.locks, L)
  PROVE  /\ InvoiceHeld(t)'
         /\ Past(t, "invoice") \/ Past(t, "share") => <<"invoice", t.invoice>> \notin L
<1>1. Past(t, "invoice") \/ Past(t, "share") =>
        /\ <<"invoice", t.invoice>> \notin L
        /\ t.invoice \in Invoices /\ t.row = invoices[t.invoice] /\ t.row # NoRow
  BY RowHeld, HeldApart
<1>2. Past(t, "invoice") \/ Past(t, "share") => invoices'[t.invoice] = invoices[t.invoice]
  BY <1>1 DEF ChangesUnder
<1> QED
  BY <1>1, <1>2 DEF InvoiceHeld

LEMMA VersionUndisturbed ==
  ASSUME TypeOK, TypeOK', NEW t \in Transaction, FollowsPlan(t), VersionRead(t),
         NEW L, ChangesUnder(L)
  PROVE  VersionRead(t)'
<1> SUFFICES ASSUME t.todo # <<>>, t.req.op \in {"update", "issue"}
             PROVE  /\ seen'[t.req.user][t.req.invoice] # NoRow
                    /\ t.row.version <= seen'[t.req.user][t.req.invoice].version
  BY DEF VersionRead
<1>1. PICK u, i : u = t.req.user /\ i = t.req.invoice
  OBVIOUS
<1>2. u \in Users /\ i \in Invoices
  BY <1>1, RequestFields DEF FollowsPlan
<1>3. /\ seen[u][i] # NoRow /\ t.row \in InvoiceRow
      /\ t.row.version <= seen[u][i].version
  BY <1>1 DEF VersionRead
<1>4. seen'[u][i] # NoRow /\ seen[u][i].version <= seen'[u][i].version
  BY <1>2, <1>3 DEF ChangesUnder
<1>5. seen[u][i] \in InvoiceRow /\ seen'[u][i] \in InvoiceRow
  BY <1>2, <1>3, <1>4 DEF TypeOK
<1>6. t.row.version \in Nat /\ seen[u][i].version \in Nat /\ seen'[u][i].version \in Nat
  BY <1>3, <1>5 DEF InvoiceRow
<1> QED
  BY <1>1, <1>3, <1>4, <1>6

\* The row that a confirmation or a reversal names is not written by others while its invoice
\* is locked.
LEMMA NamedRowStays ==
  ASSUME TypeOK, NEW t \in Transaction, FollowsPlan(t), InvoiceKnown(t), InvoiceHeld(t),
         Past(t, "invoice"), NEW L, ChangesUnder(L), Apart(t.locks, L)
  PROVE  /\ t.req.op \in {"confirm", "reverse"} =>
              receipts'[t.req.receipt] = receipts[t.req.receipt]
         /\ t.req.op = "unadjust" =>
              adjustments'[t.req.adjustment] = adjustments[t.req.adjustment]
<1>1. t.todo # <<>> /\ t.req \in Requests /\ Founded(t)
  BY Order DEF Past, FollowsPlan
<1>2. t.invoice \in Invoices /\ <<"invoice", t.invoice>> \notin L
  BY RowUndisturbed, RowHeld
<1>3. t.req.op \in {"confirm", "reverse", "unadjust"} =>
        NamedRow(t) # NoRow /\ NamedRow(t).invoice = t.invoice
  BY <1>1 DEF InvoiceKnown, Founded
<1>4. ASSUME t.req.op \in {"confirm", "reverse"}
      PROVE  receipts'[t.req.receipt] = receipts[t.req.receipt]
  <2>1. t.req.receipt \in Receipts /\ NamedRow(t) = receipts[t.req.receipt]
    BY <1>1, <1>4, RequestFields DEF NamedRow
  <2> QED
    BY <1>2, <1>3, <1>4, <2>1, SettlementsStay
<1>5. ASSUME t.req.op = "unadjust"
      PROVE  adjustments'[t.req.adjustment] = adjustments[t.req.adjustment]
  <2>1. t.req.adjustment \in Adjustments /\ NamedRow(t) = adjustments[t.req.adjustment]
    BY <1>1, <1>5, RequestFields DEF NamedRow
  <2> QED
    BY <1>2, <1>3, <1>5, <2>1, SettlementsStay
<1> QED
  BY <1>4, <1>5

LEMMA AcceptanceUndisturbed ==
  ASSUME TypeOK, NEW t \in Transaction, FollowsPlan(t), InvoiceKnown(t), InvoiceHeld(t),
         StillAccepted(t), NEW L, ChangesUnder(L), Apart(t.locks, L)
  PROVE  StillAccepted(t)'
<1> SUFFICES ASSUME Past(t, "check") PROVE AcceptedBy(t)'
  BY DEF StillAccepted
<1>1. t.todo # <<>> /\ Past(t, "invoice") /\ AcceptedBy(t)
  BY Order DEF Past, Founded, StillAccepted
<1>2. CASE t.req.op \in {"confirm", "reverse", "unadjust"}
  BY <1>1, <1>2, NamedRowStays DEF AcceptedBy, Reversible
<1>3. CASE t.req.op \in {"update", "issue", "cancel", "receipt", "adjust"}
  BY <1>1, <1>3 DEF AcceptedBy
<1>4. t.req.op \in Kinds /\ t.req.op \notin {"read", "rule"}
  BY <1>1, Order, RequestFields DEF FollowsPlan, Founded
<1> QED
  BY <1>2, <1>3, <1>4 DEF Kinds

\* Nor are the settlements of that invoice: every handler locks the invoice first.
LEMMA SettlementUndisturbed ==
  ASSUME TypeOK, NEW t \in Transaction, FollowsPlan(t), InvoiceKnown(t), InvoiceHeld(t),
         SettlementRead(t), NEW L, ChangesUnder(L), Apart(t.locks, L)
  PROVE  SettlementRead(t)'
<1> SUFFICES ASSUME Past(t, "receipts") \/ Past(t, "adjustments")
             PROVE  SettlementRead(t)'
  BY DEF SettlementRead
<1>1. t.todo # <<>> /\ Founded(t)
  BY Order DEF Past
<1>2. Past(t, "invoice") \/ Past(t, "share")
  BY <1>1 DEF Founded
<1>3. t.invoice \in Invoices /\ <<"invoice", t.invoice>> \notin L
  BY <1>2, RowUndisturbed, RowHeld
<1>4. /\ Received(t.invoice)' = Received(t.invoice) /\ Adjusted(t.invoice)' = Adjusted(t.invoice)
      /\ Open(t.invoice)' = Open(t.invoice)
  BY <1>3, SettlementsStay
<1>5. Covered(t) => Covered(t)'
  <2>1. t.req.op = "confirm" => Past(t, "invoice")
    BY <1>1, <1>2 DEF Founded
  <2>2. RequestedBy(t)' = RequestedBy(t)
    BY <2>1, NamedRowStays DEF RequestedBy
  <2> QED
    BY <2>2 DEF Covered
<1> QED
  BY <1>4, <1>5 DEF SettlementRead

LEMMA TaxUndisturbed ==
  ASSUME NEW t \in Transaction, TaxHeld(t), NEW L, ChangesUnder(L), Apart(t.locks, L)
  PROVE  TaxHeld(t)'
<1>1. <<"tax">> \in t.locks => rate' = rate
  BY HeldApart DEF ChangesUnder
<1> QED
  BY <1>1 DEF TaxHeld

\* The counter a transaction counts with is one that exists.
LEMMA CounterExists ==
  ASSUME TypeOK, NEW t \in Transaction, FollowsPlan(t), InvoiceKnown(t), InvoiceHeld(t),
         Past(t, "invoice"), t.req.op \in {"issue", "receipt"}
  PROVE  Counter(t) \in Series
<1>1. t.row \in InvoiceRow /\ t.req \in Requests
  BY RowHeld DEF Past, FollowsPlan
<1>2. t.row.company \in Companies /\ t.row.date \in Dates
  BY <1>1 DEF InvoiceRow
<1>3. t.req.op = "receipt" => t.req.date \in Dates
  BY <1>1, RequestFields
<1> QED
  BY <1>2, <1>3, SeriesExists DEF Counter

\* Nobody else moves the counter it has locked.
LEMMA NumberUndisturbed ==
  ASSUME TypeOK, NEW t \in Transaction, FollowsPlan(t), InvoiceKnown(t), InvoiceHeld(t),
         NumberHeld(t), NEW L, ChangesUnder(L), Apart(t.locks, L)
  PROVE  NumberHeld(t)'
<1> SUFFICES ASSUME Past(t, "number") PROVE counters'[Counter(t)] = counters[Counter(t)]
  BY DEF NumberHeld, Counter
<1>1. t.todo # <<>> /\ Past(t, "invoice") /\ t.req.op \in {"issue", "receipt"}
  BY Order DEF Past, Founded
<1>2. Counter(t) \in Series /\ <<"counter", Counter(t)>> \notin L
  BY <1>1, CounterExists, HeldApart DEF NumberHeld
<1> QED
  BY <1>2 DEF ChangesUnder

\* What a transaction has read stays so, whatever others commit under the locks they hold.
LEMMA Undisturbed ==
  ASSUME TypeOK, TypeOK', NEW t \in Transaction, FollowsPlan(t), Holds(t),
         NEW L, ChangesUnder(L), Apart(t.locks, L)
  PROVE  Holds(t)'
<1>1. /\ KeyHeld(t) /\ InvoiceKnown(t) /\ InvoiceHeld(t) /\ VersionRead(t) /\ StillAccepted(t)
      /\ SettlementRead(t) /\ TaxHeld(t) /\ NumberHeld(t)
  BY DEF Holds
<1>2. KeyHeld(t)' /\ InvoiceKnown(t)' /\ InvoiceHeld(t)' /\ VersionRead(t)'
  BY <1>1, KeyUndisturbed, NameUndisturbed, RowUndisturbed, VersionUndisturbed
<1>3. StillAccepted(t)' /\ SettlementRead(t)' /\ TaxHeld(t)' /\ NumberHeld(t)'
  BY <1>1, AcceptanceUndisturbed, SettlementUndisturbed, TaxUndisturbed, NumberUndisturbed
<1> QED
  BY <1>2, <1>3 DEF Holds

-----------------------------------------------------------------------------
(* What a statement does to its own transaction *)

\* No transaction runs in the session.
LEMMA IdleHolds ==
  /\ Idle \in Transaction /\ Idle.locks = {} /\ FollowsPlan(Idle) /\ LocksAreTaken(Idle)
  /\ Holds(Idle) /\ Holds(Idle)'
<1>1. Idle.todo = <<>> /\ Idle.locks = {} /\ Idle \in Transaction
  BY DEF Idle, Transaction
<1>2. \A y : ~Past(Idle, y)
  BY <1>1 DEF Past
<1>3. FollowsPlan(Idle) /\ LocksAreTaken(Idle)
  BY <1>1 DEF FollowsPlan, LocksAreTaken
<1>4. /\ KeyHeld(Idle) /\ InvoiceKnown(Idle) /\ InvoiceHeld(Idle) /\ VersionRead(Idle)
      /\ StillAccepted(Idle) /\ SettlementRead(Idle) /\ TaxHeld(Idle) /\ NumberHeld(Idle)
  BY <1>1, <1>2 DEF KeyHeld, InvoiceKnown, InvoiceHeld, VersionRead, StillAccepted,
     SettlementRead, TaxHeld, NumberHeld
<1>5. /\ KeyHeld(Idle)' /\ InvoiceKnown(Idle)' /\ InvoiceHeld(Idle)' /\ VersionRead(Idle)'
      /\ StillAccepted(Idle)' /\ SettlementRead(Idle)' /\ TaxHeld(Idle)' /\ NumberHeld(Idle)'
  BY <1>1, <1>2 DEF KeyHeld, InvoiceKnown, InvoiceHeld, VersionRead, StillAccepted,
     SettlementRead, TaxHeld, NumberHeld
<1> QED
  BY <1>1, <1>3, <1>4, <1>5 DEF Holds

\* The transaction after a statement: it has the same request, and the locks it had.
After(t, n) ==
  /\ n \in Transaction /\ n.req = t.req /\ n.todo = Tail(t.todo) /\ t.locks \subseteq n.locks

LEMMA DoneIs ==
  ASSUME NEW t \in Transaction, t.todo # <<>>
  PROVE  /\ Done(t) \in Transaction /\ Done(t).todo = Tail(t.todo) /\ Done(t).req = t.req
         /\ Done(t).invoice = t.invoice /\ Done(t).row = t.row /\ Done(t).rate = t.rate
         /\ Done(t).received = t.received /\ Done(t).adjusted = t.adjusted
         /\ Done(t).number = t.number /\ Done(t).locks = t.locks
<1>1. Tail(t.todo) \in Seq(Statements)
  BY HeadTailProperties DEF Transaction
<1> QED
  BY <1>1 DEF Done, Transaction


\* What was read before the statement is still there after it.
LEMMA Carried ==
  ASSUME NEW t \in Transaction, FollowsPlan(t), Holds(t), t.todo # <<>>,
         Head(t.todo) \notin {"commit", "balance"}, NEW n, After(t, n)
  PROVE  /\ Head(t.todo) \notin {"key", "retry"} => KeyHeld(n)
         /\ n.invoice = t.invoice /\ Head(t.todo) # "candidate" => InvoiceKnown(n)
         /\ n.invoice = t.invoice /\ n.row = t.row /\ Head(t.todo) \notin {"invoice", "share"}
              => InvoiceHeld(n)
         /\ n.row = t.row => VersionRead(n)
         /\ n.row = t.row /\ Head(t.todo) # "check" => StillAccepted(n)
         /\ (/\ n.invoice = t.invoice /\ n.row = t.row
             /\ n.received = t.received /\ n.adjusted = t.adjusted
             /\ Head(t.todo) \notin {"receipts", "adjustments"})
              => SettlementRead(n)
         /\ n.row = t.row /\ n.rate = t.rate /\ Head(t.todo) # "tax" => TaxHeld(n)
         /\ n.row = t.row /\ n.number = t.number /\ Head(t.todo) # "number" => NumberHeld(n)
<1>1. /\ n \in Transaction /\ n.req = t.req /\ t.locks \subseteq n.locks
      /\ n.todo # <<>> /\ \A y : Past(n, y) <=> Past(t, y) \/ y = Head(t.todo)
  BY Advance DEF After
<1>2. Head(t.todo) \notin {"key", "retry"} => KeyHeld(n)
  BY <1>1 DEF Holds, KeyHeld, KeyFree
<1>3. n.invoice = t.invoice /\ Head(t.todo) # "candidate" => InvoiceKnown(n)
  BY <1>1 DEF Holds, InvoiceKnown, NamedRow
<1>4. n.invoice = t.invoice /\ n.row = t.row /\ Head(t.todo) \notin {"invoice", "share"}
        => InvoiceHeld(n)
  BY <1>1 DEF Holds, InvoiceHeld
<1>5. n.row = t.row => VersionRead(n)
  BY <1>1 DEF Holds, VersionRead
<1>6. n.row = t.row /\ Head(t.todo) # "check" => StillAccepted(n)
  <2>1. n.row = t.row => (AcceptedBy(n) <=> AcceptedBy(t))
    BY <1>1 DEF AcceptedBy
  <2> QED
    BY <1>1, <2>1 DEF Holds, StillAccepted
<1>7. (/\ n.invoice = t.invoice /\ n.row = t.row
       /\ n.received = t.received /\ n.adjusted = t.adjusted
       /\ Head(t.todo) \notin {"receipts", "adjustments"})
        => SettlementRead(n)
  <2> SUFFICES ASSUME n.invoice = t.invoice, n.row = t.row, n.received = t.received,
                      n.adjusted = t.adjusted, Head(t.todo) \notin {"receipts", "adjustments"}
               PROVE  SettlementRead(n)
    OBVIOUS
  <2>1. Covered(t) => Covered(n)
    BY <1>1 DEF Covered, RequestedBy
  <2> QED
    BY <1>1, <2>1 DEF Holds, SettlementRead
<1>8. n.row = t.row /\ n.rate = t.rate /\ Head(t.todo) # "tax" => TaxHeld(n)
  BY <1>1 DEF Holds, TaxHeld
<1>9. n.row = t.row /\ n.number = t.number /\ Head(t.todo) # "number" => NumberHeld(n)
  BY <1>1 DEF Holds, NumberHeld, Counter
<1> QED
  BY <1>2, <1>3, <1>4, <1>5, <1>6, <1>7, <1>8, <1>9

\* The locks it takes are those of its statement.
LEMMA LocksCarried ==
  ASSUME NEW t \in Transaction, FollowsPlan(t), LocksAreTaken(t), t.todo # <<>>,
         Head(t.todo) \notin {"commit", "balance"}, NEW n, After(t, n),
         \A lock \in n.locks \ t.locks : LockStep(lock) = Head(t.todo)
  PROVE  FollowsPlan(n) /\ LocksAreTaken(n)
<1>1. FollowsPlan(n) /\ \A y : Past(n, y) <=> Past(t, y) \/ y = Head(t.todo)
  BY Advance DEF After
<1> QED
  BY <1>1 DEF LocksAreTaken

\* The row that is locked, or shared, is the one of today.
LEMMA InvoiceStatement ==
  ASSUME TypeOK, NEW t \in Transaction, FollowsPlan(t), Holds(t), t.todo # <<>>,
         NEW mode \in {"invoice", "share"}, Head(t.todo) = mode, NEW n, After(t, n),
         n.invoice = t.invoice, n.row = invoices[t.invoice], n.row # NoRow,
         <<mode, t.invoice>> \in n.locks,
         t.req.op \in {"update", "issue"} => n.row \in InvoiceRow /\ n.row.version = t.row.version
  PROVE  Holds(n)
<1>1. /\ n.req = t.req /\ \A y : Past(n, y) <=> Past(t, y) \/ y = mode
      /\ n.todo # <<>>
  BY Advance DEF After
<1>2. \A y : Past(t, y) => y \in {"key", "retry", "candidate"}
  BY Order DEF Ordered
<1>3. KeyHeld(n) /\ InvoiceKnown(n)
  BY Carried
<1>4. InvoiceHeld(n)
  BY <1>1, <1>2 DEF InvoiceHeld
<1>5. VersionRead(n)
  BY <1>1 DEF Holds, VersionRead
<1>6. StillAccepted(n) /\ SettlementRead(n) /\ TaxHeld(n) /\ NumberHeld(n)
  BY <1>1, <1>2 DEF StillAccepted, SettlementRead, TaxHeld, NumberHeld
<1> QED
  BY <1>3, <1>4, <1>5, <1>6 DEF Holds

LEMMA CandidateStatement ==
  ASSUME NEW t \in Transaction, FollowsPlan(t), Holds(t), t.todo # <<>>,
         Head(t.todo) = "candidate", NEW n, After(t, n),
         NamedRow(t) # NoRow, n.invoice = NamedRow(t).invoice
  PROVE  Holds(n)
<1>1. /\ n.req = t.req /\ \A y : Past(n, y) <=> Past(t, y) \/ y = "candidate"
      /\ n.todo # <<>>
  BY Advance DEF After
<1>2. t.req.op \in {"confirm", "reverse", "unadjust"} /\ \A y : ~Past(t, y)
  BY Order DEF Ordered
<1>3. InvoiceKnown(n)
  BY <1>1, <1>2 DEF InvoiceKnown, NamedRow
<1>4. KeyHeld(n) /\ InvoiceHeld(n) /\ VersionRead(n) /\ StillAccepted(n) /\ SettlementRead(n)
      /\ TaxHeld(n) /\ NumberHeld(n)
  BY <1>1, <1>2 DEF KeyHeld, InvoiceHeld, VersionRead, StillAccepted, SettlementRead, TaxHeld,
     NumberHeld
<1> QED
  BY <1>3, <1>4 DEF Holds

\* The fields but f are as they were.
SameRow(t, n) == n.invoice = t.invoice /\ n.row = t.row

LEMMA KeyStatement ==
  ASSUME NEW t \in Transaction, FollowsPlan(t), Holds(t), t.todo # <<>>,
         Head(t.todo) \in {"key", "retry"}, NEW n, After(t, n), SameRow(t, n),
         n.received = t.received, n.adjusted = t.adjusted, n.rate = t.rate,
         n.number = t.number,
         Head(t.todo) = "key" => <<"key", t.req.key>> \in n.locks,
         Head(t.todo) = "retry" => KeyFree(t)
  PROVE  Holds(n)
<1>1. n.req = t.req /\ \A y : Past(n, y) <=> Past(t, y) \/ y = Head(t.todo)
  BY Advance DEF After
<1>2. Head(t.todo) = "key" => ~Past(t, "retry")
  BY Order DEF Ordered
<1>3. KeyHeld(n)
  BY <1>1, <1>2 DEF KeyHeld, KeyFree, Holds, After
<1>4. InvoiceKnown(n) /\ InvoiceHeld(n) /\ VersionRead(n) /\ StillAccepted(n) /\ SettlementRead(n)
      /\ TaxHeld(n) /\ NumberHeld(n)
  BY Carried DEF SameRow
<1> QED
  BY <1>3, <1>4 DEF Holds

LEMMA CheckStatement ==
  ASSUME NEW t \in Transaction, FollowsPlan(t), Holds(t), t.todo # <<>>,
         Head(t.todo) = "check", NEW n, After(t, n), SameRow(t, n),
         n.received = t.received, n.adjusted = t.adjusted, n.rate = t.rate,
         n.number = t.number, AcceptedBy(t)
  PROVE  Holds(n)
<1>1. n.req = t.req /\ n.row = t.row
  BY DEF After, SameRow
<1>2. StillAccepted(n)
  BY <1>1 DEF StillAccepted, AcceptedBy
<1>3. KeyHeld(n) /\ InvoiceKnown(n) /\ InvoiceHeld(n) /\ VersionRead(n) /\ SettlementRead(n)
      /\ TaxHeld(n) /\ NumberHeld(n)
  BY Carried DEF SameRow
<1> QED
  BY <1>2, <1>3 DEF Holds

LEMMA ReceiptsStatement ==
  ASSUME NEW t \in Transaction, FollowsPlan(t), Holds(t), t.todo # <<>>,
         Head(t.todo) = "receipts", NEW n, After(t, n), SameRow(t, n),
         n.rate = t.rate, n.number = t.number,
         n.received = IF t.req.op = "cancel" THEN Cardinality(Open(t.invoice))
                                             ELSE Received(t.invoice)
  PROVE  Holds(n)
<1>1. /\ n.req = t.req /\ n.invoice = t.invoice
      /\ \A y : Past(n, y) <=> Past(t, y) \/ y = "receipts"
  BY Advance DEF After, SameRow
<1>2. ~Past(t, "adjustments")
  BY Order DEF Ordered
<1>3. SettlementRead(n)
  BY <1>1, <1>2 DEF SettlementRead
<1>4. KeyHeld(n) /\ InvoiceKnown(n) /\ InvoiceHeld(n) /\ VersionRead(n) /\ StillAccepted(n)
      /\ TaxHeld(n) /\ NumberHeld(n)
  BY Carried DEF SameRow
<1> QED
  BY <1>3, <1>4 DEF Holds

LEMMA AdjustmentsStatement ==
  ASSUME NEW t \in Transaction, FollowsPlan(t), Holds(t), t.todo # <<>>,
         Head(t.todo) = "adjustments", NEW n, After(t, n), SameRow(t, n),
         n.received = t.received, n.rate = t.rate, n.number = t.number,
         n.adjusted = Adjusted(t.invoice), Covered(n)
  PROVE  Holds(n)
<1>1. /\ n.req = t.req /\ n.invoice = t.invoice
      /\ \A y : Past(n, y) <=> Past(t, y) \/ y = "adjustments"
  BY Advance DEF After, SameRow
<1>2. Past(t, "receipts")
  BY Order DEF Ordered
<1>3. SettlementRead(n)
  BY <1>1, <1>2 DEF SettlementRead, Holds
<1>4. KeyHeld(n) /\ InvoiceKnown(n) /\ InvoiceHeld(n) /\ VersionRead(n) /\ StillAccepted(n)
      /\ TaxHeld(n) /\ NumberHeld(n)
  BY Carried DEF SameRow
<1> QED
  BY <1>3, <1>4 DEF Holds

LEMMA TaxStatement ==
  ASSUME NEW t \in Transaction, FollowsPlan(t), Holds(t), t.todo # <<>>,
         Head(t.todo) = "tax", NEW n, After(t, n), SameRow(t, n),
         n.received = t.received, n.adjusted = t.adjusted, n.number = t.number,
         <<"tax">> \in n.locks, n.rate = rate,
         t.req.op = "issue" => t.row.rate = rate,
         t.req.op = "update" => GrandTotal(t.req.amount, rate) <= MaxMinor
  PROVE  Holds(n)
<1>1. n.req = t.req /\ n.row = t.row
  BY DEF After, SameRow
<1>2. TaxHeld(n)
  BY <1>1 DEF TaxHeld
<1>3. KeyHeld(n) /\ InvoiceKnown(n) /\ InvoiceHeld(n) /\ VersionRead(n) /\ StillAccepted(n)
      /\ SettlementRead(n) /\ NumberHeld(n)
  BY Carried DEF SameRow
<1> QED
  BY <1>2, <1>3 DEF Holds

LEMMA NumberStatement ==
  ASSUME NEW t \in Transaction, FollowsPlan(t), Holds(t), t.todo # <<>>,
         Head(t.todo) = "number", NEW n, After(t, n), SameRow(t, n),
         n.received = t.received, n.adjusted = t.adjusted, n.rate = t.rate,
         <<"counter", Counter(t)>> \in n.locks,
         counters[Counter(t)] < MaxNumber, n.number = counters[Counter(t)] + 1
  PROVE  Holds(n)
<1>1. n.req = t.req /\ n.row = t.row
  BY DEF After, SameRow
<1>2. Counter(n) = Counter(t)
  BY <1>1 DEF Counter
<1>3. NumberHeld(n)
  BY <1>2 DEF NumberHeld
<1>4. KeyHeld(n) /\ InvoiceKnown(n) /\ InvoiceHeld(n) /\ VersionRead(n) /\ StillAccepted(n)
      /\ SettlementRead(n) /\ TaxHeld(n)
  BY Carried, SMTT(30) DEF SameRow
<1> QED
  BY <1>3, <1>4 DEF Holds

-----------------------------------------------------------------------------
(* Locks *)

\* The lock that each statement waits for.
LEMMA LockWanted ==
  ASSUME NEW s
  PROVE  /\ At(s, "key") => WantedLock(s) = <<"key", tx[s].req.key>>
         /\ At(s, "invoice") => WantedLock(s) = <<"invoice", tx[s].invoice>>
         /\ At(s, "share") => WantedLock(s) = <<"share", tx[s].invoice>>
         /\ At(s, "tax") => WantedLock(s) = <<"tax">>
         /\ At(s, "number") => WantedLock(s) = <<"counter", Counter(tx[s])>>
  BY DEF WantedLock, At, CounterOf, Counter, Op

\* What a lock excludes: another one of its own, and a writer excludes the readers of a row.
LEMMA Exclusions ==
  /\ \A k : Excludes(<<"key", k>>) = {<<"key", k>>}
  /\ \A c : Excludes(<<"counter", c>>) = {<<"counter", c>>}
  /\ Excludes(<<"tax">>) = {<<"tax">>}
  /\ \A i : Excludes(<<"invoice", i>>) = {<<"invoice", i>>, <<"share", i>>}
  /\ \A i : Excludes(<<"share", i>>) = {<<"invoice", i>>}
  BY DEF Excludes

\* A lock that is granted keeps the transactions apart.
LEMMA Granted ==
  ASSUME NEW a, NEW b, Apart(a, b), NEW lock, b \cap Excludes(lock) = {},
         \/ \E k : lock = <<"key", k>>
         \/ \E c : lock = <<"counter", c>>
         \/ lock = <<"tax">>
         \/ \E i \in Invoices : lock = <<"invoice", i>> \/ lock = <<"share", i>>
  PROVE  Apart(a \cup {lock}, b)
<1>1. ASSUME lock \in Excludes(lock), \A i \in Invoices : lock # <<"invoice", i>>,
             \A i \in Invoices : lock # <<"share", i>>
      PROVE  Apart(a \cup {lock}, b)
  BY <1>1 DEF Apart, Exclusive
<1>2. ASSUME NEW k, lock = <<"key", k>> PROVE Apart(a \cup {lock}, b)
  BY <1>1, <1>2, Exclusions
<1>3. ASSUME NEW c, lock = <<"counter", c>> PROVE Apart(a \cup {lock}, b)
  BY <1>1, <1>3, Exclusions
<1>4. CASE lock = <<"tax">>
  BY <1>1, <1>4, Exclusions
<1>5. ASSUME NEW i \in Invoices, lock = <<"invoice", i>> PROVE Apart(a \cup {lock}, b)
  <2>1. lock \notin b /\ <<"share", i>> \notin b
    BY <1>5, Exclusions
  <2>2. \A j \in Invoices : lock = <<"invoice", j>> => <<"share", j>> \notin b
    BY <1>5, <2>1
  <2>3. \A j \in Invoices : lock # <<"share", j>>
    BY <1>5
  <2> QED
    BY <2>1, <2>2, <2>3 DEF Apart, Exclusive
<1>6. ASSUME NEW i \in Invoices, lock = <<"share", i>> PROVE Apart(a \cup {lock}, b)
  <2>1. lock[1] = "share" /\ <<"invoice", i>> \notin b
    BY <1>6, Exclusions
  <2>2. \A j \in Invoices : lock = <<"share", j>> => <<"invoice", j>> \notin b
    BY <1>6, <2>1
  <2>3. \A j \in Invoices : lock # <<"invoice", j>>
    BY <1>6
  <2> QED
    BY <2>1, <2>2, <2>3 DEF Apart, Exclusive
<1> QED
  BY <1>2, <1>3, <1>4, <1>5, <1>6

-----------------------------------------------------------------------------
(* The invariant of the ledger that the transactions rely on *)

\* A draft has no number yet and is not imported.
DraftsAreBlank ==
  \A i \in Invoices : invoices[i].status = "DRAFT" =>
    invoices[i].number = 0 /\ invoices[i].source = Null

LedgerInv ==
  /\ TypeOK /\ SettlementsHaveIssuedInvoice /\ NoOverpayment /\ InvoiceSeriesAhead
  /\ ReadsAreRows /\ DraftsAreBlank

\* A draft has no number and comes from nowhere.
LEMMA BlankStep == TypeOK /\ DraftsAreBlank /\ [Next]_vars => DraftsAreBlank'
<1> SUFFICES ASSUME TypeOK, DraftsAreBlank, [Next]_vars, NEW j \in Invoices,
                    invoices'[j].status = "DRAFT"
             PROVE  invoices'[j].number = 0 /\ invoices'[j].source = Null
  BY DEF DraftsAreBlank
<1>1. CASE UNCHANGED invoices
  BY <1>1 DEF DraftsAreBlank
<1>2. ASSUME NEW i \in Invoices, NEW row, invoices' = [invoices EXCEPT ![i] = row],
             row.status # "DRAFT" \/ (row.number = 0 /\ row.source = Null)
      PROVE  invoices'[j].number = 0 /\ invoices'[j].source = Null
  <2>1. IF j = i THEN invoices'[j] = row ELSE invoices'[j] = invoices[j]
    BY <1>2 DEF TypeOK
  <2> QED
    BY <1>2, <2>1 DEF DraftsAreBlank
<1>3. ASSUME NEW u \in Users, NEW i \in Invoices, InvoiceStep(u, i)
      PROVE  invoices'[j].number = 0 /\ invoices'[j].source = Null
  <2>2. ASSUME NEW c \in Companies, NEW d \in Dates, NEW a \in Prices, CreateDraft(u, i, c, d, a)
        PROVE  invoices'[j].number = 0 /\ invoices'[j].source = Null
    <3>1. PICK row : row = Draft(u, 1, c, d, a) /\ invoices' = [invoices EXCEPT ![i] = row]
      BY <2>2 DEF CreateDraft
    <3>2. row.number = 0 /\ row.source = Null
      BY <3>1 DEF Draft
    <3> QED
      BY <1>2, <3>1, <3>2
  <2>3. ASSUME NEW c \in Companies, NEW d \in Dates, NEW a \in Prices, UpdateDraft(u, i, c, d, a)
        PROVE  invoices'[j].number = 0 /\ invoices'[j].source = Null
    <3>1. PICK row : /\ row = Draft(u, invoices[i].version + 1, c, d, a)
                     /\ invoices' = [invoices EXCEPT ![i] = row]
      BY <2>3 DEF UpdateDraft
    <3>2. row.number = 0 /\ row.source = Null
      BY <3>1 DEF Draft
    <3> QED
      BY <1>2, <3>1, <3>2
  <2>4. CASE Issue(u, i)
    <3>1. PICK row : /\ row = [invoices[i] EXCEPT !.status = "ISSUED",
                                 !.number = NextNumber(SeriesOf(invoices[i].company,
                                                                invoices[i].date, "I")),
                                 !.rate = rate,
                                 !.total = GrandTotal(invoices[i].amount, rate),
                                 !.version = invoices[i].version + 1, !.by = u]
                     /\ invoices' = [invoices EXCEPT ![i] = row]
      BY <2>4 DEF Issue
    <3>2. invoices[i] \in InvoiceRow
      BY <2>4, RowExists DEF Issue, Editable
    <3>3. row.status = "ISSUED"
      BY <3>1, <3>2 DEF InvoiceRow
    <3> QED
      BY <1>2, <3>1, <3>3
  <2>5. CASE Cancel(u, i)
    <3>1. PICK row : /\ row = [invoices[i] EXCEPT !.status = "CANCELLED",
                                 !.version = invoices[i].version + 1, !.by = u]
                     /\ invoices' = [invoices EXCEPT ![i] = row]
      BY <2>5 DEF Cancel
    <3>2. invoices[i] \in InvoiceRow
      BY <2>5, RowExists DEF Cancel
    <3>3. row.status = "CANCELLED"
      BY <3>1, <3>2 DEF InvoiceRow
    <3> QED
      BY <1>2, <3>1, <3>3
  <2>6. ASSUME NEW c \in Companies, NEW d \in Dates, NEW a \in Prices, NEW n \in LegacyNumbers,
               NEW src \in Sources, ImportInvoice(u, i, c, d, a, n, src)
        PROVE  invoices'[j].number = 0 /\ invoices'[j].source = Null
    <3>1. PICK row : /\ row = [status |-> "ISSUED", version |-> 1, company |-> c, date |-> d,
                                amount |-> a, rate |-> 0, total |-> a, number |-> n,
                                source |-> src, by |-> u]
                     /\ invoices' = [invoices EXCEPT ![i] = row]
      BY <2>6 DEF ImportInvoice
    <3>2. row.status = "ISSUED"
      BY <3>1
    <3> QED
      BY <1>2, <3>1, <3>2
  <2>7. CASE Load(u, i)
    BY <1>1, <2>7 DEF Load, billing
  <2> QED
    BY <1>3, <2>2, <2>3, <2>4, <2>5, <2>6, <2>7 DEF InvoiceStep
<1> QED
  BY <1>1, <1>3, OtherStepsLeaveInvoices DEF vars, billing

LEMMA LedgerInvInit == Init => LedgerInv
<1> SUFFICES ASSUME Init PROVE LedgerInv
  OBVIOUS
<1>1. TypeOK
  BY InitTyped
<1>2. /\ SettlementsHaveIssuedInvoice /\ NoOverpayment /\ InvoiceSeriesAhead /\ ReadsAreRows
      /\ DraftsAreBlank
  BY DEF Init, SettlementsHaveIssuedInvoice, NoOverpayment, InvoiceSeriesAhead, ReadsAreRows,
     DraftsAreBlank, NoRow
<1> QED
  BY <1>1, <1>2 DEF LedgerInv

LEMMA LedgerInvStep == LedgerInv /\ [Next]_vars => LedgerInv'
<1> SUFFICES ASSUME LedgerInv, [Next]_vars PROVE LedgerInv'
  OBVIOUS
<1>1. TypeOK' /\ SettlementsHaveIssuedInvoice'
  BY StepTyped, SettlementsStep DEF LedgerInv
<1>2. NoOverpayment' /\ InvoiceSeriesAhead'
  BY <1>1, BalanceStep, SeriesStep DEF LedgerInv
<1>3. ReadsAreRows' /\ DraftsAreBlank'
  BY ReadsStep, BlankStep DEF LedgerInv
<1> QED
  BY <1>1, <1>2, <1>3 DEF LedgerInv

-----------------------------------------------------------------------------
(* The steps of a session *)

TxInv == LedgerInv /\ Transactional

\* What a step of session s, after which its transaction is n, does for the others.
Outcome(s, n) ==
  /\ [Next]_vars /\ ChangesUnder(tx[s].locks)
  /\ tx' = [tx EXCEPT ![s] = n]
  /\ n \in Transaction /\ FollowsPlan(n) /\ LocksAreTaken(n) /\ Holds(n)'
  /\ \A q \in Sessions \ {s} : Apart(n.locks, tx[q].locks)

\* Two sessions hold no locks that exclude each other.
LEMMA SessionsAreApart ==
  ASSUME TxInv, NEW s \in Sessions, NEW q \in Sessions, s # q
  PROVE  Apart(tx[s].locks, tx[q].locks)
  BY DEF TxInv, Transactional, LocksExclude, Apart

LEMMA NothingApart ==
  ASSUME NEW a
  PROVE  Apart(a, {}) /\ Apart({}, a)
  BY DEF Apart, Exclusive

\* A name for what a session will hold.
LEMMA HoldsNamed ==
  ASSUME NEW q, NEW t, t = tx'[q], Holds(t)'
  PROVE  Holds(tx[q])'
<1>1. KeyHeld(tx[q])'
  BY DEF Holds, KeyHeld, KeyFree, ReceiptKeyFree, AdjustmentKeyFree
<1>2. InvoiceKnown(tx[q])' /\ InvoiceHeld(tx[q])' /\ VersionRead(tx[q])'
  BY DEF Holds, InvoiceKnown, NamedRow, InvoiceHeld, VersionRead
<1>3. StillAccepted(tx[q])'
  BY DEF Holds, StillAccepted, AcceptedBy, Reversible
<1>4. SettlementRead(tx[q])'
  <2>1. Covered(t)' => Covered(tx[q])'
    BY DEF Covered, RequestedBy
  <2>2. /\ Received(tx[q].invoice)' = Received(t.invoice)'
        /\ Adjusted(tx[q].invoice)' = Adjusted(t.invoice)'
        /\ Open(tx[q].invoice)' = Open(t.invoice)'
    BY DEF Received, Adjusted, Open, Confirmed, ActiveAdjustments
  <2> QED
    BY <2>1, <2>2 DEF Holds, SettlementRead
<1>5. TaxHeld(tx[q])' /\ NumberHeld(tx[q])'
  BY DEF Holds, TaxHeld, NumberHeld, Counter
<1> QED
  BY <1>1, <1>2, <1>3, <1>4, <1>5 DEF Holds

\* The invariant is kept: the others rely on what their locks cover, which nobody else writes.
LEMMA Preserved ==
  ASSUME TxInv, NEW s \in Sessions, NEW n, Outcome(s, n)
  PROVE  TxInv'
<1>1. LedgerInv' /\ TypeOK /\ TypeOK'
  <2>1. LedgerInv'
    BY LedgerInvStep DEF TxInv, Outcome
  <2> QED
    BY <2>1 DEF TxInv, LedgerInv
<1>2. /\ tx \in [Sessions -> Transaction]
      /\ \A q \in Sessions : FollowsPlan(tx[q]) /\ LocksAreTaken(tx[q]) /\ Holds(tx[q])
  BY DEF TxInv, Transactional
<1>3. tx' \in [Sessions -> Transaction] /\ tx'[s] = n
  BY <1>2 DEF Outcome
<1>4. \A q \in Sessions \ {s} : tx'[q] = tx[q]
  BY <1>2 DEF Outcome
<1>5. ASSUME NEW q \in Sessions \ {s}
      PROVE  FollowsPlan(tx'[q]) /\ LocksAreTaken(tx'[q]) /\ Holds(tx[q])'
  <2>1. PICK t : t = tx[q]
    OBVIOUS
  <2>2. /\ t \in Transaction /\ FollowsPlan(t) /\ LocksAreTaken(t) /\ Holds(t)
        /\ Apart(t.locks, tx[s].locks)
    BY <1>2, <2>1, SessionsAreApart
  <2>3. PICK held : held = tx[s].locks
    OBVIOUS
  <2>4. Holds(t)'
    BY <1>1, <2>2, <2>3, Undisturbed DEF Outcome
  <2>5. tx'[q] = t
    BY <1>4, <2>1
  <2>6. Holds(tx[q])'
    BY <2>4, <2>5, HoldsNamed
  <2> QED
    BY <2>2, <2>5, <2>6
<1>6. \A q \in Sessions : Holds(tx[q])'
  <2>1. Holds(tx[s])'
    BY <1>3, HoldsNamed DEF Outcome
  <2> QED
    BY <1>5, <2>1
<1>7. \A q \in Sessions : FollowsPlan(tx'[q]) /\ LocksAreTaken(tx'[q])
  BY <1>3, <1>5 DEF Outcome
<1>8. LocksExclude'
  <2>1. ASSUME NEW p \in Sessions, NEW q \in Sessions, p # q
        PROVE  Exclusive(tx'[p].locks, tx'[q].locks)
    <3>1. CASE p = s
      BY <1>3, <1>4, <2>1, <3>1 DEF Outcome, Apart
    <3>2. CASE q = s
      BY <1>3, <1>4, <2>1, <3>2 DEF Outcome, Apart
    <3>3. CASE p # s /\ q # s
      BY <1>4, <2>1, <3>3, SessionsAreApart DEF Apart
    <3> QED
      BY <3>1, <3>2, <3>3
  <2> QED
    BY <2>1 DEF LocksExclude, Exclusive
<1> QED
  BY <1>1, <1>3, <1>6, <1>7, <1>8 DEF TxInv, Transactional, FollowsPlan, LocksAreTaken

LEMMA InSession ==
  ASSUME TxInv, NEW s \in Sessions
  PROVE  /\ tx \in [Sessions -> Transaction] /\ tx[s] \in Transaction
         /\ FollowsPlan(tx[s]) /\ LocksAreTaken(tx[s]) /\ Holds(tx[s])
         /\ TypeOK
  BY DEF TxInv, Transactional, LedgerInv

\* A step that leaves the tables alone is a stutter of the ledger.
LEMMA NothingChanges ==
  ASSUME TypeOK, UNCHANGED vars, NEW L
  PROVE  [Next]_vars /\ ChangesUnder(L)
<1>1. UNCHANGED <<invoices, receipts, adjustments, counters, rate, seen>>
  BY DEF vars, billing
<1>2. \A u \in Users, i \in Invoices : seen[u][i] # NoRow => seen[u][i].version \in Nat
  BY DEF TypeOK, InvoiceRow
<1> QED
  BY <1>1, <1>2 DEF ChangesUnder, Kept

\* A transaction ends: it holds nothing any more.
LEMMA Ended ==
  ASSUME TxInv, NEW s \in Sessions, End(s), [Next]_vars, ChangesUnder(tx[s].locks)
  PROVE  TxInv'
<1>1. Outcome(s, Idle)
  BY IdleHolds, NothingApart DEF Outcome, End
<1> QED
  BY <1>1, Preserved

LEMMA RolledBack ==
  ASSUME TxInv, NEW s \in Sessions, Rollback(s)
  PROVE  TxInv'
<1>1. [Next]_vars /\ ChangesUnder(tx[s].locks)
  <2>1. PICK held : held = tx[s].locks
    OBVIOUS
  <2>2. UNCHANGED vars /\ TypeOK
    BY InSession DEF Rollback
  <2>3. [Next]_vars /\ ChangesUnder(held)
    BY <2>2, NothingChanges
  <2> QED
    BY <2>1, <2>3
<1> QED
  BY <1>1, Ended DEF Rollback

\* A transaction goes on, from t to n.
LEMMA WentOn ==
  ASSUME TxInv, NEW s \in Sessions, NEW t, t = tx[s], t.todo # <<>>,
         Head(t.todo) \notin {"commit", "balance"}, UNCHANGED vars,
         NEW n, tx' = [tx EXCEPT ![s] = n], After(t, n), Holds(n),
         \A lock \in n.locks \ t.locks : LockStep(lock) = Head(t.todo),
         \A q \in Sessions \ {s} : Apart(n.locks, tx[q].locks)
  PROVE  TxInv'
<1>1. t \in Transaction /\ FollowsPlan(t) /\ LocksAreTaken(t) /\ TypeOK
  BY InSession
<1>2. n \in Transaction /\ FollowsPlan(n) /\ LocksAreTaken(n)
  BY <1>1, LocksCarried DEF After
<1>3. [Next]_vars /\ ChangesUnder(t.locks) /\ ChangesUnder({})
  BY <1>1, NothingChanges
<1>4. TypeOK'
  BY <1>1, StepTyped, <1>3
<1>5. Holds(n)'
  BY <1>1, <1>2, <1>3, <1>4, Undisturbed, NothingApart
<1>6. Outcome(s, n)
  BY <1>2, <1>3, <1>5 DEF Outcome
<1> QED
  BY <1>6, Preserved

\* It goes on with the locks it has.
LEMMA WentOnSame ==
  ASSUME TxInv, NEW s \in Sessions, NEW t, t = tx[s], t.todo # <<>>,
         Head(t.todo) \notin {"commit", "balance"}, UNCHANGED vars,
         NEW n, tx' = [tx EXCEPT ![s] = n], After(t, n), Holds(n), n.locks = t.locks
  PROVE  TxInv'
<1>1. \A q \in Sessions \ {s} : Apart(n.locks, tx[q].locks)
  BY SessionsAreApart
<1> QED
  BY <1>1, WentOn

\* It goes on with one lock more, which no other transaction excludes.
LEMMA WentOnLocked ==
  ASSUME TxInv, NEW s \in Sessions, NEW t, t = tx[s], t.todo # <<>>,
         Head(t.todo) \in {"key", "invoice", "share", "tax", "number"},
         UNCHANGED vars, WaitsFor(s) = {},
         NEW n, tx' = [tx EXCEPT ![s] = n], After(t, n), Holds(n),
         NEW lock, lock = WantedLock(s), n.locks = t.locks \cup {lock}
  PROVE  TxInv'
<1> DEFINE step == Head(t.todo)
<1>1. At(s, step) /\ NeedsLock(s)
  BY DEF At, NeedsLock
<1>2. t \in Transaction /\ FollowsPlan(t) /\ Holds(t) /\ TypeOK
  BY InSession
<1>3. \A q \in Sessions \ {s} : tx[q].locks \cap Excludes(lock) = {}
  BY <1>1 DEF WaitsFor
<1>4. step \in {"invoice", "share"} => t.invoice \in Invoices
  BY <1>2, Order, InvoiceNamed DEF Ordered, Holds
<1>5. /\ LockStep(lock) = step
      /\ \/ \E k : lock = <<"key", k>>
         \/ \E c : lock = <<"counter", c>>
         \/ lock = <<"tax">>
         \/ \E i \in Invoices : lock = <<"invoice", i>> \/ lock = <<"share", i>>
  <2>1. \/ step = "key" /\ lock = <<"key", t.req.key>>
        \/ step = "invoice" /\ lock = <<"invoice", t.invoice>>
        \/ step = "share" /\ lock = <<"share", t.invoice>>
        \/ step = "tax" /\ lock = <<"tax">>
        \/ step = "number" /\ lock = <<"counter", Counter(t)>>
    BY <1>1, LockWanted
  <2> QED
    BY <1>4, <2>1, LockNames DEF LockStep
<1>6. ASSUME NEW q \in Sessions \ {s} PROVE Apart(n.locks, tx[q].locks)
  <2>1. PICK held : held = tx[q].locks
    OBVIOUS
  <2>2. Apart(t.locks, held) /\ held \cap Excludes(lock) = {}
    BY <1>3, <2>1, SessionsAreApart
  <2>3. \/ \E k : lock = <<"key", k>>
        \/ \E c : lock = <<"counter", c>>
        \/ lock = <<"tax">>
        \/ \E i \in Invoices : lock = <<"invoice", i>> \/ lock = <<"share", i>>
    BY <1>5
  <2>4. Apart(t.locks \cup {lock}, held)
    BY <2>2, <2>3, Granted
  <2> QED
    BY <2>1, <2>4
<1> QED
  BY <1>5, <1>6, WentOn

\* What a statement leaves of a transaction.
LEMMA Filled ==
  ASSUME NEW t \in Transaction, t.todo # <<>>, NEW m \in Transaction,
         m.todo = t.todo, m.req = t.req, t.locks \subseteq m.locks
  PROVE  /\ After(t, Done(m)) /\ Done(m).locks = m.locks /\ Done(m).invoice = m.invoice
         /\ Done(m).row = m.row /\ Done(m).received = m.received
         /\ Done(m).adjusted = m.adjusted /\ Done(m).rate = m.rate /\ Done(m).number = m.number
  BY DoneIs DEF After

\* A lock is among those of Locks.
LEMMA LockIsTyped ==
  ASSUME TxInv, NEW s \in Sessions, NeedsLock(s)
  PROVE  WantedLock(s) \in Locks
<1>1. PICK t : t = tx[s]
  OBVIOUS
<1>2. t \in Transaction /\ FollowsPlan(t) /\ Holds(t) /\ TypeOK
  BY <1>1, InSession
<1>3. PICK step \in {"key", "invoice", "share", "tax", "number"} : At(s, step)
  BY DEF NeedsLock
<1>4. t.todo # <<>> /\ Head(t.todo) = step /\ t.req \in Requests /\ Ordered(t)
  BY <1>1, <1>2, <1>3, Order DEF At, FollowsPlan
<1>5. CASE step = "key"
  <2>1. t.req.key \in Keys
    BY <1>4, <1>5, RequestFields DEF Ordered
  <2> QED
    BY <1>1, <1>3, <1>5, <2>1, LockWanted DEF Locks
<1>6. CASE step \in {"invoice", "share"}
  <2>1. t.invoice \in Invoices
    BY <1>2, <1>4, <1>6, InvoiceNamed DEF Ordered, Holds
  <2> QED
    BY <1>1, <1>3, <1>6, <2>1, LockWanted DEF Locks
<1>7. CASE step = "tax"
  BY <1>3, <1>7, LockWanted DEF Locks
<1>8. CASE step = "number"
  <2>1. Counter(t) \in Series
    BY <1>2, <1>4, <1>8, CounterExists DEF Ordered, Holds
  <2> QED
    BY <1>1, <1>3, <1>8, <2>1, LockWanted DEF Locks
<1> QED
  BY <1>5, <1>6, <1>7, <1>8

\* The transaction with one lock more.
LEMMA LockedIs ==
  ASSUME TxInv, NEW s \in Sessions, NeedsLock(s), NEW t, t = tx[s], NEW lock, lock = WantedLock(s)
  PROVE  /\ Locked(s) \in Transaction /\ Locked(s).todo = t.todo /\ Locked(s).req = t.req
         /\ Locked(s).invoice = t.invoice /\ Locked(s).row = t.row /\ Locked(s).rate = t.rate
         /\ Locked(s).received = t.received /\ Locked(s).adjusted = t.adjusted
         /\ Locked(s).number = t.number /\ Locked(s).locks = t.locks \cup {lock}
<1>1. t \in Transaction /\ lock \in Locks
  BY InSession, LockIsTyped
<1>2. Locked(s) = [t EXCEPT !.locks = t.locks \cup {lock}]
  BY <1>1 DEF Locked
<1> QED
  BY <1>1, <1>2 DEF Transaction

-----------------------------------------------------------------------------
(* Each statement *)

LEMMA LockKeyStep ==
  ASSUME TxInv, NEW s \in Sessions, LockKey(s)
  PROVE  UNCHANGED vars /\ TxInv'
<1>1. PICK t, lock, m, n : t = tx[s] /\ lock = WantedLock(s) /\ m = Locked(s) /\ n = Done(m)
  OBVIOUS
<1>2. /\ t \in Transaction /\ FollowsPlan(t) /\ Holds(t)
      /\ t.todo # <<>> /\ Head(t.todo) = "key" /\ NeedsLock(s)
  BY <1>1, InSession DEF LockKey, At, NeedsLock
<1>3. /\ m \in Transaction /\ m.todo = t.todo /\ m.req = t.req /\ m.locks = t.locks \cup {lock}
      /\ SameRow(t, m) /\ m.received = t.received /\ m.adjusted = t.adjusted
      /\ m.rate = t.rate /\ m.number = t.number
  BY <1>1, <1>2, LockedIs DEF SameRow
<1>4. /\ After(t, n) /\ n.locks = t.locks \cup {lock} /\ SameRow(t, n)
      /\ n.received = t.received /\ n.adjusted = t.adjusted
      /\ n.rate = t.rate /\ n.number = t.number
  BY <1>1, <1>2, <1>3, Filled DEF SameRow
<1>5. lock = <<"key", t.req.key>>
  BY <1>1, LockWanted DEF LockKey
<1>6. Holds(n)
  BY <1>2, <1>4, <1>5, KeyStatement
<1>7. tx' = [tx EXCEPT ![s] = n] /\ UNCHANGED vars /\ WaitsFor(s) = {}
  BY <1>1 DEF LockKey, Continue
<1>8. t = tx[s] /\ lock = WantedLock(s)
  BY <1>1
<1>9. After(t, n) /\ n.locks = t.locks \cup {lock}
  BY <1>4
<1>10. t.todo # <<>> /\ Head(t.todo) \in {"key", "invoice", "share", "tax", "number"}
  BY <1>2
<1> QED
  BY <1>6, <1>7, <1>8, <1>9, <1>10, WentOnLocked

LEMMA RetryStep ==
  ASSUME TxInv, NEW s \in Sessions, Retry(s)
  PROVE  UNCHANGED vars /\ TxInv'
<1>1. CASE Rollback(s)
  BY <1>1, RolledBack DEF Rollback
<1>2. PICK t : t = tx[s]
  OBVIOUS
<1>3. CASE KeyFree(t) /\ Continue(s, t)
  <2>1. PICK n : n = Done(t)
    OBVIOUS
  <2>2. /\ t \in Transaction /\ FollowsPlan(t) /\ Holds(t)
        /\ t.todo # <<>> /\ Head(t.todo) = "retry"
    BY <1>2, InSession DEF Retry, At
  <2>3. /\ After(t, n) /\ n.locks = t.locks /\ SameRow(t, n)
        /\ n.received = t.received /\ n.adjusted = t.adjusted
        /\ n.rate = t.rate /\ n.number = t.number
    BY <2>1, <2>2, Filled DEF SameRow
  <2>4. Holds(n)
    BY <1>3, <2>2, <2>3, KeyStatement
  <2>5. tx' = [tx EXCEPT ![s] = n] /\ UNCHANGED vars /\ t = tx[s]
    BY <1>2, <1>3, <2>1 DEF Continue
  <2>6. After(t, n) /\ n.locks = t.locks
    BY <2>3
  <2> QED
    BY <2>2, <2>4, <2>5, <2>6, WentOnSame
<1> QED
  BY <1>1, <1>2, <1>3 DEF Retry, KeyFree, Op

LEMMA CandidateStep ==
  ASSUME TxInv, NEW s \in Sessions, Candidate(s)
  PROVE  UNCHANGED vars /\ TxInv'
<1>1. CASE Rollback(s)
  BY <1>1, RolledBack DEF Rollback
<1>2. PICK t, row : t = tx[s] /\ row = NamedRow(t)
  OBVIOUS
<1>3. /\ t \in Transaction /\ FollowsPlan(t) /\ Holds(t) /\ TypeOK
      /\ t.todo # <<>> /\ Head(t.todo) = "candidate"
  BY <1>2, InSession DEF Candidate, At
<1>4. CASE row # NoRow /\ Continue(s, [t EXCEPT !.invoice = row.invoice])
  <2>1. PICK m, n : m = [t EXCEPT !.invoice = row.invoice] /\ n = Done(m)
    OBVIOUS
  <2>2. row.invoice \in Invoices
    <3>1. t.req \in Requests /\ t.req.op \in {"confirm", "reverse", "unadjust"}
      BY <1>3, Order DEF Ordered, FollowsPlan
    <3>2. \/ t.req.receipt \in Receipts /\ row = receipts[t.req.receipt]
          \/ t.req.adjustment \in Adjustments /\ row = adjustments[t.req.adjustment]
      BY <1>2, <3>1, RequestFields DEF NamedRow
    <3> QED
      BY <1>3, <1>4, <3>2 DEF TypeOK, ReceiptRow, AdjustmentRow
  <2>3. /\ m \in Transaction /\ m.todo = t.todo /\ m.req = t.req /\ m.locks = t.locks
        /\ m.invoice = row.invoice
    BY <1>3, <2>1, <2>2 DEF Transaction
  <2>4. After(t, n) /\ n.locks = t.locks /\ n.invoice = row.invoice
    BY <1>3, <2>1, <2>3, Filled
  <2>5. Holds(n)
    BY <1>2, <1>3, <1>4, <2>4, CandidateStatement
  <2>6. tx' = [tx EXCEPT ![s] = n] /\ UNCHANGED vars /\ t = tx[s]
    BY <1>2, <1>4, <2>1 DEF Continue
  <2> QED
    BY <1>3, <2>4, <2>5, <2>6, WentOnSame
<1> QED
  BY <1>1, <1>2, <1>4 DEF Candidate, NamedRow, Op

LEMMA LockInvoiceStep ==
  ASSUME TxInv, NEW s \in Sessions, LockInvoice(s)
  PROVE  UNCHANGED vars /\ TxInv'
<1>1. CASE Rollback(s)
  BY <1>1, RolledBack DEF Rollback
<1>2. PICK t, row, lock, l : /\ t = tx[s] /\ row = invoices[t.invoice]
                             /\ lock = WantedLock(s) /\ l = Locked(s)
  OBVIOUS
<1>3. /\ t \in Transaction /\ FollowsPlan(t) /\ Holds(t) /\ TypeOK
      /\ t.todo # <<>> /\ Head(t.todo) = "invoice" /\ NeedsLock(s) /\ WaitsFor(s) = {}
  BY <1>2, InSession DEF LockInvoice, At, NeedsLock
<1>4. CASE /\ row # NoRow /\ (t.req.op \in {"update", "issue"} => row.version = t.row.version)
           /\ Continue(s, [l EXCEPT !.row = row])
  <2>1. PICK m, n : m = [l EXCEPT !.row = row] /\ n = Done(m)
    OBVIOUS
  <2>2. t.invoice \in Invoices /\ row \in InvoiceRow
    <3>1. t.invoice \in Invoices
      BY <1>3, Order, InvoiceNamed DEF Ordered, Holds
    <3> QED
      BY <1>2, <1>3, <1>4, <3>1 DEF TypeOK
  <2>3. /\ l \in Transaction /\ l.todo = t.todo /\ l.req = t.req /\ l.invoice = t.invoice
        /\ l.locks = t.locks \cup {lock}
    BY <1>2, <1>3, LockedIs
  <2>4. /\ m \in Transaction /\ m.todo = t.todo /\ m.req = t.req /\ m.invoice = t.invoice
        /\ m.row = row /\ m.locks = t.locks \cup {lock}
    BY <2>1, <2>2, <2>3 DEF Transaction
  <2>5. After(t, n) /\ n.locks = t.locks \cup {lock} /\ n.invoice = t.invoice /\ n.row = row
    BY <1>3, <2>1, <2>4, Filled
  <2>6. <<"invoice", t.invoice>> \in n.locks
    BY <1>2, <2>5, LockWanted DEF LockInvoice
  <2>7. Holds(n)
    BY <1>2, <1>3, <1>4, <2>2, <2>5, <2>6, InvoiceStatement
  <2>8. tx' = [tx EXCEPT ![s] = n] /\ UNCHANGED vars /\ t = tx[s] /\ lock = WantedLock(s)
    BY <1>2, <1>4, <2>1 DEF Continue
  <2>9. After(t, n) /\ n.locks = t.locks \cup {lock}
    BY <2>5
  <2> QED
    BY <1>3, <2>7, <2>8, <2>9, WentOnLocked
<1> QED
  BY <1>1, <1>2, <1>4 DEF LockInvoice, Presented, Op

LEMMA ShareInvoiceStep ==
  ASSUME TxInv, NEW s \in Sessions, ShareInvoice(s)
  PROVE  UNCHANGED vars /\ TxInv'
<1>1. CASE Rollback(s)
  BY <1>1, RolledBack DEF Rollback
<1>2. PICK t, row, lock, l : /\ t = tx[s] /\ row = invoices[t.invoice]
                             /\ lock = WantedLock(s) /\ l = Locked(s)
  OBVIOUS
<1>3. /\ t \in Transaction /\ FollowsPlan(t) /\ Holds(t) /\ TypeOK
      /\ t.todo # <<>> /\ Head(t.todo) = "share" /\ NeedsLock(s) /\ WaitsFor(s) = {}
  BY <1>2, InSession DEF ShareInvoice, At, NeedsLock
<1>4. CASE row # NoRow /\ Continue(s, [l EXCEPT !.row = row])
  <2>1. PICK m, n : m = [l EXCEPT !.row = row] /\ n = Done(m)
    OBVIOUS
  <2>2. t.invoice \in Invoices /\ row \in InvoiceRow
    <3>1. t.invoice \in Invoices
      BY <1>3, Order, InvoiceNamed DEF Ordered, Holds
    <3> QED
      BY <1>2, <1>3, <1>4, <3>1 DEF TypeOK
  <2>3. /\ l \in Transaction /\ l.todo = t.todo /\ l.req = t.req /\ l.invoice = t.invoice
        /\ l.locks = t.locks \cup {lock}
    BY <1>2, <1>3, LockedIs
  <2>4. /\ m \in Transaction /\ m.todo = t.todo /\ m.req = t.req /\ m.invoice = t.invoice
        /\ m.row = row /\ m.locks = t.locks \cup {lock}
    BY <2>1, <2>2, <2>3 DEF Transaction
  <2>5. After(t, n) /\ n.locks = t.locks \cup {lock} /\ n.invoice = t.invoice /\ n.row = row
    BY <1>3, <2>1, <2>4, Filled
  <2>6. <<"share", t.invoice>> \in n.locks
    BY <1>2, <2>5, LockWanted DEF ShareInvoice
  <2>7. t.req.op = "read"
    BY <1>3, Order DEF Ordered
  <2>8. Holds(n)
    BY <1>2, <1>3, <1>4, <2>2, <2>5, <2>6, <2>7, InvoiceStatement
  <2>9. tx' = [tx EXCEPT ![s] = n] /\ UNCHANGED vars /\ t = tx[s] /\ lock = WantedLock(s)
    BY <1>2, <1>4, <2>1 DEF Continue
  <2>10. After(t, n) /\ n.locks = t.locks \cup {lock}
    BY <2>5
  <2> QED
    BY <1>3, <2>8, <2>9, <2>10, WentOnLocked
<1> QED
  BY <1>1, <1>2, <1>4 DEF ShareInvoice

LEMMA CheckStep ==
  ASSUME TxInv, NEW s \in Sessions, Check(s)
  PROVE  UNCHANGED vars /\ TxInv'
<1>1. CASE Rollback(s)
  BY <1>1, RolledBack DEF Rollback
<1>2. PICK t : t = tx[s]
  OBVIOUS
<1>3. CASE AcceptedBy(t) /\ Continue(s, t)
  <2>1. PICK n : n = Done(t)
    OBVIOUS
  <2>2. /\ t \in Transaction /\ FollowsPlan(t) /\ Holds(t)
        /\ t.todo # <<>> /\ Head(t.todo) = "check"
    BY <1>2, InSession DEF Check, At
  <2>3. /\ After(t, n) /\ n.locks = t.locks /\ SameRow(t, n)
        /\ n.received = t.received /\ n.adjusted = t.adjusted
        /\ n.rate = t.rate /\ n.number = t.number
    BY <2>1, <2>2, Filled DEF SameRow
  <2>4. Holds(n)
    BY <1>3, <2>2, <2>3, CheckStatement
  <2>5. tx' = [tx EXCEPT ![s] = n] /\ UNCHANGED vars /\ t = tx[s]
    BY <1>2, <1>3, <2>1 DEF Continue
  <2>6. After(t, n) /\ n.locks = t.locks
    BY <2>3
  <2> QED
    BY <2>2, <2>4, <2>5, <2>6, WentOnSame
<1>4. Accepted(s) <=> AcceptedBy(t)
  BY <1>2 DEF Accepted, AcceptedBy, Op
<1> QED
  BY <1>1, <1>2, <1>3, <1>4 DEF Check

LEMMA AmountsAreNatural ==
  /\ \A a \in Amounts : a \in Nat
  /\ \A a \in Prices : a \in Nat
  /\ MaxMinor \in Nat
  BY LedgerAssumption

LEMMA OpenIsCounted ==
  ASSUME NEW i
  PROVE  IsFiniteSet(Open(i)) /\ Cardinality(Open(i)) \in Nat
<1>1. Open(i) \in SUBSET Receipts
  BY DEF Open
<1>2. IsFiniteSet(Open(i))
  BY <1>1, FS_Subset, LedgerAssumption
<1> QED
  BY <1>2, FS_CardinalityType

LEMMA SumReceiptsStep ==
  ASSUME TxInv, NEW s \in Sessions, SumReceipts(s)
  PROVE  UNCHANGED vars /\ TxInv'
<1>1. PICK t, sum : /\ t = tx[s]
                    /\ sum = IF t.req.op = "cancel" THEN Cardinality(Open(t.invoice))
                                                    ELSE Received(t.invoice)
  OBVIOUS
<1>2. /\ t \in Transaction /\ FollowsPlan(t) /\ Holds(t)
      /\ t.todo # <<>> /\ Head(t.todo) = "receipts"
  BY <1>1, InSession DEF SumReceipts, At
<1>3. PICK m, n : m = [t EXCEPT !.received = sum] /\ n = Done(m)
  OBVIOUS
<1>4. sum \in Nat
  BY <1>1, OpenIsCounted, SettledIsNatural
<1>5. /\ m \in Transaction /\ m.todo = t.todo /\ m.req = t.req /\ m.locks = t.locks
      /\ SameRow(t, m) /\ m.rate = t.rate /\ m.number = t.number /\ m.received = sum
  BY <1>2, <1>3, <1>4 DEF Transaction, SameRow
<1>6. /\ After(t, n) /\ n.locks = t.locks /\ SameRow(t, n)
      /\ n.rate = t.rate /\ n.number = t.number /\ n.received = sum
  BY <1>2, <1>3, <1>5, Filled DEF SameRow
<1>7. Holds(n)
  BY <1>1, <1>2, <1>6, ReceiptsStatement
<1>8. tx' = [tx EXCEPT ![s] = n] /\ UNCHANGED vars /\ t = tx[s]
  BY <1>1, <1>3 DEF SumReceipts, Continue, Op, Open
<1>9. After(t, n) /\ n.locks = t.locks
  BY <1>6
<1> QED
  BY <1>2, <1>7, <1>8, <1>9, WentOnSame

LEMMA SumAdjustmentsStep ==
  ASSUME TxInv, NEW s \in Sessions, SumAdjustments(s)
  PROVE  UNCHANGED vars /\ TxInv'
<1>1. CASE Rollback(s)
  BY <1>1, RolledBack DEF Rollback
<1>2. PICK t, sum : t = tx[s] /\ sum = Adjusted(t.invoice)
  OBVIOUS
<1>3. /\ t \in Transaction /\ FollowsPlan(t) /\ Holds(t) /\ TypeOK
      /\ t.todo # <<>> /\ Head(t.todo) = "adjustments"
  BY <1>2, InSession DEF SumAdjustments, At
<1>4. sum \in Nat /\ t.received \in Nat
  BY <1>2, <1>3, SettledIsNatural DEF Transaction
<1>5. CASE /\ t.req.op = "cancel" => ~(t.received + sum > 0)
           /\ t.req.op \in {"receipt", "confirm", "adjust"} =>
                ~(RequestedBy(t) > t.row.total - (t.received + sum))
           /\ Continue(s, [t EXCEPT !.adjusted = sum])
  <2>1. PICK m, n : m = [t EXCEPT !.adjusted = sum] /\ n = Done(m)
    OBVIOUS
  <2>2. /\ m \in Transaction /\ m.todo = t.todo /\ m.req = t.req /\ m.locks = t.locks
        /\ SameRow(t, m) /\ m.rate = t.rate /\ m.number = t.number
        /\ m.received = t.received /\ m.adjusted = sum
    BY <1>3, <1>4, <2>1 DEF Transaction, SameRow
  <2>3. /\ After(t, n) /\ n.locks = t.locks /\ SameRow(t, n)
        /\ n.rate = t.rate /\ n.number = t.number /\ n.received = t.received /\ n.adjusted = sum
    BY <1>3, <2>1, <2>2, Filled DEF SameRow
  <2>4. Covered(n)
    <3>1. n.req = t.req /\ n.row = t.row
      BY <2>3 DEF After, SameRow
    <3>2. t.req.op = "cancel" => t.received + sum = 0
      BY <1>4, <1>5
    <3>3. ASSUME t.req.op \in {"receipt", "confirm", "adjust"}
          PROVE  RequestedBy(t) <= t.row.total - (t.received + sum)
      <4>1. t.req \in Requests /\ Past(t, "invoice")
        BY <1>3, <3>3, Order DEF FollowsPlan, Ordered
      <4>2. t.row.total \in Nat
        BY <1>3, <4>1, RowHeld DEF InvoiceRow, Holds
      <4>3. RequestedBy(t) \in Nat
        <5>1. CASE t.req.op \in {"receipt", "adjust"}
          BY <4>1, <5>1, RequestFields, AmountsAreNatural DEF RequestedBy
        <5>2. CASE t.req.op = "confirm"
          <6>1. /\ t.req.receipt \in Receipts
                /\ receipts[t.req.receipt] = NamedRow(t) /\ NamedRow(t) # NoRow
            BY <1>3, <4>1, <5>2, RequestFields, Order
            DEF NamedRow, Holds, InvoiceKnown, Founded
          <6> QED
            BY <1>3, <5>2, <6>1, RowExists DEF RequestedBy, ReceiptRow
        <5> QED
          BY <3>3, <5>1, <5>2
      <4> QED
        BY <1>4, <1>5, <3>3, <4>2, <4>3
    <3>4. RequestedBy(n) = RequestedBy(t)
      BY <3>1 DEF RequestedBy
    <3> QED
      BY <2>3, <3>1, <3>2, <3>3, <3>4 DEF Covered
  <2>5. Holds(n)
    BY <1>2, <1>3, <2>3, <2>4, AdjustmentsStatement
  <2>6. tx' = [tx EXCEPT ![s] = n] /\ UNCHANGED vars /\ t = tx[s]
    BY <1>2, <1>5, <2>1 DEF Continue
  <2>7. After(t, n) /\ n.locks = t.locks
    BY <2>3
  <2> QED
    BY <1>3, <2>5, <2>6, <2>7, WentOnSame
<1>6. Requested(s) = RequestedBy(t)
  BY <1>2 DEF Requested, RequestedBy, Op
<1> QED
  BY <1>1, <1>2, <1>5, <1>6 DEF SumAdjustments, Op

LEMMA LockTaxStep ==
  ASSUME TxInv, NEW s \in Sessions, LockTax(s)
  PROVE  UNCHANGED vars /\ TxInv'
<1>1. CASE Rollback(s)
  BY <1>1, RolledBack DEF Rollback
<1>2. PICK t, r, lock, l : t = tx[s] /\ r = rate /\ lock = WantedLock(s) /\ l = Locked(s)
  OBVIOUS
<1>3. /\ t \in Transaction /\ FollowsPlan(t) /\ Holds(t) /\ TypeOK
      /\ t.todo # <<>> /\ Head(t.todo) = "tax" /\ NeedsLock(s) /\ WaitsFor(s) = {}
  BY <1>2, InSession DEF LockTax, At, NeedsLock
<1>4. CASE /\ t.req.op = "issue" => t.row.rate = r
           /\ t.req.op = "update" => ~(GrandTotal(t.req.amount, r) > MaxMinor)
           /\ Continue(s, [l EXCEPT !.rate = r])
  <2>1. PICK m, n : m = [l EXCEPT !.rate = r] /\ n = Done(m)
    OBVIOUS
  <2>2. r \in Rates /\ r \in Nat
    BY <1>2, <1>3, LedgerAssumption DEF TypeOK
  <2>3. /\ l \in Transaction /\ l.todo = t.todo /\ l.req = t.req /\ SameRow(t, l)
        /\ l.received = t.received /\ l.adjusted = t.adjusted /\ l.number = t.number
        /\ l.locks = t.locks \cup {lock}
    BY <1>2, <1>3, LockedIs DEF SameRow
  <2>4. /\ m \in Transaction /\ m.todo = t.todo /\ m.req = t.req /\ SameRow(t, m)
        /\ m.received = t.received /\ m.adjusted = t.adjusted /\ m.number = t.number
        /\ m.rate = r /\ m.locks = t.locks \cup {lock}
    BY <2>1, <2>2, <2>3 DEF Transaction, SameRow
  <2>5. /\ After(t, n) /\ n.locks = t.locks \cup {lock} /\ SameRow(t, n)
        /\ n.received = t.received /\ n.adjusted = t.adjusted /\ n.number = t.number
        /\ n.rate = r
    BY <1>3, <2>1, <2>4, Filled DEF SameRow
  <2>6. <<"tax">> \in n.locks
    BY <1>2, <2>5, LockWanted DEF LockTax
  <2>7. t.req.op = "update" => GrandTotal(t.req.amount, r) <= MaxMinor
    <3>1. SUFFICES ASSUME t.req.op = "update" PROVE GrandTotal(t.req.amount, r) <= MaxMinor
      OBVIOUS
    <3>2. t.req.amount \in Nat /\ MaxMinor \in Nat
      BY <1>3, <3>1, RequestFields, AmountsAreNatural DEF FollowsPlan
    <3>3. GrandTotal(t.req.amount, r) \in Nat
      BY <2>2, <3>2, TotalIsNatural
    <3> QED
      BY <1>4, <3>1, <3>2, <3>3
  <2>8. Holds(n)
    BY <1>2, <1>3, <1>4, <2>5, <2>6, <2>7, TaxStatement
  <2>9. tx' = [tx EXCEPT ![s] = n] /\ UNCHANGED vars /\ t = tx[s] /\ lock = WantedLock(s)
    BY <1>2, <1>4, <2>1 DEF Continue
  <2>10. After(t, n) /\ n.locks = t.locks \cup {lock}
    BY <2>5
  <2> QED
    BY <1>3, <2>8, <2>9, <2>10, WentOnLocked
<1> QED
  BY <1>1, <1>2, <1>4 DEF LockTax, Op

LEMMA LockNumberStep ==
  ASSUME TxInv, NEW s \in Sessions, LockNumber(s)
  PROVE  UNCHANGED vars /\ TxInv'
<1>1. CASE Rollback(s)
  BY <1>1, RolledBack DEF Rollback
<1>2. PICK t, c, k, lock, l : /\ t = tx[s] /\ c = Counter(t) /\ k = counters[c] + 1
                              /\ lock = WantedLock(s) /\ l = Locked(s)
  OBVIOUS
<1>3. /\ t \in Transaction /\ FollowsPlan(t) /\ Holds(t) /\ TypeOK
      /\ t.todo # <<>> /\ Head(t.todo) = "number" /\ NeedsLock(s) /\ WaitsFor(s) = {}
  BY <1>2, InSession DEF LockNumber, At, NeedsLock
<1>4. CASE counters[c] < MaxNumber /\ Continue(s, [l EXCEPT !.number = k])
  <2>1. PICK m, n : m = [l EXCEPT !.number = k] /\ n = Done(m)
    OBVIOUS
  <2>2. k \in Nat
    <3>1. c \in Series
      BY <1>2, <1>3, Order, CounterExists DEF Ordered, Holds
    <3> QED
      BY <1>2, <1>3, <3>1 DEF TypeOK
  <2>3. /\ l \in Transaction /\ l.todo = t.todo /\ l.req = t.req /\ SameRow(t, l)
        /\ l.received = t.received /\ l.adjusted = t.adjusted /\ l.rate = t.rate
        /\ l.locks = t.locks \cup {lock}
    BY <1>2, <1>3, LockedIs DEF SameRow
  <2>4. /\ m \in Transaction /\ m.todo = t.todo /\ m.req = t.req /\ SameRow(t, m)
        /\ m.received = t.received /\ m.adjusted = t.adjusted /\ m.rate = t.rate
        /\ m.number = k /\ m.locks = t.locks \cup {lock}
    BY <2>1, <2>2, <2>3 DEF Transaction, SameRow
  <2>5. /\ After(t, n) /\ n.locks = t.locks \cup {lock} /\ SameRow(t, n)
        /\ n.received = t.received /\ n.adjusted = t.adjusted /\ n.rate = t.rate
        /\ n.number = k
    BY <1>3, <2>1, <2>4, Filled DEF SameRow
  <2>6. <<"counter", c>> \in n.locks
    BY <1>2, <2>5, LockWanted DEF LockNumber
  <2>7. Holds(n)
    BY <1>2, <1>3, <1>4, <2>5, <2>6, NumberStatement
  <2>8. tx' = [tx EXCEPT ![s] = n] /\ UNCHANGED vars /\ t = tx[s] /\ lock = WantedLock(s)
    BY <1>2, <1>4, <2>1 DEF Continue
  <2>9. After(t, n) /\ n.locks = t.locks \cup {lock}
    BY <2>5
  <2> QED
    BY <1>3, <2>7, <2>8, <2>9, WentOnLocked
<1>5. CounterOf(s) = c
  BY <1>2 DEF CounterOf, Counter, Op
<1> QED
  BY <1>1, <1>2, <1>4, <1>5 DEF LockNumber

\* A plan is a sequence of names of statements.
LEMMA PlanIsAPlan ==
  ASSUME NEW q \in Requests
  PROVE  Plan(q) \in Seq(Statements) /\ Len(Plan(q)) \in Nat \ {0}
<1>1. q.op \in Kinds /\ (q.op = "receipt" => q.status \in {"PENDING", "CONFIRMED"})
  BY RequestFields
<1>2. Len(Plan(q)) \in Nat \ {0}
  BY <1>1, UpdatePlan, IssuePlanSteps, CancelPlan, PendingPlan, ConfirmedPlan, ConfirmPlan,
     ReversePlan, AdjustPlan, ReadPlan, RulePlan DEF Kinds
<1>3. Settle \in Seq(Statements)
  BY DEF Settle, Statements
<1>4. ASSUME NEW status PROVE ReceiptPlan(status) \in Seq(Statements)
  <2>1. CASE status = "CONFIRMED"
    BY <1>3, <2>1, SMT DEF ReceiptPlan, Statements
  <2>2. CASE status # "CONFIRMED"
    BY <2>2, SMT DEF ReceiptPlan, Statements
  <2> QED
    BY <2>1, <2>2
<1>5. CASE q.op = "receipt"
  BY <1>2, <1>4, <1>5 DEF Plan
<1>6. CASE q.op \in {"cancel", "confirm", "adjust"}
  <2>1. /\ <<"invoice">> \o Settle \o <<"commit">> \in Seq(Statements)
        /\ <<"candidate", "invoice">> \o Settle \o <<"commit">> \in Seq(Statements)
        /\ <<"key", "retry", "invoice">> \o Settle \o <<"commit">> \in Seq(Statements)
    BY <1>3, SMT DEF Statements
  <2> QED
    BY <1>2, <1>6, <2>1 DEF Plan
<1>7. CASE q.op \in {"update", "issue", "reverse", "unadjust", "read", "rule"}
  <2>1. /\ <<"invoice", "check", "tax", "commit">> \in Seq(Statements)
        /\ <<"invoice", "check", "tax", "number", "commit">> \in Seq(Statements)
        /\ <<"candidate", "invoice", "check", "commit">> \in Seq(Statements)
        /\ <<"share", "receipts", "adjustments", "balance">> \in Seq(Statements)
        /\ <<"tax", "commit">> \in Seq(Statements)
    BY DEF Statements
  <2> QED
    BY <1>2, <1>7, <2>1 DEF Plan, IssuePlan
<1> QED
  BY <1>1, <1>5, <1>6, <1>7 DEF Kinds

\* A request begins with the version its user presents.
LEMMA BeginStep ==
  ASSUME TxInv, NEW s \in Sessions, NEW q \in Requests, Begin(s, q)
  PROVE  UNCHANGED vars /\ TxInv'
<1>1. PICK i, row, n :
        /\ i = IF "invoice" \in DOMAIN q THEN q.invoice ELSE Null
        /\ row = IF q.op \in {"update", "issue"} THEN seen[q.user][q.invoice] ELSE Null
        /\ n = [Idle EXCEPT !.todo = Plan(q), !.req = q, !.invoice = i, !.row = row]
  OBVIOUS
<1>2. tx[s] = Idle /\ tx' = [tx EXCEPT ![s] = n] /\ UNCHANGED vars /\ RowLeft(q) /\ TypeOK
  BY <1>1, InSession DEF Begin
<1>3. q.op \in {"update", "issue"} =>
        /\ q.user \in Users /\ q.invoice \in Invoices /\ row = seen[q.user][q.invoice]
        /\ row # NoRow /\ row \in InvoiceRow /\ row.version \in Nat
  <2>1. SUFFICES ASSUME q.op \in {"update", "issue"}
                 PROVE  /\ q.user \in Users /\ q.invoice \in Invoices
                        /\ row = seen[q.user][q.invoice]
                        /\ row # NoRow /\ row \in InvoiceRow /\ row.version \in Nat
    OBVIOUS
  <2>2. /\ q.user \in Users /\ q.invoice \in Invoices /\ row = seen[q.user][q.invoice]
        /\ row # NoRow
    BY <1>1, <2>1, RequestFields DEF Begin
  <2> QED
    BY <1>2, <2>2 DEF TypeOK, InvoiceRow
<1>4. q.op \in {"update", "issue", "cancel", "read", "receipt", "adjust"} =>
        i = q.invoice /\ i \in Invoices
  <2>1. q.op \in {"update", "issue", "cancel", "read", "receipt", "adjust"} =>
          "invoice" \in DOMAIN q
    BY DEF Requests
  <2> QED
    BY <1>1, <2>1, RequestFields
<1>5. q.op \notin {"update", "issue", "cancel", "read", "receipt", "adjust"} => i = Null
  <2>1. q.op \notin {"update", "issue", "cancel", "read", "receipt", "adjust"} =>
          "invoice" \notin DOMAIN q
    BY DEF Requests
  <2> QED
    BY <1>1, <2>1
<1>6. Plan(q) \in Seq(Statements) /\ Len(Plan(q)) \in Nat \ {0}
  BY PlanIsAPlan
<1>7. /\ n \in Transaction /\ n.todo = Plan(q) /\ n.req = q /\ n.invoice = i /\ n.row = row
      /\ n.locks = {}
  <2>1. i \in Invoices \cup {Null}
    BY <1>4, <1>5
  <2>2. row \in InvoiceRow \cup {NoRow, Null}
    BY <1>1, <1>3
  <2> QED
    BY <1>1, <1>6, <2>1, <2>2 DEF Idle, Transaction
<1>8. Executed(n) = 0
  BY <1>6, <1>7 DEF Executed
<1>9. \A y : ~Past(n, y)
  BY <1>8 DEF Past
<1>10. FollowsPlan(n)
  BY <1>6, <1>7, <1>8 DEF FollowsPlan
<1>11. LocksAreTaken(n)
  BY <1>7 DEF LocksAreTaken
<1>12. VersionRead(n)
  <2>1. SUFFICES ASSUME q.op \in {"update", "issue"}
                 PROVE  /\ row.version <= seen[q.user][q.invoice].version
                        /\ q.op = "update" => row.version < MaxVersion
    BY <1>3, <1>7 DEF VersionRead
  <2> QED
    BY <1>2, <1>3, <2>1 DEF RowLeft
<1>13. InvoiceKnown(n)
  BY <1>4, <1>6, <1>7, <1>9, RequestFields DEF InvoiceKnown, Kinds
<1>14. Holds(n)
  BY <1>9, <1>12, <1>13 DEF Holds, KeyHeld, InvoiceHeld, StillAccepted, SettlementRead, TaxHeld,
     NumberHeld
<1>15. [Next]_vars /\ ChangesUnder({}) /\ TypeOK'
  BY <1>2, NothingChanges, StepTyped
<1>16. Holds(n)'
  BY <1>2, <1>7, <1>10, <1>14, <1>15, Undisturbed, NothingApart
<1>17. ChangesUnder(tx[s].locks)
  BY <1>2, <1>15, IdleHolds
<1>18. Outcome(s, n)
  BY <1>2, <1>7, <1>10, <1>11, <1>15, <1>16, <1>17, NothingApart DEF Outcome
<1> QED
  BY <1>2, <1>18, Preserved

-----------------------------------------------------------------------------
(* The commits: each is the handler of the ledger, and writes under its locks *)

\* When a request commits, its plan is complete and all it has read still holds.
LEMMA Committing ==
  ASSUME TxInv, NEW s \in Sessions, NEW op, Commit(s, op), NEW t, t = tx[s]
  PROVE  /\ t \in Transaction /\ FollowsPlan(t) /\ Holds(t) /\ LedgerInv /\ TypeOK
         /\ t.todo # <<>> /\ t.req \in Requests /\ t.req.op = op
         /\ Head(t.todo) = "commit" /\ Complete(t)
<1>1. /\ t \in Transaction /\ FollowsPlan(t) /\ Holds(t) /\ LedgerInv /\ TypeOK
      /\ t.todo # <<>> /\ t.req.op = op /\ Head(t.todo) = "commit"
  BY InSession DEF Commit, At, Op, TxInv
<1> QED
  BY <1>1, Order DEF FollowsPlan

\* The row it has locked.
LEMMA CommittedRow ==
  ASSUME TxInv, NEW s \in Sessions,
         NEW op \in {"update", "issue", "cancel", "receipt", "confirm", "reverse", "unadjust",
                     "adjust"},
         Commit(s, op), NEW t, t = tx[s]
  PROVE  /\ t.invoice \in Invoices /\ t.row = invoices[t.invoice] /\ t.row # NoRow
         /\ t.row \in InvoiceRow /\ <<"invoice", t.invoice>> \in t.locks /\ AcceptedBy(t)
<1>1. /\ t \in Transaction /\ FollowsPlan(t) /\ Holds(t) /\ TypeOK
      /\ Past(t, "invoice") /\ Past(t, "check")
  BY Committing DEF Complete
<1>2. InvoiceKnown(t) /\ InvoiceHeld(t) /\ StillAccepted(t)
  BY <1>1 DEF Holds
<1>3. t.invoice \in Invoices /\ t.row = invoices[t.invoice] /\ t.row # NoRow /\ t.row \in InvoiceRow
  BY <1>1, <1>2, RowHeld
<1> QED
  BY <1>1, <1>2, <1>3 DEF InvoiceHeld, StillAccepted

\* What users have loaded stays.
LEMMA SeenStays ==
  ASSUME TypeOK, UNCHANGED seen
  PROVE  \A u \in Users, i \in Invoices : seen[u][i] # NoRow =>
           seen'[u][i] # NoRow /\ seen[u][i].version <= seen'[u][i].version
<1>1. \A u \in Users, i \in Invoices : seen[u][i] # NoRow => seen[u][i].version \in Nat
  BY DEF TypeOK, InvoiceRow
<1> QED
  BY <1>1

\* A commit that writes one invoice.
LEMMA InvoiceWritten ==
  ASSUME TypeOK, NEW i \in Invoices, NEW row, invoices' = [invoices EXCEPT ![i] = row],
         NEW L, <<"invoice", i>> \in L,
         \A c \in Series : counters'[c] = counters[c] \/ <<"counter", c>> \in L,
         UNCHANGED <<receipts, adjustments, rate, seen>>
  PROVE  ChangesUnder(L)
<1>1. \A j \in Invoices : j # i => invoices'[j] = invoices[j]
  BY DEF TypeOK
<1> QED
  BY <1>1, SeenStays DEF ChangesUnder, Kept

Edited(old, v, c, d, a, r, total, u) ==
  [old EXCEPT !.company = c, !.date = d, !.amount = a, !.rate = r, !.total = total,
              !.version = v, !.by = u]

\* An edit replaces a draft by the draft of today.
LEMMA DraftEdited ==
  ASSUME NEW old \in InvoiceRow, old.status = "DRAFT", old.number = 0, old.source = Null,
         NEW v, NEW c, NEW d, NEW a, NEW r, NEW total, NEW u
  PROVE  Edited(old, v, c, d, a, r, total, u)
           = [status |-> "DRAFT", version |-> v, company |-> c, date |-> d, amount |-> a,
              rate |-> r, total |-> total, number |-> 0, source |-> Null, by |-> u]
<1>1. old = [status |-> "DRAFT", version |-> old.version, company |-> old.company,
               date |-> old.date, amount |-> old.amount, rate |-> old.rate,
               total |-> old.total, number |-> 0, source |-> Null, by |-> old.by]
  BY DEF InvoiceRow
<1>2. PICK row1, row2, row3, row4, row5, row6, row7 :
        /\ row1 = [old EXCEPT !.company = c]
        /\ row2 = [row1 EXCEPT !.date = d]
        /\ row3 = [row2 EXCEPT !.amount = a]
        /\ row4 = [row3 EXCEPT !.rate = r]
        /\ row5 = [row4 EXCEPT !.total = total]
        /\ row6 = [row5 EXCEPT !.version = v]
        /\ row7 = [row6 EXCEPT !.by = u]
  OBVIOUS
<1>3. row1 = [status |-> "DRAFT", version |-> old.version, company |-> c,
               date |-> old.date, amount |-> old.amount, rate |-> old.rate,
               total |-> old.total, number |-> 0, source |-> Null, by |-> old.by]
  BY <1>2, <1>1
<1>4. row2 = [status |-> "DRAFT", version |-> old.version, company |-> c,
               date |-> d, amount |-> old.amount, rate |-> old.rate,
               total |-> old.total, number |-> 0, source |-> Null, by |-> old.by]
  BY <1>2, <1>3
<1>5. row3 = [status |-> "DRAFT", version |-> old.version, company |-> c,
               date |-> d, amount |-> a, rate |-> old.rate,
               total |-> old.total, number |-> 0, source |-> Null, by |-> old.by]
  BY <1>2, <1>4
<1>6. row4 = [status |-> "DRAFT", version |-> old.version, company |-> c,
               date |-> d, amount |-> a, rate |-> r,
               total |-> old.total, number |-> 0, source |-> Null, by |-> old.by]
  BY <1>2, <1>5
<1>7. row5 = [status |-> "DRAFT", version |-> old.version, company |-> c,
               date |-> d, amount |-> a, rate |-> r,
               total |-> total, number |-> 0, source |-> Null, by |-> old.by]
  BY <1>2, <1>6
<1>8. row6 = [status |-> "DRAFT", version |-> v, company |-> c,
               date |-> d, amount |-> a, rate |-> r,
               total |-> total, number |-> 0, source |-> Null, by |-> old.by]
  BY <1>2, <1>7
<1>9. row7 = [status |-> "DRAFT", version |-> v, company |-> c,
               date |-> d, amount |-> a, rate |-> r,
               total |-> total, number |-> 0, source |-> Null, by |-> u]
  BY <1>2, <1>8
<1> QED
  BY <1>2, <1>9 DEF Edited

\* The edit is of the version its user has loaded: the row lock keeps it until the commit.
LEMMA CommitUpdateStep ==
  ASSUME TxInv, NEW s \in Sessions, CommitUpdate(s)
  PROVE  [Next]_vars /\ TxInv'
<1>1. PICK t, q, i, u : t = tx[s] /\ q = t.req /\ i = t.invoice /\ u = q.user
  OBVIOUS
<1>2. /\ t \in Transaction /\ FollowsPlan(t) /\ Holds(t) /\ LedgerInv /\ TypeOK
      /\ t.todo # <<>> /\ q \in Requests /\ q.op = "update" /\ Past(t, "tax")
  BY <1>1, Committing DEF CommitUpdate, Complete
<1>3. /\ i \in Invoices /\ t.row = invoices[i] /\ invoices[i] \in InvoiceRow
      /\ <<"invoice", i>> \in t.locks /\ invoices[i].status = "DRAFT" /\ i = q.invoice
  BY <1>1, <1>2, CommittedRow DEF CommitUpdate, AcceptedBy, Holds, InvoiceKnown
<1>4. /\ u \in Users /\ q.company \in Companies /\ q.date \in Dates /\ q.amount \in Prices
  BY <1>1, <1>2, RequestFields
<1>5. t.rate = rate /\ GrandTotal(q.amount, rate) <= MaxMinor
  BY <1>1, <1>2 DEF Holds, TaxHeld
<1>6. VersionMatches(u, i) /\ invoices[i].version < MaxVersion
  <2>1. /\ seen[u][i] # NoRow /\ t.row.version <= seen[u][i].version
        /\ t.row.version < MaxVersion
    BY <1>1, <1>2, <1>3 DEF Holds, VersionRead
  <2>2. seen[u][i].version <= invoices[i].version
    BY <1>2, <1>3, <1>4, <2>1 DEF LedgerInv, ReadsAreRows
  <2>3. seen[u][i].version \in Nat /\ invoices[i].version \in Nat
    BY <1>2, <1>3, <1>4, <2>1 DEF TypeOK, InvoiceRow
  <2> QED
    BY <1>3, <2>1, <2>2, <2>3 DEF VersionMatches
<1>7. PICK row : row = Draft(u, invoices[i].version + 1, q.company, q.date, q.amount)
  OBVIOUS
<1>8. row = [invoices[i] EXCEPT !.company = q.company, !.date = q.date, !.amount = q.amount,
               !.rate = rate, !.total = GrandTotal(q.amount, rate),
               !.version = invoices[i].version + 1, !.by = u]
  <2>1. invoices[i].number = 0 /\ invoices[i].source = Null
    BY <1>2, <1>3 DEF LedgerInv, DraftsAreBlank
  <2>2. PICK v, total, r :
          v = invoices[i].version + 1 /\ total = GrandTotal(q.amount, rate) /\ r = rate
    OBVIOUS
  <2>3. row = [status |-> "DRAFT", version |-> v, company |-> q.company, date |-> q.date,
               amount |-> q.amount, rate |-> r, total |-> total, number |-> 0, source |-> Null,
               by |-> u]
    BY <1>7, <2>2 DEF Draft
  <2>4. row = Edited(invoices[i], v, q.company, q.date, q.amount, r, total, u)
    <3>1. invoices[i] \in InvoiceRow /\ invoices[i].status = "DRAFT"
      BY <1>3
    <3> QED
      BY <2>1, <2>3, <3>1, DraftEdited
  <2> QED
    BY <2>2, <2>4 DEF Edited
<1>9. /\ invoices' = [invoices EXCEPT ![i] = row]
      /\ UNCHANGED <<receipts, adjustments, counters, outbox, rate, seen>>
  BY <1>1, <1>3, <1>5, <1>8 DEF CommitUpdate
<1>10. UpdateDraft(u, i, q.company, q.date, q.amount)
  BY <1>3, <1>5, <1>6, <1>7, <1>9 DEF UpdateDraft, Editable
<1>11. Next
  BY <1>3, <1>4, <1>10 DEF Next, InvoiceStep
<1>12. ChangesUnder(t.locks)
  BY <1>2, <1>3, <1>9, InvoiceWritten
<1> QED
  BY <1>1, <1>11, <1>12, Ended DEF CommitUpdate, Commit

\* The number an issue has taken is not in use: it is behind no other invoice.
LEMMA CommitIssueStep ==
  ASSUME TxInv, NEW s \in Sessions, CommitIssue(s)
  PROVE  [Next]_vars /\ TxInv'
<1>1. PICK t, q, i, u, c, n :
        /\ t = tx[s] /\ q = t.req /\ i = t.invoice /\ u = q.user /\ c = Counter(t)
        /\ n = t.number
  OBVIOUS
<1>2. /\ t \in Transaction /\ FollowsPlan(t) /\ Holds(t) /\ LedgerInv /\ TypeOK
      /\ t.todo # <<>> /\ q \in Requests /\ q.op = "issue" /\ Past(t, "tax")
      /\ Past(t, "number") /\ Past(t, "invoice")
  BY <1>1, Committing DEF CommitIssue, Complete
<1>3. /\ i \in Invoices /\ t.row = invoices[i] /\ invoices[i] \in InvoiceRow
      /\ <<"invoice", i>> \in t.locks /\ invoices[i].status = "DRAFT" /\ i = q.invoice
      /\ invoices[i] # NoRow
  BY <1>1, <1>2, CommittedRow DEF CommitIssue, AcceptedBy, Holds, InvoiceKnown
<1>4. u \in Users
  BY <1>1, <1>2, RequestFields
<1>5. t.rate = rate /\ invoices[i].rate = rate
  BY <1>1, <1>2, <1>3 DEF Holds, TaxHeld
<1>6. VersionMatches(u, i)
  <2>1. /\ seen[u][i] # NoRow /\ t.row.version <= seen[u][i].version
    BY <1>1, <1>2, <1>3 DEF Holds, VersionRead
  <2>2. seen[u][i].version <= invoices[i].version
    BY <1>2, <1>3, <1>4, <2>1 DEF LedgerInv, ReadsAreRows
  <2>3. seen[u][i].version \in Nat /\ invoices[i].version \in Nat
    BY <1>2, <1>3, <1>4, <2>1 DEF TypeOK, InvoiceRow
  <2> QED
    BY <1>3, <2>1, <2>2, <2>3 DEF VersionMatches
<1>7. /\ c = SeriesOf(invoices[i].company, invoices[i].date, "I") /\ c \in Series
      /\ <<"counter", c>> \in t.locks /\ counters[c] < MaxNumber /\ n = NextNumber(c)
  <2>1. c \in Series
    BY <1>1, <1>2, CounterExists DEF Holds
  <2> QED
    BY <1>1, <1>2, <1>3, <2>1 DEF Holds, NumberHeld, Counter, NextNumber
<1>8. NumberFree(invoices[i].company, invoices[i].date, n)
  <2>1. SUFFICES ASSUME NEW j \in Invoices, invoices[j] # NoRow,
                        invoices[j].company = invoices[i].company,
                        FinancialYear(invoices[j].date) = FinancialYear(invoices[i].date)
                 PROVE  invoices[j].number # n
    BY DEF NumberFree
  <2>2. SeriesOf(invoices[j].company, invoices[j].date, "I") = c
    BY <1>7, <2>1 DEF SeriesOf
  <2>3. invoices[j].number <= counters[c]
    BY <1>2, <2>1, <2>2 DEF LedgerInv, InvoiceSeriesAhead
  <2>4. invoices[j].number \in Int /\ counters[c] \in Nat
    BY <1>2, <1>7, <2>1 DEF TypeOK, InvoiceRow
  <2> QED
    BY <1>7, <2>3, <2>4 DEF NextNumber
<1>9. PICK row : row = [invoices[i] EXCEPT !.status = "ISSUED", !.number = n, !.rate = rate,
                          !.total = GrandTotal(invoices[i].amount, rate),
                          !.version = invoices[i].version + 1, !.by = u]
  OBVIOUS
<1>10. /\ invoices' = [invoices EXCEPT ![i] = row]
       /\ counters' = [counters EXCEPT ![c] = n]
       /\ Emit(<<"issued", i>>)
       /\ UNCHANGED <<receipts, adjustments, rate, seen>>
  <2>1. CounterOf(s) = c
    BY <1>1, <1>2 DEF CounterOf, Counter, Op
  <2> QED
    BY <1>1, <1>3, <1>5, <1>9, <2>1 DEF CommitIssue
<1>11. TakeNumber(c)
  BY <1>7, <1>10 DEF TakeNumber
<1>12. Issue(u, i)
  BY <1>3, <1>5, <1>6, <1>7, <1>8, <1>9, <1>10, <1>11 DEF Issue, Editable, TaxesReviewed
<1>13. Next
  BY <1>3, <1>4, <1>12 DEF Next, InvoiceStep
<1>14. ChangesUnder(t.locks)
  <2>1. \A d \in Series : counters'[d] = counters[d] \/ <<"counter", d>> \in t.locks
    BY <1>2, <1>7, <1>10 DEF TypeOK
  <2> QED
    BY <1>2, <1>3, <1>10, <2>1, InvoiceWritten
<1> QED
  BY <1>1, <1>13, <1>14, Ended DEF CommitIssue, Commit

\* Nothing counted: no settlement is open.
LEMMA NothingOpen ==
  ASSUME TypeOK, NEW i, Cardinality(Open(i)) + Adjusted(i) = 0
  PROVE  Unsettled(i)
<1>1. Cardinality(Open(i)) \in Nat /\ IsFiniteSet(Open(i)) /\ Adjusted(i) \in Nat
  BY OpenIsCounted, SettledIsNatural
<1>2. Open(i) = {}
  <2>1. Cardinality(Open(i)) = 0
    BY <1>1
  <2> QED
    BY <1>1, <2>1, FS_EmptySet
<1>3. ActiveAdjustments(i) = {}
  <2>1. SUFFICES ASSUME NEW x \in ActiveAdjustments(i) PROVE FALSE
    OBVIOUS
  <2>2. adjustments[x].amount \in 1 .. MaxMinor
    BY <2>1 DEF ActiveAdjustments, TypeOK, AdjustmentRow, NoRow
  <2>3. <<x, 1>> \in Paise(ActiveAdjustments(i), adjustments)
    BY <2>1, <2>2, AmountsAreNatural DEF Paise
  <2>4. Adjusted(i) = 0 /\ IsFiniteSet(Paise(ActiveAdjustments(i), adjustments))
    BY <1>1, SettlementsAreFinite, SumIsNatural
  <2> QED
    BY <2>3, <2>4, FS_EmptySet DEF Adjusted
<1> QED
  BY <1>2, <1>3 DEF Unsettled, Open, Reversible

\* A cancelled invoice has no settlement: none can be recorded while its row is locked.
LEMMA CommitCancelStep ==
  ASSUME TxInv, NEW s \in Sessions, CommitCancel(s)
  PROVE  [Next]_vars /\ TxInv'
<1>1. PICK t, q, i, u : t = tx[s] /\ q = t.req /\ i = t.invoice /\ u = q.user
  OBVIOUS
<1>2. /\ t \in Transaction /\ FollowsPlan(t) /\ Holds(t) /\ LedgerInv /\ TypeOK
      /\ t.todo # <<>> /\ q \in Requests /\ q.op = "cancel" /\ Past(t, "receipts")
      /\ Past(t, "adjustments")
  BY <1>1, Committing DEF CommitCancel, Complete
<1>3. /\ i \in Invoices /\ t.row = invoices[i] /\ invoices[i] \in InvoiceRow
      /\ <<"invoice", i>> \in t.locks /\ invoices[i].status = "ISSUED" /\ i = q.invoice
  BY <1>1, <1>2, CommittedRow DEF CommitCancel, AcceptedBy, Holds, InvoiceKnown
<1>4. u \in Users
  BY <1>1, <1>2, RequestFields
<1>5. Unsettled(i)
  <2>1. Cardinality(Open(i)) + Adjusted(i) = 0
    BY <1>1, <1>2 DEF Holds, SettlementRead, Covered
  <2> QED
    BY <1>2, <2>1, NothingOpen
<1>6. PICK row : row = [invoices[i] EXCEPT !.status = "CANCELLED",
                          !.version = invoices[i].version + 1, !.by = u]
  OBVIOUS
<1>7. /\ invoices' = [invoices EXCEPT ![i] = row]
      /\ Emit(<<"cancelled", i>>)
      /\ UNCHANGED <<receipts, adjustments, counters, rate, seen>>
  BY <1>1, <1>3, <1>6 DEF CommitCancel
<1>8. Cancel(u, i)
  BY <1>3, <1>5, <1>6, <1>7 DEF Cancel
<1>9. Next
  BY <1>3, <1>4, <1>8 DEF Next, InvoiceStep
<1>10. ChangesUnder(t.locks)
  BY <1>2, <1>3, <1>7, InvoiceWritten
<1> QED
  BY <1>1, <1>9, <1>10, Ended DEF CommitCancel, Commit

\* A commit that writes one receipt, or one adjustment.
LEMMA ReceiptWritten ==
  ASSUME TypeOK, NEW r \in Receipts, NEW row, receipts' = [receipts EXCEPT ![r] = row],
         NEW L, Kept(receipts[r], row, L),
         \A c \in Series : counters'[c] = counters[c] \/ <<"counter", c>> \in L,
         UNCHANGED <<invoices, adjustments, rate, seen>>
  PROVE  ChangesUnder(L)
<1>1. \A x \in Receipts : Kept(receipts[x], receipts'[x], L)
  <2>1. SUFFICES ASSUME NEW x \in Receipts PROVE Kept(receipts[x], receipts'[x], L)
    OBVIOUS
  <2>2. CASE x = r
    BY <2>2 DEF TypeOK
  <2>3. CASE x # r
    BY <2>3 DEF TypeOK, Kept
  <2> QED
    BY <2>2, <2>3
<1>2. \A x \in Adjustments : Kept(adjustments[x], adjustments'[x], L)
  BY DEF Kept
<1> QED
  BY <1>1, <1>2, SeenStays DEF ChangesUnder

LEMMA AdjustmentWritten ==
  ASSUME TypeOK, NEW x \in Adjustments, NEW row,
         adjustments' = [adjustments EXCEPT ![x] = row], NEW L, Kept(adjustments[x], row, L),
         UNCHANGED <<invoices, receipts, counters, rate, seen>>
  PROVE  ChangesUnder(L)
<1>1. \A y \in Adjustments : Kept(adjustments[y], adjustments'[y], L)
  <2>1. SUFFICES ASSUME NEW y \in Adjustments PROVE Kept(adjustments[y], adjustments'[y], L)
    OBVIOUS
  <2>2. CASE y = x
    BY <2>2 DEF TypeOK
  <2>3. CASE y # x
    BY <2>3 DEF TypeOK, Kept
  <2> QED
    BY <2>2, <2>3
<1>2. \A r \in Receipts : Kept(receipts[r], receipts'[r], L)
  BY DEF Kept
<1> QED
  BY <1>1, <1>2, SeenStays DEF ChangesUnder

\* Within what is due: what was summed under the lock is still the sum.
LEMMA DueCovers ==
  ASSUME TypeOK, NEW t, SettlementRead(t), Past(t, "receipts"), Past(t, "adjustments"),
         t.req.op \in {"receipt", "confirm", "adjust"}, NEW i \in Invoices, i = t.invoice,
         t.row = invoices[i], invoices[i] \in InvoiceRow, NEW amount, amount = RequestedBy(t)
  PROVE  CheckSettlement(i, amount)
<1>1. amount <= invoices[i].total - (Received(i) + Adjusted(i))
  BY DEF SettlementRead, Covered
<1>2. Received(i) \in Nat /\ Adjusted(i) \in Nat /\ invoices[i].total \in Nat
  BY SettledIsNatural DEF InvoiceRow
<1>3. PICK a, b, total : a = Received(i) /\ b = Adjusted(i) /\ total = invoices[i].total
  OBVIOUS
<1>4. total - (a + b) = total - a - b
  BY <1>2, <1>3
<1> QED
  BY <1>1, <1>3, <1>4 DEF CheckSettlement, Due

\* A receipt is new by its key, within what is due and has the next number: the three locks
\* keep all of it since it was read.
LEMMA CommitReceiptStep ==
  ASSUME TxInv, NEW s \in Sessions, NEW r \in Receipts, CommitReceipt(s, r)
  PROVE  [Next]_vars /\ TxInv'
<1>1. PICK t, q, i, c, n :
        t = tx[s] /\ q = t.req /\ i = t.invoice /\ c = Counter(t) /\ n = t.number
  OBVIOUS
<1>2. /\ t \in Transaction /\ FollowsPlan(t) /\ Holds(t) /\ TypeOK
      /\ t.todo # <<>> /\ q \in Requests /\ q.op = "receipt" /\ Past(t, "key")
      /\ Past(t, "retry") /\ Past(t, "number") /\ Past(t, "invoice")
      /\ q.status = "CONFIRMED" => Past(t, "receipts") /\ Past(t, "adjustments")
  BY <1>1, Committing DEF CommitReceipt, Complete
<1>3. /\ i \in Invoices /\ t.row = invoices[i] /\ invoices[i] \in InvoiceRow
      /\ <<"invoice", i>> \in t.locks /\ invoices[i].status = "ISSUED" /\ i = q.invoice
  BY <1>1, <1>2, CommittedRow DEF CommitReceipt, AcceptedBy, Holds, InvoiceKnown
<1>4. /\ q.date \in Dates /\ q.amount \in Amounts /\ q.key \in Keys
      /\ q.method \in {"MANUAL", "GATEWAY"} /\ q.status \in {"PENDING", "CONFIRMED"}
      /\ q.method = "GATEWAY" => q.status = "CONFIRMED"
  BY <1>2, RequestFields
<1>5. ReceiptKeyFree(q.key) /\ <<"key", q.key>> \in t.locks
  BY <1>1, <1>2 DEF Holds, KeyHeld, KeyFree
<1>6. q.status = "CONFIRMED" => CheckSettlement(i, q.amount)
  <2>1. SUFFICES ASSUME q.status = "CONFIRMED" PROVE CheckSettlement(i, q.amount)
    OBVIOUS
  <2>2. q.amount = RequestedBy(t) /\ t.req.op = "receipt" /\ SettlementRead(t)
    BY <1>1, <1>2 DEF RequestedBy, Holds
  <2> QED
    BY <1>1, <1>2, <1>3, <2>1, <2>2, DueCovers
<1>7. /\ c = SeriesOf(invoices[i].company, q.date, "R") /\ c \in Series
      /\ <<"counter", c>> \in t.locks /\ counters[c] < MaxNumber /\ n = NextNumber(c)
  <2>1. c \in Series
    BY <1>1, <1>2, CounterExists DEF Holds
  <2> QED
    BY <1>1, <1>2, <1>3, <2>1 DEF Holds, NumberHeld, Counter, NextNumber
<1>8. PICK row : row = [status |-> q.status, invoice |-> i, company |-> invoices[i].company,
                        date |-> q.date, amount |-> q.amount, method |-> q.method,
                        key |-> q.key, number |-> n]
  OBVIOUS
<1>9. /\ receipts[r] = NoRow
      /\ receipts' = [receipts EXCEPT ![r] = row]
      /\ counters' = [counters EXCEPT ![c] = n]
      /\ Emit(<<IF q.status = "PENDING" THEN "created PENDING" ELSE "created CONFIRMED", r>>)
      /\ UNCHANGED <<invoices, adjustments, rate, seen>>
  <2>1. CounterOf(s) = c
    BY <1>1, <1>2 DEF CounterOf, Counter, Op
  <2> QED
    BY <1>1, <1>3, <1>8, <2>1 DEF CommitReceipt
<1>10. TakeNumber(c)
  BY <1>7, <1>9 DEF TakeNumber
<1>11. CreateReceipt(r, i, q.date, q.amount, q.method, q.status, q.key)
  BY <1>3, <1>4, <1>5, <1>6, <1>7, <1>8, <1>9, <1>10 DEF CreateReceipt, RequireIssued
<1>12. Next
  BY <1>3, <1>4, <1>11 DEF Next, ReceiptStep
<1>13. ChangesUnder(t.locks)
  <2>1. \A d \in Series : counters'[d] = counters[d] \/ <<"counter", d>> \in t.locks
    BY <1>2, <1>7, <1>9 DEF TypeOK
  <2>2. Kept(receipts[r], row, t.locks)
    BY <1>3, <1>5, <1>8, <1>9 DEF Kept, NoRow
  <2> QED
    BY <1>2, <1>9, <2>1, <2>2, ReceiptWritten
<1> QED
  BY <1>1, <1>12, <1>13, Ended DEF CommitReceipt, Commit

\* A receipt that is confirmed or reversed is the one that named the invoice.
LEMMA CommitChangeStep ==
  ASSUME TxInv, NEW s \in Sessions, CommitChange(s)
  PROVE  [Next]_vars /\ TxInv'
<1>1. PICK t, q, i, r : t = tx[s] /\ q = t.req /\ i = t.invoice /\ r = q.receipt
  OBVIOUS
<1>2. PICK op \in {"confirm", "reverse"} : Commit(s, op) /\ q.op = op
  BY <1>1 DEF CommitChange, Commit, Op
<1>3. /\ t \in Transaction /\ FollowsPlan(t) /\ Holds(t) /\ TypeOK
      /\ t.todo # <<>> /\ q \in Requests /\ q.op = op /\ Past(t, "candidate")
      /\ op = "confirm" => Past(t, "receipts") /\ Past(t, "adjustments")
  BY <1>1, <1>2, Committing DEF Complete
<1>4. /\ i \in Invoices /\ t.row = invoices[i] /\ invoices[i] \in InvoiceRow
      /\ <<"invoice", i>> \in t.locks /\ AcceptedBy(t)
  BY <1>1, <1>2, CommittedRow
<1>5. r \in Receipts /\ receipts[r] # NoRow /\ i = receipts[r].invoice
      /\ receipts[r] \in ReceiptRow
  <2>1. r \in Receipts
    BY <1>1, <1>3, RequestFields
  <2>2. receipts[r] # NoRow /\ i = receipts[r].invoice
    BY <1>1, <1>3 DEF Holds, InvoiceKnown, NamedRow
  <2> QED
    BY <1>3, <2>1, <2>2 DEF TypeOK
<1>6. PICK row : row = [receipts[r] EXCEPT !.status =
                          IF op = "confirm" THEN "CONFIRMED" ELSE "REVERSED"]
  OBVIOUS
<1>7. /\ receipts' = [receipts EXCEPT ![r] = row]
      /\ Emit(IF op = "confirm" THEN <<"confirmed", r>> ELSE <<"reversed", r>>)
      /\ UNCHANGED <<invoices, adjustments, counters, rate, seen>>
  BY <1>1, <1>2, <1>5, <1>6 DEF CommitChange, Commit, Op
<1>8. ASSUME op = "confirm" PROVE Next
  <2>1. receipts[r].status = "PENDING" /\ invoices[i].status = "ISSUED"
    BY <1>1, <1>3, <1>4, <1>8 DEF AcceptedBy
  <2>2. receipts[r].amount = RequestedBy(t) /\ t.req.op = "confirm" /\ SettlementRead(t)
        /\ Past(t, "receipts") /\ Past(t, "adjustments")
    BY <1>1, <1>3, <1>8 DEF RequestedBy, Holds
  <2>3. CheckSettlement(i, receipts[r].amount)
    BY <1>1, <1>3, <1>4, <2>2, DueCovers
  <2>4. ConfirmReceipt(r)
    BY <1>5, <1>6, <1>7, <1>8, <2>1, <2>3 DEF ConfirmReceipt, RequireIssued
  <2> QED
    BY <1>5, <2>4 DEF Next, ReceiptStep
<1>9. ASSUME op = "reverse" PROVE Next
  <2>1. Reversible(r) /\ receipts[r].method # "GATEWAY"
    BY <1>1, <1>3, <1>4, <1>9 DEF AcceptedBy
  <2>2. ReverseReceipt(r)
    BY <1>5, <1>6, <1>7, <1>9, <2>1 DEF ReverseReceipt
  <2> QED
    BY <1>5, <2>2 DEF Next, ReceiptStep
<1>10. ChangesUnder(t.locks)
  <2>1. row # NoRow /\ row.invoice = receipts[r].invoice /\ row.key = receipts[r].key
    BY <1>5, <1>6 DEF ReceiptRow, NoRow
  <2>2. Kept(receipts[r], row, t.locks)
    BY <1>4, <1>5, <2>1 DEF Kept
  <2> QED
    BY <1>3, <1>5, <1>7, <2>2, ReceiptWritten
<1>11. Next
  BY <1>8, <1>9
<1> QED
  BY <1>1, <1>2, <1>10, <1>11, Ended DEF Commit

\* An adjustment is new by its key and within what is due.
LEMMA CommitAdjustmentStep ==
  ASSUME TxInv, NEW s \in Sessions, NEW x \in Adjustments, CommitAdjustment(s, x)
  PROVE  [Next]_vars /\ TxInv'
<1>1. PICK t, q, i : t = tx[s] /\ q = t.req /\ i = t.invoice
  OBVIOUS
<1>2. /\ t \in Transaction /\ FollowsPlan(t) /\ Holds(t) /\ TypeOK
      /\ t.todo # <<>> /\ q \in Requests /\ q.op = "adjust" /\ Past(t, "key")
      /\ Past(t, "retry") /\ Past(t, "receipts") /\ Past(t, "adjustments")
  BY <1>1, Committing, SMTT(30) DEF CommitAdjustment, Complete
<1>3. /\ i \in Invoices /\ t.row = invoices[i] /\ invoices[i] \in InvoiceRow
      /\ <<"invoice", i>> \in t.locks /\ invoices[i].status = "ISSUED" /\ i = q.invoice
      /\ q.date >= invoices[i].date
  BY <1>1, <1>2, CommittedRow DEF CommitAdjustment, AcceptedBy, Holds, InvoiceKnown
<1>4. q.date \in Dates /\ q.amount \in Amounts /\ q.key \in Keys
  BY <1>2, RequestFields
<1>5. AdjustmentKeyFree(q.key) /\ <<"key", q.key>> \in t.locks
  BY <1>1, <1>2 DEF Holds, KeyHeld, KeyFree
<1>6. CheckSettlement(i, q.amount)
  <2>1. q.amount = RequestedBy(t) /\ t.req.op = "adjust" /\ SettlementRead(t)
    BY <1>1, <1>2 DEF RequestedBy, Holds
  <2> QED
    BY <1>1, <1>2, <1>3, <2>1, DueCovers
<1>7. PICK row : row = [status |-> "ACTIVE", invoice |-> i, amount |-> q.amount, key |-> q.key]
  OBVIOUS
<1>8. /\ adjustments[x] = NoRow
      /\ adjustments' = [adjustments EXCEPT ![x] = row]
      /\ UNCHANGED <<invoices, receipts, counters, outbox, rate, seen>>
  BY <1>1, <1>3, <1>7 DEF CommitAdjustment
<1>9. CreateAdjustment(x, i, q.date, q.amount, q.key)
  BY <1>3, <1>5, <1>6, <1>7, <1>8 DEF CreateAdjustment, RequireIssued
<1>10. Next
  BY <1>3, <1>4, <1>9 DEF Next, AdjustmentStep
<1>11. ChangesUnder(t.locks)
  <2>1. Kept(adjustments[x], row, t.locks)
    BY <1>3, <1>5, <1>7, <1>8 DEF Kept, NoRow
  <2> QED
    BY <1>2, <1>8, <2>1, AdjustmentWritten
<1> QED
  BY <1>1, <1>10, <1>11, Ended DEF CommitAdjustment, Commit

\* An adjustment that is reversed is active: its invoice is locked.
LEMMA CommitUnadjustStep ==
  ASSUME TxInv, NEW s \in Sessions, CommitUnadjust(s)
  PROVE  [Next]_vars /\ TxInv'
<1>1. PICK t, q, i, x : t = tx[s] /\ q = t.req /\ i = t.invoice /\ x = q.adjustment
  OBVIOUS
<1>2. /\ t \in Transaction /\ FollowsPlan(t) /\ Holds(t) /\ TypeOK
      /\ t.todo # <<>> /\ q \in Requests /\ q.op = "unadjust" /\ Past(t, "candidate")
  BY <1>1, Committing, SMTT(30) DEF CommitUnadjust, Complete
<1>3. i \in Invoices /\ <<"invoice", i>> \in t.locks /\ adjustments[x].status = "ACTIVE"
  BY <1>1, <1>2, CommittedRow DEF CommitUnadjust, AcceptedBy
<1>4. x \in Adjustments /\ adjustments[x] # NoRow /\ i = adjustments[x].invoice
      /\ adjustments[x] \in AdjustmentRow
  <2>1. x \in Adjustments
    BY <1>1, <1>2, RequestFields
  <2>2. adjustments[x] # NoRow /\ i = adjustments[x].invoice
    BY <1>1, <1>2 DEF Holds, InvoiceKnown, NamedRow
  <2> QED
    BY <1>2, <2>1, <2>2 DEF TypeOK
<1>5. PICK row : row = [adjustments[x] EXCEPT !.status = "REVERSED"]
  OBVIOUS
<1>6. /\ adjustments' = [adjustments EXCEPT ![x] = row]
      /\ UNCHANGED <<invoices, receipts, counters, outbox, rate, seen>>
  BY <1>1, <1>4, <1>5 DEF CommitUnadjust
<1>7. ReverseAdjustment(x)
  BY <1>3, <1>5, <1>6 DEF ReverseAdjustment
<1>8. Next
  BY <1>4, <1>7 DEF Next, AdjustmentStep
<1>9. ChangesUnder(t.locks)
  <2>1. row # NoRow /\ row.invoice = adjustments[x].invoice /\ row.key = adjustments[x].key
    BY <1>4, <1>5 DEF AdjustmentRow, NoRow
  <2>2. Kept(adjustments[x], row, t.locks)
    BY <1>3, <1>4, <2>1 DEF Kept
  <2> QED
    BY <1>2, <1>4, <1>6, <2>2, AdjustmentWritten
<1> QED
  BY <1>1, <1>8, <1>9, Ended DEF CommitUnadjust, Commit

\* Rules change under the lock of the rules.
LEMMA CommitRuleStep ==
  ASSUME TxInv, NEW s \in Sessions, CommitRule(s)
  PROVE  [Next]_vars /\ TxInv'
<1>1. PICK t, q : t = tx[s] /\ q = t.req
  OBVIOUS
<1>2. /\ t \in Transaction /\ Holds(t) /\ TypeOK /\ q \in Requests /\ q.op = "rule"
      /\ Past(t, "tax")
  BY <1>1, Committing DEF CommitRule, Complete
<1>3. q.rate \in Rates /\ <<"tax">> \in t.locks
  BY <1>1, <1>2, RequestFields DEF Holds, TaxHeld
<1>4. rate' = q.rate /\ UNCHANGED <<invoices, receipts, adjustments, counters, outbox, seen>>
  BY <1>1 DEF CommitRule
<1>5. Next
  BY <1>3, <1>4 DEF Next, ChangeTaxRule
<1>6. ChangesUnder(t.locks)
  BY <1>2, <1>3, <1>4, SeenStays DEF ChangesUnder, Kept
<1> QED
  BY <1>1, <1>5, <1>6, Ended DEF CommitRule, Commit

-----------------------------------------------------------------------------
(* The steps of no transaction, and the induction *)

\* A statement of its own disturbs no transaction: it writes nothing a transaction has locked.
LEMMA OutsideStep ==
  ASSUME TxInv, [Next]_vars, ChangesUnder({}), UNCHANGED tx
  PROVE  TxInv'
<1>1. LedgerInv' /\ TypeOK /\ TypeOK'
  BY LedgerInvStep DEF TxInv, LedgerInv
<1>2. ASSUME NEW q \in Sessions
      PROVE  FollowsPlan(tx[q])' /\ LocksAreTaken(tx[q])' /\ Holds(tx[q])'
  <2>1. PICK t : t = tx[q]
    OBVIOUS
  <2>2. t \in Transaction /\ FollowsPlan(t) /\ LocksAreTaken(t) /\ Holds(t) /\ t = tx'[q]
    BY <2>1, InSession
  <2>3. Holds(t)'
    BY <1>1, <2>2, Undisturbed, NothingApart
  <2>4. Holds(tx[q])'
    BY <2>2, <2>3, HoldsNamed
  <2>5. FollowsPlan(tx[q])' /\ LocksAreTaken(tx[q])'
    BY <2>2 DEF FollowsPlan, LocksAreTaken, Executed, Past
  <2> QED
    BY <2>4, <2>5
<1>3. LocksExclude' /\ (tx \in [Sessions -> Transaction])'
  BY DEF TxInv, Transactional, LocksExclude, Exclusive
<1> QED
  BY <1>1, <1>2, <1>3 DEF TxInv, Transactional

\* Loading a row: what was loaded before is not newer.
LEMMA LoadTxStep ==
  ASSUME TxInv, NEW u \in Users, NEW i \in Invoices, LoadTx(u, i)
  PROVE  [Next]_vars /\ TxInv'
<1>1. Load(u, i) /\ UNCHANGED tx /\ TypeOK /\ ReadsAreRows
  BY DEF LoadTx, TxInv, LedgerInv
<1>2. Next
  BY <1>1 DEF Next, InvoiceStep
<1>3. \A v \in Users, j \in Invoices : seen[v][j] # NoRow =>
        seen'[v][j] # NoRow /\ seen[v][j].version <= seen'[v][j].version
  <2>1. SUFFICES ASSUME NEW v \in Users, NEW j \in Invoices, seen[v][j] # NoRow
                 PROVE  /\ seen'[v][j] # NoRow
                        /\ seen[v][j].version <= seen'[v][j].version
    OBVIOUS
  <2>2. seen[v][j].version \in Nat
    BY <1>1, <2>1 DEF TypeOK, InvoiceRow
  <2>3. CASE v = u /\ j = i
    <3>1. seen'[v][j] = invoices[j] /\ invoices[j] # NoRow
      BY <1>1, <2>3 DEF Load, TypeOK
    <3>2. seen[v][j].version <= invoices[j].version
      BY <1>1, <2>1 DEF ReadsAreRows
    <3> QED
      BY <3>1, <3>2
  <2>4. CASE ~(v = u /\ j = i)
    <3>1. seen'[v][j] = seen[v][j]
      BY <1>1, <2>4 DEF Load, TypeOK
    <3> QED
      BY <2>1, <2>2, <3>1
  <2> QED
    BY <2>3, <2>4
<1>4. ChangesUnder({})
  BY <1>1, <1>3 DEF Load, billing, ChangesUnder, Kept
<1> QED
  BY <1>1, <1>2, <1>4, OutsideStep

\* A new row: no transaction has read that it was absent.
LEMMA CreateDraftTxStep ==
  ASSUME TxInv, NEW u \in Users, NEW i \in Invoices, NEW c \in Companies, NEW d \in Dates,
         NEW a \in Prices, CreateDraftTx(u, i, c, d, a)
  PROVE  [Next]_vars /\ TxInv'
<1>1. CreateDraft(u, i, c, d, a) /\ UNCHANGED tx /\ TypeOK
  BY DEF CreateDraftTx, TxInv, LedgerInv
<1>2. Next
  BY <1>1 DEF Next, InvoiceStep
<1>3. \A j \in Invoices : invoices'[j] = invoices[j] \/ invoices[j] = NoRow
  BY <1>1 DEF CreateDraft, TypeOK
<1>4. ChangesUnder({})
  BY <1>1, <1>3, SeenStays DEF CreateDraft, ChangesUnder, Kept
<1> QED
  BY <1>1, <1>2, <1>4, OutsideStep

LEMMA TxInvInit == TxInit => Init /\ TxInv
<1> SUFFICES ASSUME TxInit PROVE Init /\ TxInv
  OBVIOUS
<1>1. Init /\ LedgerInv /\ tx = [s \in Sessions |-> Idle]
  BY LedgerInvInit DEF TxInit
<1>2. \A s \in Sessions : tx[s] = Idle
  BY <1>1
<1>3. Transactional
  BY <1>1, <1>2, IdleHolds DEF Transactional, LocksExclude, Exclusive
<1> QED
  BY <1>1, <1>3 DEF TxInv

\* Every step keeps the invariant and is a step of the ledger, or changes nothing of it.
LEMMA TxInvStep == TxInv /\ [TxNext]_txVars => [Next]_vars /\ TxInv'
<1> SUFFICES ASSUME TxInv, [TxNext]_txVars PROVE [Next]_vars /\ TxInv'
  OBVIOUS
<1>1. ASSUME NEW s \in Sessions, Step(s) PROVE [Next]_vars /\ TxInv'
  <2>1. CASE \/ LockKey(s) \/ Retry(s) \/ Candidate(s) \/ LockInvoice(s) \/ ShareInvoice(s)
             \/ Check(s) \/ SumReceipts(s) \/ SumAdjustments(s) \/ LockTax(s) \/ LockNumber(s)
    BY <2>1, LockKeyStep, RetryStep, CandidateStep, LockInvoiceStep, ShareInvoiceStep, CheckStep,
       SumReceiptsStep, SumAdjustmentsStep, LockTaxStep, LockNumberStep
  <2>2. CASE AnswerRead(s)
    BY <2>2, RolledBack DEF AnswerRead, Rollback
  <2>3. CASE \/ CommitUpdate(s) \/ CommitIssue(s) \/ CommitCancel(s) \/ CommitChange(s)
             \/ CommitUnadjust(s) \/ CommitRule(s)
    BY <2>3, CommitUpdateStep, CommitIssueStep, CommitCancelStep, CommitChangeStep,
       CommitUnadjustStep, CommitRuleStep
  <2>4. CASE \E r \in Receipts : CommitReceipt(s, r)
    BY <2>4, CommitReceiptStep
  <2>5. CASE \E x \in Adjustments : CommitAdjustment(s, x)
    BY <2>5, CommitAdjustmentStep
  <2> QED
    BY <1>1, <2>1, <2>2, <2>3, <2>4, <2>5 DEF Step
<1>2. ASSUME NEW s \in Sessions, Crash(s) PROVE [Next]_vars /\ TxInv'
  BY <1>2, RolledBack DEF Crash, Rollback
<1>3. ASSUME NEW s \in Sessions, NEW q \in Requests, Begin(s, q) PROVE [Next]_vars /\ TxInv'
  BY <1>3, BeginStep
<1>4. ASSUME NEW u \in Users, NEW i \in Invoices,
             \/ LoadTx(u, i)
             \/ \E c \in Companies, d \in Dates, a \in Prices : CreateDraftTx(u, i, c, d, a)
      PROVE  [Next]_vars /\ TxInv'
  BY <1>4, LoadTxStep, CreateDraftTxStep
<1>5. CASE UNCHANGED txVars
  <2>1. UNCHANGED vars /\ UNCHANGED tx /\ TypeOK
    BY <1>5 DEF txVars, TxInv, LedgerInv
  <2> QED
    BY <2>1, NothingChanges, OutsideStep
<1> QED
  BY <1>1, <1>2, <1>3, <1>4, <1>5 DEF TxNext

-----------------------------------------------------------------------------
(* Who waits for whom *)

\* The rank of the statements that take a lock: every plan takes its locks in this order.
Rank(step) ==
  CASE step = "key" -> 1
    [] step \in {"invoice", "share"} -> 2
    [] step = "tax" -> 3
    [] step = "number" -> 4

\* s waits, or may go on, at a lock of rank k.
WaitsAt(s, k) ==
  \E step \in {"key", "invoice", "share", "tax", "number"} : At(s, step) /\ k = Rank(step)

\* The lock a transaction wants is of a higher rank than those it has taken.
LEMMA RanksRise ==
  ASSUME NEW t \in Transaction, FollowsPlan(t), t.todo # <<>>,
         NEW step \in {"key", "invoice", "share", "tax", "number"}, Head(t.todo) = step,
         NEW past \in {"key", "invoice", "share", "tax", "number"}, Past(t, past)
  PROVE  Rank(past) < Rank(step)
<1>1. Ordered(t) /\ Founded(t)
  BY Order
<1>2. ~Past(t, step)
  BY <1>1 DEF Ordered
<1>3. \/ step = "invoice" /\ past = "key"
      \/ step = "tax" /\ past = "invoice"
      \/ step = "number" /\ past \in {"key", "invoice", "tax"}
  BY <1>1, <1>2 DEF Ordered, Founded
<1> QED
  BY <1>3 DEF Rank

\* Whoever is waited for waits, if at all, at a higher rank.
LEMMA ClimbsToWait ==
  ASSUME TxInv, NEW s \in Sessions, NEW q \in WaitsFor(s), NEW j, WaitsAt(s, j),
         NEW k, WaitsAt(q, k)
  PROVE  j < k
<1>1. PICK step \in {"key", "invoice", "share", "tax", "number"} : At(s, step) /\ j = Rank(step)
  BY DEF WaitsAt
<1>2. PICK lock : lock = WantedLock(s)
  OBVIOUS
<1>3. q \in Sessions /\ NeedsLock(s) /\ tx[q].locks \cap Excludes(lock) # {}
  BY <1>2 DEF WaitsFor
<1>4. PICK held \in tx[q].locks : held \in Excludes(lock)
  BY <1>3
<1>5. LockStep(held) \in {"key", "invoice", "share", "tax", "number"} /\ Rank(LockStep(held)) = j
  <2>1. \/ step = "key" /\ lock = <<"key", tx[s].req.key>>
        \/ step = "invoice" /\ lock = <<"invoice", tx[s].invoice>>
        \/ step = "share" /\ lock = <<"share", tx[s].invoice>>
        \/ step = "tax" /\ lock = <<"tax">>
        \/ step = "number" /\ lock = <<"counter", Counter(tx[s])>>
    BY <1>1, <1>2, LockWanted
  <2>2. \/ step = "key" /\ held[1] = "key"
        \/ step \in {"invoice", "share"} /\ held[1] \in {"invoice", "share"}
        \/ step = "tax" /\ held[1] = "tax"
        \/ step = "number" /\ held[1] = "counter"
    BY <1>4, <2>1, Exclusions, LockNames
  <2> QED
    BY <1>1, <2>2 DEF LockStep, Rank
<1>6. PICK t : t = tx[q]
  OBVIOUS
<1>7. t \in Transaction /\ FollowsPlan(t) /\ Past(t, LockStep(held)) /\ t.todo # <<>>
  BY <1>3, <1>4, <1>6, InSession DEF LocksAreTaken, Past
<1>8. PICK next \in {"key", "invoice", "share", "tax", "number"} :
        Head(t.todo) = next /\ k = Rank(next)
  BY <1>6 DEF WaitsAt, At
<1> QED
  BY <1>5, <1>7, <1>8, RanksRise

LEMMA RanksOfWaiters ==
  ASSUME NEW s, NeedsLock(s)
  PROVE  WaitsAt(s, 1) \/ WaitsAt(s, 2) \/ WaitsAt(s, 3) \/ WaitsAt(s, 4)
  BY DEF NeedsLock, WaitsAt, Rank

\* No circle: the one that waits at the highest rank waits for nobody in it.
LEMMA NoCircle == TxInv => NoDeadlock
<1> SUFFICES ASSUME TxInv, NEW cycle \in SUBSET Sessions, cycle # {},
                    \A s \in cycle : WaitsFor(s) \cap cycle # {}
             PROVE  FALSE
  BY DEF NoDeadlock
<1>1. \A s \in cycle : NeedsLock(s)
  BY DEF WaitsFor
<1>2. ASSUME NEW s \in cycle, NEW j, WaitsAt(s, j)
      PROVE  \E q \in cycle : \E k \in {1, 2, 3, 4} : WaitsAt(q, k) /\ j < k
  <2>1. PICK q \in cycle : q \in WaitsFor(s)
    OBVIOUS
  <2>2. PICK k \in {1, 2, 3, 4} : WaitsAt(q, k)
    BY <1>1, RanksOfWaiters
  <2> QED
    BY <1>2, <2>1, <2>2, ClimbsToWait
<1>3. \A s \in cycle : ~WaitsAt(s, 4)
  BY <1>2
<1>4. \A s \in cycle : ~WaitsAt(s, 3)
  BY <1>2, <1>3
<1>5. \A s \in cycle : ~WaitsAt(s, 2)
  BY <1>2, <1>3, <1>4
<1>6. \A s \in cycle : ~WaitsAt(s, 1)
  BY <1>2, <1>3, <1>4, <1>5
<1> QED
  BY <1>1, <1>3, <1>4, <1>5, <1>6, RanksOfWaiters

-----------------------------------------------------------------------------
(* What a reader sums up *)

\* The reader's sums are those of this moment, and the ledger has no overpayment.
LEMMA SharedBalance == TxInv => ReaderSeesABalance
<1> SUFFICES ASSUME TxInv, NEW s \in Sessions, At(s, "balance"), tx[s].row.status = "ISSUED"
             PROVE  tx[s].received + tx[s].adjusted <= tx[s].row.total
  BY DEF ReaderSeesABalance
<1>1. PICK t, i : t = tx[s] /\ i = t.invoice
  OBVIOUS
<1>2. /\ t \in Transaction /\ FollowsPlan(t) /\ Holds(t) /\ TypeOK /\ NoOverpayment
      /\ t.todo # <<>> /\ Head(t.todo) = "balance"
  BY <1>1, InSession DEF At, TxInv, LedgerInv
<1>3. Past(t, "share") /\ Past(t, "receipts") /\ Past(t, "adjustments") /\ t.req.op = "read"
  BY <1>2, Order DEF Ordered, Founded
<1>4. i \in Invoices /\ t.row = invoices[i] /\ t.row \in InvoiceRow
  BY <1>1, <1>2, <1>3, RowHeld DEF Holds
<1>5. t.received = Received(i) /\ t.adjusted = Adjusted(i)
  BY <1>1, <1>2, <1>3 DEF Holds, SettlementRead
<1>6. Received(i) \in Nat /\ Adjusted(i) \in Nat /\ invoices[i].total \in Nat
  BY <1>4, SettledIsNatural DEF InvoiceRow
<1>7. Due(i) >= 0
  BY <1>1, <1>2, <1>4 DEF NoOverpayment
<1>8. PICK a, b, total : a = Received(i) /\ b = Adjusted(i) /\ total = invoices[i].total
  OBVIOUS
<1>9. total - a - b >= 0 /\ a \in Nat /\ b \in Nat /\ total \in Nat
  BY <1>6, <1>7, <1>8 DEF Due
<1>10. a + b <= total
  BY <1>9
<1> QED
  BY <1>1, <1>4, <1>5, <1>8, <1>10

-----------------------------------------------------------------------------
(* The theorems *)

LEMMA LedgerTxInvariant == TxSpec => []TxInv
<1>1. TxInit => TxInv
  BY TxInvInit
<1>2. TxInv /\ [TxNext]_txVars => TxInv'
  BY TxInvStep
<1> QED
  BY <1>1, <1>2, PTL DEF TxSpec

\* Every interleaving of any number of transactions, with connections lost at any statement, is
\* a behaviour of the ledger whose handlers are single steps: the row, advisory and counter
\* locks of BillingRepository keep what a handler has read until it has written.
THEOREM LedgerTxIsAtomic == TxSpec => TransactionsAreAtomic
<1>1. TxInit => Init
  BY TxInvInit
<1>2. TxInv /\ [TxNext]_txVars => [Next]_vars
  BY TxInvStep
<1> QED
  BY <1>1, <1>2, LedgerTxInvariant, PTL DEF TxSpec, TransactionsAreAtomic, Spec

\* No set of sessions waits for its own members: get(), settlementBalance() and the writing
\* handlers take the key, the invoice, the tax rules and the counter in one order.
THEOREM LedgerTxNoDeadlock == TxSpec => []NoDeadlock
<1>1. TxInv => NoDeadlock
  BY NoCircle
<1> QED
  BY <1>1, LedgerTxInvariant, PTL

\* A reader under FOR SHARE never sums up more than the total of an issued invoice, although it
\* reads the receipts and the adjustments in two statements: outstanding() does not throw.
THEOREM LedgerTxReaderSeesABalance == TxSpec => []ReaderSeesABalance
<1>1. TxInv => ReaderSeesABalance
  BY SharedBalance
<1> QED
  BY <1>1, LedgerTxInvariant, PTL
=============================================================================
