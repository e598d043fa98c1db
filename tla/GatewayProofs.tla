---------------------------- MODULE GatewayProofs ----------------------------
(***************************************************************************)
(* Theorems about Gateway, for any plan, any number of orders, payments,   *)
(* checkouts and checks that overlap, and any settlements staff record;    *)
(* then about PaymentReview, of which Gateway is a part, and about the     *)
(* register of payments that PaymentsReport makes of both.                 *)
(***************************************************************************)
EXTENDS PaymentsReport, LedgerProofs, SequenceTheorems

-----------------------------------------------------------------------------
(* The plan *)

LEMMA PlannedAmount ==
  ASSUME NEW m \in Milestones
  PROVE  m \in Nat \ {0} /\ Plan[m] \in 1 .. MaxMinor
<1>1. m \in 1 .. Len(Plan) /\ Len(Plan) \in Nat
  BY GatewayAssumption DEF Milestones
<1>2. Plan \in Seq(1 .. MaxMinor)
  BY GatewayAssumption
<1>3. Plan[m] \in 1 .. MaxMinor
  BY <1>1, <1>2, ElementOfSeq, Zenon
<1>4. m \in Nat \ {0}
  BY <1>1
<1> QED
  BY <1>3, <1>4

LEMMA PlannedIsNatural ==
  ASSUME NEW n \in Nat
  PROVE  Planned(1 .. n) \in Nat
<1> DEFINE all == (1 .. n) \X (1 .. MaxMinor)
           some == {p \in all : p[2] <= Plan[p[1]]}
<1>1. IsFiniteSet(1 .. n) /\ IsFiniteSet(1 .. MaxMinor)
  BY FS_Interval, LedgerAssumption
<1>2. IsFiniteSet(all)
  BY <1>1, FS_Product
<1>3. IsFiniteSet(some)
  BY <1>2, FS_Subset
<1>4. Cardinality(some) \in Nat
  BY <1>3, FS_CardinalityType
<1> QED
  BY <1>4 DEF Planned

\* The invoice of a plan asks for a natural number of paise.
LEMMA ClaimIsNatural == Planned(Milestones) \in Nat
<1>1. Milestones = 1 .. Len(Plan) /\ Len(Plan) \in Nat
  BY GatewayAssumption DEF Milestones
<1> QED
  BY <1>1, PlannedIsNatural

LEMMA LeastOfTwo ==
  ASSUME NEW a \in Int, NEW b \in Int
  PROVE  Min({a, b}) = IF a <= b THEN a ELSE b
  BY DEF Min

LEMMA GreatestOfTwo ==
  ASSUME NEW a \in Int, NEW b \in Int
  PROVE  Max({a, b}) = IF a >= b THEN a ELSE b
  BY DEF Max

\* What is open of a milestone is at most its amount.
LEMMA RemainingOfPlan ==
  ASSUME TypeOK, NEW m \in Milestones
  PROVE  Remaining(m) \in 0 .. MaxMinor
<1> DEFINE covered == Max({0, Received(Invoice) - Before(m)})
<1>1. m - 1 \in Nat /\ Plan[m] \in 1 .. MaxMinor
  BY PlannedAmount
<1>2. Before(m) \in Nat
  BY <1>1, PlannedIsNatural DEF Before
<1>3. Received(Invoice) \in Nat
  BY SettledIsNatural, GatewayAssumption
<1>4. covered \in Nat
  BY <1>2, <1>3, GreatestOfTwo
<1> HIDE DEF covered
<1>5. Min({Plan[m], covered}) \in 0 .. Plan[m]
  BY <1>1, <1>4, LeastOfTwo
<1> QED
  BY <1>1, <1>5, LedgerAssumption DEF Remaining, covered

-----------------------------------------------------------------------------
(* Processes *)

PaymentStatus == {"PENDING", "SUCCESS", "FAILED"}
PaymentRow ==
  [status : PaymentStatus, order : Orders, amount : 0 .. MaxMinor, currency : {"INR", "FOREIGN"}]
Snapshot ==
  [status : {"NONE", "ACTIVE", "EXPIRED", "PAID"},
   pays : {Null} \cup SUBSET (Payments \X PaymentStatus)]
Process ==
  [pc : {"idle", "next", "fetch", "recover", "resent", "tx", "order", "insert", "sent"},
   milestone : Milestones \cup {Null}, amount : 0 .. MaxMinor, todo : SUBSET Orders,
   order : Orders \cup {Null}, creating : BOOLEAN, snap : Snapshot,
   earlier : SUBSET Procs, stale : BOOLEAN]

\* t has seen payment p at the gateway.
Saw(t, p) == \E st \in PaymentStatus : <<p, st>> \in t.snap.pays

\* A process works on an order that exists, and what it saw are payments of that order.
Fits(c, t) ==
  /\ t.pc \in {"fetch", "recover", "resent", "sent"} => t.order \in Orders /\ orders[t.order] # NoRow
  /\ t.pc \in {"tx", "order", "insert"} => c \in Customers
  /\ t.pc \in {"next", "tx", "order", "insert"} => t.milestone \in Milestones
  /\ t.pc \in {"order", "insert"} => t.amount # 0
  /\ t.pc = "next" => t.snap.pays = Null
  /\ \A o \in t.todo : orders[o] # NoRow
  /\ t.snap.pays # Null =>
       \A p \in Payments : Saw(t, p) => payments[p] # NoRow /\ payments[p].order = t.order

\* The processes differ at most in what they know of the others' observations.
Alike(s, t) ==
  /\ s.pc = t.pc /\ s.milestone = t.milestone /\ s.amount = t.amount
  /\ s.todo = t.todo /\ s.order = t.order /\ s.snap = t.snap

\* A step of c alone.
Moves(c) ==
  /\ procs' \in [Procs -> Process]
  /\ \A q \in Procs \ {c} : Alike(procs'[q], procs[q])

LEMMA IdleIsAProcess ==
  /\ Idle \in Process
  /\ Idle.pc = "idle" /\ Idle.snap.pays = Null /\ Idle.todo = {}
<1>1. NoSnapshot \in Snapshot /\ NoSnapshot.pays = Null
  BY DEF NoSnapshot, Snapshot
<1> QED
  BY <1>1, LedgerAssumption DEF Idle, Process

LEMMA IdleFits ==
  ASSUME NEW c \in Procs
  PROVE  Fits(c, Idle)
  BY IdleIsAProcess DEF Fits

\* Each field of a process can be set on its own.
LEMMA SetPc ==
  ASSUME NEW t \in Process, NEW x \in {"idle", "next", "fetch", "recover", "resent", "tx", "order", "insert", "sent"},
         NEW n, n = [t EXCEPT !.pc = x]
  PROVE  /\ n \in Process /\ n.pc = x
         /\ n.milestone = t.milestone /\ n.amount = t.amount /\ n.todo = t.todo
         /\ n.order = t.order /\ n.snap = t.snap
  BY DEF Process

LEMMA SetMilestone ==
  ASSUME NEW t \in Process, NEW x \in Milestones \cup {Null}, NEW n, n = [t EXCEPT !.milestone = x]
  PROVE  /\ n \in Process /\ n.milestone = x
         /\ n.pc = t.pc /\ n.amount = t.amount /\ n.todo = t.todo
         /\ n.order = t.order /\ n.snap = t.snap
  BY DEF Process

LEMMA SetAmount ==
  ASSUME NEW t \in Process, NEW x \in 0 .. MaxMinor, NEW n, n = [t EXCEPT !.amount = x]
  PROVE  /\ n \in Process /\ n.amount = x
         /\ n.pc = t.pc /\ n.milestone = t.milestone /\ n.todo = t.todo
         /\ n.order = t.order /\ n.snap = t.snap
  BY DEF Process

LEMMA SetTodo ==
  ASSUME NEW t \in Process, NEW x \in SUBSET Orders, NEW n, n = [t EXCEPT !.todo = x]
  PROVE  /\ n \in Process /\ n.todo = x
         /\ n.pc = t.pc /\ n.milestone = t.milestone /\ n.amount = t.amount
         /\ n.order = t.order /\ n.snap = t.snap
  BY DEF Process

LEMMA SetOrder ==
  ASSUME NEW t \in Process, NEW x \in Orders, NEW n, n = [t EXCEPT !.order = x]
  PROVE  /\ n \in Process /\ n.order = x
         /\ n.pc = t.pc /\ n.milestone = t.milestone /\ n.amount = t.amount
         /\ n.todo = t.todo /\ n.snap = t.snap
  BY DEF Process

LEMMA SetSnap ==
  ASSUME NEW t \in Process, NEW x \in Snapshot, NEW n, n = [t EXCEPT !.snap = x]
  PROVE  /\ n \in Process /\ n.snap = x
         /\ n.pc = t.pc /\ n.milestone = t.milestone /\ n.amount = t.amount
         /\ n.todo = t.todo /\ n.order = t.order
  BY DEF Process

LEMMA SetKnowledge ==
  ASSUME NEW t \in Process, NEW x \in SUBSET Procs, NEW b \in BOOLEAN, NEW n,
         n = [t EXCEPT !.creating = b] \/ n = [t EXCEPT !.earlier = x] \/ n = [t EXCEPT !.stale = b]
  PROVE  n \in Process /\ Alike(n, t)
  BY DEF Process, Alike

\* What c becomes, the others forgetting its observation.
LEMMA PutMoves ==
  ASSUME NEW c \in Procs, NEW running \in [Procs -> Process], NEW t \in Process,
         \A q \in Procs : Alike(running[q], procs[q]),
         procs' = Put(running, c, t)
  PROVE  Moves(c) /\ procs'[c] = t
<1>1. ASSUME NEW q \in Procs
      PROVE  /\ procs'[q] \in Process
             /\ q # c => Alike(procs'[q], procs[q])
             /\ q = c => procs'[q] = t
  <2>1. CASE q = c
    BY <2>1 DEF Put
  <2>2. CASE q # c
    <3> DEFINE e == running[q].earlier \ {c}
    <3>1. procs'[q] = [running[q] EXCEPT !.earlier = e]
      BY <2>2 DEF Put
    <3>2. running[q] \in Process
      OBVIOUS
    <3>3. e \in SUBSET Procs
      BY <3>2 DEF Process
    <3> HIDE DEF e
    <3>4. procs'[q] \in Process /\ Alike(procs'[q], running[q])
      BY <3>1, <3>2, <3>3, SetKnowledge
    <3>5. Alike(running[q], procs[q])
      OBVIOUS
    <3> QED
      BY <2>2, <3>4, <3>5 DEF Alike
  <2> QED
    BY <2>1, <2>2
<1>2. procs' = [q \in Procs |-> procs'[q]]
  BY DEF Put
<1> QED
  BY <1>1, <1>2 DEF Moves

\* A step that sets the row of c only.
LEMMA ExceptMoves ==
  ASSUME NEW c \in Procs, procs \in [Procs -> Process], NEW t \in Process,
         procs' = [procs EXCEPT ![c] = t]
  PROVE  Moves(c) /\ procs'[c] = t
  BY DEF Moves, Alike

LEMMA OvertakeIsAlike ==
  ASSUME NEW c \in Procs, procs \in [Procs -> Process], NEW o
  PROVE  /\ Overtake(procs, c, o) \in [Procs -> Process]
         /\ \A q \in Procs : Alike(Overtake(procs, c, o)[q], procs[q])
<1>1. ASSUME NEW q \in Procs
      PROVE  /\ Overtake(procs, c, o)[q] \in Process
             /\ Alike(Overtake(procs, c, o)[q], procs[q])
  <2> DEFINE b == procs[q].stale \/ (q \in procs[c].earlier /\ Observes(q, o))
  <2>1. Overtake(procs, c, o)[q] = [procs[q] EXCEPT !.stale = b]
    BY DEF Overtake
  <2>2. procs[q] \in Process
    OBVIOUS
  <2>3. b \in BOOLEAN
    BY <2>2 DEF Process
  <2> HIDE DEF b
  <2> QED
    BY <2>1, <2>2, <2>3, SetKnowledge
<1> QED
  BY <1>1 DEF Overtake

-----------------------------------------------------------------------------
(* The rows of the tables and of the gateway *)

\* A payment is of an order that exists, and its attempt is of the same order.
PaymentsKnown ==
  /\ \A p \in Payments : payments[p] # NoRow => orders[payments[p].order] # NoRow
  /\ \A p \in Payments : attempts[p] # NoRow =>
       payments[p] # NoRow /\ payments[p].order = attempts[p].order

TablesTyped ==
  /\ booking \in {"INVOICED", "CONFIRMED", "COMPLETED", "CANCELLED"}
  /\ orders \in [Orders -> OrderRow \cup {NoRow}]
  /\ attempts \in [Payments -> AttemptRow \cup {NoRow}]
  /\ procs \in [Procs -> Process]
  /\ remote \in [Orders -> {"ABSENT", "ACTIVE", "EXPIRED", "PAID"}]
  /\ payments \in [Payments -> PaymentRow \cup {NoRow}]

ProcessesFit == \A c \in Procs : Fits(c, procs[c])

RowsInv == TypeOK /\ TablesTyped /\ PaymentsKnown /\ ProcessesFit

LEMMA RowsOfTables ==
  ASSUME TablesTyped
  PROVE  /\ \A o \in Orders : orders[o] # NoRow => orders[o] \in OrderRow
         /\ \A o \in Orders : orders[o].status # "NONE" => orders[o] \in OrderRow
         /\ \A p \in Payments : attempts[p] # NoRow => attempts[p] \in AttemptRow
         /\ \A p \in Payments : payments[p] # NoRow => payments[p] \in PaymentRow
         /\ \A c \in Procs : procs[c] \in Process
  BY DEF TablesTyped, NoRow

LEMMA RowsAreNotNoRow ==
  /\ NoRow \notin OrderRow /\ NoRow \notin AttemptRow /\ NoRow \notin PaymentRow
  /\ NoRow.status = "NONE"
  BY DEF NoRow, OrderRow, AttemptRow, PaymentRow, PaymentStatus

\* What recording an observation of o makes of the attempt of p, before it is accounted for.
Reports(o, p, row) ==
  IF attempts[p] = NoRow
  THEN row # NoRow =>
         /\ row \in AttemptRow /\ row.order = o
         /\ row.accounting = "UNAPPLIED" /\ row.receipt = Null
         /\ payments[p] # NoRow /\ payments[p].order = o
  ELSE /\ row \in AttemptRow
       /\ row.order = attempts[p].order /\ row.amount = attempts[p].amount
       /\ row.currency = attempts[p].currency
       /\ row.accounting = attempts[p].accounting /\ row.receipt = attempts[p].receipt
       /\ attempts[p].status = "SUCCESS" => row = attempts[p]
       /\ attempts[p].status = "FAILED" => row.status # "PENDING"
       /\ attempts[p].order # o => row = attempts[p]

LEMMA UpsertedRow ==
  ASSUME NEW row \in AttemptRow, NEW st \in PaymentStatus, NEW n,
         n = [row EXCEPT !.status = Upserted(@, st)]
  PROVE  /\ n \in AttemptRow
         /\ n.order = row.order /\ n.amount = row.amount /\ n.currency = row.currency
         /\ n.accounting = row.accounting /\ n.receipt = row.receipt
         /\ row.status = "SUCCESS" => n = row
         /\ row.status = "FAILED" => n.status # "PENDING"
<1>1. row.status \in PaymentStatus
  BY DEF AttemptRow, PaymentStatus
<1>2. Upserted(row.status, st) \in PaymentStatus
  BY <1>1 DEF Upserted
<1>3. /\ row.status = "SUCCESS" => Upserted(row.status, st) = "SUCCESS"
      /\ row.status = "FAILED" => Upserted(row.status, st) # "PENDING"
  BY <1>1 DEF Upserted, PaymentStatus
<1> DEFINE u == Upserted(row.status, st)
<1>4. n = [row EXCEPT !.status = u]
  OBVIOUS
<1> HIDE DEF u
<1>5. n \in AttemptRow /\ n.status = u
  BY <1>2, <1>4 DEF AttemptRow, PaymentStatus, u
<1>6. /\ n.order = row.order /\ n.amount = row.amount /\ n.currency = row.currency
      /\ n.accounting = row.accounting /\ n.receipt = row.receipt
  BY <1>4 DEF AttemptRow
<1>7. u = row.status => n = row
  BY <1>4 DEF AttemptRow
<1> QED
  BY <1>3, <1>5, <1>6, <1>7 DEF u

LEMMA RecordedReports ==
  ASSUME RowsInv, NEW c \in Procs, ToRecord(c), NEW rows,
         rows = Recorded(procs[c].order, procs[c].snap.pays)
  PROVE  /\ rows \in [Payments -> AttemptRow \cup {NoRow}]
         /\ \A p \in Payments : Reports(procs[c].order, p, rows[p])
<1> DEFINE o == procs[c].order
           pays == procs[c].snap.pays
<1>1. /\ o \in Orders
      /\ \A p \in Payments : Saw(procs[c], p) => payments[p] # NoRow /\ payments[p].order = o
  BY DEF RowsInv, ProcessesFit, Fits, ToRecord, At
<1>2. ASSUME NEW p \in Payments
      PROVE  rows[p] \in AttemptRow \cup {NoRow} /\ Reports(o, p, rows[p])
  <2>1. CASE \A st \in PaymentStatus : <<p, st>> \notin pays
    <3>1. rows[p] = attempts[p]
      BY <2>1 DEF Recorded, PaymentStatus
    <3> QED
      BY <3>1, RowsOfTables DEF RowsInv, TablesTyped, Reports
  <2>2. CASE ~ \A st \in PaymentStatus : <<p, st>> \notin pays
    <3> DEFINE st == CHOOSE x \in PaymentStatus : <<p, x>> \in pays
    <3>1. st \in PaymentStatus /\ Saw(procs[c], p)
      BY <2>2 DEF Saw
    <3>2. payments[p] # NoRow /\ payments[p].order = o
      BY <1>1, <3>1
    <3>3. rows[p] = IF attempts[p] = NoRow
                    THEN [status |-> st, order |-> o, amount |-> payments[p].amount,
                          currency |-> payments[p].currency,
                          accounting |-> "UNAPPLIED", receipt |-> Null, additional |-> FALSE]
                    ELSE [attempts[p] EXCEPT !.status = Upserted(@, st)]
      BY <2>2 DEF Recorded, PaymentStatus
    <3> HIDE DEF st
    <3>4. CASE attempts[p] = NoRow
      <4>1. payments[p].amount \in 0 .. MaxMinor /\ payments[p].currency \in {"INR", "FOREIGN"}
        BY <3>2, RowsOfTables DEF RowsInv, PaymentRow
      <4>2. rows[p] = [status |-> st, order |-> o, amount |-> payments[p].amount,
                       currency |-> payments[p].currency,
                       accounting |-> "UNAPPLIED", receipt |-> Null, additional |-> FALSE]
        BY <3>3, <3>4
      <4>3. /\ rows[p] \in AttemptRow /\ rows[p].order = o
            /\ rows[p].accounting = "UNAPPLIED" /\ rows[p].receipt = Null
        BY <1>1, <3>1, <4>1, <4>2 DEF AttemptRow, PaymentStatus
      <4> QED
        BY <3>2, <3>4, <4>3 DEF Reports
    <3>5. CASE attempts[p] # NoRow
      <4>1. attempts[p] \in AttemptRow
        BY <3>5, RowsOfTables DEF RowsInv
      <4>2. rows[p] = [attempts[p] EXCEPT !.status = Upserted(@, st)]
        BY <3>3, <3>5
      <4>3. attempts[p].order = o
        BY <3>2, <3>5 DEF RowsInv, PaymentsKnown
      <4>4. /\ rows[p] \in AttemptRow
            /\ rows[p].order = attempts[p].order /\ rows[p].amount = attempts[p].amount
            /\ rows[p].currency = attempts[p].currency
            /\ rows[p].accounting = attempts[p].accounting
            /\ rows[p].receipt = attempts[p].receipt
            /\ attempts[p].status = "SUCCESS" => rows[p] = attempts[p]
            /\ attempts[p].status = "FAILED" => rows[p].status # "PENDING"
        <5> DEFINE row == attempts[p]
                   n == rows[p]
        <5>1. n = [row EXCEPT !.status = Upserted(@, st)] /\ row \in AttemptRow
          BY <4>1, <4>2
        <5> HIDE DEF row, n
        <5>2. /\ n \in AttemptRow /\ n.order = row.order /\ n.amount = row.amount
              /\ n.currency = row.currency
              /\ n.accounting = row.accounting /\ n.receipt = row.receipt
              /\ row.status = "SUCCESS" => n = row
              /\ row.status = "FAILED" => n.status # "PENDING"
          BY <3>1, <5>1, UpsertedRow, ZenonT(40)
        <5> QED
          BY <5>2 DEF row, n
      <4> QED
        BY <3>5, <4>3, <4>4 DEF Reports
    <3> QED
      BY <3>4, <3>5
  <2> QED
    BY <2>1, <2>2
<1>3. rows = [p \in Payments |-> rows[p]]
  BY DEF Recorded
<1> QED
  BY <1>2, <1>3

-----------------------------------------------------------------------------
(* The transaction that records an observation of order o.  Its payments are *)
(* several that are left to the staff, and at most one that is applied.      *)

Accounted(o, rows, final, several, applied, r) ==
  /\ final \in [Payments -> AttemptRow \cup {NoRow}]
  /\ \A q \in Payments :
       IF q \in several \cup applied
       THEN /\ rows[q] \in AttemptRow
            /\ rows[q].status = "SUCCESS" /\ rows[q].order = o /\ rows[q].accounting = "UNAPPLIED"
            /\ final[q] \in AttemptRow
            /\ final[q].status = "SUCCESS" /\ final[q].order = o /\ final[q].amount = rows[q].amount
            /\ final[q].currency = rows[q].currency
            /\ final[q].accounting = IF q \in applied THEN "APPLIED" ELSE "REVIEW_REQUIRED"
            /\ final[q].receipt = IF q \in applied THEN r ELSE rows[q].receipt
       ELSE final[q] = rows[q]

\* The row of the order before the status that was seen is set.
Decided(o, row, several, applied, r) ==
  /\ row \in OrderRow
  /\ row.milestone = orders[o].milestone /\ row.amount = orders[o].amount
  /\ IF applied # {}
     THEN /\ row.status = "PAID" /\ row.receipt = r /\ applied = {row.payment}
          /\ orders[o].status \notin {"PAID", "REVIEW_REQUIRED", "REFUNDED"}
          /\ orders[o].receipt = Null
          /\ orders[o].review \/ several # {} => row.review
     ELSE IF several # {}
     THEN /\ row.status = IF orders[o].status = "PAID" THEN "PAID" ELSE "REVIEW_REQUIRED"
          /\ row.receipt = orders[o].receipt
          /\ orders[o].payment # Null => row.payment = orders[o].payment
          /\ row.review
     ELSE row = orders[o]

Recording(c, rows, final, row, several, applied, r) ==
  /\ ToRecord(c)
  /\ rows = Recorded(procs[c].order, procs[c].snap.pays)
  /\ several \cup applied = Collected(rows, procs[c].order)
  /\ several \cap applied = {}
  /\ Accounted(procs[c].order, rows, final, several, applied, r)
  /\ Decided(procs[c].order, row, several, applied, r)
  /\ Record(c, procs[c].order, final, row)

LEMMA ReviewedRow ==
  ASSUME NEW row \in AttemptRow, NEW b \in BOOLEAN, NEW n,
         n = [row EXCEPT !.accounting = "REVIEW_REQUIRED", !.additional = b]
  PROVE  /\ n \in AttemptRow /\ n.accounting = "REVIEW_REQUIRED" /\ n.receipt = row.receipt
         /\ n.status = row.status /\ n.order = row.order /\ n.amount = row.amount
         /\ n.currency = row.currency
<1> DEFINE m == [row EXCEPT !.accounting = "REVIEW_REQUIRED"]
<1>1. /\ m \in AttemptRow /\ m.accounting = "REVIEW_REQUIRED" /\ m.receipt = row.receipt
      /\ m.status = row.status /\ m.order = row.order /\ m.amount = row.amount
      /\ m.currency = row.currency
  BY DEF AttemptRow
<1>2. n = [m EXCEPT !.additional = b]
  OBVIOUS
<1> HIDE DEF m
<1> QED
  BY <1>1, <1>2 DEF AttemptRow

AsApplied(row, r) == [row EXCEPT !.accounting = "APPLIED", !.receipt = r]

LEMMA AppliedRow ==
  ASSUME NEW row \in AttemptRow, NEW r \in Receipts
  PROVE  LET n == AsApplied(row, r) IN
         /\ n \in AttemptRow /\ n.accounting = "APPLIED" /\ n.receipt = r
         /\ n.status = row.status /\ n.order = row.order /\ n.amount = row.amount
         /\ n.currency = row.currency
<1> DEFINE m == [row EXCEPT !.accounting = "APPLIED"]
           n == AsApplied(row, r)
<1>1. /\ m \in AttemptRow /\ m.accounting = "APPLIED"
      /\ m.status = row.status /\ m.order = row.order /\ m.amount = row.amount
      /\ m.currency = row.currency
  BY DEF AttemptRow
<1>2. n = [m EXCEPT !.receipt = r]
  BY DEF AsApplied
<1> HIDE DEF m, n
<1>3. /\ n \in AttemptRow /\ n.accounting = "APPLIED" /\ n.receipt = r
      /\ n.status = row.status /\ n.order = row.order /\ n.amount = row.amount
      /\ n.currency = row.currency
  BY <1>1, <1>2 DEF AttemptRow
<1> QED
  BY <1>3 DEF n

LEMMA CollectedRow ==
  ASSUME NEW rows \in [Payments -> AttemptRow \cup {NoRow}], NEW o,
         NEW q \in Collected(rows, o)
  PROVE  /\ q \in Payments /\ rows[q] \in AttemptRow
         /\ rows[q].status = "SUCCESS" /\ rows[q].order = o /\ rows[q].accounting = "UNAPPLIED"
  BY DEF Collected, Of

LEMMA ReviewedIsAccounted ==
  ASSUME NEW rows \in [Payments -> AttemptRow \cup {NoRow}], NEW o, NEW r,
         NEW several \in SUBSET Collected(rows, o), NEW additional
  PROVE  Accounted(o, rows, Reviewed(rows, several, additional), several, {}, r)
<1> DEFINE final == Reviewed(rows, several, additional)
<1>1. ASSUME NEW q \in Payments
      PROVE  IF q \in several
             THEN /\ rows[q] \in AttemptRow
                  /\ rows[q].status = "SUCCESS" /\ rows[q].order = o
                  /\ rows[q].accounting = "UNAPPLIED"
                  /\ final[q] \in AttemptRow
                  /\ final[q].status = "SUCCESS" /\ final[q].order = o
                  /\ final[q].amount = rows[q].amount /\ final[q].currency = rows[q].currency
                  /\ final[q].accounting = "REVIEW_REQUIRED" /\ final[q].receipt = rows[q].receipt
             ELSE final[q] = rows[q]
  <2>1. CASE q \in several
    <3> DEFINE row == rows[q]
               n == final[q]
               b == q \in additional
    <3>1. /\ row \in AttemptRow
          /\ row.status = "SUCCESS" /\ row.order = o /\ row.accounting = "UNAPPLIED"
      BY <2>1, CollectedRow
    <3>2. n = [row EXCEPT !.accounting = "REVIEW_REQUIRED", !.additional = b]
      BY <2>1 DEF Reviewed
    <3>3. b \in BOOLEAN
      OBVIOUS
    <3> HIDE DEF row, n, b
    <3>4. /\ n \in AttemptRow /\ n.accounting = "REVIEW_REQUIRED" /\ n.receipt = row.receipt
          /\ n.status = row.status /\ n.order = row.order /\ n.amount = row.amount
          /\ n.currency = row.currency
      BY <3>1, <3>2, <3>3, ReviewedRow
    <3> QED
      BY <2>1, <3>1, <3>4 DEF row, n
  <2>2. CASE q \notin several
    BY <2>2 DEF Reviewed
  <2> QED
    BY <2>1, <2>2
<1>2. final = [q \in Payments |-> final[q]]
  BY DEF Reviewed
<1> HIDE DEF final
<1>3. final \in [Payments -> AttemptRow \cup {NoRow}]
  BY <1>1, <1>2
<1> QED
  BY <1>1, <1>3 DEF Accounted, final

LEMMA AppliedIsAccounted ==
  ASSUME NEW rows \in [Payments -> AttemptRow \cup {NoRow}], NEW o, NEW r \in Receipts,
         NEW p \in Collected(rows, o), NEW additional
  PROVE  Accounted(o, rows,
                   [Reviewed(rows, Collected(rows, o) \ {p}, additional) EXCEPT
                      ![p].accounting = "APPLIED", ![p].receipt = r],
                   Collected(rows, o) \ {p}, {p}, r)
<1> DEFINE several == Collected(rows, o) \ {p}
           rest == Reviewed(rows, several, additional)
           final == [rest EXCEPT ![p].accounting = "APPLIED", ![p].receipt = r]
<1>1. Accounted(o, rows, rest, several, {}, r)
  <2>1. several \in SUBSET Collected(rows, o)
    OBVIOUS
  <2> QED
    BY <2>1, ReviewedIsAccounted
<1>2. /\ p \in Payments /\ rows[p] \in AttemptRow
      /\ rows[p].status = "SUCCESS" /\ rows[p].order = o /\ rows[p].accounting = "UNAPPLIED"
  BY CollectedRow
<1>3. final = [rest EXCEPT ![p].accounting = "APPLIED", ![p].receipt = r]
  OBVIOUS
<1>4. p \notin several
  OBVIOUS
<1> HIDE DEF final, rest, several
<1>5. rest \in [Payments -> AttemptRow \cup {NoRow}] /\ rest[p] = rows[p]
  BY <1>1, <1>2, <1>4 DEF Accounted
<1>6. /\ final[p] = AsApplied(rows[p], r)
      /\ \A q \in Payments \ {p} : final[q] = rest[q]
      /\ final = [q \in Payments |-> final[q]]
  BY <1>2, <1>3, <1>5 DEF AsApplied
<1>7. /\ final[p] \in AttemptRow /\ final[p].accounting = "APPLIED" /\ final[p].receipt = r
      /\ final[p].status = "SUCCESS" /\ final[p].order = o /\ final[p].amount = rows[p].amount
      /\ final[p].currency = rows[p].currency
  BY <1>2, <1>6, AppliedRow
<1>8. final \in [Payments -> AttemptRow \cup {NoRow}]
  BY <1>5, <1>6, <1>7
<1>9. ASSUME NEW q \in Payments \ {p}
      PROVE  IF q \in several
             THEN /\ rows[q] \in AttemptRow
                  /\ rows[q].status = "SUCCESS" /\ rows[q].order = o
                  /\ rows[q].accounting = "UNAPPLIED"
                  /\ final[q] \in AttemptRow
                  /\ final[q].status = "SUCCESS" /\ final[q].order = o
                  /\ final[q].amount = rows[q].amount /\ final[q].currency = rows[q].currency
                  /\ final[q].accounting = "REVIEW_REQUIRED" /\ final[q].receipt = rows[q].receipt
             ELSE final[q] = rows[q]
  BY <1>1, <1>6 DEF Accounted
<1> QED
  BY <1>2, <1>4, <1>7, <1>8, <1>9 DEF Accounted, final, rest, several

\* The row of a paid order and of one that is sent to review.
AsPaid(row, r, p, mark) ==
  [row EXCEPT !.status = "PAID", !.receipt = r, !.payment = p, !.review = mark]

LEMMA PaidRow ==
  ASSUME NEW row \in OrderRow, NEW r \in Receipts, NEW p \in Payments, NEW mark \in BOOLEAN
  PROVE  LET n == AsPaid(row, r, p, mark) IN
         /\ n \in OrderRow /\ n.status = "PAID" /\ n.receipt = r /\ n.payment = p
         /\ n.review = mark /\ n.milestone = row.milestone /\ n.amount = row.amount
<1> DEFINE a == [row EXCEPT !.status = "PAID"]
           b == [a EXCEPT !.receipt = r]
           c == [b EXCEPT !.payment = p]
           n == AsPaid(row, r, p, mark)
<1>1. a \in OrderRow /\ a.status = "PAID" /\ a.milestone = row.milestone /\ a.amount = row.amount
  BY DEF OrderRow
<1>2. n = [c EXCEPT !.review = mark]
  BY DEF AsPaid
<1> HIDE DEF a, n
<1>3. /\ b \in OrderRow /\ b.status = "PAID" /\ b.receipt = r
      /\ b.milestone = row.milestone /\ b.amount = row.amount
  BY <1>1 DEF OrderRow
<1> HIDE DEF b
<1>4. /\ c \in OrderRow /\ c.status = "PAID" /\ c.receipt = r /\ c.payment = p
      /\ c.milestone = row.milestone /\ c.amount = row.amount
  BY <1>3 DEF OrderRow
<1> HIDE DEF c
<1>5. /\ n \in OrderRow /\ n.status = "PAID" /\ n.receipt = r /\ n.payment = p
      /\ n.review = mark /\ n.milestone = row.milestone /\ n.amount = row.amount
  BY <1>2, <1>4 DEF OrderRow
<1> QED
  BY <1>5 DEF n

AsReviewed(row, p) ==
  [row EXCEPT !.status = IF @ = "PAID" THEN @ ELSE "REVIEW_REQUIRED",
              !.payment = IF @ = Null THEN p ELSE @, !.review = TRUE]

LEMMA OrderUnderReview ==
  ASSUME NEW row \in OrderRow, NEW p \in Payments
  PROVE  LET n == AsReviewed(row, p) IN
         /\ n \in OrderRow
         /\ n.status = IF row.status = "PAID" THEN "PAID" ELSE "REVIEW_REQUIRED"
         /\ row.payment # Null => n.payment = row.payment
         /\ n.review /\ n.receipt = row.receipt
         /\ n.milestone = row.milestone /\ n.amount = row.amount
<1> DEFINE a == [row EXCEPT !.status = IF @ = "PAID" THEN @ ELSE "REVIEW_REQUIRED"]
           b == [a EXCEPT !.payment = IF @ = Null THEN p ELSE @]
           n == AsReviewed(row, p)
<1>1. /\ a \in OrderRow
      /\ a.status = IF row.status = "PAID" THEN "PAID" ELSE "REVIEW_REQUIRED"
      /\ a.payment = row.payment /\ a.receipt = row.receipt
      /\ a.milestone = row.milestone /\ a.amount = row.amount
  BY DEF OrderRow
<1>2. n = [b EXCEPT !.review = TRUE]
  BY DEF AsReviewed
<1> HIDE DEF a, n
<1>3. /\ b \in OrderRow /\ b.status = a.status
      /\ a.payment # Null => b.payment = a.payment
      /\ b.receipt = a.receipt /\ b.milestone = a.milestone /\ b.amount = a.amount
  BY <1>1 DEF OrderRow
<1> HIDE DEF b
<1>4. /\ n \in OrderRow /\ n.status = b.status /\ n.payment = b.payment
      /\ n.review /\ n.receipt = b.receipt /\ n.milestone = b.milestone /\ n.amount = b.amount
  BY <1>2, <1>3 DEF OrderRow
<1>5. /\ n.status = IF row.status = "PAID" THEN "PAID" ELSE "REVIEW_REQUIRED"
      /\ row.payment # Null => n.payment = row.payment
      /\ n.receipt = row.receipt /\ n.milestone = row.milestone /\ n.amount = row.amount
  BY <1>1, <1>3, <1>4
<1> QED
  BY <1>4, <1>5 DEF n

LEMMA ServedOrder ==
  ASSUME RowsInv, NEW c \in Procs, At(c, "fetch") \/ At(c, "recover") \/ At(c, "resent") \/ At(c, "sent")
  PROVE  /\ procs[c] \in Process
         /\ procs[c].order \in Orders /\ orders[procs[c].order] \in OrderRow
<1>1. procs[c].order \in Orders /\ orders[procs[c].order] # NoRow
  BY DEF RowsInv, ProcessesFit, Fits, At
<1> QED
  BY <1>1, RowsOfTables DEF RowsInv

LEMMA RecordNothingNewRecords ==
  ASSUME RowsInv, NEW c \in Procs, RecordNothingNew(c)
  PROVE  \E rows : Recording(c, rows, rows, orders[procs[c].order], {}, {}, Null)
<1> DEFINE o == procs[c].order
           rows == Recorded(o, procs[c].snap.pays)
<1>1. ToRecord(c) /\ Collected(rows, o) = {} /\ Record(c, o, rows, orders[o])
  BY DEF RecordNothingNew
<1>2. o \in Orders /\ orders[o] \in OrderRow
  BY <1>1, ServedOrder DEF ToRecord
<1>3. rows \in [Payments -> AttemptRow \cup {NoRow}]
  BY <1>1, RecordedReports
<1> HIDE DEF rows
<1>4. Accounted(o, rows, rows, {}, {}, Null)
  BY <1>3 DEF Accounted
<1>5. Decided(o, orders[o], {}, {}, Null)
  BY <1>2 DEF Decided
<1>6. rows = Recorded(o, procs[c].snap.pays)
  BY DEF rows
<1>7. Recording(c, rows, rows, orders[o], {}, {}, Null)
  BY <1>1, <1>4, <1>5, <1>6 DEF Recording
<1> QED
  BY <1>7

LEMMA SendToReviewRecords ==
  ASSUME RowsInv, NEW c \in Procs, SendToReview(c)
  PROVE  \E rows, final, row, several :
           several # {} /\ Recording(c, rows, final, row, several, {}, Null)
<1> DEFINE o == procs[c].order
           rows == Recorded(o, procs[c].snap.pays)
           several == Collected(rows, o)
<1>1. PICK p \in several :
        Record(c, o,
          Reviewed(rows, several,
            IF orders[o].status = "PAID" \/ orders[o].receipt # Null THEN several
            ELSE IF orders[o].status = "REFUNDED" THEN {p} ELSE {}),
          AsReviewed(orders[o], p))
  BY DEF SendToReview, AsReviewed
<1>2. ToRecord(c)
  BY DEF SendToReview
<1>3. o \in Orders /\ orders[o] \in OrderRow
  BY <1>2, ServedOrder DEF ToRecord
<1>4. rows \in [Payments -> AttemptRow \cup {NoRow}]
  BY <1>2, RecordedReports
<1> DEFINE additional == IF orders[o].status = "PAID" \/ orders[o].receipt # Null THEN several
                         ELSE IF orders[o].status = "REFUNDED" THEN {p} ELSE {}
           final == Reviewed(rows, several, additional)
           row == AsReviewed(orders[o], p)
<1>5. Record(c, o, final, row)
  BY <1>1
<1>6. p \in Payments
  BY DEF Collected, Of
<1>7. rows = Recorded(o, procs[c].snap.pays) /\ several = Collected(rows, o)
  OBVIOUS
<1> HIDE DEF rows, additional
<1>8. Accounted(o, rows, final, several, {}, Null)
  BY <1>4, ReviewedIsAccounted
<1>9. Decided(o, row, several, {}, Null)
  <2>1. /\ row \in OrderRow
        /\ row.status = IF orders[o].status = "PAID" THEN "PAID" ELSE "REVIEW_REQUIRED"
        /\ orders[o].payment # Null => row.payment = orders[o].payment
        /\ row.review /\ row.receipt = orders[o].receipt
        /\ row.milestone = orders[o].milestone /\ row.amount = orders[o].amount
    BY <1>3, <1>6, OrderUnderReview
  <2>2. several # {}
    BY <1>1
  <2> HIDE DEF row, several
  <2> QED
    BY <2>1, <2>2 DEF Decided
<1>10. several # {}
  BY <1>1
<1> HIDE DEF final, row, several
<1>11. Recording(c, rows, final, row, several, {}, Null)
  BY <1>2, <1>5, <1>7, <1>8, <1>9 DEF Recording
<1> QED
  BY <1>10, <1>11

\* An application writes the receipt of exactly what the order asks, for a booking that is
\* payable and not locked.
LEMMA ApplyRecords ==
  ASSUME RowsInv, NEW c \in Procs, NEW r \in Receipts, Apply(c, r)
  PROVE  \E rows, final, row, several, p :
           /\ p \in Payments
           /\ Recording(c, rows, final, row, several, {p}, r)
           /\ GatewayReceipt(r, p, rows[p].amount)
           /\ rows[p].currency = "INR" /\ rows[p].amount = orders[procs[c].order].amount
           /\ InvoiceAccepts(rows[p].amount)
           /\ ~ BookingShared
<1> DEFINE o == procs[c].order
           rows == Recorded(o, procs[c].snap.pays)
           collected == Collected(rows, o)
<1>1. PICK p \in collected :
        /\ OrderAccepts(o, rows[p]) /\ InvoiceAccepts(rows[p].amount)
        /\ GatewayReceipt(r, p, rows[p].amount)
        /\ Record(c, o,
             [Reviewed(rows, collected \ {p}, collected) EXCEPT
                ![p].accounting = "APPLIED", ![p].receipt = r],
             AsPaid(orders[o], r, p, orders[o].review \/ collected # {p}))
  BY DEF Apply, AsPaid
<1>2. ToRecord(c) /\ ~ BookingShared
  BY DEF Apply
<1>3. o \in Orders /\ orders[o] \in OrderRow
  BY <1>2, ServedOrder DEF ToRecord
<1>4. rows \in [Payments -> AttemptRow \cup {NoRow}]
  BY <1>2, RecordedReports
<1> DEFINE several == collected \ {p}
           final == [Reviewed(rows, collected \ {p}, collected) EXCEPT
                       ![p].accounting = "APPLIED", ![p].receipt = r]
           mark == orders[o].review \/ collected # {p}
           row == AsPaid(orders[o], r, p, mark)
<1>5. Record(c, o, final, row)
  BY <1>1
<1>6. p \in Payments
  BY DEF Collected, Of
<1>7. /\ rows = Recorded(o, procs[c].snap.pays)
      /\ several \cup {p} = Collected(rows, o) /\ several \cap {p} = {}
  OBVIOUS
<1> HIDE DEF rows
<1>8. Accounted(o, rows, final, several, {p}, r)
  BY <1>4, AppliedIsAccounted
<1>9. Decided(o, row, several, {p}, r)
  <2>1. mark \in BOOLEAN
    BY <1>3 DEF OrderRow
  <2>2. orders[o].review \/ several # {} => mark
    OBVIOUS
  <2>3. /\ orders[o].status \notin {"PAID", "REVIEW_REQUIRED", "REFUNDED"}
        /\ orders[o].receipt = Null
    BY <1>1 DEF OrderAccepts, Paid
  <2> HIDE DEF mark
  <2>4. /\ row \in OrderRow /\ row.status = "PAID" /\ row.receipt = r /\ row.payment = p
        /\ row.review = mark
        /\ row.milestone = orders[o].milestone /\ row.amount = orders[o].amount
    BY <1>3, <1>6, <2>1, PaidRow
  <2> HIDE DEF row, several
  <2> QED
    BY <2>2, <2>3, <2>4 DEF Decided
<1>10. /\ rows[p].currency = "INR" /\ rows[p].amount = orders[o].amount
       /\ InvoiceAccepts(rows[p].amount)
  BY <1>1 DEF OrderAccepts
<1>11. GatewayReceipt(r, p, rows[p].amount)
  BY <1>1
<1> HIDE DEF final, row, several, collected
<1>12. Recording(c, rows, final, row, several, {p}, r)
  BY <1>2, <1>5, <1>7, <1>8, <1>9 DEF Recording
<1> QED
  BY <1>2, <1>6, <1>10, <1>11, <1>12, ZenonT(40)

-----------------------------------------------------------------------------
(* The row of an order at the end of the transaction *)

LEMMA ClosedStatus ==
  ASSUME NEW status, NEW seenStatus
  PROVE  LET n == Closed(status, seenStatus) IN
         /\ n \in {status, "EXPIRED", "READY"}
         /\ n = "READY" => status \in {"CREATING", "READY"}
         /\ n = "CREATING" => status = "CREATING"
         /\ n = "PAID" <=> status = "PAID"
         /\ n = "REVIEW_REQUIRED" <=> status = "REVIEW_REQUIRED"
  BY DEF Closed

OrderStatus ==
  {"CREATING", "READY", "PAID", "EXPIRED", "TERMINATED", "REVIEW_REQUIRED", "REFUNDED"}
RemoteStatus == {"NONE", "NOT_CREATED", "ACTIVE", "EXPIRED", "PAID"}

AsSeen(row, status, provider, mark) ==
  [[row EXCEPT !.status = status, !.provider = provider] EXCEPT !.review = mark]

LEMMA SeenRow ==
  ASSUME NEW row \in OrderRow,
         NEW status \in OrderStatus,
         NEW provider \in RemoteStatus,
         NEW mark \in BOOLEAN
  PROVE  LET n == AsSeen(row, status, provider, mark) IN
         /\ n \in OrderRow /\ n.status = status /\ (n.review <=> mark)
         /\ n.milestone = row.milestone /\ n.amount = row.amount
         /\ n.receipt = row.receipt /\ n.payment = row.payment
<1> DEFINE a == [row EXCEPT !.status = status]
           b == [a EXCEPT !.provider = provider]
           n == AsSeen(row, status, provider, mark)
<1>1. /\ a \in OrderRow /\ a.status = status
      /\ a.milestone = row.milestone /\ a.amount = row.amount
      /\ a.receipt = row.receipt /\ a.payment = row.payment
  BY DEF OrderRow, OrderStatus, RemoteStatus
<1>2. n = [b EXCEPT !.review = mark]
  BY DEF AsSeen
<1> HIDE DEF a, n
<1>3. /\ b \in OrderRow /\ b.status = a.status
      /\ b.milestone = a.milestone /\ b.amount = a.amount
      /\ b.receipt = a.receipt /\ b.payment = a.payment
  BY <1>1 DEF OrderRow, OrderStatus, RemoteStatus
<1> HIDE DEF b
<1>4. /\ n \in OrderRow /\ n.status = b.status /\ (n.review <=> mark)
      /\ n.milestone = b.milestone /\ n.amount = b.amount
      /\ n.receipt = b.receipt /\ n.payment = b.payment
  BY <1>2, <1>3 DEF OrderRow, OrderStatus, RemoteStatus
<1> QED
  BY <1>1, <1>3, <1>4 DEF n

\* What is written keeps all of the decided row but its status, which no longer follows the
\* gateway once the order is paid or under review, and the mark, which stays for a review.
LEMMA ObservedRow ==
  ASSUME NEW o, NEW rows, NEW row \in OrderRow,
         NEW seenStatus \in {"ACTIVE", "EXPIRED", "PAID"},
         NEW n \in Observed(o, rows, row, seenStatus)
  PROVE  /\ n \in OrderRow /\ n.status = Closed(row.status, seenStatus)
         /\ n.milestone = row.milestone /\ n.amount = row.amount
         /\ n.receipt = row.receipt /\ n.payment = row.payment
         /\ (row.review /\ \E p \in Of(o, rows) : rows[p].accounting = "REVIEW_REQUIRED") => n.review
<1> DEFINE status == Closed(row.status, seenStatus)
           new == [row EXCEPT !.status = status, !.provider = seenStatus]
           unresolved == Unresolved(o, new, rows)
           mark == row.review /\ (unresolved \/ UnderReview(o, new, rows))
<1>1. Observed(o, rows, row, seenStatus)
        = {[new EXCEPT !.review = mark]}
            \cup (IF unresolved THEN {[new EXCEPT !.review = TRUE]} ELSE {})
  BY DEF Observed
<1>2. n = [new EXCEPT !.review = mark] \/ n = [new EXCEPT !.review = TRUE]
  <2> HIDE DEF new, unresolved, mark
  <2> QED
    BY <1>1
<1>3. /\ mark \in BOOLEAN
      /\ (row.review /\ \E p \in Of(o, rows) : rows[p].accounting = "REVIEW_REQUIRED") => mark
  <2>1. row.review \in BOOLEAN
    BY DEF OrderRow, OrderStatus, RemoteStatus
  <2> QED
    BY <2>1 DEF UnderReview
<1> HIDE DEF unresolved, mark
<1>4. PICK b \in BOOLEAN : n = AsSeen(row, status, seenStatus, b) /\ (mark => b)
  BY <1>2, <1>3 DEF AsSeen
<1>5. status \in OrderStatus
  <2>1. row.status \in OrderStatus
    BY DEF OrderRow, OrderStatus, RemoteStatus
  <2> QED
    BY <2>1 DEF Closed, OrderStatus
<1> HIDE DEF status, new
<1>6. /\ n \in OrderRow /\ n.status = status /\ (n.review <=> b)
      /\ n.milestone = row.milestone /\ n.amount = row.amount
      /\ n.receipt = row.receipt /\ n.payment = row.payment
  <2>1. seenStatus \in RemoteStatus
    BY DEF RemoteStatus
  <2> DEFINE seenRow == AsSeen(row, status, seenStatus, b)
  <2>2. /\ seenRow \in OrderRow /\ seenRow.status = status /\ (seenRow.review <=> b)
        /\ seenRow.milestone = row.milestone /\ seenRow.amount = row.amount
        /\ seenRow.receipt = row.receipt /\ seenRow.payment = row.payment
    BY <1>5, <2>1, SeenRow
  <2> HIDE DEF seenRow
  <2>3. n = seenRow
    BY <1>4 DEF seenRow
  <2> QED
    BY <2>2, <2>3
<1> QED
  BY <1>3, <1>4, <1>6 DEF status

-----------------------------------------------------------------------------
(* What a step does to the orders, to the payments and to the processes *)

\* No step but NewOrder adds an order; none changes what an order asks for, or opens an order
\* that was closed.
KeepsOrders ==
  /\ orders' \in [Orders -> OrderRow \cup {NoRow}]
  /\ \A o \in Orders :
       IF orders[o] = NoRow THEN orders'[o] = NoRow
       ELSE /\ orders'[o] \in OrderRow
            /\ orders'[o].milestone = orders[o].milestone /\ orders'[o].amount = orders[o].amount
            /\ orders'[o].status \in {"CREATING", "READY"} =>
                 orders[o].status \in {"CREATING", "READY"}

\* Rows are never removed, and a payment stays one of its order.
Grows ==
  /\ \A o \in Orders : orders[o] # NoRow => orders'[o] # NoRow
  /\ \A p \in Payments : payments[p] # NoRow =>
       payments'[p] # NoRow /\ payments'[p].order = payments[p].order

LEMMA KeptOrdersGrow ==
  ASSUME KeepsOrders, UNCHANGED payments
  PROVE  Grows
  BY RowsAreNotNoRow DEF KeepsOrders, Grows

LEMMA SameOrdersKept ==
  ASSUME TablesTyped, UNCHANGED orders
  PROVE  KeepsOrders
<1>1. \A o \in Orders : orders[o] # NoRow => orders[o] \in OrderRow
  BY RowsOfTables
<1> QED
  BY <1>1 DEF KeepsOrders, TablesTyped

LEMMA OneOrderKept ==
  ASSUME TablesTyped, NEW o \in Orders, orders[o] # NoRow, NEW n \in OrderRow,
         n.milestone = orders[o].milestone, n.amount = orders[o].amount,
         n.status \in {"CREATING", "READY"} => orders[o].status \in {"CREATING", "READY"},
         orders' = [orders EXCEPT ![o] = n]
  PROVE  KeepsOrders
<1>1. \A q \in Orders : orders[q] # NoRow => orders[q] \in OrderRow
  BY RowsOfTables
<1>2. \A q \in Orders : orders'[q] = IF q = o THEN n ELSE orders[q]
  BY DEF TablesTyped
<1>3. orders' \in [Orders -> OrderRow \cup {NoRow}]
  BY DEF TablesTyped
<1> QED
  BY <1>1, <1>2, <1>3 DEF KeepsOrders

LEMMA OthersStillFit ==
  ASSUME ProcessesFit, Grows, NEW c \in Procs, Moves(c), Fits(c, procs[c])',
         \A q \in Procs : procs[q] \in Process
  PROVE  ProcessesFit'
<1>1. ASSUME NEW q \in Procs \ {c} PROVE Fits(q, procs[q])'
  <2>1. Alike(procs'[q], procs[q]) /\ Fits(q, procs[q]) /\ procs[q] \in Process
    BY DEF Moves, ProcessesFit
  <2>2. procs[q].todo \in SUBSET Orders
    BY <2>1 DEF Process
  <2>3. \A p \in Payments : Saw(procs[q], p)' <=> Saw(procs[q], p)
    BY <2>1 DEF Saw, Alike
  <2> QED
    BY <2>1, <2>2, <2>3 DEF Fits, Alike, Grows
<1> QED
  BY <1>1 DEF ProcessesFit

\* A process that begins, ends or goes on with its next order has seen nothing yet.
LEMMA BeginnerFits ==
  ASSUME NEW c \in Procs, procs'[c].pc \in {"idle", "next"},
         procs'[c].pc = "next" => procs'[c].milestone \in Milestones,
         procs'[c].snap.pays = Null,
         \A o \in procs'[c].todo : orders'[o] # NoRow
  PROVE  Fits(c, procs[c])'
  BY DEF Fits

LEMMA StoppedFits ==
  ASSUME NEW c \in Procs, Stopped(c), procs \in [Procs -> Process]
  PROVE  Moves(c) /\ Fits(c, procs[c])'
<1>1. \A q \in Procs : Alike(procs[q], procs[q])
  BY DEF Alike
<1>2. Moves(c) /\ procs'[c] = Idle
  BY <1>1, IdleIsAProcess, PutMoves DEF Stopped
<1> QED
  BY <1>2, IdleIsAProcess, BeginnerFits

LEMMA ReturnedIsABeginner ==
  ASSUME NEW t \in Process, NEW refused, NEW n, n = Returned(t, refused)
  PROVE  /\ n \in Process /\ n.pc \in {"idle", "next"}
         /\ n.pc = "next" => n.milestone \in Milestones
         /\ n.snap.pays = Null
         /\ n.todo \subseteq t.todo
<1>1. CASE t.milestone = Null \/ refused
  <2>1. n = Idle
    BY <1>1 DEF Returned
  <2> QED
    BY <2>1, IdleIsAProcess
<1>2. CASE ~ (t.milestone = Null \/ refused)
  <2> DEFINE a == [Idle EXCEPT !.pc = "next"]
             b == [a EXCEPT !.milestone = t.milestone]
             todo == t.todo \ {t.order}
  <2>1. n = [b EXCEPT !.todo = todo]
    BY <1>2 DEF Returned
  <2>2. t.milestone \in Milestones /\ todo \in SUBSET Orders /\ todo \subseteq t.todo
    BY <1>2 DEF Process
  <2> HIDE DEF todo
  <2>3. a \in Process /\ a.pc = "next" /\ a.snap = Idle.snap
    BY IdleIsAProcess, SetPc
  <2> HIDE DEF a
  <2>4. b \in Process /\ b.pc = "next" /\ b.snap = Idle.snap /\ b.milestone = t.milestone
    BY <2>2, <2>3, SetMilestone
  <2> HIDE DEF b
  <2>5. /\ n \in Process /\ n.pc = "next" /\ n.snap = Idle.snap /\ n.milestone = t.milestone
        /\ n.todo = todo
    BY <2>1, <2>2, <2>4, SetTodo
  <2> QED
    BY <2>2, <2>5, IdleIsAProcess
<1> QED
  BY <1>1, <1>2

\* reconcile() returns: c goes on with a part of what it had to do.
LEMMA ReturnFits ==
  ASSUME RowsInv, NEW c \in Procs, Grows, NEW running \in [Procs -> Process],
         \A q \in Procs : Alike(running[q], procs[q]), NEW refused, NEW t \in Process,
         \A o \in t.todo : orders[o] # NoRow,
         procs' = Put(running, c, Returned(t, refused))
  PROVE  Moves(c) /\ Fits(c, procs[c])'
<1> DEFINE n == Returned(t, refused)
<1>1. /\ n \in Process /\ n.pc \in {"idle", "next"}
      /\ n.pc = "next" => n.milestone \in Milestones
      /\ n.snap.pays = Null /\ n.todo \subseteq t.todo
  BY ReturnedIsABeginner
<1>2. procs' = Put(running, c, n)
  OBVIOUS
<1> HIDE DEF n
<1>3. Moves(c) /\ procs'[c] = n
  BY <1>1, <1>2, PutMoves
<1>4. t.todo \subseteq Orders
  BY DEF Process
<1>5. \A o \in n.todo : orders'[o] # NoRow
  BY <1>1, <1>4 DEF Grows
<1> QED
  BY <1>1, <1>3, <1>5, BeginnerFits

\* The row that is written at the end of the transaction.
Ends(c, o, final, row, new) ==
  /\ orders' = [orders EXCEPT ![o] = new]
  /\ new \in OrderRow /\ new.status = Closed(row.status, procs[c].snap.status)
  /\ new.milestone = row.milestone /\ new.amount = row.amount
  /\ new.receipt = row.receipt /\ new.payment = row.payment
  /\ (row.review /\ \E p \in Of(o, final) : final[p].accounting = "REVIEW_REQUIRED") => new.review

LEMMA RecordingEnds ==
  ASSUME RowsInv, NEW c \in Procs, NEW rows, NEW final, NEW row, NEW several, NEW applied, NEW r,
         Recording(c, rows, final, row, several, applied, r)
  PROVE  \E new :
           /\ Ends(c, procs[c].order, final, row, new)
           /\ procs' = Put(Overtake(procs, c, procs[c].order), c,
                           Returned(procs[c], Refuses(procs[c].order, new, final)))
<1> DEFINE o == procs[c].order
<1>1. ToRecord(c) /\ Record(c, o, final, row) /\ row \in OrderRow
  BY DEF Recording, Decided
<1>2. procs[c].snap.status \in {"ACTIVE", "EXPIRED", "PAID"}
  <2>1. procs[c] \in Process /\ procs[c].snap.status # "NONE"
    BY <1>1, ServedOrder DEF ToRecord
  <2>2. procs[c].snap \in Snapshot
    BY <2>1 DEF Process
  <2> QED
    BY <2>1, <2>2 DEF Snapshot
<1>3. PICK new \in Observed(o, final, row, procs[c].snap.status) :
        /\ orders' = [orders EXCEPT ![o] = new]
        /\ procs' = Put(Overtake(procs, c, o), c, Returned(procs[c], Refuses(o, new, final)))
  BY <1>1 DEF Record
<1> DEFINE seenStatus == procs[c].snap.status
<1> HIDE DEF seenStatus
<1>4. /\ new \in OrderRow /\ new.status = Closed(row.status, seenStatus)
      /\ new.milestone = row.milestone /\ new.amount = row.amount
      /\ new.receipt = row.receipt /\ new.payment = row.payment
      /\ (row.review /\ \E p \in Of(o, final) : final[p].accounting = "REVIEW_REQUIRED") => new.review
  <2>1. seenStatus \in {"ACTIVE", "EXPIRED", "PAID"} /\ new \in Observed(o, final, row, seenStatus)
    BY <1>2, <1>3 DEF seenStatus
  <2> QED
    BY <1>1, <2>1, ObservedRow
<1>5. Ends(c, o, final, row, new)
  BY <1>3, <1>4 DEF Ends, seenStatus
<1> QED
  BY <1>3, <1>5

LEMMA RecordingKeeps ==
  ASSUME RowsInv, NEW c \in Procs, NEW rows, NEW final, NEW row, NEW several, NEW applied, NEW r,
         Recording(c, rows, final, row, several, applied, r)
  PROVE  /\ KeepsOrders /\ Moves(c) /\ Fits(c, procs[c])'
         /\ attempts' = final /\ UNCHANGED <<booking, gateway>>
<1> DEFINE o == procs[c].order
<1>1. ToRecord(c) /\ Record(c, o, final, row) /\ Decided(o, row, several, applied, r)
  BY DEF Recording
<1>2. attempts' = final /\ UNCHANGED <<booking, gateway>>
  BY <1>1 DEF Record
<1>3. PICK new :
        /\ Ends(c, o, final, row, new)
        /\ procs' = Put(Overtake(procs, c, o), c, Returned(procs[c], Refuses(o, new, final)))
  BY RecordingEnds
<1>4. o \in Orders /\ orders[o] \in OrderRow /\ procs[c] \in Process
  BY <1>1, ServedOrder DEF ToRecord
<1>5. KeepsOrders
  <2>1. /\ new \in OrderRow /\ orders' = [orders EXCEPT ![o] = new]
        /\ new.milestone = orders[o].milestone /\ new.amount = orders[o].amount
        /\ new.status = Closed(row.status, procs[c].snap.status)
    BY <1>1, <1>3 DEF Ends, Decided
  <2>2. row.status \in {"CREATING", "READY"} => orders[o].status \in {"CREATING", "READY"}
    <3>1. row.status = "PAID" \/ row.status = "REVIEW_REQUIRED" \/ row = orders[o]
      BY <1>1 DEF Decided
    <3> QED
      BY <3>1
  <2>3. new.status \in {"CREATING", "READY"} => row.status \in {"CREATING", "READY"}
    BY <2>1, ClosedStatus
  <2>4. orders[o] # NoRow
    BY <1>4, RowsAreNotNoRow
  <2> QED
    BY <1>4, <2>1, <2>2, <2>3, <2>4, OneOrderKept DEF RowsInv
<1>6. Grows
  BY <1>2, <1>5, KeptOrdersGrow DEF gateway
<1>7. /\ Overtake(procs, c, o) \in [Procs -> Process]
      /\ \A q \in Procs : Alike(Overtake(procs, c, o)[q], procs[q])
  BY OvertakeIsAlike DEF RowsInv, TablesTyped
<1>8. \A q \in procs[c].todo : orders[q] # NoRow
  BY DEF RowsInv, ProcessesFit, Fits
<1>9. Moves(c) /\ Fits(c, procs[c])'
  BY <1>3, <1>4, <1>6, <1>7, <1>8, ReturnFits
<1> QED
  BY <1>2, <1>5, <1>9

\* What a recording makes of the attempt of p.
Follows(o, p) ==
  IF attempts[p] = NoRow
  THEN attempts'[p] # NoRow =>
         /\ attempts'[p] \in AttemptRow /\ attempts'[p].order = o
         /\ payments[p] # NoRow /\ payments[p].order = o
  ELSE /\ attempts'[p] \in AttemptRow
       /\ attempts'[p].order = attempts[p].order
       /\ attempts[p].status = "SUCCESS" => attempts'[p].status = "SUCCESS"
       /\ attempts[p].status = "FAILED" => attempts'[p].status # "PENDING"
       /\ (attempts[p].status = "SUCCESS" /\ attempts[p].accounting = "APPLIED")
            => attempts'[p] = attempts[p]
       /\ attempts[p].order # o => attempts'[p] = attempts[p]

LEMMA RecordingFollows ==
  ASSUME RowsInv, NEW c \in Procs, NEW rows, NEW final, NEW row, NEW several, NEW applied, NEW r,
         Recording(c, rows, final, row, several, applied, r)
  PROVE  /\ attempts' \in [Payments -> AttemptRow \cup {NoRow}]
         /\ \A p \in Payments : Follows(procs[c].order, p)
<1> DEFINE o == procs[c].order
<1>1. /\ attempts' = final /\ Accounted(o, rows, final, several, applied, r)
      /\ ToRecord(c) /\ rows = Recorded(o, procs[c].snap.pays)
  BY RecordingKeeps DEF Recording
<1>2. ASSUME NEW p \in Payments PROVE Follows(o, p)
  <2>1. Reports(o, p, rows[p])
    BY <1>1, RecordedReports
  <2>2. CASE p \in several \cup applied
    <3>1. /\ rows[p] \in AttemptRow /\ rows[p].status = "SUCCESS"
          /\ rows[p].order = o /\ rows[p].accounting = "UNAPPLIED"
          /\ attempts'[p] \in AttemptRow /\ attempts'[p].status = "SUCCESS"
          /\ attempts'[p].order = o
      BY <1>1, <2>2 DEF Accounted
    <3>2. rows[p] # NoRow
      BY <3>1, RowsAreNotNoRow
    <3> QED
      BY <2>1, <3>1, <3>2 DEF Reports, Follows
  <2>3. CASE p \notin several \cup applied
    <3>1. attempts'[p] = rows[p]
      BY <1>1, <2>3 DEF Accounted
    <3> QED
      BY <2>1, <3>1 DEF Reports, Follows
  <2> QED
    BY <2>2, <2>3
<1> QED
  BY <1>1, <1>2 DEF Accounted

-----------------------------------------------------------------------------
(* The other steps of a reconciliation *)

StepOf(c) == KeepsOrders /\ Moves(c) /\ Fits(c, procs[c])'

LEMMA ProcessOf ==
  ASSUME RowsInv, NEW c \in Procs
  PROVE  procs[c] \in Process /\ Fits(c, procs[c]) /\ procs \in [Procs -> Process]
  BY DEF RowsInv, TablesTyped, ProcessesFit

\* A process that goes on with the order it serves, and knows no more payments.
LEMMA ServesOn ==
  ASSUME RowsInv, NEW c \in Procs, KeepsOrders, UNCHANGED payments,
         procs[c].pc \in {"fetch", "recover", "resent", "sent"},
         procs'[c].pc \in {"fetch", "recover", "resent", "sent"},
         procs'[c].order = procs[c].order, procs'[c].todo = procs[c].todo,
         procs'[c].snap.pays = procs[c].snap.pays \/ procs'[c].snap.pays = Null
  PROVE  Fits(c, procs[c])'
<1>1. Fits(c, procs[c]) /\ procs[c].todo \in SUBSET Orders
  BY ProcessOf DEF Process
<1>2. Grows
  BY KeptOrdersGrow
<1>3. procs'[c].snap.pays # Null => \A p \in Payments : Saw(procs[c], p)' => Saw(procs[c], p)
  BY DEF Saw
<1> QED
  BY <1>1, <1>2, <1>3 DEF Fits, Grows

LEMMA FetchOrderStep ==
  ASSUME RowsInv, NEW c \in Procs, FetchOrder(c)
  PROVE  StepOf(c)
<1> DEFINE t == procs[c]
           s == [t.snap EXCEPT !.status = remote[t.order]]
           n == [t EXCEPT !.snap = s]
<1>1. t \in Process /\ t.snap \in Snapshot /\ t.pc = "fetch" /\ t.order \in Orders
  BY ProcessOf, ServedOrder DEF FetchOrder, At, Process
<1>2. remote[t.order] \in {"ACTIVE", "EXPIRED", "PAID"}
  BY <1>1 DEF FetchOrder, RowsInv, TablesTyped
<1>3. s \in Snapshot /\ s.pays = t.snap.pays
  BY <1>1, <1>2 DEF Snapshot
<1>4. procs' = [procs EXCEPT ![c] = n] /\ UNCHANGED <<orders, payments>>
  BY DEF FetchOrder, gateway
<1> HIDE DEF s
<1>5. /\ n \in Process /\ n.snap = s /\ n.pc = t.pc /\ n.todo = t.todo /\ n.order = t.order
  BY <1>1, <1>3, SetSnap
<1> HIDE DEF n
<1>6. Moves(c) /\ procs'[c] = n
  BY <1>4, <1>5, ProcessOf, ExceptMoves
<1>7. KeepsOrders
  BY <1>4, SameOrdersKept DEF RowsInv
<1>8. Fits(c, procs[c])'
  BY <1>1, <1>3, <1>4, <1>5, <1>6, <1>7, ServesOn
<1> QED
  BY <1>6, <1>7, <1>8 DEF StepOf

LEMMA FetchPaymentsStep ==
  ASSUME RowsInv, NEW c \in Procs, FetchPayments(c)
  PROVE  StepOf(c)
<1> DEFINE t == procs[c]
           known == {q \in Payments : payments[q] # NoRow /\ payments[q].order = t.order}
           pays == {<<p, payments[p].status>> : p \in known}
           s == [t.snap EXCEPT !.pays = pays]
           n == [t EXCEPT !.snap = s]
<1>1. t \in Process /\ t.snap \in Snapshot /\ t.pc = "fetch" /\ t.order \in Orders /\ Fits(c, t)
  BY ProcessOf, ServedOrder DEF FetchPayments, At, Process
<1>2. \A p \in known : payments[p].status \in PaymentStatus
  BY RowsOfTables DEF RowsInv, PaymentRow
<1>3. pays \in SUBSET (Payments \X PaymentStatus)
  BY <1>2
<1>4. \A p \in Payments, st \in PaymentStatus : <<p, st>> \in pays =>
        payments[p] # NoRow /\ payments[p].order = t.order
  OBVIOUS
<1>5. procs' = [procs EXCEPT ![c] = n] /\ UNCHANGED <<orders, payments>>
  BY DEF FetchPayments, gateway
<1> HIDE DEF pays
<1>6. s \in Snapshot /\ s.pays = pays
  BY <1>1, <1>3 DEF Snapshot
<1> HIDE DEF s
<1>7. n \in Process /\ n.snap = s /\ n.pc = t.pc /\ n.todo = t.todo /\ n.order = t.order
  BY <1>1, <1>6, SetSnap
<1> HIDE DEF n
<1>8. Moves(c) /\ procs'[c] = n
  BY <1>5, <1>7, ProcessOf, ExceptMoves
<1>9. KeepsOrders
  BY <1>5, SameOrdersKept DEF RowsInv
<1>10. Fits(c, procs[c])'
  <2>1. \A p \in Payments : Saw(procs[c], p)' => payments'[p] # NoRow /\ payments'[p].order = n.order
    BY <1>4, <1>5, <1>6, <1>7, <1>8 DEF Saw
  <2> QED
    BY <1>1, <1>5, <1>7, <1>8, <2>1 DEF Fits
<1> QED
  BY <1>8, <1>9, <1>10 DEF StepOf

LEMMA OrderNotFoundStep ==
  ASSUME RowsInv, NEW c \in Procs, OrderNotFound(c)
  PROVE  StepOf(c)
<1> DEFINE t == procs[c]
           n == [t EXCEPT !.pc = "recover"]
<1>1. t \in Process /\ t.pc = "fetch"
  BY ProcessOf DEF OrderNotFound, At
<1>2. procs' = [procs EXCEPT ![c] = n] /\ UNCHANGED <<orders, payments>>
  BY DEF OrderNotFound, Goto, gateway
<1>3. n \in Process /\ n.snap = t.snap /\ n.pc = "recover" /\ n.todo = t.todo /\ n.order = t.order
  BY <1>1, SetPc
<1> HIDE DEF n
<1>4. Moves(c) /\ procs'[c] = n
  BY <1>2, <1>3, ProcessOf, ExceptMoves
<1>5. KeepsOrders
  BY <1>2, SameOrdersKept DEF RowsInv
<1>6. Fits(c, procs[c])'
  BY <1>1, <1>2, <1>3, <1>4, <1>5, ServesOn
<1> QED
  BY <1>4, <1>5, <1>6 DEF StepOf

\* The second look at an order.
LEMMA AgainFits ==
  ASSUME RowsInv, NEW c \in Procs, KeepsOrders, UNCHANGED payments, NEW row,
         procs[c].pc \in {"recover", "resent"}, Again(c, procs[c].order, row)
  PROVE  Moves(c) /\ Fits(c, procs[c])'
<1> DEFINE t == procs[c]
<1>1. t \in Process /\ Fits(c, t)
  BY ProcessOf
<1>2. CASE row.status = "TERMINATED"
  <2>1. procs' = Put(procs, c, Returned(t, Refuses(t.order, row, attempts)))
    BY <1>2 DEF Again
  <2>2. Grows
    BY KeptOrdersGrow
  <2>3. \A q \in Procs : Alike(procs[q], procs[q])
    BY DEF Alike
  <2>4. procs \in [Procs -> Process] /\ \A o \in t.todo : orders[o] # NoRow
    BY <1>1, ProcessOf DEF Fits
  <2> QED
    BY <1>1, <2>1, <2>2, <2>3, <2>4, ReturnFits
<1>3. CASE row.status # "TERMINATED"
  <2> DEFINE a == [t EXCEPT !.pc = "fetch"]
             b == [a EXCEPT !.snap = NoSnapshot]
             n == [b EXCEPT !.creating = FALSE]
  <2>1. procs' = [procs EXCEPT ![c] = n]
    BY <1>3 DEF Again
  <2>2. a \in Process /\ a.pc = "fetch" /\ a.order = t.order /\ a.todo = t.todo
    BY <1>1, SetPc
  <2> HIDE DEF a
  <2>3. NoSnapshot \in Snapshot /\ NoSnapshot.pays = Null
    BY DEF NoSnapshot, Snapshot
  <2>4. /\ b \in Process /\ b.pc = "fetch" /\ b.order = t.order /\ b.todo = t.todo
        /\ b.snap = NoSnapshot
    BY <2>2, <2>3, SetSnap
  <2> HIDE DEF b
  <2>5. n \in Process /\ Alike(n, b)
    BY <2>4, SetKnowledge
  <2> HIDE DEF n
  <2>6. Moves(c) /\ procs'[c] = n
    BY <2>1, <2>5, ProcessOf, ExceptMoves
  <2>7. Fits(c, procs[c])'
    BY <2>3, <2>4, <2>5, <2>6, ServesOn DEF Alike
  <2> QED
    BY <2>6, <2>7
<1> QED
  BY <1>2, <1>3

\* The two other ways an order changes its status: its creation is known to have succeeded,
\* or it is given up before it was sent.
LEMMA ReadyRow ==
  ASSUME NEW row \in OrderRow
  PROVE  LET n == Ready(row) IN
         /\ n \in OrderRow /\ n.milestone = row.milestone /\ n.amount = row.amount
         /\ n.receipt = row.receipt /\ n.payment = row.payment
         /\ n.review <=> row.review
         /\ n.status = IF row.status = "CREATING" THEN "READY" ELSE row.status
  BY DEF Ready, OrderRow

AsAbandoned(row) == [row EXCEPT !.status = "TERMINATED", !.provider = "NOT_CREATED"]

LEMMA AbandonedRow ==
  ASSUME NEW row \in OrderRow
  PROVE  LET n == AsAbandoned(row) IN
         /\ n \in OrderRow /\ n.milestone = row.milestone /\ n.amount = row.amount
         /\ n.receipt = row.receipt /\ n.payment = row.payment
         /\ n.review <=> row.review
         /\ n.status = "TERMINATED"
<1> DEFINE a == [row EXCEPT !.status = "TERMINATED"]
           n == AsAbandoned(row)
<1>1. /\ a \in OrderRow /\ a.status = "TERMINATED"
      /\ a.milestone = row.milestone /\ a.amount = row.amount
      /\ a.receipt = row.receipt /\ a.payment = row.payment /\ (a.review <=> row.review)
  BY DEF OrderRow
<1>2. n = [a EXCEPT !.provider = "NOT_CREATED"]
  BY DEF AsAbandoned
<1> HIDE DEF a, n
<1>3. /\ n \in OrderRow /\ n.status = a.status
      /\ n.milestone = a.milestone /\ n.amount = a.amount
      /\ n.receipt = a.receipt /\ n.payment = a.payment /\ (n.review <=> a.review)
  BY <1>1, <1>2 DEF OrderRow
<1> QED
  BY <1>1, <1>3 DEF n

LEMMA RecoverStep ==
  ASSUME RowsInv, NEW c \in Procs, Recover(c)
  PROVE  StepOf(c)
<1> DEFINE t == procs[c]
           o == t.order
           abandoned == AsAbandoned(orders[o])
<1>1. /\ t \in Process /\ t.pc = "recover" /\ o \in Orders /\ orders[o] \in OrderRow
      /\ orders[o] # NoRow
  BY ProcessOf, ServedOrder, RowsAreNotNoRow DEF Recover, At
<1>2. UNCHANGED payments
  BY DEF Recover
<1>3. CASE Again(c, o, orders[o]) /\ UNCHANGED orders
  <2>1. KeepsOrders
    BY <1>3, SameOrdersKept DEF RowsInv
  <2> QED
    BY <1>1, <1>2, <1>3, <2>1, AgainFits DEF StepOf
<1>4. CASE orders' = [orders EXCEPT ![o] = abandoned] /\ Again(c, o, abandoned)
  <2>1. /\ abandoned \in OrderRow /\ abandoned.status = "TERMINATED"
        /\ abandoned.milestone = orders[o].milestone /\ abandoned.amount = orders[o].amount
    BY <1>1, AbandonedRow
  <2> HIDE DEF abandoned
  <2>2. KeepsOrders
    BY <1>1, <1>4, <2>1, OneOrderKept DEF RowsInv
  <2> QED
    BY <1>1, <1>2, <1>4, <2>2, AgainFits DEF StepOf
<1>5. CASE Goto(c, "resent") /\ UNCHANGED orders
  <2> DEFINE n == [t EXCEPT !.pc = "resent"]
  <2>1. procs' = [procs EXCEPT ![c] = n]
    BY <1>5 DEF Goto
  <2>2. n \in Process /\ n.snap = t.snap /\ n.pc = "resent" /\ n.todo = t.todo /\ n.order = t.order
    BY <1>1, SetPc
  <2> HIDE DEF n
  <2>3. Moves(c) /\ procs'[c] = n
    BY <2>1, <2>2, ProcessOf, ExceptMoves
  <2>4. KeepsOrders
    BY <1>5, SameOrdersKept DEF RowsInv
  <2>5. Fits(c, procs[c])'
    BY <1>1, <1>2, <2>2, <2>3, <2>4, ServesOn
  <2> QED
    BY <2>3, <2>4, <2>5 DEF StepOf
<1> QED
  BY <1>3, <1>4, <1>5 DEF Recover, AsAbandoned

LEMMA RecoveredStep ==
  ASSUME RowsInv, NEW c \in Procs, Recovered(c)
  PROVE  StepOf(c)
<1> DEFINE o == procs[c].order
           n == Ready(orders[o])
<1>1. /\ procs[c].pc = "resent" /\ o \in Orders /\ orders[o] \in OrderRow /\ orders[o] # NoRow
      /\ UNCHANGED payments
  BY ServedOrder, RowsAreNotNoRow DEF Recovered, At, gateway
<1>2. orders' = [orders EXCEPT ![o] = n] /\ Again(c, o, n)
  BY DEF Recovered
<1>3. /\ n \in OrderRow /\ n.milestone = orders[o].milestone /\ n.amount = orders[o].amount
      /\ n.status \in {"CREATING", "READY"} => orders[o].status \in {"CREATING", "READY"}
  BY <1>1, ReadyRow
<1> HIDE DEF n
<1>4. KeepsOrders
  BY <1>1, <1>2, <1>3, OneOrderKept DEF RowsInv
<1> QED
  BY <1>1, <1>2, <1>4, AgainFits DEF StepOf

LEMMA DropStaleStep ==
  ASSUME RowsInv, NEW c \in Procs, DropStale(c)
  PROVE  StepOf(c)
<1>1. procs' = Put(procs, c, Returned(procs[c], Refused(procs[c].order)))
  BY DEF DropStale
<1>2. UNCHANGED <<orders, payments>>
  BY DEF DropStale, gateway
<1>3. KeepsOrders
  BY <1>2, SameOrdersKept DEF RowsInv
<1>4. Grows
  BY <1>2, <1>3, KeptOrdersGrow
<1>5. \A q \in Procs : Alike(procs[q], procs[q])
  BY DEF Alike
<1>6. /\ procs \in [Procs -> Process] /\ procs[c] \in Process
      /\ \A o \in procs[c].todo : orders[o] # NoRow
  BY ProcessOf DEF Fits
<1>7. Moves(c) /\ Fits(c, procs[c])'
  BY <1>1, <1>4, <1>5, <1>6, ReturnFits
<1> QED
  BY <1>3, <1>7 DEF StepOf

LEMMA StopStep ==
  ASSUME RowsInv, NEW c \in Procs, Stop(c)
  PROVE  StepOf(c)
  BY StoppedFits, SameOrdersKept, ProcessOf DEF Stop, StepOf, RowsInv

AsMarked(row) == [row EXCEPT !.review = TRUE]

LEMMA GiveUpStep ==
  ASSUME RowsInv, NEW c \in Procs, GiveUp(c)
  PROVE  StepOf(c)
<1> DEFINE o == procs[c].order
           n == AsMarked(orders[o])
<1>1. o \in Orders /\ orders[o] \in OrderRow /\ orders[o] # NoRow
  <2>1. At(c, "fetch") \/ At(c, "recover") \/ At(c, "resent")
    BY DEF GiveUp, Observes, At
  <2> QED
    BY <2>1, ServedOrder, RowsAreNotNoRow
<1>2. orders' = [orders EXCEPT ![o] = n]
  BY DEF GiveUp, AsMarked
<1>3. /\ n \in OrderRow /\ n.milestone = orders[o].milestone /\ n.amount = orders[o].amount
      /\ n.status = orders[o].status
  BY <1>1 DEF OrderRow, AsMarked
<1> HIDE DEF n
<1>4. KeepsOrders
  BY <1>1, <1>2, <1>3, OneOrderKept DEF RowsInv
<1> QED
  BY <1>4, StoppedFits, ProcessOf DEF GiveUp, StepOf

\* A process begins to check order o.
LEMMA BeginFits ==
  ASSUME RowsInv, NEW c \in Procs, NEW t \in Process, NEW o \in Orders, orders[o] # NoRow,
         UNCHANGED <<orders, payments>>,
         t.snap.pays = Null, \A q \in t.todo : orders[q] # NoRow,
         procs' = Begin(procs, c, t, o)
  PROVE  StepOf(c)
<1>1. KeepsOrders
  BY SameOrdersKept DEF RowsInv
<1>2. Grows
  BY <1>1, KeptOrdersGrow
<1>3. \A q \in Procs : Alike(procs[q], procs[q])
  BY DEF Alike
<1> DEFINE a == [t EXCEPT !.order = o]
<1>4. a \in Process /\ a.snap = t.snap /\ a.todo = t.todo /\ a.order = o
  BY SetOrder
<1>5. CASE NotCreated(o)
  <2>1. procs' = Put(procs, c, Returned(a, Refused(o)))
    BY <1>5 DEF Begin
  <2> HIDE DEF a
  <2>2. Moves(c) /\ Fits(c, procs[c])'
    BY <1>2, <1>3, <1>4, <2>1, ReturnFits, ProcessOf
  <2> QED
    BY <1>1, <2>2 DEF StepOf
<1>6. CASE ~ NotCreated(o)
  <2> DEFINE b == [a EXCEPT !.pc = "fetch"]
             creating == orders[o].status = "CREATING"
             d == [b EXCEPT !.creating = creating]
             earlier == {q \in Procs \ {c} : Observes(q, o)}
             n == [d EXCEPT !.earlier = earlier]
  <2>1. procs' = Put(procs, c, n)
    BY <1>6 DEF Begin
  <2> HIDE DEF a
  <2>2. b \in Process /\ b.pc = "fetch" /\ b.snap = t.snap /\ b.todo = t.todo /\ b.order = o
    BY <1>4, SetPc
  <2>3. creating \in BOOLEAN /\ earlier \in SUBSET Procs
    OBVIOUS
  <2> HIDE DEF b, creating, earlier
  <2>4. d \in Process /\ Alike(d, b)
    BY <2>2, <2>3, SetKnowledge
  <2> HIDE DEF d
  <2>5. n \in Process /\ Alike(n, d)
    <3>1. TRUE \in BOOLEAN
      OBVIOUS
    <3> QED
      BY <2>3, <2>4, <3>1, SetKnowledge
  <2> HIDE DEF n
  <2>6. Moves(c) /\ procs'[c] = n
    BY <1>3, <2>1, <2>5, ProcessOf, PutMoves
  <2>7. /\ n.pc = "fetch" /\ n.order = o /\ n.todo = t.todo /\ n.snap.pays = Null
    BY <2>2, <2>4, <2>5 DEF Alike
  <2>8. \A q \in t.todo : orders'[q] # NoRow
    OBVIOUS
  <2>9. orders'[o] # NoRow
    OBVIOUS
  <2>10. Fits(c, procs[c])'
    BY <2>6, <2>7, <2>8, <2>9 DEF Fits
  <2> QED
    BY <1>1, <2>6, <2>10 DEF StepOf
<1> QED
  BY <1>5, <1>6

LEMMA CheckStep ==
  ASSUME RowsInv, NEW c \in Procs, NEW o \in Orders, Check(c, o)
  PROVE  StepOf(c)
<1>1. UNCHANGED <<orders, payments>> /\ orders[o] # NoRow /\ procs' = Begin(procs, c, Idle, o)
  BY DEF Check, gateway
<1> QED
  BY <1>1, IdleIsAProcess, BeginFits

LEMMA CheckPreviousStep ==
  ASSUME RowsInv, NEW c \in Procs, NEW o \in Orders, CheckPrevious(c, o)
  PROVE  StepOf(c)
<1>1. /\ UNCHANGED <<orders, payments>> /\ procs' = Begin(procs, c, procs[c], o)
      /\ procs[c].pc = "next" /\ o \in procs[c].todo
  BY DEF CheckPrevious, At, gateway
<1>2. /\ procs[c] \in Process /\ procs[c].snap.pays = Null
      /\ \A q \in procs[c].todo : orders[q] # NoRow
  BY <1>1, ProcessOf DEF Fits
<1> QED
  BY <1>1, <1>2, BeginFits

-----------------------------------------------------------------------------
(* The steps of a checkout *)

LEMMA CheckoutStep ==
  ASSUME RowsInv, NEW c \in Customers, NEW m \in Milestones, Checkout(c, m)
  PROVE  StepOf(c)
<1> DEFINE todo == {o \in Orders :
                      orders[o].status \in {"CREATING", "READY", "EXPIRED", "TERMINATED"}}
           a == [Idle EXCEPT !.pc = "next"]
           b == [a EXCEPT !.milestone = m]
           n == [b EXCEPT !.todo = todo]
<1>1. c \in Procs /\ UNCHANGED <<orders, payments>>
  BY DEF Checkout, Procs, gateway
<1>2. procs' = [procs EXCEPT ![c] = n]
  BY DEF Checkout
<1>3. /\ todo \in SUBSET Orders
      /\ \A o \in todo : orders[o] # NoRow
  BY RowsAreNotNoRow
<1>10. todo \in SUBSET Orders
  BY <1>3
<1> HIDE DEF todo
<1>4. a \in Process /\ a.pc = "next" /\ a.snap = Idle.snap
  BY IdleIsAProcess, SetPc
<1> HIDE DEF a
<1>5. b \in Process /\ b.pc = "next" /\ b.snap = Idle.snap /\ b.milestone = m
  BY <1>4, SetMilestone
<1> HIDE DEF b
<1>6. n \in Process /\ n.pc = "next" /\ n.snap = Idle.snap /\ n.milestone = m /\ n.todo = todo
  BY <1>5, <1>10, SetTodo
<1> HIDE DEF n
<1>7. Moves(c) /\ procs'[c] = n
  BY <1>1, <1>2, <1>6, ProcessOf, ExceptMoves
<1>8. Fits(c, procs[c])'
  BY <1>1, <1>3, <1>6, <1>7, IdleIsAProcess, BeginnerFits
<1>9. KeepsOrders
  BY <1>1, SameOrdersKept DEF RowsInv
<1> QED
  BY <1>7, <1>8, <1>9 DEF StepOf

\* A checkout goes on within its transaction, in which it has a milestone and an amount.
LEMMA TransactionGoesOn ==
  ASSUME RowsInv, NEW c \in Customers, UNCHANGED <<orders, payments>>,
         procs[c].pc \in {"next", "tx", "order"}, NEW n \in Process,
         n.pc \in {"tx", "order", "insert"}, n.milestone = procs[c].milestone,
         n.todo = procs[c].todo, n.order = procs[c].order, n.snap = procs[c].snap,
         n.pc \in {"order", "insert"} => n.amount # 0,
         procs' = [procs EXCEPT ![c] = n]
  PROVE  StepOf(c) /\ procs'[c] = n
<1>1. c \in Procs
  BY DEF Procs
<1>2. Moves(c) /\ procs'[c] = n
  BY <1>1, ProcessOf, ExceptMoves
<1>3. KeepsOrders
  BY SameOrdersKept DEF RowsInv
<1>4. Fits(c, procs[c]) /\ procs[c].todo \in SUBSET Orders
  BY <1>1, ProcessOf DEF Process
<1>5. \A p \in Payments : Saw(procs[c], p)' <=> Saw(procs[c], p)
  BY <1>2 DEF Saw
<1>6. Fits(c, procs[c])'
  BY <1>2, <1>4, <1>5 DEF Fits
<1> QED
  BY <1>2, <1>3, <1>6 DEF StepOf

LEMMA StoppedStep ==
  ASSUME RowsInv, NEW c \in Procs, Stopped(c), UNCHANGED orders
  PROVE  StepOf(c)
  BY StoppedFits, SameOrdersKept, ProcessOf DEF StepOf, RowsInv

LEMMA LockBookingStep ==
  ASSUME RowsInv, NEW c \in Customers, LockBooking(c)
  PROVE  /\ StepOf(c)
         /\ procs'[c].pc \in {"tx", "idle"}
         /\ procs'[c].pc = "tx" => Payable
<1>1. c \in Procs /\ UNCHANGED <<orders, payments>> /\ procs[c].pc = "next"
  BY DEF LockBooking, Procs, gateway, At
<1>2. CASE Goto(c, "tx") /\ Payable
  <2> DEFINE n == [procs[c] EXCEPT !.pc = "tx"]
  <2>1. procs' = [procs EXCEPT ![c] = n]
    BY <1>2 DEF Goto
  <2>2. procs[c] \in Process
    BY <1>1, ProcessOf
  <2>3. /\ n \in Process /\ n.pc = "tx" /\ n.milestone = procs[c].milestone
        /\ n.todo = procs[c].todo /\ n.order = procs[c].order /\ n.snap = procs[c].snap
    BY <2>2, SetPc
  <2> HIDE DEF n
  <2>4. StepOf(c) /\ procs'[c] = n
    BY <1>1, <2>1, <2>3, TransactionGoesOn
  <2> QED
    BY <1>2, <2>3, <2>4
<1>3. CASE Stopped(c)
  <2>1. procs'[c] = Idle
    BY <1>1, <1>3 DEF Stopped, Put
  <2> QED
    BY <1>1, <1>3, <2>1, StoppedStep, IdleIsAProcess
<1> QED
  BY <1>2, <1>3 DEF LockBooking

LEMMA LockMilestoneStep ==
  ASSUME RowsInv, NEW c \in Customers, LockMilestone(c)
  PROVE  /\ StepOf(c)
         /\ \/ procs'[c].pc = "idle"
            \/ /\ procs'[c].pc = "order" /\ procs'[c].milestone = procs[c].milestone
               /\ MilestonePayable(procs[c].milestone)
               /\ procs'[c].amount = Remaining(procs[c].milestone)
<1> DEFINE m == procs[c].milestone
<1>1. c \in Procs /\ UNCHANGED <<orders, payments>> /\ procs[c].pc = "tx"
  BY DEF LockMilestone, Procs, gateway, At
<1>2. m \in Milestones
  BY <1>1, ProcessOf DEF Fits
<1>3. CASE /\ MilestonePayable(m)
           /\ procs' = [procs EXCEPT ![c].pc = "order", ![c].amount = Remaining(m)]
  <2> DEFINE a == [procs[c] EXCEPT !.pc = "order"]
             open == Remaining(m)
             n == [a EXCEPT !.amount = open]
  <2>1. procs' = [procs EXCEPT ![c] = n]
    BY <1>1, <1>3, ProcessOf
  <2>2. open \in 0 .. MaxMinor /\ open # 0
    BY <1>2, <1>3, RemainingOfPlan DEF MilestonePayable, RowsInv
  <2>3. procs[c] \in Process
    BY <1>1, ProcessOf
  <2> HIDE DEF open
  <2>4. /\ a \in Process /\ a.pc = "order" /\ a.milestone = procs[c].milestone
        /\ a.todo = procs[c].todo /\ a.order = procs[c].order /\ a.snap = procs[c].snap
    BY <2>3, SetPc
  <2> HIDE DEF a
  <2>5. /\ n \in Process /\ n.pc = "order" /\ n.milestone = procs[c].milestone
        /\ n.todo = procs[c].todo /\ n.order = procs[c].order /\ n.snap = procs[c].snap
        /\ n.amount = open
    BY <2>2, <2>4, SetAmount
  <2> HIDE DEF n
  <2>6. StepOf(c) /\ procs'[c] = n
    BY <1>1, <2>1, <2>2, <2>5, TransactionGoesOn
  <2> QED
    BY <1>3, <2>5, <2>6 DEF open
<1>4. CASE Stopped(c)
  <2>1. procs'[c] = Idle
    BY <1>1, <1>4 DEF Stopped, Put
  <2> QED
    BY <1>1, <1>4, <2>1, StoppedStep, IdleIsAProcess
<1> QED
  BY <1>3, <1>4 DEF LockMilestone

LEMMA NoneOpenStep ==
  ASSUME RowsInv, NEW c \in Customers, NoneOpen(c)
  PROVE  /\ StepOf(c)
         /\ procs'[c].pc = "insert" /\ procs'[c].milestone = procs[c].milestone
         /\ procs'[c].amount = procs[c].amount
<1> DEFINE n == [procs[c] EXCEPT !.pc = "insert"]
<1>1. c \in Procs /\ UNCHANGED <<orders, payments>> /\ procs[c].pc = "order"
  BY DEF NoneOpen, Procs, gateway, At
<1>2. procs' = [procs EXCEPT ![c] = n]
  BY DEF NoneOpen, Goto
<1>3. procs[c] \in Process /\ procs[c].amount # 0
  BY <1>1, ProcessOf DEF Fits
<1>4. /\ n \in Process /\ n.pc = "insert" /\ n.milestone = procs[c].milestone
      /\ n.amount = procs[c].amount
      /\ n.todo = procs[c].todo /\ n.order = procs[c].order /\ n.snap = procs[c].snap
  BY <1>3, SetPc
<1> HIDE DEF n
<1>5. StepOf(c) /\ procs'[c] = n
  BY <1>1, <1>2, <1>3, <1>4, TransactionGoesOn
<1> QED
  BY <1>4, <1>5

\* The creation of an order is sent.
LEMMA SentFits ==
  ASSUME RowsInv, NEW c \in Procs, NEW o \in Orders, orders'[o] # NoRow, Sent(c, o)
  PROVE  Moves(c) /\ Fits(c, procs[c])' /\ procs'[c].pc = "sent"
<1> DEFINE a == [Idle EXCEPT !.pc = "sent"]
           n == [a EXCEPT !.order = o]
<1>1. procs' = [procs EXCEPT ![c] = n]
  BY DEF Sent
<1>2. a \in Process /\ a.pc = "sent" /\ a.snap = Idle.snap /\ a.todo = Idle.todo
  BY IdleIsAProcess, SetPc
<1> HIDE DEF a
<1>3. n \in Process /\ n.pc = "sent" /\ n.snap = Idle.snap /\ n.todo = Idle.todo /\ n.order = o
  BY <1>2, SetOrder
<1> HIDE DEF n
<1>4. Moves(c) /\ procs'[c] = n
  BY <1>1, <1>3, ProcessOf, ExceptMoves
<1> QED
  BY <1>3, <1>4, IdleIsAProcess DEF Fits

LEMMA ReuseOrderStep ==
  ASSUME RowsInv, NEW c \in Customers, ReuseOrder(c)
  PROVE  StepOf(c) /\ procs'[c].pc \in {"idle", "sent"}
<1>1. c \in Procs /\ UNCHANGED orders
  BY DEF ReuseOrder, Procs
<1>2. PICK o \in OrdersOf(procs[c].milestone) : Stopped(c) \/ Sent(c, o)
  BY DEF ReuseOrder
<1>3. CASE Stopped(c)
  <2>1. procs'[c] = Idle
    BY <1>1, <1>3 DEF Stopped, Put
  <2> QED
    BY <1>1, <1>3, <2>1, StoppedStep, IdleIsAProcess
<1>4. CASE Sent(c, o)
  <2>1. o \in Orders /\ orders'[o] # NoRow
    BY <1>1 DEF OrdersOf
  <2> QED
    BY <1>1, <1>4, <2>1, SentFits, SameOrdersKept DEF StepOf, RowsInv
<1> QED
  BY <1>2, <1>3, <1>4

LEMMA RefuseOrderStep ==
  ASSUME RowsInv, NEW c \in Customers, RefuseOrder(c)
  PROVE  StepOf(c) /\ procs'[c].pc = "idle"
<1>1. c \in Procs /\ UNCHANGED orders /\ Stopped(c)
  BY DEF RefuseOrder, Procs
<1>2. procs'[c] = Idle
  BY <1>1 DEF Stopped, Put
<1> QED
  BY <1>1, <1>2, StoppedStep, IdleIsAProcess

LEMMA CreatedStep ==
  ASSUME RowsInv, NEW c \in Customers, Created(c)
  PROVE  StepOf(c) /\ procs'[c].pc = "idle"
<1> DEFINE o == procs[c].order
           n == Ready(orders[o])
<1>1. c \in Procs /\ Stopped(c)
  BY DEF Created, Procs
<1>2. o \in Orders /\ orders[o] \in OrderRow /\ orders[o] # NoRow
  BY <1>1, ServedOrder, RowsAreNotNoRow DEF Created
<1>3. orders' = [orders EXCEPT ![o] = n]
  BY DEF Created
<1>4. /\ n \in OrderRow /\ n.milestone = orders[o].milestone /\ n.amount = orders[o].amount
      /\ n.status \in {"CREATING", "READY"} => orders[o].status \in {"CREATING", "READY"}
  BY <1>2, ReadyRow
<1> HIDE DEF n
<1>5. KeepsOrders
  BY <1>2, <1>3, <1>4, OneOrderKept DEF RowsInv
<1>6. procs'[c] = Idle
  BY <1>1 DEF Stopped, Put
<1> QED
  BY <1>1, <1>5, <1>6, StoppedFits, ProcessOf, IdleIsAProcess DEF StepOf

LEMMA NewOrderStep ==
  ASSUME RowsInv, NEW c \in Customers, NEW o \in Orders, NewOrder(c, o)
  PROVE  /\ orders[o] = NoRow /\ orders'[o] \in OrderRow
         /\ orders'[o].status = "CREATING"
         /\ orders'[o].receipt = Null /\ orders'[o].payment = Null
         /\ orders'[o].milestone = procs[c].milestone /\ orders'[o].amount = procs[c].amount
         /\ \A q \in Orders \ {o} : orders'[q] = orders[q]
         /\ orders' \in [Orders -> OrderRow \cup {NoRow}]
         /\ Grows /\ Moves(c) /\ Fits(c, procs[c])' /\ procs'[c].pc = "sent"
<1> DEFINE n == [status |-> "CREATING", milestone |-> procs[c].milestone,
                 amount |-> procs[c].amount, provider |-> "NONE",
                 payment |-> Null, receipt |-> Null, review |-> FALSE]
<1>1. c \in Procs /\ procs[c].pc = "insert" /\ UNCHANGED payments
  BY DEF NewOrder, At, Procs
<1>2. procs[c].milestone \in Milestones /\ procs[c].amount \in 1 .. MaxMinor
  <2>1. procs[c] \in Process /\ Fits(c, procs[c])
    BY <1>1, ProcessOf
  <2>2. procs[c].amount \in 0 .. MaxMinor /\ procs[c].amount # 0
    BY <1>1, <2>1 DEF Fits, Process
  <2> QED
    BY <1>1, <2>1, <2>2 DEF Fits
<1>3. /\ n \in OrderRow /\ n.status = "CREATING" /\ n.receipt = Null /\ n.payment = Null
      /\ n.milestone = procs[c].milestone /\ n.amount = procs[c].amount
  BY <1>2 DEF OrderRow
<1>4. orders[o] = NoRow /\ orders' = [orders EXCEPT ![o] = n] /\ Sent(c, o)
  BY DEF NewOrder
<1> HIDE DEF n
<1>5. /\ orders'[o] = n /\ \A q \in Orders \ {o} : orders'[q] = orders[q]
      /\ orders' \in [Orders -> OrderRow \cup {NoRow}]
  BY <1>3, <1>4 DEF RowsInv, TablesTyped
<1>6. orders'[o] # NoRow
  BY <1>3, <1>5, RowsAreNotNoRow
<1>7. Grows
  BY <1>1, <1>4, <1>5 DEF Grows
<1>8. Moves(c) /\ Fits(c, procs[c])' /\ procs'[c].pc = "sent"
  BY <1>1, <1>4, <1>6, SentFits
<1> QED
  BY <1>3, <1>4, <1>5, <1>7, <1>8

-----------------------------------------------------------------------------
(* The rows of the tables are an invariant *)

LEMMA SettleTyped ==
  ASSUME TypeOK, Settle
  PROVE  TypeOK'
<1>1. ASSUME NEW r \in Receipts, NEW d \in Dates, NEW a \in Amounts,
             NEW status \in {"PENDING", "CONFIRMED"}, NEW k \in Keys \ Payments,
             CreateReceipt(r, Invoice, d, a, "MANUAL", status, k)
      PROVE  TypeOK'
  <2>1. a \in 1 .. MaxMinor /\ Invoice \in Invoices /\ "MANUAL" \in {"MANUAL", "GATEWAY"}
    BY LedgerAssumption, GatewayAssumption
  <2> QED
    BY <1>1, <2>1, CreateReceiptTyped
<1>2. ASSUME NEW r \in Receipts, ConfirmReceipt(r) \/ ReverseReceipt(r)
      PROVE  TypeOK'
  BY <1>2, ReceiptStepTyped DEF ReceiptStep
<1>3. ASSUME NEW x \in Adjustments, AdjustmentStep(x)
      PROVE  TypeOK'
  BY <1>3, AdjustmentStepTyped
<1>4. ASSUME NEW u \in Users, Cancel(u, Invoice)
      PROVE  TypeOK'
  BY <1>4, InvoiceStepTyped, GatewayAssumption DEF InvoiceStep
<1> QED
  BY <1>1, <1>2, <1>3, <1>4 DEF Settle

LEMMA ApplyTyped ==
  ASSUME RowsInv, NEW c \in Procs, NEW r \in Receipts, Apply(c, r)
  PROVE  TypeOK'
<1>1. PICK rows, final, row, several, p :
        /\ p \in Payments
        /\ Recording(c, rows, final, row, several, {p}, r)
        /\ GatewayReceipt(r, p, rows[p].amount)
        /\ rows[p].currency = "INR" /\ rows[p].amount = orders[procs[c].order].amount
        /\ InvoiceAccepts(rows[p].amount)
        /\ ~ BookingShared
  BY ApplyRecords
<1>2. orders[procs[c].order] \in OrderRow
  BY <1>1, ServedOrder DEF Recording, ToRecord
<1>3. rows[p].amount \in 1 .. MaxMinor
  BY <1>1, <1>2 DEF OrderRow
<1>4. PICK d \in Dates :
        CreateReceipt(r, Invoice, d, rows[p].amount, "GATEWAY", "CONFIRMED", p)
  BY <1>1 DEF GatewayReceipt
<1>5. /\ p \in Keys /\ Invoice \in Invoices
      /\ "GATEWAY" \in {"MANUAL", "GATEWAY"} /\ "CONFIRMED" \in {"PENDING", "CONFIRMED"}
  BY <1>1, GatewayAssumption
<1> QED
  BY <1>3, <1>4, <1>5, CreateReceiptTyped DEF RowsInv

\* A step of a process keeps the rows when the attempts it writes are those of payments.
LEMMA RowsKept ==
  ASSUME RowsInv, NEW c \in Procs, TypeOK', UNCHANGED <<booking, remote, payments>>,
         orders' \in [Orders -> OrderRow \cup {NoRow}], Grows,
         Moves(c), Fits(c, procs[c])',
         attempts' \in [Payments -> AttemptRow \cup {NoRow}],
         \A p \in Payments : attempts'[p] # NoRow =>
           payments[p] # NoRow /\ payments[p].order = attempts'[p].order
  PROVE  RowsInv'
<1>1. ProcessesFit'
  BY OthersStillFit, ProcessOf DEF RowsInv
<1>2. \A p \in Payments : payments[p] # NoRow => orders'[payments[p].order] # NoRow
  <2>1. ASSUME NEW p \in Payments, payments[p] # NoRow
        PROVE  payments[p].order \in Orders /\ orders[payments[p].order] # NoRow
    BY <2>1, RowsOfTables DEF RowsInv, PaymentsKnown, PaymentRow
  <2> QED
    BY <2>1 DEF Grows
<1>3. PaymentsKnown'
  BY <1>2 DEF PaymentsKnown
<1>4. TablesTyped'
  BY DEF RowsInv, TablesTyped, Moves
<1> QED
  BY <1>1, <1>3, <1>4 DEF RowsInv

\* The same, of a step that writes no attempt.
LEMMA RowsKeptByProcess ==
  ASSUME RowsInv, NEW c \in Procs, UNCHANGED <<vars, booking, attempts, remote, payments>>,
         orders' \in [Orders -> OrderRow \cup {NoRow}], Grows,
         Moves(c), Fits(c, procs[c])'
  PROVE  RowsInv'
<1>1. TypeOK'
  BY StepTyped DEF RowsInv
<1>2. /\ attempts' \in [Payments -> AttemptRow \cup {NoRow}]
      /\ \A p \in Payments : attempts'[p] # NoRow =>
           payments[p] # NoRow /\ payments[p].order = attempts'[p].order
  BY DEF RowsInv, TablesTyped, PaymentsKnown
<1> QED
  BY <1>1, <1>2, RowsKept

LEMMA RowsKeptByStepOf ==
  ASSUME RowsInv, NEW c \in Procs, UNCHANGED <<vars, booking, attempts, remote, payments>>,
         StepOf(c)
  PROVE  RowsInv'
<1>1. Grows
  BY KeptOrdersGrow DEF StepOf
<1> QED
  BY <1>1, RowsKeptByProcess DEF StepOf, KeepsOrders

LEMMA RowsKeptByRecording ==
  ASSUME RowsInv, NEW c \in Procs, TypeOK', NEW rows, NEW final, NEW row, NEW several,
         NEW applied, NEW r, Recording(c, rows, final, row, several, applied, r)
  PROVE  RowsInv'
<1> DEFINE o == procs[c].order
<1>1. /\ KeepsOrders /\ Moves(c) /\ Fits(c, procs[c])'
      /\ UNCHANGED <<booking, remote, payments>>
  BY RecordingKeeps DEF gateway
<1>2. /\ attempts' \in [Payments -> AttemptRow \cup {NoRow}]
      /\ \A p \in Payments : Follows(o, p)
  BY RecordingFollows
<1>3. ASSUME NEW p \in Payments, attempts'[p] # NoRow
      PROVE  payments[p] # NoRow /\ payments[p].order = attempts'[p].order
  <2>1. Follows(o, p)
    BY <1>2
  <2>2. attempts[p] # NoRow => payments[p] # NoRow /\ payments[p].order = attempts[p].order
    BY DEF RowsInv, PaymentsKnown
  <2> QED
    BY <1>3, <2>1, <2>2 DEF Follows
<1>4. Grows
  BY <1>1, KeptOrdersGrow
<1> QED
  BY <1>1, <1>2, <1>3, <1>4, RowsKept DEF KeepsOrders

LEMMA RowsKeptByReconcile ==
  ASSUME RowsInv, NEW c \in Procs, Reconcile(c)
  PROVE  RowsInv'
<1>1. CASE FetchOrder(c)
  BY <1>1, FetchOrderStep, RowsKeptByStepOf DEF FetchOrder, gateway
<1>2. CASE FetchPayments(c)
  BY <1>2, FetchPaymentsStep, RowsKeptByStepOf DEF FetchPayments, gateway
<1>3. CASE OrderNotFound(c)
  BY <1>3, OrderNotFoundStep, RowsKeptByStepOf DEF OrderNotFound, gateway
<1>4. CASE Recover(c)
  BY <1>4, RecoverStep, RowsKeptByStepOf DEF Recover, gateway
<1>5. CASE Recovered(c)
  BY <1>5, RecoveredStep, RowsKeptByStepOf DEF Recovered, gateway
<1>6. CASE DropStale(c)
  BY <1>6, DropStaleStep, RowsKeptByStepOf DEF DropStale, gateway
<1>7. CASE RecordNothingNew(c)
  <2>1. TypeOK'
    BY <1>7, StepTyped DEF RecordNothingNew, RowsInv
  <2>2. PICK rows : Recording(c, rows, rows, orders[procs[c].order], {}, {}, Null)
    BY <1>7, RecordNothingNewRecords
  <2> QED
    BY <2>1, <2>2, RowsKeptByRecording
<1>8. ASSUME NEW r \in Receipts, Apply(c, r) PROVE RowsInv'
  <2>1. TypeOK'
    BY <1>8, ApplyTyped
  <2>2. PICK rows, final, row, several, p : Recording(c, rows, final, row, several, {p}, r)
    BY <1>8, ApplyRecords
  <2> QED
    BY <2>1, <2>2, RowsKeptByRecording
<1>9. CASE SendToReview(c)
  <2>1. TypeOK'
    BY <1>9, StepTyped DEF SendToReview, RowsInv
  <2>2. PICK rows, final, row, several : Recording(c, rows, final, row, several, {}, Null)
    BY <1>9, SendToReviewRecords
  <2> QED
    BY <2>1, <2>2, RowsKeptByRecording
<1> QED
  BY <1>1, <1>2, <1>3, <1>4, <1>5, <1>6, <1>7, <1>8, <1>9 DEF Reconcile

LEMMA RowsKeptByCustomer ==
  ASSUME RowsInv, NEW c \in Customers, CustomerStep(c)
  PROVE  RowsInv'
<1>0. c \in Procs
  BY SMTT(30) DEF Procs
<1>1. ASSUME NEW m \in Milestones, Checkout(c, m) PROVE RowsInv'
  BY <1>0, <1>1, CheckoutStep, RowsKeptByStepOf DEF Checkout, gateway
<1>2. ASSUME NEW o \in Orders, CheckPrevious(c, o) PROVE RowsInv'
  BY <1>0, <1>2, CheckPreviousStep, RowsKeptByStepOf DEF CheckPrevious, gateway
<1>3. ASSUME NEW o \in Orders, NewOrder(c, o) PROVE RowsInv'
  BY <1>0, <1>3, NewOrderStep, RowsKeptByProcess DEF NewOrder
<1>4. CASE LockBooking(c)
  BY <1>0, <1>4, LockBookingStep, RowsKeptByStepOf DEF LockBooking, gateway
<1>5. CASE LockMilestone(c)
  BY <1>0, <1>5, LockMilestoneStep, RowsKeptByStepOf DEF LockMilestone, gateway
<1>6. CASE NoneOpen(c)
  BY <1>0, <1>6, NoneOpenStep, RowsKeptByStepOf DEF NoneOpen, gateway
<1>7. CASE ReuseOrder(c)
  BY <1>0, <1>7, ReuseOrderStep, RowsKeptByStepOf DEF ReuseOrder, gateway
<1>8. CASE RefuseOrder(c)
  BY <1>0, <1>8, RefuseOrderStep, RowsKeptByStepOf DEF RefuseOrder, gateway
<1>9. CASE Created(c)
  BY <1>0, <1>9, CreatedStep, RowsKeptByStepOf DEF Created, gateway
<1> QED
  BY <1>1, <1>2, <1>3, <1>4, <1>5, <1>6, <1>7, <1>8, <1>9 DEF CustomerStep

LEMMA AllStillFit ==
  ASSUME RowsInv, Grows, UNCHANGED procs
  PROVE  ProcessesFit'
<1>1. ASSUME NEW q \in Procs PROVE Fits(q, procs[q])'
  <2>1. procs[q] \in Process /\ Fits(q, procs[q])
    BY ProcessOf
  <2>2. procs[q].todo \in SUBSET Orders
    BY <2>1 DEF Process
  <2>3. \A p \in Payments : Saw(procs[q], p)' <=> Saw(procs[q], p)
    BY DEF Saw
  <2> QED
    BY <2>1, <2>2, <2>3 DEF Fits, Grows
<1> QED
  BY <1>1 DEF ProcessesFit

\* A step of the gateway: it changes its own rows only.
LEMMA RowsKeptByGateway ==
  ASSUME RowsInv, UNCHANGED <<vars, booking, orders, attempts, procs>>,
         remote' \in [Orders -> {"ABSENT", "ACTIVE", "EXPIRED", "PAID"}],
         payments' \in [Payments -> PaymentRow \cup {NoRow}],
         \A p \in Payments : payments[p] # NoRow =>
           payments'[p] # NoRow /\ payments'[p].order = payments[p].order,
         \A p \in Payments : payments'[p] # NoRow => orders[payments'[p].order] # NoRow
  PROVE  RowsInv'
<1>1. TypeOK'
  BY StepTyped DEF RowsInv
<1>2. TablesTyped'
  BY DEF RowsInv, TablesTyped
<1>3. PaymentsKnown'
  BY DEF RowsInv, PaymentsKnown
<1>4. Grows
  BY DEF Grows
<1>5. ProcessesFit'
  BY <1>4, AllStillFit
<1> QED
  BY <1>1, <1>2, <1>3, <1>5 DEF RowsInv

AsStatus(row, status) == [row EXCEPT !.status = status]

LEMMA PaymentMoves ==
  ASSUME RowsInv, NEW p \in Payments, payments[p].status \in PaymentStatus,
         NEW status \in PaymentStatus,
         payments' = [payments EXCEPT ![p] = AsStatus(payments[p], status)]
  PROVE  /\ payments' \in [Payments -> PaymentRow \cup {NoRow}]
         /\ \A q \in Payments : payments[q] # NoRow =>
              payments'[q] # NoRow /\ payments'[q].order = payments[q].order
         /\ \A q \in Payments : payments'[q] # NoRow => orders[payments'[q].order] # NoRow
<1> DEFINE n == AsStatus(payments[p], status)
<1>1. payments[p] \in PaymentRow
  BY RowsOfTables, RowsAreNotNoRow DEF RowsInv, PaymentStatus
<1>2. n \in PaymentRow /\ n.order = payments[p].order
  BY <1>1 DEF PaymentRow, AsStatus
<1> HIDE DEF n
<1>3. /\ payments' = [payments EXCEPT ![p] = n] /\ payments \in [Payments -> PaymentRow \cup {NoRow}]
      /\ n # NoRow
  BY <1>2, RowsAreNotNoRow DEF n, RowsInv, TablesTyped
<1>4. \A q \in Payments : payments'[q] = IF q = p THEN n ELSE payments[q]
  BY <1>3
<1>5. \A q \in Payments : payments[q] # NoRow => orders[payments[q].order] # NoRow
  BY DEF RowsInv, PaymentsKnown
<1>6. payments[p] # NoRow
  BY <1>1, RowsAreNotNoRow
<1> QED
  BY <1>2, <1>3, <1>4, <1>5, <1>6

LEMMA RowsKeptByProvider ==
  ASSUME RowsInv, Provider
  PROVE  RowsInv'
<1>0. /\ remote \in [Orders -> {"ABSENT", "ACTIVE", "EXPIRED", "PAID"}]
      /\ payments \in [Payments -> PaymentRow \cup {NoRow}]
      /\ \A p \in Payments : payments[p] # NoRow => orders[payments[p].order] # NoRow
  BY DEF RowsInv, TablesTyped, PaymentsKnown
<1>1. ASSUME NEW o \in Orders, CreateRemote(o) \/ Expire(o) PROVE RowsInv'
  BY <1>0, <1>1, RowsKeptByGateway DEF CreateRemote, Expire
<1>2. ASSUME NEW p \in Payments, NEW o \in Orders, orders[o] # NoRow,
             NEW paid \in OddPayments \cup {Asked(o)}, Pay(p, o, paid)
      PROVE  RowsInv'
  <2> DEFINE n == [status |-> "PENDING", order |-> o, amount |-> paid.amount,
                   currency |-> paid.currency]
  <2>1. paid.amount \in 0 .. MaxMinor /\ paid.currency \in {"INR", "FOREIGN"}
    <3>1. CASE paid \in OddPayments
      BY <3>1, GatewayAssumption
    <3>2. CASE paid = Asked(o)
      <4>1. orders[o].amount \in 1 .. MaxMinor
        BY <1>2, RowsOfTables DEF RowsInv, OrderRow
      <4> QED
        BY <3>2, <4>1, LedgerAssumption DEF Asked
    <3> QED
      BY <3>1, <3>2
  <2>2. n \in PaymentRow /\ n.order = o
    BY <2>1 DEF PaymentRow, PaymentStatus
  <2>3. payments' = [payments EXCEPT ![p] = n] /\ payments[p] = NoRow /\ UNCHANGED remote
    BY <1>2 DEF Pay
  <2> HIDE DEF n
  <2>4. \A q \in Payments : payments'[q] = IF q = p THEN n ELSE payments[q]
    BY <1>0, <2>3
  <2>5. payments' \in [Payments -> PaymentRow \cup {NoRow}]
    BY <1>0, <2>2, <2>3
  <2>6. /\ \A q \in Payments : payments[q] # NoRow =>
             payments'[q] # NoRow /\ payments'[q].order = payments[q].order
        /\ \A q \in Payments : payments'[q] # NoRow => orders[payments'[q].order] # NoRow
    BY <1>0, <1>2, <2>2, <2>3, <2>4
  <2> QED
    BY <1>0, <1>2, <2>3, <2>5, <2>6, RowsKeptByGateway DEF Pay
<1>3. ASSUME NEW p \in Payments, Succeed(p) PROVE RowsInv'
  <2>1. /\ payments[p].status \in PaymentStatus
        /\ payments' = [payments EXCEPT ![p] = AsStatus(payments[p], "SUCCESS")]
    BY <1>3 DEF Succeed, PaymentStatus, AsStatus
  <2>2. remote' \in [Orders -> {"ABSENT", "ACTIVE", "EXPIRED", "PAID"}]
    BY <1>0, <1>3 DEF Succeed
  <2>3. "SUCCESS" \in PaymentStatus
    BY DEF PaymentStatus
  <2> QED
    BY <1>3, <2>1, <2>2, <2>3, PaymentMoves, RowsKeptByGateway DEF Succeed
<1>4. ASSUME NEW p \in Payments, FailPayment(p) PROVE RowsInv'
  <2>1. /\ payments[p].status \in PaymentStatus
        /\ payments' = [payments EXCEPT ![p] = AsStatus(payments[p], "FAILED")]
    BY <1>4 DEF FailPayment, PaymentStatus, AsStatus
  <2>2. "FAILED" \in PaymentStatus
    BY DEF PaymentStatus
  <2> QED
    BY <1>0, <1>4, <2>1, <2>2, PaymentMoves, RowsKeptByGateway DEF FailPayment
<1> QED
  BY <1>1, <1>2, <1>3, <1>4 DEF Provider

LEMMA RowsKeptByStaff ==
  ASSUME RowsInv, Staff
  PROVE  RowsInv'
<1>1. /\ UNCHANGED <<orders, attempts, procs, remote, payments>>
      /\ TypeOK'
      /\ booking' \in {"INVOICED", "CONFIRMED", "COMPLETED", "CANCELLED"}
  <2>1. ASSUME NEW status \in StaffActs, ChangeStatus(status)
        PROVE  /\ UNCHANGED <<orders, attempts, procs, remote, payments>>
               /\ TypeOK'
               /\ booking' \in {"INVOICED", "CONFIRMED", "COMPLETED", "CANCELLED"}
    <3>1. UNCHANGED vars
      BY <2>1 DEF ChangeStatus
    <3>2. TypeOK'
      BY <3>1, StepTyped DEF RowsInv
    <3> QED
      BY <2>1, <3>2 DEF ChangeStatus, gateway
  <2>2. CASE Settle
    <3>1. TypeOK'
      BY <2>2, SettleTyped DEF RowsInv
    <3> QED
      BY <2>2, <3>1 DEF Settle, gateway, RowsInv, TablesTyped
  <2> QED
    BY <2>1, <2>2 DEF Staff
<1>2. TablesTyped' /\ PaymentsKnown'
  BY <1>1 DEF RowsInv, TablesTyped, PaymentsKnown
<1>3. Grows
  BY <1>1 DEF Grows
<1>4. ProcessesFit'
  BY <1>1, <1>3, AllStillFit
<1> QED
  BY <1>1, <1>2, <1>4 DEF RowsInv

LEMMA RowsStep ==
  ASSUME RowsInv, [GNext]_gVars
  PROVE  RowsInv'
<1>1. ASSUME NEW c \in Customers, CustomerStep(c) PROVE RowsInv'
  BY <1>1, RowsKeptByCustomer
<1>2. ASSUME NEW c \in Checkers, CheckerStep(c) PROVE RowsInv'
  <2>0. c \in Procs
    BY DEF Procs
  <2>1. ASSUME NEW o \in Orders, Check(c, o) PROVE RowsInv'
    BY <2>0, <2>1, CheckStep, RowsKeptByStepOf DEF Check, gateway
  <2>2. CASE GiveUp(c)
    BY <2>0, <2>2, GiveUpStep, RowsKeptByStepOf DEF GiveUp, gateway
  <2> QED
    BY <1>2, <2>1, <2>2 DEF CheckerStep
<1>3. ASSUME NEW c \in Procs, Reconcile(c) PROVE RowsInv'
  BY <1>3, RowsKeptByReconcile
<1>4. ASSUME NEW c \in Procs, Stop(c) PROVE RowsInv'
  BY <1>4, StopStep, RowsKeptByStepOf DEF Stop, gateway
<1>5. CASE Staff
  BY <1>5, RowsKeptByStaff
<1>6. CASE Provider
  BY <1>6, RowsKeptByProvider
<1>7. CASE UNCHANGED gVars
  <2>1. UNCHANGED <<vars, booking, orders, attempts, procs, remote, payments>>
    BY <1>7 DEF gVars, gateway
  <2> QED
    BY <2>1, RowsKeptByGateway DEF RowsInv, TablesTyped, PaymentsKnown
<1> QED
  BY <1>1, <1>2, <1>3, <1>4, <1>5, <1>6, <1>7 DEF GNext

LEMMA RowsInit ==
  ASSUME GInit
  PROVE  RowsInv
<1>1. PICK u \in Users, c \in Companies, d \in Dates :
        /\ invoices = [i \in Invoices |->
             IF i = Invoice
             THEN [status |-> "ISSUED", version |-> 2, company |-> c, date |-> d,
                   amount |-> Planned(Milestones), rate |-> 0, total |-> Planned(Milestones),
                   number |-> 1, source |-> Null, by |-> u]
             ELSE NoRow]
        /\ counters = [s \in Series |-> IF s = SeriesOf(c, d, "I") THEN 1 ELSE 0]
  BY DEF GInit
<1>2. [status |-> "ISSUED", version |-> 2, company |-> c, date |-> d,
       amount |-> Planned(Milestones), rate |-> 0, total |-> Planned(Milestones),
       number |-> 1, source |-> Null, by |-> u] \in InvoiceRow
  BY ClaimIsNatural DEF InvoiceRow
<1>3. invoices \in [Invoices -> InvoiceRow \cup {NoRow}]
  BY <1>1, <1>2
<1>4. counters \in [Series -> Nat]
  BY <1>1
<1>5. /\ receipts \in [Receipts -> ReceiptRow \cup {NoRow}]
      /\ adjustments \in [Adjustments -> AdjustmentRow \cup {NoRow}]
      /\ outbox \in [InvoiceEvents \cup ReceiptEvents -> Nat]
      /\ seen \in [Users -> [Invoices -> InvoiceRow \cup {NoRow}]]
  BY DEF GInit
<1>6. rate \in Rates
  BY DEF GInit
<1>7. TypeOK
  BY <1>3, <1>4, <1>5, <1>6 DEF TypeOK
<1>8. 1 \in Milestones
  <2>1. Len(Plan) \in Nat /\ Milestones = 1 .. Len(Plan)
    BY GatewayAssumption DEF Milestones
  <2>2. Len(Plan) # 0
    BY GatewayAssumption, EmptySeq
  <2> QED
    BY <2>1, <2>2
<1>9. [status |-> "READY", milestone |-> 1, amount |-> Plan[1], provider |-> "NONE",
       payment |-> Null, receipt |-> Null, review |-> FALSE] \in OrderRow
  BY <1>8, PlannedAmount DEF OrderRow
<1>10. orders \in [Orders -> OrderRow \cup {NoRow}]
  BY <1>9 DEF GInit
<1>11. /\ booking \in {"INVOICED", "CONFIRMED", "COMPLETED", "CANCELLED"}
       /\ attempts \in [Payments -> AttemptRow \cup {NoRow}]
       /\ procs \in [Procs -> Process]
       /\ remote \in [Orders -> {"ABSENT", "ACTIVE", "EXPIRED", "PAID"}]
       /\ payments \in [Payments -> PaymentRow \cup {NoRow}]
  BY IdleIsAProcess DEF GInit
<1>12. TablesTyped
  BY <1>10, <1>11 DEF TablesTyped
<1>13. PaymentsKnown
  BY DEF GInit, PaymentsKnown
<1>14. ProcessesFit
  <2>1. \A q \in Procs : procs[q] = Idle
    BY DEF GInit
  <2> QED
    BY <2>1, IdleFits DEF ProcessesFit
<1> QED
  BY <1>7, <1>12, <1>13, <1>14 DEF RowsInv

\* The rows of every table keep their columns, a payment and its attempt are of one order that
\* exists, and a process works on an order that exists (the foreign keys of commercial.schema.ts).
THEOREM GatewayRows == GSpec => []RowsInv
<1>1. GInit => RowsInv
  BY RowsInit
<1>2. RowsInv /\ [GNext]_gVars => RowsInv'
  BY RowsStep
<1> QED
  BY <1>1, <1>2, PTL DEF GSpec

-----------------------------------------------------------------------------
(* Checkouts.  A process is inside while the transaction of a checkout holds its locks. *)

Inside(t) == t.pc \in {"tx", "order", "insert"}

LEMMA ReturnedIsOutside ==
  ASSUME NEW t \in Process, NEW refused
  PROVE  ~ Inside(Returned(t, refused))
<1>1. Returned(t, refused).pc \in {"idle", "next"}
  BY ReturnedIsABeginner
<1> QED
  BY <1>1 DEF Inside

LEMMA BeginIsOutside ==
  ASSUME NEW c \in Procs, NEW running, NEW t \in Process, NEW o \in Orders
  PROVE  ~ Inside(Begin(running, c, t, o)[c])
<1> DEFINE served == [t EXCEPT !.order = o]
           going == [t EXCEPT !.order = o, !.pc = "fetch", !.creating = (orders[o].status = "CREATING"),
                              !.earlier = {q \in Procs \ {c} : Observes(q, o)}]
<1>1. ~ Inside(Returned(served, Refused(o)))
  <2>1. served \in Process
    BY SetOrder
  <2> QED
    BY <2>1, ReturnedIsOutside
<1>2. ~ Inside(going)
  BY DEF Inside, Process
<1>3. Begin(running, c, t, o)[c] = Returned(served, Refused(o)) \/ Begin(running, c, t, o)[c] = going
  BY DEF Begin, Put
<1> QED
  BY <1>1, <1>2, <1>3

LEMMA AgainIsOutside ==
  ASSUME RowsInv, NEW c \in Procs, NEW o, NEW row, Again(c, o, row)
  PROVE  ~ Inside(procs'[c])
<1>1. procs[c] \in Process /\ procs \in [Procs -> Process]
  BY ProcessOf
<1>2. CASE procs' = Put(procs, c, Returned(procs[c], Refuses(o, row, attempts)))
  <2>1. procs'[c] = Returned(procs[c], Refuses(o, row, attempts))
    BY <1>2 DEF Put
  <2> QED
    BY <1>1, <2>1, ReturnedIsOutside
<1>3. CASE procs' = [procs EXCEPT ![c] =
                       [@ EXCEPT !.pc = "fetch", !.snap = NoSnapshot, !.creating = FALSE]]
  <2>1. procs'[c] = [procs[c] EXCEPT !.pc = "fetch", !.snap = NoSnapshot, !.creating = FALSE]
    BY <1>1, <1>3
  <2>2. procs'[c].pc = "fetch"
    BY <1>1, <2>1 DEF Process
  <2> QED
    BY <2>2 DEF Inside
<1> QED
  BY <1>2, <1>3 DEF Again

\* A reconciliation is not a checkout.
LEMMA ReconcileIsOutside ==
  ASSUME RowsInv, NEW c \in Procs, Reconcile(c)
  PROVE  ~ Inside(procs'[c])
<1>1. procs[c] \in Process /\ procs \in [Procs -> Process]
  BY ProcessOf
<1>2. CASE FetchOrder(c)
  <2>1. procs'[c].pc = "fetch"
    BY <1>1, <1>2 DEF FetchOrder, At, Process
  <2> QED
    BY <2>1 DEF Inside
<1>3. CASE FetchPayments(c)
  <2>1. procs'[c].pc = "fetch"
    BY <1>1, <1>3 DEF FetchPayments, At, Process
  <2> QED
    BY <2>1 DEF Inside
<1>4. CASE OrderNotFound(c)
  <2>1. procs'[c].pc = "recover"
    BY <1>1, <1>4 DEF OrderNotFound, Goto, Process
  <2> QED
    BY <2>1 DEF Inside
<1>5. CASE Recover(c)
  <2>1. (\E o, row : Again(c, o, row)) \/ Goto(c, "resent")
    BY <1>5 DEF Recover
  <2>2. ASSUME Goto(c, "resent") PROVE ~ Inside(procs'[c])
    BY <1>1, <2>2 DEF Goto, Inside, Process
  <2> QED
    BY <2>1, <2>2, AgainIsOutside
<1>6. CASE Recovered(c)
  BY <1>6, AgainIsOutside DEF Recovered
<1>7. CASE DropStale(c)
  <2>1. procs'[c] = Returned(procs[c], Refused(procs[c].order))
    BY <1>7 DEF DropStale, Put
  <2> QED
    BY <1>1, <2>1, ReturnedIsOutside
<1>8. ASSUME NEW o, NEW rows, NEW row, Record(c, o, rows, row)
      PROVE  ~ Inside(procs'[c])
  <2>1. \E refused : procs'[c] = Returned(procs[c], refused)
    BY <1>8 DEF Record, Put
  <2> QED
    BY <1>1, <2>1, ReturnedIsOutside
<1>9. CASE RecordNothingNew(c)
  BY <1>8, <1>9 DEF RecordNothingNew
<1>10. ASSUME NEW r \in Receipts, Apply(c, r) PROVE ~ Inside(procs'[c])
  BY <1>8, <1>10 DEF Apply
<1>11. CASE SendToReview(c)
  BY <1>8, <1>11 DEF SendToReview
<1> QED
  BY <1>2, <1>3, <1>4, <1>5, <1>6, <1>7, <1>9, <1>10, <1>11 DEF Reconcile

\* A checkout is inside with what it read under its locks, which nobody can change meanwhile.
Asks(t) ==
  /\ Inside(t) => Payable
  /\ t.pc \in {"order", "insert"} => MilestonePayable(t.milestone) /\ t.amount = Remaining(t.milestone)

\* One checkout at a time looks for the orders of a milestone.
OneHolds ==
  \A c, d \in Procs :
    (/\ procs[c].pc \in {"order", "insert"} /\ procs[d].pc \in {"order", "insert"}
     /\ procs[c].milestone = procs[d].milestone) => c = d
NoneIsLive ==
  \A c \in Procs, o \in Orders :
    (procs[c].pc = "insert" /\ Live(o)) => orders[o].milestone # procs[c].milestone

CheckoutsInv == OneLiveOrder /\ OneHolds /\ NoneIsLive /\ \A c \in Procs : Asks(procs[c])

LEMMA AsksAlike ==
  ASSUME NEW s, NEW t, Alike(s, t), Asks(t)
  PROVE  Asks(s)
  BY DEF Alike, Asks, Inside

\* The locks: a step that changes the booking waits for all that are inside, one that changes
\* the balance of the invoice for those that have read it.
SameBalance == UNCHANGED <<invoices, receipts, adjustments>>

LEMMA BalanceIsSame ==
  ASSUME SameBalance, NEW m
  PROVE  Remaining(m)' = Remaining(m) /\ (MilestonePayable(m)' <=> MilestonePayable(m))
<1>1. Received(Invoice)' = Received(Invoice) /\ Adjusted(Invoice)' = Adjusted(Invoice)
  BY DEF SameBalance, Received, Adjusted, Paise, Confirmed, ActiveAdjustments
<1>2. Due(Invoice)' = Due(Invoice)
  BY <1>1 DEF Due, SameBalance
<1>3. Remaining(m)' = Remaining(m)
  BY <1>1 DEF Remaining, Before
<1> QED
  BY <1>2, <1>3 DEF MilestonePayable, RequireIssued, SameBalance

LEMMA AsksKept ==
  ASSUME NEW t, Asks(t),
         Inside(t) => UNCHANGED booking,
         t.pc \in {"order", "insert"} => SameBalance
  PROVE  /\ Inside(t) => Payable'
         /\ t.pc \in {"order", "insert"} =>
              MilestonePayable(t.milestone)' /\ t.amount = Remaining(t.milestone)'
<1>1. ASSUME t.pc \in {"order", "insert"}
      PROVE  MilestonePayable(t.milestone)' /\ t.amount = Remaining(t.milestone)'
  BY <1>1, BalanceIsSame DEF Asks
<1>2. Inside(t) => Payable'
  BY DEF Asks, Payable
<1> QED
  BY <1>1, <1>2

LEMMA LiveOrdersKept ==
  ASSUME TablesTyped, KeepsOrders, NEW o \in Orders, Live(o)'
  PROVE  Live(o) /\ orders'[o].milestone = orders[o].milestone
<1>1. orders'[o] # NoRow
  BY RowsAreNotNoRow DEF Live
<1> QED
  BY <1>1 DEF KeepsOrders, Live

LEMMA OneLiveKept ==
  ASSUME TablesTyped, KeepsOrders, OneLiveOrder
  PROVE  OneLiveOrder'
  BY LiveOrdersKept DEF OneLiveOrder

\* A step of c that opens no order and ends outside.
LEMMA CheckoutsKept ==
  ASSUME RowsInv, CheckoutsInv, NEW c \in Procs, KeepsOrders, Moves(c), ~ Inside(procs'[c]),
         \A q \in Procs : Inside(procs[q]) => UNCHANGED booking,
         \A q \in Procs : procs[q].pc \in {"order", "insert"} => SameBalance
  PROVE  CheckoutsInv'
<1>1. ASSUME NEW q \in Procs, procs'[q].pc \in {"tx", "order", "insert"}
      PROVE  /\ q # c /\ procs'[q].pc = procs[q].pc /\ procs'[q].milestone = procs[q].milestone
             /\ procs'[q].amount = procs[q].amount
  BY <1>1 DEF Moves, Alike, Inside
<1>2. OneHolds'
  BY <1>1 DEF OneHolds, CheckoutsInv
<1>3. NoneIsLive'
  BY <1>1, LiveOrdersKept DEF NoneIsLive, CheckoutsInv, RowsInv
<1>4. ASSUME NEW q \in Procs PROVE Asks(procs[q])'
  <2>1. PICK t : t = procs[q]
    OBVIOUS
  <2>2. /\ Inside(t) => Payable'
        /\ t.pc \in {"order", "insert"} =>
             MilestonePayable(t.milestone)' /\ t.amount = Remaining(t.milestone)'
    <3>1. Asks(t) /\ (Inside(t) => UNCHANGED booking) /\ (t.pc \in {"order", "insert"} => SameBalance)
      BY <2>1 DEF CheckoutsInv
    <3> QED
      BY <3>1, AsksKept
  <2>3. CASE procs'[q].pc \notin {"tx", "order", "insert"}
    BY <2>3 DEF Asks, Inside
  <2>4. CASE procs'[q].pc \in {"tx", "order", "insert"}
    <3>1. procs'[q].pc = t.pc /\ procs'[q].milestone = t.milestone /\ procs'[q].amount = t.amount
      BY <1>1, <2>1, <2>4
    <3> QED
      BY <2>2, <3>1 DEF Asks, Inside
  <2> QED
    BY <2>3, <2>4
<1>5. OneLiveOrder'
  BY OneLiveKept DEF CheckoutsInv, RowsInv
<1> QED
  BY <1>2, <1>3, <1>4, <1>5 DEF CheckoutsInv

\* A step of c within its transaction.
LEMMA CheckoutGoesOn ==
  ASSUME RowsInv, CheckoutsInv, NEW c \in Procs, Moves(c),
         UNCHANGED <<invoices, receipts, adjustments, booking, orders>>,
         Asks(procs[c])',
         procs'[c].pc \in {"order", "insert"} =>
           \A q \in Procs \ {c} : procs[q].pc \in {"order", "insert"} =>
             procs[q].milestone # procs'[c].milestone,
         procs'[c].pc = "insert" => \A o \in Orders : Live(o) => orders[o].milestone # procs'[c].milestone
  PROVE  CheckoutsInv'
<1>1. ASSUME NEW q \in Procs \ {c}
      PROVE  /\ procs'[q].pc = procs[q].pc /\ procs'[q].milestone = procs[q].milestone
             /\ procs'[q].amount = procs[q].amount
  BY DEF Moves, Alike
<1>2. OneHolds'
  BY <1>1 DEF OneHolds, CheckoutsInv
<1>3. NoneIsLive'
  BY <1>1 DEF NoneIsLive, CheckoutsInv, Live
<1>4. ASSUME NEW q \in Procs \ {c} PROVE Asks(procs[q])'
  <2>1. PICK t : t = procs[q]
    OBVIOUS
  <2>2. Asks(t)
    BY <2>1 DEF CheckoutsInv
  <2>3. /\ Inside(t) => Payable'
        /\ t.pc \in {"order", "insert"} =>
             MilestonePayable(t.milestone)' /\ t.amount = Remaining(t.milestone)'
    BY <2>2, AsksKept DEF SameBalance
  <2>4. procs'[q].pc = t.pc /\ procs'[q].milestone = t.milestone /\ procs'[q].amount = t.amount
    BY <1>1, <2>1
  <2> QED
    BY <2>3, <2>4 DEF Asks, Inside
<1>5. OneLiveOrder'
  BY DEF CheckoutsInv, OneLiveOrder, Live
<1> QED
  BY <1>2, <1>3, <1>4, <1>5 DEF CheckoutsInv

LEMMA CheckoutsLockMilestone ==
  ASSUME RowsInv, CheckoutsInv, NEW c \in Customers, LockMilestone(c)
  PROVE  CheckoutsInv'
<1> DEFINE m == procs[c].milestone
<1>1. /\ c \in Procs /\ procs[c].pc = "tx" /\ ~ MilestoneLocked(m)
      /\ UNCHANGED <<invoices, receipts, adjustments, booking, orders>>
  BY DEF LockMilestone, At, Procs, vars, billing
<1>2. StepOf(c)
  BY LockMilestoneStep
<1>3. CASE procs'[c].pc = "idle"
  <2>1. ~ Inside(procs'[c])
    BY <1>3 DEF Inside
  <2> QED
    BY <1>1, <1>2, <2>1, CheckoutsKept DEF StepOf, SameBalance
<1>4. CASE procs'[c].pc = "order"
  <2>1. procs'[c].milestone = m /\ MilestonePayable(m) /\ procs'[c].amount = Remaining(m)
    BY <1>4, LockMilestoneStep
  <2>2. ASSUME NEW q \in Procs \ {c}, procs[q].pc \in {"order", "insert"}
        PROVE  procs[q].milestone # m
    <3>1. q \in Customers
      BY <2>2, ProcessOf DEF Fits
    <3> QED
      BY <1>1, <2>2, <3>1 DEF MilestoneLocked
  <2>3. Asks(procs[c])'
    <3>1. PICK n : n = procs'[c]
      OBVIOUS
    <3>2. Payable'
      BY <1>1 DEF CheckoutsInv, Asks, Inside, Payable
    <3>3. MilestonePayable(n.milestone)' /\ n.amount = Remaining(n.milestone)'
      BY <1>1, <2>1, <3>1, BalanceIsSame DEF SameBalance
    <3> QED
      BY <3>1, <3>2, <3>3 DEF Asks
  <2> QED
    BY <1>1, <1>2, <1>4, <2>1, <2>2, <2>3, CheckoutGoesOn DEF StepOf
<1> QED
  BY <1>3, <1>4, LockMilestoneStep

LEMMA CheckoutsNoneOpen ==
  ASSUME RowsInv, CheckoutsInv, NEW c \in Customers, NoneOpen(c)
  PROVE  CheckoutsInv'
<1>1. /\ c \in Procs /\ procs[c].pc = "order"
      /\ UNCHANGED <<invoices, receipts, adjustments, booking, orders>>
  BY DEF NoneOpen, At, Procs, vars, billing
<1>2. /\ StepOf(c) /\ procs'[c].pc = "insert" /\ procs'[c].milestone = procs[c].milestone
      /\ procs'[c].amount = procs[c].amount
  BY NoneOpenStep
<1>3. ASSUME NEW q \in Procs \ {c}, procs[q].pc \in {"order", "insert"}
      PROVE  procs[q].milestone # procs[c].milestone
  BY <1>1, <1>3 DEF CheckoutsInv, OneHolds
<1>4. ASSUME NEW o \in Orders, Live(o) PROVE orders[o].milestone # procs[c].milestone
  <2>1. orders[o] # NoRow
    BY <1>4, RowsAreNotNoRow DEF Live
  <2> QED
    BY <1>4, <2>1 DEF NoneOpen, OrdersOf
<1>5. Asks(procs[c])'
  <2>1. PICK t : t = procs[c]
    OBVIOUS
  <2>2. Asks(t) /\ t.pc = "order"
    BY <1>1, <2>1 DEF CheckoutsInv
  <2>3. Payable' /\ MilestonePayable(t.milestone)' /\ t.amount = Remaining(t.milestone)'
    <3>1. Inside(t)
      BY <2>2 DEF Inside
    <3> QED
      BY <1>1, <2>2, <3>1, AsksKept DEF SameBalance
  <2> QED
    BY <1>2, <2>1, <2>3 DEF Asks
<1> QED
  BY <1>1, <1>2, <1>3, <1>4, <1>5, CheckoutGoesOn DEF StepOf

LEMMA CheckoutsLockBooking ==
  ASSUME RowsInv, CheckoutsInv, NEW c \in Customers, LockBooking(c)
  PROVE  CheckoutsInv'
<1>1. c \in Procs /\ UNCHANGED <<invoices, receipts, adjustments, booking, orders>>
  BY DEF LockBooking, Procs, vars, billing
<1>2. StepOf(c) /\ procs'[c].pc \in {"tx", "idle"} /\ (procs'[c].pc = "tx" => Payable')
  BY <1>1, LockBookingStep DEF Payable
<1>3. Asks(procs[c])'
  BY <1>2 DEF Asks, Inside
<1> QED
  BY <1>1, <1>2, <1>3, CheckoutGoesOn DEF StepOf

\* The order that is inserted is the only live one of its milestone.
LEMMA CheckoutsNewOrder ==
  ASSUME RowsInv, CheckoutsInv, NEW c \in Customers, NEW o \in Orders, NewOrder(c, o)
  PROVE  CheckoutsInv'
<1> DEFINE m == procs[c].milestone
<1>1. /\ c \in Procs /\ procs[c].pc = "insert" /\ UNCHANGED <<invoices, receipts, adjustments, booking>>
  BY DEF NewOrder, At, Procs, vars, billing
<1>2. /\ orders'[o].milestone = m /\ \A q \in Orders \ {o} : orders'[q] = orders[q]
      /\ Moves(c) /\ procs'[c].pc = "sent"
  BY NewOrderStep
<1>3. \A q \in Orders \ {o} : Live(q)' => Live(q) /\ orders[q].milestone # m
  BY <1>1, <1>2 DEF CheckoutsInv, NoneIsLive, Live
<1>4. OneLiveOrder'
  <2>1. ASSUME NEW p \in Orders, NEW q \in Orders, Live(p)', Live(q)',
               orders'[p].milestone = orders'[q].milestone
        PROVE  p = q
    <3>1. CASE p = o \/ q = o
      BY <1>2, <1>3, <2>1, <3>1
    <3>2. CASE p # o /\ q # o
      <4>1. Live(p) /\ Live(q) /\ orders[p].milestone = orders[q].milestone
        BY <1>2, <1>3, <2>1, <3>2
      <4> QED
        BY <4>1 DEF CheckoutsInv, OneLiveOrder
    <3> QED
      BY <3>1, <3>2
  <2> QED
    BY <2>1 DEF OneLiveOrder
<1>5. ASSUME NEW q \in Procs, procs'[q].pc \in {"tx", "order", "insert"}
      PROVE  /\ q # c /\ procs'[q].pc = procs[q].pc /\ procs'[q].milestone = procs[q].milestone
             /\ procs'[q].amount = procs[q].amount
  BY <1>2, <1>5 DEF Moves, Alike
<1>6. OneHolds'
  BY <1>5 DEF OneHolds, CheckoutsInv
<1>7. NoneIsLive'
  <2>1. ASSUME NEW q \in Procs, NEW p \in Orders, procs'[q].pc = "insert", Live(p)'
        PROVE  orders'[p].milestone # procs'[q].milestone
    <3>1. q # c /\ procs[q].pc = "insert" /\ procs'[q].milestone = procs[q].milestone
      BY <1>5, <2>1
    <3>2. procs[q].milestone # m
      BY <1>1, <3>1 DEF CheckoutsInv, OneHolds
    <3>3. CASE p = o
      BY <1>2, <3>1, <3>2, <3>3
    <3>4. CASE p # o
      BY <1>2, <1>3, <2>1, <3>1, <3>4 DEF CheckoutsInv, NoneIsLive
    <3> QED
      BY <3>3, <3>4
  <2> QED
    BY <2>1 DEF NoneIsLive
<1>8. ASSUME NEW q \in Procs PROVE Asks(procs[q])'
  <2>1. PICK t : t = procs[q]
    OBVIOUS
  <2>2. Asks(t)
    BY <2>1 DEF CheckoutsInv
  <2>3. /\ Inside(t) => Payable'
        /\ t.pc \in {"order", "insert"} =>
             MilestonePayable(t.milestone)' /\ t.amount = Remaining(t.milestone)'
    BY <1>1, <2>2, AsksKept DEF SameBalance
  <2>4. CASE procs'[q].pc \notin {"tx", "order", "insert"}
    BY <2>4 DEF Asks, Inside
  <2>5. CASE procs'[q].pc \in {"tx", "order", "insert"}
    <3>1. procs'[q].pc = t.pc /\ procs'[q].milestone = t.milestone /\ procs'[q].amount = t.amount
      BY <1>5, <2>1, <2>5
    <3> QED
      BY <2>3, <3>1 DEF Asks, Inside
  <2> QED
    BY <2>4, <2>5
<1> QED
  BY <1>4, <1>6, <1>7, <1>8 DEF CheckoutsInv

LEMMA NobodyInside ==
  ASSUME RowsInv, ~ BookingShared, NEW q \in Procs
  PROVE  ~ Inside(procs[q])
  BY ProcessOf DEF BookingShared, Inside, Fits

LEMMA NobodyReads ==
  ASSUME RowsInv, ~ InvoiceShared, NEW q \in Procs
  PROVE  procs[q].pc \notin {"order", "insert"}
  BY ProcessOf DEF InvoiceShared, Fits

LEMMA ReconcileKeeps ==
  ASSUME RowsInv, NEW c \in Procs, Reconcile(c)
  PROVE  KeepsOrders /\ Moves(c) /\ UNCHANGED booking /\ (SameBalance \/ ~ BookingShared)
<1>1. CASE FetchOrder(c)
  BY <1>1, FetchOrderStep DEF FetchOrder, StepOf, SameBalance, vars, billing
<1>2. CASE FetchPayments(c)
  BY <1>2, FetchPaymentsStep DEF FetchPayments, StepOf, SameBalance, vars, billing
<1>3. CASE OrderNotFound(c)
  BY <1>3, OrderNotFoundStep DEF OrderNotFound, StepOf, SameBalance, vars, billing
<1>4. CASE Recover(c)
  BY <1>4, RecoverStep DEF Recover, StepOf, SameBalance, vars, billing
<1>5. CASE Recovered(c)
  BY <1>5, RecoveredStep DEF Recovered, StepOf, SameBalance, vars, billing
<1>6. CASE DropStale(c)
  BY <1>6, DropStaleStep DEF DropStale, StepOf, SameBalance, vars, billing
<1>7. CASE RecordNothingNew(c)
  <2>1. PICK rows : Recording(c, rows, rows, orders[procs[c].order], {}, {}, Null)
    BY <1>7, RecordNothingNewRecords
  <2>2. SameBalance
    BY <1>7 DEF RecordNothingNew, SameBalance, vars, billing
  <2> QED
    BY <2>1, <2>2, RecordingKeeps
<1>8. ASSUME NEW r \in Receipts, Apply(c, r)
      PROVE  KeepsOrders /\ Moves(c) /\ UNCHANGED booking /\ ~ BookingShared
  <2>1. PICK rows, final, row, several, p : Recording(c, rows, final, row, several, {p}, r)
    BY <1>8, ApplyRecords
  <2>2. ~ BookingShared
    BY <1>8 DEF Apply
  <2> QED
    BY <2>1, <2>2, RecordingKeeps
<1>9. CASE SendToReview(c)
  <2>1. PICK rows, final, row, several : Recording(c, rows, final, row, several, {}, Null)
    BY <1>9, SendToReviewRecords
  <2>2. SameBalance
    BY <1>9 DEF SendToReview, SameBalance, vars, billing
  <2> QED
    BY <2>1, <2>2, RecordingKeeps
<1> QED
  BY <1>1, <1>2, <1>3, <1>4, <1>5, <1>6, <1>7, <1>8, <1>9 DEF Reconcile

LEMMA CheckoutsReconcile ==
  ASSUME RowsInv, CheckoutsInv, NEW c \in Procs, Reconcile(c)
  PROVE  CheckoutsInv'
<1>1. KeepsOrders /\ Moves(c) /\ UNCHANGED booking /\ (SameBalance \/ ~ BookingShared)
  BY ReconcileKeeps
<1>2. \A q \in Procs : procs[q].pc \in {"order", "insert"} => SameBalance
  BY <1>1, NobodyInside DEF Inside
<1> QED
  BY <1>1, <1>2, ReconcileIsOutside, CheckoutsKept

\* The steps of a process that are neither a reconciliation nor within a transaction.
LEMMA CheckoutsOutside ==
  ASSUME RowsInv, CheckoutsInv, NEW c \in Procs, UNCHANGED <<vars, booking>>,
         StepOf(c), ~ Inside(procs'[c])
  PROVE  CheckoutsInv'
  BY CheckoutsKept DEF StepOf, SameBalance, vars, billing

LEMMA CheckoutsCustomer ==
  ASSUME RowsInv, CheckoutsInv, NEW c \in Customers, CustomerStep(c)
  PROVE  CheckoutsInv'
<1>0. c \in Procs /\ procs[c] \in Process /\ procs \in [Procs -> Process]
  BY ProcessOf DEF Procs
<1>1. ASSUME NEW m \in Milestones, Checkout(c, m) PROVE CheckoutsInv'
  <2>1. procs'[c].pc = "next"
    BY <1>0, <1>1 DEF Checkout, Idle
  <2> QED
    BY <1>0, <1>1, <2>1, CheckoutStep, CheckoutsOutside DEF Checkout, Inside
<1>2. ASSUME NEW o \in Orders, CheckPrevious(c, o) PROVE CheckoutsInv'
  <2>1. procs' = Begin(procs, c, procs[c], o)
    BY <1>2 DEF CheckPrevious
  <2>2. ~ Inside(procs'[c])
    BY <1>0, <2>1, BeginIsOutside
  <2> QED
    BY <1>0, <1>2, <2>2, CheckPreviousStep, CheckoutsOutside DEF CheckPrevious
<1>3. ASSUME NEW o \in Orders, NewOrder(c, o) PROVE CheckoutsInv'
  BY <1>3, CheckoutsNewOrder
<1>4. CASE LockBooking(c)
  BY <1>4, CheckoutsLockBooking
<1>5. CASE LockMilestone(c)
  BY <1>5, CheckoutsLockMilestone
<1>6. CASE NoneOpen(c)
  BY <1>6, CheckoutsNoneOpen
<1>7. CASE ReuseOrder(c)
  BY <1>0, <1>7, ReuseOrderStep, CheckoutsOutside DEF ReuseOrder, Inside
<1>8. CASE RefuseOrder(c)
  BY <1>0, <1>8, RefuseOrderStep, CheckoutsOutside DEF RefuseOrder, Inside
<1>9. CASE Created(c)
  BY <1>0, <1>9, CreatedStep, CheckoutsOutside DEF Created, Inside
<1> QED
  BY <1>1, <1>2, <1>3, <1>4, <1>5, <1>6, <1>7, <1>8, <1>9 DEF CustomerStep

\* The steps that run no process.
LEMMA CheckoutsElsewhere ==
  ASSUME RowsInv, CheckoutsInv, UNCHANGED <<orders, procs>>,
         \A q \in Procs : Inside(procs[q]) => UNCHANGED booking,
         \A q \in Procs : procs[q].pc \in {"order", "insert"} => SameBalance
  PROVE  CheckoutsInv'
<1>1. ASSUME NEW q \in Procs PROVE Asks(procs[q])'
  <2>1. PICK t : t = procs[q]
    OBVIOUS
  <2>2. Asks(t) /\ (Inside(t) => UNCHANGED booking) /\ (t.pc \in {"order", "insert"} => SameBalance)
    BY <2>1 DEF CheckoutsInv
  <2>3. /\ Inside(t) => Payable'
        /\ t.pc \in {"order", "insert"} =>
             MilestonePayable(t.milestone)' /\ t.amount = Remaining(t.milestone)'
    BY <2>2, AsksKept
  <2> QED
    BY <2>1, <2>3 DEF Asks, Inside
<1>2. OneLiveOrder' /\ OneHolds' /\ NoneIsLive'
  BY DEF CheckoutsInv, OneLiveOrder, OneHolds, NoneIsLive, Live
<1> QED
  BY <1>1, <1>2 DEF CheckoutsInv

LEMMA CheckoutsStep ==
  ASSUME RowsInv, CheckoutsInv, [GNext]_gVars
  PROVE  CheckoutsInv'
<1>1. ASSUME NEW c \in Customers, CustomerStep(c) PROVE CheckoutsInv'
  BY <1>1, CheckoutsCustomer
<1>2. ASSUME NEW c \in Checkers, CheckerStep(c) PROVE CheckoutsInv'
  <2>0. c \in Procs /\ procs[c] \in Process
    BY ProcessOf DEF Procs
  <2>1. ASSUME NEW o \in Orders, Check(c, o) PROVE CheckoutsInv'
    <3>1. procs' = Begin(procs, c, Idle, o)
      BY <2>1 DEF Check
    <3>2. ~ Inside(procs'[c])
      BY <2>0, <3>1, BeginIsOutside, IdleIsAProcess
    <3> QED
      BY <2>0, <2>1, <3>2, CheckStep, CheckoutsOutside DEF Check
  <2>2. CASE GiveUp(c)
    <3>1. procs'[c].pc = "idle"
      BY <2>0, <2>2, IdleIsAProcess DEF GiveUp, Stopped, Put
    <3> QED
      BY <2>0, <2>2, <3>1, GiveUpStep, CheckoutsOutside DEF GiveUp, Inside
  <2> QED
    BY <1>2, <2>1, <2>2 DEF CheckerStep
<1>3. ASSUME NEW c \in Procs, Reconcile(c) PROVE CheckoutsInv'
  BY <1>3, CheckoutsReconcile
<1>4. ASSUME NEW c \in Procs, Stop(c) PROVE CheckoutsInv'
  <2>1. procs'[c].pc = "idle"
    BY <1>4, IdleIsAProcess DEF Stop, Stopped, Put
  <2> QED
    BY <1>4, <2>1, StopStep, CheckoutsOutside DEF Stop, Inside
<1>5. ASSUME NEW status \in StaffActs, ChangeStatus(status) PROVE CheckoutsInv'
  <2>1. \A q \in Procs : ~ Inside(procs[q])
    BY <1>5, NobodyInside DEF ChangeStatus
  <2>2. UNCHANGED <<orders, procs>> /\ SameBalance
    BY <1>5 DEF ChangeStatus, SameBalance, vars, billing
  <2> QED
    BY <2>1, <2>2, CheckoutsElsewhere
<1>6. CASE Settle
  <2>1. \A q \in Procs : procs[q].pc \notin {"order", "insert"}
    BY <1>6, NobodyReads DEF Settle
  <2>2. UNCHANGED <<orders, procs, booking>>
    BY <1>6 DEF Settle
  <2> QED
    BY <2>1, <2>2, CheckoutsElsewhere
<1>7. CASE Provider
  <2>1. UNCHANGED <<vars, booking, orders, procs>>
    BY <1>7 DEF Provider, CreateRemote, Expire, Pay, Succeed, FailPayment
  <2> QED
    BY <2>1, CheckoutsElsewhere DEF SameBalance, vars, billing
<1>8. CASE UNCHANGED gVars
  BY <1>8, CheckoutsElsewhere DEF gVars, SameBalance, vars, billing
<1> QED
  BY <1>1, <1>2, <1>3, <1>4, <1>5, <1>6, <1>7, <1>8 DEF GNext, Staff

LEMMA CheckoutsInit ==
  ASSUME GInit
  PROVE  CheckoutsInv
<1>1. \A c \in Procs : procs[c].pc = "idle"
  BY IdleIsAProcess DEF GInit
<1>2. \A o \in Orders \ Offered : ~ Live(o)
  BY RowsAreNotNoRow DEF GInit, Live
<1>3. OneLiveOrder
  BY <1>2, GatewayAssumption DEF OneLiveOrder
<1>4. OneHolds /\ NoneIsLive /\ \A c \in Procs : Asks(procs[c])
  BY <1>1 DEF OneHolds, NoneIsLive, Asks, Inside
<1> QED
  BY <1>3, <1>4 DEF CheckoutsInv

\* What the locks of checkoutForBooking() are for: what a checkout has read stays true, and no
\* other looks for the orders of its milestone.
THEOREM GatewayCheckouts == GSpec => [](RowsInv /\ CheckoutsInv)
<1>1. GInit => RowsInv /\ CheckoutsInv
  BY RowsInit, CheckoutsInit
<1>2. RowsInv /\ CheckoutsInv /\ [GNext]_gVars => (RowsInv /\ CheckoutsInv)'
  BY RowsStep, CheckoutsStep
<1> QED
  BY <1>1, <1>2, PTL DEF GSpec

\* No interleaving of checkouts, of the checks of orders and of what staff do leaves a milestone
\* with two orders a customer could pay (checkoutForBooking(): the milestone FOR UPDATE, and
\* the open orders that are read after it).
THEOREM GatewayOneLiveOrder == GSpec => []OneLiveOrder
<1>1. RowsInv /\ CheckoutsInv => OneLiveOrder
  BY DEF CheckoutsInv
<1> QED
  BY <1>1, GatewayCheckouts, PTL

\* Only the insert of a checkout adds an order.
LEMMA OrdersAdded ==
  ASSUME RowsInv, [GNext]_gVars, NEW o \in Orders, orders[o] = NoRow, orders'[o] # NoRow
  PROVE  \E c \in Customers : NewOrder(c, o)
<1>1. ~ UNCHANGED orders
  OBVIOUS
<1>2. ~ KeepsOrders
  BY DEF KeepsOrders
<1>3. ASSUME NEW c \in Customers, CustomerStep(c)
      PROVE  \E x \in Orders : NewOrder(c, x)
  <2>1. c \in Procs
    BY DEF Procs
  <2>2. ~ LockBooking(c) /\ ~ LockMilestone(c) /\ ~ NoneOpen(c) /\ ~ ReuseOrder(c) /\ ~ RefuseOrder(c)
    BY <1>1 DEF LockBooking, LockMilestone, NoneOpen, ReuseOrder, RefuseOrder
  <2>3. ~ Created(c)
    BY <1>2, CreatedStep DEF StepOf
  <2>4. \A m \in Milestones : ~ Checkout(c, m)
    BY <1>1 DEF Checkout
  <2>5. \A x \in Orders : ~ CheckPrevious(c, x)
    BY <1>1 DEF CheckPrevious
  <2> QED
    BY <1>3, <2>2, <2>3, <2>4, <2>5 DEF CustomerStep
<1>4. ASSUME NEW c \in Checkers PROVE ~ CheckerStep(c)
  <2>1. c \in Procs
    BY DEF Procs
  <2>2. ~ GiveUp(c)
    BY <1>2, <2>1, GiveUpStep DEF StepOf
  <2> QED
    BY <1>1, <2>2 DEF CheckerStep, Check
<1>5. ASSUME NEW c \in Procs PROVE ~ Reconcile(c) /\ ~ Stop(c)
  BY <1>1, <1>2, ReconcileKeeps DEF Stop
<1>6. ~ Staff
  BY <1>1 DEF Staff, ChangeStatus, Settle
<1>7. ~ Provider
  BY <1>1 DEF Provider, CreateRemote, Expire, Pay, Succeed, FailPayment
<1>8. PICK c \in Customers, x \in Orders : NewOrder(c, x)
  BY <1>1, <1>3, <1>4, <1>5, <1>6, <1>7 DEF GNext, gVars
<1>9. x = o
  BY <1>8, NewOrderStep
<1> QED
  BY <1>8, <1>9

\* The order a checkout commits asks for exactly what is open of its milestone at that moment,
\* not only when it was read: the locks on the booking, the milestone and the invoice keep it
\* (checkoutForBooking()).
THEOREM GatewayAskedIsOwed == GSpec => AskedIsOwed
<1> DEFINE Owed == \A o \in Orders : (orders[o] = NoRow /\ orders'[o] # NoRow) =>
             /\ Payable /\ invoices[Invoice].status = "ISSUED"
             /\ orders'[o].amount = Remaining(orders'[o].milestone)
             /\ orders'[o].amount <= Due(Invoice)
<1>1. ASSUME RowsInv, CheckoutsInv, [GNext]_gVars PROVE Owed
  <2>1. SUFFICES ASSUME NEW o \in Orders, orders[o] = NoRow, orders'[o] # NoRow
                 PROVE  /\ Payable /\ invoices[Invoice].status = "ISSUED"
                        /\ orders'[o].amount = Remaining(orders'[o].milestone)
                        /\ orders'[o].amount <= Due(Invoice)
    OBVIOUS
  <2>2. PICK c \in Customers : NewOrder(c, o)
    BY <1>1, <2>1, OrdersAdded
  <2>3. c \in Procs /\ procs[c].pc = "insert"
    BY <2>2 DEF NewOrder, At, Procs
  <2>4. Asks(procs[c])
    BY <1>1, <2>3 DEF CheckoutsInv
  <2>5. /\ Payable /\ MilestonePayable(procs[c].milestone)
        /\ procs[c].amount = Remaining(procs[c].milestone)
    BY <2>3, <2>4 DEF Asks, Inside
  <2>6. orders'[o].milestone = procs[c].milestone /\ orders'[o].amount = procs[c].amount
    BY <1>1, <2>2, NewOrderStep
  <2> QED
    BY <2>5, <2>6 DEF MilestonePayable, RequireIssued
<1>2. RowsInv /\ CheckoutsInv /\ [GNext]_gVars => [Owed]_gVars
  BY <1>1
<1> QED
  BY <1>2, GatewayCheckouts, PTL DEF GSpec, AskedIsOwed

-----------------------------------------------------------------------------
(* Money: what the rows of attempts, receipts and orders say of each other.               *)

AppliedTo(o) == {p \in AttemptsOf(o) : attempts[p].accounting = "APPLIED"}
ReviewedOf(o) == {p \in AttemptsOf(o) : attempts[p].accounting = "REVIEW_REQUIRED"}

\* The receipt of a payment that was applied, and the payment of a receipt of the gateway.
Backed(p) ==
  (attempts[p] # NoRow /\ attempts[p].accounting = "APPLIED") =>
    LET r == attempts[p].receipt IN
    /\ attempts[p].status = "SUCCESS"
    /\ attempts[p].currency = "INR" /\ attempts[p].amount = orders[attempts[p].order].amount
    /\ r \in Receipts /\ receipts[r] # NoRow
    /\ receipts[r].status = "CONFIRMED" /\ receipts[r].method = "GATEWAY" /\ receipts[r].key = p
    /\ receipts[r].invoice = Invoice /\ receipts[r].amount = attempts[p].amount
Considered(p) ==
  (attempts[p] # NoRow /\ attempts[p].status = "SUCCESS") => attempts[p].accounting # "UNAPPLIED"
OfPayment(r) ==
  (receipts[r] # NoRow /\ receipts[r].method = "GATEWAY") =>
    LET p == receipts[r].key IN
    /\ p \in Payments /\ attempts[p] # NoRow
    /\ attempts[p].accounting = "APPLIED" /\ attempts[p].receipt = r

\* The order tells what became of its payments.
Told(o) ==
  orders[o] # NoRow =>
    /\ orders[o].status # "REFUNDED"
    /\ orders[o].status = "PAID" <=> orders[o].receipt # Null
    /\ orders[o].status = "PAID" <=> AppliedTo(o) # {}
    /\ AppliedTo(o) # {} => /\ AppliedTo(o) = {orders[o].payment}
                            /\ attempts[orders[o].payment].receipt = orders[o].receipt
    /\ orders[o].status = "REVIEW_REQUIRED" <=> (AppliedTo(o) = {} /\ ReviewedOf(o) # {})
    /\ ReviewedOf(o) # {} => orders[o].review

AttemptsTell == \A p \in Payments : Backed(p) /\ Considered(p)
ReceiptsTell == \A r \in Receipts : OfPayment(r)
OrdersTell == \A o \in Orders : Told(o)
MoneyInv == AttemptsTell /\ ReceiptsTell /\ OrdersTell

\* A step that changes no order in a way that is about money; one that is added has none.
KeepsMoney ==
  \A o \in Orders :
    IF orders[o] = NoRow
    THEN orders'[o] # NoRow =>
           /\ orders'[o].status \notin {"PAID", "REVIEW_REQUIRED", "REFUNDED"}
           /\ orders'[o].receipt = Null
    ELSE /\ orders'[o] # NoRow
         /\ orders'[o].amount = orders[o].amount
         /\ orders'[o].receipt = orders[o].receipt /\ orders'[o].payment = orders[o].payment
         /\ orders[o].review => orders'[o].review
         /\ \A status \in {"PAID", "REVIEW_REQUIRED", "REFUNDED"} :
              orders'[o].status = status <=> orders[o].status = status

MovesNoMoney == KeepsMoney /\ UNCHANGED <<receipts, attempts>>

LEMMA SameOrdersKeepMoney ==
  ASSUME UNCHANGED orders
  PROVE  KeepsMoney
  BY DEF KeepsMoney

LEMMA OneOrderKeepsMoney ==
  ASSUME RowsInv, NEW o \in Orders, orders[o] # NoRow, NEW n \in OrderRow,
         n.amount = orders[o].amount,
         n.receipt = orders[o].receipt, n.payment = orders[o].payment,
         orders[o].review => n.review,
         \A status \in {"PAID", "REVIEW_REQUIRED", "REFUNDED"} :
           n.status = status <=> orders[o].status = status,
         orders' = [orders EXCEPT ![o] = n]
  PROVE  KeepsMoney
<1>1. \A q \in Orders : orders'[q] = IF q = o THEN n ELSE orders[q]
  BY DEF RowsInv, TablesTyped
<1>2. n # NoRow
  BY RowsAreNotNoRow
<1> QED
  BY <1>1, <1>2 DEF KeepsMoney

LEMMA SameAttempts ==
  ASSUME UNCHANGED attempts, NEW o
  PROVE  AppliedTo(o)' = AppliedTo(o) /\ ReviewedOf(o)' = ReviewedOf(o)
  BY DEF AppliedTo, ReviewedOf, AttemptsOf, Of

LEMMA OrdersStillTell ==
  ASSUME RowsInv, OrdersTell, KeepsMoney, UNCHANGED attempts
  PROVE  OrdersTell'
<1> SUFFICES ASSUME NEW o \in Orders PROVE Told(o)'
  BY DEF OrdersTell
<1>1. AppliedTo(o)' = AppliedTo(o) /\ ReviewedOf(o)' = ReviewedOf(o)
  BY SameAttempts
<1>2. CASE orders[o] # NoRow
  <2>1. /\ orders'[o].receipt = orders[o].receipt /\ orders'[o].payment = orders[o].payment
        /\ orders[o].review => orders'[o].review
        /\ orders'[o].status = "PAID" <=> orders[o].status = "PAID"
        /\ orders'[o].status = "REVIEW_REQUIRED" <=> orders[o].status = "REVIEW_REQUIRED"
        /\ orders'[o].status = "REFUNDED" <=> orders[o].status = "REFUNDED"
    BY <1>2 DEF KeepsMoney
  <2>2. Told(o)
    BY DEF OrdersTell
  <2> QED
    BY <1>1, <1>2, <2>1, <2>2 DEF Told
<1>3. CASE orders[o] = NoRow /\ orders'[o] # NoRow
  <2>1. /\ orders'[o].status \notin {"PAID", "REVIEW_REQUIRED", "REFUNDED"}
        /\ orders'[o].receipt = Null
    BY <1>3 DEF KeepsMoney
  <2>2. AttemptsOf(o) = {}
    <3>1. \A p \in Payments : attempts[p] # NoRow => orders[attempts[p].order] # NoRow
      BY DEF RowsInv, PaymentsKnown
    <3> QED
      BY <1>3, <3>1 DEF AttemptsOf, Of
  <2>3. AppliedTo(o) = {} /\ ReviewedOf(o) = {}
    BY <2>2 DEF AppliedTo, ReviewedOf
  <2> QED
    BY <1>1, <2>1, <2>3 DEF Told
<1>4. CASE orders'[o] = NoRow
  BY <1>4 DEF Told
<1> QED
  BY <1>2, <1>3, <1>4

LEMMA AttemptsStillTell ==
  ASSUME RowsInv, AttemptsTell, KeepsMoney, UNCHANGED attempts,
         \A r \in Receipts : (receipts[r] # NoRow /\ receipts[r].status = "CONFIRMED"
                                /\ receipts[r].method = "GATEWAY") => receipts'[r] = receipts[r]
  PROVE  AttemptsTell'
<1> SUFFICES ASSUME NEW p \in Payments PROVE Backed(p)' /\ Considered(p)'
  BY DEF AttemptsTell
<1>1. Backed(p) /\ Considered(p)
  BY DEF AttemptsTell
<1>2. ASSUME attempts[p] # NoRow
      PROVE  orders'[attempts[p].order].amount = orders[attempts[p].order].amount
  <2>1. attempts[p] \in AttemptRow
    BY <1>2, RowsOfTables DEF RowsInv
  <2>2. attempts[p].order \in Orders /\ orders[attempts[p].order] # NoRow
    BY <1>2, <2>1 DEF RowsInv, PaymentsKnown, AttemptRow
  <2> QED
    BY <2>2 DEF KeepsMoney
<1>3. Backed(p)'
  BY <1>1, <1>2 DEF Backed
<1> QED
  BY <1>1, <1>3 DEF Considered

\* A step of a process, staff or the gateway that accounts for no payment.
LEMMA MoneyKept ==
  ASSUME RowsInv, MoneyInv, MovesNoMoney
  PROVE  MoneyInv'
<1>1. OrdersTell'
  BY OrdersStillTell DEF MoneyInv, MovesNoMoney
<1>2. AttemptsTell'
  BY AttemptsStillTell DEF MoneyInv, MovesNoMoney
<1>3. ReceiptsTell'
  BY DEF MoneyInv, ReceiptsTell, OfPayment, MovesNoMoney
<1> QED
  BY <1>1, <1>2, <1>3 DEF MoneyInv

\* What a recording makes of the attempt of q: it is applied, sent to review, or keeps what
\* was decided about it; a success is never left undecided.
ReceiptBefore(q) == IF attempts[q] = NoRow THEN Null ELSE attempts[q].receipt
Outcome(o, q, several, applied, r) ==
  /\ attempts[q] # NoRow => attempts'[q] # NoRow /\ attempts'[q].order = attempts[q].order
  /\ (attempts[q] # NoRow /\ attempts[q].order # o) => attempts'[q] = attempts[q]
  /\ (attempts[q] = NoRow /\ attempts'[q] # NoRow) => attempts'[q].order = o
  /\ IF q \in several \cup applied
     THEN /\ attempts'[q] # NoRow /\ attempts'[q].order = o /\ attempts'[q].status = "SUCCESS"
          /\ attempts'[q].accounting = IF q \in applied THEN "APPLIED" ELSE "REVIEW_REQUIRED"
          /\ attempts'[q].receipt = IF q \in applied THEN r ELSE ReceiptBefore(q)
          /\ attempts[q] # NoRow => attempts[q].accounting = "UNAPPLIED"
     ELSE attempts'[q] # NoRow =>
            /\ attempts'[q].receipt = ReceiptBefore(q)
            /\ (attempts'[q].status = "SUCCESS" /\ attempts'[q].order = o)
                 => attempts'[q].accounting # "UNAPPLIED"
            /\ attempts'[q].accounting =
                 IF attempts[q] = NoRow THEN "UNAPPLIED" ELSE attempts[q].accounting
            /\ (attempts[q] # NoRow /\ attempts[q].status = "SUCCESS") => attempts'[q] = attempts[q]

LEMMA RecordingOutcome ==
  ASSUME RowsInv, NEW c \in Procs, NEW rows, NEW final, NEW row, NEW several, NEW applied, NEW r,
         Recording(c, rows, final, row, several, applied, r), NEW q \in Payments
  PROVE  Outcome(procs[c].order, q, several, applied, r)
<1> DEFINE o == procs[c].order
<1>1. /\ attempts' = final /\ Accounted(o, rows, final, several, applied, r)
      /\ ToRecord(c) /\ rows = Recorded(o, procs[c].snap.pays)
      /\ several \cup applied = Collected(rows, o)
  BY RecordingKeeps DEF Recording
<1>2. Reports(o, q, rows[q])
  BY <1>1, RecordedReports
<1>3. Follows(o, q) /\ attempts'[q] \in AttemptRow \cup {NoRow}
  BY RecordingFollows
<1>4. /\ attempts[q] # NoRow => attempts'[q] # NoRow /\ attempts'[q].order = attempts[q].order
      /\ (attempts[q] # NoRow /\ attempts[q].order # o) => attempts'[q] = attempts[q]
      /\ (attempts[q] = NoRow /\ attempts'[q] # NoRow) => attempts'[q].order = o
  BY <1>3, RowsAreNotNoRow DEF Follows
<1>5. CASE q \in several \cup applied
  <2>1. /\ rows[q] \in AttemptRow /\ rows[q].accounting = "UNAPPLIED"
        /\ attempts'[q] \in AttemptRow /\ attempts'[q].status = "SUCCESS"
        /\ attempts'[q].order = o
        /\ attempts'[q].accounting = IF q \in applied THEN "APPLIED" ELSE "REVIEW_REQUIRED"
        /\ attempts'[q].receipt = IF q \in applied THEN r ELSE rows[q].receipt
    BY <1>1, <1>5 DEF Accounted
  <2>2. attempts[q] # NoRow => attempts[q].accounting = "UNAPPLIED"
    BY <1>2, <2>1 DEF Reports
  <2>3. attempts'[q] # NoRow /\ rows[q] # NoRow
    BY <2>1, RowsAreNotNoRow
  <2>4. rows[q].receipt = ReceiptBefore(q)
    BY <1>2, <2>3 DEF Reports, ReceiptBefore
  <2> QED
    BY <1>4, <1>5, <2>1, <2>2, <2>3, <2>4 DEF Outcome
<1>6. CASE q \notin several \cup applied
  <2>1. attempts'[q] = rows[q] /\ q \notin Collected(rows, o)
    BY <1>1, <1>6 DEF Accounted
  <2>2. ASSUME attempts'[q] # NoRow
        PROVE  /\ (attempts'[q].status = "SUCCESS" /\ attempts'[q].order = o)
                    => attempts'[q].accounting # "UNAPPLIED"
               /\ attempts'[q].accounting =
                    IF attempts[q] = NoRow THEN "UNAPPLIED" ELSE attempts[q].accounting
               /\ (attempts[q] # NoRow /\ attempts[q].status = "SUCCESS") => attempts'[q] = attempts[q]
               /\ attempts'[q].receipt = ReceiptBefore(q)
    <3>1. (attempts'[q].status = "SUCCESS" /\ attempts'[q].order = o)
             => attempts'[q].accounting # "UNAPPLIED"
      BY <2>1, <2>2 DEF Collected, Of
    <3>2. /\ attempts'[q].accounting =
               IF attempts[q] = NoRow THEN "UNAPPLIED" ELSE attempts[q].accounting
          /\ (attempts[q] # NoRow /\ attempts[q].status = "SUCCESS") => attempts'[q] = attempts[q]
          /\ attempts'[q].receipt = ReceiptBefore(q)
      BY <1>2, <2>1, <2>2 DEF Reports, ReceiptBefore
    <3> QED
      BY <3>1, <3>2
  <2> QED
    BY <1>4, <1>6, <2>2 DEF Outcome
<1> QED
  BY <1>5, <1>6

\* The payments of the orders after a recording.
LEMMA RecordedSets ==
  ASSUME RowsInv, NEW o \in Orders, NEW several, NEW applied, NEW r,
         several \cup applied \subseteq Payments, several \cap applied = {},
         \A q \in Payments : Outcome(o, q, several, applied, r)
  PROVE  /\ \A x \in Orders \ {o} : AppliedTo(x)' = AppliedTo(x) /\ ReviewedOf(x)' = ReviewedOf(x)
         /\ AppliedTo(o)' = AppliedTo(o) \cup applied
         /\ ReviewedOf(o)' = ReviewedOf(o) \cup several
<1>1. ASSUME NEW q \in Payments, NEW x \in Orders \ {o}
      PROVE  /\ q \in AppliedTo(x)' <=> q \in AppliedTo(x)
             /\ q \in ReviewedOf(x)' <=> q \in ReviewedOf(x)
  <2>1. Outcome(o, q, several, applied, r)
    OBVIOUS
  <2>2. CASE attempts[q] = NoRow
    BY <2>1, <2>2 DEF Outcome, AppliedTo, ReviewedOf, AttemptsOf, Of
  <2>3. CASE attempts[q] # NoRow
    BY <2>1, <2>3 DEF Outcome, AppliedTo, ReviewedOf, AttemptsOf, Of
  <2> QED
    BY <2>2, <2>3
<1>2. ASSUME NEW q \in Payments
      PROVE  /\ q \in AppliedTo(o)' <=> q \in AppliedTo(o) \cup applied
             /\ q \in ReviewedOf(o)' <=> q \in ReviewedOf(o) \cup several
  <2>1. Outcome(o, q, several, applied, r)
    OBVIOUS
  <2>2. CASE q \in several \cup applied
    <3>1. /\ attempts'[q] # NoRow /\ attempts'[q].order = o
          /\ attempts'[q].accounting = IF q \in applied THEN "APPLIED" ELSE "REVIEW_REQUIRED"
          /\ attempts[q] # NoRow => attempts[q].accounting = "UNAPPLIED"
      BY <2>1, <2>2 DEF Outcome
    <3> QED
      BY <2>2, <3>1 DEF AppliedTo, ReviewedOf, AttemptsOf, Of
  <2>3. CASE q \notin several \cup applied
    <3>1. CASE attempts[q] = NoRow
      BY <2>1, <2>3, <3>1 DEF Outcome, AppliedTo, ReviewedOf, AttemptsOf, Of
    <3>2. CASE attempts[q] # NoRow
      BY <2>1, <2>3, <3>2 DEF Outcome, AppliedTo, ReviewedOf, AttemptsOf, Of
    <3> QED
      BY <3>1, <3>2
  <2> QED
    BY <2>2, <2>3
<1>3. \A x \in Orders : /\ AppliedTo(x) \subseteq Payments /\ AppliedTo(x)' \subseteq Payments
                        /\ ReviewedOf(x) \subseteq Payments /\ ReviewedOf(x)' \subseteq Payments
  BY DEF AppliedTo, ReviewedOf, AttemptsOf, Of
<1> QED
  BY <1>1, <1>2, <1>3

\* The receipt that is written with a payment that is applied.
Written(o, applied, r) ==
  IF applied = {} THEN UNCHANGED receipts
  ELSE /\ r \in Receipts /\ receipts[r] = NoRow /\ ReceiptKeyFree(receipts'[r].key)
       /\ \A x \in Receipts \ {r} : receipts'[x] = receipts[x]
       /\ receipts'[r] # NoRow
       /\ receipts'[r].status = "CONFIRMED" /\ receipts'[r].method = "GATEWAY"
       /\ applied = {receipts'[r].key} /\ receipts'[r].key \in Payments
       /\ receipts'[r].invoice = Invoice /\ receipts'[r].amount = orders[o].amount
       /\ attempts'[receipts'[r].key].currency = "INR"
       /\ attempts'[receipts'[r].key].amount = orders[o].amount

LEMMA AttemptsTellAgain ==
  ASSUME RowsInv, AttemptsTell, NEW o \in Orders, NEW several, NEW applied, NEW r,
         KeepsOrders, orders[o] # NoRow,
         \A q \in Payments : Outcome(o, q, several, applied, r),
         Written(o, applied, r)
  PROVE  AttemptsTell'
<1> SUFFICES ASSUME NEW q \in Payments, attempts'[q] # NoRow
             PROVE  Backed(q)' /\ Considered(q)'
  BY DEF AttemptsTell, Backed, Considered
<1>1. Outcome(o, q, several, applied, r)
  OBVIOUS
<1>2. CASE q \in several \cup applied
  <2>1. /\ attempts'[q].order = o /\ attempts'[q].status = "SUCCESS"
        /\ attempts'[q].accounting = IF q \in applied THEN "APPLIED" ELSE "REVIEW_REQUIRED"
        /\ q \in applied => attempts'[q].receipt = r
    BY <1>1, <1>2 DEF Outcome
  <2>2. Considered(q)'
    BY <2>1 DEF Considered
  <2>3. CASE q \notin applied
    BY <2>1, <2>2, <2>3 DEF Backed
  <2>4. CASE q \in applied
    <3>1. /\ r \in Receipts /\ receipts'[r] # NoRow
          /\ receipts'[r].status = "CONFIRMED" /\ receipts'[r].method = "GATEWAY"
          /\ receipts'[r].key = q /\ receipts'[r].invoice = Invoice
          /\ receipts'[r].amount = orders[o].amount
          /\ attempts'[q].currency = "INR" /\ attempts'[q].amount = orders[o].amount
      BY <2>4 DEF Written
    <3>2. orders'[o].amount = orders[o].amount
      BY DEF KeepsOrders
    <3>3. Backed(q)'
      BY <2>1, <2>4, <3>1, <3>2 DEF Backed
    <3> QED
      BY <2>2, <3>3
  <2> QED
    BY <2>3, <2>4
<1>3. CASE q \notin several \cup applied
  <2>1. /\ (attempts'[q].status = "SUCCESS" /\ attempts'[q].order = o)
             => attempts'[q].accounting # "UNAPPLIED"
        /\ attempts'[q].accounting =
             IF attempts[q] = NoRow THEN "UNAPPLIED" ELSE attempts[q].accounting
        /\ (attempts[q] # NoRow /\ attempts[q].status = "SUCCESS") => attempts'[q] = attempts[q]
    BY <1>1, <1>3 DEF Outcome
  <2>2. /\ (attempts[q] # NoRow /\ attempts[q].order # o) => attempts'[q] = attempts[q]
        /\ (attempts[q] = NoRow /\ attempts'[q] # NoRow) => attempts'[q].order = o
        /\ attempts[q] # NoRow => attempts'[q].order = attempts[q].order
    BY <1>1 DEF Outcome
  <2>3. Backed(q) /\ Considered(q)
    BY DEF AttemptsTell
  <2>4. Considered(q)'
    BY <2>1, <2>2, <2>3 DEF Considered
  <2>5. ASSUME attempts'[q].accounting = "APPLIED" PROVE Backed(q)'
    <3>1. attempts[q] # NoRow /\ attempts[q].accounting = "APPLIED"
      BY <2>1, <2>5
    <3>2. attempts'[q] = attempts[q]
      BY <2>1, <2>3, <3>1 DEF Backed
    <3>3. attempts[q].receipt \in Receipts /\ receipts'[attempts[q].receipt] = receipts[attempts[q].receipt]
      BY <2>3, <3>1 DEF Backed, Written
    <3>4. attempts[q].order \in Orders /\ orders[attempts[q].order] # NoRow
      <4>1. attempts[q] \in AttemptRow
        BY <3>1, RowsOfTables DEF RowsInv
      <4> QED
        BY <3>1, <4>1 DEF RowsInv, PaymentsKnown, AttemptRow
    <3>5. orders'[attempts[q].order].amount = orders[attempts[q].order].amount
      BY <3>4 DEF KeepsOrders
    <3> QED
      BY <2>3, <3>1, <3>2, <3>3, <3>5 DEF Backed
  <2> QED
    BY <2>4, <2>5 DEF Backed
<1> QED
  BY <1>2, <1>3

LEMMA ReceiptsTellAgain ==
  ASSUME RowsInv, AttemptsTell, ReceiptsTell, NEW o \in Orders, NEW several, NEW applied, NEW r,
         \A q \in Payments : Outcome(o, q, several, applied, r),
         Written(o, applied, r)
  PROVE  ReceiptsTell'
<1> SUFFICES ASSUME NEW x \in Receipts PROVE OfPayment(x)'
  BY DEF ReceiptsTell
<1>1. CASE applied # {} /\ x = r
  <2>1. /\ applied = {receipts'[r].key} /\ receipts'[r].key \in Payments
    BY <1>1 DEF Written
  <2>2. PICK p \in Payments : p = receipts'[r].key /\ p \in applied
    BY <2>1
  <2>3. attempts'[p] # NoRow /\ attempts'[p].accounting = "APPLIED" /\ attempts'[p].receipt = r
    BY <2>2 DEF Outcome
  <2> QED
    BY <1>1, <2>2, <2>3 DEF OfPayment
<1>2. CASE applied = {} \/ x # r
  <2>1. receipts'[x] = receipts[x]
    BY <1>2 DEF Written
  <2>2. SUFFICES ASSUME receipts[x] # NoRow, receipts[x].method = "GATEWAY"
                 PROVE  OfPayment(x)'
    BY <2>1 DEF OfPayment
  <2>3. PICK p \in Payments : p = receipts[x].key /\ attempts[p] # NoRow
                                /\ attempts[p].accounting = "APPLIED" /\ attempts[p].receipt = x
    BY <2>2 DEF ReceiptsTell, OfPayment
  <2>4. attempts[p].status = "SUCCESS"
    BY <2>3 DEF AttemptsTell, Backed
  <2>5. attempts'[p] = attempts[p]
    <3>1. Outcome(o, p, several, applied, r)
      OBVIOUS
    <3>2. p \notin several \cup applied
      BY <2>3, <3>1 DEF Outcome
    <3>3. attempts'[p] # NoRow
      BY <2>3, <3>1 DEF Outcome
    <3> QED
      BY <2>3, <2>4, <3>1, <3>2, <3>3 DEF Outcome
  <2> QED
    BY <2>1, <2>3, <2>5 DEF OfPayment
<1> QED
  BY <1>1, <1>2

LEMMA OtherOrdersTellAgain ==
  ASSUME RowsInv, OrdersTell, NEW o \in Orders, NEW several, NEW applied, NEW r, NEW new,
         several \cup applied \subseteq Payments, several \cap applied = {},
         \A q \in Payments : Outcome(o, q, several, applied, r),
         orders' = [orders EXCEPT ![o] = new], NEW x \in Orders \ {o}
  PROVE  Told(x)'
<1>1. orders'[x] = orders[x] /\ Told(x)
  BY DEF RowsInv, TablesTyped, OrdersTell
<1>2. AppliedTo(x)' = AppliedTo(x) /\ ReviewedOf(x)' = ReviewedOf(x)
  BY RecordedSets
<1>3. ASSUME AppliedTo(x) = {orders[x].payment}
      PROVE  attempts'[orders[x].payment] = attempts[orders[x].payment]
  <2>1. PICK p \in AppliedTo(x) : p = orders[x].payment
    BY <1>3
  <2>2. p \in Payments /\ attempts[p] # NoRow /\ attempts[p].order # o
    BY <2>1 DEF AppliedTo, AttemptsOf, Of
  <2> QED
    BY <2>1, <2>2 DEF Outcome
<1> QED
  BY <1>1, <1>2, <1>3 DEF Told

LEMMA OrderTellsAgain ==
  ASSUME RowsInv, AttemptsTell, OrdersTell, NEW o \in Orders, orders[o] # NoRow,
         NEW c \in Procs, NEW row, NEW several, NEW applied, NEW r, NEW new,
         several \cup applied \subseteq Payments, several \cap applied = {},
         \A q \in Payments : Outcome(o, q, several, applied, r),
         Written(o, applied, r), Decided(o, row, several, applied, r),
         Ends(c, o, attempts', row, new)
  PROVE  Told(o)'
<1>1. /\ orders'[o] = new /\ new.receipt = row.receipt /\ new.payment = row.payment
      /\ new.status = Closed(row.status, procs[c].snap.status)
  BY DEF RowsInv, TablesTyped, Ends
<1>2. /\ new.status = "PAID" <=> row.status = "PAID"
      /\ new.status = "REVIEW_REQUIRED" <=> row.status = "REVIEW_REQUIRED"
      /\ new.status = "REFUNDED" => row.status = "REFUNDED"
  BY <1>1, ClosedStatus
<1>3. AppliedTo(o)' = AppliedTo(o) \cup applied /\ ReviewedOf(o)' = ReviewedOf(o) \cup several
  BY RecordedSets
<1>4. Told(o)
  BY DEF OrdersTell
<1>5. (row.review /\ ReviewedOf(o)' # {}) => new.review
  BY DEF Ends, ReviewedOf, AttemptsOf, Of
<1>6. CASE applied # {}
  <2>1. /\ row.status = "PAID" /\ row.receipt = r /\ applied = {row.payment}
        /\ orders[o].status \notin {"PAID", "REVIEW_REQUIRED", "REFUNDED"}
        /\ several # {} => row.review
    BY <1>6 DEF Decided
  <2>2. AppliedTo(o) = {} /\ ReviewedOf(o) = {}
    BY <1>4, <2>1 DEF Told
  <2>3. AppliedTo(o)' = {row.payment} /\ ReviewedOf(o)' = several
    BY <1>3, <2>1, <2>2
  <2>4. attempts'[row.payment].receipt = r
    <3>1. row.payment \in Payments /\ row.payment \in applied
      BY <2>1
    <3> QED
      BY <3>1 DEF Outcome
  <2>5. r # Null
    BY <1>6, GatewayAssumption DEF Written
  <2>6. ReviewedOf(o)' # {} => new.review
    BY <1>5, <2>1, <2>3
  <2> HIDE DEF AppliedTo, ReviewedOf
  <2> QED
    BY <1>1, <1>2, <2>1, <2>3, <2>4, <2>5, <2>6 DEF Told
<1>7. CASE applied = {} /\ several # {}
  <2>1. /\ row.status = IF orders[o].status = "PAID" THEN "PAID" ELSE "REVIEW_REQUIRED"
        /\ row.receipt = orders[o].receipt
        /\ orders[o].payment # Null => row.payment = orders[o].payment
        /\ row.review
    BY <1>7 DEF Decided
  <2>2. AppliedTo(o)' = AppliedTo(o) /\ ReviewedOf(o)' # {}
    BY <1>3, <1>7
  <2>3. new.review
    BY <1>5, <2>1, <2>2
  <2>4. ASSUME AppliedTo(o) # {}
        PROVE  /\ AppliedTo(o) = {row.payment}
               /\ attempts'[row.payment].receipt = orders[o].receipt
    <3>1. AppliedTo(o) = {orders[o].payment} /\ attempts[orders[o].payment].receipt = orders[o].receipt
      BY <1>4, <2>4 DEF Told
    <3>2. PICK p \in AppliedTo(o) : p = orders[o].payment
      BY <3>1
    <3>3. p \in Payments /\ attempts[p] # NoRow /\ attempts[p].accounting = "APPLIED"
      BY <3>2 DEF AppliedTo, AttemptsOf, Of
    <3>4. attempts[p].status = "SUCCESS"
      BY <3>3 DEF AttemptsTell, Backed
    <3>5. attempts'[p] = attempts[p]
      <4>1. Outcome(o, p, several, applied, r)
        BY <3>3
      <4>2. p \notin several \cup applied /\ attempts'[p] # NoRow
        BY <3>3, <4>1 DEF Outcome
      <4> QED
        BY <3>3, <3>4, <4>1, <4>2 DEF Outcome
    <3>6. row.payment = orders[o].payment
      BY <2>1, <3>2, <3>3, GatewayAssumption
    <3> QED
      BY <3>1, <3>2, <3>5, <3>6
  <2> HIDE DEF AppliedTo, ReviewedOf
  <2> QED
    BY <1>1, <1>2, <1>4, <2>1, <2>2, <2>3, <2>4 DEF Told
<1>8. CASE applied = {} /\ several = {}
  <2>1. row = orders[o]
    BY <1>8 DEF Decided
  <2>2. AppliedTo(o)' = AppliedTo(o) /\ ReviewedOf(o)' = ReviewedOf(o)
    BY <1>3, <1>8
  <2>3. ASSUME AppliedTo(o) # {}
        PROVE  attempts'[row.payment].receipt = attempts[row.payment].receipt
    <3>1. AppliedTo(o) = {orders[o].payment}
      BY <1>4, <2>3 DEF Told
    <3>2. PICK p \in AppliedTo(o) : p = row.payment
      BY <2>1, <3>1
    <3>3. p \in Payments /\ attempts[p] # NoRow /\ attempts[p].accounting = "APPLIED"
      BY <3>2 DEF AppliedTo, AttemptsOf, Of
    <3>4. attempts[p].status = "SUCCESS"
      BY <3>3 DEF AttemptsTell, Backed
    <3>5. attempts'[p] = attempts[p]
      BY <1>8, <3>3, <3>4 DEF Outcome
    <3> QED
      BY <3>2, <3>5
  <2>4. ReviewedOf(o)' # {} => new.review
    BY <1>4, <1>5, <2>1, <2>2 DEF Told
  <2> HIDE DEF AppliedTo, ReviewedOf
  <2> QED
    BY <1>1, <1>2, <1>4, <2>1, <2>2, <2>3, <2>4 DEF Told
<1> QED
  BY <1>6, <1>7, <1>8

LEMMA MoneyRecorded ==
  ASSUME RowsInv, MoneyInv, NEW c \in Procs, NEW rows, NEW final, NEW row, NEW several,
         NEW applied, NEW r, Recording(c, rows, final, row, several, applied, r),
         Written(procs[c].order, applied, r)
  PROVE  MoneyInv'
<1>0. PICK o : o = procs[c].order
  OBVIOUS
<1>1. o \in Orders /\ orders[o] # NoRow
  BY <1>0, ServedOrder, RowsAreNotNoRow DEF Recording, ToRecord
<1>2. KeepsOrders /\ attempts' = final
  BY RecordingKeeps
<1>3. PICK new : Ends(c, o, final, row, new)
  BY <1>0, RecordingEnds
<1>4. \A q \in Payments : Outcome(o, q, several, applied, r)
  BY <1>0, RecordingOutcome
<1>5. /\ several \cap applied = {} /\ Decided(o, row, several, applied, r)
      /\ several \cup applied \subseteq Payments
  BY <1>0 DEF Recording, Collected, Of
<1>6. orders' = [orders EXCEPT ![o] = new] /\ Ends(c, o, attempts', row, new)
  BY <1>2, <1>3 DEF Ends
<1>7. Written(o, applied, r)
  BY <1>0
<1>8. AttemptsTell'
  BY <1>1, <1>2, <1>4, <1>7, AttemptsTellAgain DEF MoneyInv
<1>9. ReceiptsTell'
  BY <1>1, <1>4, <1>7, ReceiptsTellAgain DEF MoneyInv
<1>10. Told(o)'
  BY <1>1, <1>4, <1>5, <1>6, <1>7, OrderTellsAgain DEF MoneyInv
<1>11. \A x \in Orders \ {o} : Told(x)'
  BY <1>1, <1>4, <1>5, <1>6, OtherOrdersTellAgain DEF MoneyInv
<1> QED
  BY <1>8, <1>9, <1>10, <1>11 DEF MoneyInv, OrdersTell

\* The payment that is applied has the receipt of exactly what its order asks.
LEMMA ApplyWrites ==
  ASSUME RowsInv, NEW c \in Procs, NEW r \in Receipts, Apply(c, r)
  PROVE  \E rows, final, row, several, p :
           /\ Recording(c, rows, final, row, several, {p}, r)
           /\ Written(procs[c].order, {p}, r)
<1> DEFINE o == procs[c].order
<1>1. PICK rows, final, row, several, p :
        /\ p \in Payments
        /\ Recording(c, rows, final, row, several, {p}, r)
        /\ GatewayReceipt(r, p, rows[p].amount)
        /\ rows[p].currency = "INR" /\ rows[p].amount = orders[procs[c].order].amount
        /\ InvoiceAccepts(rows[p].amount)
        /\ ~ BookingShared
  BY ApplyRecords
<1>2. PICK d \in Dates :
        CreateReceipt(r, Invoice, d, rows[p].amount, "GATEWAY", "CONFIRMED", p)
  BY <1>1 DEF GatewayReceipt
<1> DEFINE s == SeriesOf(invoices[Invoice].company, d, "R")
           n == [status |-> "CONFIRMED", invoice |-> Invoice, company |-> invoices[Invoice].company,
                 date |-> d, amount |-> rows[p].amount, method |-> "GATEWAY", key |-> p,
                 number |-> NextNumber(s)]
<1>3. receipts[r] = NoRow /\ receipts' = [receipts EXCEPT ![r] = n] /\ ReceiptKeyFree(p)
  BY <1>2 DEF CreateReceipt
<1>4. /\ n.status = "CONFIRMED" /\ n.method = "GATEWAY" /\ n.key = p
      /\ n.invoice = Invoice /\ n.amount = orders[o].amount
  BY <1>1
<1>5. n # NoRow
  <2>1. n.status # NoRow.status
    BY RowsAreNotNoRow
  <2> QED
    BY <2>1
<1> HIDE DEF n
<1>6. receipts'[r] = n /\ \A x \in Receipts \ {r} : receipts'[x] = receipts[x]
  BY <1>3 DEF RowsInv, TypeOK
<1>7. attempts'[p].currency = "INR" /\ attempts'[p].amount = orders[o].amount
  <2>1. Accounted(o, rows, final, several, {p}, r) /\ attempts' = final
    BY <1>1, RecordingKeeps DEF Recording
  <2> QED
    BY <1>1, <2>1 DEF Accounted
<1>8. Written(o, {p}, r)
  <2>1. receipts'[r].key = p
    BY <1>4, <1>6
  <2> QED
    BY <1>1, <1>3, <1>4, <1>5, <1>6, <1>7, <2>1 DEF Written
<1> QED
  BY <1>1, <1>8

\* A step that is about money records an observation, in which the receipt is written with the
\* payment that is applied.
RecordsMoney(c) ==
  \E rows, final, row, several, applied, r :
    /\ Recording(c, rows, final, row, several, applied, r)
    /\ Written(procs[c].order, applied, r)

LEMMA ReconcileMoney ==
  ASSUME RowsInv, NEW c \in Procs, Reconcile(c)
  PROVE  \/ MovesNoMoney
         \/ RecordsMoney(c)
<1> DEFINE o == procs[c].order
<1>1. CASE FetchOrder(c) \/ FetchPayments(c) \/ OrderNotFound(c) \/ DropStale(c)
  <2>1. UNCHANGED <<receipts, orders, attempts>>
    BY <1>1 DEF FetchOrder, FetchPayments, OrderNotFound, DropStale, vars, billing
  <2> QED
    BY <2>1, SameOrdersKeepMoney DEF MovesNoMoney
<1>2. CASE Recover(c)
  <2>1. UNCHANGED <<receipts, attempts>>
    BY <1>2 DEF Recover, vars, billing
  <2>2. CASE UNCHANGED orders
    BY <2>1, <2>2, SameOrdersKeepMoney DEF MovesNoMoney
  <2>3. CASE /\ orders[o].status = "CREATING"
             /\ orders' = [orders EXCEPT ![o] = AsAbandoned(orders[o])]
    <3> DEFINE n == AsAbandoned(orders[o])
    <3>1. o \in Orders /\ orders[o] \in OrderRow /\ orders[o] # NoRow
      BY <1>2, ServedOrder, RowsAreNotNoRow DEF Recover
    <3>2. /\ n \in OrderRow /\ n.amount = orders[o].amount /\ n.receipt = orders[o].receipt
          /\ n.payment = orders[o].payment /\ (n.review <=> orders[o].review)
          /\ n.status = "TERMINATED"
      BY <3>1, AbandonedRow
    <3> HIDE DEF n
    <3>3. \A status \in {"PAID", "REVIEW_REQUIRED", "REFUNDED"} :
            n.status = status <=> orders[o].status = status
      BY <2>3, <3>2
    <3>4. orders' = [orders EXCEPT ![o] = n]
      BY <2>3 DEF n
    <3>5. KeepsMoney
      BY <3>1, <3>2, <3>3, <3>4, OneOrderKeepsMoney
    <3> QED
      BY <2>1, <3>5 DEF MovesNoMoney
  <2> QED
    BY <1>2, <2>2, <2>3 DEF Recover, AsAbandoned
<1>3. CASE Recovered(c)
  <2> DEFINE n == Ready(orders[o])
  <2>1. o \in Orders /\ orders[o] \in OrderRow /\ orders[o] # NoRow
    BY <1>3, ServedOrder, RowsAreNotNoRow DEF Recovered
  <2>2. /\ n \in OrderRow /\ n.amount = orders[o].amount /\ n.receipt = orders[o].receipt
        /\ n.payment = orders[o].payment /\ (n.review <=> orders[o].review)
        /\ n.status = IF orders[o].status = "CREATING" THEN "READY" ELSE orders[o].status
    BY <2>1, ReadyRow
  <2>3. orders' = [orders EXCEPT ![o] = n] /\ UNCHANGED <<receipts, attempts>>
    BY <1>3 DEF Recovered, vars, billing
  <2> HIDE DEF n
  <2>4. KeepsMoney
    BY <2>1, <2>2, <2>3, OneOrderKeepsMoney
  <2> QED
    BY <2>3, <2>4 DEF MovesNoMoney
<1>4. CASE RecordNothingNew(c)
  <2>1. PICK rows : Recording(c, rows, rows, orders[procs[c].order], {}, {}, Null)
    BY <1>4, RecordNothingNewRecords
  <2>2. Written(o, {}, Null)
    BY <1>4 DEF RecordNothingNew, Written, vars, billing
  <2> QED
    BY <2>1, <2>2 DEF RecordsMoney
<1>5. ASSUME NEW r \in Receipts, Apply(c, r) PROVE RecordsMoney(c)
  BY <1>5, ApplyWrites DEF RecordsMoney
<1>6. CASE SendToReview(c)
  <2>1. PICK rows, final, row, several : Recording(c, rows, final, row, several, {}, Null)
    BY <1>6, SendToReviewRecords
  <2>2. Written(o, {}, Null)
    BY <1>6 DEF SendToReview, Written, vars, billing
  <2> QED
    BY <2>1, <2>2 DEF RecordsMoney
<1> QED
  BY <1>1, <1>2, <1>3, <1>4, <1>5, <1>6 DEF Reconcile

\* Staff record, confirm and reverse receipts of their own: none is of the gateway.
LEMMA StaffReceipt ==
  ASSUME RowsInv, MoneyInv, NEW x \in Receipts, NEW n, n.method # "GATEWAY",
         receipts[x] # NoRow => receipts[x].method # "GATEWAY",
         receipts' = [receipts EXCEPT ![x] = n], UNCHANGED <<orders, attempts>>
  PROVE  MoneyInv'
<1>1. \A r \in Receipts : receipts'[r] = IF r = x THEN n ELSE receipts[r]
  BY DEF RowsInv, TypeOK
<1>2. KeepsMoney
  BY SameOrdersKeepMoney
<1>3. OrdersTell'
  BY <1>2, OrdersStillTell DEF MoneyInv
<1>4. \A r \in Receipts : (receipts[r] # NoRow /\ receipts[r].method = "GATEWAY") => receipts'[r] = receipts[r]
  BY <1>1
<1>5. AttemptsTell'
  BY <1>2, <1>4, AttemptsStillTell DEF MoneyInv
<1>6. ReceiptsTell'
  <2>1. SUFFICES ASSUME NEW r \in Receipts, receipts'[r].method = "GATEWAY", receipts'[r] # NoRow
                 PROVE  OfPayment(r)'
    BY DEF ReceiptsTell, OfPayment
  <2>2. receipts'[r] = receipts[r]
    BY <1>1, <2>1
  <2>3. OfPayment(r)
    BY DEF MoneyInv, ReceiptsTell
  <2> QED
    BY <2>1, <2>2, <2>3 DEF OfPayment
<1> QED
  BY <1>3, <1>5, <1>6 DEF MoneyInv

LEMMA MoneySettle ==
  ASSUME RowsInv, MoneyInv, Settle
  PROVE  MoneyInv'
<1>0. UNCHANGED <<orders, attempts>>
  BY DEF Settle
<1>1. \A r \in Receipts : receipts[r].status # "NONE" => receipts[r] \in ReceiptRow
  BY RowsAreNotNoRow DEF RowsInv, TypeOK
<1>2. ASSUME NEW r \in Receipts, NEW d, NEW a, NEW status, NEW k,
             CreateReceipt(r, Invoice, d, a, "MANUAL", status, k)
      PROVE  MoneyInv'
  <2> DEFINE s == SeriesOf(invoices[Invoice].company, d, "R")
             n == [status |-> status, invoice |-> Invoice, company |-> invoices[Invoice].company,
                   date |-> d, amount |-> a, method |-> "MANUAL", key |-> k, number |-> NextNumber(s)]
  <2>1. receipts[r] = NoRow /\ receipts' = [receipts EXCEPT ![r] = n]
    BY <1>2 DEF CreateReceipt
  <2>2. n.method # "GATEWAY"
    OBVIOUS
  <2> HIDE DEF n
  <2> QED
    BY <1>0, <2>1, <2>2, StaffReceipt
<1>3. ASSUME NEW r \in Receipts, ConfirmReceipt(r) PROVE MoneyInv'
  <2> DEFINE n == [receipts[r] EXCEPT !.status = "CONFIRMED"]
  <2>1. receipts[r].status = "PENDING" /\ receipts' = [receipts EXCEPT ![r] = n]
    BY <1>3 DEF ConfirmReceipt
  <2>2. receipts[r] \in ReceiptRow /\ receipts[r] # NoRow
    BY <1>1, <2>1, RowsAreNotNoRow
  <2>3. receipts[r].method # "GATEWAY"
    <3>1. SUFFICES ASSUME receipts[r].method = "GATEWAY" PROVE FALSE
      OBVIOUS
    <3>2. PICK p \in Payments : attempts[p] # NoRow /\ attempts[p].accounting = "APPLIED"
                                  /\ attempts[p].receipt = r
      BY <2>2, <3>1 DEF MoneyInv, ReceiptsTell, OfPayment
    <3>3. receipts[r].status = "CONFIRMED"
      BY <3>2 DEF MoneyInv, AttemptsTell, Backed
    <3> QED
      BY <2>1, <3>3
  <2>4. n.method = receipts[r].method
    BY <2>2 DEF ReceiptRow
  <2> HIDE DEF n
  <2> QED
    BY <1>0, <2>1, <2>3, <2>4, StaffReceipt
<1>4. ASSUME NEW r \in Receipts, ReverseReceipt(r) PROVE MoneyInv'
  <2> DEFINE n == [receipts[r] EXCEPT !.status = "REVERSED"]
  <2>1. /\ receipts[r].status \in {"PENDING", "CONFIRMED"} /\ receipts[r].method # "GATEWAY"
        /\ receipts' = [receipts EXCEPT ![r] = n]
    BY <1>4 DEF ReverseReceipt, Reversible
  <2>2. receipts[r] \in ReceiptRow
    BY <1>1, <2>1
  <2>3. n.method = receipts[r].method
    BY <2>2 DEF ReceiptRow
  <2> HIDE DEF n
  <2> QED
    BY <1>0, <2>1, <2>3, StaffReceipt
<1>5. ASSUME UNCHANGED receipts PROVE MoneyInv'
  BY <1>0, <1>5, SameOrdersKeepMoney, MoneyKept DEF MovesNoMoney
<1>6. ASSUME NEW x \in Adjustments, AdjustmentStep(x) PROVE MoneyInv'
  BY <1>5, <1>6 DEF AdjustmentStep, CreateAdjustment, ReverseAdjustment
<1>7. ASSUME NEW u \in Users, Cancel(u, Invoice) PROVE MoneyInv'
  BY <1>5, <1>7 DEF Cancel
<1> QED
  BY <1>2, <1>3, <1>4, <1>6, <1>7 DEF Settle

LEMMA CustomerKeepsMoney ==
  ASSUME RowsInv, NEW c \in Customers, CustomerStep(c)
  PROVE  MovesNoMoney
<1> DEFINE o == procs[c].order
<1>0. c \in Procs
  BY DEF Procs
<1>1. ASSUME UNCHANGED <<receipts, attempts, orders>> PROVE MovesNoMoney
  BY <1>1, SameOrdersKeepMoney DEF MovesNoMoney
<1>2. ASSUME NEW m \in Milestones, Checkout(c, m) PROVE MovesNoMoney
  BY <1>1, <1>2 DEF Checkout, vars, billing
<1>3. ASSUME NEW x \in Orders, CheckPrevious(c, x) PROVE MovesNoMoney
  BY <1>1, <1>3 DEF CheckPrevious, vars, billing
<1>4. CASE LockBooking(c) \/ LockMilestone(c) \/ NoneOpen(c) \/ ReuseOrder(c) \/ RefuseOrder(c)
  BY <1>1, <1>4 DEF LockBooking, LockMilestone, NoneOpen, ReuseOrder, RefuseOrder, vars, billing
<1>5. ASSUME NEW x \in Orders, NewOrder(c, x) PROVE MovesNoMoney
  <2>1. /\ orders[x] = NoRow /\ orders'[x].status = "CREATING" /\ orders'[x].receipt = Null
        /\ \A q \in Orders \ {x} : orders'[q] = orders[q]
    BY <1>5, NewOrderStep
  <2>2. KeepsMoney
    BY <2>1 DEF KeepsMoney
  <2>3. UNCHANGED <<receipts, attempts>>
    BY <1>5 DEF NewOrder, vars, billing
  <2> QED
    BY <2>2, <2>3 DEF MovesNoMoney
<1>6. CASE Created(c)
  <2> DEFINE n == Ready(orders[o])
  <2>1. o \in Orders /\ orders[o] \in OrderRow /\ orders[o] # NoRow
    BY <1>0, <1>6, ServedOrder, RowsAreNotNoRow DEF Created
  <2>2. /\ n \in OrderRow /\ n.amount = orders[o].amount /\ n.receipt = orders[o].receipt
        /\ n.payment = orders[o].payment /\ (n.review <=> orders[o].review)
        /\ n.status = IF orders[o].status = "CREATING" THEN "READY" ELSE orders[o].status
    BY <2>1, ReadyRow
  <2>3. orders' = [orders EXCEPT ![o] = n] /\ UNCHANGED <<receipts, attempts>>
    BY <1>6 DEF Created, vars, billing
  <2> HIDE DEF n
  <2>4. KeepsMoney
    BY <2>1, <2>2, <2>3, OneOrderKeepsMoney
  <2> QED
    BY <2>3, <2>4 DEF MovesNoMoney
<1> QED
  BY <1>2, <1>3, <1>4, <1>5, <1>6 DEF CustomerStep

\* Which steps are about money: recordings, and what staff do to the invoice.
LEMMA MoneyMoves ==
  ASSUME RowsInv, [GNext]_gVars
  PROVE  \/ MovesNoMoney
         \/ \E c \in Procs : RecordsMoney(c)
         \/ Settle
<1>1. ASSUME UNCHANGED <<receipts, attempts, orders>> PROVE MovesNoMoney
  BY <1>1, SameOrdersKeepMoney DEF MovesNoMoney
<1>2. ASSUME NEW c \in Customers, CustomerStep(c) PROVE MovesNoMoney
  BY <1>2, CustomerKeepsMoney
<1>3. ASSUME NEW c \in Checkers, CheckerStep(c) PROVE MovesNoMoney
  <2> DEFINE o == procs[c].order
             n == AsMarked(orders[o])
  <2>1. CASE \E x \in Orders : Check(c, x)
    BY <1>1, <2>1 DEF Check, vars, billing
  <2>2. CASE GiveUp(c)
    <3>1. o \in Orders /\ orders[o] \in OrderRow /\ orders[o] # NoRow
      <4>1. At(c, "fetch") \/ At(c, "recover") \/ At(c, "resent")
        BY <2>2 DEF GiveUp, Observes, At
      <4> QED
        BY <4>1, ServedOrder, RowsAreNotNoRow DEF Procs
    <3>2. orders' = [orders EXCEPT ![o] = n] /\ UNCHANGED <<receipts, attempts>>
      BY <2>2 DEF GiveUp, AsMarked, vars, billing
    <3>3. /\ n \in OrderRow /\ n.amount = orders[o].amount /\ n.receipt = orders[o].receipt
          /\ n.payment = orders[o].payment /\ n.review /\ n.status = orders[o].status
      BY <3>1 DEF OrderRow, AsMarked
    <3> HIDE DEF n
    <3>4. KeepsMoney
      BY <3>1, <3>2, <3>3, OneOrderKeepsMoney
    <3> QED
      BY <3>2, <3>4 DEF MovesNoMoney
  <2> QED
    BY <1>3, <2>1, <2>2 DEF CheckerStep
<1>4. ASSUME NEW c \in Procs, Reconcile(c)
      PROVE  \/ MovesNoMoney
             \/ RecordsMoney(c)
  BY <1>4, ReconcileMoney
<1>5. ASSUME NEW c \in Procs, Stop(c) PROVE MovesNoMoney
  BY <1>1, <1>5 DEF Stop, vars, billing
<1>6. ASSUME NEW status \in StaffActs, ChangeStatus(status) PROVE MovesNoMoney
  BY <1>1, <1>6 DEF ChangeStatus, vars, billing
<1>7. CASE Provider
  BY <1>1, <1>7 DEF Provider, CreateRemote, Expire, Pay, Succeed, FailPayment, vars, billing
<1>8. CASE UNCHANGED gVars
  BY <1>1, <1>8 DEF gVars, vars, billing
<1> QED
  BY <1>2, <1>3, <1>4, <1>5, <1>6, <1>7, <1>8 DEF GNext, Staff

LEMMA MoneyStep ==
  ASSUME RowsInv, MoneyInv, [GNext]_gVars
  PROVE  MoneyInv'
<1>1. CASE MovesNoMoney
  BY <1>1, MoneyKept
<1>2. ASSUME NEW c \in Procs, RecordsMoney(c) PROVE MoneyInv'
  BY <1>2, MoneyRecorded DEF RecordsMoney
<1>3. CASE Settle
  BY <1>3, MoneySettle
<1> QED
  BY <1>1, <1>2, <1>3, MoneyMoves

LEMMA MoneyInit ==
  ASSUME GInit
  PROVE  MoneyInv
<1>1. AttemptsTell /\ ReceiptsTell
  BY DEF GInit, AttemptsTell, Backed, Considered, ReceiptsTell, OfPayment
<1>2. \A o \in Orders : AppliedTo(o) = {} /\ ReviewedOf(o) = {}
  BY DEF GInit, AppliedTo, ReviewedOf, AttemptsOf, Of
<1>3. \A o \in Orders : orders[o] # NoRow => orders[o].status = "READY" /\ orders[o].receipt = Null
  BY DEF GInit
<1>4. OrdersTell
  BY <1>2, <1>3 DEF OrdersTell, Told
<1> QED
  BY <1>1, <1>4 DEF MoneyInv

\* Attempts, receipts and orders agree on every payment, however its observations interleave
\* (reconcile()).
THEOREM GatewayMoney == GSpec => [](RowsInv /\ MoneyInv)
<1>1. GInit => RowsInv /\ MoneyInv
  BY RowsInit, MoneyInit
<1>2. RowsInv /\ MoneyInv /\ [GNext]_gVars => (RowsInv /\ MoneyInv)'
  BY RowsStep, MoneyStep
<1> QED
  BY <1>1, <1>2, PTL DEF GSpec

\* The rows keep the check constraints of commercial.schema.ts, and the keys between them: the
\* order of an attempt exists, and so does the receipt of an order.
THEOREM GatewayTyped == GSpec => []GTypeOK
<1>1. ASSUME RowsInv, MoneyInv PROVE GTypeOK
  <2>1. /\ TypeOK /\ booking \in {"INVOICED", "CONFIRMED", "COMPLETED", "CANCELLED"}
        /\ orders \in [Orders -> OrderRow \cup {NoRow}]
        /\ attempts \in [Payments -> AttemptRow \cup {NoRow}]
    BY <1>1 DEF RowsInv, TablesTyped
  <2>2. ASSUME NEW o \in Orders, orders[o] # NoRow, orders[o].receipt # Null
        PROVE  receipts[orders[o].receipt] # NoRow
    <3>1. AppliedTo(o) # {} /\ AppliedTo(o) = {orders[o].payment}
          /\ attempts[orders[o].payment].receipt = orders[o].receipt
      BY <1>1, <2>2 DEF MoneyInv, OrdersTell, Told
    <3>2. PICK p \in AppliedTo(o) : p = orders[o].payment
      BY <3>1
    <3>3. p \in Payments /\ attempts[p] # NoRow /\ attempts[p].accounting = "APPLIED"
      BY <3>2 DEF AppliedTo, AttemptsOf, Of
    <3>4. receipts[attempts[p].receipt] # NoRow
      BY <1>1, <3>3 DEF MoneyInv, AttemptsTell, Backed
    <3> QED
      BY <3>1, <3>2, <3>4
  <2>3. \A p \in Payments : attempts[p] # NoRow => orders[attempts[p].order] # NoRow
    BY <1>1 DEF RowsInv, PaymentsKnown
  <2> QED
    BY <2>1, <2>2, <2>3 DEF GTypeOK
<1>2. RowsInv /\ MoneyInv => GTypeOK
  BY <1>1
<1> QED
  BY <1>2, GatewayMoney, PTL

\* Whatever checks of one order overlap, and whatever fails on the way, a payment that succeeded
\* has exactly one confirmed receipt of its amount, or is left to the staff; and the gateway's
\* receipts are of such payments only (the transaction of reconcile()).
THEOREM GatewayMoneyIsAccounted == GSpec => []MoneyIsAccounted
<1>1. ASSUME RowsInv, MoneyInv PROVE MoneyIsAccounted
  <2>1. ASSUME NEW p \in Payments, attempts[p] # NoRow
        PROVE  IF attempts[p].accounting = "APPLIED"
               THEN LET r == attempts[p].receipt IN
                    /\ attempts[p].status = "SUCCESS" /\ attempts[p].currency = "INR"
                    /\ attempts[p].amount = orders[attempts[p].order].amount
                    /\ r # Null /\ receipts[r].status = "CONFIRMED" /\ receipts[r].key = p
                    /\ receipts[r].invoice = Invoice /\ receipts[r].amount = attempts[p].amount
               ELSE attempts[p].status = "SUCCESS" => attempts[p].accounting # "UNAPPLIED"
    <3>1. Backed(p) /\ Considered(p)
      BY <1>1 DEF MoneyInv, AttemptsTell
    <3>2. attempts[p].accounting = "APPLIED" => attempts[p].receipt # Null
      BY <2>1, <3>1, GatewayAssumption DEF Backed
    <3> QED
      BY <2>1, <3>1, <3>2 DEF Backed, Considered
  <2>2. ASSUME NEW r \in Receipts, receipts[r] # NoRow, receipts[r].method = "GATEWAY"
        PROVE  attempts[receipts[r].key] # NoRow /\ attempts[receipts[r].key].receipt = r
    BY <1>1, <2>2 DEF MoneyInv, ReceiptsTell, OfPayment
  <2>3. ASSUME NEW o \in Orders, orders[o] # NoRow
        PROVE  LET applied == {p \in AttemptsOf(o) : attempts[p].accounting = "APPLIED"}
                   reviewed == {p \in AttemptsOf(o) : attempts[p].accounting = "REVIEW_REQUIRED"}
               IN
               /\ orders[o].status = "PAID" <=> applied # {}
               /\ applied # {} => /\ applied = {orders[o].payment}
                                  /\ attempts[orders[o].payment].receipt = orders[o].receipt
               /\ orders[o].status = "REVIEW_REQUIRED" <=> (applied = {} /\ reviewed # {})
               /\ reviewed # {} => orders[o].review
    <3>1. Told(o)
      BY <1>1 DEF MoneyInv, OrdersTell
    <3> QED
      BY <2>3, <3>1 DEF Told, AppliedTo, ReviewedOf
  <2> QED
    BY <2>1, <2>2, <2>3 DEF MoneyIsAccounted
<1>2. RowsInv /\ MoneyInv => MoneyIsAccounted
  BY <1>1
<1> QED
  BY <1>2, GatewayMoney, PTL

\* An attempt changes only when an observation of its order is recorded.
LEMMA AttemptsStep ==
  ASSUME RowsInv, [GNext]_gVars
  PROVE  UNCHANGED attempts \/ \E c \in Procs : \A p \in Payments : Follows(procs[c].order, p)
<1>1. ASSUME NEW c \in Procs, Reconcile(c)
      PROVE  UNCHANGED attempts \/ \A p \in Payments : Follows(procs[c].order, p)
  <2>1. CASE FetchOrder(c) \/ FetchPayments(c) \/ OrderNotFound(c) \/ Recover(c)
             \/ Recovered(c) \/ DropStale(c)
    BY <2>1 DEF FetchOrder, FetchPayments, OrderNotFound, Recover, Recovered, DropStale
  <2>2. CASE RecordNothingNew(c)
    <3>1. PICK rows : Recording(c, rows, rows, orders[procs[c].order], {}, {}, Null)
      BY <2>2, RecordNothingNewRecords
    <3> QED
      BY <3>1, RecordingFollows
  <2>3. ASSUME NEW r \in Receipts, Apply(c, r)
        PROVE  \A p \in Payments : Follows(procs[c].order, p)
    <3>1. PICK rows, final, row, several, p : Recording(c, rows, final, row, several, {p}, r)
      BY <2>3, ApplyRecords
    <3> QED
      BY <3>1, RecordingFollows
  <2>4. CASE SendToReview(c)
    <3>1. PICK rows, final, row, several : Recording(c, rows, final, row, several, {}, Null)
      BY <2>4, SendToReviewRecords
    <3> QED
      BY <3>1, RecordingFollows
  <2> QED
    BY <1>1, <2>1, <2>2, <2>3, <2>4 DEF Reconcile
<1>2. ASSUME NEW c \in Customers, CustomerStep(c) PROVE UNCHANGED attempts
  BY <1>2 DEF CustomerStep, Checkout, CheckPrevious, NewOrder, LockBooking, LockMilestone,
              NoneOpen, ReuseOrder, RefuseOrder, Created
<1>3. ASSUME NEW c \in Checkers, CheckerStep(c) PROVE UNCHANGED attempts
  BY <1>3 DEF CheckerStep, Check, GiveUp
<1>4. ASSUME NEW c \in Procs, Stop(c) PROVE UNCHANGED attempts
  BY <1>4 DEF Stop
<1>5. CASE Staff
  BY <1>5 DEF Staff, ChangeStatus, Settle
<1>6. CASE Provider
  BY <1>6 DEF Provider, CreateRemote, Expire, Pay, Succeed, FailPayment
<1> QED
  BY <1>1, <1>2, <1>3, <1>4, <1>5, <1>6 DEF GNext, gVars

\* An observation that comes late, twice or out of order never takes back a success, reopens a
\* payment that ended, or touches one that was applied (preserveTerminal in reconcile()).
THEOREM GatewaySuccessIsFinal == GSpec => SuccessIsFinal
<1> DEFINE Final == \A p \in Payments : attempts[p] # NoRow =>
             /\ attempts[p].status = "SUCCESS" => attempts'[p].status = "SUCCESS"
             /\ attempts[p].status = "FAILED" => attempts'[p].status # "PENDING"
             /\ attempts[p].accounting = "APPLIED" => attempts'[p] = attempts[p]
<1>1. ASSUME RowsInv, MoneyInv, [GNext]_gVars PROVE [Final]_gVars
  <2>1. CASE UNCHANGED attempts
    BY <2>1
  <2>2. ASSUME NEW c \in Procs, \A p \in Payments : Follows(procs[c].order, p)
        PROVE  Final
    <3>1. SUFFICES ASSUME NEW p \in Payments, attempts[p] # NoRow
                   PROVE  /\ attempts[p].status = "SUCCESS" => attempts'[p].status = "SUCCESS"
                          /\ attempts[p].status = "FAILED" => attempts'[p].status # "PENDING"
                          /\ attempts[p].accounting = "APPLIED" => attempts'[p] = attempts[p]
      OBVIOUS
    <3>2. Follows(procs[c].order, p)
      BY <2>2
    <3>3. attempts[p].accounting = "APPLIED" => attempts[p].status = "SUCCESS"
      BY <1>1, <3>1 DEF MoneyInv, AttemptsTell, Backed
    <3> QED
      BY <3>1, <3>2, <3>3 DEF Follows
  <2> QED
    BY <1>1, <2>1, <2>2, AttemptsStep
<1>2. RowsInv /\ MoneyInv /\ [GNext]_gVars => [Final]_gVars
  BY <1>1
<1> QED
  BY <1>2, GatewayMoney, PTL DEF GSpec, SuccessIsFinal

-----------------------------------------------------------------------------
(* PaymentReview.  The invariant of Gateway does not survive the staff's decisions and the    *)
(* receipts of earlier releases: a receipt of the gateway may have no payment that points to   *)
(* it, an applied payment may be refunded after its receipt was reversed.  What stays true is   *)
(* stated here anew: which receipt, payment and order point to each other, and how the status    *)
(* of an order follows from what became of its payments.                                         *)

(* The invariant *)

RefundedOf(o) == {p \in AttemptsOf(o) : attempts[p].accounting = "REFUNDED"}

\* A key names one receipt; those of payments are the gateway's, and never pending.
ReceiptKeys ==
  /\ \A r, x \in Receipts :
       (receipts[r] # NoRow /\ receipts[x] # NoRow /\ receipts[r].key = receipts[x].key) => r = x
  /\ \A r \in Receipts : (receipts[r] # NoRow /\ receipts[r].key \in Payments) =>
       receipts[r].method = "GATEWAY" /\ receipts[r].status # "PENDING"

\* The receipts of a payment, by what was decided about it.
Booked(p) ==
  attempts[p] # NoRow =>
    /\ attempts[p].accounting = "UNAPPLIED" <=> attempts[p].status # "SUCCESS"
    /\ attempts[p].accounting \in {"UNAPPLIED", "REVIEW_REQUIRED"} => attempts[p].receipt = Null
    /\ attempts[p].accounting = "APPLIED" =>
         /\ attempts[p].receipt # Null /\ attempts[p].currency = "INR"
         /\ orders[attempts[p].order].receipt = attempts[p].receipt
         /\ orders[attempts[p].order].payment = p
    /\ attempts[p].receipt # Null =>
         /\ receipts[attempts[p].receipt] # NoRow
         /\ receipts[attempts[p].receipt].key = p
    /\ attempts[p].accounting = "REFUNDED" =>
         \A r \in Receipts :
           (receipts[r] # NoRow /\ receipts[r].key = p) => receipts[r].status = "REVERSED"

\* The receipt of an order is that of one of its payments.
Owned(o) ==
  (orders[o] # NoRow /\ orders[o].receipt # Null) =>
    LET p == orders[o].payment IN
    /\ p \in Payments /\ attempts[p] # NoRow
    /\ attempts[p].order = o /\ attempts[p].receipt = orders[o].receipt
    /\ attempts[p].accounting \in {"APPLIED", "REFUNDED"}

Standing(o) ==
  (orders[o] # NoRow /\ ~ IsReversed(orders[o].receipt)) =>
    /\ orders[o].status = "PAID" <=> AppliedTo(o) # {}
    /\ orders[o].status = "REVIEW_REQUIRED" <=> (AppliedTo(o) = {} /\ ReviewedOf(o) # {})
    /\ orders[o].status = "REFUNDED" <=>
         (AppliedTo(o) = {} /\ ReviewedOf(o) = {} /\ RefundedOf(o) # {})
    /\ ReviewedOf(o) # {} => orders[o].review

AllBooked == \A p \in Payments : Booked(p)
AllOwned == \A o \in Orders : Owned(o)
AllStanding == \A o \in Orders : Standing(o)
ReviewInv == ReceiptKeys /\ AllBooked /\ AllOwned /\ AllStanding

-----------------------------------------------------------------------------
(* Receipts *)

\* Receipts that exist stay those of their payments, reversed ones reversed; a receipt that is
\* added has one of these keys.
ReceiptsMove(keys) ==
  \A r \in Receipts :
    IF receipts[r] = NoRow
    THEN receipts'[r] # NoRow => receipts'[r].key \in keys
    ELSE /\ receipts'[r] # NoRow /\ receipts'[r].key = receipts[r].key
         /\ receipts[r].status = "REVERSED" => receipts'[r].status = "REVERSED"

LEMMA SameReceipts ==
  ASSUME ReceiptKeys, UNCHANGED receipts
  PROVE  ReceiptKeys' /\ ReceiptsMove({})
  BY DEF ReceiptKeys, ReceiptsMove

LEMMA OneReceiptAdded ==
  ASSUME ReceiptKeys, NEW r \in Receipts, receipts[r] = NoRow,
         ReceiptKeyFree(receipts'[r].key),
         receipts'[r].key \in Payments =>
           receipts'[r].method = "GATEWAY" /\ receipts'[r].status # "PENDING",
         \A x \in Receipts \ {r} : receipts'[x] = receipts[x]
  PROVE  ReceiptKeys' /\ ReceiptsMove({receipts'[r].key})
<1>1. \A x \in Receipts \ {r} : receipts[x] # NoRow => receipts[x].key # receipts'[r].key
  BY DEF ReceiptKeyFree
<1>2. ReceiptKeys'
  BY <1>1 DEF ReceiptKeys
<1>3. ReceiptsMove({receipts'[r].key})
  BY DEF ReceiptsMove
<1> QED
  BY <1>2, <1>3

LEMMA OneReceiptChanged ==
  ASSUME TypeOK, ReceiptKeys, NEW r \in Receipts, receipts[r] \in ReceiptRow, NEW n,
         n # NoRow, n.key = receipts[r].key, n.method = receipts[r].method,
         receipts[r].status = "REVERSED" => n.status = "REVERSED",
         n.status # "PENDING",
         receipts' = [receipts EXCEPT ![r] = n]
  PROVE  ReceiptKeys' /\ ReceiptsMove({})
<1>1. \A x \in Receipts : receipts'[x] = IF x = r THEN n ELSE receipts[x]
  BY DEF TypeOK
<1>2. receipts[r] # NoRow
  BY DEF ReceiptRow, NoRow
<1>3. ReceiptKeys'
  BY <1>1, <1>2 DEF ReceiptKeys
<1>4. ReceiptsMove({})
  BY <1>1, <1>2 DEF ReceiptsMove
<1> QED
  BY <1>3, <1>4

WithStatus(row, status) == [row EXCEPT !.status = status]

LEMMA StatusSet ==
  ASSUME NEW row \in ReceiptRow, NEW status \in {"PENDING", "CONFIRMED", "REVERSED"}
  PROVE  LET n == WithStatus(row, status) IN
         /\ n \in ReceiptRow /\ n # NoRow
         /\ n.status = status /\ n.key = row.key /\ n.method = row.method
  BY DEF WithStatus, ReceiptRow, NoRow

LEMMA ReceiptCreated ==
  ASSUME TypeOK, ReceiptKeys, NEW r \in Receipts, NEW d, NEW a, NEW method, NEW status, NEW k,
         CreateReceipt(r, Invoice, d, a, method, status, k),
         status # "NONE",
         k \in Payments => method = "GATEWAY"
  PROVE  /\ ReceiptKeys' /\ ReceiptsMove({k})
         /\ receipts[r] = NoRow /\ receipts'[r] # NoRow
         /\ receipts'[r].key = k /\ receipts'[r].status = status
<1> DEFINE s == SeriesOf(invoices[Invoice].company, d, "R")
           n == [status |-> status, invoice |-> Invoice, company |-> invoices[Invoice].company,
                 date |-> d, amount |-> a, method |-> method, key |-> k, number |-> NextNumber(s)]
<1>1. /\ receipts[r] = NoRow /\ receipts' = [receipts EXCEPT ![r] = n] /\ ReceiptKeyFree(k)
      /\ method = "GATEWAY" => status = "CONFIRMED"
  BY DEF CreateReceipt
<1>2. n.status = status /\ n.key = k /\ n.method = method
  OBVIOUS
<1> HIDE DEF n
<1>3. receipts'[r] = n /\ \A x \in Receipts \ {r} : receipts'[x] = receipts[x]
  BY <1>1 DEF TypeOK
<1>4. n # NoRow
  BY <1>2, RowsAreNotNoRow
<1>5. receipts'[r].key = k /\ receipts'[r].status = status /\ receipts'[r].method = method
  BY <1>2, <1>3
<1>6. ReceiptKeyFree(receipts'[r].key)
  BY <1>1, <1>5
<1>7. ReceiptKeys' /\ ReceiptsMove({receipts'[r].key})
  BY <1>1, <1>3, <1>5, <1>6, OneReceiptAdded
<1> QED
  BY <1>1, <1>3, <1>4, <1>5, <1>7

\* Staff write no receipt of a payment, and reverse none.
LEMMA SettleReceipts ==
  ASSUME TypeOK, ReceiptKeys, Settle
  PROVE  ReceiptKeys' /\ ReceiptsMove(Keys \ Payments)
<1>0. \A r \in Receipts : receipts[r].status # "NONE" => receipts[r] \in ReceiptRow
  BY RowsAreNotNoRow DEF TypeOK
<1>1. ASSUME NEW r \in Receipts, NEW d, NEW a, NEW status \in {"PENDING", "CONFIRMED"},
             NEW k \in Keys \ Payments, CreateReceipt(r, Invoice, d, a, "MANUAL", status, k)
      PROVE  ReceiptKeys' /\ ReceiptsMove(Keys \ Payments)
  <2>1. ReceiptKeys' /\ ReceiptsMove({k})
    BY <1>1, ReceiptCreated
  <2> QED
    BY <2>1 DEF ReceiptsMove
<1>2. ASSUME ReceiptKeys', ReceiptsMove({})
      PROVE  ReceiptKeys' /\ ReceiptsMove(Keys \ Payments)
  BY <1>2 DEF ReceiptsMove
<1>3. ASSUME NEW r \in Receipts, ConfirmReceipt(r)
      PROVE  ReceiptKeys' /\ ReceiptsMove({})
  <2> DEFINE n == WithStatus(receipts[r], "CONFIRMED")
  <2>1. receipts[r].status = "PENDING" /\ receipts' = [receipts EXCEPT ![r] = n]
    BY <1>3 DEF ConfirmReceipt, WithStatus
  <2>2. receipts[r] \in ReceiptRow
    BY <1>0, <2>1
  <2>3. n # NoRow /\ n.status = "CONFIRMED" /\ n.key = receipts[r].key /\ n.method = receipts[r].method
    BY <2>2, StatusSet
  <2> HIDE DEF n
  <2> QED
    BY <2>1, <2>2, <2>3, OneReceiptChanged
<1>4. ASSUME NEW r \in Receipts, ReverseReceipt(r)
      PROVE  ReceiptKeys' /\ ReceiptsMove({})
  <2> DEFINE n == WithStatus(receipts[r], "REVERSED")
  <2>1. /\ receipts[r].status \in {"PENDING", "CONFIRMED"}
        /\ receipts' = [receipts EXCEPT ![r] = n]
    BY <1>4 DEF ReverseReceipt, Reversible, WithStatus
  <2>2. receipts[r] \in ReceiptRow
    BY <1>0, <2>1
  <2>3. n # NoRow /\ n.status = "REVERSED" /\ n.key = receipts[r].key /\ n.method = receipts[r].method
    BY <2>2, StatusSet
  <2> HIDE DEF n
  <2> QED
    BY <2>1, <2>2, <2>3, OneReceiptChanged
<1>5. ASSUME NEW x \in Adjustments, AdjustmentStep(x) PROVE ReceiptKeys' /\ ReceiptsMove({})
  BY <1>5, SameReceipts DEF AdjustmentStep, CreateAdjustment, ReverseAdjustment
<1>6. ASSUME NEW u \in Users, Cancel(u, Invoice) PROVE ReceiptKeys' /\ ReceiptsMove({})
  BY <1>6, SameReceipts DEF Cancel
<1> QED
  BY <1>1, <1>2, <1>3, <1>4, <1>5, <1>6 DEF Settle

\* A receipt that an order owns stays reversed.
LEMMA StillReversed ==
  ASSUME AllBooked, AllOwned, ReceiptKeys, TablesTyped, NEW keys, ReceiptsMove(keys),
         NEW o \in Orders, orders[o] # NoRow, IsReversed(orders[o].receipt)
  PROVE  /\ orders[o].receipt \in Receipts /\ receipts[orders[o].receipt] # NoRow
         /\ receipts'[orders[o].receipt].status = "REVERSED"
<1>1. orders[o] \in OrderRow /\ orders[o].receipt # Null
  BY RowsOfTables DEF IsReversed
<1>2. orders[o].receipt \in Receipts
  BY <1>1 DEF OrderRow
<1>3. PICK p \in Payments : attempts[p] # NoRow /\ attempts[p].receipt = orders[o].receipt
  BY <1>1 DEF AllOwned, Owned
<1>4. receipts[orders[o].receipt] # NoRow
  BY <1>1, <1>3 DEF AllBooked, Booked
<1> QED
  BY <1>2, <1>4 DEF ReceiptsMove, IsReversed

\* The receipt of a payment is a row, of its key.
LEMMA BookedReceipt ==
  ASSUME AllBooked, TablesTyped, NEW p \in Payments, attempts[p] # NoRow, attempts[p].receipt # Null
  PROVE  /\ attempts[p].receipt \in Receipts /\ receipts[attempts[p].receipt] # NoRow
         /\ receipts[attempts[p].receipt].key = p
<1>1. attempts[p] \in AttemptRow
  BY RowsOfTables
<1> QED
  BY <1>1 DEF AllBooked, Booked, AttemptRow

LEMMA SameSets ==
  ASSUME UNCHANGED attempts, NEW o
  PROVE  /\ AppliedTo(o)' = AppliedTo(o) /\ ReviewedOf(o)' = ReviewedOf(o)
         /\ RefundedOf(o)' = RefundedOf(o)
  BY DEF AppliedTo, ReviewedOf, RefundedOf, AttemptsOf, Of

-----------------------------------------------------------------------------
(* Steps that decide about no payment *)

LEMMA BookedKept ==
  ASSUME RowsInv, ReviewInv, KeepsMoney, UNCHANGED attempts, NEW keys, ReceiptsMove(keys),
         \A p \in Payments : (p \in keys /\ attempts[p] # NoRow) => attempts[p].accounting # "REFUNDED"
  PROVE  AllBooked'
<1> SUFFICES ASSUME NEW p \in Payments, attempts[p] # NoRow PROVE Booked(p)'
  BY DEF AllBooked, Booked
<1>1. Booked(p)
  BY DEF ReviewInv, AllBooked
<1>2. attempts[p].order \in Orders /\ orders[attempts[p].order] # NoRow
  <2>1. attempts[p] \in AttemptRow
    BY RowsOfTables DEF RowsInv
  <2> QED
    BY <2>1 DEF RowsInv, PaymentsKnown, AttemptRow
<1>3. /\ orders'[attempts[p].order].receipt = orders[attempts[p].order].receipt
      /\ orders'[attempts[p].order].payment = orders[attempts[p].order].payment
  BY <1>2 DEF KeepsMoney
<1>4. attempts[p].receipt # Null =>
        receipts'[attempts[p].receipt] # NoRow /\ receipts'[attempts[p].receipt].key = p
  BY BookedReceipt DEF ReceiptsMove, RowsInv, ReviewInv
<1>5. ASSUME attempts[p].accounting = "REFUNDED",
             NEW r \in Receipts, receipts'[r] # NoRow, receipts'[r].key = p
      PROVE  receipts'[r].status = "REVERSED"
  <2>1. receipts[r] # NoRow
    BY <1>5 DEF ReceiptsMove
  <2>2. receipts[r].key = p
    BY <1>5, <2>1 DEF ReceiptsMove
  <2>3. receipts[r].status = "REVERSED"
    BY <1>1, <1>5, <2>1, <2>2 DEF Booked
  <2> QED
    BY <2>1, <2>3 DEF ReceiptsMove
<1> QED
  BY <1>1, <1>3, <1>4, <1>5 DEF Booked

LEMMA OwnedKept ==
  ASSUME RowsInv, ReviewInv, KeepsMoney, UNCHANGED attempts
  PROVE  AllOwned'
<1> SUFFICES ASSUME NEW o \in Orders, orders'[o] # NoRow, orders'[o].receipt # Null
             PROVE  Owned(o)'
  BY DEF AllOwned, Owned
<1>1. orders[o] # NoRow
  BY DEF KeepsMoney
<1>2. orders'[o].receipt = orders[o].receipt /\ orders'[o].payment = orders[o].payment
  BY <1>1 DEF KeepsMoney
<1>3. Owned(o)
  BY DEF ReviewInv, AllOwned
<1> QED
  BY <1>1, <1>2, <1>3 DEF Owned

LEMMA StandingKept ==
  ASSUME RowsInv, ReviewInv, KeepsMoney, UNCHANGED attempts, NEW keys, ReceiptsMove(keys)
  PROVE  AllStanding'
<1> SUFFICES ASSUME NEW o \in Orders, orders'[o] # NoRow, ~ IsReversed(orders[o].receipt)'
             PROVE  Standing(o)'
  BY DEF AllStanding, Standing
<1>1. /\ AppliedTo(o)' = AppliedTo(o) /\ ReviewedOf(o)' = ReviewedOf(o)
      /\ RefundedOf(o)' = RefundedOf(o)
  BY SameSets
<1>2. CASE orders[o] # NoRow
  <2>1. /\ orders'[o].receipt = orders[o].receipt
        /\ orders[o].review => orders'[o].review
        /\ orders'[o].status = "PAID" <=> orders[o].status = "PAID"
        /\ orders'[o].status = "REVIEW_REQUIRED" <=> orders[o].status = "REVIEW_REQUIRED"
        /\ orders'[o].status = "REFUNDED" <=> orders[o].status = "REFUNDED"
    BY <1>2 DEF KeepsMoney
  <2>2. ~ IsReversed(orders[o].receipt)
    <3>1. SUFFICES ASSUME IsReversed(orders[o].receipt) PROVE FALSE
      OBVIOUS
    <3>2. receipts'[orders[o].receipt].status = "REVERSED" /\ orders[o].receipt # Null
      BY <1>2, <3>1, StillReversed DEF RowsInv, ReviewInv, IsReversed
    <3> QED
      BY <2>1, <3>2 DEF IsReversed
  <2>3. Standing(o)
    BY DEF ReviewInv, AllStanding
  <2> QED
    BY <1>1, <1>2, <2>1, <2>2, <2>3 DEF Standing
<1>3. CASE orders[o] = NoRow
  <2>1. orders'[o].status \notin {"PAID", "REVIEW_REQUIRED", "REFUNDED"}
    BY <1>3 DEF KeepsMoney
  <2>2. AttemptsOf(o) = {}
    <3>1. \A p \in Payments : attempts[p] # NoRow => orders[attempts[p].order] # NoRow
      BY DEF RowsInv, PaymentsKnown
    <3> QED
      BY <1>3, <3>1 DEF AttemptsOf, Of
  <2>3. AppliedTo(o) = {} /\ ReviewedOf(o) = {} /\ RefundedOf(o) = {}
    BY <2>2 DEF AppliedTo, ReviewedOf, RefundedOf
  <2> QED
    BY <1>1, <2>1, <2>3 DEF Standing
<1> QED
  BY <1>2, <1>3

LEMMA ReviewKept ==
  ASSUME RowsInv, ReviewInv, KeepsMoney, UNCHANGED attempts, ReceiptKeys',
         NEW keys, ReceiptsMove(keys),
         \A p \in Payments : (p \in keys /\ attempts[p] # NoRow) => attempts[p].accounting # "REFUNDED"
  PROVE  ReviewInv'
  BY BookedKept, OwnedKept, StandingKept DEF ReviewInv

LEMMA ReviewSettle ==
  ASSUME RowsInv, ReviewInv, Settle
  PROVE  ReviewInv'
<1>1. ReceiptKeys' /\ ReceiptsMove(Keys \ Payments)
  BY SettleReceipts DEF RowsInv, ReviewInv
<1>2. UNCHANGED <<orders, attempts>>
  BY DEF Settle
<1> QED
  BY <1>1, <1>2, SameOrdersKeepMoney, ReviewKept

LEMMA ReviewUnmoved ==
  ASSUME RowsInv, ReviewInv, MovesNoMoney
  PROVE  ReviewInv'
<1>1. ReceiptKeys' /\ ReceiptsMove({})
  BY SameReceipts DEF MovesNoMoney, ReviewInv
<1> QED
  BY <1>1, ReviewKept DEF MovesNoMoney

-----------------------------------------------------------------------------
(* Recordings *)

LEMMA WrittenReceipts ==
  ASSUME ReceiptKeys, NEW o, NEW applied, NEW r, Written(o, applied, r)
  PROVE  /\ ReceiptKeys' /\ ReceiptsMove(applied)
         /\ \A x \in Receipts : receipts[x] # NoRow => receipts'[x] = receipts[x]
<1>1. CASE applied = {}
  BY <1>1, SameReceipts DEF Written
<1>2. CASE applied # {}
  <2>1. /\ r \in Receipts /\ receipts[r] = NoRow /\ ReceiptKeyFree(receipts'[r].key)
        /\ \A x \in Receipts \ {r} : receipts'[x] = receipts[x]
        /\ receipts'[r].status = "CONFIRMED" /\ receipts'[r].method = "GATEWAY"
        /\ applied = {receipts'[r].key}
    BY <1>2 DEF Written
  <2>2. ReceiptKeys' /\ ReceiptsMove({receipts'[r].key})
    BY <2>1, OneReceiptAdded
  <2> QED
    BY <2>1, <2>2
<1> QED
  BY <1>1, <1>2

\* A payment that is accounted for is not accounted for again.
LEMMA StaysAccounted ==
  ASSUME AllBooked, NEW o, NEW several, NEW applied, NEW r, NEW q \in Payments,
         Outcome(o, q, several, applied, r),
         attempts[q] # NoRow, attempts[q].accounting # "UNAPPLIED"
  PROVE  q \notin several \cup applied /\ attempts'[q] = attempts[q]
<1>1. attempts[q].status = "SUCCESS"
  BY DEF AllBooked, Booked
<1>2. q \notin several \cup applied
  BY DEF Outcome
<1>3. attempts'[q] # NoRow
  BY DEF Outcome
<1> QED
  BY <1>1, <1>2, <1>3 DEF Outcome

LEMMA RecordedRefunds ==
  ASSUME AllBooked, NEW o, NEW several, NEW applied, NEW r,
         \A q \in Payments : Outcome(o, q, several, applied, r), NEW x
  PROVE  RefundedOf(x)' = RefundedOf(x)
<1>1. ASSUME NEW q \in Payments, attempts[q] # NoRow, attempts[q].accounting = "REFUNDED"
      PROVE  attempts'[q] = attempts[q]
  BY <1>1, StaysAccounted
<1>2. ASSUME NEW q \in Payments, attempts'[q] # NoRow, attempts'[q].accounting = "REFUNDED"
      PROVE  attempts[q] # NoRow /\ attempts[q].accounting = "REFUNDED"
  <2>1. Outcome(o, q, several, applied, r)
    OBVIOUS
  <2>2. q \notin several \cup applied
    BY <1>2, <2>1 DEF Outcome
  <2> QED
    BY <1>2, <2>1, <2>2 DEF Outcome
<1> QED
  BY <1>1, <1>2 DEF RefundedOf, AttemptsOf, Of

\* What is known of an order once an observation of it is recorded.
RecordedFor(o, several, applied, r, row, new) ==
  /\ o \in Orders /\ orders[o] # NoRow
  /\ several \cup applied \subseteq Payments /\ several \cap applied = {}
  /\ \A q \in Payments : Outcome(o, q, several, applied, r)
  /\ Written(o, applied, r) /\ Decided(o, row, several, applied, r)
  /\ orders' = [orders EXCEPT ![o] = new]
  /\ new.receipt = row.receipt /\ new.payment = row.payment
  /\ \A status \in {"PAID", "REVIEW_REQUIRED", "REFUNDED"} :
       new.status = status <=> row.status = status
  /\ (row.review /\ ReviewedOf(o)' # {}) => new.review

LEMMA RecordingIsKnown ==
  ASSUME RowsInv, NEW c \in Procs, RecordsMoney(c)
  PROVE  \E several, applied, r, row, new : RecordedFor(procs[c].order, several, applied, r, row, new)
<1>1. PICK rows, final, row, several, applied, r :
        /\ Recording(c, rows, final, row, several, applied, r)
        /\ Written(procs[c].order, applied, r)
  BY DEF RecordsMoney
<1>2. PICK o : o = procs[c].order
  OBVIOUS
<1>3. o \in Orders /\ orders[o] # NoRow
  BY <1>1, <1>2, ServedOrder, RowsAreNotNoRow DEF Recording, ToRecord
<1>4. attempts' = final
  BY <1>1, RecordingKeeps
<1>5. PICK new : Ends(c, o, final, row, new)
  BY <1>1, <1>2, RecordingEnds
<1>6. \A q \in Payments : Outcome(o, q, several, applied, r)
  BY <1>1, <1>2, RecordingOutcome
<1>7. /\ several \cap applied = {} /\ Decided(o, row, several, applied, r)
      /\ several \cup applied \subseteq Payments
  BY <1>1, <1>2 DEF Recording, Collected, Of
<1>8. /\ orders' = [orders EXCEPT ![o] = new]
      /\ new.receipt = row.receipt /\ new.payment = row.payment
      /\ new.status = Closed(row.status, procs[c].snap.status)
  BY <1>5 DEF Ends
<1>9. \A status \in {"PAID", "REVIEW_REQUIRED", "REFUNDED"} :
        new.status = status <=> row.status = status
  BY <1>8 DEF Closed
<1>10. (row.review /\ ReviewedOf(o)' # {}) => new.review
  BY <1>4, <1>5 DEF Ends, ReviewedOf, AttemptsOf, Of
<1>11. RecordedFor(o, several, applied, r, row, new)
  BY <1>1, <1>2, <1>3, <1>6, <1>7, <1>8, <1>9, <1>10 DEF RecordedFor
<1> QED
  BY <1>2, <1>11

\* The receipt and the payment of an order are set once.
LEMMA OrderKeepsReceipt ==
  ASSUME RowsInv, ReviewInv, NEW o, NEW several, NEW applied, NEW r, NEW row, NEW new,
         RecordedFor(o, several, applied, r, row, new), orders[o].receipt # Null
  PROVE  /\ applied = {} /\ orders'[o].receipt = orders[o].receipt
         /\ orders'[o].payment = orders[o].payment
<1>1. orders'[o] = new
  BY DEF RecordedFor, RowsInv, TablesTyped
<1>2. applied = {}
  BY DEF RecordedFor, Decided
<1>3. Owned(o) /\ orders[o].payment \in Payments
  BY DEF ReviewInv, AllOwned, Owned, RecordedFor
<1>4. orders[o].payment # Null
  BY <1>3, GatewayAssumption
<1> QED
  BY <1>1, <1>2, <1>4 DEF RecordedFor, Decided

LEMMA RecordedIsBooked ==
  ASSUME RowsInv, ReviewInv, NEW o, NEW several, NEW applied, NEW r, NEW row, NEW new,
         RecordedFor(o, several, applied, r, row, new)
  PROVE  AllBooked'
<1> SUFFICES ASSUME NEW q \in Payments, attempts'[q] # NoRow PROVE Booked(q)'
  BY DEF AllBooked, Booked
<1>0. AllBooked /\ Booked(q) /\ Outcome(o, q, several, applied, r) /\ o \in Orders
  BY DEF ReviewInv, AllBooked, RecordedFor
<1>1. orders'[o] = new /\ \A x \in Orders \ {o} : orders'[x] = orders[x]
  BY DEF RecordedFor, RowsInv, TablesTyped
<1>2. /\ ReceiptsMove(applied)
      /\ \A x \in Receipts : receipts[x] # NoRow => receipts'[x] = receipts[x]
  BY WrittenReceipts DEF RecordedFor, ReviewInv
<1>3. ASSUME attempts'[q].accounting \in {"UNAPPLIED", "REVIEW_REQUIRED"}, attempts'[q].receipt = Null,
             attempts'[q].accounting = "UNAPPLIED" <=> attempts'[q].status # "SUCCESS"
      PROVE  Booked(q)'
  BY <1>3 DEF Booked
<1>4. CASE q \in several /\ q \notin applied
  <2>1. /\ attempts'[q].status = "SUCCESS" /\ attempts'[q].accounting = "REVIEW_REQUIRED"
        /\ attempts'[q].receipt = ReceiptBefore(q)
        /\ attempts[q] # NoRow => attempts[q].accounting = "UNAPPLIED"
    BY <1>0, <1>4 DEF Outcome
  <2>2. ReceiptBefore(q) = Null
    BY <1>0, <2>1 DEF ReceiptBefore, Booked
  <2> QED
    BY <1>3, <2>1, <2>2
<1>5. CASE q \in applied
  <2>1. /\ attempts'[q].status = "SUCCESS" /\ attempts'[q].accounting = "APPLIED"
        /\ attempts'[q].receipt = r /\ attempts'[q].order = o
    BY <1>0, <1>5 DEF Outcome
  <2>2. /\ r \in Receipts /\ receipts'[r] # NoRow /\ receipts'[r].key = q
        /\ attempts'[q].currency = "INR"
    BY <1>5 DEF RecordedFor, Written
  <2>3. row.receipt = r /\ applied = {row.payment}
    BY <1>5 DEF RecordedFor, Decided
  <2>4. orders'[o].receipt = r /\ orders'[o].payment = q
    BY <1>1, <1>5, <2>3 DEF RecordedFor
  <2>5. r # Null
    BY <2>2, GatewayAssumption
  <2> QED
    BY <2>1, <2>2, <2>4, <2>5 DEF Booked
<1>6. CASE q \notin several \cup applied /\ (attempts[q] = NoRow \/ attempts[q].accounting = "UNAPPLIED")
  <2>1. attempts'[q].accounting = "UNAPPLIED" /\ attempts'[q].receipt = ReceiptBefore(q)
    BY <1>0, <1>6 DEF Outcome
  <2>2. ReceiptBefore(q) = Null
    BY <1>0, <1>6 DEF ReceiptBefore, Booked
  <2>3. attempts'[q].status # "SUCCESS"
    <3>1. CASE attempts[q] # NoRow /\ attempts[q].order # o
      BY <1>0, <1>6, <3>1 DEF Outcome, Booked
    <3>2. CASE attempts'[q].order = o
      BY <1>0, <1>6, <2>1, <3>2 DEF Outcome
    <3> QED
      BY <1>0, <1>6, <3>1, <3>2 DEF Outcome
  <2> QED
    BY <1>3, <2>1, <2>2, <2>3
<1>7. CASE attempts[q] # NoRow /\ attempts[q].accounting # "UNAPPLIED"
  <2>1. attempts'[q] = attempts[q] /\ q \notin applied
    BY <1>0, <1>7, StaysAccounted
  <2>2. attempts[q].order \in Orders
    <3>1. attempts[q] \in AttemptRow
      BY <1>7, RowsOfTables DEF RowsInv
    <3> QED
      BY <3>1 DEF AttemptRow
  <2>3. attempts[q].accounting = "APPLIED" =>
          /\ attempts[q].receipt # Null
          /\ orders'[attempts[q].order].receipt = attempts[q].receipt
          /\ orders'[attempts[q].order].payment = q
    <3>1. SUFFICES ASSUME attempts[q].accounting = "APPLIED"
                   PROVE  /\ attempts[q].receipt # Null
                          /\ orders'[attempts[q].order].receipt = attempts[q].receipt
                          /\ orders'[attempts[q].order].payment = q
      OBVIOUS
    <3>2. /\ attempts[q].receipt # Null
          /\ orders[attempts[q].order].receipt = attempts[q].receipt
          /\ orders[attempts[q].order].payment = q
      BY <1>0, <1>7, <3>1 DEF Booked
    <3>3. CASE attempts[q].order # o
      BY <1>1, <2>2, <3>2, <3>3
    <3>4. CASE attempts[q].order = o
      BY <3>2, <3>4, OrderKeepsReceipt
    <3> QED
      BY <3>3, <3>4
  <2>4. attempts[q].receipt # Null =>
          receipts'[attempts[q].receipt] # NoRow /\ receipts'[attempts[q].receipt].key = q
    BY <1>0, <1>2, <1>7, BookedReceipt DEF RowsInv
  <2>5. ASSUME attempts[q].accounting = "REFUNDED",
               NEW x \in Receipts, receipts'[x] # NoRow, receipts'[x].key = q
        PROVE  receipts'[x].status = "REVERSED"
    <3>1. receipts[x] # NoRow
      BY <1>2, <2>1, <2>5 DEF ReceiptsMove
    <3> QED
      BY <1>0, <1>2, <1>7, <2>5, <3>1 DEF Booked
  <2> QED
    BY <1>0, <1>7, <2>1, <2>3, <2>4, <2>5 DEF Booked
<1> QED
  BY <1>4, <1>5, <1>6, <1>7

LEMMA RecordedIsOwned ==
  ASSUME RowsInv, ReviewInv, NEW o, NEW several, NEW applied, NEW r, NEW row, NEW new,
         RecordedFor(o, several, applied, r, row, new)
  PROVE  AllOwned'
<1> SUFFICES ASSUME NEW x \in Orders, orders'[x] # NoRow, orders'[x].receipt # Null
             PROVE  Owned(x)'
  BY DEF AllOwned, Owned
<1>1. orders'[o] = new /\ o \in Orders /\ \A y \in Orders \ {o} : orders'[y] = orders[y]
  BY DEF RecordedFor, RowsInv, TablesTyped
<1>2. CASE orders[x] # NoRow /\ orders[x].receipt # Null
  <2>1. orders'[x].receipt = orders[x].receipt /\ orders'[x].payment = orders[x].payment
    BY <1>1, <1>2, OrderKeepsReceipt
  <2>2. PICK p \in Payments :
          /\ p = orders[x].payment /\ attempts[p] # NoRow
          /\ attempts[p].order = x /\ attempts[p].receipt = orders[x].receipt
          /\ attempts[p].accounting \in {"APPLIED", "REFUNDED"}
    BY <1>2 DEF ReviewInv, AllOwned, Owned
  <2>3. attempts'[p] = attempts[p]
    <3>1. Outcome(o, p, several, applied, r) /\ attempts[p].accounting # "UNAPPLIED"
      BY <2>2 DEF RecordedFor
    <3> QED
      BY <2>2, <3>1, StaysAccounted DEF ReviewInv
  <2> QED
    BY <2>1, <2>2, <2>3 DEF Owned
<1>3. CASE orders[x] = NoRow \/ orders[x].receipt = Null
  <2>1. x = o /\ applied # {}
    <3>1. x = o
      BY <1>1, <1>3
    <3>2. orders[o].receipt = Null
      BY <1>3, <3>1 DEF RecordedFor
    <3>3. row.receipt # Null
      BY <1>1, <3>1 DEF RecordedFor
    <3> QED
      BY <3>1, <3>2, <3>3 DEF RecordedFor, Decided
  <2>2. row.receipt = r /\ applied = {row.payment}
    BY <2>1 DEF RecordedFor, Decided
  <2>3. PICK p \in Payments : p = row.payment /\ p \in applied
    BY <2>2 DEF RecordedFor
  <2>4. /\ attempts'[p] # NoRow /\ attempts'[p].order = o /\ attempts'[p].receipt = r
        /\ attempts'[p].accounting = "APPLIED"
    <3>1. Outcome(o, p, several, applied, r)
      BY DEF RecordedFor
    <3> QED
      BY <2>3, <3>1 DEF Outcome
  <2>5. orders'[x].receipt = r /\ orders'[x].payment = p
    BY <1>1, <2>1, <2>2, <2>3 DEF RecordedFor
  <2> QED
    BY <2>1, <2>3, <2>4, <2>5 DEF Owned
<1> QED
  BY <1>2, <1>3

LEMMA RecordedSetsOf ==
  ASSUME RowsInv, ReviewInv, NEW o, NEW several, NEW applied, NEW r, NEW row, NEW new,
         RecordedFor(o, several, applied, r, row, new)
  PROVE  /\ \A x \in Orders \ {o} : AppliedTo(x)' = AppliedTo(x) /\ ReviewedOf(x)' = ReviewedOf(x)
         /\ AppliedTo(o)' = AppliedTo(o) \cup applied
         /\ ReviewedOf(o)' = ReviewedOf(o) \cup several
         /\ \A x \in Orders : RefundedOf(x)' = RefundedOf(x)
<1>1. \A x \in Orders : RefundedOf(x)' = RefundedOf(x)
  BY RecordedRefunds DEF RecordedFor, ReviewInv
<1>2. /\ o \in Orders /\ several \cup applied \subseteq Payments /\ several \cap applied = {}
      /\ \A q \in Payments : Outcome(o, q, several, applied, r)
  BY DEF RecordedFor
<1>3. /\ \A x \in Orders \ {o} : AppliedTo(x)' = AppliedTo(x) /\ ReviewedOf(x)' = ReviewedOf(x)
      /\ AppliedTo(o)' = AppliedTo(o) \cup applied
      /\ ReviewedOf(o)' = ReviewedOf(o) \cup several
  BY <1>2, RecordedSets
<1> QED
  BY <1>1, <1>3

LEMMA OtherOrdersStand ==
  ASSUME RowsInv, ReviewInv, NEW o, NEW several, NEW applied, NEW r, NEW row, NEW new,
         RecordedFor(o, several, applied, r, row, new), NEW x \in Orders \ {o}
  PROVE  Standing(x)'
<1>1. orders'[x] = orders[x] /\ Standing(x)
  BY DEF RecordedFor, RowsInv, TablesTyped, ReviewInv, AllStanding
<1>2. AppliedTo(x)' = AppliedTo(x) /\ ReviewedOf(x)' = ReviewedOf(x) /\ RefundedOf(x)' = RefundedOf(x)
  BY RecordedSetsOf
<1>3. ASSUME orders[x] # NoRow, IsReversed(orders[x].receipt)
      PROVE  IsReversed(orders[x].receipt)'
  <2>1. ReceiptsMove(applied)
    BY WrittenReceipts DEF RecordedFor, ReviewInv
  <2>2. receipts'[orders[x].receipt].status = "REVERSED"
    BY <1>3, <2>1, StillReversed DEF RowsInv, ReviewInv
  <2> QED
    BY <1>1, <1>3, <2>2 DEF IsReversed
<1> QED
  BY <1>1, <1>2, <1>3 DEF Standing

LEMMA RecordedOrderStands ==
  ASSUME RowsInv, ReviewInv, NEW o, NEW several, NEW applied, NEW r, NEW row, NEW new,
         RecordedFor(o, several, applied, r, row, new)
  PROVE  Standing(o)'
<1>1. /\ orders'[o] = new /\ o \in Orders /\ orders[o] # NoRow
      /\ new.receipt = row.receipt
      /\ new.status = "PAID" <=> row.status = "PAID"
      /\ new.status = "REVIEW_REQUIRED" <=> row.status = "REVIEW_REQUIRED"
      /\ new.status = "REFUNDED" <=> row.status = "REFUNDED"
      /\ (row.review /\ ReviewedOf(o)' # {}) => new.review
  BY DEF RecordedFor, RowsInv, TablesTyped
<1>2. /\ AppliedTo(o)' = AppliedTo(o) \cup applied /\ ReviewedOf(o)' = ReviewedOf(o) \cup several
      /\ RefundedOf(o)' = RefundedOf(o)
  BY <1>1, RecordedSetsOf
<1>3. SUFFICES ASSUME ~ IsReversed(orders[o].receipt)' PROVE Standing(o)'
  BY DEF Standing
<1>4. ~ IsReversed(orders[o].receipt)
  <2>1. SUFFICES ASSUME IsReversed(orders[o].receipt) PROVE FALSE
    OBVIOUS
  <2>2. ReceiptsMove(applied)
    BY WrittenReceipts DEF RecordedFor, ReviewInv
  <2>3. receipts'[orders[o].receipt].status = "REVERSED" /\ orders[o].receipt # Null
    BY <1>1, <2>1, <2>2, StillReversed DEF RowsInv, ReviewInv, IsReversed
  <2>4. orders'[o].receipt = orders[o].receipt
    BY <2>3, OrderKeepsReceipt
  <2> QED
    BY <1>3, <2>3, <2>4 DEF IsReversed
<1>5. /\ orders[o].status = "PAID" <=> AppliedTo(o) # {}
      /\ orders[o].status = "REVIEW_REQUIRED" <=> (AppliedTo(o) = {} /\ ReviewedOf(o) # {})
      /\ orders[o].status = "REFUNDED" <=>
           (AppliedTo(o) = {} /\ ReviewedOf(o) = {} /\ RefundedOf(o) # {})
      /\ ReviewedOf(o) # {} => orders[o].review
  BY <1>1, <1>4 DEF ReviewInv, AllStanding, Standing
<1> HIDE DEF AppliedTo, ReviewedOf, RefundedOf
<1>6. CASE applied # {}
  <2>1. /\ row.status = "PAID"
        /\ orders[o].status \notin {"PAID", "REVIEW_REQUIRED", "REFUNDED"}
        /\ several # {} => row.review
    BY <1>6 DEF RecordedFor, Decided
  <2>2. AppliedTo(o)' # {} /\ ReviewedOf(o)' = several
    BY <1>2, <1>5, <1>6, <2>1
  <2> QED
    BY <1>1, <2>1, <2>2 DEF Standing
<1>7. CASE applied = {} /\ several # {}
  <2>1. /\ row.status = IF orders[o].status = "PAID" THEN "PAID" ELSE "REVIEW_REQUIRED"
        /\ row.review
    BY <1>7 DEF RecordedFor, Decided
  <2>2. AppliedTo(o)' = AppliedTo(o) /\ ReviewedOf(o)' # {}
    BY <1>2, <1>7
  <2> QED
    BY <1>1, <1>5, <2>1, <2>2 DEF Standing
<1>8. CASE applied = {} /\ several = {}
  <2>1. row = orders[o]
    BY <1>8 DEF RecordedFor, Decided
  <2>2. AppliedTo(o)' = AppliedTo(o) /\ ReviewedOf(o)' = ReviewedOf(o)
    BY <1>2, <1>8
  <2> QED
    BY <1>1, <1>2, <1>5, <2>1, <2>2 DEF Standing
<1> QED
  BY <1>6, <1>7, <1>8

LEMMA ReviewRecorded ==
  ASSUME RowsInv, ReviewInv, NEW c \in Procs, RecordsMoney(c)
  PROVE  ReviewInv'
<1>1. PICK o, several, applied, r, row, new : RecordedFor(o, several, applied, r, row, new)
  BY RecordingIsKnown
<1>2. ReceiptKeys'
  BY <1>1, WrittenReceipts DEF RecordedFor, ReviewInv
<1>3. AllBooked' /\ AllOwned'
  BY <1>1, RecordedIsBooked, RecordedIsOwned
<1>4. AllStanding'
  BY <1>1, OtherOrdersStand, RecordedOrderStands DEF AllStanding
<1> QED
  BY <1>2, <1>3, <1>4 DEF ReviewInv

\* Whatever the gateway, customers, the worker and staff at the invoice do.
LEMMA ReviewGateway ==
  ASSUME RowsInv, ReviewInv, [GNext]_gVars
  PROVE  ReviewInv'
  BY MoneyMoves, ReviewUnmoved, ReviewRecorded, ReviewSettle

-----------------------------------------------------------------------------
(* Decisions of the staff *)

AsDecided(row, accounting, r) == [row EXCEPT !.accounting = accounting, !.receipt = r]
AsRuled(row, status, mark, r, p) ==
  [row EXCEPT !.status = status, !.review = mark, !.receipt = r, !.payment = p]

LEMMA DecidedRow ==
  ASSUME NEW row \in AttemptRow, NEW accounting \in {"APPLIED", "REFUNDED"},
         NEW r \in Receipts \cup {Null}
  PROVE  LET n == AsDecided(row, accounting, r) IN
         /\ n \in AttemptRow /\ n.accounting = accounting /\ n.receipt = r
         /\ n.status = row.status /\ n.order = row.order /\ n.amount = row.amount
         /\ n.currency = row.currency
<1> DEFINE m == [row EXCEPT !.accounting = accounting]
           n == AsDecided(row, accounting, r)
<1>1. /\ m \in AttemptRow /\ m.accounting = accounting
      /\ m.status = row.status /\ m.order = row.order /\ m.amount = row.amount
      /\ m.currency = row.currency
  BY DEF AttemptRow
<1>2. n = [m EXCEPT !.receipt = r]
  BY DEF AsDecided
<1> HIDE DEF m, n
<1>3. /\ n \in AttemptRow /\ n.accounting = accounting /\ n.receipt = r
      /\ n.status = row.status /\ n.order = row.order /\ n.amount = row.amount
      /\ n.currency = row.currency
  BY <1>1, <1>2 DEF AttemptRow
<1> QED
  BY <1>3 DEF n

\* What a decision makes of the payment p and of its order o.
DecidedFor(o, p, accounting, r) ==
  /\ attempts[p] # NoRow /\ attempts[p].order = o /\ o \in Orders /\ orders[o] # NoRow
  /\ attempts' \in [Payments -> AttemptRow \cup {NoRow}]
  /\ attempts'[p] # NoRow /\ attempts'[p].order = o /\ attempts'[p].status = "SUCCESS"
  /\ attempts'[p].accounting = accounting /\ attempts'[p].receipt = r
  /\ attempts'[p].amount = attempts[p].amount /\ attempts'[p].currency = attempts[p].currency
  /\ \A q \in Payments \ {p} : attempts'[q] = attempts[q]
  /\ orders' \in [Orders -> OrderRow \cup {NoRow}]
  /\ orders'[o] # NoRow
  /\ orders'[o].status = NextStatus(p, accounting) /\ orders'[o].review = Marked(p)
  /\ orders'[o].receipt = IF accounting = "APPLIED" THEN r ELSE orders[o].receipt
  /\ orders'[o].payment = IF accounting = "APPLIED" THEN p ELSE orders[o].payment
  /\ \A x \in Orders \ {o} : orders'[x] = orders[x]
  /\ UNCHANGED <<booking, procs, gateway>>

LEMMA DecideWrites ==
  ASSUME RowsInv, NEW s, NEW p \in Payments, NEW key, NEW action,
         NEW accounting \in {"APPLIED", "REFUNDED"}, NEW r \in Receipts \cup {Null}, NEW reference,
         Reviewable(p), Decide(s, p, key, action, accounting, r, reference)
  PROVE  DecidedFor(attempts[p].order, p, accounting, r)
<1> DEFINE o == attempts[p].order
           n == AsDecided(attempts[p], accounting, r)
           status == NextStatus(p, accounting)
           mark == Marked(p)
           receipt == IF accounting = "APPLIED" THEN r ELSE orders[o].receipt
           payment == IF accounting = "APPLIED" THEN p ELSE orders[o].payment
           m == AsRuled(orders[o], status, mark, receipt, payment)
<1>1. attempts[p] # NoRow /\ attempts[p].status = "SUCCESS" /\ attempts[p] \in AttemptRow
  BY RowsOfTables DEF Reviewable, RowsInv
<1>2. o \in Orders /\ orders[o] # NoRow /\ orders[o] \in OrderRow
  <2>1. o \in Orders /\ orders[o] # NoRow
    BY <1>1 DEF RowsInv, PaymentsKnown, AttemptRow
  <2> QED
    BY <2>1, RowsOfTables DEF RowsInv
<1>3. /\ attempts' = [attempts EXCEPT ![p].accounting = accounting, ![p].receipt = r]
      /\ UNCHANGED <<booking, procs, gateway>>
  BY DEF Decide
<1>4. orders' = [orders EXCEPT ![o] = m]
  <2>1. orders' = [orders EXCEPT ![o] =
            [orders[o] EXCEPT !.status = NextStatus(p, accounting), !.review = Marked(p),
               !.receipt = IF accounting = "APPLIED" THEN r ELSE orders[o].receipt,
               !.payment = IF accounting = "APPLIED" THEN p ELSE orders[o].payment]]
    BY Zenon DEF Decide
  <2> QED
    BY <2>1, Zenon DEF AsRuled
<1>5. attempts' = [attempts EXCEPT ![p] = n]
  BY <1>1, <1>3 DEF AsDecided, RowsInv, TablesTyped
<1>6. /\ n \in AttemptRow /\ n.accounting = accounting /\ n.receipt = r
      /\ n.status = "SUCCESS" /\ n.order = o /\ n.amount = attempts[p].amount
      /\ n.currency = attempts[p].currency
  BY <1>1, DecidedRow
<1>7. /\ status \in {"PAID", "REVIEW_REQUIRED", "REFUNDED"} /\ mark \in BOOLEAN
      /\ receipt \in Receipts \cup {Null} /\ payment \in Payments \cup {Null}
  BY <1>2 DEF NextStatus, Marked, OrderRow
<1>8. /\ m \in OrderRow /\ m.status = status /\ m.review = mark
      /\ m.receipt = receipt /\ m.payment = payment
  <2> HIDE DEF status, mark, receipt, payment
  <2>1. PICK row, st, rv, rr, pp :
          /\ row = orders[o] /\ st = status /\ rv = mark /\ rr = receipt /\ pp = payment
    OBVIOUS
  <2>2. m = AsRuled(row, st, rv, rr, pp)
    BY <2>1 DEF m
  <2> HIDE DEF m, o
  <2>3. /\ row \in OrderRow /\ st \in {"PAID", "REVIEW_REQUIRED", "REFUNDED"}
        /\ rv \in {TRUE, FALSE} /\ rr \in Receipts \cup {Null} /\ pp \in Payments \cup {Null}
    BY <1>2, <1>7, <2>1
  <2>4. /\ m \in OrderRow /\ m.status = st /\ m.review = rv
        /\ m.receipt = rr /\ m.payment = pp
    <3> DEFINE a == [row EXCEPT !.status = st]
               b == [a EXCEPT !.review = rv]
               c == [b EXCEPT !.receipt = rr]
    <3>1. a \in OrderRow /\ a.status = st
      BY <2>3 DEF OrderRow
    <3>2. m = [c EXCEPT !.payment = pp]
      BY <2>2 DEF AsRuled
    <3> HIDE DEF a
    <3>3. b \in OrderRow /\ b.status = st /\ b.review = rv
      BY <2>3, <3>1 DEF OrderRow
    <3> HIDE DEF b
    <3>4. c \in OrderRow /\ c.status = st /\ c.review = rv /\ c.receipt = rr
      BY <2>3, <3>3 DEF OrderRow
    <3> HIDE DEF c
    <3> QED
      BY <2>3, <3>2, <3>4 DEF OrderRow
  <2> QED
    BY <2>1, <2>4
<1> HIDE DEF status, mark, receipt, payment
<1> HIDE DEF n, m
<1>9. /\ attempts' \in [Payments -> AttemptRow \cup {NoRow}] /\ attempts'[p] = n
      /\ \A q \in Payments \ {p} : attempts'[q] = attempts[q]
  BY <1>5, <1>6 DEF RowsInv, TablesTyped
<1>10. /\ orders' \in [Orders -> OrderRow \cup {NoRow}] /\ orders'[o] = m
       /\ \A x \in Orders \ {o} : orders'[x] = orders[x]
  BY <1>2, <1>4, <1>8 DEF RowsInv, TablesTyped
<1>11. n # NoRow /\ m # NoRow
  BY <1>6, <1>8, RowsAreNotNoRow
<1> QED
  BY <1>1, <1>2, <1>3, <1>6, <1>8, <1>9, <1>10, <1>11
     DEF DecidedFor, status, mark, receipt, payment

LEMMA DecidedKeepsRows ==
  ASSUME RowsInv, TypeOK', NEW o, NEW p \in Payments, NEW accounting, NEW r,
         DecidedFor(o, p, accounting, r)
  PROVE  RowsInv'
<1>1. TablesTyped'
  BY DEF RowsInv, TablesTyped, DecidedFor, gateway
<1>2. Grows
  BY DEF Grows, DecidedFor, gateway
<1>3. PaymentsKnown'
  <2>1. \A q \in Payments : payments[q] # NoRow => orders'[payments[q].order] # NoRow
    <3>1. ASSUME NEW q \in Payments, payments[q] # NoRow
          PROVE  payments[q].order \in Orders /\ orders[payments[q].order] # NoRow
      BY <3>1, RowsOfTables DEF RowsInv, PaymentsKnown, PaymentRow
    <3> QED
      BY <1>2, <3>1 DEF Grows
  <2>2. \A q \in Payments : attempts'[q] # NoRow =>
          payments[q] # NoRow /\ payments[q].order = attempts'[q].order
    BY DEF RowsInv, PaymentsKnown, DecidedFor
  <2> QED
    BY <2>1, <2>2 DEF PaymentsKnown, DecidedFor, gateway
<1>4. ProcessesFit'
  BY <1>2, AllStillFit DEF DecidedFor
<1> QED
  BY <1>1, <1>3, <1>4 DEF RowsInv

\* The payments of the orders after the decision.
LEMMA DecidedSets ==
  ASSUME NEW o, NEW p \in Payments, NEW accounting \in {"APPLIED", "REFUNDED"}, NEW r,
         DecidedFor(o, p, accounting, r)
  PROVE  /\ \A x \in Orders \ {o} :
              /\ AppliedTo(x)' = AppliedTo(x) /\ ReviewedOf(x)' = ReviewedOf(x)
              /\ RefundedOf(x)' = RefundedOf(x)
         /\ AppliedTo(o)' = IF accounting = "APPLIED" THEN AppliedTo(o) \cup {p} ELSE AppliedTo(o) \ {p}
         /\ ReviewedOf(o)' = ReviewedOf(o) \ {p}
         /\ accounting = "REFUNDED" => p \in RefundedOf(o)'
<1>1. /\ attempts[p] # NoRow /\ attempts[p].order = o
      /\ attempts'[p] # NoRow /\ attempts'[p].order = o /\ attempts'[p].accounting = accounting
      /\ \A q \in Payments \ {p} : attempts'[q] = attempts[q]
  BY DEF DecidedFor
<1>2. ASSUME NEW q \in Payments, NEW x \in Orders \ {o}
      PROVE  /\ q \in AppliedTo(x)' <=> q \in AppliedTo(x)
             /\ q \in ReviewedOf(x)' <=> q \in ReviewedOf(x)
             /\ q \in RefundedOf(x)' <=> q \in RefundedOf(x)
  <2>1. CASE q = p
    BY <1>1, <2>1 DEF AppliedTo, ReviewedOf, RefundedOf, AttemptsOf, Of
  <2>2. CASE q # p
    BY <1>1, <2>2 DEF AppliedTo, ReviewedOf, RefundedOf, AttemptsOf, Of
  <2> QED
    BY <2>1, <2>2
<1>3. ASSUME NEW q \in Payments
      PROVE  /\ q \in AppliedTo(o)' <=>
                  q \in IF accounting = "APPLIED" THEN AppliedTo(o) \cup {p} ELSE AppliedTo(o) \ {p}
             /\ q \in ReviewedOf(o)' <=> q \in ReviewedOf(o) \ {p}
  <2>1. CASE q = p
    BY <1>1, <2>1 DEF AppliedTo, ReviewedOf, AttemptsOf, Of
  <2>2. CASE q # p
    BY <1>1, <2>2 DEF AppliedTo, ReviewedOf, AttemptsOf, Of
  <2> QED
    BY <2>1, <2>2
<1>4. accounting = "REFUNDED" => p \in RefundedOf(o)'
  BY <1>1 DEF RefundedOf, AttemptsOf, Of
<1>5. \A x : /\ AppliedTo(x) \subseteq Payments /\ AppliedTo(x)' \subseteq Payments
             /\ ReviewedOf(x) \subseteq Payments /\ ReviewedOf(x)' \subseteq Payments
             /\ RefundedOf(x) \subseteq Payments /\ RefundedOf(x)' \subseteq Payments
  BY DEF AppliedTo, ReviewedOf, RefundedOf, AttemptsOf, Of
<1>6. \A x \in Orders \ {o} :
        /\ AppliedTo(x)' = AppliedTo(x) /\ ReviewedOf(x)' = ReviewedOf(x)
        /\ RefundedOf(x)' = RefundedOf(x)
  BY <1>2, <1>5
<1>7. /\ AppliedTo(o)' = IF accounting = "APPLIED" THEN AppliedTo(o) \cup {p} ELSE AppliedTo(o) \ {p}
      /\ ReviewedOf(o)' = ReviewedOf(o) \ {p}
  BY <1>3, <1>5
<1> QED
  BY <1>4, <1>6, <1>7
LEMMA OtherPaymentsBooked ==
  ASSUME RowsInv, ReviewInv, NEW o, NEW p \in Payments, NEW accounting \in {"APPLIED", "REFUNDED"},
         NEW r, DecidedFor(o, p, accounting, r), ReceiptsMove({p}),
         accounting = "APPLIED" => AppliedTo(o) = {},
         NEW q \in Payments \ {p}
  PROVE  Booked(q)'
<1> SUFFICES ASSUME attempts[q] # NoRow PROVE Booked(q)'
  BY DEF Booked, DecidedFor
<1>1. attempts'[q] = attempts[q] /\ Booked(q)
  BY DEF DecidedFor, ReviewInv, AllBooked
<1>2. attempts[q].accounting = "APPLIED" =>
        /\ orders'[attempts[q].order].receipt = orders[attempts[q].order].receipt
        /\ orders'[attempts[q].order].payment = orders[attempts[q].order].payment
  <2> SUFFICES ASSUME attempts[q].accounting = "APPLIED"
               PROVE  /\ orders'[attempts[q].order].receipt = orders[attempts[q].order].receipt
                      /\ orders'[attempts[q].order].payment = orders[attempts[q].order].payment
    OBVIOUS
  <2>1. attempts[q].order \in Orders
    BY RowsOfTables DEF RowsInv, AttemptRow
  <2>2. CASE attempts[q].order = o
    <3>1. q \in AppliedTo(o)
      BY <2>2 DEF AppliedTo, AttemptsOf, Of
    <3>2. accounting = "REFUNDED"
      BY <3>1
    <3> QED
      BY <2>2, <3>2 DEF DecidedFor
  <2>3. CASE attempts[q].order # o
    BY <2>1, <2>3 DEF DecidedFor
  <2> QED
    BY <2>2, <2>3
<1>3. attempts[q].receipt # Null =>
        receipts'[attempts[q].receipt] # NoRow /\ receipts'[attempts[q].receipt].key = q
  BY BookedReceipt DEF ReceiptsMove, RowsInv, ReviewInv
<1>4. ASSUME attempts[q].accounting = "REFUNDED",
             NEW x \in Receipts, receipts'[x] # NoRow, receipts'[x].key = q
      PROVE  receipts'[x].status = "REVERSED"
  <2>1. receipts[x] # NoRow
    BY <1>4 DEF ReceiptsMove
  <2>2. receipts[x].key = q
    BY <1>4, <2>1 DEF ReceiptsMove
  <2>3. receipts[x].status = "REVERSED"
    BY <1>1, <1>4, <2>1, <2>2 DEF Booked
  <2> QED
    BY <2>1, <2>3 DEF ReceiptsMove
<1> QED
  BY <1>1, <1>2, <1>3, <1>4 DEF Booked

LEMMA OtherOrdersOwned ==
  ASSUME RowsInv, ReviewInv, NEW o, NEW p \in Payments, NEW accounting, NEW r,
         DecidedFor(o, p, accounting, r), NEW x \in Orders \ {o}
  PROVE  Owned(x)'
<1> SUFFICES ASSUME orders[x] # NoRow, orders[x].receipt # Null PROVE Owned(x)'
  BY DEF Owned, DecidedFor
<1>1. /\ orders'[x] = orders[x] /\ attempts[p].order = o
      /\ \A q \in Payments \ {p} : attempts'[q] = attempts[q]
  BY DEF DecidedFor
<1>2. PICK q : q = orders[x].payment
  OBVIOUS
<1>3. /\ q \in Payments /\ attempts[q] # NoRow
      /\ attempts[q].order = x /\ attempts[q].receipt = orders[x].receipt
      /\ attempts[q].accounting \in {"APPLIED", "REFUNDED"}
  BY <1>2 DEF ReviewInv, AllOwned, Owned
<1>4. q # p /\ attempts'[q] = attempts[q]
  BY <1>1, <1>3
<1> QED
  BY <1>1, <1>2, <1>3, <1>4 DEF Owned

LEMMA OtherOrdersStanding ==
  ASSUME RowsInv, ReviewInv, NEW o, NEW p \in Payments, NEW accounting \in {"APPLIED", "REFUNDED"},
         NEW r, DecidedFor(o, p, accounting, r), ReceiptsMove({p}), NEW x \in Orders \ {o}
  PROVE  Standing(x)'
<1> SUFFICES ASSUME orders[x] # NoRow, ~ IsReversed(orders[x].receipt)' PROVE Standing(x)'
  BY DEF Standing, DecidedFor
<1>1. orders'[x] = orders[x]
  BY DEF DecidedFor
<1>2. ~ IsReversed(orders[x].receipt)
  <2>1. SUFFICES ASSUME IsReversed(orders[x].receipt) PROVE FALSE
    OBVIOUS
  <2>2. receipts'[orders[x].receipt].status = "REVERSED" /\ orders[x].receipt # Null
    BY <2>1, StillReversed DEF RowsInv, ReviewInv, IsReversed
  <2> QED
    BY <1>1, <2>2 DEF IsReversed
<1>3. /\ AppliedTo(x)' = AppliedTo(x) /\ ReviewedOf(x)' = ReviewedOf(x)
      /\ RefundedOf(x)' = RefundedOf(x)
  <2>1. \A y \in Orders \ {o} :
              /\ AppliedTo(y)' = AppliedTo(y) /\ ReviewedOf(y)' = ReviewedOf(y)
              /\ RefundedOf(y)' = RefundedOf(y)
    <3>1. CASE accounting = "APPLIED"
      BY <3>1, DecidedSets
    <3>2. CASE accounting = "REFUNDED"
      BY <3>2, DecidedSets
    <3> QED
      BY <3>1, <3>2
  <2> QED
    BY <2>1
<1>4. Standing(x)
  BY DEF ReviewInv, AllStanding
<1> QED
  BY <1>1, <1>2, <1>3, <1>4 DEF Standing

\* A payment that is put on its invoice, on a new receipt or on one that was there.
LEMMA ReviewApplied ==
  ASSUME RowsInv, ReviewInv, NEW o, NEW p \in Payments, NEW r \in Receipts,
         DecidedFor(o, p, "APPLIED", r), Accountable(p),
         ReceiptKeys', ReceiptsMove({p}), receipts'[r] # NoRow, receipts'[r].key = p
  PROVE  ReviewInv'
<1>1. /\ attempts[p].order = o /\ o \in Orders
      /\ attempts'[p] # NoRow /\ attempts'[p].order = o /\ attempts'[p].status = "SUCCESS"
      /\ attempts'[p].accounting = "APPLIED" /\ attempts'[p].receipt = r
      /\ attempts'[p].currency = "INR"
      /\ orders'[o] # NoRow /\ orders'[o].status = NextStatus(p, "APPLIED")
      /\ orders'[o].receipt = r /\ orders'[o].payment = p
  BY DEF DecidedFor, Accountable
<1>2. AppliedTo(o) = {}
  BY <1>1 DEF Accountable, AppliedTo
<1>3. r # Null
  BY GatewayAssumption
<1>4. AllBooked'
  <2>1. Booked(p)'
    BY <1>1, <1>3 DEF Booked
  <2> QED
    BY <1>2, <2>1, OtherPaymentsBooked DEF AllBooked
<1>5. AllOwned'
  <2>1. Owned(o)'
    BY <1>1 DEF Owned
  <2> QED
    BY <2>1, OtherOrdersOwned DEF AllOwned
<1>6. Standing(o)'
  <2>1. p \in AppliedTo(o)' /\ ReviewedOf(o)' = ReviewedOf(o) \ {p}
    BY DecidedSets
  <2>2. ASSUME NEW q \in ReviewedOf(o), q # p PROVE FALSE
    <3>1. q \in Payments /\ attempts[q] # NoRow /\ attempts[q].accounting = "REVIEW_REQUIRED"
          /\ q \in Others(p)
      BY <1>1, <2>2 DEF ReviewedOf, AttemptsOf, Of, Others
    <3>2. attempts[q].status = "SUCCESS"
      BY <3>1 DEF ReviewInv, AllBooked, Booked
    <3> QED
      BY <3>1, <3>2 DEF Accountable
  <2>3. ReviewedOf(o)' = {}
    BY <2>1, <2>2
  <2>4. orders'[o].status = "PAID"
    BY <1>1 DEF NextStatus
  <2> QED
    BY <2>1, <2>3, <2>4 DEF Standing
<1>7. AllStanding'
  BY <1>6, OtherOrdersStanding DEF AllStanding
<1> QED
  BY <1>4, <1>5, <1>7 DEF ReviewInv

\* An order whose receipt counts has a payment on it: the one that receipt is of.
LEMMA ReceiptCounts ==
  ASSUME RowsInv, ReviewInv, NEW o \in Orders, orders[o] # NoRow,
         orders[o].receipt # Null, ~ IsReversed(orders[o].receipt)
  PROVE  orders[o].payment \in AppliedTo(o)
<1>1. PICK q : q = orders[o].payment
  OBVIOUS
<1>2. /\ q \in Payments /\ attempts[q] # NoRow
      /\ attempts[q].order = o /\ attempts[q].receipt = orders[o].receipt
      /\ attempts[q].accounting \in {"APPLIED", "REFUNDED"}
  BY <1>1 DEF ReviewInv, AllOwned, Owned
<1>3. /\ attempts[q].receipt \in Receipts /\ receipts[attempts[q].receipt] # NoRow
      /\ receipts[attempts[q].receipt].key = q
  BY <1>2, BookedReceipt DEF RowsInv, ReviewInv
<1>4. attempts[q].accounting # "REFUNDED"
  BY <1>2, <1>3 DEF ReviewInv, AllBooked, Booked, IsReversed
<1> QED
  BY <1>1, <1>2, <1>4 DEF AppliedTo, AttemptsOf, Of

\* Of such an order, or one without a receipt, the open payments are those under review.
LEMMA OpenIsReviewed ==
  ASSUME ReviewInv, NEW p \in Payments, attempts[p] # NoRow,
         ~ IsReversed(orders[attempts[p].order].receipt)
  PROVE  Open(p) <=> attempts[p].accounting = "REVIEW_REQUIRED"
<1>1. attempts[p].accounting = "APPLIED" =>
        attempts[p].receipt # Null /\ orders[attempts[p].order].receipt = attempts[p].receipt
  BY DEF ReviewInv, AllBooked, Booked
<1> QED
  BY <1>1 DEF Open, Linked

\* A payment that is returned to the customer.
LEMMA ReviewRefunded ==
  ASSUME RowsInv, ReviewInv, NEW o, NEW p \in Payments,
         DecidedFor(o, p, "REFUNDED", attempts[p].receipt), CanRefund(p), UNCHANGED receipts
  PROVE  ReviewInv'
<1>1. /\ attempts[p] # NoRow /\ attempts[p].order = o /\ o \in Orders /\ orders[o] # NoRow
      /\ attempts'[p] # NoRow /\ attempts'[p].order = o /\ attempts'[p].status = "SUCCESS"
      /\ attempts'[p].accounting = "REFUNDED" /\ attempts'[p].receipt = attempts[p].receipt
      /\ \A q \in Payments \ {p} : attempts'[q] = attempts[q]
      /\ orders'[o] # NoRow /\ orders'[o].status = NextStatus(p, "REFUNDED")
      /\ orders'[o].review = Marked(p)
      /\ orders'[o].receipt = orders[o].receipt /\ orders'[o].payment = orders[o].payment
  BY DEF DecidedFor
<1>2. ReceiptKeys' /\ ReceiptsMove({})
  BY SameReceipts DEF ReviewInv
<1>3. ReceiptsMove({p})
  BY <1>2 DEF ReceiptsMove
<1>4. AllBooked'
  <2>1. \A r \in Receipts :
          (receipts[r] # NoRow /\ receipts[r].key = p) => receipts[r].status = "REVERSED"
    BY DEF CanRefund, Identity, IsReversed
  <2>2. Booked(p)
    BY DEF ReviewInv, AllBooked
  <2>3. Booked(p)'
    BY <1>1, <2>1, <2>2 DEF Booked
  <2> QED
    BY <1>3, <2>3, OtherPaymentsBooked DEF AllBooked
<1>5. AllOwned'
  <2>1. Owned(o)'
    <3> SUFFICES ASSUME orders[o].receipt # Null PROVE Owned(o)'
      BY <1>1 DEF Owned
    <3>1. PICK q : q = orders[o].payment
      OBVIOUS
    <3>2. /\ q \in Payments /\ attempts[q] # NoRow
          /\ attempts[q].order = o /\ attempts[q].receipt = orders[o].receipt
          /\ attempts[q].accounting \in {"APPLIED", "REFUNDED"}
      BY <1>1, <3>1 DEF ReviewInv, AllOwned, Owned
    <3>3. CASE q = p
      BY <1>1, <3>1, <3>2, <3>3 DEF Owned
    <3>4. CASE q # p
      BY <1>1, <3>1, <3>2, <3>4 DEF Owned
    <3> QED
      BY <3>3, <3>4
  <2> QED
    BY <2>1, OtherOrdersOwned DEF AllOwned
<1>6. Standing(o)'
  <2> SUFFICES ASSUME ~ IsReversed(orders[o].receipt) PROVE Standing(o)'
    BY <1>1 DEF Standing, IsReversed
  <2>1. attempts[p].accounting = "REVIEW_REQUIRED"
    <3>1. Open(p)
      BY DEF CanRefund, Reviewable
    <3> QED
      BY <1>1, <3>1, OpenIsReviewed
  <2>2. AppliedTo(o)' = AppliedTo(o) \ {p} /\ ReviewedOf(o)' = ReviewedOf(o) \ {p}
        /\ p \in RefundedOf(o)'
    BY DecidedSets
  <2>3. p \notin AppliedTo(o)
    BY <2>1 DEF AppliedTo
  <2>4. ASSUME NEW q \in Others(p)
        PROVE  /\ Open(q) <=> q \in ReviewedOf(o)'
               /\ attempts[q].accounting = "APPLIED" <=> q \in AppliedTo(o)'
    <3>1. q \in Payments /\ q # p /\ attempts[q] # NoRow /\ attempts[q].order = o
      BY <1>1, <2>4 DEF Others, AttemptsOf, Of
    <3>2. Open(q) <=> attempts[q].accounting = "REVIEW_REQUIRED"
      BY <3>1, OpenIsReviewed
    <3>3. q \in ReviewedOf(o) <=> attempts[q].accounting = "REVIEW_REQUIRED"
      BY <3>1 DEF ReviewedOf, AttemptsOf, Of
    <3>4. q \in AppliedTo(o) <=> attempts[q].accounting = "APPLIED"
      BY <3>1 DEF AppliedTo, AttemptsOf, Of
    <3> QED
      BY <2>2, <3>1, <3>2, <3>3, <3>4
  <2>5. AppliedTo(o)' \subseteq Others(p) /\ ReviewedOf(o)' \subseteq Others(p)
    BY <1>1, <2>2 DEF AppliedTo, ReviewedOf, Others
  <2>6. (\E q \in Others(p) : Open(q)) <=> ReviewedOf(o)' # {}
    BY <2>4, <2>5
  <2>7. (\E q \in Others(p) : attempts[q].accounting = "APPLIED") <=> AppliedTo(o)' # {}
    BY <2>4, <2>5
  <2>8. (orders[o].receipt # Null /\ orders[o].payment # p) => AppliedTo(o)' # {}
    <3>1. orders[o].receipt # Null => orders[o].payment \in AppliedTo(o)
      BY <1>1, ReceiptCounts
    <3> QED
      BY <2>2, <2>3, <3>1
  <2>9. orders'[o].status =
          IF AppliedTo(o)' # {} THEN "PAID"
          ELSE IF ReviewedOf(o)' # {} THEN "REVIEW_REQUIRED" ELSE "REFUNDED"
    BY <1>1, <2>6, <2>7, <2>8 DEF NextStatus
  <2>10. ReviewedOf(o)' # {} => orders'[o].review
    BY <1>1, <2>6 DEF Marked
  <2>11. RefundedOf(o)' # {}
    BY <2>2
  <2> QED
    BY <2>9, <2>10, <2>11 DEF Standing
<1>7. AllStanding'
  BY <1>3, <1>6, OtherOrdersStanding DEF AllStanding
<1> QED
  BY <1>2, <1>4, <1>5, <1>7 DEF ReviewInv
-----------------------------------------------------------------------------
(* The steps of the staff, and the rows of earlier releases *)

LEMMA OnlyReceiptsChange ==
  ASSUME RowsInv, TypeOK', UNCHANGED <<booking, orders, attempts, procs, gateway>>
  PROVE  RowsInv'
<1>1. TablesTyped' /\ PaymentsKnown'
  BY DEF RowsInv, TablesTyped, PaymentsKnown, gateway
<1>2. Grows
  BY DEF Grows, gateway
<1>3. ProcessesFit'
  BY <1>2, AllStillFit
<1> QED
  BY <1>1, <1>3 DEF RowsInv

\* A receipt of the gateway for what is known to have been paid.
LEMMA GatewayReceiptWritten ==
  ASSUME RowsInv, ReceiptKeys, NEW r \in Receipts, NEW p \in Payments, attempts[p] # NoRow,
         attempts[p].amount # 0, GatewayReceipt(r, p, attempts[p].amount)
  PROVE  /\ TypeOK' /\ ReceiptKeys' /\ ReceiptsMove({p})
         /\ receipts'[r] # NoRow /\ receipts'[r].key = p
<1>1. PICK d \in Dates :
        CreateReceipt(r, Invoice, d, attempts[p].amount, "GATEWAY", "CONFIRMED", p)
  BY DEF GatewayReceipt
<1>2. attempts[p].amount \in 1 .. MaxMinor
  BY RowsOfTables DEF RowsInv, AttemptRow
<1>3. /\ p \in Keys /\ Invoice \in Invoices
      /\ "GATEWAY" \in {"MANUAL", "GATEWAY"} /\ "CONFIRMED" \in {"PENDING", "CONFIRMED"}
  BY GatewayAssumption
<1>4. TypeOK
  BY DEF RowsInv
<1>5. TypeOK'
  BY <1>1, <1>2, <1>3, <1>4, CreateReceiptTyped
<1>6. /\ ReceiptKeys' /\ ReceiptsMove({p})
      /\ receipts'[r] # NoRow /\ receipts'[r].key = p
  BY <1>1, <1>4, ReceiptCreated
<1> QED
  BY <1>5, <1>6

LEMMA ReviewApply ==
  ASSUME RowsInv, ReviewInv, NEW s, NEW p \in Payments, NEW key, NEW r \in Receipts,
         ApplyReviewed(s, p, key, r)
  PROVE  RowsInv' /\ ReviewInv'
<1>1. /\ Reviewable(p) /\ Accountable(p) /\ GatewayReceipt(r, p, attempts[p].amount)
      /\ Decide(s, p, key, "APPLY", "APPLIED", r, Null)
  BY DEF ApplyReviewed, CanApply
<1>2. DecidedFor(attempts[p].order, p, "APPLIED", r)
  BY <1>1, DecideWrites
<1>3. /\ TypeOK' /\ ReceiptKeys' /\ ReceiptsMove({p})
      /\ receipts'[r] # NoRow /\ receipts'[r].key = p
  BY <1>1, GatewayReceiptWritten DEF Reviewable, ReviewInv
<1>4. RowsInv'
  BY <1>2, <1>3, DecidedKeepsRows
<1>5. ReviewInv'
  BY <1>1, <1>2, <1>3, ReviewApplied
<1> QED
  BY <1>4, <1>5

LEMMA ReviewLink ==
  ASSUME RowsInv, ReviewInv, NEW s, NEW p \in Payments, NEW key, NEW r \in Receipts,
         LinkReceipt(s, p, key, r)
  PROVE  RowsInv' /\ ReviewInv'
<1>1. /\ Reviewable(p) /\ Accountable(p) /\ r \in Matching(p)
      /\ Decide(s, p, key, "LINK", "APPLIED", r, Null) /\ UNCHANGED vars
  BY DEF LinkReceipt, CanLink
<1>2. DecidedFor(attempts[p].order, p, "APPLIED", r)
  BY <1>1, DecideWrites
<1>3. TypeOK' /\ UNCHANGED receipts
  BY <1>1, StepTyped DEF RowsInv, vars, billing
<1>4. ReceiptKeys' /\ ReceiptsMove({})
  BY <1>3, SameReceipts DEF ReviewInv
<1>5. ReceiptsMove({p})
  BY <1>4 DEF ReceiptsMove
<1>6. receipts'[r] # NoRow /\ receipts'[r].key = p
  BY <1>1, <1>3 DEF Matching, Identity
<1>7. RowsInv'
  BY <1>2, <1>3, DecidedKeepsRows
<1>8. ReviewInv'
  BY <1>1, <1>2, <1>4, <1>5, <1>6, ReviewApplied
<1> QED
  BY <1>7, <1>8

LEMMA ReviewRefund ==
  ASSUME RowsInv, ReviewInv, NEW s, NEW p \in Payments, NEW key, NEW reference,
         RecordRefund(s, p, key, reference)
  PROVE  RowsInv' /\ ReviewInv'
<1>1. /\ CanRefund(p) /\ Reviewable(p)
      /\ Decide(s, p, key, "REFUND", "REFUNDED", attempts[p].receipt, reference)
      /\ UNCHANGED vars
  BY DEF RecordRefund, CanRefund
<1>2. attempts[p].receipt \in Receipts \cup {Null}
  BY <1>1, RowsOfTables DEF RowsInv, Reviewable, AttemptRow
<1>3. DecidedFor(attempts[p].order, p, "REFUNDED", attempts[p].receipt)
  BY <1>1, <1>2, DecideWrites
<1>4. TypeOK' /\ UNCHANGED receipts
  BY <1>1, StepTyped DEF RowsInv, vars, billing
<1>5. RowsInv'
  BY <1>3, <1>4, DecidedKeepsRows
<1>6. ReviewInv'
  BY <1>1, <1>3, <1>4, ReviewRefunded
<1> QED
  BY <1>5, <1>6

LEMMA ReviewOrphan ==
  ASSUME RowsInv, ReviewInv, NEW r \in Receipts, NEW p \in Payments, OrphanReceipt(r, p)
  PROVE  RowsInv' /\ ReviewInv'
<1>1. /\ attempts[p] # NoRow /\ attempts[p].accounting = "REVIEW_REQUIRED"
      /\ attempts[p].amount # 0 /\ GatewayReceipt(r, p, attempts[p].amount)
      /\ UNCHANGED <<booking, orders, attempts, procs, gateway>>
  BY DEF OrphanReceipt
<1>2. TypeOK' /\ ReceiptKeys' /\ ReceiptsMove({p})
  BY <1>1, GatewayReceiptWritten DEF ReviewInv
<1>3. KeepsMoney
  BY <1>1, SameOrdersKeepMoney
<1>4. \A q \in Payments : (q \in {p} /\ attempts[q] # NoRow) => attempts[q].accounting # "REFUNDED"
  BY <1>1
<1>5. ReviewInv'
  BY <1>1, <1>2, <1>3, <1>4, ReviewKept
<1> QED
  BY <1>1, <1>2, <1>5, OnlyReceiptsChange

LEMMA ReviewReversal ==
  ASSUME RowsInv, ReviewInv, NEW r \in Receipts, HistoricReversal(r)
  PROVE  RowsInv' /\ ReviewInv'
<1> DEFINE n == WithStatus(receipts[r], "REVERSED")
<1>1. /\ receipts[r].status = "CONFIRMED"
      /\ receipts' = [receipts EXCEPT ![r] = n]
      /\ UNCHANGED <<invoices, adjustments, counters, outbox, rate, seen>>
      /\ UNCHANGED <<booking, orders, attempts, procs, gateway>>
  BY DEF HistoricReversal, WithStatus
<1>2. receipts[r] \in ReceiptRow
  BY <1>1, RowsAreNotNoRow DEF RowsInv, TypeOK
<1>3. /\ n \in ReceiptRow /\ n # NoRow
      /\ n.status = "REVERSED" /\ n.key = receipts[r].key /\ n.method = receipts[r].method
  BY <1>2, StatusSet
<1> HIDE DEF n
<1>4. TypeOK'
  BY <1>1, <1>3 DEF RowsInv, TypeOK
<1>5. ReceiptKeys' /\ ReceiptsMove({})
  BY <1>1, <1>2, <1>3, OneReceiptChanged DEF RowsInv, ReviewInv
<1>6. ReviewInv'
  BY <1>1, <1>5, SameOrdersKeepMoney, ReviewKept
<1> QED
  BY <1>1, <1>4, <1>6, OnlyReceiptsChange

LEMMA ReviewStep ==
  ASSUME RowsInv, ReviewInv, [RNext]_rVars
  PROVE  RowsInv' /\ ReviewInv'
<1>1. ASSUME [GNext]_gVars PROVE RowsInv' /\ ReviewInv'
  BY <1>1, RowsStep, ReviewGateway
<1>2. ASSUME NEW s \in Reviewers, Review(s) PROVE RowsInv' /\ ReviewInv'
  <2>1. ASSUME NEW o \in Orders, Inspect(s, o) PROVE [GNext]_gVars
    BY <2>1 DEF Inspect
  <2>2. ASSUME NEW p \in Payments, NEW key \in DecisionKeys, NEW r \in Receipts,
               ApplyReviewed(s, p, key, r)
        PROVE  RowsInv' /\ ReviewInv'
    BY <2>2, ReviewApply
  <2>3. ASSUME NEW p \in Payments, NEW key \in DecisionKeys, NEW r \in Receipts,
               LinkReceipt(s, p, key, r)
        PROVE  RowsInv' /\ ReviewInv'
    BY <2>3, ReviewLink
  <2>4. ASSUME NEW p \in Payments, NEW key \in DecisionKeys, NEW reference \in References,
               RecordRefund(s, p, key, reference)
        PROVE  RowsInv' /\ ReviewInv'
    BY <2>4, ReviewRefund
  <2> QED
    BY <1>1, <1>2, <2>1, <2>2, <2>3, <2>4 DEF Review
<1>3. ASSUME NEW r \in Receipts, HistoricReversal(r) PROVE RowsInv' /\ ReviewInv'
  BY <1>3, ReviewReversal
<1>4. ASSUME NEW r \in Receipts, NEW p \in Payments, OrphanReceipt(r, p)
      PROVE  RowsInv' /\ ReviewInv'
  BY <1>4, ReviewOrphan
<1>5. CASE UNCHANGED rVars
  BY <1>1, <1>5 DEF rVars
<1> QED
  BY <1>1, <1>2, <1>3, <1>4, <1>5 DEF RNext

LEMMA ReviewInit ==
  ASSUME GInit
  PROVE  ReviewInv
<1>1. ReceiptKeys /\ AllBooked
  BY DEF GInit, ReceiptKeys, AllBooked, Booked
<1>2. \A o \in Orders : orders[o] # NoRow => orders[o].status = "READY" /\ orders[o].receipt = Null
  BY DEF GInit
<1>3. AllOwned
  BY <1>2 DEF AllOwned, Owned
<1>4. \A o \in Orders : AppliedTo(o) = {} /\ ReviewedOf(o) = {} /\ RefundedOf(o) = {}
  BY DEF GInit, AppliedTo, ReviewedOf, RefundedOf, AttemptsOf, Of
<1>5. AllStanding
  BY <1>2, <1>4 DEF AllStanding, Standing
<1> QED
  BY <1>1, <1>3, <1>5 DEF ReviewInv

-----------------------------------------------------------------------------
(* The theorems *)

\* Payments, receipts and orders agree whatever reconciliation and the staff decide, in whatever
\* order (resolve(), reconcile()).
THEOREM ReviewInvariant == RSpec => [](RowsInv /\ ReviewInv)
<1>1. RInit => RowsInv /\ ReviewInv
  BY RowsInit, ReviewInit DEF RInit
<1>2. RowsInv /\ ReviewInv /\ [RNext]_rVars => (RowsInv /\ ReviewInv)'
  BY ReviewStep
<1> QED
  BY <1>1, <1>2, PTL DEF RSpec

\* The money of a success is on the one receipt of its identity, with the staff, or returned, and
\* then no receipt counts it; an order has at most one payment on a receipt (resolve()).
THEOREM ReviewMoneyIsInOnePlace == RSpec => []MoneyIsInOnePlace
<1>1. ASSUME RowsInv, ReviewInv PROVE MoneyIsInOnePlace
  <2>1. ASSUME NEW p \in Payments, attempts[p] # NoRow, attempts[p].accounting = "REFUNDED",
               NEW r \in Receipts, receipts[r].status = "CONFIRMED"
        PROVE  receipts[r].key # p /\ attempts[p].receipt # r
    <3>1. receipts[r] # NoRow
      BY <2>1, RowsAreNotNoRow
    <3>2. receipts[r].key # p
      BY <1>1, <2>1, <3>1 DEF ReviewInv, AllBooked, Booked
    <3>3. attempts[p].receipt # Null => receipts[attempts[p].receipt].key = p
      BY <1>1, <2>1 DEF ReviewInv, AllBooked, Booked
    <3>4. r # Null
      BY GatewayAssumption
    <3> QED
      BY <3>2, <3>3, <3>4
  <2>2. ASSUME NEW p \in Payments, attempts[p] # NoRow, attempts[p].accounting = "APPLIED"
        PROVE  /\ attempts[p].currency = "INR"
               /\ receipts[attempts[p].receipt].key = p /\ Identity(p) = {attempts[p].receipt}
    <3>1. attempts[p].receipt # Null /\ attempts[p].currency = "INR"
      BY <1>1, <2>2 DEF ReviewInv, AllBooked, Booked
    <3>2. /\ attempts[p].receipt \in Receipts /\ receipts[attempts[p].receipt] # NoRow
          /\ receipts[attempts[p].receipt].key = p
      BY <1>1, <2>2, <3>1, BookedReceipt DEF RowsInv, ReviewInv
    <3>3. \A r \in Identity(p) : r = attempts[p].receipt
      BY <1>1, <3>2 DEF ReviewInv, ReceiptKeys, Identity
    <3>4. attempts[p].receipt \in Identity(p)
      BY <3>2 DEF Identity
    <3> QED
      BY <3>1, <3>2, <3>3, <3>4
  <2>3. ASSUME NEW p \in Payments, NEW q \in Payments, attempts[p] # NoRow, attempts[q] # NoRow,
               attempts[p].order = attempts[q].order,
               attempts[p].accounting = "APPLIED", attempts[q].accounting = "APPLIED"
        PROVE  p = q
    BY <1>1, <2>3 DEF ReviewInv, AllBooked, Booked
  <2> QED
    BY <2>1, <2>2, <2>3 DEF MoneyIsInOnePlace
<1>2. RowsInv /\ ReviewInv => MoneyIsInOnePlace
  BY <1>1
<1> QED
  BY <1>2, ReviewInvariant, PTL

\* The status of an order is what its payments make it, in whatever order they are observed and
\* decided about (the accounting status that resolve() gives the order).
THEOREM ReviewStatusFollowsDecisions == RSpec => []StatusFollowsDecisions
<1>1. ASSUME RowsInv, ReviewInv PROVE StatusFollowsDecisions
  <2>1. ASSUME NEW o \in Orders PROVE Standing(o)
    BY <1>1 DEF ReviewInv, AllStanding
  <2> QED
    BY <2>1 DEF StatusFollowsDecisions, Standing, AppliedTo, ReviewedOf, RefundedOf
<1>2. RowsInv /\ ReviewInv => StatusFollowsDecisions
  BY <1>1
<1> QED
  BY <1>2, ReviewInvariant, PTL

\* Staff can always close a case, except one with a receipt of an earlier release and a success of
\* zero (the actions that inspect() offers).
THEOREM ReviewHasNoDeadEnd == RSpec => []NoDeadEnd
<1>1. ASSUME RowsInv, ReviewInv PROVE NoDeadEnd
  <2> SUFFICES ASSUME NEW p \in Payments, attempts[p] # NoRow, Open(p), resolutions[p] = NoRow,
                      attempts[p].amount # 0, \A r \in Identity(p) : r = Linked(p)
               PROVE  CanRefund(p)
    BY DEF NoDeadEnd
  <2>1. Reviewable(p)
    <3>1. attempts[p].accounting \in {"REVIEW_REQUIRED", "APPLIED"}
      BY DEF Open
    <3>2. attempts[p].status = "SUCCESS"
      BY <1>1, <3>1 DEF ReviewInv, AllBooked, Booked
    <3> QED
      BY <3>2 DEF Reviewable
  <2>2. CASE attempts[p].accounting = "REVIEW_REQUIRED"
    <3>1. attempts[p].receipt = Null
      BY <1>1, <2>2 DEF ReviewInv, AllBooked, Booked
    <3>2. attempts[p].order \in Orders /\ orders[attempts[p].order] # NoRow
      BY <1>1, RowsOfTables DEF RowsInv, PaymentsKnown, AttemptRow
    <3>3. orders[attempts[p].order].payment = p => orders[attempts[p].order].receipt = Null
      BY <1>1, <2>2, <3>2 DEF ReviewInv, AllOwned, Owned
    <3>4. Linked(p) = Null
      BY <3>1, <3>3 DEF Linked
    <3>5. Identity(p) = {}
      BY <3>4, GatewayAssumption DEF Identity
    <3> QED
      BY <2>1, <3>4, <3>5 DEF CanRefund
  <2>3. CASE IsReversed(Linked(p))
    BY <2>1, <2>3 DEF CanRefund
  <2> QED
    BY <2>2, <2>3 DEF Open
<1>2. RowsInv /\ ReviewInv => NoDeadEnd
  BY <1>1
<1> QED
  BY <1>2, ReviewInvariant, PTL

ResolutionsTyped ==
  /\ resolutions \in [Payments -> ResolutionRow \cup {NoRow}]
  /\ \A p \in Payments : resolutions[p] # NoRow => attempts[p] # NoRow

LEMMA ResolutionWritten ==
  ASSUME ResolutionsTyped, NEW s \in Reviewers, NEW p \in Payments, NEW key \in DecisionKeys,
         NEW action \in {"APPLY", "LINK", "REFUND"}, NEW accounting, NEW r \in Receipts \cup {Null},
         NEW reference \in References \cup {Null},
         Decide(s, p, key, action, accounting, r, reference),
         attempts[p] # NoRow, \A q \in Payments : attempts[q] # NoRow => attempts'[q] # NoRow
  PROVE  ResolutionsTyped'
<1> DEFINE n == [action |-> action, by |-> s, key |-> key, receipt |-> r, reference |-> reference]
<1>1. n \in ResolutionRow
  BY DEF ResolutionRow
<1>2. resolutions' = [resolutions EXCEPT ![p] = n]
  BY DEF Decide
<1> HIDE DEF n
<1>3. resolutions' \in [Payments -> ResolutionRow \cup {NoRow}]
  BY <1>1, <1>2 DEF ResolutionsTyped
<1>4. \A q \in Payments \ {p} : resolutions'[q] = resolutions[q]
  BY <1>2 DEF ResolutionsTyped
<1> QED
  BY <1>3, <1>4 DEF ResolutionsTyped

LEMMA DecisionsKeepAttempts ==
  ASSUME RowsInv, NEW s, NEW p \in Payments, NEW key, NEW action,
         NEW accounting \in {"APPLIED", "REFUNDED"}, NEW r \in Receipts \cup {Null}, NEW reference,
         Reviewable(p), Decide(s, p, key, action, accounting, r, reference)
  PROVE  /\ attempts[p] # NoRow
         /\ \A q \in Payments : attempts[q] # NoRow => attempts'[q] # NoRow
<1>1. DecidedFor(attempts[p].order, p, accounting, r)
  BY DecideWrites
<1> QED
  BY <1>1 DEF DecidedFor

LEMMA ResolutionsStep ==
  ASSUME RowsInv, ResolutionsTyped, [RNext]_rVars
  PROVE  ResolutionsTyped'
<1>1. ASSUME UNCHANGED resolutions, \A q \in Payments : attempts[q] # NoRow => attempts'[q] # NoRow
      PROVE  ResolutionsTyped'
  BY <1>1 DEF ResolutionsTyped
<1>2. ASSUME GNext, UNCHANGED resolutions PROVE ResolutionsTyped'
  <2>1. ASSUME NEW c \in Procs, \A q \in Payments : Follows(procs[c].order, q)
        PROVE  \A q \in Payments : attempts[q] # NoRow => attempts'[q] # NoRow
    BY <2>1, RowsAreNotNoRow DEF Follows
  <2> QED
    BY <1>1, <1>2, <2>1, AttemptsStep
<1>3. ASSUME NEW s \in Reviewers, Review(s) PROVE ResolutionsTyped'
  <2>1. ASSUME NEW o \in Orders, Inspect(s, o) PROVE ResolutionsTyped'
    BY <1>1, <2>1 DEF Inspect, gVars
  <2>2. ASSUME NEW p \in Payments, NEW key \in DecisionKeys, NEW r \in Receipts,
               ApplyReviewed(s, p, key, r)
        PROVE  ResolutionsTyped'
    BY <1>3, <2>2, ResolutionWritten, DecisionsKeepAttempts DEF ApplyReviewed, CanApply
  <2>3. ASSUME NEW p \in Payments, NEW key \in DecisionKeys, NEW r \in Receipts,
               LinkReceipt(s, p, key, r)
        PROVE  ResolutionsTyped'
    BY <1>3, <2>3, ResolutionWritten, DecisionsKeepAttempts DEF LinkReceipt, CanLink
  <2>4. ASSUME NEW p \in Payments, NEW key \in DecisionKeys, NEW reference \in References,
               RecordRefund(s, p, key, reference)
        PROVE  ResolutionsTyped'
    <3>1. /\ Reviewable(p)
          /\ Decide(s, p, key, "REFUND", "REFUNDED", attempts[p].receipt, reference)
      BY <2>4 DEF RecordRefund, CanRefund
    <3>2. attempts[p].receipt \in Receipts \cup {Null}
      BY <3>1, RowsOfTables DEF RowsInv, Reviewable, AttemptRow
    <3> QED
      BY <3>1, <3>2, ResolutionWritten, DecisionsKeepAttempts
  <2> QED
    BY <1>3, <2>1, <2>2, <2>3, <2>4 DEF Review
<1>4. ASSUME NEW r \in Receipts, HistoricReversal(r) PROVE ResolutionsTyped'
  BY <1>1, <1>4 DEF HistoricReversal
<1>5. ASSUME NEW r \in Receipts, NEW p \in Payments, OrphanReceipt(r, p) PROVE ResolutionsTyped'
  BY <1>1, <1>5 DEF OrphanReceipt
<1>6. CASE UNCHANGED rVars
  BY <1>1, <1>6 DEF rVars, gVars
<1> QED
  BY <1>2, <1>3, <1>4, <1>5, <1>6 DEF RNext

\* Rows keep their columns and the keys between them, those of the decisions too
\* (payment_attempt_resolutions).
THEOREM ReviewTyped == RSpec => []RTypeOK
<1>1. ASSUME RowsInv, ReviewInv, ResolutionsTyped PROVE RTypeOK
  <2>1. /\ TypeOK /\ booking \in {"INVOICED", "CONFIRMED", "COMPLETED", "CANCELLED"}
        /\ orders \in [Orders -> OrderRow \cup {NoRow}]
        /\ attempts \in [Payments -> AttemptRow \cup {NoRow}]
    BY <1>1 DEF RowsInv, TablesTyped
  <2>2. ASSUME NEW o \in Orders, orders[o] # NoRow, orders[o].receipt # Null
        PROVE  receipts[orders[o].receipt] # NoRow
    <3>1. PICK p \in Payments : attempts[p] # NoRow /\ attempts[p].receipt = orders[o].receipt
      BY <1>1, <2>2 DEF ReviewInv, AllOwned, Owned
    <3> QED
      BY <1>1, <2>2, <3>1 DEF ReviewInv, AllBooked, Booked
  <2>3. \A p \in Payments : attempts[p] # NoRow => orders[attempts[p].order] # NoRow
    BY <1>1 DEF RowsInv, PaymentsKnown
  <2> QED
    BY <1>1, <2>1, <2>2, <2>3 DEF GTypeOK, RTypeOK, ResolutionsTyped
<1>2. RInit => RowsInv /\ ReviewInv /\ ResolutionsTyped
  BY RowsInit, ReviewInit DEF RInit, ResolutionsTyped
<1>3. RowsInv /\ ReviewInv /\ ResolutionsTyped /\ [RNext]_rVars
        => (RowsInv /\ ReviewInv /\ ResolutionsTyped)'
  BY ReviewStep, ResolutionsStep
<1>4. RowsInv /\ ReviewInv /\ ResolutionsTyped => RTypeOK
  BY <1>1
<1> QED
  BY <1>2, <1>3, <1>4, PTL DEF RSpec

-----------------------------------------------------------------------------
(* The register of payments.  A payment keeps the receipt it once had, also when it was refunded; *)
(* that receipt is the one of its order, and of the amount of the payment.                        *)

Carries(p) ==
  (attempts[p] # NoRow /\ attempts[p].receipt # Null) =>
    /\ orders[attempts[p].order].receipt = attempts[p].receipt
    /\ receipts[attempts[p].receipt].amount = attempts[p].amount
AllCarry == \A p \in Payments : Carries(p)

\* No step changes the amount of a receipt.
AmountsStay == \A r \in Receipts : receipts[r] # NoRow => receipts'[r].amount = receipts[r].amount

LEMMA CreatedAmount ==
  ASSUME TypeOK, NEW r \in Receipts, NEW i, NEW d, NEW a, NEW method, NEW status, NEW k,
         CreateReceipt(r, i, d, a, method, status, k)
  PROVE  AmountsStay /\ receipts'[r].amount = a
<1> DEFINE s == SeriesOf(invoices[i].company, d, "R")
           n == [status |-> status, invoice |-> i, company |-> invoices[i].company,
                 date |-> d, amount |-> a, method |-> method, key |-> k, number |-> NextNumber(s)]
<1>1. receipts[r] = NoRow /\ receipts' = [receipts EXCEPT ![r] = n]
  BY DEF CreateReceipt
<1>2. n.amount = a
  OBVIOUS
<1> HIDE DEF n
<1>3. receipts'[r] = n /\ \A x \in Receipts \ {r} : receipts'[x] = receipts[x]
  BY <1>1 DEF TypeOK
<1> QED
  BY <1>1, <1>2, <1>3 DEF AmountsStay

LEMMA StatusKeepsAmounts ==
  ASSUME TypeOK, NEW r \in Receipts, receipts[r].status # "NONE", NEW status,
         receipts' = [receipts EXCEPT ![r] = WithStatus(receipts[r], status)]
  PROVE  AmountsStay
<1> DEFINE n == WithStatus(receipts[r], status)
<1>1. receipts[r] \in ReceiptRow
  BY RowExists
<1>2. n.amount = receipts[r].amount
  BY <1>1 DEF WithStatus, ReceiptRow
<1>3. receipts' = [receipts EXCEPT ![r] = n]
  OBVIOUS
<1> HIDE DEF n
<1>4. receipts'[r] = n /\ \A x \in Receipts \ {r} : receipts'[x] = receipts[x]
  BY <1>3 DEF TypeOK
<1> QED
  BY <1>2, <1>4 DEF AmountsStay

LEMMA SettleKeepsAmounts ==
  ASSUME TypeOK, Settle
  PROVE  AmountsStay
<1>1. ASSUME NEW r \in Receipts, NEW d, NEW a, NEW status, NEW k,
             CreateReceipt(r, Invoice, d, a, "MANUAL", status, k)
      PROVE  AmountsStay
  BY <1>1, CreatedAmount
<1>2. ASSUME NEW r \in Receipts, ConfirmReceipt(r) PROVE AmountsStay
  <2>1. /\ receipts[r].status # "NONE"
        /\ receipts' = [receipts EXCEPT ![r] = WithStatus(receipts[r], "CONFIRMED")]
    BY <1>2 DEF ConfirmReceipt, WithStatus
  <2> QED
    BY <2>1, StatusKeepsAmounts
<1>3. ASSUME NEW r \in Receipts, ReverseReceipt(r) PROVE AmountsStay
  <2>1. /\ receipts[r].status # "NONE"
        /\ receipts' = [receipts EXCEPT ![r] = WithStatus(receipts[r], "REVERSED")]
    BY <1>3 DEF ReverseReceipt, Reversible, WithStatus
  <2> QED
    BY <2>1, StatusKeepsAmounts
<1>4. ASSUME NEW x \in Adjustments, AdjustmentStep(x) PROVE AmountsStay
  BY <1>4 DEF AdjustmentStep, CreateAdjustment, ReverseAdjustment, AmountsStay
<1>5. ASSUME NEW u \in Users, Cancel(u, Invoice) PROVE AmountsStay
  BY <1>5 DEF Cancel, AmountsStay
<1> QED
  BY <1>1, <1>2, <1>3, <1>4, <1>5 DEF Settle

\* The order of a payment is a row.
LEMMA OrderOfPayment ==
  ASSUME RowsInv, NEW p \in Payments, attempts[p] # NoRow
  PROVE  /\ attempts[p] \in AttemptRow
         /\ attempts[p].order \in Orders /\ orders[attempts[p].order] # NoRow
<1>1. attempts[p] \in AttemptRow
  BY RowsOfTables DEF RowsInv
<1> QED
  BY <1>1 DEF RowsInv, PaymentsKnown, AttemptRow

LEMMA CarryKept ==
  ASSUME RowsInv, ReviewInv, AllCarry, KeepsMoney, UNCHANGED attempts, AmountsStay
  PROVE  AllCarry'
<1> SUFFICES ASSUME NEW p \in Payments, attempts[p] # NoRow, attempts[p].receipt # Null
             PROVE  Carries(p)'
  BY DEF AllCarry, Carries
<1>1. attempts[p].order \in Orders /\ orders[attempts[p].order] # NoRow
  BY OrderOfPayment
<1>2. orders'[attempts[p].order].receipt = orders[attempts[p].order].receipt
  BY <1>1 DEF KeepsMoney
<1>3. attempts[p].receipt \in Receipts /\ receipts[attempts[p].receipt] # NoRow
  BY BookedReceipt DEF RowsInv, ReviewInv
<1>4. receipts'[attempts[p].receipt].amount = receipts[attempts[p].receipt].amount
  BY <1>3 DEF AmountsStay
<1> QED
  BY <1>2, <1>4 DEF AllCarry, Carries

LEMMA CarryRecorded ==
  ASSUME RowsInv, ReviewInv, AllCarry, NEW o, NEW several, NEW applied, NEW r, NEW row, NEW new,
         RecordedFor(o, several, applied, r, row, new)
  PROVE  AllCarry'
<1> SUFFICES ASSUME NEW q \in Payments, attempts'[q] # NoRow, attempts'[q].receipt # Null
             PROVE  Carries(q)'
  BY DEF AllCarry, Carries
<1>1. /\ Outcome(o, q, several, applied, r) /\ Written(o, applied, r) /\ o \in Orders
      /\ Booked(q) /\ AllBooked
  BY DEF RecordedFor, ReviewInv, AllBooked
<1>2. orders'[o] = new /\ \A x \in Orders \ {o} : orders'[x] = orders[x]
  BY DEF RecordedFor, RowsInv, TablesTyped
<1>3. \A x \in Receipts : receipts[x] # NoRow => receipts'[x] = receipts[x]
  BY <1>1, WrittenReceipts DEF ReviewInv
<1>4. CASE q \in applied
  <2>1. attempts'[q].receipt = r /\ attempts'[q].order = o
    BY <1>1, <1>4 DEF Outcome
  <2>2. receipts'[r].key = q /\ receipts'[r].amount = attempts'[q].amount
    BY <1>1, <1>4 DEF Written
  <2>3. orders'[o].receipt = r
    BY <1>2, <1>4 DEF RecordedFor, Decided
  <2> QED
    BY <2>1, <2>2, <2>3 DEF Carries
<1>5. CASE q \notin applied
  <2>1. attempts[q] # NoRow /\ attempts[q].receipt = attempts'[q].receipt
    BY <1>1, <1>5 DEF Outcome, ReceiptBefore
  <2>2. attempts[q].accounting # "UNAPPLIED"
    BY <1>1, <2>1 DEF Booked
  <2>3. attempts'[q] = attempts[q]
    BY <1>1, <2>1, <2>2, StaysAccounted
  <2>4. attempts[q].order \in Orders
    BY <2>1, OrderOfPayment
  <2>5. /\ orders[attempts[q].order].receipt = attempts[q].receipt
        /\ receipts[attempts[q].receipt].amount = attempts[q].amount
    BY <2>1, <2>3 DEF AllCarry, Carries
  <2>6. receipts'[attempts[q].receipt] = receipts[attempts[q].receipt]
    BY <1>1, <1>3, <2>1, <2>3, BookedReceipt DEF RowsInv
  <2>7. orders'[attempts[q].order].receipt = orders[attempts[q].order].receipt
    <3>1. CASE attempts[q].order = o
      BY <2>3, <2>5, <3>1, OrderKeepsReceipt
    <3>2. CASE attempts[q].order # o
      BY <1>2, <2>4, <3>2
    <3> QED
      BY <3>1, <3>2
  <2> QED
    BY <2>3, <2>5, <2>6, <2>7 DEF Carries
<1> QED
  BY <1>4, <1>5

\* A receipt that a decision links is of the amount of its payment, and its order had none.
LEMMA CarryDecided ==
  ASSUME RowsInv, ReviewInv, AllCarry, NEW o, NEW p \in Payments, NEW accounting, NEW r,
         DecidedFor(o, p, accounting, r), AmountsStay,
         \/ /\ accounting = "APPLIED" /\ receipts'[r].amount = attempts[p].amount
            /\ \A q \in AttemptsOf(o) : attempts[q].receipt = Null
         \/ accounting # "APPLIED" /\ r = attempts[p].receipt
  PROVE  AllCarry'
<1> SUFFICES ASSUME NEW q \in Payments, attempts'[q] # NoRow, attempts'[q].receipt # Null
             PROVE  Carries(q)'
  BY DEF AllCarry, Carries
<1>1. /\ o \in Orders /\ attempts[p] # NoRow /\ attempts[p].order = o
      /\ attempts'[p].order = o /\ attempts'[p].receipt = r
      /\ attempts'[p].amount = attempts[p].amount
      /\ \A x \in Payments \ {p} : attempts'[x] = attempts[x]
      /\ orders'[o].receipt = IF accounting = "APPLIED" THEN r ELSE orders[o].receipt
      /\ \A x \in Orders \ {o} : orders'[x] = orders[x]
  BY DEF DecidedFor
<1>2. ASSUME attempts[q] # NoRow, attempts[q].receipt # Null, attempts'[q].receipt = attempts[q].receipt,
             attempts'[q].amount = attempts[q].amount, attempts'[q].order = attempts[q].order,
             orders'[attempts[q].order].receipt = orders[attempts[q].order].receipt
      PROVE  Carries(q)'
  <2>1. attempts[q].receipt \in Receipts /\ receipts[attempts[q].receipt] # NoRow
    BY <1>2, BookedReceipt DEF RowsInv, ReviewInv
  <2>2. receipts'[attempts[q].receipt].amount = receipts[attempts[q].receipt].amount
    BY <2>1 DEF AmountsStay
  <2> QED
    BY <1>2, <2>2 DEF AllCarry, Carries
<1>3. CASE q = p /\ accounting = "APPLIED"
  BY <1>1, <1>3 DEF Carries
<1>4. CASE q = p /\ accounting # "APPLIED"
  BY <1>1, <1>2, <1>4
<1>5. CASE q # p
  <2>1. attempts'[q] = attempts[q] /\ attempts[q].order \in Orders
    BY <1>1, <1>5, OrderOfPayment
  <2>2. accounting = "APPLIED" => attempts[q].order # o
    BY <1>5, <2>1 DEF AttemptsOf, Of
  <2> QED
    BY <1>1, <1>2, <1>5, <2>1, <2>2
<1> QED
  BY <1>3, <1>4, <1>5

LEMMA CarryStep ==
  ASSUME RowsInv, ReviewInv, AllCarry, [RNext]_rVars
  PROVE  AllCarry'
<1>0. TypeOK
  BY DEF RowsInv
<1>1. ASSUME UNCHANGED <<orders, attempts, receipts>> PROVE AllCarry'
  BY <1>1 DEF AllCarry, Carries
<1>2. ASSUME [GNext]_gVars PROVE AllCarry'
  <2>1. CASE MovesNoMoney
    <3>1. AmountsStay
      BY <2>1 DEF MovesNoMoney, AmountsStay
    <3> QED
      BY <2>1, <3>1, CarryKept DEF MovesNoMoney
  <2>2. ASSUME NEW c \in Procs, RecordsMoney(c) PROVE AllCarry'
    BY <2>2, RecordingIsKnown, CarryRecorded
  <2>3. CASE Settle
    <3>1. AmountsStay /\ UNCHANGED <<orders, attempts>>
      BY <1>0, <2>3, SettleKeepsAmounts DEF Settle
    <3> QED
      BY <3>1, SameOrdersKeepMoney, CarryKept
  <2> QED
    BY <1>2, <2>1, <2>2, <2>3, MoneyMoves
<1>3. ASSUME NEW s \in Reviewers, NEW o \in Orders, Inspect(s, o) PROVE AllCarry'
  BY <1>1, <1>3 DEF Inspect, gVars, vars, billing
<1>4. ASSUME NEW s \in Reviewers, NEW p \in Payments, NEW key \in DecisionKeys, NEW r \in Receipts,
             ApplyReviewed(s, p, key, r)
      PROVE  AllCarry'
  <2>1. /\ Reviewable(p) /\ Accountable(p) /\ GatewayReceipt(r, p, attempts[p].amount)
        /\ Decide(s, p, key, "APPLY", "APPLIED", r, Null)
    BY <1>4 DEF ApplyReviewed, CanApply
  <2>2. DecidedFor(attempts[p].order, p, "APPLIED", r)
    BY <2>1, DecideWrites
  <2>3. AmountsStay /\ receipts'[r].amount = attempts[p].amount
    BY <1>0, <2>1, CreatedAmount DEF GatewayReceipt
  <2>4. \A q \in AttemptsOf(attempts[p].order) : attempts[q].receipt = Null
    BY <2>1 DEF Accountable
  <2> QED
    BY <2>2, <2>3, <2>4, CarryDecided
<1>5. ASSUME NEW s \in Reviewers, NEW p \in Payments, NEW key \in DecisionKeys, NEW r \in Receipts,
             LinkReceipt(s, p, key, r)
      PROVE  AllCarry'
  <2>1. /\ Reviewable(p) /\ Accountable(p) /\ r \in Matching(p)
        /\ Decide(s, p, key, "LINK", "APPLIED", r, Null) /\ UNCHANGED receipts
    BY <1>5 DEF LinkReceipt, CanLink, vars, billing
  <2>2. DecidedFor(attempts[p].order, p, "APPLIED", r)
    BY <2>1, DecideWrites
  <2>3. AmountsStay /\ receipts'[r].amount = attempts[p].amount
    BY <2>1 DEF AmountsStay, Matching
  <2>4. \A q \in AttemptsOf(attempts[p].order) : attempts[q].receipt = Null
    BY <2>1 DEF Accountable
  <2> QED
    BY <2>2, <2>3, <2>4, CarryDecided
<1>6. ASSUME NEW s \in Reviewers, NEW p \in Payments, NEW key \in DecisionKeys,
             NEW reference \in References, RecordRefund(s, p, key, reference)
      PROVE  AllCarry'
  <2>1. /\ Reviewable(p) /\ UNCHANGED receipts
        /\ Decide(s, p, key, "REFUND", "REFUNDED", attempts[p].receipt, reference)
    BY <1>6 DEF RecordRefund, CanRefund, vars, billing
  <2>2. attempts[p].receipt \in Receipts \cup {Null}
    BY <2>1, OrderOfPayment DEF Reviewable, AttemptRow
  <2>3. DecidedFor(attempts[p].order, p, "REFUNDED", attempts[p].receipt)
    BY <2>1, <2>2, DecideWrites
  <2>4. AmountsStay
    BY <2>1 DEF AmountsStay
  <2> QED
    BY <2>3, <2>4, CarryDecided
<1>7. ASSUME NEW r \in Receipts, HistoricReversal(r) PROVE AllCarry'
  <2>1. /\ receipts[r].status # "NONE" /\ UNCHANGED <<orders, attempts>>
        /\ receipts' = [receipts EXCEPT ![r] = WithStatus(receipts[r], "REVERSED")]
    BY <1>7 DEF HistoricReversal, WithStatus
  <2>2. AmountsStay
    BY <1>0, <2>1, StatusKeepsAmounts
  <2> QED
    BY <2>1, <2>2, SameOrdersKeepMoney, CarryKept
<1>8. ASSUME NEW r \in Receipts, NEW p \in Payments, OrphanReceipt(r, p) PROVE AllCarry'
  <2>1. GatewayReceipt(r, p, attempts[p].amount) /\ UNCHANGED <<orders, attempts>>
    BY <1>8 DEF OrphanReceipt
  <2>2. AmountsStay
    BY <1>0, <2>1, CreatedAmount DEF GatewayReceipt
  <2> QED
    BY <2>1, <2>2, SameOrdersKeepMoney, CarryKept
<1>9. CASE UNCHANGED rVars
  BY <1>1, <1>9 DEF rVars, gVars, vars, billing
<1> QED
  BY <1>2, <1>3, <1>4, <1>5, <1>6, <1>7, <1>8, <1>9 DEF RNext, Review

\* A payment that has a receipt keeps it, and it is of the payment's amount and its order's, whatever
\* is reconciled, decided or reversed later (resolve(), reconcile(), reverseReceipt()).
THEOREM ReviewCarries == RSpec => [](RowsInv /\ ReviewInv /\ AllCarry)
<1>1. RInit => AllCarry
  BY DEF RInit, GInit, AllCarry, Carries
<1>2. RowsInv /\ ReviewInv /\ AllCarry /\ [RNext]_rVars => AllCarry'
  BY CarryStep
<1> QED
  BY <1>1, <1>2, ReviewInvariant, PTL DEF RSpec

-----------------------------------------------------------------------------
(* The rows of the register *)

LEMMA OrderReceipt ==
  ASSUME RowsInv, ReviewInv, AllCarry, NEW o \in Orders, orders[o] # NoRow
  PROVE  ReceiptOf(o) = orders[o].receipt /\ orders[o].receipt \in Receipts \cup {Null}
<1>1. orders[o].receipt \in Receipts \cup {Null}
  BY RowsOfTables DEF RowsInv, OrderRow
<1>2. ASSUME orders[o].receipt = Null
      PROVE  {attempts[p].receipt : p \in AttemptsOf(o)} \ {Null} = {}
  BY <1>2 DEF AllCarry, Carries, AttemptsOf, Of
<1> QED
  BY <1>1, <1>2 DEF ReceiptOf

\* An order owns the receipt of one of its payments, which no other order has.
LEMMA OwnedOnce ==
  ASSUME RowsInv, ReviewInv, NEW o \in Orders, orders[o] # NoRow, orders[o].receipt # Null
  PROVE  LET p == orders[o].payment IN
         /\ p \in Payments /\ attempts[p] # NoRow /\ attempts[p].order = o
         /\ attempts[p].receipt = orders[o].receipt
         /\ orders[o].receipt \in Receipts /\ receipts[orders[o].receipt] # NoRow
         /\ receipts[orders[o].receipt].key = p
<1>1. PICK p : p = orders[o].payment
  OBVIOUS
<1>2. /\ p \in Payments /\ attempts[p] # NoRow /\ attempts[p].order = o
      /\ attempts[p].receipt = orders[o].receipt
  BY <1>1 DEF ReviewInv, AllOwned, Owned
<1>3. /\ attempts[p].receipt \in Receipts /\ receipts[attempts[p].receipt] # NoRow
      /\ receipts[attempts[p].receipt].key = p
  BY <1>2, BookedReceipt DEF RowsInv, ReviewInv
<1> QED
  BY <1>1, <1>2, <1>3

\* A row of the register is that of an order or of a receipt that nothing points to.
LEMMA RegisterRows ==
  ASSUME RowsInv, ReviewInv, AllCarry, NEW row
  PROVE  /\ row \in Register <=>
              \/ \E r \in Receipts : Unlinked(r) /\ row = ManualRow(r)
              \/ \E o \in Orders : orders[o] # NoRow /\ row = GatewayRow(o)
         /\ \A r : ManualRow(r).receipt = r
         /\ \A o \in Orders : orders[o] # NoRow => GatewayRow(o).receipt = orders[o].receipt
<1>1. row \in Register <=>
        \/ \E r \in Receipts : Unlinked(r) /\ row = ManualRow(r)
        \/ \E o \in Orders : orders[o] # NoRow /\ row = GatewayRow(o)
  BY DEF Register
<1>2. \A r : ManualRow(r).receipt = r
  BY DEF ManualRow
<1>3. \A o : GatewayRow(o).receipt = ReceiptOf(o)
  BY DEF GatewayRow
<1> QED
  BY <1>1, <1>2, <1>3, OrderReceipt

\* Every receipt is in one row.
LEMMA ReceiptInARow ==
  ASSUME RowsInv, ReviewInv, AllCarry, NEW r \in Receipts, receipts[r] # NoRow
  PROVE  \E row \in Register : row.receipt = r
<1>1. CASE Unlinked(r)
  <2>1. ManualRow(r) \in Register /\ ManualRow(r).receipt = r
    BY <1>1, RegisterRows
  <2> QED
    BY <2>1
<1>2. ASSUME NEW o \in Orders, orders[o] # NoRow, orders[o].receipt = r
      PROVE  \E row \in Register : row.receipt = r
  <2>1. GatewayRow(o) \in Register /\ GatewayRow(o).receipt = r
    BY <1>2, RegisterRows
  <2> QED
    BY <2>1
<1>3. ASSUME NEW p \in Payments, attempts[p] # NoRow, attempts[p].receipt = r
      PROVE  \E row \in Register : row.receipt = r
  <2>1. r # Null
    BY GatewayAssumption
  <2>2. orders[attempts[p].order].receipt = r
    BY <1>3, <2>1 DEF AllCarry, Carries
  <2>3. attempts[p].order \in Orders /\ orders[attempts[p].order] # NoRow
    BY <1>3, OrderOfPayment
  <2> QED
    BY <1>2, <2>2, <2>3
<1> QED
  BY <1>1, <1>2, <1>3 DEF Unlinked

LEMMA ReceiptInOneRow ==
  ASSUME RowsInv, ReviewInv, AllCarry, NEW row \in Register, NEW other \in Register,
         row.receipt = other.receipt, row.receipt # Null
  PROVE  row = other
<1> DEFINE r == row.receipt
<1>1. ASSUME NEW x \in Receipts, Unlinked(x), NEW o \in Orders, orders[o] # NoRow
      PROVE  ManualRow(x).receipt # GatewayRow(o).receipt
  <2>1. ManualRow(x).receipt = x /\ GatewayRow(o).receipt = orders[o].receipt
    BY <1>1, RegisterRows
  <2> QED
    BY <1>1, <2>1 DEF Unlinked
<1>2. ASSUME NEW o \in Orders, orders[o] # NoRow, NEW q \in Orders, orders[q] # NoRow,
             GatewayRow(o).receipt = GatewayRow(q).receipt, GatewayRow(o).receipt # Null
      PROVE  o = q
  <2>1. orders[o].receipt = orders[q].receipt /\ orders[o].receipt # Null
    BY <1>2, RegisterRows
  <2>2. /\ receipts[orders[o].receipt].key = orders[o].payment
        /\ attempts[orders[o].payment].order = o
    BY <1>2, <2>1, OwnedOnce
  <2>3. /\ receipts[orders[q].receipt].key = orders[q].payment
        /\ attempts[orders[q].payment].order = q
    BY <1>2, <2>1, OwnedOnce
  <2> QED
    BY <2>1, <2>2, <2>3
<1>3. \/ \E x \in Receipts : Unlinked(x) /\ row = ManualRow(x)
      \/ \E o \in Orders : orders[o] # NoRow /\ row = GatewayRow(o)
  BY RegisterRows
<1>4. \/ \E x \in Receipts : Unlinked(x) /\ other = ManualRow(x)
      \/ \E o \in Orders : orders[o] # NoRow /\ other = GatewayRow(o)
  BY RegisterRows
<1>5. CASE \E x \in Receipts : Unlinked(x) /\ row = ManualRow(x)
  <2>1. PICK x \in Receipts : Unlinked(x) /\ row = ManualRow(x)
    BY <1>5
  <2>2. PICK y \in Receipts : Unlinked(y) /\ other = ManualRow(y)
    BY <1>1, <1>4, <2>1
  <2>3. x = y
    BY <2>1, <2>2, RegisterRows
  <2> QED
    BY <2>1, <2>2, <2>3
<1>6. CASE \E o \in Orders : orders[o] # NoRow /\ row = GatewayRow(o)
  <2>1. PICK o \in Orders : orders[o] # NoRow /\ row = GatewayRow(o)
    BY <1>6
  <2>2. PICK q \in Orders : orders[q] # NoRow /\ other = GatewayRow(q)
    BY <1>1, <1>4, <2>1
  <2>3. o = q
    BY <1>2, <2>1, <2>2
  <2> QED
    BY <2>1, <2>2, <2>3
<1> QED
  BY <1>3, <1>5, <1>6

-----------------------------------------------------------------------------
(* The totals of the register *)

ConfirmedOf(rows) ==
  {r \in Receipts : /\ receipts[r] # NoRow /\ receipts[r].status = "CONFIRMED"
                    /\ \E row \in rows : row.receipt = r}

\* The confirmed amount of some rows counts the paise of the receipts they name.
LEMMA ConfirmedAmount ==
  ASSUME RowsInv, NEW rows,
         \A row \in rows : row.receipt \in Receipts \cup {Null},
         \A row, other \in rows :
           (row.receipt = other.receipt /\ row.receipt # Null) => row = other
  PROVE  ReceiptAmount(rows, "CONFIRMED") = Cardinality(Paise(ConfirmedOf(rows), receipts))
<1> DEFINE D == {x \in rows : Receipted(x.receipt) /\ receipts[x.receipt].status = "CONFIRMED"}
           with == [r \in Receipts |-> {x \in D : x.receipt = r}]
           named == [row \in D |-> {row.receipt}]
           column == [row \in D |-> receipts[row.receipt].amount]
<1>1. \A row \in D : /\ row.receipt \in Receipts /\ row.receipt # Null
                     /\ receipts[row.receipt] # NoRow
                     /\ receipts[row.receipt].status = "CONFIRMED"
  BY DEF Receipted
<1>2. \A row, other \in D : row # other => row.receipt # other.receipt
  BY <1>1
<1>3. IsFiniteSet(D)
  <2>1. \A r \in Receipts : IsFiniteSet(with[r])
    <3> SUFFICES ASSUME NEW r \in Receipts PROVE IsFiniteSet({x \in D : x.receipt = r})
      OBVIOUS
    <3>1. CASE {x \in D : x.receipt = r} = {}
      BY <3>1, FS_EmptySet
    <3>2. ASSUME NEW x \in D, x.receipt = r PROVE IsFiniteSet({y \in D : y.receipt = r})
      <4>1. {y \in D : y.receipt = r} = {x}
        BY <1>2, <3>2
      <4> QED
        BY <4>1, FS_Singleton
    <3> QED
      BY <3>1, <3>2
  <2>2. D = UNION {with[r] : r \in Receipts}
    BY <1>1
  <2> HIDE DEF with, D
  <2>3. IsFiniteSet(UNION {with[r] : r \in Receipts})
    BY <2>1, LedgerAssumption, PartsAreFinite
  <2> QED
    BY <2>2, <2>3
<1>4. \A row \in D : Cardinality(Paise(named[row], receipts)) = column[row]
  <2> SUFFICES ASSUME NEW row \in D
               PROVE  Cardinality(Paise({row.receipt}, receipts)) = receipts[row.receipt].amount
    OBVIOUS
  <2>1. receipts[row.receipt] \in ReceiptRow
    BY <1>1, RowExists DEF RowsInv
  <2>2. receipts[row.receipt].amount \in 1 .. MaxMinor
    BY <2>1 DEF ReceiptRow
  <2> QED
    BY <2>2, SumOfOneRow
<1>5. \A row \in D : named[row] \in SUBSET Receipts
  BY <1>1
<1>6. \A row, other \in D : row # other => named[row] \cap named[other] = {}
  BY <1>2
<1>7. UNION {named[row] : row \in D} = ConfirmedOf(rows)
  <2>1. \A r : r \in ConfirmedOf(rows) <=> \E row \in D : r = row.receipt
    <3>1. \A r \in ConfirmedOf(rows) : \E row \in D : r = row.receipt
      BY GatewayAssumption DEF ConfirmedOf, Receipted
    <3>2. \A row \in D : row.receipt \in ConfirmedOf(rows)
      BY <1>1 DEF ConfirmedOf
    <3> QED
      BY <3>1, <3>2
  <2>2. \A row \in D : named[row] = {row.receipt}
    OBVIOUS
  <2> HIDE DEF D, named
  <2> QED
    BY <2>1, <2>2
<1>8. column = [row \in D |-> Cardinality(Paise(named[row], receipts))]
  BY <1>4
<1>9. ReceiptAmount(rows, "CONFIRMED") = SumOf(column)
  BY DEF ReceiptAmount
<1> HIDE DEF D, named, column
<1>10. SumOf([row \in D |-> Cardinality(Paise(named[row], receipts))])
         = Cardinality(Paise(UNION {named[row] : row \in D}, receipts))
  BY <1>3, <1>5, <1>6, LedgerAssumption, PaiseByRow
<1> QED
  BY <1>7, <1>8, <1>9, <1>10

LEMMA RegisterTotal ==
  ASSUME RowsInv, ReviewInv, AllCarry
  PROVE  Summary(Register).confirmed
           = Cardinality(Paise(UNION {Confirmed(i) : i \in Invoices}, receipts))
<1>1. \A row \in Register : row.receipt \in Receipts \cup {Null}
  <2> SUFFICES ASSUME NEW row \in Register PROVE row.receipt \in Receipts \cup {Null}
    OBVIOUS
  <2>1. \/ \E x \in Receipts : Unlinked(x) /\ row = ManualRow(x)
        \/ \E o \in Orders : orders[o] # NoRow /\ row = GatewayRow(o)
    BY RegisterRows
  <2>2. \A x : ManualRow(x).receipt = x
    BY RegisterRows
  <2>3. \A o \in Orders : orders[o] # NoRow => GatewayRow(o).receipt \in Receipts \cup {Null}
    BY RegisterRows, OrderReceipt
  <2> QED
    BY <2>1, <2>2, <2>3
<1>2. ReceiptAmount(Register, "CONFIRMED") = Cardinality(Paise(ConfirmedOf(Register), receipts))
  <2>1. \A row, other \in Register :
          (row.receipt = other.receipt /\ row.receipt # Null) => row = other
    BY ReceiptInOneRow
  <2> QED
    BY <1>1, <2>1, ConfirmedAmount
<1>3. ConfirmedOf(Register) = UNION {Confirmed(i) : i \in Invoices}
  <2>1. ASSUME NEW r \in Receipts, receipts[r].status = "CONFIRMED"
        PROVE  receipts[r] # NoRow /\ receipts[r].invoice \in Invoices
    <3>1. receipts[r] \in ReceiptRow /\ receipts[r] # NoRow
      BY <2>1, RowExists DEF RowsInv, NoRow
    <3> QED
      BY <3>1 DEF ReceiptRow
  <2>2. \A r : r \in ConfirmedOf(Register) <=> r \in Receipts /\ receipts[r].status = "CONFIRMED"
    BY <2>1, ReceiptInARow DEF ConfirmedOf
  <2>3. \A r : r \in UNION {Confirmed(i) : i \in Invoices}
                 <=> r \in Receipts /\ receipts[r].status = "CONFIRMED"
    BY <2>1 DEF Confirmed
  <2> QED
    BY <2>2, <2>3
<1>4. Summary(Register).confirmed = ReceiptAmount(Register, "CONFIRMED")
  BY DEF Summary
<1> QED
  BY <1>2, <1>3, <1>4

LEMMA OneRowOfReceipt ==
  ASSUME RowsInv, ReviewInv, AllCarry, NEW r \in Receipts, receipts[r] # NoRow
  PROVE  Cardinality({row \in Register : row.receipt = r}) = 1
<1>1. PICK row \in Register : row.receipt = r
  BY ReceiptInARow
<1>2. r # Null
  BY GatewayAssumption
<1>3. {x \in Register : x.receipt = r} = {row}
  BY <1>1, <1>2, ReceiptInOneRow
<1> QED
  BY <1>3, FS_Singleton

-----------------------------------------------------------------------------
(* The row of an order *)

\* The sum of two separate sets of payments.
LEMMA SumApart ==
  ASSUME NEW A \in SUBSET Payments, NEW B \in SUBSET Payments, A \cap B = {}
  PROVE  Sum(A \cup B) = Sum(A) + Sum(B) /\ Sum(A) \in Nat /\ Sum(B) \in Nat
<1>1. IsFiniteSet(A) /\ IsFiniteSet(B)
  BY FS_Subset, RegisterAssumption
<1>2. /\ IsFiniteSet(Paise(A, attempts)) /\ Cardinality(Paise(A, attempts)) \in Nat
      /\ IsFiniteSet(Paise(B, attempts)) /\ Cardinality(Paise(B, attempts)) \in Nat
  BY <1>1, SumIsNatural
<1>3. Paise(A \cup B, attempts) = Paise(A, attempts) \cup Paise(B, attempts)
  BY DEF Paise
<1>4. Paise(A, attempts) \cap Paise(B, attempts) = {}
  BY DEF Paise
<1>5. Cardinality(Paise(A, attempts) \cup Paise(B, attempts))
        = Cardinality(Paise(A, attempts)) + Cardinality(Paise(B, attempts)) - Cardinality({})
  BY <1>2, <1>4, FS_Union
<1>6. Cardinality({}) = 0
  BY FS_EmptySet
<1>7. Sum(A \cup B) = Sum(A) + Sum(B) - Cardinality({})
  BY <1>3, <1>5, Zenon DEF Sum
<1>8. Sum(A) \in Nat /\ Sum(B) \in Nat
  BY <1>2 DEF Sum
<1> QED
  BY <1>6, <1>7, <1>8

\* The payment that an order is paid with, as long as its receipt is not reversed.
PaidWith(o) ==
  {p \in AttemptsOf(o) : /\ InRupees(p) /\ attempts[p].accounting = "APPLIED"
                         /\ ~ IsReversed(attempts[p].receipt)}

LEMMA PaidWithReceipt ==
  ASSUME RowsInv, ReviewInv, AllCarry, NEW o \in Orders, orders[o] # NoRow
  PROVE  ReceiptAmount({GatewayRow(o)}, "CONFIRMED") = Sum(PaidWith(o))
<1> DEFINE row == GatewayRow(o)
           named == ConfirmedOf({row})
<1>1. row.receipt = orders[o].receipt /\ orders[o].receipt \in Receipts \cup {Null}
  BY RegisterRows, OrderReceipt
<1>2. ReceiptAmount({row}, "CONFIRMED") = Cardinality(Paise(named, receipts))
  <2> HIDE DEF row
  <2> QED
    BY <1>1, ConfirmedAmount
<1>3. ASSUME NEW p \in PaidWith(o)
      PROVE  /\ p \in Payments /\ attempts[p] \in AttemptRow
             /\ p = orders[o].payment /\ attempts[p].receipt = orders[o].receipt
             /\ orders[o].receipt \in Receipts /\ receipts[orders[o].receipt] # NoRow
             /\ receipts[orders[o].receipt].status = "CONFIRMED"
             /\ receipts[orders[o].receipt].amount = attempts[p].amount
  <2>1. /\ p \in Payments /\ attempts[p] # NoRow /\ attempts[p].order = o
        /\ attempts[p].accounting = "APPLIED" /\ ~ IsReversed(attempts[p].receipt)
    BY <1>3 DEF PaidWith, AttemptsOf, Of
  <2>2. /\ attempts[p].receipt # Null /\ orders[o].receipt = attempts[p].receipt
        /\ orders[o].payment = p
    BY <2>1 DEF ReviewInv, AllBooked, Booked
  <2>3. /\ orders[o].receipt \in Receipts /\ receipts[orders[o].receipt] # NoRow
        /\ receipts[orders[o].receipt].key = p
    BY <2>1, <2>2, BookedReceipt DEF RowsInv, ReviewInv
  <2>4. receipts[orders[o].receipt].status = "CONFIRMED"
    <3>1. receipts[orders[o].receipt] \in ReceiptRow
      BY <2>3, RowExists DEF RowsInv
    <3>2. receipts[orders[o].receipt].status \notin {"PENDING", "REVERSED"}
      BY <2>1, <2>2, <2>3 DEF ReviewInv, ReceiptKeys, IsReversed
    <3> QED
      BY <3>1, <3>2 DEF ReceiptRow
  <2>5. receipts[orders[o].receipt].amount = attempts[p].amount
    BY <2>1, <2>2 DEF AllCarry, Carries
  <2>6. attempts[p] \in AttemptRow
    BY <2>1, OrderOfPayment
  <2> QED
    BY <2>1, <2>2, <2>3, <2>4, <2>5, <2>6
<1>4. CASE PaidWith(o) = {}
  <2>1. ASSUME NEW r \in named PROVE FALSE
    <3>1. r = orders[o].receipt /\ r \in Receipts /\ receipts[r].status = "CONFIRMED"
      BY <1>1, <2>1 DEF ConfirmedOf
    <3>2. r # Null /\ ~ IsReversed(r)
      BY <3>1, GatewayAssumption DEF IsReversed
    <3>3. orders[o].payment \in AppliedTo(o)
      BY <3>1, <3>2, ReceiptCounts
    <3>4. attempts[orders[o].payment].receipt = r
      BY <3>1, <3>2, OwnedOnce
    <3>5. /\ orders[o].payment \in AttemptsOf(o) /\ orders[o].payment \in Payments
          /\ attempts[orders[o].payment] # NoRow
          /\ attempts[orders[o].payment].accounting = "APPLIED"
      BY <3>3 DEF AppliedTo, AttemptsOf, Of
    <3>6. InRupees(orders[o].payment)
      BY <3>5 DEF ReviewInv, AllBooked, Booked, InRupees
    <3> QED
      BY <1>4, <3>2, <3>4, <3>5, <3>6 DEF PaidWith
  <2>2. named = {}
    BY <2>1
  <2> QED
    BY <1>2, <1>4, <2>2, SumOfNothing DEF Sum
<1>5. ASSUME NEW p \in PaidWith(o)
      PROVE  ReceiptAmount({row}, "CONFIRMED") = Sum(PaidWith(o))
  <2>1. PaidWith(o) = {p}
    BY <1>3
  <2>2. named = {orders[o].receipt}
    BY <1>1, <1>3, <1>5 DEF ConfirmedOf
  <2>3. attempts[p].amount \in 0 .. MaxMinor
    BY <1>3, <1>5 DEF AttemptRow
  <2>4. receipts[orders[o].receipt].amount = attempts[p].amount
    BY <1>3, <1>5
  <2>5. Cardinality(Paise({orders[o].receipt}, receipts)) = attempts[p].amount
    BY <2>3, <2>4, SumOfOneRow
  <2>6. Cardinality(Paise({p}, attempts)) = attempts[p].amount
    BY <2>3, SumOfOneRow
  <2> QED
    BY <1>2, <2>1, <2>2, <2>5, <2>6 DEF Sum
<1> QED
  BY <1>4, <1>5

LEMMA RowTellsTheMoney ==
  ASSUME RowsInv, ReviewInv, AllCarry, NEW o \in Orders, orders[o] # NoRow
  PROVE  Sum({p \in AttemptsOf(o) : InRupees(p)})
           = ReceiptAmount({GatewayRow(o)}, "CONFIRMED")
               + GatewayRow(o).review + GatewayRow(o).refund
<1> DEFINE S == {p \in AttemptsOf(o) : InRupees(p)}
           A == PaidWith(o)
           F == {p \in AttemptsOf(o) : ForStaff(p)}
           R == {p \in AttemptsOf(o) : InRupees(p) /\ attempts[p].accounting = "REFUNDED"}
<1>1. \A p \in AttemptsOf(o) : /\ p \in Payments /\ attempts[p] # NoRow
                               /\ attempts[p] \in AttemptRow
  BY OrderOfPayment DEF AttemptsOf, Of
<1>2. \A p \in S : attempts[p].accounting \in {"APPLIED", "REVIEW_REQUIRED", "REFUNDED"}
  BY <1>1 DEF ReviewInv, AllBooked, Booked, AttemptRow, InRupees
<1>3. S = (A \cup F) \cup R
  BY <1>2 DEF PaidWith, ForStaff
<1>4. A \cap F = {} /\ (A \cup F) \cap R = {}
  BY DEF PaidWith, ForStaff
<1>5. A \in SUBSET Payments /\ F \in SUBSET Payments /\ R \in SUBSET Payments
  BY <1>1 DEF PaidWith
<1>6. GatewayRow(o).review = Sum(F) /\ GatewayRow(o).refund = Sum(R)
  BY DEF GatewayRow, ReviewAmount, RefundAmount
<1>7. ReceiptAmount({GatewayRow(o)}, "CONFIRMED") = Sum(A)
  BY PaidWithReceipt
<1> HIDE DEF A, F, R, S
<1>8. Sum(A \cup F) = Sum(A) + Sum(F)
  BY <1>4, <1>5, SumApart
<1>9. Sum((A \cup F) \cup R) = Sum(A \cup F) + Sum(R)
  <2>1. A \cup F \in SUBSET Payments
    BY <1>5
  <2> QED
    BY <1>4, <1>5, <2>1, SumApart
<1>10. Sum(S) = ReceiptAmount({GatewayRow(o)}, "CONFIRMED")
                  + GatewayRow(o).review + GatewayRow(o).refund
  BY <1>3, <1>6, <1>7, <1>8, <1>9
<1> QED
  BY <1>10 DEF S

\* An open payment is in the list, and in rupees also in the amount that is under review.
LEMMA RowShowsReview ==
  ASSUME RowsInv, ReviewInv, AllCarry, NEW p \in Payments, attempts[p] # NoRow, Open(p)
  PROVE  LET row == GatewayRow(attempts[p].order) IN
         row.needsReview /\ (attempts[p].currency = "INR" => row.review >= attempts[p].amount)
<1> DEFINE o == attempts[p].order
           F == {q \in AttemptsOf(o) : ForStaff(q)}
<1>1. attempts[p] \in AttemptRow /\ p \in AttemptsOf(o) /\ o \in Orders
  BY OrderOfPayment DEF AttemptsOf, Of, AttemptRow
<1>2. GatewayRow(o).needsReview
  BY <1>1 DEF GatewayRow, NeedsReview
<1>3. SUFFICES ASSUME attempts[p].currency = "INR" PROVE GatewayRow(o).review >= attempts[p].amount
  BY <1>2
<1>4. ForStaff(p)
  <2>1. attempts[p].accounting = "APPLIED" => Linked(p) = attempts[p].receipt
    BY DEF Linked, ReviewInv, AllBooked, Booked
  <2>2. attempts[p].accounting \in {"REVIEW_REQUIRED", "APPLIED"}
    BY DEF Open
  <2>3. InRupees(p)
    BY <1>3, <2>2 DEF InRupees, ReviewInv, AllBooked, Booked
  <2> QED
    BY <2>1, <2>3 DEF Open, ForStaff
<1>5. GatewayRow(o).review = Sum(F)
  BY DEF GatewayRow, ReviewAmount
<1>6. p \in F /\ F \subseteq Payments
  BY <1>1, <1>4 DEF AttemptsOf, Of
<1> HIDE DEF F
<1>7. IsFiniteSet(F)
  BY <1>6, FS_Subset, RegisterAssumption
<1>8. attempts[p].amount \in 0 .. MaxMinor
  BY <1>1 DEF AttemptRow
<1>9. Cardinality(Paise({p}, attempts)) = attempts[p].amount
  BY <1>8, SumOfOneRow
<1>10. Cardinality(Paise({p}, attempts)) <= Cardinality(Paise(F, attempts))
  BY <1>6, <1>7, SumOfFewer
<1>11. Cardinality(Paise(F, attempts)) \in Nat
  BY <1>7, SumIsNatural
<1> QED
  BY <1>5, <1>8, <1>9, <1>10, <1>11 DEF Sum

\* The register tells all the money of an order and of the ledger, and each receipt once
\* (payments-report.repository.ts).
THEOREM ReviewRegisterTellsTheMoney == RSpec => []RegisterTellsTheMoney
<1>1. ASSUME RowsInv, ReviewInv, AllCarry PROVE RegisterTellsTheMoney
  BY <1>1, RegisterTotal, OneRowOfReceipt, RowTellsTheMoney, RowShowsReview
     DEF RegisterTellsTheMoney
<1>2. RowsInv /\ ReviewInv /\ AllCarry => RegisterTellsTheMoney
  BY <1>1
<1> QED
  BY <1>2, ReviewCarries, PTL
=============================================================================
