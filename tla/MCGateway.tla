---------------------------- MODULE MCGateway ----------------------------
(* Small instances of Gateway for TLC. *)
EXTENDS Gateway, TLC

MCSymmetry ==
  Permutations(Receipts) \cup Permutations(Orders) \cup Permutations(Payments)
    \cup Permutations(Customers) \cup Permutations(Checkers)

April == {27}
TwoMilestones == <<2, 1>>
\* Less than the first order asks for, and as much of another currency.
OddMoney == {[amount |-> 1, currency |-> "INR"], [amount |-> 2, currency |-> "FOREIGN"]}

NothingPaid == payments = [p \in Payments |-> NoRow] /\ \A c \in Checkers : procs[c] = Idle
NothingSettled ==
  /\ \A r \in Receipts : receipts[r] # NoRow => receipts[r].method = "GATEWAY"
  /\ \A x \in Adjustments : adjustments[x] = NoRow
OneOrder ==
  /\ Cardinality({o \in Orders : orders[o] # NoRow}) <= 1
  /\ Cardinality({c \in Customers : procs[c] # Idle}) <= 1
FirstMilestone ==
  /\ \A o \in Orders : orders[o] # NoRow => orders[o].milestone = 1
  /\ \A c \in Customers : procs[c].milestone \in {Null, 1}

\* Three scenes of one run: two customers check out one milestone twice while the staff do
\* nothing; one customer orders once while the staff settle and cancel; and one order is paid,
\* either while two checks of it overlap and staff change the booking or cancel the invoice, or
\* while a customer checks out again.
Racing ==
  /\ NothingPaid /\ NothingSettled /\ FirstMilestone
  /\ booking = "INVOICED" /\ RequireIssued(Invoice)
Settling == NothingPaid /\ OneOrder /\ booking \in {"INVOICED", "CANCELLED"}
Paying ==
  /\ NothingSettled /\ OneOrder /\ FirstMilestone
  /\ \/ /\ \A c \in Customers : procs[c] = Idle
        /\ booking = "INVOICED" \/ RequireIssued(Invoice)
     \/ /\ \A c \in Checkers : procs[c] = Idle
        /\ booking = "INVOICED" /\ RequireIssued(Invoice)
\* A payment that is not what its order asks is made while nobody else does anything, and
\* seen by one check at a time.
OddInPeace ==
  \A p \in Payments : payments[p] # NoRow =>
    \/ payments[p].amount = 2 /\ payments[p].currency = "INR"
    \/ /\ booking = "INVOICED" /\ RequireIssued(Invoice)
       /\ \A c \in Customers : procs[c] = Idle
       /\ Cardinality({c \in Checkers : procs[c] # Idle}) <= 1
OneScene == Racing \/ Settling \/ (Paying /\ OddInPeace)
=============================================================================
