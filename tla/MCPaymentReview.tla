-------------------------- MODULE MCPaymentReview --------------------------
(* A small instance of PaymentReview, and of the register that reports on it, for TLC. *)
EXTENDS PaymentsReport, TLC

MCSymmetry ==
  Permutations(Receipts) \cup Permutations(Payments) \cup Permutations(Checkers)
    \cup Permutations(Reviewers) \cup Permutations(References) \cup Permutations(DecisionKeys)

April == {27}
OneMilestone == <<2>>
\* Less than the order asks for, nothing, and as much of another currency.
OddMoney ==
  {[amount |-> 1, currency |-> "INR"], [amount |-> 0, currency |-> "INR"],
   [amount |-> 2, currency |-> "FOREIGN"]}

\* A payment that is not what the order asks comes beside one that is, and not to a ledger
\* with a reversed receipt.
IsOdd(p) == payments[p] # NoRow /\ (payments[p].amount # 2 \/ payments[p].currency # "INR")
OddOnce ==
  /\ \A p, q \in Payments : (IsOdd(p) /\ IsOdd(q)) => p = q
  /\ (\E p \in Payments : IsOdd(p)) =>
       \A r \in Receipts : receipts[r] # NoRow => receipts[r].status # "REVERSED"
=============================================================================
