---------------------------- MODULE MCLedgerTx ----------------------------
(* Small instances of LedgerTx for TLC. *)
EXTENDS LedgerTx, TLC

MCSymmetry ==
  Permutations(Receipts) \cup Permutations(Adjustments) \cup Permutations(Keys)
    \cup Permutations(Invoices) \cup Permutations(Sessions)

April == {27}
HalfRates == {0, 500000}
=============================================================================
