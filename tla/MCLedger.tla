----------------------------- MODULE MCLedger -----------------------------
(* Small instances of Ledger for TLC. *)
EXTENDS Ledger, TLC

\* Row identities, keys and users are interchangeable.
MCSymmetry ==
  Permutations(Receipts) \cup Permutations(Keys) \cup Permutations(Users)
    \cup Permutations(Invoices) \cup Permutations(Sources)

\* March and April of one year: the last month of a financial year and the first of the next.
MarchApril == {26, 27}
=============================================================================
