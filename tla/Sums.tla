-------------------------------- MODULE Sums --------------------------------
(***************************************************************************)
(* The sum of a column of natural numbers, counted as Paise of Ledger does:  *)
(* without recursion, so that the reports can be proved about.               *)
(***************************************************************************)
EXTENDS Naturals, FiniteSets

\* A column is a function from rows to numbers; it has n units for a row with n.
Units(column) == UNION {{x} \X (1 .. column[x]) : x \in DOMAIN column}
SumOf(column) == Cardinality(Units(column))
=============================================================================
