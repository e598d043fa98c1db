------------------------------ MODULE MCReports ------------------------------
(* Small instances of Reports for TLC. *)
EXTENDS Reports, TLC

CONSTANTS i1, i2, c1, c2, l1, l2

MCSymmetry == Permutations(Receipts) \cup Permutations(Keys)

\* Numbers of another format, so that an import needs no free number of a series.
OldFormat == {-1, -2}

\* March and April: the last month of a financial year and the first of the next.
Spring == {26, 27}
EachTheirs == i1 :> c1 @@ i2 :> c2
OneDue == i1 :> 26 @@ i2 :> Null

\* Which number, source and key a row has, who has what on screen, and whether money came
\* by hand or through the gateway, does not matter to a report: each invoice is imported with
\* its own, and receipts are recorded by hand.
Theirs == i1 :> <<-1, l1>> @@ i2 :> <<-2, l2>>
Imported ==
  /\ \A u \in Users, i \in Invoices : seen[u][i] = NoRow
  /\ \A i \in Invoices : invoices[i] # NoRow =>
       invoices[i].status # "DRAFT" /\ <<invoices[i].number, invoices[i].source>> = Theirs[i]
  /\ \A r \in Receipts : receipts[r] # NoRow => receipts[r].method = "MANUAL"
=============================================================================
