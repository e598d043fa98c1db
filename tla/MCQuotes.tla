----------------------------- MODULE MCQuotes -----------------------------
(* Small instances of Quotes, and of the invoices of Ledger below it, for TLC. *)
EXTENDS Quotes

MCSymmetry ==
  Permutations(Bookings) \cup Permutations(Guests) \cup Permutations(Invoices)
    \cup Permutations(Users) \cup Permutations(Sources)

April == {27}
TwoPlans == {<<2>>, <<1, 2>>}
OldAndNewNumbers == {-1, 1, 2}

\* A user the state knows of.
Busy(u) ==
  \/ review[u] # NoRow \/ draft[u] # NoRow
  \/ \E i \in Invoices : seen[u][i] # NoRow \/ (invoices[i] # NoRow /\ invoices[i].by = u)

\* Two scenes of one run.  In the first two users draft, issue and cancel two invoices while
\* legacy invoices are imported; in the second one user bills one booking from its quotes.
Invoicing ==
  /\ bookings = [b \in Bookings |-> NoRow]
  /\ ~ late /\ view = [g \in Guests |-> NoRow]
Quoting ==
  /\ \A i, j \in Invoices : (invoices[i] # NoRow /\ invoices[j] # NoRow) => i = j
  /\ \A i \in Invoices : invoices[i] # NoRow =>
       /\ invoices[i].source = Null
       /\ <<invoices[i].status, invoices[i].version>>
            \in {<<"DRAFT", 1>>, <<"ISSUED", 2>>, <<"CANCELLED", 3>>}
  /\ \A u, w \in Users : (Busy(u) /\ Busy(w)) => u = w
Scene == Invoicing \/ Quoting
=============================================================================
