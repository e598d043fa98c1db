------------------------- MODULE MCReconcileQueue -------------------------
(* A small instance of ReconcileQueue for TLC. *)
EXTENDS ReconcileQueue, TLC

\* Any two of the two workers and the request overlap, not all three.
AtMostTwoChecks == Cardinality({c \in Checks : runs[c] # Idle}) <= 2
=============================================================================
