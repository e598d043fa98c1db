----------------------------- MODULE Receivable -----------------------------
(***************************************************************************)
(* What an invoice promises its customer and the company, whatever documents *)
(* it is made of: a claim that is opened once, with an amount that never      *)
(* changes again, that is settled by one document at a time between nothing    *)
(* and the amount, and that is closed for good only while nothing is settled.   *)
(* Ledger implements this specification: LedgerIsReceivable.                     *)
(***************************************************************************)
EXTENDS Integers

CONSTANT Bills

VARIABLES
  state,   \* of each bill: "PREPARED", "OPEN" or "CLOSED"
  claim,   \* the amount of each bill
  settled  \* how much of it is settled

rvars == <<state, claim, settled>>

Init ==
  /\ state = [b \in Bills |-> "PREPARED"]
  /\ claim = [b \in Bills |-> 0]
  /\ settled = [b \in Bills |-> 0]

Open(b) ==
  /\ state[b] = "PREPARED"
  /\ state' = [state EXCEPT ![b] = "OPEN"]
  /\ claim'[b] \in Nat
  /\ claim' = [claim EXCEPT ![b] = claim'[b]]
  /\ UNCHANGED settled

Settle(b) ==
  /\ state[b] = "OPEN"
  /\ settled'[b] \in 0 .. claim[b]
  /\ settled' = [settled EXCEPT ![b] = settled'[b]]
  /\ UNCHANGED <<state, claim>>

Close(b) ==
  /\ state[b] = "OPEN"
  /\ settled[b] = 0
  /\ state' = [state EXCEPT ![b] = "CLOSED"]
  /\ UNCHANGED <<claim, settled>>

Next == \E b \in Bills : Open(b) \/ Settle(b) \/ Close(b)

Spec == Init /\ [][Next]_rvars
=============================================================================
