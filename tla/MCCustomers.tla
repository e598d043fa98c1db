---------------------------- MODULE MCCustomers ----------------------------
(* A small instance of Customers for TLC, seen scene by scene. *)
EXTENDS Customers, TLC

CONSTANTS boss, aide, ann, bob

\* Two core administrators, a customer's account, and a person without one.
MCInitial == [a \in Accounts |->
  CASE a \in {boss, aide} -> [role |-> "CORE_ADMIN", status |-> "ACTIVE"]
    [] a = ann -> [role |-> "CUSTOMER", status |-> "ACTIVE"]
    [] a = bob -> NoRow]

MCAccesses ==
  {[role |-> "CORE_ADMIN", status |-> "ACTIVE"], [role |-> "CORE_ADMIN", status |-> "DEACTIVATED"],
   [role |-> "CORE_DATA_ENTRY", status |-> "ACTIVE"]}

MCSymmetry == Permutations(Handlers) \cup Permutations(Invitations)

Rows(f) == Cardinality({x \in DOMAIN f : f[x] # NoRow})
Busy(f) == Cardinality({x \in DOMAIN f : f[x] # Idle})

NoCustomers ==
  /\ companies = Companies /\ Rows(invitations) = 0 /\ Rows(recoveries) = 0 /\ Busy(calls) = 0
NoBrowsers == Rows(sessions) = 0 /\ Busy(requests) = 0
NoMailers == Busy(mailers) = 0 /\ \A link \in Links : mails[link].status \in {"NONE", "PENDING"}
AsAtFirst == accounts = Initial /\ Busy(changes) = 0

\* Requests of one session overlap, while it ends in any way.
Browsing ==
  /\ NoCustomers /\ accounts = Initial /\ Busy(changes) <= 1
  /\ \A r \in Requests : requests[r].pc = "login" => requests[r].account = boss
  /\ \A u \in Staff :
       changes[u] # Idle => changes[u].pc = "password" /\ changes[u].account = boss
\* Staff change accounts.
Administering == NoCustomers /\ NoBrowsers
\* Staff invite a person, whose email may be staff's by then, and the person activates.
Inviting ==
  /\ NoBrowsers /\ NoMailers /\ Rows(recoveries) = 0 /\ Busy(changes) = 0
  /\ \A a \in {boss, aide, ann} : accounts[a] = Initial[a]
  /\ \A i, j \in Invitations :
       (invitations[i] # NoRow /\ invitations[j] # NoRow) =>
         invitations[i].account = invitations[j].account
\* A member acts while access is revoked and given again.
Acting ==
  /\ NoMailers /\ AsAtFirst /\ Rows(recoveries) = 0
  /\ Rows(sessions) + Busy(requests) <= 1 /\ Rows(invitations) <= 3
  /\ \A s \in Sessions : sessions[s] \in {NoRow, Opened(ann)} /\ jars[s] \in {Null, 0} /\ lost = {}
  /\ \A i \in Invitations :
       invitations[i] # NoRow => invitations[i].account = ann /\ ~ invitations[i].expired
  /\ \A r \in Requests : requests[r].pc = "login" => requests[r].account = ann
\* A password is recovered and changed.
Recovering == NoMailers /\ AsAtFirst /\ Rows(invitations) = 0 /\ NoBrowsers
\* Mails are delivered while their links are used or end.
Delivering ==
  /\ NoBrowsers /\ AsAtFirst /\ companies = Companies /\ Busy(calls) <= 1
  /\ Rows(invitations) + Rows(recoveries) <= 1
OneScene ==
  Browsing \/ Administering \/ Inviting \/ Acting \/ Recovering \/ Delivering
=============================================================================
