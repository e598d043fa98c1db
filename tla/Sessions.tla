----------------------------- MODULE Sessions ------------------------------
(***************************************************************************)
(* Accounts and their sessions (src/src/modules/auth), with the operations   *)
(* of staff on accounts (core-identity.adapter.ts, driver.service.ts,         *)
(* profile.service.ts).                                                      *)
(*                                                                         *)
(* The browser of a session sends its token with every request, several at a  *)
(* time.  Once a day a request that presents the current token renews it: it   *)
(* finds the session, and replaces the token in a second statement; its answer *)
(* carries the new one and may be lost.  The replaced token is good for a      *)
(* minute more.                                                              *)
(*                                                                         *)
(* A password is the credential its owner knows; which one it is does not      *)
(* matter here.  findSessionByTokenHash also refuses a session opened before    *)
(* the last change of the password: each change revokes these itself.          *)
(***************************************************************************)
EXTENDS Integers, FiniteSets

CONSTANTS
  Accounts,   \* auth_accounts, each by its email
  Initial,    \* the accounts there are at first
  Sessions,   \* auth_sessions
  Requests,   \* requests on their way, of any browser
  Staff,      \* administrative requests on their way
  Accesses,   \* the roles and statuses staff may give core users
  MaxToken,   \* bound of the model on the renewals of one session
  Null

Core == {"CORE_ADMIN", "CORE_REPORT_VIEWER", "CORE_DATA_ENTRY"}
Roles == Core \cup {"ADMIN", "DRIVER", "CUSTOMER"}
Statuses == {"ACTIVE", "DEACTIVATED", "ARCHIVED"}
Account == [role : Roles, status : Statuses]
NoRow == [status |-> "NONE"]

\* A core administrator is provisioned before the service is used (create-core-admin.ts).
ASSUME SessionsAssumption ==
  /\ Initial \in [Accounts -> Account \cup {NoRow}]
  /\ \E a \in Accounts : Initial[a] = [role |-> "CORE_ADMIN", status |-> "ACTIVE"]
  /\ Accesses \subseteq [role : Core, status : Statuses]
  /\ MaxToken \in Nat

VARIABLES
  accounts,
  sessions,
  jars,       \* the cookie in the browser of each session
  lost,       \* sessions whose browser missed a renewal
  requests,
  changes     \* what each administrative request has read

sOwn == <<accounts, sessions, jars, lost, requests, changes>>

\* Tokens are numbered in the order they are made for a session.
Tokens == 0 .. MaxToken
Session ==
  [status : {"LIVE", "EXPIRED", "REVOKED", "DELETED"}, account : Accounts, token : Tokens,
   previous : Tokens \cup {Null}, grace : BOOLEAN, due : BOOLEAN]

Idle == [pc |-> "idle"]
Request ==
  {Idle} \cup [pc : {"login"}, account : Accounts]
    \cup [pc : {"find", "rotate", "answer"}, session : Sessions, token : Tokens]
Change ==
  {Idle} \cup [pc : {"access"}, account : Accounts, access : Accesses]
    \cup [pc : {"password"}, account : Accounts, by : {"self", "core", "driver"}]

Exists(a) == accounts[a] # NoRow
Active(a) == accounts[a].status = "ACTIVE"
SignedIn(s) == sessions[s].status = "LIVE" /\ Active(sessions[s].account)

\* The session a token is the key of: its current one, or the one before for a while.
Opens(token, s) ==
  sessions[s].token = token \/ (sessions[s].previous = token /\ sessions[s].grace)

-----------------------------------------------------------------------------
(* Browsers *)

\* authenticate(): the account is read and its password verified, and then the session opened.
Login(r, a) ==
  /\ requests[r] = Idle
  /\ Exists(a) /\ Active(a)
  /\ requests' = [requests EXCEPT ![r] = [pc |-> "login", account |-> a]]
  /\ UNCHANGED <<accounts, sessions, jars, lost, changes>>

Opened(a) ==
  [status |-> "LIVE", account |-> a, token |-> 0, previous |-> Null, grace |-> FALSE,
   due |-> FALSE]
OpenSession(r, s) ==
  /\ requests[r].pc = "login" /\ sessions[s] = NoRow
  /\ sessions' = [sessions EXCEPT ![s] = Opened(requests[r].account)]
  /\ \/ jars' = [jars EXCEPT ![s] = 0] /\ UNCHANGED lost
     \/ lost' = lost \cup {s} /\ UNCHANGED jars
  /\ requests' = [requests EXCEPT ![r] = Idle]
  /\ UNCHANGED <<accounts, changes>>

Send(r, s) ==
  /\ requests[r] = Idle /\ jars[s] # Null
  /\ requests' = [requests EXCEPT ![r] = [pc |-> "find", session |-> s, token |-> jars[s]]]
  /\ UNCHANGED <<accounts, sessions, jars, lost, changes>>

\* resolveSession(): only a request with the current token renews it, when that is due.
Renews(r) ==
  LET s == requests[r].session IN
  SignedIn(s) /\ sessions[s].token = requests[r].token /\ sessions[s].due
Resolve(r) ==
  /\ requests[r].pc = "find"
  /\ requests' = [requests EXCEPT ![r] =
       IF Renews(r) THEN [requests[r] EXCEPT !.pc = "rotate"] ELSE Idle]
  /\ UNCHANGED <<accounts, sessions, jars, lost, changes>>

\* rotateSession(): UPDATE ... WHERE the token is still the expected one.
BugNotExpected(r) == sessions[requests[r].session].status = "LIVE"
StillExpected(r) ==
  LET s == requests[r].session IN
  sessions[s].status = "LIVE" /\ sessions[s].token = requests[r].token
Renewed(row, expected) ==
  [row EXCEPT !.token = @ + 1, !.previous = expected, !.grace = TRUE, !.due = FALSE]

Rotate(r) ==
  LET s == requests[r].session
      token == sessions[s].token + 1
  IN
  /\ requests[r].pc = "rotate"
  /\ IF StillExpected(r)
     THEN /\ token \in Tokens
          /\ sessions' = [sessions EXCEPT ![s] = Renewed(@, requests[r].token)]
          /\ requests' = [requests EXCEPT ![r] = [pc |-> "answer", session |-> s, token |-> token]]
     ELSE /\ requests' = [requests EXCEPT ![r] = Idle]
          /\ UNCHANGED sessions
  /\ UNCHANGED <<accounts, jars, lost, changes>>

\* The answer sets the cookie, or is lost.
Answer(r) ==
  LET s == requests[r].session IN
  /\ requests[r].pc = "answer"
  /\ \/ jars' = [jars EXCEPT ![s] = requests[r].token] /\ UNCHANGED lost
     \/ lost' = lost \cup {s} /\ UNCHANGED jars
  /\ requests' = [requests EXCEPT ![r] = Idle]
  /\ UNCHANGED <<accounts, sessions, changes>>

\* logout(): the session the token opens ends; the cookie is cleared in any case.
Logout(s) ==
  /\ jars[s] # Null
  /\ sessions' = IF sessions[s].status \in {"LIVE", "EXPIRED"} /\ Opens(jars[s], s)
                 THEN [sessions EXCEPT ![s].status = "REVOKED"] ELSE sessions
  /\ jars' = [jars EXCEPT ![s] = Null]
  /\ UNCHANGED <<accounts, lost, requests, changes>>

-----------------------------------------------------------------------------
(* Time *)

\* A day has passed since the token was made, and the minute of the one before long ago.
RenewalDue(s) ==
  /\ sessions[s].status = "LIVE" /\ ~ sessions[s].due
  /\ sessions' = [sessions EXCEPT ![s].due = TRUE, ![s].grace = FALSE]
  /\ UNCHANGED <<accounts, jars, lost, requests, changes>>

GraceEnds(s) ==
  /\ sessions[s].status = "LIVE" /\ sessions[s].grace
  /\ sessions' = [sessions EXCEPT ![s].grace = FALSE]
  /\ UNCHANGED <<accounts, jars, lost, requests, changes>>

\* Three days without a renewal, or thirty days in all.
Expire(s) ==
  /\ sessions[s].status = "LIVE"
  /\ sessions' = [sessions EXCEPT ![s].status = "EXPIRED"]
  /\ UNCHANGED <<accounts, jars, lost, requests, changes>>

\* scripts/cleanup-sessions.ts
Cleanup(s) ==
  /\ sessions[s].status \in {"EXPIRED", "REVOKED"}
  /\ sessions' = [sessions EXCEPT ![s].status = "DELETED"]
  /\ UNCHANGED <<accounts, jars, lost, requests, changes>>

-----------------------------------------------------------------------------
(* Staff *)

\* UPDATE auth_sessions SET revoked_at: nothing of a row that is deleted.
SessionsRevoked(a) ==
  [s \in Sessions |->
     IF sessions[s] # NoRow /\ sessions[s].status # "DELETED" /\ sessions[s].account = a
     THEN [sessions[s] EXCEPT !.status = "REVOKED"] ELSE sessions[s]]

\* createUser(), DriverService.create() and the scripts: an email is one account's.
Create(a, role) ==
  /\ ~ Exists(a) /\ role # "CUSTOMER"
  /\ accounts' = [accounts EXCEPT ![a] = [role |-> role, status |-> "ACTIVE"]]
  /\ UNCHANGED <<sessions, jars, lost, requests, changes>>

\* updateUser(): one at a time (advisory lock 81002), with the row of the account locked.
Admin == [role |-> "CORE_ADMIN", status |-> "ACTIVE"]
Admins == {a \in Accounts : accounts[a] = Admin}
BugAccessNotLocked == FALSE
AccessLocked == \E u \in Staff : changes[u].pc = "access"
RowLocked(a) == \E u \in Staff : changes[u].pc = "access" /\ changes[u].account = a

KeepsAnAdmin(a, access) == a \notin Admins \/ access = Admin \/ \E b \in Admins : b # a
BeginAccess(u, a, access) ==
  /\ changes[u] = Idle /\ ~ AccessLocked /\ ~ RowLocked(a)
  /\ Exists(a) /\ accounts[a].role \in Core
  /\ KeepsAnAdmin(a, access)
  /\ changes' = [changes EXCEPT ![u] = [pc |-> "access", account |-> a, access |-> access]]
  /\ UNCHANGED <<accounts, sessions, jars, lost, requests>>
ChangeAccess(u) ==
  LET a == changes[u].account IN
  /\ changes[u].pc = "access"
  /\ accounts' = [accounts EXCEPT ![a] = changes[u].access]
  /\ sessions' = SessionsRevoked(a)
  /\ changes' = [changes EXCEPT ![u] = Idle]
  /\ UNCHANGED <<jars, lost, requests>>

\* A password is changed by its owner, a core administrator or the driver's administrator:
\* what is checked before the new one is hashed, and what by the UPDATE itself.
MayBegin(a, by) ==
  CASE by = "self"   -> accounts[a].role # "CUSTOMER" /\ accounts[a].status # "ARCHIVED"
    [] by = "core"   -> TRUE
    [] by = "driver" -> accounts[a].role = "DRIVER" /\ accounts[a].status # "ARCHIVED"
MayCommit(a, by) ==
  CASE by = "self"   -> TRUE
    [] by = "core"   -> accounts[a].role \in Core
    [] by = "driver" -> accounts[a].status # "ARCHIVED"

BeginPassword(u, a, by) ==
  /\ changes[u] = Idle /\ Exists(a) /\ MayBegin(a, by)
  /\ changes' = [changes EXCEPT ![u] = [pc |-> "password", account |-> a, by |-> by]]
  /\ UNCHANGED <<accounts, sessions, jars, lost, requests>>
ChangePassword(u) ==
  LET a == changes[u].account IN
  /\ changes[u].pc = "password" /\ ~ RowLocked(a)
  /\ sessions' = IF MayCommit(a, changes[u].by) THEN SessionsRevoked(a) ELSE sessions
  /\ changes' = [changes EXCEPT ![u] = Idle]
  /\ UNCHANGED <<accounts, jars, lost, requests>>

\* DriverService.changeStatus(): sessions are not touched, but only an active account's count.
ChangeDriver(a, status) ==
  /\ Exists(a) /\ accounts[a].role = "DRIVER"
  /\ accounts' = [accounts EXCEPT ![a].status = status]
  /\ UNCHANGED <<sessions, jars, lost, requests, changes>>

-----------------------------------------------------------------------------
SInit ==
  /\ accounts = Initial
  /\ sessions = [s \in Sessions |-> NoRow]
  /\ jars = [s \in Sessions |-> Null]
  /\ lost = {}
  /\ requests = [r \in Requests |-> Idle]
  /\ changes = [u \in Staff |-> Idle]

BrowserStep ==
  \/ \E r \in Requests, a \in Accounts : Login(r, a)
  \/ \E r \in Requests, s \in Sessions : OpenSession(r, s) \/ Send(r, s)
  \/ \E r \in Requests : Resolve(r) \/ Rotate(r) \/ Answer(r)
  \/ \E s \in Sessions : Logout(s)
SessionTime ==
  \E s \in Sessions : RenewalDue(s) \/ GraceEnds(s) \/ Expire(s) \/ Cleanup(s)
StaffStep ==
  \/ \E a \in Accounts, role \in Roles : Create(a, role)
  \/ \E u \in Staff, a \in Accounts :
       \/ \E access \in Accesses : BeginAccess(u, a, access)
       \/ \E by \in {"self", "core", "driver"} : BeginPassword(u, a, by)
  \/ \E u \in Staff : ChangeAccess(u) \/ ChangePassword(u)
  \/ \E a \in Accounts, status \in Statuses : ChangeDriver(a, status)
SNext == BrowserStep \/ SessionTime \/ StaffStep
SSpec == SInit /\ [][SNext]_sOwn

-----------------------------------------------------------------------------
(* Properties *)

\* The columns of auth_accounts and auth_sessions, and what requests remember.
STypeOK ==
  /\ accounts \in [Accounts -> Account \cup {NoRow}]
  /\ sessions \in [Sessions -> Session \cup {NoRow}]
  /\ jars \in [Sessions -> Tokens \cup {Null}]
  /\ lost \subseteq Sessions
  /\ requests \in [Requests -> Request]
  /\ changes \in [Staff -> Change]

\* However the changes of roles and statuses overlap, one active core administrator remains
\* (updateUser: LAST_CORE_ADMIN).
LastAdminRemains == Admins # {}

\* However the requests of a browser overlap, it holds the current token of its session or is
\* about to receive it, unless an answer was lost: no two of them renew one token, and no answer
\* that arrives late leaves it with a token that is not good any more.
BrowserKeepsSession ==
  \A s \in Sessions :
    (sessions[s].status = "LIVE" /\ jars[s] # Null /\ s \notin lost) =>
      \/ jars[s] = sessions[s].token
      \/ \E r \in Requests :
           requests[r].pc = "answer" /\ requests[r].session = s
             /\ requests[r].token = sessions[s].token
=============================================================================
