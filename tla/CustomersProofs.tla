--------------------------- MODULE CustomersProofs ---------------------------
(***************************************************************************)
(* Theorems about Sessions and Customers, for any accounts, staff,          *)
(* companies, invitations and handlers.                                    *)
(***************************************************************************)
EXTENDS Customers, TLAPS

USE SessionsAssumption

-----------------------------------------------------------------------------
(* The inductive invariant of the accounts.  It says what an administrative  *)
(* request knows between its checks and its update: that is why the lock of  *)
(* updateUser() is enough.                                                 *)

AccountsTyped ==
  /\ accounts \in [Accounts -> Account \cup {NoRow}]
  /\ changes \in [Staff -> Change]

\* One request at a time changes the access of an account.
OneChange ==
  \A u, v \in Staff : (changes[u].pc = "access" /\ changes[v].pc = "access") => u = v

\* What it has found still holds: the account is a core user, and an administrator remains.
StillAllowed ==
  \A u \in Staff : changes[u].pc = "access" =>
    /\ accounts[changes[u].account].status # "NONE"
    /\ accounts[changes[u].account].role \in Core
    /\ KeepsAnAdmin(changes[u].account, changes[u].access)

AccountsInv == AccountsTyped /\ OneChange /\ StillAllowed /\ LastAdminRemains

\* A request in its "access" step has an account and the access it gives.
LEMMA ChangeRows ==
  ASSUME AccountsTyped, NEW u \in Staff, changes[u].pc = "access"
  PROVE  changes[u].account \in Accounts /\ changes[u].access \in Accesses
  BY DEF AccountsTyped, Change, Idle

LEMMA PasswordRows ==
  ASSUME AccountsTyped, NEW u \in Staff, changes[u].pc = "password"
  PROVE  changes[u].account \in Accounts
  BY DEF AccountsTyped, Change, Idle

LEMMA AccessIsAccount ==
  ASSUME NEW access \in Accesses
  PROVE  access \in Account
  BY DEF Account, Core, Roles

\* Initially an administrator exists and nobody changes anything.
LEMMA AccountsInitially == SInit => AccountsInv
<1> SUFFICES ASSUME SInit PROVE AccountsInv
  OBVIOUS
<1>1. AccountsTyped
  BY DEF SInit, AccountsTyped, Change
<1>2. \A u \in Staff : changes[u].pc # "access"
  BY DEF SInit, Idle
<1>3. LastAdminRemains
  BY DEF SInit, LastAdminRemains, Admins, Admin
<1> QED
  BY <1>1, <1>2, <1>3 DEF AccountsInv, OneChange, StillAllowed

\* Nothing that leaves the accounts and the administrative requests alone matters.
LEMMA AccountsUnchanged ==
  ASSUME AccountsInv, UNCHANGED <<accounts, changes>>
  PROVE  AccountsInv'
  BY DEF AccountsInv, AccountsTyped, OneChange, StillAllowed, LastAdminRemains, Admins,
         KeepsAnAdmin

\* A change of an account that is neither an administrator nor under change disturbs nothing:
\* creation, activation, and the changes of drivers.
LEMMA OtherAccount ==
  ASSUME AccountsInv, NEW a \in Accounts, NEW row \in Account,
         accounts' = [accounts EXCEPT ![a] = row], UNCHANGED changes,
         a \notin Admins,
         \A u \in Staff : changes[u].pc = "access" => changes[u].account # a
  PROVE  AccountsInv'
<1>1. AccountsTyped' /\ OneChange'
  BY DEF AccountsInv, AccountsTyped, OneChange
<1>2. \A b \in Accounts : b # a => accounts'[b] = accounts[b]
  BY DEF AccountsInv, AccountsTyped
<1>3. Admins \subseteq Admins'
  BY <1>2 DEF Admins
<1>4. \A b \in Accounts : b # a => (b \in Admins' <=> b \in Admins)
  BY <1>2 DEF Admins
<1>5. StillAllowed'
  <2> SUFFICES ASSUME NEW u \in Staff, changes[u].pc = "access"
               PROVE  /\ accounts'[changes[u].account].status # "NONE"
                      /\ accounts'[changes[u].account].role \in Core
                      /\ KeepsAnAdmin(changes[u].account, changes[u].access)'
    BY DEF StillAllowed
  <2>1. changes[u].account \in Accounts /\ changes[u].account # a
    BY ChangeRows DEF AccountsInv
  <2>2. KeepsAnAdmin(changes[u].account, changes[u].access)
    BY DEF AccountsInv, StillAllowed
  <2>3. KeepsAnAdmin(changes[u].account, changes[u].access)'
    BY <1>3, <1>4, <2>1, <2>2 DEF KeepsAnAdmin, Admin
  <2> QED
    BY <1>2, <2>1, <2>3 DEF AccountsInv, StillAllowed
<1> QED
  BY <1>1, <1>3, <1>5 DEF AccountsInv, LastAdminRemains

LEMMA CreateSafe ==
  ASSUME AccountsInv, NEW a \in Accounts, NEW role \in Roles, Create(a, role)
  PROVE  AccountsInv'
<1>1. accounts[a] = NoRow
  BY DEF Create, Exists
<1>2. a \notin Admins
  BY <1>1 DEF Admins, Admin, NoRow
<1>3. \A u \in Staff : changes[u].pc = "access" => changes[u].account # a
  BY <1>1 DEF AccountsInv, StillAllowed, NoRow
<1>4. [role |-> role, status |-> "ACTIVE"] \in Account
  BY DEF Account, Statuses
<1> QED
  BY <1>2, <1>3, <1>4, OtherAccount DEF Create

LEMMA ChangeDriverSafe ==
  ASSUME AccountsInv, NEW a \in Accounts, NEW status \in Statuses, ChangeDriver(a, status)
  PROVE  AccountsInv'
<1>1. accounts[a] \in Account /\ accounts[a].role = "DRIVER"
  BY DEF ChangeDriver, Exists, AccountsInv, AccountsTyped
<1>2. a \notin Admins
  BY <1>1 DEF Admins, Admin
<1>3. \A u \in Staff : changes[u].pc = "access" => changes[u].account # a
  BY <1>1 DEF AccountsInv, StillAllowed, Core
<1>4. [accounts[a] EXCEPT !.status = status] \in Account
  BY <1>1 DEF Account
<1>5. accounts' = [accounts EXCEPT ![a] = [accounts[a] EXCEPT !.status = status]]
  BY DEF ChangeDriver
<1> QED
  BY <1>2, <1>3, <1>4, <1>5, OtherAccount DEF ChangeDriver

\* The lock is taken, so no other request has it; and what is checked is what StillAllowed says.
LEMMA BeginAccessSafe ==
  ASSUME AccountsInv, NEW u \in Staff, NEW a \in Accounts, NEW access \in Accesses,
         BeginAccess(u, a, access)
  PROVE  AccountsInv'
<1>1. changes' = [changes EXCEPT ![u] = [pc |-> "access", account |-> a, access |-> access]]
  BY DEF BeginAccess
<1>2. UNCHANGED accounts
  BY DEF BeginAccess
<1>3. AccountsTyped'
  BY <1>1, <1>2 DEF AccountsInv, AccountsTyped, Change
<1>4. changes'[u] = [pc |-> "access", account |-> a, access |-> access]
  BY <1>1 DEF AccountsInv, AccountsTyped
<1>5. \A v \in Staff : v # u => changes'[v].pc # "access"
  BY <1>1 DEF AccountsInv, AccountsTyped, BeginAccess, AccessLocked
<1>6. OneChange'
  BY <1>5 DEF OneChange
<1>7. StillAllowed'
  <2>1. /\ accounts'[a].status # "NONE" /\ accounts'[a].role \in Core
    <3>1. accounts[a] \in Account /\ accounts[a].role \in Core
      BY DEF BeginAccess, Exists, AccountsInv, AccountsTyped
    <3> QED
      BY <1>2, <3>1 DEF Account, Statuses
  <2>2. KeepsAnAdmin(a, access)'
    BY <1>2 DEF BeginAccess, KeepsAnAdmin, Admins
  <2> QED
    BY <1>4, <1>5, <2>1, <2>2 DEF StillAllowed
<1>8. LastAdminRemains'
  BY <1>2 DEF AccountsInv, LastAdminRemains, Admins
<1> QED
  BY <1>3, <1>6, <1>7, <1>8 DEF AccountsInv

\* The administrator that KeepsAnAdmin promises is there after the update.
LEMMA ChangeAccessSafe ==
  ASSUME AccountsInv, NEW u \in Staff, ChangeAccess(u)
  PROVE  AccountsInv'
<1> DEFINE a == changes[u].account
           access == changes[u].access
<1>1. changes[u].pc = "access" /\ a \in Accounts /\ access \in Accesses
  BY ChangeRows DEF ChangeAccess, AccountsInv
<1>2. accounts' = [accounts EXCEPT ![a] = access]
  BY DEF ChangeAccess
<1>3. changes' = [changes EXCEPT ![u] = Idle]
  BY DEF ChangeAccess
<1>4. accounts'[a] = access /\ \A b \in Accounts : b # a => accounts'[b] = accounts[b]
  BY <1>1, <1>2 DEF AccountsInv, AccountsTyped
<1>5. AccountsTyped'
  BY <1>1, <1>2, <1>3, AccessIsAccount DEF AccountsInv, AccountsTyped, Change
<1>6. \A v \in Staff : changes'[v].pc # "access"
  BY <1>1, <1>3 DEF AccountsInv, AccountsTyped, OneChange, Idle
<1>7. LastAdminRemains'
  <2>1. a \notin Admins \/ access = Admin \/ \E b \in Admins : b # a
    BY <1>1 DEF AccountsInv, StillAllowed, KeepsAnAdmin
  <2>2. CASE a \notin Admins \/ \E b \in Admins : b # a
    <3>1. PICK b \in Admins : b # a
      BY <2>2 DEF AccountsInv, LastAdminRemains
    <3>2. b \in Admins'
      BY <1>4, <3>1 DEF Admins
    <3> QED
      BY <3>2 DEF LastAdminRemains
  <2>3. CASE access = Admin
    <3>1. a \in Admins'
      BY <1>1, <1>4, <2>3 DEF Admins, Admin
    <3> QED
      BY <3>1 DEF LastAdminRemains
  <2> QED
    BY <2>1, <2>2, <2>3
<1> QED
  BY <1>5, <1>6, <1>7 DEF AccountsInv, OneChange, StillAllowed

\* Changes of passwords leave access alone.
LEMMA PasswordSafe ==
  ASSUME AccountsInv, NEW u \in Staff,
         \/ \E a \in Accounts, by \in {"self", "core", "driver"} : BeginPassword(u, a, by)
         \/ ChangePassword(u)
  PROVE  AccountsInv'
<1>1. UNCHANGED accounts
  BY DEF BeginPassword, ChangePassword
<1>2. changes[u].pc # "access"
  BY DEF BeginPassword, ChangePassword, Idle
<1>3. \E row \in Change : row.pc # "access" /\ changes' = [changes EXCEPT ![u] = row]
  BY DEF BeginPassword, ChangePassword, Change, Idle
<1>4. AccountsTyped'
  BY <1>1, <1>3 DEF AccountsInv, AccountsTyped
<1>5. \A v \in Staff : changes'[v].pc = "access" => changes'[v] = changes[v]
  BY <1>3 DEF AccountsInv, AccountsTyped
<1>6. OneChange'
  BY <1>5 DEF AccountsInv, OneChange
<1>7. \A b \in Accounts, access \in Accesses : KeepsAnAdmin(b, access)' <=> KeepsAnAdmin(b, access)
  BY <1>1 DEF KeepsAnAdmin, Admins, Admin
<1>8. StillAllowed'
  <2> SUFFICES ASSUME NEW v \in Staff, changes'[v].pc = "access"
               PROVE  /\ accounts'[changes'[v].account].status # "NONE"
                      /\ accounts'[changes'[v].account].role \in Core
                      /\ KeepsAnAdmin(changes[v].account, changes[v].access)'
    BY DEF StillAllowed
  <2>1. changes[v].account \in Accounts /\ changes[v].access \in Accesses
    BY <1>5, ChangeRows DEF AccountsInv
  <2> QED
    BY <1>1, <1>5, <1>7, <2>1 DEF AccountsInv, StillAllowed
<1>9. LastAdminRemains'
  BY <1>1 DEF AccountsInv, LastAdminRemains, Admins
<1> QED
  BY <1>4, <1>6, <1>8, <1>9 DEF AccountsInv

\* Every step of Sessions keeps the invariant.
LEMMA AccountsStep ==
  ASSUME AccountsInv, SNext
  PROVE  AccountsInv'
<1>1. CASE BrowserStep \/ SessionTime
  <2>1. UNCHANGED <<accounts, changes>>
    BY <1>1 DEF BrowserStep, SessionTime, Login, OpenSession, Send, Resolve, Rotate, Answer,
                Logout, RenewalDue, GraceEnds, Expire, Cleanup
  <2> QED
    BY <2>1, AccountsUnchanged
<1>2. CASE StaffStep
  <2>1. CASE \E a \in Accounts, role \in Roles : Create(a, role)
    BY <2>1, CreateSafe
  <2>2. CASE \E u \in Staff, a \in Accounts, access \in Accesses : BeginAccess(u, a, access)
    BY <2>2, BeginAccessSafe
  <2>3. CASE \E u \in Staff, a \in Accounts, by \in {"self", "core", "driver"} :
               BeginPassword(u, a, by)
    BY <2>3, PasswordSafe
  <2>4. CASE \E u \in Staff : ChangeAccess(u)
    BY <2>4, ChangeAccessSafe
  <2>5. CASE \E u \in Staff : ChangePassword(u)
    BY <2>5, PasswordSafe
  <2>6. CASE \E a \in Accounts, status \in Statuses : ChangeDriver(a, status)
    BY <2>6, ChangeDriverSafe
  <2> QED
    BY <1>2, <2>1, <2>2, <2>3, <2>4, <2>5, <2>6 DEF StaffStep
<1> QED
  BY <1>1, <1>2 DEF SNext

\* However changes of access overlap with creations, passwords and changes of drivers, an
\* active core administrator remains (updateUser, LAST_CORE_ADMIN).
THEOREM SessionsLastAdmin == SSpec => []LastAdminRemains
<1>1. SInit => AccountsInv
  BY AccountsInitially
<1>2. AccountsInv /\ [SNext]_sOwn => AccountsInv'
  BY AccountsStep, AccountsUnchanged DEF sOwn
<1>3. AccountsInv => LastAdminRemains
  BY DEF AccountsInv
<1> QED
  BY <1>1, <1>2, <1>3, PTL DEF SSpec

-----------------------------------------------------------------------------
(* Sessions and the requests of browsers keep their types; a session is of an      *)
(* account, so a handler acts for one.                                       *)

SessionRows ==
  /\ sessions \in [Sessions -> Session \cup {NoRow}]
  /\ jars \in [Sessions -> Tokens \cup {Null}]
  /\ lost \subseteq Sessions
  /\ requests \in [Requests -> Request]

\* What a request holds in its steps.
LEMMA RequestRows ==
  ASSUME SessionRows, NEW r \in Requests
  PROVE  /\ requests[r].pc = "login" => requests[r].account \in Accounts
         /\ requests[r].pc \in {"find", "rotate", "answer"} =>
              requests[r].session \in Sessions /\ requests[r].token \in Tokens
  BY DEF SessionRows, Request, Idle

LEMMA SessionRowsInitially == SInit => SessionRows
  BY DEF SInit, SessionRows, Request

LEMMA RevokedRows ==
  ASSUME SessionRows, NEW a
  PROVE  SessionsRevoked(a) \in [Sessions -> Session \cup {NoRow}]
<1> SUFFICES ASSUME NEW s \in Sessions, sessions[s] # NoRow
             PROVE  [sessions[s] EXCEPT !.status = "REVOKED"] \in Session
  BY DEF SessionRows, SessionsRevoked
<1> QED
  BY DEF SessionRows, Session

LEMMA BrowserRows ==
  ASSUME SessionRows, BrowserStep
  PROVE  SessionRows'
<1>1. CASE \E r \in Requests, a \in Accounts : Login(r, a)
  <2>1. PICK r \in Requests, a \in Accounts : Login(r, a)
    BY <1>1
  <2>2. [pc |-> "login", account |-> a] \in Request
    BY DEF Request
  <2> QED
    BY <2>1, <2>2 DEF Login, SessionRows
<1>2. CASE \E r \in Requests, s \in Sessions : OpenSession(r, s)
  <2>1. PICK r \in Requests, s \in Sessions : OpenSession(r, s)
    BY <1>2
  <2>2. 0 \in Tokens /\ Idle \in Request
    BY SessionsAssumption DEF Tokens, Request
  <2>3. requests[r].account \in Accounts
    BY <2>1, RequestRows DEF OpenSession
  <2>4. Opened(requests[r].account) \in Session
    BY <2>2, <2>3 DEF Opened, Session
  <2> QED
    BY <2>1, <2>2, <2>4 DEF OpenSession, SessionRows
<1>3. CASE \E r \in Requests, s \in Sessions : Send(r, s)
  <2>1. PICK r \in Requests, s \in Sessions : Send(r, s)
    BY <1>3
  <2>2. [pc |-> "find", session |-> s, token |-> jars[s]] \in Request
    BY <2>1 DEF Send, SessionRows, Request
  <2> QED
    BY <2>1, <2>2 DEF Send, SessionRows
<1>4. CASE \E r \in Requests : Resolve(r)
  <2>1. PICK r \in Requests : Resolve(r)
    BY <1>4
  <2>2. [requests[r] EXCEPT !.pc = "rotate"] \in Request /\ Idle \in Request
    BY <2>1 DEF Resolve, SessionRows, Request, Idle
  <2> QED
    BY <2>1, <2>2 DEF Resolve, SessionRows
<1>5. CASE \E r \in Requests : Rotate(r)
  <2>1. PICK r \in Requests : Rotate(r)
    BY <1>5
  <2>2. Idle \in Request
    BY DEF Request
  <2>3. CASE StillExpected(r)
    <3> DEFINE s == requests[r].session
               token == sessions[s].token + 1
               row == Renewed(sessions[s], requests[r].token)
    <3>1. /\ token \in Tokens
          /\ sessions' = [sessions EXCEPT ![s] = row]
          /\ requests' = [requests EXCEPT ![r] =
                            [pc |-> "answer", session |-> s, token |-> token]]
          /\ UNCHANGED <<jars, lost>>
      BY <2>1, <2>3 DEF Rotate
    <3>2. s \in Sessions /\ requests[r].token \in Tokens
      BY <2>1, RequestRows DEF Rotate
    <3>3. sessions[s] \in Session
      BY <2>3, <3>2 DEF StillExpected, SessionRows, NoRow
    <3>4. row \in Session
      BY <3>1, <3>2, <3>3 DEF Renewed, Session
    <3>5. [pc |-> "answer", session |-> s, token |-> token] \in Request
      BY <3>1, <3>2 DEF Request
    <3> HIDE DEF s, token, row
    <3> QED
      BY <3>1, <3>2, <3>4, <3>5 DEF SessionRows
  <2>4. CASE ~ StillExpected(r)
    BY <2>1, <2>2, <2>4 DEF Rotate, SessionRows
  <2> QED
    BY <2>3, <2>4
<1>6. CASE \E r \in Requests : Answer(r)
  <2>1. PICK r \in Requests : Answer(r)
    BY <1>6
  <2>2. Idle \in Request /\ requests[r].session \in Sessions /\ requests[r].token \in Tokens
    BY <2>1, RequestRows DEF Answer, Request
  <2> QED
    BY <2>1, <2>2 DEF Answer, SessionRows
<1>7. CASE \E s \in Sessions : Logout(s)
  <2>1. PICK s \in Sessions : Logout(s)
    BY <1>7
  <2>2. sessions[s].status \in {"LIVE", "EXPIRED"} => sessions[s] \in Session
    BY DEF SessionRows, NoRow
  <2>3. sessions[s] \in Session => [sessions[s] EXCEPT !.status = "REVOKED"] \in Session
    BY DEF Session
  <2> QED
    BY <2>1, <2>2, <2>3 DEF Logout, SessionRows
<1> QED
  BY <1>1, <1>2, <1>3, <1>4, <1>5, <1>6, <1>7 DEF BrowserStep

LEMMA TimeRows ==
  ASSUME SessionRows, SessionTime
  PROVE  SessionRows'
<1>1. PICK s \in Sessions : RenewalDue(s) \/ GraceEnds(s) \/ Expire(s) \/ Cleanup(s)
  BY DEF SessionTime
<1>2. UNCHANGED <<jars, lost, requests>> /\ sessions[s].status # "NONE"
  BY <1>1 DEF RenewalDue, GraceEnds, Expire, Cleanup
<1>3. sessions[s] \in Session
  BY <1>2 DEF SessionRows, NoRow
<1>4. \E row \in Session : sessions' = [sessions EXCEPT ![s] = row]
  <2>1. CASE RenewalDue(s)
    <3>1. [sessions[s] EXCEPT !.due = TRUE, !.grace = FALSE] \in Session
      BY <1>3 DEF Session
    <3>2. sessions' = [sessions EXCEPT ![s] = [sessions[s] EXCEPT !.due = TRUE, !.grace = FALSE]]
      BY <2>1 DEF RenewalDue, SessionRows
    <3> QED
      BY <3>1, <3>2
  <2>2. CASE GraceEnds(s)
    BY <1>3, <2>2 DEF GraceEnds, Session
  <2>3. CASE Expire(s)
    BY <1>3, <2>3 DEF Expire, Session
  <2>4. CASE Cleanup(s)
    BY <1>3, <2>4 DEF Cleanup, Session
  <2> QED
    BY <1>1, <2>1, <2>2, <2>3, <2>4
<1> QED
  BY <1>2, <1>4 DEF SessionRows

LEMMA StaffRows ==
  ASSUME SessionRows, StaffStep
  PROVE  SessionRows'
<1>1. UNCHANGED <<jars, lost, requests>>
  BY DEF StaffStep, Create, BeginAccess, ChangeAccess, BeginPassword, ChangePassword, ChangeDriver
<1>2. UNCHANGED sessions \/ \E a : sessions' = SessionsRevoked(a)
  BY DEF StaffStep, Create, BeginAccess, ChangeAccess, BeginPassword, ChangePassword, ChangeDriver
<1> QED
  BY <1>1, <1>2, RevokedRows DEF SessionRows

LEMMA SessionRowsStep ==
  ASSUME SessionRows, CNext
  PROVE  SessionRows'
<1>1. CASE SNext
  BY <1>1, BrowserRows, TimeRows, StaffRows DEF SNext
<1>2. CASE InvitationStep \/ ActStep \/ MailStep
  <2>1. UNCHANGED <<sessions, jars, lost, requests>>
    BY <1>2 DEF InvitationStep, BeginInvite, Invite, Preview, BeginActivate, Activate,
                RevokeInvitation, InvitationExpires, RevokeMembership, SetCompany,
                ActStep, Check, Authorize, End,
                MailStep, Take, Post, Settle, MailerCrash, MailDue, sOwn
  <2> QED
    BY <2>1 DEF SessionRows
<1>3. CASE PasswordStep
  <2>1. UNCHANGED <<jars, lost, requests>>
    BY <1>3 DEF PasswordStep, Recover, BeginReset, Reset, ChangeOwnPassword, NewPassword,
                RecoveryAges, sOwn
  <2>2. UNCHANGED sessions \/ \E a : sessions' = SessionsRevoked(a)
    BY <1>3 DEF PasswordStep, Recover, BeginReset, Reset, ChangeOwnPassword, NewPassword,
                RecoveryAges, sOwn
  <2> QED
    BY <2>1, <2>2, RevokedRows DEF SessionRows
<1> QED
  BY <1>1, <1>2, <1>3 DEF CNext

LEMMA SessionRowsAlways == CSpec => []SessionRows
<1>1. CInit => SessionRows
  BY SessionRowsInitially DEF CInit
<1>2. SessionRows /\ [CNext]_cVars => SessionRows'
  BY SessionRowsStep DEF cVars, sOwn, SessionRows
<1> QED
  BY <1>1, <1>2, PTL DEF CSpec

-----------------------------------------------------------------------------
(* Tokens.  Unless an answer was lost, at most one answer of a session is under    *)
(* way, it carries the current token, and nobody has that token before it arrives.  *)

Asking(r, s) == requests[r].pc \in {"find", "rotate"} /\ requests[r].session = s
Answering(r, s) == requests[r].pc = "answer" /\ requests[r].session = s

TokensOf(s) ==
  /\ sessions[s] = NoRow =>
       jars[s] = Null /\ \A r \in Requests : ~ Asking(r, s) /\ ~ Answering(r, s)
  /\ \A r \in Requests : Answering(r, s) => requests[r].token = sessions[s].token
  /\ \A r, q \in Requests : Answering(r, s) /\ Answering(q, s) => r = q
  /\ \A q \in Requests : Asking(q, s) => requests[q].token <= sessions[s].token
  /\ \A r, q \in Requests :
       Answering(r, s) /\ Asking(q, s) => requests[q].token < sessions[s].token
  /\ jars[s] # Null => jars[s] <= sessions[s].token
  /\ \A r \in Requests : Answering(r, s) /\ jars[s] # Null => jars[s] < sessions[s].token
  /\ jars[s] # Null /\ (\A r \in Requests : ~ Answering(r, s)) => jars[s] = sessions[s].token
TokensInv == \A s \in Sessions : s \notin lost => TokensOf(s)

LEMMA TokensUnchanged ==
  ASSUME TokensInv, UNCHANGED <<jars, lost, requests>>,
         \A s \in Sessions : /\ sessions'[s] = NoRow <=> sessions[s] = NoRow
                             /\ sessions'[s].token = sessions[s].token
  PROVE  TokensInv'
  BY DEF TokensInv, TokensOf, Asking, Answering

LEMMA RevokedTokens ==
  ASSUME SessionRows, NEW a, sessions' = SessionsRevoked(a), NEW s \in Sessions
  PROVE  /\ sessions'[s] = NoRow <=> sessions[s] = NoRow
         /\ sessions'[s].token = sessions[s].token
<1>1. CASE sessions'[s] = sessions[s]
  BY <1>1
<1>2. CASE sessions'[s] # sessions[s]
  <2>1. sessions[s] \in Session /\ sessions'[s] = [sessions[s] EXCEPT !.status = "REVOKED"]
    BY <1>2 DEF SessionRows, SessionsRevoked
  <2> QED
    BY <2>1 DEF Session, NoRow
<1> QED
  BY <1>1, <1>2

\* A request that becomes idle, or keeps its session and token, changes nothing.
LEMMA RequestLeaves ==
  ASSUME SessionRows, TokensInv, UNCHANGED <<sessions, jars, lost>>, NEW r \in Requests,
         ~ \E s \in Sessions : Answering(r, s),
         NEW row, requests' = [requests EXCEPT ![r] = row],
         \/ row.pc \in {"idle", "login"}
         \/ row.pc = "rotate" /\ requests[r].pc = "find" /\ row.session = requests[r].session
              /\ row.token = requests[r].token
  PROVE  TokensInv'
<1>1. requests'[r] = row /\ \A q \in Requests : q # r => requests'[q] = requests[q]
  BY DEF SessionRows
<1>2. \A s \in Sessions, q \in Requests : Answering(q, s)' <=> Answering(q, s)
  BY <1>1 DEF Answering
<1>3. \A s \in Sessions, q \in Requests : Asking(q, s)' => Asking(q, s)
  BY <1>1 DEF Asking
<1>4. \A s \in Sessions, q \in Requests :
        Asking(q, s)' \/ Answering(q, s) => requests'[q].token = requests[q].token
  BY <1>1 DEF Asking, Answering
<1> SUFFICES ASSUME NEW s \in Sessions, s \notin lost PROVE TokensOf(s)'
  BY DEF TokensInv
<1>5. TokensOf(s)
  BY DEF TokensInv
<1> QED
  BY <1>2, <1>3, <1>4, <1>5 DEF TokensOf

LEMMA LoginTokens ==
  ASSUME SessionRows, TokensInv, NEW r \in Requests, NEW a \in Accounts, Login(r, a)
  PROVE  TokensInv'
<1>1. ~ \E s \in Sessions : Answering(r, s)
  BY DEF Login, Answering, Idle
<1>2. [pc |-> "login", account |-> a].pc \in {"idle", "login"}
  OBVIOUS
<1> QED
  BY <1>1, <1>2, RequestLeaves DEF Login

LEMMA ResolveTokens ==
  ASSUME SessionRows, TokensInv, NEW r \in Requests, Resolve(r)
  PROVE  TokensInv'
<1>1. requests[r] \in [pc : {"find", "rotate", "answer"}, session : Sessions, token : Tokens]
  BY DEF Resolve, SessionRows, Request, Idle
<1>2. CASE Renews(r)
  <2>1. requests' = [requests EXCEPT ![r] = [requests[r] EXCEPT !.pc = "rotate"]]
    BY <1>2 DEF Resolve
  <2> QED
    BY <1>1, <2>1, RequestLeaves DEF Resolve, Answering
<1>3. CASE ~ Renews(r)
  BY <1>3, RequestLeaves DEF Resolve, Answering, Idle
<1> QED
  BY <1>2, <1>3

\* Only a request that has the current token renews it, so no answer is under way.
LEMMA RotateTokens ==
  ASSUME SessionRows, TokensInv, NEW r \in Requests, Rotate(r)
  PROVE  TokensInv'
<1>1. CASE ~ StillExpected(r)
  BY <1>1, RequestLeaves DEF Rotate, Answering, Idle
<1>2. CASE StillExpected(r)
  <2>1. PICK s \in Sessions, token \in Tokens :
             /\ s = requests[r].session /\ token = requests[r].token
             /\ token = sessions[s].token /\ sessions[s].status = "LIVE"
    BY <1>2, RequestRows DEF Rotate, StillExpected
  <2>2. sessions[s] \in Session
    BY <2>1 DEF SessionRows, NoRow
  <2>3. PICK row : row = Renewed(sessions[s], token)
    OBVIOUS
  <2>4. row.token = token + 1 /\ row # NoRow
    BY <2>1, <2>2, <2>3 DEF Renewed, Session, NoRow
  <2>5. /\ sessions' = [sessions EXCEPT ![s] = row]
        /\ requests' = [requests EXCEPT ![r] =
                          [pc |-> "answer", session |-> s, token |-> token + 1]]
        /\ UNCHANGED <<jars, lost>>
    BY <1>2, <2>1, <2>3 DEF Rotate
  <2>6. Asking(r, s) /\ \A z \in Sessions : z # s => ~ Asking(r, z) /\ ~ Answering(r, z)
    BY <2>1 DEF Rotate, Asking, Answering
  <2>7. sessions'[s].token = token + 1 /\ sessions'[s] # NoRow
    BY <2>4, <2>5 DEF SessionRows
  <2>8. \A z \in Sessions : z # s => sessions'[z] = sessions[z]
    BY <2>5 DEF SessionRows
  <2>9. /\ requests'[r].pc = "answer" /\ requests'[r].session = s
        /\ requests'[r].token = token + 1
        /\ \A q \in Requests : q # r => requests'[q] = requests[q]
    BY <2>5 DEF SessionRows
  <2>10. ASSUME s \notin lost PROVE TokensOf(s)'
    <3>1. TokensOf(s)
      BY <2>1, <2>10 DEF TokensInv
    <3>2. sessions[s].token = token
      BY <2>1
    <3>3. token \in Nat
      BY SessionsAssumption DEF Tokens
    <3>4. \A q \in Requests : ~ Answering(q, s)
      <4> SUFFICES ASSUME NEW q \in Requests, Answering(q, s) PROVE FALSE
        OBVIOUS
      <4>1. requests[r].token < sessions[s].token
        BY <2>6, <3>1 DEF TokensOf
      <4> QED
        BY <2>1, <3>3, <4>1
    <3>5. \A q \in Requests : Answering(q, s)' => q = r
      BY <2>9, <3>4 DEF Answering
    <3>6. \A q \in Requests : Asking(q, s)' => Asking(q, s) /\ requests'[q] = requests[q]
      BY <2>9 DEF Asking
    <3>7. \A q \in Requests :
            Asking(q, s) => requests[q].token <= token /\ requests[q].token \in Nat
      BY <3>1, <3>2, RequestRows, SessionsAssumption DEF TokensOf, Asking, Tokens
    <3>8. jars[s] # Null => jars[s] = token
      BY <3>1, <3>2, <3>4 DEF TokensOf
    <3>9. Answering(r, s)'
      BY <2>9 DEF Answering
    <3> QED
      BY <2>5, <2>7, <2>9, <3>3, <3>5, <3>6, <3>7, <3>8, <3>9 DEF TokensOf
  <2>11. ASSUME NEW z \in Sessions, z # s, z \notin lost PROVE TokensOf(z)'
    <3>1. TokensOf(z)
      BY <2>11 DEF TokensInv
    <3>2. \A q \in Requests : /\ Asking(q, z)' <=> Asking(q, z)
                              /\ Answering(q, z)' <=> Answering(q, z)
      BY <2>6, <2>9, <2>11 DEF Asking, Answering
    <3>3. \A q \in Requests : Asking(q, z) \/ Answering(q, z) => requests'[q] = requests[q]
      BY <2>6, <2>9, <2>11
    <3>4. sessions'[z] = sessions[z] /\ jars'[z] = jars[z]
      BY <2>5, <2>8, <2>11
    <3> QED
      BY <3>1, <3>2, <3>3, <3>4 DEF TokensOf
  <2> QED
    BY <2>5, <2>10, <2>11 DEF TokensInv
<1> QED
  BY <1>1, <1>2

LEMMA OpenTokens ==
  ASSUME SessionRows, TokensInv, NEW r \in Requests, NEW s \in Sessions, OpenSession(r, s)
  PROVE  TokensInv'
<1> DEFINE row == Opened(requests[r].account)
<1>1. row.token = 0 /\ row # NoRow
  BY DEF Opened, NoRow
<1>2. /\ sessions' = [sessions EXCEPT ![s] = row]
      /\ requests' = [requests EXCEPT ![r] = Idle]
      /\ sessions[s] = NoRow /\ requests[r].pc = "login"
      /\ \/ jars' = [jars EXCEPT ![s] = 0] /\ UNCHANGED lost
         \/ lost' = lost \cup {s} /\ UNCHANGED jars
  BY DEF OpenSession
<1> HIDE DEF row
<1> SUFFICES ASSUME NEW z \in Sessions, z \notin lost' PROVE TokensOf(z)'
  BY DEF TokensInv
<1>3. TokensOf(z) /\ z \notin lost
  BY <1>2 DEF TokensInv
<1>4. \A q \in Requests : /\ Asking(q, z)' <=> Asking(q, z)
                          /\ Answering(q, z)' <=> Answering(q, z)
                          /\ Asking(q, z) \/ Answering(q, z) => requests'[q] = requests[q]
  BY <1>2 DEF SessionRows, Asking, Answering, Idle
<1>5. CASE z = s
  <2>1. jars'[s] = 0 /\ sessions'[s].token = 0 /\ sessions'[s] # NoRow
    BY <1>1, <1>2, <1>5 DEF SessionRows
  <2>2. \A q \in Requests : ~ Asking(q, s)' /\ ~ Answering(q, s)'
    BY <1>2, <1>3, <1>4, <1>5 DEF TokensOf
  <2> QED
    BY <1>5, <2>1, <2>2 DEF TokensOf
<1>6. CASE z # s
  <2>1. sessions'[z] = sessions[z] /\ jars'[z] = jars[z]
    BY <1>2, <1>6 DEF SessionRows
  <2> QED
    BY <1>3, <1>4, <2>1 DEF TokensOf
<1> QED
  BY <1>5, <1>6

LEMMA SendTokens ==
  ASSUME SessionRows, TokensInv, NEW r \in Requests, NEW s \in Sessions, Send(r, s)
  PROVE  TokensInv'
<1>1. /\ requests' = [requests EXCEPT ![r] = [pc |-> "find", session |-> s, token |-> jars[s]]]
      /\ jars[s] # Null /\ requests[r] = Idle
      /\ UNCHANGED <<sessions, jars, lost>>
  BY DEF Send
<1>2. /\ requests'[r].pc = "find" /\ requests'[r].session = s /\ requests'[r].token = jars[s]
      /\ \A q \in Requests : q # r => requests'[q] = requests[q]
  BY <1>1 DEF SessionRows
<1> SUFFICES ASSUME NEW z \in Sessions, z \notin lost PROVE TokensOf(z)'
  BY <1>1 DEF TokensInv
<1>3. TokensOf(z)
  BY DEF TokensInv
<1>4. \A q \in Requests : Answering(q, z)' <=> Answering(q, z)
  BY <1>1, <1>2 DEF Answering, Idle
<1>5. \A q \in Requests : Answering(q, z) => requests'[q] = requests[q]
  BY <1>1, <1>2 DEF Answering, Idle
<1>6. \A q \in Requests : Asking(q, z)' =>
        \/ Asking(q, z) /\ requests'[q] = requests[q]
        \/ z = s /\ requests'[q].token = jars[z]
  BY <1>1, <1>2 DEF Asking, Idle
<1>7. sessions[s] # NoRow \/ z # s
  BY <1>1, <1>3 DEF TokensOf
<1> QED
  BY <1>1, <1>3, <1>4, <1>5, <1>6, <1>7 DEF TokensOf

\* The answer that arrives is the only one of its session.
LEMMA AnswerTokens ==
  ASSUME SessionRows, TokensInv, NEW r \in Requests, Answer(r)
  PROVE  TokensInv'
<1>1. PICK s \in Sessions, token \in Tokens :
           Answering(r, s) /\ token = requests[r].token
  BY RequestRows DEF Answer, Answering
<1>2. /\ UNCHANGED sessions
      /\ requests' = [requests EXCEPT ![r] = Idle]
      /\ \/ jars' = [jars EXCEPT ![s] = token] /\ UNCHANGED lost
         \/ lost' = lost \cup {s} /\ UNCHANGED jars
  BY <1>1 DEF Answer, Answering
<1>3. requests'[r] = Idle /\ \A q \in Requests : q # r => requests'[q] = requests[q]
  BY <1>2 DEF SessionRows
<1> SUFFICES ASSUME NEW z \in Sessions, z \notin lost' PROVE TokensOf(z)'
  BY DEF TokensInv
<1>4. TokensOf(z) /\ z \notin lost
  BY <1>2 DEF TokensInv
<1>5. \A q \in Requests : Asking(q, z)' => Asking(q, z) /\ requests'[q] = requests[q]
  BY <1>3 DEF Asking, Idle
<1>6. \A q \in Requests : Answering(q, z)' =>
        q # r /\ Answering(q, z) /\ requests'[q] = requests[q]
  BY <1>3 DEF Answering, Idle
<1>7. CASE z = s
  <2>1. token = sessions[s].token /\ \A q \in Requests : ~ Answering(q, s)'
    BY <1>1, <1>4, <1>6, <1>7 DEF TokensOf
  <2>2. jars'[s] = token
    BY <1>1, <1>2, <1>7 DEF SessionRows
  <2>3. sessions[s] # NoRow
    BY <1>1, <1>4, <1>7 DEF TokensOf
  <2>4. token \in Nat
    BY SessionsAssumption DEF Tokens
  <2>5. \A q \in Requests : Asking(q, s)' => requests'[q].token <= token
    BY <1>4, <1>5, <1>7, <2>1 DEF TokensOf
  <2> QED
    BY <1>2, <1>7, <2>1, <2>2, <2>3, <2>4, <2>5 DEF TokensOf
<1>8. CASE z # s
  <2>1. jars'[z] = jars[z] /\ sessions'[z] = sessions[z]
    BY <1>2, <1>8 DEF SessionRows
  <2>2. ~ Answering(r, z)
    BY <1>1, <1>8 DEF Answering
  <2>3. \A q \in Requests : Answering(q, z)' <=> Answering(q, z)
    BY <1>3, <1>6, <2>2 DEF Answering
  <2> QED
    BY <1>4, <1>5, <1>6, <2>1, <2>3 DEF TokensOf
<1> QED
  BY <1>7, <1>8

LEMMA LogoutTokens ==
  ASSUME SessionRows, TokensInv, NEW s \in Sessions, Logout(s)
  PROVE  TokensInv'
<1>1. jars' = [jars EXCEPT ![s] = Null] /\ UNCHANGED <<lost, requests>>
  BY DEF Logout
<1>2. \A z \in Sessions : /\ sessions'[z] = NoRow <=> sessions[z] = NoRow
                          /\ sessions'[z].token = sessions[z].token
  <2>1. sessions[s].status \in {"LIVE", "EXPIRED"} => sessions[s] \in Session
    BY DEF SessionRows, NoRow
  <2>2. sessions[s] \in Session =>
          [sessions[s] EXCEPT !.status = "REVOKED"].token = sessions[s].token
    BY DEF Session
  <2> QED
    BY <2>1, <2>2 DEF Logout, SessionRows, NoRow
<1> SUFFICES ASSUME NEW z \in Sessions, z \notin lost PROVE TokensOf(z)'
  BY <1>1 DEF TokensInv
<1>3. TokensOf(z) /\ (jars'[z] = Null \/ jars'[z] = jars[z])
  BY <1>1 DEF TokensInv, SessionRows
<1> QED
  BY <1>1, <1>2, <1>3 DEF TokensOf, Asking, Answering

LEMMA TimeTokens ==
  ASSUME SessionRows, TokensInv, SessionTime
  PROVE  TokensInv'
<1>1. PICK s \in Sessions : RenewalDue(s) \/ GraceEnds(s) \/ Expire(s) \/ Cleanup(s)
  BY DEF SessionTime
<1>2. UNCHANGED <<jars, lost, requests>> /\ sessions[s].status # "NONE"
  BY <1>1 DEF RenewalDue, GraceEnds, Expire, Cleanup
<1>3. sessions[s] \in Session
  BY <1>2 DEF SessionRows, NoRow
<1>4. \A z \in Sessions : z # s => sessions'[z] = sessions[z]
  BY <1>1 DEF RenewalDue, GraceEnds, Expire, Cleanup, SessionRows
<1>5. sessions'[s].token = sessions[s].token
  BY <1>1, <1>3 DEF RenewalDue, GraceEnds, Expire, Cleanup, SessionRows, Session
<1>6. sessions'[s] # NoRow
  BY <1>1, <1>2, TimeRows DEF SessionRows, NoRow, RenewalDue, GraceEnds, Expire, Cleanup
<1>7. sessions[s] # NoRow
  BY <1>2 DEF NoRow
<1> QED
  BY <1>2, <1>4, <1>5, <1>6, <1>7, TokensUnchanged

LEMMA TokensStep ==
  ASSUME SessionRows, TokensInv, CNext
  PROVE  TokensInv'
<1>1. CASE BrowserStep
  BY <1>1, LoginTokens, OpenTokens, SendTokens, ResolveTokens, RotateTokens, AnswerTokens,
     LogoutTokens DEF BrowserStep
<1>2. CASE SessionTime
  BY <1>2, TimeTokens
<1>3. CASE StaffStep
  <2>1. UNCHANGED <<jars, lost, requests>>
    BY <1>3 DEF StaffStep, Create, BeginAccess, ChangeAccess, BeginPassword, ChangePassword,
                ChangeDriver
  <2>2. UNCHANGED sessions \/ \E a : sessions' = SessionsRevoked(a)
    BY <1>3 DEF StaffStep, Create, BeginAccess, ChangeAccess, BeginPassword, ChangePassword,
                ChangeDriver
  <2> QED
    BY <2>1, <2>2, RevokedTokens, TokensUnchanged
<1>4. CASE InvitationStep \/ ActStep \/ MailStep
  <2>1. UNCHANGED <<sessions, jars, lost, requests>>
    BY <1>4 DEF InvitationStep, BeginInvite, Invite, Preview, BeginActivate, Activate,
                RevokeInvitation, InvitationExpires, RevokeMembership, SetCompany,
                ActStep, Check, Authorize, End,
                MailStep, Take, Post, Settle, MailerCrash, MailDue, sOwn
  <2> QED
    BY <2>1, TokensUnchanged
<1>5. CASE PasswordStep
  <2>1. UNCHANGED <<jars, lost, requests>>
    BY <1>5 DEF PasswordStep, Recover, BeginReset, Reset, ChangeOwnPassword, NewPassword,
                RecoveryAges, sOwn
  <2>2. UNCHANGED sessions \/ \E a : sessions' = SessionsRevoked(a)
    BY <1>5 DEF PasswordStep, Recover, BeginReset, Reset, ChangeOwnPassword, NewPassword,
                RecoveryAges, sOwn
  <2> QED
    BY <2>1, <2>2, RevokedTokens, TokensUnchanged
<1> QED
  BY <1>1, <1>2, <1>3, <1>4, <1>5 DEF CNext, SNext

\* Whatever overlaps, a browser that missed no answer has the current token of its session or
\* is about to receive it (resolveSession, rotateSession, logout).
THEOREM CustomersKeepSessions == CSpec => []BrowserKeepsSession
<1>1. CInit => TokensInv
  BY DEF CInit, SInit, TokensInv, TokensOf, Asking, Answering, Idle
<1>2. SessionRows /\ TokensInv /\ [CNext]_cVars => TokensInv'
  BY TokensStep, TokensUnchanged DEF cVars, sOwn
<1>3. TokensInv => BrowserKeepsSession
  <2> SUFFICES ASSUME TokensInv, NEW s \in Sessions, jars[s] # Null, s \notin lost,
                      jars[s] # sessions[s].token
               PROVE  \E r \in Requests : /\ requests[r].pc = "answer" /\ requests[r].session = s
                                          /\ requests[r].token = sessions[s].token
    BY DEF BrowserKeepsSession
  <2>1. TokensOf(s)
    BY DEF TokensInv
  <2> QED
    BY <2>1 DEF TokensOf, Answering
<1> QED
  BY <1>1, <1>2, <1>3, SessionRowsAlways, PTL DEF CSpec

-----------------------------------------------------------------------------
(* Acting for a customer.  A handler that acts has seen an active customer with   *)
(* a membership of an active company; none of the three changes while it acts:    *)
(* accounts because no step changes an active customer's, the other two because    *)
(* their rows are shared.                                                    *)

RowsTyped ==
  /\ calls \in [Handlers -> Call]
  /\ memberships \in [Companies -> [Accounts -> {Null, "ACTIVE", "REVOKED"}]]
  /\ companies \subseteq Companies

CustomersInv == AccountsInv /\ RowsTyped /\ ActsAsMember

\* What a handler holds in its steps.
LEMMA CallRows ==
  ASSUME RowsTyped, NEW h \in Handlers
  PROVE  /\ calls[h].pc \in {"invite", "checked", "acting"} =>
              calls[h].company \in Companies /\ calls[h].account \in Accounts
         /\ calls[h].pc \in {"preview", "activate"} => calls[h].link \in Invitations
  BY DEF RowsTyped, Call, Idle

LEMMA CustomersInitially == CInit => CustomersInv
<1> SUFFICES ASSUME CInit PROVE CustomersInv
  OBVIOUS
<1>1. AccountsInv
  BY AccountsInitially DEF CInit
<1>2. RowsTyped
  BY DEF CInit, RowsTyped, Call
<1>3. ActsAsMember
  BY DEF CInit, ActsAsMember, Idle
<1> QED
  BY <1>1, <1>2, <1>3 DEF CustomersInv

\* No step of Sessions changes the account of an active customer.
LEMMA CustomersKeptBySessions ==
  ASSUME AccountsInv, SNext, NEW a \in Accounts, IsCustomer(a)
  PROVE  accounts'[a] = accounts[a]
<1>1. accounts \in [Accounts -> Account \cup {NoRow}] /\ accounts[a].role = "CUSTOMER"
  BY DEF AccountsInv, AccountsTyped, IsCustomer
<1>2. CASE BrowserStep \/ SessionTime
  BY <1>2 DEF BrowserStep, SessionTime, Login, OpenSession, Send, Resolve, Rotate, Answer,
              Logout, RenewalDue, GraceEnds, Expire, Cleanup
<1>3. CASE \E b \in Accounts, role \in Roles : Create(b, role)
  BY <1>1, <1>3 DEF Create, IsCustomer, Exists
<1>4. CASE \E u \in Staff, b \in Accounts :
             \/ \E access \in Accesses : BeginAccess(u, b, access)
             \/ \E by \in {"self", "core", "driver"} : BeginPassword(u, b, by)
  BY <1>4 DEF BeginAccess, BeginPassword
<1>5. CASE \E u \in Staff : ChangeAccess(u)
  <2>1. PICK u \in Staff : ChangeAccess(u)
    BY <1>5
  <2>2. accounts' = [accounts EXCEPT ![changes[u].account] = changes[u].access]
    BY <2>1 DEF ChangeAccess
  <2>3. accounts[changes[u].account].role \in Core
    BY <2>1 DEF ChangeAccess, AccountsInv, StillAllowed
  <2> QED
    BY <1>1, <2>2, <2>3 DEF Core
<1>6. CASE \E u \in Staff : ChangePassword(u)
  BY <1>6 DEF ChangePassword
<1>7. CASE \E b \in Accounts, status \in Statuses : ChangeDriver(b, status)
  BY <1>1, <1>7 DEF ChangeDriver
<1> QED
  BY <1>2, <1>3, <1>4, <1>5, <1>6, <1>7 DEF SNext, StaffStep

\* When customers, memberships and companies stay, only a handler that begins to act matters.
LEMMA StillActing ==
  ASSUME CustomersInv,
         \A a \in Accounts : IsCustomer(a) => accounts'[a] = accounts[a],
         UNCHANGED <<memberships, companies>>,
         \A h \in Handlers : calls'[h].pc = "acting" => calls'[h] = calls[h]
  PROVE  ActsAsMember'
<1> SUFFICES ASSUME NEW h \in Handlers, calls'[h].pc = "acting"
             PROVE  Member(calls[h].company, calls[h].account)'
  BY DEF ActsAsMember
<1>1. calls[h].pc = "acting"
  OBVIOUS
<1>2. Member(calls[h].company, calls[h].account) /\ calls[h].account \in Accounts
  BY <1>1, CallRows DEF CustomersInv, ActsAsMember
<1> QED
  BY <1>2 DEF Member, IsCustomer, Exists

LEMMA NothingActs ==
  ASSUME CustomersInv, UNCHANGED <<accounts, changes, calls, memberships, companies>>
  PROVE  CustomersInv'
<1>1. AccountsInv'
  BY AccountsUnchanged DEF CustomersInv
<1>2. RowsTyped'
  BY DEF CustomersInv, RowsTyped
<1>3. ActsAsMember'
  BY StillActing
<1> QED
  BY <1>1, <1>2, <1>3 DEF CustomersInv

LEMMA OneCallChanges ==
  ASSUME CustomersInv, UNCHANGED <<accounts, changes, memberships, companies>>,
         NEW h \in Handlers, NEW row \in Call, row.pc # "acting",
         calls' = [calls EXCEPT ![h] = row]
  PROVE  CustomersInv'
<1>1. AccountsInv'
  BY AccountsUnchanged DEF CustomersInv
<1>2. RowsTyped'
  BY DEF CustomersInv, RowsTyped
<1>3. \A g \in Handlers : calls'[g].pc = "acting" => calls'[g] = calls[g]
  BY DEF CustomersInv, RowsTyped
<1>4. ActsAsMember'
  BY <1>3, StillActing
<1> QED
  BY <1>1, <1>2, <1>4 DEF CustomersInv

LEMMA InvitationStepSafe ==
  ASSUME CustomersInv, InvitationStep
  PROVE  CustomersInv'
<1>1. CASE \E h \in Handlers, c \in Companies, a \in Accounts : BeginInvite(h, c, a)
  <2>1. PICK h \in Handlers, c \in Companies, a \in Accounts : BeginInvite(h, c, a)
    BY <1>1
  <2>2. AccountsInv'
    BY <2>1, AccountsUnchanged DEF BeginInvite, sOwn, CustomersInv
  <2>3. RowsTyped'
    BY <2>1 DEF BeginInvite, CustomersInv, RowsTyped, Call
  <2>4. ActsAsMember'
    BY <2>1, StillActing DEF BeginInvite, sOwn, CustomersInv, RowsTyped
  <2> QED
    BY <2>2, <2>3, <2>4 DEF CustomersInv
<1>2. CASE \E h \in Handlers, i \in Invitations : Invite(h, i)
  <2>1. PICK h \in Handlers, i \in Invitations : Invite(h, i)
    BY <1>2
  <2>2. AccountsInv'
    BY <2>1, AccountsUnchanged DEF Invite, sOwn, CustomersInv
  <2>3. RowsTyped'
    BY <2>1 DEF Invite, CustomersInv, RowsTyped, Call
  <2>4. ActsAsMember'
    BY <2>1, StillActing DEF Invite, sOwn, CustomersInv, RowsTyped, Idle
  <2> QED
    BY <2>2, <2>3, <2>4 DEF CustomersInv
<1>3. CASE \E h \in Handlers, i \in Invitations : Preview(h, i)
  <2>1. PICK h \in Handlers, i \in Invitations : Preview(h, i)
    BY <1>3
  <2>2. AccountsInv'
    BY <2>1, AccountsUnchanged DEF Preview, sOwn, CustomersInv
  <2>3. RowsTyped'
    BY <2>1 DEF Preview, CustomersInv, RowsTyped, Call
  <2>4. ActsAsMember'
    BY <2>1, StillActing DEF Preview, sOwn, CustomersInv, RowsTyped
  <2> QED
    BY <2>2, <2>3, <2>4 DEF CustomersInv
<1>4. CASE \E h \in Handlers : BeginActivate(h)
  <2>1. PICK h \in Handlers : BeginActivate(h)
    BY <1>4
  <2>2. AccountsInv'
    BY <2>1, AccountsUnchanged DEF BeginActivate, sOwn, CustomersInv
  <2>3. calls[h].pc = "preview" /\ calls' = [calls EXCEPT ![h].pc = "activate"]
    BY <2>1 DEF BeginActivate
  <2>4. [calls[h] EXCEPT !.pc = "activate"] \in Call
    <3>1. PICK i \in Invitations : calls[h] = [pc |-> "preview", link |-> i]
      BY <2>3 DEF CustomersInv, RowsTyped, Call, Idle
    <3>2. [calls[h] EXCEPT !.pc = "activate"] = [pc |-> "activate", link |-> i]
      BY <3>1
    <3> QED
      BY <3>2 DEF Call
  <2>5. RowsTyped'
    BY <2>1, <2>3, <2>4 DEF BeginActivate, CustomersInv, RowsTyped
  <2>6. ActsAsMember'
    <3>1. \A g \in Handlers : calls'[g].pc = "acting" => calls'[g] = calls[g]
      BY <2>3 DEF CustomersInv, RowsTyped, Call
    <3> QED
      BY <2>1, <3>1, StillActing DEF BeginActivate, sOwn
  <2> QED
    BY <2>2, <2>5, <2>6 DEF CustomersInv
<1>5. CASE \E h \in Handlers : Activate(h)
  <2>1. PICK h \in Handlers : Activate(h)
    BY <1>5
  <2> DEFINE i == calls[h].link
             a == invitations[i].account
             c == invitations[i].company
  <2>8. /\ accounts' = [accounts EXCEPT ![a] = [role |-> "CUSTOMER", status |-> "ACTIVE"]]
        /\ memberships' = [memberships EXCEPT ![c][a] = "ACTIVE"]
        /\ calls' = [calls EXCEPT ![h] = Idle]
        /\ UNCHANGED <<changes, companies>>
        /\ Exists(a) => IsCustomer(a)
    BY <2>1 DEF Activate
  <2>2. AccountsInv'
    <3>1. CASE a \in Accounts
      <4>1. a \notin Admins
        BY <2>8 DEF Exists, IsCustomer, Admins, Admin, NoRow
      <4>2. \A u \in Staff : changes[u].pc = "access" => changes[u].account # a
        BY <2>8 DEF CustomersInv, AccountsInv, StillAllowed, Exists, IsCustomer, NoRow, Core
      <4>3. [role |-> "CUSTOMER", status |-> "ACTIVE"] \in Account
        BY DEF Account, Roles, Statuses
      <4> QED
        BY <2>8, <3>1, <4>1, <4>2, <4>3, OtherAccount DEF CustomersInv
    <3>2. CASE a \notin Accounts
      <4>1. accounts' = accounts
        BY <2>8, <3>2 DEF CustomersInv, AccountsInv, AccountsTyped
      <4> QED
        BY <2>8, <4>1, AccountsUnchanged DEF CustomersInv
    <3> QED
      BY <3>1, <3>2
  <2>3. RowsTyped'
    BY <2>8 DEF CustomersInv, RowsTyped, Call
  <2>4. \A b \in Accounts : IsCustomer(b) => accounts'[b] = accounts[b]
    BY <2>8 DEF CustomersInv, AccountsInv, AccountsTyped, IsCustomer
  <2>5. \A d \in Companies, b \in Accounts :
          memberships[d][b] = "ACTIVE" => memberships'[d][b] = "ACTIVE"
    BY <2>8 DEF CustomersInv, RowsTyped
  <2>6. ActsAsMember'
    <3> SUFFICES ASSUME NEW g \in Handlers, calls'[g].pc = "acting"
                 PROVE  Member(calls[g].company, calls[g].account)'
      BY DEF ActsAsMember
    <3>1. calls'[g] = calls[g] /\ calls[g].pc = "acting"
      BY <2>8 DEF CustomersInv, RowsTyped, Idle
    <3>2. Member(calls[g].company, calls[g].account)
      BY <3>1 DEF CustomersInv, ActsAsMember
    <3>3. calls[g].company \in Companies /\ calls[g].account \in Accounts
      BY <3>1, CallRows DEF CustomersInv
    <3> QED
      BY <2>8, <2>4, <2>5, <3>1, <3>2, <3>3 DEF Member, IsCustomer, Exists, CustomersInv,
         RowsTyped
  <2> QED
    BY <2>2, <2>3, <2>6 DEF CustomersInv
<1>6. CASE \E i \in Invitations : RevokeInvitation(i) \/ InvitationExpires(i)
  <2>1. UNCHANGED <<sOwn, calls, memberships, companies>>
    BY <1>6 DEF RevokeInvitation, InvitationExpires
  <2> QED
    BY <2>1, NothingActs DEF sOwn
<1>7. CASE \E c \in Companies, a \in Accounts : RevokeMembership(c, a)
  <2>1. PICK c \in Companies, a \in Accounts : RevokeMembership(c, a)
    BY <1>7
  <2>2. /\ memberships' = [memberships EXCEPT ![c][a] = "REVOKED"]
        /\ UNCHANGED <<sOwn, calls, companies>>
        /\ ~ MembershipShared(c, a)
    BY <2>1 DEF RevokeMembership
  <2>3. AccountsInv'
    BY <2>2, AccountsUnchanged DEF sOwn, CustomersInv
  <2>4. RowsTyped'
    BY <2>2 DEF CustomersInv, RowsTyped
  <2>5. ActsAsMember'
    <3> SUFFICES ASSUME NEW g \in Handlers, calls[g].pc = "acting"
                 PROVE  Member(calls[g].company, calls[g].account)'
      BY <2>2 DEF ActsAsMember
    <3>1. Member(calls[g].company, calls[g].account)
      BY DEF CustomersInv, ActsAsMember
    <3>2. calls[g].company \in Companies /\ calls[g].account \in Accounts
      BY CallRows DEF CustomersInv
    <3>3. calls[g].company # c \/ calls[g].account # a
      BY <2>2 DEF MembershipShared
    <3>4. memberships'[calls[g].company][calls[g].account]
            = memberships[calls[g].company][calls[g].account]
      BY <2>2, <3>2, <3>3 DEF CustomersInv, RowsTyped
    <3> QED
      BY <2>2, <3>1, <3>4 DEF Member, IsCustomer, Exists, sOwn
  <2> QED
    BY <2>3, <2>4, <2>5 DEF CustomersInv
<1>8. CASE \E c \in Companies : SetCompany(c)
  <2>1. PICK c \in Companies : SetCompany(c)
    BY <1>8
  <2>2. /\ companies' \in {companies \cup {c}, companies \ {c}}
        /\ UNCHANGED <<sOwn, calls, memberships>>
        /\ ~ CompanyShared(c)
    BY <2>1 DEF SetCompany
  <2>3. AccountsInv'
    BY <2>2, AccountsUnchanged DEF sOwn, CustomersInv
  <2>4. RowsTyped'
    BY <2>2 DEF CustomersInv, RowsTyped
  <2>5. ActsAsMember'
    BY <2>2 DEF CustomersInv, ActsAsMember, CompanyShared, Member, IsCustomer, Exists, sOwn
  <2> QED
    BY <2>3, <2>4, <2>5 DEF CustomersInv
<1> QED
  BY <1>1, <1>2, <1>3, <1>4, <1>5, <1>6, <1>7, <1>8 DEF InvitationStep

\* New passwords end sessions and links; who may act is not affected.
LEMMA PasswordStepSafe ==
  ASSUME CustomersInv, PasswordStep
  PROVE  CustomersInv'
<1>1. UNCHANGED <<accounts, changes, memberships, companies>>
  BY DEF PasswordStep, Recover, BeginReset, Reset, ChangeOwnPassword, NewPassword,
         RecoveryAges, sOwn
<1>2. \/ UNCHANGED calls
      \/ \E h \in Handlers, row \in Call :
           row.pc # "acting" /\ calls' = [calls EXCEPT ![h] = row]
  BY DEF PasswordStep, Recover, BeginReset, Reset, ChangeOwnPassword, RecoveryAges, Call, Idle
<1> QED
  BY <1>1, <1>2, OneCallChanges, NothingActs

\* A handler acts only after it has checked under its locks; what it checked is ActsAsMember.
LEMMA ActStepSafe ==
  ASSUME CustomersInv, SessionRows, ActStep
  PROVE  CustomersInv'
<1>1. UNCHANGED <<accounts, changes, memberships, companies>>
  BY DEF ActStep, Check, Authorize, End, sOwn
<1>2. CASE \E h \in Handlers, s \in Sessions, c \in Companies : Check(h, s, c)
  <2>1. PICK h \in Handlers, s \in Sessions, c \in Companies : Check(h, s, c)
    BY <1>2
  <2>2. sessions[s].account \in Accounts
    BY <2>1 DEF Check, SessionRows, Session
  <2>3. [pc |-> "checked", company |-> c, account |-> sessions[s].account] \in Call
    BY <2>2 DEF Call
  <2> QED
    BY <1>1, <2>1, <2>3, OneCallChanges DEF Check
<1>3. CASE \E h \in Handlers : End(h)
  BY <1>1, <1>3, OneCallChanges DEF End, Call, Idle
<1>4. CASE \E h \in Handlers : Authorize(h)
  <2>1. PICK h \in Handlers : Authorize(h)
    BY <1>4
  <2>2. /\ calls[h].pc = "checked" /\ Member(calls[h].company, calls[h].account)
        /\ calls' = [calls EXCEPT ![h].pc = "acting"]
    BY <2>1 DEF Authorize
  <2>3. [calls[h] EXCEPT !.pc = "acting"] \in Call
    BY <2>2 DEF CustomersInv, RowsTyped, Call, Idle
  <2>4. AccountsInv'
    BY <1>1, AccountsUnchanged DEF CustomersInv
  <2>5. RowsTyped'
    BY <1>1, <2>2, <2>3 DEF CustomersInv, RowsTyped
  <2>6. \A g \in Handlers : g # h => calls'[g] = calls[g]
    BY <2>2 DEF CustomersInv, RowsTyped
  <2>7. calls'[h].company = calls[h].company /\ calls'[h].account = calls[h].account
    BY <2>2 DEF CustomersInv, RowsTyped, Call, Idle
  <2>8. ActsAsMember'
    BY <1>1, <2>2, <2>6, <2>7 DEF CustomersInv, ActsAsMember, Member, IsCustomer, Exists
  <2> QED
    BY <2>4, <2>5, <2>8 DEF CustomersInv
<1> QED
  BY <1>2, <1>3, <1>4 DEF ActStep

LEMMA CustomersStep ==
  ASSUME CustomersInv, SessionRows, CNext
  PROVE  CustomersInv'
<1>1. CASE SNext /\ UNCHANGED cOwn
  <2>1. AccountsInv'
    BY <1>1, AccountsStep DEF CustomersInv
  <2>2. UNCHANGED <<calls, memberships, companies>>
    BY <1>1 DEF cOwn
  <2>3. RowsTyped'
    BY <2>2 DEF CustomersInv, RowsTyped
  <2>4. \A a \in Accounts : IsCustomer(a) => accounts'[a] = accounts[a]
    BY <1>1, CustomersKeptBySessions DEF CustomersInv
  <2>5. ActsAsMember'
    BY <2>2, <2>4, StillActing
  <2> QED
    BY <2>1, <2>3, <2>5 DEF CustomersInv
<1>2. CASE InvitationStep
  BY <1>2, InvitationStepSafe
<1>3. CASE PasswordStep
  BY <1>3, PasswordStepSafe
<1>4. CASE ActStep
  BY <1>4, ActStepSafe
<1>5. CASE MailStep
  <2>1. UNCHANGED <<sOwn, calls, memberships, companies>>
    BY <1>5 DEF MailStep, Take, Post, Settle, MailerCrash, MailDue
  <2> QED
    BY <2>1, NothingActs DEF sOwn
<1> QED
  BY <1>1, <1>2, <1>3, <1>4, <1>5 DEF CNext

LEMMA CustomersAlways == CSpec => []CustomersInv
<1>1. CInit => CustomersInv
  BY CustomersInitially
<1>2. CustomersInv /\ SessionRows /\ [CNext]_cVars => CustomersInv'
  BY CustomersStep, NothingActs DEF cVars, sOwn
<1> QED
  BY <1>1, <1>2, SessionRowsAlways, PTL DEF CSpec

\* The same, with customers who activate accounts (activate): an active core administrator
\* remains.
THEOREM CustomersLastAdmin == CSpec => []LastAdminRemains
<1>1. CustomersInv => LastAdminRemains
  BY DEF CustomersInv, AccountsInv
<1> QED
  BY <1>1, CustomersAlways, PTL

\* While a customer's acceptance or payment is under way, the customer is a member, whatever
\* staff change (authorize with its locks, revokeMembership, updateCustomers).
THEOREM CustomersActAsMembers == CSpec => []ActsAsMember
<1>1. CustomersInv => ActsAsMember
  BY DEF CustomersInv
<1> QED
  BY <1>1, CustomersAlways, PTL

-----------------------------------------------------------------------------
(***************************************************************************)
(* The links of Customers: invitations, recovery links and the mails that   *)
(* carry them, for any customers, accounts, handlers and mailers.           *)
(***************************************************************************)
USE CustomersAssumption

-----------------------------------------------------------------------------
(* The inductive invariants *)

LinksTyped ==
  /\ invitations \in [Invitations -> Invitation \cup {NoRow}]
  /\ recoveries \in [Recoveries -> Recovery \cup {NoRow}]
  /\ mails \in [Links -> Mail \cup {NoRow}]
  /\ mailers \in [Mailers -> Mailing]
  /\ outlived \subseteq Recoveries
  /\ uses \in [Recoveries -> Nat]

\* Who holds the lock of an email: it is what keeps an invitation, an activation and a
\* revocation of one person apart.
HoldsEmail(h, a) ==
  \/ calls[h].pc = "invite" /\ calls[h].account = a
  \/ calls[h].pc = "activate" /\ invitations[calls[h].link].account = a
OneHoldsEmail ==
  \A g, h \in Handlers, a \in Accounts : (HoldsEmail(g, a) /\ HoldsEmail(h, a)) => g = h
\* What a handler has seen of an invitation is still so.
LinksKnown ==
  \A h \in Handlers :
    /\ calls[h].pc \in {"preview", "activate"} => invitations[calls[h].link] # NoRow
    /\ calls[h].pc = "activate" => invitations[calls[h].link].status = "PENDING"
    /\ calls[h].pc = "invite" => memberships[calls[h].company][calls[h].account] # "ACTIVE"
MembersExist ==
  \A c \in Companies, a \in Accounts : memberships[c][a] = "ACTIVE" => Exists(a)
WayInv == OneHoldsEmail /\ LinksKnown /\ MembersExist /\ OneWayIn

\* A mail has a link, whoever delivers it has its row to themselves, and it is not settled yet;
\* a link is of a customer, so it never starts to work again.
RecoveriesOfCustomers ==
  \A t \in Recoveries : recoveries[t] # NoRow => IsCustomer(recoveries[t].account)
HasLink(link) ==
  IF link \in Invitations THEN invitations[link] # NoRow ELSE recoveries[link] # NoRow
MailsHaveLinks == \A link \in Links : mails[link] # NoRow => HasLink(link)
OneHoldsMail ==
  \A v, w \in Mailers :
    (mailers[v] # Idle /\ mailers[w] # Idle /\ mailers[v].link = mailers[w].link) => v = w
MailersHold ==
  \A w \in Mailers : mailers[w] # Idle =>
    /\ mails[mailers[w].link].status \in {"PENDING", "FAILED"}
    /\ mails[mailers[w].link].attempts < MaxAttempts
    /\ mailers[w].pc = "sent" => mailers[w].link \in delivered
SentIsDone ==
  \A link \in Links : mails[link].status = "SENT" => link \in delivered \/ ~ Usable(link)
MailInv == MailsHaveLinks /\ OneHoldsMail /\ MailersHold /\ SentIsDone

\* A link that has been outlived does not work, and a link that has set a password is outlived.
OutlivedAreConsumed == \A t \in outlived : recoveries[t].status = "CONSUMED"
UsedAreOutlived == \A t \in Recoveries : uses[t] # 0 => t \in outlived
UsedOnce == \A t \in Recoveries : uses'[t] # uses[t] => uses'[t] = 1 /\ t \notin outlived

-----------------------------------------------------------------------------
(* What a step does to a row *)

\* A row of an invitation stays one of the same person, and is not opened again.
InvitationGoesOn(i) ==
  /\ invitations'[i] \in Invitation
  /\ invitations'[i].company = invitations[i].company
  /\ invitations'[i].account = invitations[i].account
  /\ Pending(i)' => Pending(i)
  /\ invitations'[i].status = "PENDING" => invitations[i].status = "PENDING"
InvitationsGoOn == \A i \in Invitations : invitations[i] # NoRow => InvitationGoesOn(i)

RecoveryGoesOn(t) ==
  /\ recoveries'[t] \in Recovery
  /\ recoveries'[t].account = recoveries[t].account
  /\ Recovers(t)' => Recovers(t)
  /\ recoveries[t].status = "CONSUMED" => recoveries'[t].status = "CONSUMED"
RecoveriesGoOn == \A t \in Recoveries : recoveries[t] # NoRow => RecoveryGoesOn(t)

LEMMA LinkRows ==
  ASSUME LinksTyped
  PROVE  /\ \A i \in Invitations : invitations[i] # NoRow => invitations[i] \in Invitation
         /\ \A i \in Invitations : invitations[i].status # "NONE" =>
              invitations[i] # NoRow /\ invitations[i] \in Invitation
         /\ \A t \in Recoveries : recoveries[t] # NoRow => recoveries[t] \in Recovery
         /\ \A t \in Recoveries : recoveries[t].status # "NONE" =>
              recoveries[t] # NoRow /\ recoveries[t] \in Recovery
         /\ \A link \in Links : mails[link].status # "NONE" =>
              mails[link] # NoRow /\ mails[link] \in Mail
         /\ \A w \in Mailers : mailers[w] # Idle => mailers[w].link \in Links
         /\ \A i \in Invitation : i # NoRow
         /\ \A t \in Recovery : t # NoRow
  BY DEF LinksTyped, NoRow, Idle, Mailing, Invitation, Recovery

\* The edits of one row.
LEMMA InvitationRevoked ==
  ASSUME NEW row \in Invitation, NEW new, new = [row EXCEPT !.status = "REVOKED"]
  PROVE  /\ new \in Invitation
         /\ new.status = "REVOKED"
         /\ new.company = row.company /\ new.account = row.account
  BY DEF Invitation

LEMMA InvitationConsumed ==
  ASSUME NEW row \in Invitation, NEW new, new = [row EXCEPT !.status = "CONSUMED"]
  PROVE  /\ new \in Invitation
         /\ new.status = "CONSUMED"
         /\ new.company = row.company /\ new.account = row.account
  BY DEF Invitation

LEMMA InvitationExpired ==
  ASSUME NEW row \in Invitation, NEW new, new = [row EXCEPT !.expired = TRUE]
  PROVE  /\ new \in Invitation
         /\ new.status = row.status
         /\ new.company = row.company /\ new.account = row.account
         /\ new.expired
         /\ new.old <=> row.old
  BY DEF Invitation

LEMMA InvitationOutdated ==
  ASSUME NEW row \in Invitation, NEW new, new = [row EXCEPT !.old = TRUE]
  PROVE  /\ new \in Invitation
         /\ new.status = row.status
         /\ new.company = row.company /\ new.account = row.account
         /\ new.expired <=> row.expired
  BY DEF Invitation

LEMMA RecoveryConsumed ==
  ASSUME NEW row \in Recovery, NEW new, new = [row EXCEPT !.status = "CONSUMED"]
  PROVE  /\ new \in Recovery
         /\ new.status = "CONSUMED"
         /\ new.account = row.account
  BY DEF Recovery

LEMMA RecoveryIsOlder ==
  ASSUME NEW row \in Recovery, ~ row.expired
  PROVE  /\ [row EXCEPT !.recent = FALSE, !.expired = ~ row.recent] \in Recovery
         /\ [row EXCEPT !.recent = FALSE, !.expired = ~ row.recent].status = row.status
         /\ [row EXCEPT !.recent = FALSE, !.expired = ~ row.recent].account = row.account
<1> DEFINE a == [row EXCEPT !.recent = FALSE]
           b == [a EXCEPT !.expired = ~ row.recent]
<1>1. a \in Recovery /\ a.status = row.status /\ a.account = row.account
  BY DEF Recovery
<1>2. (~ row.recent) \in BOOLEAN
  OBVIOUS
<1> HIDE DEF a
<1>3. b \in Recovery /\ b.status = row.status /\ b.account = row.account
  BY <1>1, <1>2 DEF Recovery
<1> QED
  BY <1>3 DEF a

\* Consuming or revoking a set of rows.
LEMMA RevokedRowsOf ==
  ASSUME LinksTyped, NEW is, \A i \in is : invitations[i] # NoRow, is \subseteq Invitations
  PROVE  /\ Revoked(invitations, is) \in [Invitations -> Invitation \cup {NoRow}]
         /\ \A i \in is : /\ Revoked(invitations, is)[i] \in Invitation
                          /\ Revoked(invitations, is)[i].status = "REVOKED"
                          /\ Revoked(invitations, is)[i].company = invitations[i].company
                          /\ Revoked(invitations, is)[i].account = invitations[i].account
         /\ \A i \in Invitations \ is : Revoked(invitations, is)[i] = invitations[i]
<1>1. ASSUME NEW i \in is
      PROVE  /\ Revoked(invitations, is)[i] = [invitations[i] EXCEPT !.status = "REVOKED"]
             /\ invitations[i] \in Invitation
  BY LinkRows DEF Revoked
<1>2. ASSUME NEW i \in is
      PROVE  /\ Revoked(invitations, is)[i] \in Invitation
             /\ Revoked(invitations, is)[i].status = "REVOKED"
             /\ Revoked(invitations, is)[i].company = invitations[i].company
             /\ Revoked(invitations, is)[i].account = invitations[i].account
  BY <1>1, InvitationRevoked
<1>3. \A i \in Invitations \ is : Revoked(invitations, is)[i] = invitations[i]
  BY DEF Revoked
<1>4. Revoked(invitations, is) \in [Invitations -> Invitation \cup {NoRow}]
  <2>1. Revoked(invitations, is) = [i \in Invitations |-> Revoked(invitations, is)[i]]
    BY DEF Revoked
  <2>2. \A i \in Invitations : Revoked(invitations, is)[i] \in Invitation \cup {NoRow}
    BY <1>2, <1>3 DEF LinksTyped
  <2> QED
    BY <2>1, <2>2
<1> QED
  BY <1>2, <1>3, <1>4

LEMMA ConsumedRowsOf ==
  ASSUME LinksTyped, NEW ts, \A t \in ts : recoveries[t] # NoRow, ts \subseteq Recoveries
  PROVE  /\ Consumed(ts) \in [Recoveries -> Recovery \cup {NoRow}]
         /\ \A t \in ts : /\ Consumed(ts)[t] \in Recovery
                          /\ Consumed(ts)[t].status = "CONSUMED"
                          /\ Consumed(ts)[t].account = recoveries[t].account
         /\ \A t \in Recoveries \ ts : Consumed(ts)[t] = recoveries[t]
<1>1. ASSUME NEW t \in ts
      PROVE  /\ Consumed(ts)[t] = [recoveries[t] EXCEPT !.status = "CONSUMED"]
             /\ recoveries[t] \in Recovery
  BY LinkRows DEF Consumed
<1>2. ASSUME NEW t \in ts
      PROVE  /\ Consumed(ts)[t] \in Recovery
             /\ Consumed(ts)[t].status = "CONSUMED"
             /\ Consumed(ts)[t].account = recoveries[t].account
  BY <1>1, RecoveryConsumed
<1>3. \A t \in Recoveries \ ts : Consumed(ts)[t] = recoveries[t]
  BY DEF Consumed
<1>4. Consumed(ts) \in [Recoveries -> Recovery \cup {NoRow}]
  <2>1. Consumed(ts) = [t \in Recoveries |-> Consumed(ts)[t]]
    BY DEF Consumed
  <2>2. \A t \in Recoveries : Consumed(ts)[t] \in Recovery \cup {NoRow}
    BY <1>2, <1>3 DEF LinksTyped
  <2> QED
    BY <2>1, <2>2
<1> QED
  BY <1>2, <1>3, <1>4

LEMMA PendingRows ==
  ASSUME LinksTyped, NEW c, NEW a
  PROVE  /\ PendingFor(c, a) \subseteq Invitations
         /\ \A i \in PendingFor(c, a) : invitations[i] # NoRow
  BY DEF PendingFor, NoRow

\* A revoked or consumed row has gone on.
LEMMA EndedGoesOn ==
  ASSUME LinksTyped, NEW i \in Invitations, invitations'[i] \in Invitation,
         invitations'[i].status # "PENDING",
         invitations'[i].company = invitations[i].company,
         invitations'[i].account = invitations[i].account
  PROVE  InvitationGoesOn(i)
  BY DEF InvitationGoesOn, Pending

LEMMA SameGoesOn ==
  ASSUME LinksTyped, NEW i \in Invitations, invitations[i] # NoRow,
         invitations'[i] = invitations[i]
  PROVE  InvitationGoesOn(i)
  BY LinkRows DEF InvitationGoesOn, Pending

\* The four ways in which rows of invitations change.
LEMMA InviteRows ==
  ASSUME LinksTyped, RowsTyped, NEW h \in Handlers, NEW i \in Invitations, Invite(h, i)
  PROVE  /\ invitations' \in [Invitations -> Invitation \cup {NoRow}]
         /\ InvitationsGoOn
         /\ invitations'[i] =
              [status |-> "PENDING", company |-> calls[h].company, account |-> calls[h].account,
               expired |-> FALSE, old |-> FALSE]
         /\ \A j \in PendingFor(calls[h].company, calls[h].account) :
              j # i /\ invitations'[j].status = "REVOKED"
         /\ \A j \in Invitations \ (PendingFor(calls[h].company, calls[h].account) \cup {i}) :
              invitations'[j] = invitations[j]
<1> DEFINE c == calls[h].company
           a == calls[h].account
           row == [status |-> "PENDING", company |-> c, account |-> a, expired |-> FALSE,
                   old |-> FALSE]
           is == PendingFor(c, a)
           rows == Revoked(invitations, is)
<1>1. calls[h].pc = "invite" /\ invitations[i] = NoRow /\ invitations' = [rows EXCEPT ![i] = row]
  BY DEF Invite
<1>2. c \in Companies /\ a \in Accounts
  BY <1>1, CallRows
<1>3. row \in Invitation
  BY <1>2 DEF Invitation
<1>4. /\ rows \in [Invitations -> Invitation \cup {NoRow}]
      /\ \A j \in is : /\ rows[j] \in Invitation /\ rows[j].status = "REVOKED"
                       /\ rows[j].company = invitations[j].company
                       /\ rows[j].account = invitations[j].account
      /\ \A j \in Invitations \ is : rows[j] = invitations[j]
  BY PendingRows, RevokedRowsOf
<1>5. i \notin is /\ is \subseteq Invitations
  BY <1>1, PendingRows
<1>6. row = [status |-> "PENDING", company |-> calls[h].company, account |-> calls[h].account,
             expired |-> FALSE, old |-> FALSE]
  OBVIOUS
<1>7. is = PendingFor(calls[h].company, calls[h].account)
  OBVIOUS
<1> HIDE DEF row, rows, is, c, a
<1>8. invitations'[i] = row /\ \A j \in Invitations \ {i} : invitations'[j] = rows[j]
  BY <1>1, <1>4
<1>9. invitations' \in [Invitations -> Invitation \cup {NoRow}]
  BY <1>1, <1>3, <1>4
<1>10. ASSUME NEW j \in Invitations, invitations[j] # NoRow
       PROVE  InvitationGoesOn(j)
  <2>1. j # i /\ invitations'[j] = rows[j]
    BY <1>1, <1>8, <1>10
  <2>2. CASE j \in is
    BY <1>4, <2>1, <2>2, EndedGoesOn
  <2>3. CASE j \notin is
    BY <1>4, <1>10, <2>1, <2>3, SameGoesOn
  <2> QED
    BY <2>2, <2>3
<1>11. \A j \in is : j # i /\ invitations'[j].status = "REVOKED"
  BY <1>4, <1>5, <1>8
<1>12. \A j \in Invitations \ (is \cup {i}) : invitations'[j] = invitations[j]
  BY <1>4, <1>8
<1> QED
  BY <1>6, <1>7, <1>8, <1>9, <1>10, <1>11, <1>12 DEF InvitationsGoOn

LEMMA RevokeRows ==
  ASSUME LinksTyped, NEW i \in Invitations, RevokeInvitation(i)
  PROVE  /\ invitations' \in [Invitations -> Invitation \cup {NoRow}]
         /\ InvitationsGoOn
         /\ invitations'[i].status = "REVOKED"
         /\ \A j \in Invitations \ {i} : invitations'[j] = invitations[j]
<1>1. invitations[i] # NoRow /\ invitations' = Revoked(invitations, {i})
  BY DEF RevokeInvitation, NoRow
<1> DEFINE rows == Revoked(invitations, {i})
<1>2. /\ rows \in [Invitations -> Invitation \cup {NoRow}]
      /\ rows[i] \in Invitation /\ rows[i].status = "REVOKED"
      /\ rows[i].company = invitations[i].company /\ rows[i].account = invitations[i].account
      /\ \A j \in Invitations \ {i} : rows[j] = invitations[j]
  BY <1>1, RevokedRowsOf
<1> HIDE DEF rows
<1>3. invitations' = rows
  BY <1>1 DEF rows
<1>4. InvitationGoesOn(i)
  BY <1>2, <1>3, EndedGoesOn
<1>5. \A j \in Invitations \ {i} : invitations[j] # NoRow => InvitationGoesOn(j)
  BY <1>2, <1>3, SameGoesOn
<1> QED
  BY <1>2, <1>3, <1>4, <1>5 DEF InvitationsGoOn

LEMMA OutdatedRowsOf ==
  ASSUME NEW rows \in [Invitations -> Invitation \cup {NoRow}], NEW c, NEW a
  PROVE  /\ Outdated(rows, c, a) \in [Invitations -> Invitation \cup {NoRow}]
         /\ \A i \in Invitations :
              IF rows[i] = NoRow \/ rows[i].company # c \/ rows[i].account # a
              THEN Outdated(rows, c, a)[i] = rows[i]
              ELSE /\ Outdated(rows, c, a)[i] \in Invitation
                   /\ Outdated(rows, c, a)[i].status = rows[i].status
                   /\ Outdated(rows, c, a)[i].company = rows[i].company
                   /\ Outdated(rows, c, a)[i].account = rows[i].account
                   /\ Outdated(rows, c, a)[i].expired <=> rows[i].expired
<1> DEFINE new(i) == Outdated(rows, c, a)[i]
<1>1. ASSUME NEW i \in Invitations
      PROVE  new(i) = IF rows[i] # NoRow /\ rows[i].company = c /\ rows[i].account = a
                      THEN [rows[i] EXCEPT !.old = TRUE] ELSE rows[i]
  BY DEF Outdated
<1> HIDE DEF new
<1>2. ASSUME NEW i \in Invitations
      PROVE  IF rows[i] = NoRow \/ rows[i].company # c \/ rows[i].account # a
             THEN new(i) = rows[i]
             ELSE /\ new(i) \in Invitation
                  /\ new(i).status = rows[i].status
                  /\ new(i).company = rows[i].company
                  /\ new(i).account = rows[i].account
                  /\ new(i).expired <=> rows[i].expired
  <2>1. CASE rows[i] = NoRow \/ rows[i].company # c \/ rows[i].account # a
    BY <1>1, <2>1
  <2>2. CASE rows[i] # NoRow /\ rows[i].company = c /\ rows[i].account = a
    <3>1. rows[i] \in Invitation /\ new(i) = [rows[i] EXCEPT !.old = TRUE]
      BY <1>1, <2>2
    <3>2. /\ new(i) \in Invitation /\ new(i).status = rows[i].status
          /\ new(i).company = rows[i].company /\ new(i).account = rows[i].account
          /\ new(i).expired <=> rows[i].expired
      BY <3>1, InvitationOutdated
    <3> QED
      BY <2>2, <3>2
  <2> QED
    BY <2>1, <2>2
<1>3. \A i \in Invitations : new(i) \in Invitation \cup {NoRow}
  BY <1>2
<1>4. Outdated(rows, c, a) = [i \in Invitations |-> new(i)]
  BY DEF Outdated, new
<1>5. Outdated(rows, c, a) \in [Invitations -> Invitation \cup {NoRow}]
  BY <1>3, <1>4
<1> QED
  BY <1>2, <1>5 DEF new

LEMMA MembershipRows ==
  ASSUME LinksTyped, NEW c \in Companies, NEW a \in Accounts, RevokeMembership(c, a)
  PROVE  /\ invitations' \in [Invitations -> Invitation \cup {NoRow}]
         /\ InvitationsGoOn
         /\ \A i \in PendingFor(c, a) : invitations'[i].status = "REVOKED"
         /\ \A i \in Invitations :
              (invitations[i] = NoRow \/ invitations[i].company # c \/ invitations[i].account # a)
                => invitations'[i] = invitations[i]
<1> DEFINE is == PendingFor(c, a)
           rows == Revoked(invitations, is)
           new == Outdated(rows, c, a)
<1>1. invitations' = new
  BY DEF RevokeMembership, RevokedWith
<1>2. is \subseteq Invitations /\ \A i \in is : invitations[i] # NoRow
  BY PendingRows
<1>3. /\ rows \in [Invitations -> Invitation \cup {NoRow}]
      /\ \A i \in is : /\ rows[i] \in Invitation /\ rows[i].status = "REVOKED"
                       /\ rows[i].company = invitations[i].company
                       /\ rows[i].account = invitations[i].account
      /\ \A i \in Invitations \ is : rows[i] = invitations[i]
  BY <1>2, RevokedRowsOf
<1>4. \A i \in is : invitations[i].company = c /\ invitations[i].account = a
  BY DEF PendingFor
<1>5. is = PendingFor(c, a)
  OBVIOUS
<1> HIDE DEF rows, is
<1>6. /\ new \in [Invitations -> Invitation \cup {NoRow}]
      /\ \A i \in Invitations :
              IF rows[i] = NoRow \/ rows[i].company # c \/ rows[i].account # a
              THEN new[i] = rows[i]
              ELSE /\ new[i] \in Invitation /\ new[i].status = rows[i].status
                   /\ new[i].company = rows[i].company /\ new[i].account = rows[i].account
                   /\ new[i].expired <=> rows[i].expired
  BY <1>3, OutdatedRowsOf
<1> HIDE DEF new
<1>7. \A i \in is : /\ new[i] \in Invitation /\ new[i].status = "REVOKED"
                    /\ new[i].company = invitations[i].company
                    /\ new[i].account = invitations[i].account
  <2> SUFFICES ASSUME NEW i \in is
               PROVE  /\ new[i] \in Invitation /\ new[i].status = "REVOKED"
                      /\ new[i].company = invitations[i].company
                      /\ new[i].account = invitations[i].account
    OBVIOUS
  <2>1. rows[i] # NoRow /\ rows[i].company = c /\ rows[i].account = a /\ i \in Invitations
    BY <1>2, <1>3, <1>4, LinkRows
  <2> QED
    BY <1>3, <1>6, <2>1
<1>8. \A i \in Invitations \ is :
        (invitations[i] = NoRow \/ invitations[i].company # c \/ invitations[i].account # a)
          => new[i] = invitations[i]
  BY <1>3, <1>6
<1>9. \A i \in is : InvitationGoesOn(i)
  BY <1>1, <1>2, <1>7, EndedGoesOn
<1>10. ASSUME NEW i \in Invitations \ is, invitations[i] # NoRow
       PROVE  InvitationGoesOn(i)
  <2>1. CASE invitations[i].company # c \/ invitations[i].account # a
    BY <1>1, <1>8, <1>10, <2>1, SameGoesOn
  <2>2. CASE invitations[i].company = c /\ invitations[i].account = a
    <3>1. /\ new[i] \in Invitation /\ new[i].status = invitations[i].status
          /\ new[i].company = invitations[i].company /\ new[i].account = invitations[i].account
          /\ new[i].expired <=> invitations[i].expired
      BY <1>3, <1>6, <1>10, <2>2
    <3> QED
      BY <1>1, <3>1 DEF InvitationGoesOn, Pending
  <2> QED
    BY <2>1, <2>2
<1>11. InvitationsGoOn
  BY <1>9, <1>10 DEF InvitationsGoOn
<1>12. ASSUME NEW i \in Invitations,
              invitations[i] = NoRow \/ invitations[i].company # c \/ invitations[i].account # a
       PROVE  invitations'[i] = invitations[i]
  <2>1. CASE i \in is /\ invitations[i] = NoRow
    BY <1>2, <2>1
  <2>2. CASE i \notin is
    BY <1>1, <1>8, <1>12, <2>2
  <2> QED
    BY <1>4, <1>12, <2>1, <2>2
<1>13. \A i \in PendingFor(c, a) : invitations'[i].status = "REVOKED"
  BY <1>1, <1>5, <1>7
<1> QED
  BY <1>1, <1>6, <1>11, <1>12, <1>13

LEMMA ActivateRows ==
  ASSUME LinksTyped, RowsTyped, LinksKnown, NEW h \in Handlers, Activate(h)
  PROVE  /\ invitations' \in [Invitations -> Invitation \cup {NoRow}]
         /\ InvitationsGoOn
         /\ calls[h].link \in Invitations /\ invitations[calls[h].link] # NoRow
         /\ invitations[calls[h].link].status = "PENDING"
         /\ invitations'[calls[h].link].status = "CONSUMED"
         /\ \A j \in Invitations \ {calls[h].link} : invitations'[j] = invitations[j]
<1> DEFINE i == calls[h].link
           row == [invitations[i] EXCEPT !.status = "CONSUMED"]
<1>1. calls[h].pc = "activate" /\ invitations' = [invitations EXCEPT ![i] = row]
  BY DEF Activate
<1>2. i \in Invitations /\ invitations[i] # NoRow /\ invitations[i].status = "PENDING"
  BY <1>1, CallRows DEF LinksKnown
<1>3. /\ row \in Invitation /\ row.status = "CONSUMED"
      /\ row.company = invitations[i].company /\ row.account = invitations[i].account
  BY <1>2, LinkRows, InvitationConsumed
<1> HIDE DEF row
<1>4. invitations'[i] = row /\ \A j \in Invitations \ {i} : invitations'[j] = invitations[j]
  BY <1>1, <1>2 DEF LinksTyped
<1>5. invitations' \in [Invitations -> Invitation \cup {NoRow}]
  BY <1>1, <1>3 DEF LinksTyped
<1>6. InvitationGoesOn(i)
  BY <1>2, <1>3, <1>4, EndedGoesOn
<1>7. \A j \in Invitations \ {i} : invitations[j] # NoRow => InvitationGoesOn(j)
  BY <1>4, SameGoesOn
<1> QED
  BY <1>2, <1>3, <1>4, <1>5, <1>6, <1>7 DEF InvitationsGoOn

LEMMA ExpiryRows ==
  ASSUME LinksTyped, NEW i \in Invitations, InvitationExpires(i)
  PROVE  /\ invitations' \in [Invitations -> Invitation \cup {NoRow}]
         /\ InvitationsGoOn
         /\ \A j \in Invitations : /\ invitations'[j].status = invitations[j].status
                                   /\ invitations'[j].company = invitations[j].company
                                   /\ invitations'[j].account = invitations[j].account
                                   /\ invitations'[j].old <=> invitations[j].old
<1> DEFINE row == [invitations[i] EXCEPT !.expired = TRUE]
<1>1. invitations[i] # NoRow /\ invitations' = [invitations EXCEPT ![i] = row]
  BY DEF InvitationExpires, Pending, NoRow
<1>2. /\ row \in Invitation /\ row.status = invitations[i].status /\ row.expired
      /\ row.company = invitations[i].company /\ row.account = invitations[i].account
      /\ row.old <=> invitations[i].old
  BY <1>1, LinkRows, InvitationExpired
<1> HIDE DEF row
<1>3. invitations'[i] = row /\ \A j \in Invitations \ {i} : invitations'[j] = invitations[j]
  BY <1>1 DEF LinksTyped
<1>4. invitations' \in [Invitations -> Invitation \cup {NoRow}]
  BY <1>1, <1>2 DEF LinksTyped
<1>5. InvitationGoesOn(i)
  BY <1>2, <1>3 DEF InvitationGoesOn, Pending
<1>6. \A j \in Invitations \ {i} : invitations[j] # NoRow => InvitationGoesOn(j)
  BY <1>3, SameGoesOn
<1> QED
  BY <1>2, <1>3, <1>4, <1>5, <1>6 DEF InvitationsGoOn

LEMMA InvitationsStep ==
  ASSUME CustomersInv, LinksTyped, LinksKnown, [CNext]_cVars
  PROVE  invitations' \in [Invitations -> Invitation \cup {NoRow}] /\ InvitationsGoOn
<1>1. CASE UNCHANGED invitations
  BY <1>1, SameGoesOn DEF LinksTyped, InvitationsGoOn
<1>2. CASE InvitationStep
  <2>1. RowsTyped
    BY DEF CustomersInv
  <2>2. CASE \E h \in Handlers, i \in Invitations : Invite(h, i)
    BY <2>1, <2>2, InviteRows
  <2>3. CASE \E i \in Invitations : RevokeInvitation(i)
    BY <2>3, RevokeRows
  <2>4. CASE \E i \in Invitations : InvitationExpires(i)
    BY <2>4, ExpiryRows
  <2>5. CASE \E c \in Companies, a \in Accounts : RevokeMembership(c, a)
    BY <2>5, MembershipRows
  <2>6. CASE \E h \in Handlers : Activate(h)
    BY <2>1, <2>6, ActivateRows
  <2>7. CASE UNCHANGED invitations
    BY <1>1, <2>7
  <2> QED
    BY <1>2, <2>2, <2>3, <2>4, <2>5, <2>6, <2>7
    DEF InvitationStep, BeginInvite, Preview, BeginActivate, SetCompany
<1>3. CASE PasswordStep
  BY <1>1, <1>3 DEF PasswordStep, Recover, BeginReset, Reset, ChangeOwnPassword, NewPassword,
                    RecoveryAges
<1>4. CASE ActStep \/ MailStep
  BY <1>1, <1>4 DEF ActStep, Check, Authorize, End, MailStep, Take, Post, Settle, MailerCrash,
                    MailDue
<1> QED
  BY <1>1, <1>2, <1>3, <1>4 DEF CNext, cOwn, cVars

\* Nobody's account disappears.
LEMMA AccountsStay ==
  ASSUME CustomersInv, CustomersInv', [CNext]_cVars, NEW a \in Accounts, Exists(a)
  PROVE  Exists(a)'
<1>1. /\ accounts \in [Accounts -> Account \cup {NoRow}]
      /\ accounts' \in [Accounts -> Account \cup {NoRow}]
  BY DEF CustomersInv, AccountsInv, AccountsTyped
<1>2. CASE accounts'[a] = accounts[a]
  BY <1>2 DEF Exists
<1>3. ASSUME NEW b, NEW row, row.status # "NONE", accounts' = [accounts EXCEPT ![b] = row]
      PROVE  Exists(a)'
  <2>1. accounts'[a] = accounts[a] \/ accounts'[a] = row
    BY <1>1, <1>3
  <2> QED
    BY <1>2, <1>3, <2>1 DEF Exists, NoRow
<1>4. CASE \E b \in Accounts, role \in Roles : Create(b, role)
  BY <1>3, <1>4 DEF Create
<1>5. CASE \E u \in Staff : ChangeAccess(u)
  <2>1. PICK u \in Staff : ChangeAccess(u)
    BY <1>5
  <2>2. /\ accounts' = [accounts EXCEPT ![changes[u].account] = changes[u].access]
        /\ changes[u].access \in Account
    BY <2>1, ChangeRows, AccessIsAccount DEF ChangeAccess, CustomersInv, AccountsInv
  <2>3. changes[u].access.status # "NONE"
    BY <2>2 DEF Account, Statuses
  <2> QED
    BY <1>3, <2>2, <2>3
<1>6. CASE \E b \in Accounts, status \in Statuses : ChangeDriver(b, status)
  <2>1. PICK b \in Accounts, status \in Statuses : ChangeDriver(b, status)
    BY <1>6
  <2>2. accounts[b] \in Account /\ status # "NONE"
    BY <1>1, <2>1 DEF ChangeDriver, Exists, Statuses
  <2>3. [accounts[b] EXCEPT !.status = status].status # "NONE"
    BY <2>2 DEF Account
  <2>4. accounts' = [accounts EXCEPT ![b] = [accounts[b] EXCEPT !.status = status]]
    BY <1>1, <2>1 DEF ChangeDriver
  <2> QED
    BY <1>3, <2>3, <2>4
<1>7. CASE \E h \in Handlers : Activate(h)
  <2>1. PICK b : accounts' =
          [accounts EXCEPT ![b] = [role |-> "CUSTOMER", status |-> "ACTIVE"]]
    BY <1>7 DEF Activate
  <2> QED
    BY <1>3, <2>1
<1>8. CASE UNCHANGED accounts
  BY <1>2, <1>8
<1>9. CASE SNext
  <2>1. CASE BrowserStep \/ SessionTime
    BY <1>8, <2>1 DEF BrowserStep, SessionTime, Login, OpenSession, Send, Resolve, Rotate, Answer,
                      Logout, RenewalDue, GraceEnds, Expire, Cleanup
  <2>2. CASE StaffStep
    BY <1>4, <1>5, <1>6, <1>8, <2>2 DEF StaffStep, BeginAccess, BeginPassword, ChangePassword
  <2> QED
    BY <1>9, <2>1, <2>2 DEF SNext
<1>10. CASE InvitationStep
  BY <1>7, <1>8, <1>10 DEF InvitationStep, BeginInvite, Invite, Preview, BeginActivate,
     RevokeInvitation, InvitationExpires, RevokeMembership, SetCompany, sOwn
<1>11. CASE PasswordStep \/ ActStep \/ MailStep
  BY <1>8, <1>11 DEF PasswordStep, Recover, BeginReset, Reset, ChangeOwnPassword, NewPassword,
     RecoveryAges, ActStep, Check, Authorize, End, MailStep, Take, Post, Settle, MailerCrash,
     MailDue, sOwn
<1> QED
  BY <1>8, <1>9, <1>10, <1>11 DEF CNext, cVars

-----------------------------------------------------------------------------
(* One way in *)

LEMMA HolderKept ==
  ASSUME RowsTyped, LinksTyped, LinksKnown, InvitationsGoOn, NEW g \in Handlers,
         calls'[g] = calls[g], NEW a, HoldsEmail(g, a)'
  PROVE  HoldsEmail(g, a)
<1>1. CASE calls[g].pc = "invite"
  BY <1>1 DEF HoldsEmail
<1>2. CASE calls[g].pc = "activate"
  <2>1. calls[g].link \in Invitations /\ invitations[calls[g].link] # NoRow
    BY <1>2, CallRows DEF LinksKnown
  <2>2. invitations'[calls[g].link].account = invitations[calls[g].link].account
    BY <2>1 DEF InvitationsGoOn, InvitationGoesOn
  <2> QED
    BY <1>2, <2>2 DEF HoldsEmail
<1> QED
  BY <1>1, <1>2 DEF HoldsEmail

\* Nobody takes a lock.
LEMMA HoldersLeave ==
  ASSUME RowsTyped, LinksTyped, LinksKnown, OneHoldsEmail, InvitationsGoOn,
         \A g \in Handlers : calls'[g] = calls[g] \/ calls'[g].pc \notin {"invite", "activate"}
  PROVE  OneHoldsEmail'
<1>1. ASSUME NEW g \in Handlers, NEW a, HoldsEmail(g, a)'
      PROVE  HoldsEmail(g, a)
  <2>1. calls'[g] = calls[g]
    BY <1>1 DEF HoldsEmail
  <2> QED
    BY <1>1, <2>1, HolderKept
<1> QED
  BY <1>1 DEF OneHoldsEmail

\* A handler takes the lock of an email that nobody holds.
LEMMA HolderComes ==
  ASSUME RowsTyped, LinksTyped, LinksKnown, OneHoldsEmail, UNCHANGED invitations,
         NEW h \in Handlers, NEW b, ~ EmailLocked(b), \A a : HoldsEmail(h, a)' => a = b,
         \A g \in Handlers \ {h} : calls'[g] = calls[g]
  PROVE  OneHoldsEmail'
<1>1. ASSUME NEW g \in Handlers \ {h}, NEW a, HoldsEmail(g, a)'
      PROVE  HoldsEmail(g, a) /\ a # b
  <2>1. HoldsEmail(g, a)
    BY <1>1 DEF HoldsEmail
  <2> QED
    BY <2>1 DEF HoldsEmail, EmailLocked
<1> QED
  BY <1>1 DEF OneHoldsEmail

\* Steps that neither change an invitation nor a membership.
LEMMA WayKept ==
  ASSUME CustomersInv, LinksTyped, WayInv, UNCHANGED <<invitations, memberships>>,
         \A a \in Accounts : Exists(a) => Exists(a)',
         \A h \in Handlers :
           calls'[h] = calls[h] \/ calls'[h].pc \notin {"invite", "preview", "activate"}
  PROVE  WayInv'
<1>1. OneHoldsEmail'
  <2>1. InvitationsGoOn
    BY SameGoesOn DEF InvitationsGoOn
  <2> QED
    BY <2>1, HoldersLeave DEF WayInv, CustomersInv
<1>2. LinksKnown'
  BY DEF WayInv, LinksKnown
<1>3. MembersExist'
  BY DEF WayInv, MembersExist
<1>4. OneWayIn'
  BY DEF WayInv, OneWayIn, PendingFor
<1> QED
  BY <1>1, <1>2, <1>3, <1>4 DEF WayInv

\* Steps in which a handler begins something; it may take a lock.
LEMMA WayBegins ==
  ASSUME CustomersInv, LinksTyped, WayInv, UNCHANGED <<accounts, invitations, memberships>>,
         NEW h \in Handlers, \A g \in Handlers \ {h} : calls'[g] = calls[g], OneHoldsEmail',
         calls'[h].pc \in {"preview", "activate"} => invitations[calls'[h].link] # NoRow,
         calls'[h].pc = "activate" => invitations[calls'[h].link].status = "PENDING",
         calls'[h].pc = "invite" => memberships[calls'[h].company][calls'[h].account] # "ACTIVE"
  PROVE  WayInv'
<1>2. LinksKnown'
  BY DEF WayInv, LinksKnown
<1>3. MembersExist'
  BY DEF WayInv, MembersExist, Exists
<1>4. OneWayIn'
  BY DEF WayInv, OneWayIn, PendingFor
<1> QED
  BY <1>2, <1>3, <1>4 DEF WayInv

LEMMA BeginInviteWay ==
  ASSUME CustomersInv, LinksTyped, WayInv, NEW h \in Handlers, NEW c \in Companies,
         NEW a \in Accounts, BeginInvite(h, c, a)
  PROVE  WayInv'
<1>1. /\ calls' = [calls EXCEPT ![h] = [pc |-> "invite", company |-> c, account |-> a]]
      /\ ~ EmailLocked(a) /\ UNCHANGED <<accounts, invitations, memberships>>
      /\ Exists(a) => memberships[c][a] # "ACTIVE"
  BY DEF BeginInvite, Invitable, sOwn
<1>2. /\ calls'[h] = [pc |-> "invite", company |-> c, account |-> a]
      /\ \A g \in Handlers \ {h} : calls'[g] = calls[g]
  BY <1>1 DEF CustomersInv, RowsTyped
<1>3. memberships[c][a] # "ACTIVE"
  BY <1>1 DEF WayInv, MembersExist
<1>4. \A b : HoldsEmail(h, b)' => b = a
  BY <1>2 DEF HoldsEmail
<1>5. OneHoldsEmail'
  BY <1>1, <1>2, <1>4, HolderComes DEF WayInv, CustomersInv
<1> QED
  BY <1>1, <1>2, <1>3, <1>5, WayBegins

LEMMA PreviewWay ==
  ASSUME CustomersInv, LinksTyped, WayInv, NEW h \in Handlers, NEW i \in Invitations,
         Preview(h, i)
  PROVE  WayInv'
<1>1. /\ calls' = [calls EXCEPT ![h] = [pc |-> "preview", link |-> i]]
      /\ invitations[i] # NoRow /\ UNCHANGED <<accounts, invitations, memberships>>
  BY DEF Preview, Pending, NoRow, sOwn
<1>2. /\ calls'[h] = [pc |-> "preview", link |-> i]
      /\ \A g \in Handlers \ {h} : calls'[g] = calls[g]
  BY <1>1 DEF CustomersInv, RowsTyped
<1>3. InvitationsGoOn
  BY <1>1, SameGoesOn DEF InvitationsGoOn
<1>4. OneHoldsEmail'
  BY <1>2, <1>3, HoldersLeave DEF WayInv, CustomersInv
<1> QED
  BY <1>1, <1>2, <1>4, WayBegins

LEMMA BeginActivateWay ==
  ASSUME CustomersInv, LinksTyped, WayInv, NEW h \in Handlers, BeginActivate(h)
  PROVE  WayInv'
<1> DEFINE i == calls[h].link
           a == invitations[i].account
<1>1. /\ calls[h].pc = "preview" /\ calls' = [calls EXCEPT ![h].pc = "activate"]
      /\ ~ EmailLocked(a) /\ UNCHANGED <<accounts, invitations, memberships>>
      /\ invitations[i].status = "PENDING" /\ invitations[i] # NoRow
  BY DEF BeginActivate, Activatable, Pending, sOwn, NoRow
<1>2. /\ calls'[h].pc = "activate" /\ calls'[h].link = i
      /\ \A g \in Handlers \ {h} : calls'[g] = calls[g]
  BY <1>1 DEF CustomersInv, RowsTyped, Call, Idle
<1>3. \A b : HoldsEmail(h, b)' => b = a
  BY <1>1, <1>2 DEF HoldsEmail
<1>4. OneHoldsEmail'
  BY <1>1, <1>2, <1>3, HolderComes DEF WayInv, CustomersInv
<1> QED
  BY <1>1, <1>2, <1>4, WayBegins

\* Steps that change invitations or memberships: nobody takes a lock in them.
LEMMA WayGoesOn ==
  ASSUME CustomersInv, LinksTyped, WayInv, InvitationsGoOn,
         \A g \in Handlers : calls'[g] = calls[g] \/ calls'[g] = Idle,
         \A g \in Handlers : (calls'[g] = calls[g] /\ calls[g].pc = "activate") =>
           invitations'[calls[g].link].status = "PENDING",
         \A g \in Handlers : (calls'[g] = calls[g] /\ calls[g].pc = "invite") =>
           memberships'[calls[g].company][calls[g].account] # "ACTIVE",
         MembersExist', OneWayIn'
  PROVE  WayInv'
<1>1. OneHoldsEmail'
  BY HoldersLeave DEF WayInv, CustomersInv, Idle
<1>2. LinksKnown'
  <2> SUFFICES ASSUME NEW g \in Handlers
               PROVE  /\ calls'[g].pc \in {"preview", "activate"} =>
                           invitations'[calls'[g].link] # NoRow
                      /\ calls'[g].pc = "activate" =>
                           invitations'[calls'[g].link].status = "PENDING"
                      /\ calls'[g].pc = "invite" =>
                           memberships'[calls'[g].company][calls'[g].account] # "ACTIVE"
    BY DEF LinksKnown
  <2>1. CASE calls'[g] = Idle
    BY <2>1 DEF Idle
  <2>2. CASE calls'[g] = calls[g] /\ calls[g].pc \in {"preview", "activate"}
    <3>1. calls[g].link \in Invitations /\ invitations[calls[g].link] # NoRow
      BY <2>2, CallRows DEF CustomersInv, WayInv, LinksKnown
    <3>2. invitations'[calls[g].link] \in Invitation
      BY <3>1 DEF InvitationsGoOn, InvitationGoesOn
    <3>3. invitations'[calls[g].link] # NoRow
      BY <3>2, LinkRows
    <3> QED
      BY <2>2, <3>3
  <2>3. CASE calls'[g] = calls[g] /\ calls[g].pc \notin {"preview", "activate"}
    BY <2>3
  <2> QED
    BY <2>1, <2>2, <2>3
<1> QED
  BY <1>1, <1>2 DEF WayInv

\* What one pending invitation of a customer and an email means.
WayOf(c, a) ==
  \A i \in PendingFor(c, a) :
    PendingFor(c, a) = {i} /\ memberships[c][a] # "ACTIVE" /\ ~ invitations[i].old

LEMMA InviteWay ==
  ASSUME CustomersInv, LinksTyped, WayInv, NEW h \in Handlers, NEW i \in Invitations,
         Invite(h, i)
  PROVE  WayInv'
<1>0. PICK c, a : c = calls[h].company /\ a = calls[h].account
  OBVIOUS
<1> DEFINE row == [status |-> "PENDING", company |-> c, account |-> a, expired |-> FALSE,
                   old |-> FALSE]
<1>1. /\ calls[h].pc = "invite" /\ invitations[i] = NoRow
      /\ \A j \in PendingFor(c, a) : ~ InvitationLocked(j)
      /\ calls' = [calls EXCEPT ![h] = Idle] /\ UNCHANGED <<memberships, accounts>>
  BY <1>0 DEF Invite, sOwn
<1>2. RowsTyped
  BY DEF CustomersInv
<1>3. /\ InvitationsGoOn
      /\ invitations'[i] = row
      /\ \A j \in PendingFor(c, a) : j # i /\ invitations'[j].status = "REVOKED"
      /\ \A j \in Invitations \ (PendingFor(c, a) \cup {i}) : invitations'[j] = invitations[j]
  BY <1>0, <1>2, InviteRows
<1>4. /\ row.status = "PENDING" /\ row.company = c /\ row.account = a /\ ~ row.old
      /\ c \in Companies /\ a \in Accounts /\ memberships[c][a] # "ACTIVE"
  BY <1>0, <1>1, <1>2, CallRows DEF WayInv, LinksKnown
<1>5. calls'[h] = Idle /\ \A g \in Handlers \ {h} : calls'[g] = calls[g]
  BY <1>1, <1>2 DEF RowsTyped
<1>6. ASSUME NEW g \in Handlers, calls'[g] = calls[g], calls[g].pc = "activate"
      PROVE  invitations'[calls[g].link].status = "PENDING"
  <2>1. /\ calls[g].link \in Invitations /\ invitations[calls[g].link].status = "PENDING"
        /\ invitations[calls[g].link] # NoRow
    BY <1>2, <1>6, CallRows DEF WayInv, LinksKnown
  <2>2. calls[g].link \notin PendingFor(c, a) /\ calls[g].link # i
    BY <1>1, <1>6, <2>1 DEF InvitationLocked
  <2> QED
    BY <1>3, <2>1, <2>2
<1>7. ASSUME NEW g \in Handlers, calls'[g] = calls[g], calls[g].pc = "invite"
      PROVE  memberships'[calls[g].company][calls[g].account] # "ACTIVE"
  BY <1>1, <1>7 DEF WayInv, LinksKnown
<1>8. MembersExist'
  BY <1>1 DEF WayInv, MembersExist, Exists
<1> HIDE DEF row
<1>9. ASSUME NEW d \in Companies, NEW b \in Accounts, NEW j \in PendingFor(d, b)'
      PROVE  /\ PendingFor(d, b)' = {j} /\ memberships'[d][b] # "ACTIVE"
             /\ ~ invitations'[j].old
  <2>1. /\ j \in Invitations /\ invitations'[j].status = "PENDING"
        /\ invitations'[j].company = d /\ invitations'[j].account = b
    BY <1>9 DEF PendingFor
  <2>2. CASE d = c /\ b = a
    <3>1. PendingFor(c, a)' = {i}
      <4>1. i \in PendingFor(c, a)'
        BY <1>3, <1>4 DEF PendingFor
      <4>2. ASSUME NEW k \in Invitations \ {i}
            PROVE  k \notin PendingFor(c, a)'
        BY <1>3, <4>2 DEF PendingFor
      <4>3. PendingFor(c, a)' \subseteq Invitations
        BY DEF PendingFor
      <4> QED
        BY <4>1, <4>2, <4>3
    <3> QED
      BY <1>1, <1>3, <1>4, <1>9, <2>2, <3>1
  <2>3. CASE ~ (d = c /\ b = a)
    <3>1. \A k \in Invitations : k \in PendingFor(d, b)' <=> k \in PendingFor(d, b)
      BY <1>1, <1>3, <1>4, <2>3 DEF PendingFor, NoRow
    <3>2. PendingFor(d, b)' = PendingFor(d, b)
      BY <3>1 DEF PendingFor
    <3>3. j \in PendingFor(d, b) /\ j # i /\ j \notin PendingFor(c, a)
      BY <1>1, <1>3, <1>9, <2>3, <3>2 DEF PendingFor, NoRow
    <3>4. invitations'[j] = invitations[j]
      BY <1>3, <2>1, <3>3
    <3> QED
      BY <1>1, <3>2, <3>3, <3>4 DEF WayInv, OneWayIn
  <2> QED
    BY <2>2, <2>3
<1>10. OneWayIn'
  BY <1>9 DEF OneWayIn
<1> QED
  BY <1>3, <1>5, <1>6, <1>7, <1>8, <1>10, WayGoesOn

LEMMA RevokeWay ==
  ASSUME CustomersInv, LinksTyped, WayInv, NEW i \in Invitations, RevokeInvitation(i)
  PROVE  WayInv'
<1>1. UNCHANGED <<accounts, memberships, calls>> /\ ~ InvitationLocked(i)
  BY DEF RevokeInvitation, sOwn
<1>2. /\ InvitationsGoOn /\ invitations'[i].status = "REVOKED"
      /\ \A j \in Invitations \ {i} : invitations'[j] = invitations[j]
  BY RevokeRows
<1>3. ASSUME NEW g \in Handlers, calls[g].pc = "activate"
      PROVE  invitations'[calls[g].link].status = "PENDING"
  <2>1. /\ calls[g].link \in Invitations /\ invitations[calls[g].link].status = "PENDING"
    BY <1>3, CallRows DEF WayInv, LinksKnown, CustomersInv
  <2>2. calls[g].link # i
    BY <1>1, <1>3 DEF InvitationLocked
  <2> QED
    BY <1>2, <2>1, <2>2
<1>4. MembersExist'
  BY <1>1 DEF WayInv, MembersExist, Exists
<1>5. ASSUME NEW d \in Companies, NEW b \in Accounts, NEW j \in PendingFor(d, b)'
      PROVE  /\ PendingFor(d, b)' = {j} /\ memberships'[d][b] # "ACTIVE"
             /\ ~ invitations'[j].old
  <2>1. j # i /\ j \in Invitations
    BY <1>2, <1>5 DEF PendingFor
  <2>2. \A k \in PendingFor(d, b)' : k \in PendingFor(d, b)
    BY <1>2 DEF PendingFor
  <2>3. PendingFor(d, b) = {j} /\ memberships[d][b] # "ACTIVE" /\ ~ invitations[j].old
    BY <1>5, <2>2 DEF WayInv, OneWayIn
  <2>4. PendingFor(d, b)' = {j}
    BY <1>5, <2>2, <2>3
  <2> QED
    BY <1>1, <1>2, <2>1, <2>3, <2>4
<1>6. OneWayIn'
  BY <1>5 DEF OneWayIn
<1>7. \A g \in Handlers : calls[g].pc = "invite" =>
        memberships'[calls[g].company][calls[g].account] # "ACTIVE"
  BY <1>1 DEF WayInv, LinksKnown
<1> QED
  BY <1>1, <1>2, <1>3, <1>4, <1>6, <1>7, WayGoesOn

LEMMA ExpiryWay ==
  ASSUME CustomersInv, LinksTyped, WayInv, NEW i \in Invitations, InvitationExpires(i)
  PROVE  WayInv'
<1>1. UNCHANGED <<accounts, memberships, calls>>
  BY DEF InvitationExpires, sOwn
<1>2. /\ InvitationsGoOn
      /\ \A j \in Invitations : /\ invitations'[j].status = invitations[j].status
                                /\ invitations'[j].company = invitations[j].company
                                /\ invitations'[j].account = invitations[j].account
                                /\ invitations'[j].old <=> invitations[j].old
  BY ExpiryRows
<1>3. ASSUME NEW g \in Handlers, calls[g].pc = "activate"
      PROVE  invitations'[calls[g].link].status = "PENDING"
  BY <1>2, <1>3, CallRows DEF WayInv, LinksKnown, CustomersInv
<1>4. MembersExist'
  BY <1>1 DEF WayInv, MembersExist, Exists
<1>5. ASSUME NEW d \in Companies, NEW b \in Accounts, NEW j \in PendingFor(d, b)'
      PROVE  /\ PendingFor(d, b)' = {j} /\ memberships'[d][b] # "ACTIVE"
             /\ ~ invitations'[j].old
  <2>1. PendingFor(d, b)' = PendingFor(d, b)
    BY <1>2 DEF PendingFor
  <2>2. j \in Invitations /\ j \in PendingFor(d, b)
    BY <1>5, <2>1 DEF PendingFor
  <2> QED
    BY <1>1, <1>2, <2>1, <2>2 DEF WayInv, OneWayIn
<1>6. OneWayIn'
  BY <1>5 DEF OneWayIn
<1>7. \A g \in Handlers : calls[g].pc = "invite" =>
        memberships'[calls[g].company][calls[g].account] # "ACTIVE"
  BY <1>1 DEF WayInv, LinksKnown
<1> QED
  BY <1>1, <1>2, <1>3, <1>4, <1>6, <1>7, WayGoesOn

LEMMA MembershipWay ==
  ASSUME CustomersInv, LinksTyped, WayInv, NEW c \in Companies, NEW a \in Accounts,
         RevokeMembership(c, a)
  PROVE  WayInv'
<1>1. /\ UNCHANGED <<accounts, calls>> /\ memberships' = [memberships EXCEPT ![c][a] = "REVOKED"]
      /\ \A i \in PendingFor(c, a) : ~ InvitationLocked(i)
  BY DEF RevokeMembership, RevokedWith, sOwn
<1>2. /\ InvitationsGoOn
      /\ \A i \in PendingFor(c, a) : invitations'[i].status = "REVOKED"
      /\ \A i \in Invitations :
           (invitations[i] = NoRow \/ invitations[i].company # c \/ invitations[i].account # a)
             => invitations'[i] = invitations[i]
  BY MembershipRows
<1>3. /\ memberships'[c][a] = "REVOKED"
      /\ \A d \in Companies, b \in Accounts :
           (d # c \/ b # a) => memberships'[d][b] = memberships[d][b]
  BY <1>1 DEF CustomersInv, RowsTyped
<1>4. \A i \in Invitations : invitations'[i].status = "PENDING" =>
        invitations[i] = NoRow \/ invitations[i].company # c \/ invitations[i].account # a
  BY <1>2 DEF PendingFor, InvitationsGoOn, InvitationGoesOn
<1>5. ASSUME NEW g \in Handlers, calls[g].pc = "activate"
      PROVE  invitations'[calls[g].link].status = "PENDING"
  <2>1. /\ calls[g].link \in Invitations /\ invitations[calls[g].link].status = "PENDING"
    BY <1>5, CallRows DEF WayInv, LinksKnown, CustomersInv
  <2>2. calls[g].link \notin PendingFor(c, a)
    BY <1>1, <1>5 DEF InvitationLocked
  <2> QED
    BY <1>2, <2>1, <2>2 DEF PendingFor
<1>6. MembersExist'
  BY <1>1, <1>3 DEF WayInv, MembersExist, Exists
<1>7. ASSUME NEW d \in Companies, NEW b \in Accounts, NEW j \in PendingFor(d, b)'
      PROVE  /\ PendingFor(d, b)' = {j} /\ memberships'[d][b] # "ACTIVE"
             /\ ~ invitations'[j].old
  <2>1. \A k \in PendingFor(d, b)' : k \in Invitations /\ invitations'[k] = invitations[k]
    BY <1>2, <1>4 DEF PendingFor
  <2>2. \A k \in PendingFor(d, b)' : k \in PendingFor(d, b)
    BY <2>1 DEF PendingFor
  <2>3. d # c \/ b # a
    BY <1>2, <1>7, <2>2 DEF PendingFor
  <2>4. PendingFor(d, b) = {j} /\ memberships[d][b] # "ACTIVE" /\ ~ invitations[j].old
    BY <1>7, <2>2 DEF WayInv, OneWayIn
  <2>5. PendingFor(d, b)' = {j}
    BY <1>7, <2>2, <2>4
  <2> QED
    BY <1>3, <1>7, <2>1, <2>3, <2>4, <2>5
<1>8. OneWayIn'
  BY <1>7 DEF OneWayIn
<1>9. \A g \in Handlers : calls[g].pc = "invite" =>
        memberships'[calls[g].company][calls[g].account] # "ACTIVE"
  <2> SUFFICES ASSUME NEW g \in Handlers, calls[g].pc = "invite"
               PROVE  memberships'[calls[g].company][calls[g].account] # "ACTIVE"
    OBVIOUS
  <2>1. calls[g].company \in Companies /\ calls[g].account \in Accounts
    BY CallRows DEF CustomersInv
  <2>2. memberships[calls[g].company][calls[g].account] # "ACTIVE"
    BY DEF WayInv, LinksKnown
  <2> QED
    BY <1>3, <2>1, <2>2
<1> QED
  BY <1>1, <1>2, <1>5, <1>6, <1>8, <1>9, WayGoesOn

LEMMA ActivateWay ==
  ASSUME CustomersInv, CustomersInv', LinksTyped, WayInv, NEW h \in Handlers, Activate(h),
         \A b \in Accounts : Exists(b) => Exists(b)'
  PROVE  WayInv'
<1>0. PICK i, c, a : i = calls[h].link /\ c = invitations[i].company /\ a = invitations[i].account
  OBVIOUS
<1>1. /\ calls[h].pc = "activate" /\ calls' = [calls EXCEPT ![h] = Idle]
      /\ accounts' = [accounts EXCEPT ![a] = [role |-> "CUSTOMER", status |-> "ACTIVE"]]
      /\ memberships' = [memberships EXCEPT ![c][a] = "ACTIVE"]
  BY <1>0 DEF Activate
<1>2. RowsTyped /\ LinksKnown
  BY DEF CustomersInv, WayInv
<1>3. /\ InvitationsGoOn
      /\ i \in Invitations /\ invitations[i] # NoRow
      /\ invitations[i].status = "PENDING" /\ invitations'[i].status = "CONSUMED"
      /\ \A j \in Invitations \ {i} : invitations'[j] = invitations[j]
  BY <1>0, <1>2, ActivateRows
<1>4. c \in Companies /\ a \in Accounts
  BY <1>0, <1>3, LinkRows DEF Invitation
<1>5. /\ memberships'[c][a] = "ACTIVE"
      /\ \A d \in Companies, b \in Accounts :
           (d # c \/ b # a) => memberships'[d][b] = memberships[d][b]
  BY <1>1, <1>2, <1>4 DEF RowsTyped
<1>6. calls'[h] = Idle /\ \A g \in Handlers \ {h} : calls'[g] = calls[g]
  BY <1>1, <1>2 DEF RowsTyped
<1>7. HoldsEmail(h, a)
  BY <1>0, <1>1 DEF HoldsEmail
<1>8. ASSUME NEW g \in Handlers, HoldsEmail(g, a)
      PROVE  calls'[g] = Idle
  BY <1>4, <1>6, <1>7, <1>8 DEF WayInv, OneHoldsEmail
<1>9. ASSUME NEW g \in Handlers, calls'[g] = calls[g], calls[g].pc = "activate"
      PROVE  invitations'[calls[g].link].status = "PENDING"
  <2>1. /\ calls[g].link \in Invitations /\ invitations[calls[g].link].status = "PENDING"
    BY <1>2, <1>9, CallRows DEF LinksKnown
  <2>2. calls[g].link # i
    BY <1>0, <1>8, <1>9 DEF HoldsEmail, Idle
  <2> QED
    BY <1>3, <2>1, <2>2
<1>10. ASSUME NEW g \in Handlers, calls'[g] = calls[g], calls[g].pc = "invite"
       PROVE  memberships'[calls[g].company][calls[g].account] # "ACTIVE"
  <2>1. calls[g].company \in Companies /\ calls[g].account \in Accounts
    BY <1>2, <1>10, CallRows
  <2>2. calls[g].account # a
    BY <1>8, <1>10 DEF HoldsEmail, Idle
  <2>3. memberships[calls[g].company][calls[g].account] # "ACTIVE"
    BY <1>2, <1>10 DEF LinksKnown
  <2> QED
    BY <1>5, <2>1, <2>2, <2>3
<1>11. MembersExist'
  <2>1. Exists(a)'
    BY <1>1, <1>4 DEF Exists, NoRow, CustomersInv, AccountsInv, AccountsTyped
  <2> QED
    BY <1>5, <2>1 DEF WayInv, MembersExist
<1>12. ASSUME NEW d \in Companies, NEW b \in Accounts, NEW j \in PendingFor(d, b)'
       PROVE  /\ PendingFor(d, b)' = {j} /\ memberships'[d][b] # "ACTIVE"
              /\ ~ invitations'[j].old
  <2>1. \A k \in PendingFor(d, b)' : /\ k \in Invitations \ {i} /\ k \in PendingFor(d, b)
                                     /\ invitations'[k] = invitations[k]
    BY <1>3 DEF PendingFor
  <2>2. PendingFor(d, b) = {j} /\ memberships[d][b] # "ACTIVE" /\ ~ invitations[j].old
    BY <1>12, <2>1 DEF WayInv, OneWayIn
  <2>3. d # c \/ b # a
    BY <1>0, <1>3, <1>12, <2>1, <2>2 DEF PendingFor
  <2>4. PendingFor(d, b)' = {j}
    BY <1>12, <2>1, <2>2
  <2> QED
    BY <1>5, <1>12, <2>1, <2>2, <2>3, <2>4
<1>13. OneWayIn'
  BY <1>12 DEF OneWayIn
<1> QED
  BY <1>3, <1>6, <1>9, <1>10, <1>11, <1>13, WayGoesOn

\* A handler begins, goes on with or ends something that has no lock of an email.
LEMMA OneCallWay ==
  ASSUME CustomersInv, LinksTyped, WayInv, UNCHANGED <<invitations, memberships>>,
         \A a \in Accounts : Exists(a) => Exists(a)',
         NEW h \in Handlers, NEW row, row.pc \notin {"invite", "preview", "activate"},
         calls' = [calls EXCEPT ![h] = row]
  PROVE  WayInv'
<1>1. calls'[h] = row /\ \A g \in Handlers \ {h} : calls'[g] = calls[g]
  BY DEF CustomersInv, RowsTyped
<1> QED
  BY <1>1, WayKept

LEMMA WayStep ==
  ASSUME CustomersInv, CustomersInv', LinksTyped, WayInv, [CNext]_cVars
  PROVE  WayInv'
<1>1. \A a \in Accounts : Exists(a) => Exists(a)'
  BY AccountsStay
<1>2. CASE UNCHANGED <<invitations, memberships, calls>>
  BY <1>1, <1>2, WayKept
<1>3. CASE InvitationStep
  <2>1. CASE \E c \in Companies : SetCompany(c)
    BY <1>2, <2>1 DEF SetCompany
  <2>2. CASE \E h \in Handlers : Activate(h)
    BY <1>1, <2>2, ActivateWay
  <2> QED
    BY <1>3, <2>1, <2>2, BeginInviteWay, InviteWay, PreviewWay, BeginActivateWay, RevokeWay,
       ExpiryWay, MembershipWay DEF InvitationStep
<1>4. CASE PasswordStep
  <2>1. UNCHANGED <<invitations, memberships>>
    BY <1>4 DEF PasswordStep, Recover, BeginReset, Reset, ChangeOwnPassword, NewPassword,
                RecoveryAges
  <2>2. ASSUME NEW h \in Handlers, NEW t \in Recoveries, BeginReset(h, t)
        PROVE  WayInv'
    <3>1. /\ calls' = [calls EXCEPT ![h] = [pc |-> "reset", link |-> t]]
          /\ [pc |-> "reset", link |-> t].pc \notin {"invite", "preview", "activate"}
      BY <2>2 DEF BeginReset
    <3> QED
      BY <1>1, <2>1, <3>1, OneCallWay
  <2>3. ASSUME NEW h \in Handlers, Reset(h)
        PROVE  WayInv'
    <3>1. calls' = [calls EXCEPT ![h] = Idle] /\ Idle.pc \notin {"invite", "preview", "activate"}
      BY <2>3 DEF Reset, Idle
    <3> QED
      BY <1>1, <2>1, <3>1, OneCallWay
  <2>4. CASE UNCHANGED calls
    BY <1>2, <2>1, <2>4
  <2> QED
    BY <1>4, <2>2, <2>3, <2>4 DEF PasswordStep, Recover, ChangeOwnPassword, RecoveryAges
<1>5. CASE ActStep
  <2>1. UNCHANGED <<invitations, memberships>>
    BY <1>5 DEF ActStep, Check, Authorize, End
  <2>2. ASSUME NEW h \in Handlers, NEW s \in Sessions, NEW c \in Companies, Check(h, s, c)
        PROVE  WayInv'
    <3> DEFINE row == [pc |-> "checked", company |-> c, account |-> sessions[s].account]
    <3>1. calls' = [calls EXCEPT ![h] = row] /\ row.pc = "checked"
      BY <2>2 DEF Check
    <3> HIDE DEF row
    <3> QED
      BY <1>1, <2>1, <3>1, OneCallWay
  <2>3. ASSUME NEW h \in Handlers, Authorize(h)
        PROVE  WayInv'
    <3>1. calls' = [calls EXCEPT ![h].pc = "acting"] /\ calls[h].pc = "checked"
      BY <2>3 DEF Authorize
    <3>2. calls'[h].pc = "acting" /\ \A g \in Handlers \ {h} : calls'[g] = calls[g]
      BY <3>1 DEF CustomersInv, RowsTyped, Call, Idle
    <3> QED
      BY <1>1, <2>1, <3>2, WayKept
  <2>4. ASSUME NEW h \in Handlers, End(h)
        PROVE  WayInv'
    <3>1. calls' = [calls EXCEPT ![h] = Idle] /\ Idle.pc \notin {"invite", "preview", "activate"}
      BY <2>4 DEF End, Idle
    <3> QED
      BY <1>1, <2>1, <3>1, OneCallWay
  <2> QED
    BY <1>5, <2>2, <2>3, <2>4 DEF ActStep
<1>6. CASE MailStep
  BY <1>2, <1>6 DEF MailStep, Take, Post, Settle, MailerCrash, MailDue
<1> QED
  BY <1>2, <1>3, <1>4, <1>5, <1>6 DEF CNext, cOwn, cVars

-----------------------------------------------------------------------------
(* Recovery links *)

LEMMA RecoveryEndedGoesOn ==
  ASSUME NEW t \in Recoveries, recoveries'[t] \in Recovery, recoveries'[t].status = "CONSUMED",
         recoveries'[t].account = recoveries[t].account
  PROVE  RecoveryGoesOn(t)
  BY DEF RecoveryGoesOn, Recovers

LEMMA SameRecoveryGoesOn ==
  ASSUME LinksTyped, NEW t \in Recoveries, recoveries[t] # NoRow,
         recoveries'[t] = recoveries[t]
  PROVE  RecoveryGoesOn(t)
  BY LinkRows DEF RecoveryGoesOn, Recovers

\* What a step does to the links: none is made, except for a customer.
RecoveriesGrow ==
  /\ recoveries' \in [Recoveries -> Recovery \cup {NoRow}]
  /\ RecoveriesGoOn
  /\ \A t \in Recoveries : recoveries[t] = NoRow =>
       recoveries'[t] = NoRow \/ IsCustomer(recoveries'[t].account)

LEMMA PasswordRecoveries ==
  ASSUME LinksTyped, NEW a, recoveries' = Consumed(LinksOf(a))
  PROVE  /\ RecoveriesGrow
         /\ \A t \in LinksOf(a) : recoveries'[t].status = "CONSUMED"
<1>1. LinksOf(a) \subseteq Recoveries /\ \A t \in LinksOf(a) : recoveries[t] # NoRow
  BY DEF LinksOf
<1>2. /\ recoveries' \in [Recoveries -> Recovery \cup {NoRow}]
      /\ \A t \in LinksOf(a) : /\ recoveries'[t] \in Recovery
                               /\ recoveries'[t].status = "CONSUMED"
                               /\ recoveries'[t].account = recoveries[t].account
      /\ \A t \in Recoveries \ LinksOf(a) : recoveries'[t] = recoveries[t]
  BY <1>1, ConsumedRowsOf
<1>3. \A t \in LinksOf(a) : RecoveryGoesOn(t)
  BY <1>1, <1>2, RecoveryEndedGoesOn
<1>4. \A t \in Recoveries \ LinksOf(a) : recoveries[t] # NoRow => RecoveryGoesOn(t)
  BY <1>2, SameRecoveryGoesOn
<1> QED
  BY <1>1, <1>2, <1>3, <1>4 DEF RecoveriesGrow, RecoveriesGoOn

LEMMA RecoverRecoveries ==
  ASSUME LinksTyped, NEW a \in Accounts, NEW t \in Recoveries, Recover(a, t)
  PROVE  RecoveriesGrow /\ recoveries'[t] # NoRow /\ recoveries[t] = NoRow
<1> DEFINE row == [status |-> "LIVE", account |-> a, expired |-> FALSE, recent |-> TRUE]
           rows == Consumed(LinksOf(a))
<1>1. recoveries[t] = NoRow /\ recoveries' = [rows EXCEPT ![t] = row] /\ IsCustomer(a)
  BY DEF Recover
<1>2. LinksOf(a) \subseteq Recoveries /\ \A u \in LinksOf(a) : recoveries[u] # NoRow
  BY DEF LinksOf
<1>3. /\ rows \in [Recoveries -> Recovery \cup {NoRow}]
      /\ \A u \in LinksOf(a) : /\ rows[u] \in Recovery /\ rows[u].status = "CONSUMED"
                               /\ rows[u].account = recoveries[u].account
      /\ \A u \in Recoveries \ LinksOf(a) : rows[u] = recoveries[u]
  BY <1>2, ConsumedRowsOf
<1>4. row \in Recovery /\ row.account = a /\ row # NoRow
  BY LinkRows DEF Recovery
<1> HIDE DEF row, rows
<1>5. /\ recoveries' \in [Recoveries -> Recovery \cup {NoRow}]
      /\ recoveries'[t] = row
      /\ \A u \in Recoveries \ {t} : recoveries'[u] = rows[u]
  BY <1>1, <1>3, <1>4
<1>6. ASSUME NEW u \in Recoveries, recoveries[u] # NoRow
      PROVE  RecoveryGoesOn(u)
  <2>1. u # t /\ recoveries'[u] = rows[u]
    BY <1>1, <1>5, <1>6
  <2>2. CASE u \in LinksOf(a)
    BY <1>3, <2>1, <2>2, RecoveryEndedGoesOn
  <2>3. CASE u \notin LinksOf(a)
    BY <1>3, <1>6, <2>1, <2>3, SameRecoveryGoesOn
  <2> QED
    BY <2>2, <2>3
<1>7. \A u \in Recoveries : recoveries[u] = NoRow =>
        recoveries'[u] = NoRow \/ IsCustomer(recoveries'[u].account)
  BY <1>1, <1>2, <1>3, <1>4, <1>5
<1> QED
  BY <1>1, <1>4, <1>5, <1>6, <1>7 DEF RecoveriesGrow, RecoveriesGoOn

LEMMA AgingRecoveries ==
  ASSUME LinksTyped, NEW t \in Recoveries, RecoveryAges(t)
  PROVE  RecoveriesGrow
<1> DEFINE row == [recoveries[t] EXCEPT !.recent = FALSE, !.expired = ~ recoveries[t].recent]
<1>1. /\ recoveries[t] # NoRow /\ ~ recoveries[t].expired /\ recoveries[t] \in Recovery
      /\ recoveries' = [recoveries EXCEPT ![t] = row]
  BY LinkRows DEF RecoveryAges, LinksTyped
<1>2. /\ row \in Recovery /\ row.status = recoveries[t].status
      /\ row.account = recoveries[t].account
  BY <1>1, RecoveryIsOlder
<1> HIDE DEF row
<1>3. /\ recoveries' \in [Recoveries -> Recovery \cup {NoRow}]
      /\ recoveries'[t] = row
      /\ \A u \in Recoveries \ {t} : recoveries'[u] = recoveries[u]
  BY <1>1, <1>2 DEF LinksTyped
<1>4. RecoveryGoesOn(t)
  BY <1>1, <1>2, <1>3 DEF RecoveryGoesOn, Recovers
<1>5. \A u \in Recoveries \ {t} : recoveries[u] # NoRow => RecoveryGoesOn(u)
  BY <1>3, SameRecoveryGoesOn
<1> QED
  BY <1>1, <1>3, <1>4, <1>5 DEF RecoveriesGrow, RecoveriesGoOn

LEMMA SameRecoveries ==
  ASSUME LinksTyped, UNCHANGED recoveries
  PROVE  RecoveriesGrow
  BY SameRecoveryGoesOn DEF LinksTyped, RecoveriesGrow, RecoveriesGoOn

LEMMA RecoveriesStep ==
  ASSUME CustomersInv, LinksTyped, [CNext]_cVars
  PROVE  RecoveriesGrow
<1>1. CASE UNCHANGED recoveries
  BY <1>1, SameRecoveries
<1>2. CASE PasswordStep
  <2>1. CASE \E a \in Accounts, t \in Recoveries : Recover(a, t)
    BY <2>1, RecoverRecoveries
  <2>2. CASE \E h \in Handlers : Reset(h)
    <3>1. PICK a : recoveries' = Consumed(LinksOf(a))
      BY <2>2 DEF Reset, NewPassword
    <3> QED
      BY <3>1, PasswordRecoveries
  <2>3. CASE \E a \in Accounts : ChangeOwnPassword(a)
    BY <2>3, PasswordRecoveries DEF ChangeOwnPassword, NewPassword
  <2>4. CASE \E t \in Recoveries : RecoveryAges(t)
    BY <2>4, AgingRecoveries
  <2> QED
    BY <1>1, <1>2, <2>1, <2>2, <2>3, <2>4 DEF PasswordStep, BeginReset
<1>3. CASE InvitationStep
  BY <1>1, <1>3 DEF InvitationStep, BeginInvite, Invite, Preview, BeginActivate, Activate,
     RevokeInvitation, InvitationExpires, RevokeMembership, SetCompany
<1>4. CASE ActStep \/ MailStep
  BY <1>1, <1>4 DEF ActStep, Check, Authorize, End, MailStep, Take, Post, Settle, MailerCrash,
                    MailDue
<1> QED
  BY <1>1, <1>2, <1>3, <1>4 DEF CNext, cOwn, cVars

\* Who is a customer stays one.
LEMMA CustomersStay ==
  ASSUME CustomersInv, [CNext]_cVars, NEW a \in Accounts, IsCustomer(a)
  PROVE  IsCustomer(a)'
<1>1. CASE accounts'[a] = accounts[a]
  BY <1>1 DEF IsCustomer, Exists
<1>2. CASE SNext
  BY <1>1, <1>2, CustomersKeptBySessions DEF CustomersInv
<1>3. CASE \E h \in Handlers : Activate(h)
  <2>1. PICK b : accounts' =
          [accounts EXCEPT ![b] = [role |-> "CUSTOMER", status |-> "ACTIVE"]]
    BY <1>3 DEF Activate
  <2>2. accounts'[a] = accounts[a]
    BY <2>1 DEF IsCustomer, CustomersInv, AccountsInv, AccountsTyped
  <2> QED
    BY <1>1, <2>2
<1>4. CASE UNCHANGED accounts
  BY <1>1, <1>4
<1>5. CASE InvitationStep
  BY <1>3, <1>4, <1>5 DEF InvitationStep, BeginInvite, Invite, Preview, BeginActivate,
     RevokeInvitation, InvitationExpires, RevokeMembership, SetCompany, sOwn
<1>6. CASE PasswordStep \/ ActStep \/ MailStep
  BY <1>4, <1>6 DEF PasswordStep, Recover, BeginReset, Reset, ChangeOwnPassword, NewPassword,
     RecoveryAges, ActStep, Check, Authorize, End, MailStep, Take, Post, Settle, MailerCrash,
     MailDue, sOwn
<1> QED
  BY <1>2, <1>4, <1>5, <1>6 DEF CNext, cVars

LEMMA LinksOfCustomersStep ==
  ASSUME CustomersInv, LinksTyped, RecoveriesOfCustomers, [CNext]_cVars
  PROVE  RecoveriesOfCustomers'
<1> SUFFICES ASSUME NEW t \in Recoveries, recoveries'[t] # NoRow
             PROVE  IsCustomer(recoveries[t].account)'
  BY DEF RecoveriesOfCustomers
<1>1. RecoveriesGrow
  BY RecoveriesStep
<1>2. recoveries'[t].account \in Accounts
  BY <1>1 DEF RecoveriesGrow, Recovery
<1>3. IsCustomer(recoveries'[t].account)
  BY <1>1 DEF RecoveriesGrow, RecoveriesGoOn, RecoveryGoesOn, RecoveriesOfCustomers
<1>4. PICK a \in Accounts : a = recoveries'[t].account
  BY <1>2
<1>5. IsCustomer(a)'
  BY <1>3, <1>4, CustomersStay
<1> QED
  BY <1>4, <1>5 DEF IsCustomer, Exists

-----------------------------------------------------------------------------
(* Mails *)

\* What the other actions do to the link of a mail: it stays, and if it is of no use it stays so.
LinkStays(link) == HasLink(link)' /\ (Usable(link)' => Usable(link))
LinksStay == \A link \in Links : mails[link] # NoRow => LinkStays(link)

LEMMA LinksStep ==
  ASSUME CustomersInv, LinksTyped, WayInv, RecoveriesOfCustomers, MailsHaveLinks, [CNext]_cVars
  PROVE  LinksStay
<1> SUFFICES ASSUME NEW link \in Links, mails[link] # NoRow
             PROVE  LinkStays(link)
  BY DEF LinksStay
<1>1. CASE link \in Invitations
  <2>1. InvitationGoesOn(link)
    BY <1>1, InvitationsStep DEF MailsHaveLinks, HasLink, InvitationsGoOn, WayInv
  <2>2. HasLink(link)'
    BY <1>1, <2>1, LinkRows DEF HasLink, InvitationGoesOn
  <2>3. Usable(link)' => Usable(link)
    BY <1>1, <2>1 DEF Usable, InvitationGoesOn
  <2> QED
    BY <2>2, <2>3 DEF LinkStays
<1>2. CASE link \notin Invitations
  <2>1. link \in Recoveries /\ recoveries[link] # NoRow
    BY <1>2 DEF Links, MailsHaveLinks, HasLink
  <2>2. RecoveryGoesOn(link)
    BY <2>1, RecoveriesStep DEF RecoveriesGrow, RecoveriesGoOn
  <2>3. HasLink(link)'
    BY <1>2, <2>2, LinkRows DEF HasLink, RecoveryGoesOn
  <2>4. Usable(link)' => Usable(link)
    BY <1>2, <2>1, <2>2 DEF Usable, RecoveryGoesOn, RecoveriesOfCustomers
  <2> QED
    BY <2>3, <2>4 DEF LinkStays
<1> QED
  BY <1>1, <1>2

\* The edits of the row of a mail.
LEMMA MailQueued == [status |-> "PENDING", attempts |-> 0, due |-> TRUE] \in Mail
  BY DEF Mail

LEMMA MailSettled ==
  ASSUME NEW row \in Mail, row.attempts < MaxAttempts, NEW pc
  PROVE  /\ Settled(row, pc) \in Mail
         /\ Settled(row, pc).status = IF pc = "sent" THEN "SENT" ELSE "FAILED"
<1> DEFINE status == IF pc = "sent" THEN "SENT" ELSE "FAILED"
           a == [row EXCEPT !.status = status]
           b == [a EXCEPT !.attempts = row.attempts + 1]
           d == [b EXCEPT !.due = FALSE]
<1>1. status \in {"PENDING", "FAILED", "SENT"}
  OBVIOUS
<1>2. row.attempts + 1 \in 0 .. MaxAttempts
  BY DEF Mail
<1> HIDE DEF status
<1>3. a \in Mail /\ a.status = status /\ a.attempts = row.attempts
  BY <1>1 DEF Mail
<1> HIDE DEF a
<1>4. b \in Mail /\ b.status = status
  BY <1>2, <1>3 DEF Mail
<1> HIDE DEF b
<1>5. d \in Mail /\ d.status = status
  BY <1>4 DEF Mail
<1>6. Settled(row, pc) = d
  BY DEF Settled, a, b, status
<1> QED
  BY <1>5, <1>6 DEF status

LEMMA MailUseless ==
  ASSUME NEW row \in Mail, NEW new, new = [row EXCEPT !.status = "SENT"]
  PROVE  new \in Mail /\ new.status = "SENT"
  BY DEF Mail

LEMMA MailIsDue ==
  ASSUME NEW row \in Mail, NEW new, new = [row EXCEPT !.due = TRUE]
  PROVE  new \in Mail /\ new.status = row.status /\ new.attempts = row.attempts
  BY DEF Mail

MailsTyped == mails \in [Links -> Mail \cup {NoRow}] /\ mailers \in [Mailers -> Mailing]

LEMMA MailsUnchanged ==
  ASSUME LinksTyped, MailInv, LinksStay, UNCHANGED <<mails, mailers, delivered>>
  PROVE  MailsTyped' /\ MailInv'
<1>1. MailsTyped'
  BY DEF LinksTyped, MailsTyped
<1>2. MailsHaveLinks'
  BY DEF MailInv, MailsHaveLinks, LinksStay, LinkStays
<1>3. OneHoldsMail' /\ MailersHold'
  BY DEF MailInv, OneHoldsMail, MailersHold
<1>4. SentIsDone'
  BY LinkRows DEF MailInv, SentIsDone, LinksStay, LinkStays
<1> QED
  BY <1>1, <1>2, <1>3, <1>4 DEF MailInv

\* A mail is queued for a link that did not exist.
LEMMA QueuedSafe ==
  ASSUME LinksTyped, MailInv, LinksStay, NEW link \in Links, ~ HasLink(link), HasLink(link)',
         mails' = Queued(link), UNCHANGED <<mailers, delivered>>
  PROVE  MailsTyped' /\ MailInv'
<1> DEFINE row == [status |-> "PENDING", attempts |-> 0, due |-> TRUE]
<1>1. mails[link] = NoRow
  BY DEF MailInv, MailsHaveLinks
<1>2. row \in Mail /\ row.status # "SENT"
  BY MailQueued
<1>3. mails' = [mails EXCEPT ![link] = row]
  BY DEF Queued
<1> HIDE DEF row
<1>4. /\ mails' \in [Links -> Mail \cup {NoRow}] /\ mails'[link] = row
      /\ \A other \in Links \ {link} : mails'[other] = mails[other]
  BY <1>2, <1>3 DEF LinksTyped
<1>5. \A w \in Mailers : mailers[w] # Idle => mailers[w].link # link /\ mailers[w].link \in Links
  BY <1>1, LinkRows DEF MailInv, MailersHold, NoRow
<1>6. MailsTyped'
  BY <1>4 DEF LinksTyped, MailsTyped
<1>7. MailsHaveLinks'
  BY <1>4 DEF MailInv, MailsHaveLinks, LinksStay, LinkStays
<1>8. OneHoldsMail' /\ MailersHold'
  BY <1>4, <1>5 DEF MailInv, OneHoldsMail, MailersHold
<1>9. SentIsDone'
  <2> SUFFICES ASSUME NEW other \in Links, mails'[other].status = "SENT"
               PROVE  other \in delivered' \/ ~ Usable(other)'
    BY DEF SentIsDone
  <2>1. other # link /\ mails[other].status = "SENT" /\ mails[other] # NoRow
    BY <1>2, <1>4 DEF NoRow
  <2> QED
    BY <2>1 DEF MailInv, SentIsDone, LinksStay, LinkStays
<1> QED
  BY <1>6, <1>7, <1>8, <1>9 DEF MailInv

LEMMA TakeSafe ==
  ASSUME LinksTyped, MailInv, LinksStay, NEW w \in Mailers, NEW link \in Links, Take(w, link)
  PROVE  MailsTyped' /\ MailInv'
<1>1. /\ mailers[w] = Idle /\ ~ Held(link) /\ UNCHANGED delivered
      /\ mails[link].status \in {"PENDING", "FAILED"} /\ mails[link].attempts < MaxAttempts
  BY DEF Take
<1>2. mails[link] \in Mail /\ mails[link] # NoRow
  BY <1>1, LinkRows
<1>3. CASE Usable(link)
  <2>1. mailers' = [mailers EXCEPT ![w] = [pc |-> "send", link |-> link]] /\ UNCHANGED mails
    BY <1>3 DEF Take
  <2>2. /\ mailers' \in [Mailers -> Mailing]
        /\ mailers'[w].pc = "send" /\ mailers'[w].link = link
        /\ \A v \in Mailers \ {w} : mailers'[v] = mailers[v]
    BY <2>1 DEF LinksTyped, Mailing
  <2>3. MailsTyped'
    BY <2>1, <2>2 DEF LinksTyped, MailsTyped
  <2>4. MailsHaveLinks'
    BY <2>1 DEF MailInv, MailsHaveLinks, LinksStay, LinkStays
  <2>5. OneHoldsMail'
    BY <1>1, <2>2 DEF MailInv, OneHoldsMail, Held
  <2>6. MailersHold'
    BY <1>1, <2>1, <2>2 DEF MailInv, MailersHold
  <2>7. SentIsDone'
    BY <1>1, <2>1, LinkRows DEF MailInv, SentIsDone, LinksStay, LinkStays
  <2> QED
    BY <2>3, <2>4, <2>5, <2>6, <2>7 DEF MailInv
<1>4. CASE ~ Usable(link)
  <2> DEFINE row == [mails[link] EXCEPT !.status = "SENT"]
  <2>1. mails' = [mails EXCEPT ![link] = row] /\ UNCHANGED mailers
    BY <1>4 DEF Take
  <2>2. row \in Mail /\ row.status = "SENT"
    BY <1>2, MailUseless
  <2> HIDE DEF row
  <2>3. /\ mails' \in [Links -> Mail \cup {NoRow}] /\ mails'[link] = row
        /\ \A other \in Links \ {link} : mails'[other] = mails[other]
    BY <2>1, <2>2 DEF LinksTyped
  <2>4. MailsTyped'
    BY <2>1, <2>3 DEF LinksTyped, MailsTyped
  <2>5. MailsHaveLinks'
    BY <1>2, <2>3 DEF MailInv, MailsHaveLinks, LinksStay, LinkStays
  <2>6. \A v \in Mailers : mailers[v] # Idle => mailers[v].link # link /\ mailers[v].link \in Links
    BY <1>1, LinkRows DEF Held
  <2>7. OneHoldsMail' /\ MailersHold'
    BY <1>1, <2>1, <2>3, <2>6 DEF MailInv, OneHoldsMail, MailersHold
  <2>8. SentIsDone'
    <3> SUFFICES ASSUME NEW other \in Links, mails'[other].status = "SENT"
                 PROVE  other \in delivered' \/ ~ Usable(other)'
      BY DEF SentIsDone
    <3>1. CASE other = link
      BY <1>2, <1>4, <3>1 DEF LinksStay, LinkStays
    <3>2. CASE other # link
      <4>1. mails[other].status = "SENT" /\ mails[other] # NoRow
        BY <2>3, <3>2 DEF NoRow
      <4> QED
        BY <1>1, <4>1 DEF MailInv, SentIsDone, LinksStay, LinkStays
    <3> QED
      BY <3>1, <3>2
  <2> QED
    BY <2>4, <2>5, <2>7, <2>8 DEF MailInv
<1> QED
  BY <1>3, <1>4

LEMMA PostSafe ==
  ASSUME LinksTyped, MailInv, LinksStay, NEW w \in Mailers, Post(w)
  PROVE  MailsTyped' /\ MailInv'
<1>1. /\ mailers[w].pc = "send" /\ UNCHANGED mails /\ delivered \subseteq delivered'
      /\ \E pc \in {"sent", "failed"} :
           /\ mailers' = [mailers EXCEPT ![w].pc = pc]
           /\ pc = "sent" => mailers[w].link \in delivered'
  BY DEF Post
<1>2. mailers[w] # Idle /\ mailers[w] \in [pc : {"send", "sent", "failed"}, link : Links]
  BY <1>1 DEF LinksTyped, Mailing, Idle
<1>3. /\ mailers' \in [Mailers -> Mailing]
      /\ mailers'[w].link = mailers[w].link
      /\ mailers'[w].pc = "sent" => mailers[w].link \in delivered'
      /\ \A v \in Mailers \ {w} : mailers'[v] = mailers[v]
  <2>1. PICK pc \in {"sent", "failed"} : /\ mailers' = [mailers EXCEPT ![w].pc = pc]
                                         /\ pc = "sent" => mailers[w].link \in delivered'
    BY <1>1
  <2>2. /\ [mailers[w] EXCEPT !.pc = pc] \in Mailing
        /\ [mailers[w] EXCEPT !.pc = pc].link = mailers[w].link
        /\ [mailers[w] EXCEPT !.pc = pc].pc = pc
    BY <1>2 DEF Mailing
  <2>3. /\ mailers' \in [Mailers -> Mailing] /\ mailers'[w] = [mailers[w] EXCEPT !.pc = pc]
        /\ \A v \in Mailers \ {w} : mailers'[v] = mailers[v]
    BY <2>1, <2>2 DEF LinksTyped
  <2> QED
    BY <2>1, <2>2, <2>3
<1>4. MailsTyped'
  BY <1>1, <1>3 DEF LinksTyped, MailsTyped
<1>5. MailsHaveLinks'
  BY <1>1 DEF MailInv, MailsHaveLinks, LinksStay, LinkStays
<1>6. \A v \in Mailers : mailers'[v] # Idle =>
        mailers[v] # Idle /\ mailers'[v].link = mailers[v].link
  BY <1>2, <1>3
<1>7. OneHoldsMail'
  BY <1>6 DEF MailInv, OneHoldsMail
<1>8. MailersHold'
  BY <1>1, <1>3, <1>6 DEF MailInv, MailersHold
<1>9. SentIsDone'
  BY <1>1, LinkRows DEF MailInv, SentIsDone, LinksStay, LinkStays
<1> QED
  BY <1>4, <1>5, <1>7, <1>8, <1>9 DEF MailInv

LEMMA SettleSafe ==
  ASSUME LinksTyped, MailInv, LinksStay, NEW w \in Mailers, Settle(w)
  PROVE  MailsTyped' /\ MailInv'
<1>0. PICK link, pc : link = mailers[w].link /\ pc = mailers[w].pc
  OBVIOUS
<1> DEFINE row == Settled(mails[link], pc)
<1>1. /\ pc \in {"sent", "failed"} /\ UNCHANGED delivered
      /\ mails' = [mails EXCEPT ![link] = Settled(mails[link], pc)]
      /\ mailers' = [mailers EXCEPT ![w] = Idle]
  <2>1. mails' = [mails EXCEPT ![mailers[w].link] = Settled(mails[mailers[w].link], mailers[w].pc)]
    BY DEF Settle, LinksTyped
  <2> QED
    BY <1>0, <2>1 DEF Settle
<1>2. mailers[w] # Idle /\ link \in Links
  BY <1>0, <1>1, LinkRows DEF Idle
<1>3. /\ mails[link].status \in {"PENDING", "FAILED"} /\ mails[link].attempts < MaxAttempts
      /\ pc = "sent" => link \in delivered
  BY <1>0, <1>2 DEF MailInv, MailersHold
<1>4. mails[link] \in Mail /\ mails[link] # NoRow
  BY <1>2, <1>3, LinkRows
<1>5. row \in Mail /\ (row.status = "SENT" => pc = "sent")
  BY <1>3, <1>4, MailSettled
<1>6. mails' = [mails EXCEPT ![link] = row]
  BY <1>1
<1> HIDE DEF row
<1>7. /\ mails' \in [Links -> Mail \cup {NoRow}] /\ mails'[link] = row
      /\ \A other \in Links \ {link} : mails'[other] = mails[other]
  BY <1>2, <1>5, <1>6 DEF LinksTyped
<1>8. /\ mailers' \in [Mailers -> Mailing] /\ mailers'[w] = Idle
      /\ \A v \in Mailers \ {w} : mailers'[v] = mailers[v]
  BY <1>1 DEF LinksTyped, Mailing
<1>9. \A v \in Mailers : mailers'[v] # Idle =>
        /\ v # w /\ mailers'[v] = mailers[v]
        /\ mailers[v].link # link /\ mailers[v].link \in Links
  BY <1>0, <1>2, <1>8, LinkRows DEF MailInv, OneHoldsMail
<1>10. MailsTyped'
  BY <1>7, <1>8 DEF MailsTyped
<1>11. MailsHaveLinks'
  BY <1>4, <1>7 DEF MailInv, MailsHaveLinks, LinksStay, LinkStays
<1>12. OneHoldsMail'
  BY <1>9 DEF MailInv, OneHoldsMail
<1>13. MailersHold'
  BY <1>1, <1>7, <1>9 DEF MailInv, MailersHold
<1>14. SentIsDone'
  <2> SUFFICES ASSUME NEW other \in Links, mails'[other].status = "SENT"
               PROVE  other \in delivered' \/ ~ Usable(other)'
    BY DEF SentIsDone
  <2>1. CASE other = link
    BY <1>1, <1>3, <1>5, <1>7, <2>1
  <2>2. CASE other # link
    <3>1. mails[other].status = "SENT" /\ mails[other] # NoRow
      BY <1>7, <2>2 DEF NoRow
    <3> QED
      BY <1>1, <3>1 DEF MailInv, SentIsDone, LinksStay, LinkStays
  <2> QED
    BY <2>1, <2>2
<1> QED
  BY <1>10, <1>11, <1>12, <1>13, <1>14 DEF MailInv

LEMMA MailerCrashSafe ==
  ASSUME LinksTyped, MailInv, LinksStay, NEW w \in Mailers, MailerCrash(w)
  PROVE  MailsTyped' /\ MailInv'
<1>1. mailers' = [mailers EXCEPT ![w] = Idle] /\ UNCHANGED <<mails, delivered>>
  BY DEF MailerCrash
<1>2. /\ mailers' \in [Mailers -> Mailing]
      /\ \A v \in Mailers : mailers'[v] # Idle => mailers'[v] = mailers[v]
  BY <1>1 DEF LinksTyped, Mailing
<1>3. MailsTyped'
  BY <1>1, <1>2 DEF LinksTyped, MailsTyped
<1>4. MailsHaveLinks'
  BY <1>1 DEF MailInv, MailsHaveLinks, LinksStay, LinkStays
<1>5. OneHoldsMail' /\ MailersHold'
  BY <1>1, <1>2 DEF MailInv, OneHoldsMail, MailersHold
<1>6. SentIsDone'
  BY <1>1, LinkRows DEF MailInv, SentIsDone, LinksStay, LinkStays
<1> QED
  BY <1>3, <1>4, <1>5, <1>6 DEF MailInv

LEMMA MailDueSafe ==
  ASSUME LinksTyped, MailInv, LinksStay, NEW link \in Links, MailDue(link)
  PROVE  MailsTyped' /\ MailInv'
<1> DEFINE row == [mails[link] EXCEPT !.due = TRUE]
<1>1. /\ mails[link].status = "FAILED" /\ mails' = [mails EXCEPT ![link] = row]
      /\ UNCHANGED <<mailers, delivered>>
  BY DEF MailDue, LinksTyped
<1>2. mails[link] \in Mail /\ mails[link] # NoRow
  BY <1>1, LinkRows
<1>3. row \in Mail /\ row.status = mails[link].status /\ row.attempts = mails[link].attempts
  BY <1>2, MailIsDue
<1> HIDE DEF row
<1>4. /\ mails' \in [Links -> Mail \cup {NoRow}]
      /\ \A other \in Links : /\ mails'[other].status = mails[other].status
                              /\ mails'[other].attempts = mails[other].attempts
                              /\ mails'[other] # NoRow => mails[other] # NoRow
  BY <1>1, <1>2, <1>3 DEF LinksTyped
<1>5. MailsTyped'
  BY <1>1, <1>4 DEF LinksTyped, MailsTyped
<1>6. MailsHaveLinks'
  BY <1>4 DEF MailInv, MailsHaveLinks, LinksStay, LinkStays
<1>7. OneHoldsMail' /\ MailersHold'
  BY <1>1, <1>4, LinkRows DEF MailInv, OneHoldsMail, MailersHold
<1>8. SentIsDone'
  BY <1>1, <1>4, LinkRows DEF MailInv, SentIsDone, LinksStay, LinkStays
<1> QED
  BY <1>5, <1>6, <1>7, <1>8 DEF MailInv

\* The link a mail is queued for is made in the same transaction.
LEMMA InviteMails ==
  ASSUME CustomersInv, LinksTyped, MailInv, LinksStay, NEW h \in Handlers, NEW i \in Invitations,
         Invite(h, i)
  PROVE  MailsTyped' /\ MailInv'
<1>1. /\ UNCHANGED <<mailers, delivered>> /\ invitations[i] = NoRow
      /\ mails' = mails \/ mails' = Queued(i)
  BY DEF Invite
<1>2. i \in Links /\ ~ HasLink(i)
  BY <1>1 DEF Links, HasLink
<1>3. HasLink(i)'
  <2>1. invitations'[i] =
          [status |-> "PENDING", company |-> calls[h].company, account |-> calls[h].account,
           expired |-> FALSE, old |-> FALSE]
    BY InviteRows DEF CustomersInv
  <2>2. invitations'[i].status = "PENDING"
    BY <2>1
  <2> QED
    BY <2>2 DEF HasLink, NoRow
<1> QED
  BY <1>1, <1>2, <1>3, MailsUnchanged, QueuedSafe

LEMMA RecoverMails ==
  ASSUME CustomersInv, LinksTyped, MailInv, LinksStay, NEW a \in Accounts, NEW t \in Recoveries,
         Recover(a, t)
  PROVE  MailsTyped' /\ MailInv'
<1>1. UNCHANGED <<mailers, delivered>> /\ mails' = Queued(t)
  BY DEF Recover
<1>2. recoveries[t] = NoRow /\ recoveries'[t] # NoRow
  BY RecoverRecoveries
<1>3. t \in Links /\ t \notin Invitations
  BY DEF Links
<1>4. ~ HasLink(t) /\ HasLink(t)'
  BY <1>2, <1>3 DEF HasLink
<1> QED
  BY <1>1, <1>3, <1>4, QueuedSafe

LEMMA MailsStep ==
  ASSUME CustomersInv, LinksTyped, MailInv, LinksStay, [CNext]_cVars
  PROVE  MailsTyped' /\ MailInv'
<1>1. CASE UNCHANGED <<mails, mailers, delivered>>
  BY <1>1, MailsUnchanged
<1>2. CASE InvitationStep
  BY <1>1, <1>2, InviteMails
  DEF InvitationStep, BeginInvite, Preview, BeginActivate, Activate, RevokeInvitation,
      InvitationExpires, RevokeMembership, SetCompany
<1>3. CASE PasswordStep
  BY <1>1, <1>3, RecoverMails
  DEF PasswordStep, BeginReset, Reset, ChangeOwnPassword, NewPassword, RecoveryAges
<1>4. CASE ActStep
  BY <1>1, <1>4 DEF ActStep, Check, Authorize, End
<1>5. CASE MailStep
  BY <1>5, TakeSafe, PostSafe, SettleSafe, MailerCrashSafe, MailDueSafe DEF MailStep
<1> QED
  BY <1>1, <1>2, <1>3, <1>4, <1>5 DEF CNext, cOwn, cVars

-----------------------------------------------------------------------------
(* Recovery links that are outlived, and the theorems *)

LEMMA OutlivedStep ==
  ASSUME CustomersInv, LinksTyped, OutlivedAreConsumed, [CNext]_cVars
  PROVE  outlived' \subseteq Recoveries /\ OutlivedAreConsumed'
<1>1. \A t \in outlived : recoveries'[t].status = "CONSUMED"
  <2> SUFFICES ASSUME NEW t \in outlived PROVE recoveries'[t].status = "CONSUMED"
    OBVIOUS
  <2>1. t \in Recoveries /\ recoveries[t].status = "CONSUMED" /\ recoveries[t] # NoRow
    BY DEF LinksTyped, OutlivedAreConsumed, NoRow
  <2> QED
    BY <2>1, RecoveriesStep DEF RecoveriesGrow, RecoveriesGoOn, RecoveryGoesOn
<1>2. CASE UNCHANGED outlived
  BY <1>1, <1>2 DEF LinksTyped, OutlivedAreConsumed
<1>3. ASSUME NEW a, recoveries' = Consumed(LinksOf(a)), outlived' = outlived \cup LinksOf(a)
      PROVE  outlived' \subseteq Recoveries /\ OutlivedAreConsumed'
  BY <1>1, <1>3, PasswordRecoveries DEF LinksTyped, OutlivedAreConsumed, LinksOf
<1>4. CASE PasswordStep
  <2>1. CASE \E h \in Handlers : Reset(h)
    <3>1. PICK a : recoveries' = Consumed(LinksOf(a)) /\ outlived' = outlived \cup LinksOf(a)
      BY <2>1 DEF Reset, NewPassword
    <3> QED
      BY <1>3, <3>1
  <2>2. CASE \E a \in Accounts : ChangeOwnPassword(a)
    BY <1>3, <2>2 DEF ChangeOwnPassword, NewPassword
  <2> QED
    BY <1>2, <1>4, <2>1, <2>2 DEF PasswordStep, Recover, BeginReset, RecoveryAges
<1>5. CASE InvitationStep
  BY <1>2, <1>5 DEF InvitationStep, BeginInvite, Invite, Preview, BeginActivate, Activate,
     RevokeInvitation, InvitationExpires, RevokeMembership, SetCompany
<1>6. CASE ActStep \/ MailStep
  BY <1>2, <1>6 DEF ActStep, Check, Authorize, End, MailStep, Take, Post, Settle, MailerCrash,
                    MailDue
<1> QED
  BY <1>2, <1>4, <1>5, <1>6 DEF CNext, cOwn, cVars

\* A link that sets a password works still, so it is not outlived and has set none before; and
\* the password outlives the links of its account, this one among them.
LEMMA ResetUses ==
  ASSUME CustomersInv, LinksTyped, OutlivedAreConsumed, UsedAreOutlived,
         NEW h \in Handlers, Reset(h)
  PROVE  uses' \in [Recoveries -> Nat] /\ UsedAreOutlived' /\ UsedOnce
<1> DEFINE t == calls[h].link
           a == recoveries[t].account
<1>1. t \in Recoveries /\ recoveries[t].status = "LIVE"
  BY DEF Reset, CustomersInv, RowsTyped, Call, Idle, StillRecovers, Recovers
<1>2. uses' = [uses EXCEPT ![t] = @ + 1] /\ outlived' = outlived \cup LinksOf(a)
  BY DEF Reset, NewPassword
<1>3. t \notin outlived /\ uses[t] = 0
  BY <1>1 DEF OutlivedAreConsumed, UsedAreOutlived
<1>4. t \in LinksOf(a)
  BY <1>1 DEF LinksOf, NoRow
<1>5. /\ uses' \in [Recoveries -> Nat] /\ uses'[t] = 1
      /\ \A u \in Recoveries : u # t => uses'[u] = uses[u]
  <2> HIDE DEF t
  <2> QED
    BY <1>1, <1>2, <1>3 DEF LinksTyped
<1> QED
  BY <1>2, <1>3, <1>4, <1>5 DEF UsedAreOutlived, UsedOnce

LEMMA UsesStep ==
  ASSUME CustomersInv, LinksTyped, OutlivedAreConsumed, UsedAreOutlived, [CNext]_cVars
  PROVE  uses' \in [Recoveries -> Nat] /\ UsedAreOutlived' /\ UsedOnce
<1>1. CASE UNCHANGED uses /\ outlived \subseteq outlived'
  BY <1>1 DEF LinksTyped, UsedAreOutlived, UsedOnce
<1>2. CASE UNCHANGED <<uses, outlived>>
  BY <1>1, <1>2
<1>3. CASE PasswordStep
  <2>1. CASE \E a \in Accounts : ChangeOwnPassword(a)
    BY <1>1, <2>1 DEF ChangeOwnPassword, NewPassword
  <2> QED
    BY <1>2, <1>3, <2>1, ResetUses DEF PasswordStep, Recover, BeginReset, RecoveryAges
<1>4. CASE InvitationStep
  BY <1>2, <1>4 DEF InvitationStep, BeginInvite, Invite, Preview, BeginActivate, Activate,
     RevokeInvitation, InvitationExpires, RevokeMembership, SetCompany
<1>5. CASE ActStep \/ MailStep
  BY <1>2, <1>5 DEF ActStep, Check, Authorize, End, MailStep, Take, Post, Settle, MailerCrash,
                    MailDue
<1> QED
  BY <1>2, <1>3, <1>4, <1>5 DEF CNext, cOwn, cVars

LinksInv ==
  /\ LinksTyped /\ WayInv /\ RecoveriesOfCustomers /\ MailInv
  /\ OutlivedAreConsumed /\ UsedAreOutlived

LEMMA LinksInitially == CInit => LinksInv
<1> SUFFICES ASSUME CInit PROVE LinksInv
  OBVIOUS
<1>1. LinksTyped
  BY DEF CInit, LinksTyped, Mailing
<1>2. WayInv
  <2>1. OneHoldsEmail /\ LinksKnown
    BY DEF CInit, OneHoldsEmail, HoldsEmail, LinksKnown, Idle
  <2>2. MembersExist /\ OneWayIn
    <3>1. \A c \in Companies, a \in Accounts : memberships[c][a] = Null
      BY DEF CInit
    <3>2. \A c \in Companies, a \in Accounts : PendingFor(c, a) = {}
      BY DEF CInit, PendingFor, NoRow
    <3> QED
      BY <3>1, <3>2 DEF MembersExist, OneWayIn
  <2> QED
    BY <2>1, <2>2 DEF WayInv
<1>3. RecoveriesOfCustomers /\ OutlivedAreConsumed /\ UsedAreOutlived
  BY DEF CInit, RecoveriesOfCustomers, OutlivedAreConsumed, UsedAreOutlived
<1>4. MailInv
  BY DEF CInit, MailInv, MailsHaveLinks, OneHoldsMail, MailersHold, SentIsDone, NoRow
<1> QED
  BY <1>1, <1>2, <1>3, <1>4 DEF LinksInv

LEMMA LinksInvStep ==
  ASSUME CustomersInv, CustomersInv', LinksInv, [CNext]_cVars
  PROVE  LinksInv'
<1>1. WayInv'
  BY WayStep DEF LinksInv
<1>2. RecoveriesOfCustomers'
  BY LinksOfCustomersStep DEF LinksInv
<1>3. MailsTyped' /\ MailInv'
  BY LinksStep, MailsStep DEF LinksInv, MailInv
<1>4. outlived' \subseteq Recoveries /\ OutlivedAreConsumed'
  BY OutlivedStep DEF LinksInv
<1>5. uses' \in [Recoveries -> Nat] /\ UsedAreOutlived'
  BY UsesStep DEF LinksInv
<1>6. LinksTyped'
  BY <1>3, <1>4, <1>5, InvitationsStep, RecoveriesStep
  DEF LinksInv, WayInv, LinksTyped, MailsTyped, RecoveriesGrow
<1> QED
  BY <1>1, <1>2, <1>3, <1>4, <1>5, <1>6 DEF LinksInv

LEMMA LinksAlways == CSpec => []LinksInv
<1>1. CInit => LinksInv
  BY LinksInitially
<1>2. CustomersInv /\ CustomersInv' /\ LinksInv /\ [CNext]_cVars => LinksInv'
  BY LinksInvStep
<1> QED
  BY <1>1, <1>2, CustomersAlways, PTL DEF CSpec

\* A pending invitation is the only way in to a customer, however staff and the invited overlap
\* (invite, revokeMembership and activate under the lock of the email): there is one for a
\* customer and an email, no member has one, none is from before the last revocation.
THEOREM CustomersOneWayIn == CSpec => []OneWayIn
<1>1. LinksInv => OneWayIn
  BY DEF LinksInv, WayInv
<1> QED
  BY <1>1, LinksAlways, PTL

\* A mail that counts as sent (deliverCustomerMail) is accepted by the provider or its link
\* never works again, and nobody is sending it: also after crashes and lost answers.
THEOREM CustomersSentOrUseless == CSpec => []SentOrUseless
<1>1. LinksInv => SentOrUseless
  <2> SUFFICES ASSUME LinksInv, NEW link \in Links, mails[link].status = "SENT"
               PROVE  /\ link \in delivered \/ ~ Usable(link)
                      /\ ~ \E w \in Mailers : mailers[w] # Idle /\ mailers[w].link = link
    BY DEF SentOrUseless
  <2>1. link \in delivered \/ ~ Usable(link)
    BY DEF LinksInv, MailInv, SentIsDone
  <2>2. ~ \E w \in Mailers : mailers[w] # Idle /\ mailers[w].link = link
    BY DEF LinksInv, MailInv, MailersHold
  <2> QED
    BY <2>1, <2>2
<1> QED
  BY <1>1, LinksAlways, PTL

\* A recovery link sets one password and none after another has been set, however many requests
\* have read it (resetPassword reads it again; changePassword and recover end it).
THEOREM CustomersLinkSetsOnePassword == CSpec => LinkSetsOnePassword
<1>1. LinksInv /\ CustomersInv /\ [CNext]_cVars => [UsedOnce]_cVars
  BY UsesStep DEF LinksInv
<1> QED
  BY <1>1, LinksAlways, CustomersAlways, PTL DEF CSpec, LinkSetsOnePassword, UsedOnce
=============================================================================
