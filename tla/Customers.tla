----------------------------- MODULE Customers -----------------------------
(***************************************************************************)
(* Who may act for a customer (src/src/modules/customer): invitations of      *)
(* staff, memberships, recovery links, and the mails that carry the links.     *)
(* Composes Sessions: the persons are accounts, also before these exist.        *)
(*                                                                         *)
(* A transaction that awaits something while it holds locks is two steps here,   *)
(* the others are one.  Invitations and memberships of a person change under      *)
(* the lock of the email; rows that are read for a decision stay locked.           *)
(***************************************************************************)
EXTENDS Sessions

CONSTANTS
  Companies,    \* core.customers
  Invitations,
  Recoveries,   \* customer_recovery_tokens
  Handlers,     \* requests of this module on their way
  Mailers,      \* workers and scripts that deliver mail
  MailEnabled,  \* whether mail and the site of the links are configured
  MaxAttempts   \* deliveries tried of one mail: 8

ASSUME CustomersAssumption ==
  /\ MailEnabled \in BOOLEAN /\ MaxAttempts \in Nat \ {0}
  /\ Invitations \cap Recoveries = {} /\ Null \notin Recoveries \cup {"ACTIVE"}

VARIABLES
  companies,    \* customers that are ACTIVE
  invitations,
  memberships,
  recoveries,
  calls,        \* what each handler has read and locked
  mails,        \* outbox_messages, by the link they carry
  mailers,
  delivered,    \* links the mail provider has accepted
  outlived,     \* recovery links made before the last change of their account's password
  uses          \* how many passwords each recovery link has set

cOwn == <<companies, invitations, memberships, recoveries, calls, mails, mailers, delivered,
          outlived, uses>>
cVars == <<accounts, sessions, jars, lost, requests, changes,
           companies, invitations, memberships, recoveries, calls, mails, mailers, delivered,
           outlived, uses>>

Links == Invitations \cup Recoveries
\* An invitation is old once the membership it would give has been revoked after it was made.
Invitation ==
  [status : {"PENDING", "CONSUMED", "REVOKED"}, company : Companies, account : Accounts,
   expired : BOOLEAN, old : BOOLEAN]
Recovery ==
  [status : {"LIVE", "CONSUMED"}, account : Accounts, expired : BOOLEAN, recent : BOOLEAN]
Mail ==
  [status : {"PENDING", "FAILED", "SENT"}, attempts : 0 .. MaxAttempts, due : BOOLEAN]
Call ==
  {Idle} \cup [pc : {"invite", "checked", "acting"}, company : Companies, account : Accounts]
    \cup [pc : {"preview", "activate"}, link : Invitations]
    \cup [pc : {"reset"}, link : Recoveries]
Mailing == {Idle} \cup [pc : {"send", "sent", "failed"}, link : Links]

IsCustomer(a) == Exists(a) /\ accounts[a] = [role |-> "CUSTOMER", status |-> "ACTIVE"]
\* validInvitation(), and a recovery link that still sets a password.
Pending(i) == invitations[i].status = "PENDING" /\ ~ invitations[i].expired
Recovers(t) == recoveries[t].status = "LIVE" /\ ~ recoveries[t].expired
PendingFor(c, a) ==
  {i \in Invitations : invitations[i].status = "PENDING" /\ invitations[i].company = c
                         /\ invitations[i].account = a}

\* authorize()
Member(c, a) == IsCustomer(a) /\ memberships[c][a] = "ACTIVE" /\ c \in companies

-----------------------------------------------------------------------------
(* Locks, held between the two steps of a transaction *)

\* pg_advisory_xact_lock of the email
BugEmailNotLocked(a) == FALSE
EmailLocked(a) ==
  \E h \in Handlers :
    \/ calls[h].pc = "invite" /\ calls[h].account = a
    \/ calls[h].pc = "activate" /\ invitations[calls[h].link].account = a
InvitationLocked(i) == \E h \in Handlers : calls[h].pc = "activate" /\ calls[h].link = i

\* FOR UPDATE of activate(), FOR SHARE of authorize()
AccountLocked(a) ==
  \E h \in Handlers :
    calls[h].pc = "activate" /\ invitations[calls[h].link].account = a /\ Exists(a)
AccountShared(a) == \E h \in Handlers : calls[h].pc = "acting" /\ calls[h].account = a
AccountFree(a) == ~ AccountLocked(a) /\ ~ AccountShared(a)

BugNotShared(c, a) == FALSE
MembershipShared(c, a) ==
  \E h \in Handlers : calls[h].pc = "acting" /\ calls[h].company = c /\ calls[h].account = a
CompanyShared(c) ==
  \E h \in Handlers :
    \/ calls[h].pc \in {"invite", "acting"} /\ calls[h].company = c
    \/ calls[h].pc = "activate" /\ invitations[calls[h].link].company = c

-----------------------------------------------------------------------------
(* Invitations and memberships *)

Queued(link) == [mails EXCEPT ![link] = [status |-> "PENDING", attempts |-> 0, due |-> TRUE]]

\* invite(): everything is checked, and then earlier invitations are revoked and one is made.
Invitable(c, a) ==
  /\ c \in companies
  /\ Exists(a) => IsCustomer(a) /\ memberships[c][a] # "ACTIVE"
BeginInvite(h, c, a) ==
  /\ calls[h] = Idle /\ ~ EmailLocked(a) /\ Invitable(c, a)
  /\ calls' = [calls EXCEPT ![h] = [pc |-> "invite", company |-> c, account |-> a]]
  /\ UNCHANGED <<sOwn, companies, invitations, memberships, recoveries, mails, mailers,
                 delivered, outlived, uses>>
Revoked(rows, is) == [i \in Invitations |->
  IF i \in is THEN [rows[i] EXCEPT !.status = "REVOKED"] ELSE rows[i]]
Invite(h, i) ==
  LET c == calls[h].company
      a == calls[h].account
      row == [status |-> "PENDING", company |-> c, account |-> a, expired |-> FALSE,
              old |-> FALSE]
  IN
  /\ calls[h].pc = "invite" /\ invitations[i] = NoRow
  /\ \A j \in PendingFor(c, a) : ~ InvitationLocked(j)
  /\ invitations' = [Revoked(invitations, PendingFor(c, a)) EXCEPT ![i] = row]
  /\ mails' = IF MailEnabled THEN Queued(i) ELSE mails
  /\ calls' = [calls EXCEPT ![h] = Idle]
  /\ UNCHANGED <<sOwn, companies, memberships, recoveries, mailers, delivered, outlived, uses>>

RevokeInvitation(i) ==
  /\ invitations[i].status \in {"PENDING", "REVOKED"} /\ ~ InvitationLocked(i)
  /\ invitations' = Revoked(invitations, {i})
  /\ UNCHANGED <<sOwn, companies, memberships, recoveries, calls, mails, mailers, delivered,
                 outlived, uses>>

\* revokeMembership(), also of a membership that is revoked already.
RevokedWith(c, a) == PendingFor(c, a)
Outdated(rows, c, a) == [i \in Invitations |->
  IF rows[i] # NoRow /\ rows[i].company = c /\ rows[i].account = a
  THEN [rows[i] EXCEPT !.old = TRUE] ELSE rows[i]]
RevokeMembership(c, a) ==
  /\ memberships[c][a] # Null
  /\ ~ EmailLocked(a) /\ ~ MembershipShared(c, a)
  /\ \A i \in RevokedWith(c, a) : ~ InvitationLocked(i)
  /\ memberships' = [memberships EXCEPT ![c][a] = "REVOKED"]
  /\ invitations' = Outdated(Revoked(invitations, RevokedWith(c, a)), c, a)
  /\ UNCHANGED <<sOwn, companies, recoveries, calls, mails, mailers, delivered, outlived, uses>>

\* activate(): the invitation is read, the password hashed, and in the transaction the invitation
\* is read again; an existing account proves its password while the locks are held.
Preview(h, i) ==
  /\ calls[h] = Idle /\ Pending(i)
  /\ calls' = [calls EXCEPT ![h] = [pc |-> "preview", link |-> i]]
  /\ UNCHANGED <<sOwn, companies, invitations, memberships, recoveries, mails, mailers,
                 delivered, outlived, uses>>
Activatable(i) ==
  LET a == invitations[i].account IN
  /\ Pending(i) /\ invitations[i].company \in companies
  /\ Exists(a) => IsCustomer(a)
BeginActivate(h) ==
  LET i == calls[h].link
      a == invitations[i].account
  IN
  /\ calls[h].pc = "preview"
  /\ ~ EmailLocked(a) /\ ~ InvitationLocked(i) /\ AccountFree(a) /\ ~ RowLocked(a)
  /\ Activatable(i)
  /\ calls' = [calls EXCEPT ![h].pc = "activate"]
  /\ UNCHANGED <<sOwn, companies, invitations, memberships, recoveries, mails, mailers,
                 delivered, outlived, uses>>
\* An account that has come into being since the email was looked up fails the insert.
Activate(h) ==
  LET i == calls[h].link
      a == invitations[i].account
      c == invitations[i].company
  IN
  /\ calls[h].pc = "activate"
  /\ Exists(a) => IsCustomer(a)
  /\ accounts' = [accounts EXCEPT ![a] = [role |-> "CUSTOMER", status |-> "ACTIVE"]]
  /\ memberships' = [memberships EXCEPT ![c][a] = "ACTIVE"]
  /\ invitations' = [invitations EXCEPT ![i].status = "CONSUMED"]
  /\ calls' = [calls EXCEPT ![h] = Idle]
  /\ UNCHANGED <<sessions, jars, lost, requests, changes, companies, recoveries, mails, mailers,
                 delivered, outlived, uses>>

\* updateCustomers() of masters.repository.ts, as far as the status goes.
SetCompany(c) ==
  /\ ~ CompanyShared(c)
  /\ companies' \in {companies \cup {c}, companies \ {c}} \ {companies}
  /\ UNCHANGED <<sOwn, invitations, memberships, recoveries, calls, mails, mailers, delivered,
                 outlived, uses>>

-----------------------------------------------------------------------------
(* Passwords of customers *)

LinksOf(a) == {t \in Recoveries : recoveries[t] # NoRow /\ recoveries[t].account = a}
Consumed(ts) == [t \in Recoveries |->
  IF t \in ts THEN [recoveries[t] EXCEPT !.status = "CONSUMED"] ELSE recoveries[t]]

\* recover()
Recover(a, t) ==
  /\ MailEnabled /\ IsCustomer(a) /\ AccountFree(a)
  /\ recoveries[t] = NoRow
  /\ \A u \in LinksOf(a) : ~ recoveries[u].recent
  /\ recoveries' = [Consumed(LinksOf(a)) EXCEPT ![t] =
       [status |-> "LIVE", account |-> a, expired |-> FALSE, recent |-> TRUE]]
  /\ mails' = Queued(t)
  /\ UNCHANGED <<sOwn, companies, invitations, memberships, calls, mailers, delivered, outlived,
                 uses>>

\* What every new password of a customer changes: sessions and links end.
NewPassword(a) ==
  /\ sessions' = SessionsRevoked(a)
  /\ recoveries' = Consumed(LinksOf(a))
  /\ outlived' = outlived \cup LinksOf(a)
  /\ UNCHANGED <<accounts, jars, lost, requests, changes, companies, invitations, memberships,
                 mails, mailers, delivered>>

\* resetPassword(): the link is read, the password hashed, and the link read again.
BeginReset(h, t) ==
  /\ calls[h] = Idle /\ recoveries[t] # NoRow
  /\ calls' = [calls EXCEPT ![h] = [pc |-> "reset", link |-> t]]
  /\ UNCHANGED <<sOwn, companies, invitations, memberships, recoveries, mails, mailers,
                 delivered, outlived, uses>>
BugReadOnce(t) == TRUE
StillRecovers(t) == Recovers(t)
Reset(h) ==
  LET t == calls[h].link
      a == recoveries[t].account
  IN
  /\ calls[h].pc = "reset" /\ AccountFree(a)
  /\ IsCustomer(a) /\ StillRecovers(t)
  /\ NewPassword(a)
  /\ uses' = [uses EXCEPT ![t] = @ + 1]
  /\ calls' = [calls EXCEPT ![h] = Idle]

\* changePassword(): all of it in a transaction that holds the account.
ChangeOwnPassword(a) ==
  /\ IsCustomer(a) /\ AccountFree(a)
  /\ NewPassword(a)
  /\ UNCHANGED <<calls, uses>>

-----------------------------------------------------------------------------
(* Acting for a customer *)

\* booking(), and then authorize() again in the transaction that accepts a quote (Accept of
\* Quotes) or orders a payment (Checkout of Gateway), where it shares the rows it reads.
Check(h, s, c) ==
  LET a == sessions[s].account IN
  /\ calls[h] = Idle /\ sessions[s] # NoRow /\ SignedIn(s) /\ Member(c, a)
  /\ calls' = [calls EXCEPT ![h] = [pc |-> "checked", company |-> c, account |-> a]]
  /\ UNCHANGED <<sOwn, companies, invitations, memberships, recoveries, mails, mailers,
                 delivered, outlived, uses>>
Authorize(h) ==
  /\ calls[h].pc = "checked"
  /\ ~ AccountLocked(calls[h].account)
  /\ Member(calls[h].company, calls[h].account)
  /\ calls' = [calls EXCEPT ![h].pc = "acting"]
  /\ UNCHANGED <<sOwn, companies, invitations, memberships, recoveries, mails, mailers,
                 delivered, outlived, uses>>

\* The transaction of an acting customer ends; or a handler fails, and its locks end with it.
End(h) ==
  /\ calls[h] # Idle
  /\ calls' = [calls EXCEPT ![h] = Idle]
  /\ UNCHANGED <<sOwn, companies, invitations, memberships, recoveries, mails, mailers,
                 delivered, outlived, uses>>

-----------------------------------------------------------------------------
(* Mail *)

Usable(link) ==
  IF link \in Invitations THEN Pending(link)
  ELSE Recovers(link) /\ IsCustomer(recoveries[link].account)

\* The row of a mail is locked (skipLocked) while it is delivered.
BugRowNotHeld(link) == FALSE
Held(link) == \E w \in Mailers : mailers[w] # Idle /\ mailers[w].link = link

\* deliverCustomerMail(): a mail whose link is not good any more is settled without delivery.
Take(w, link) ==
  /\ mailers[w] = Idle /\ ~ Held(link)
  /\ mails[link].status \in {"PENDING", "FAILED"} /\ mails[link].due
  /\ mails[link].attempts < MaxAttempts
  /\ IF Usable(link)
     THEN mailers' = [mailers EXCEPT ![w] = [pc |-> "send", link |-> link]] /\ UNCHANGED mails
     ELSE mails' = [mails EXCEPT ![link].status = "SENT"] /\ UNCHANGED mailers
  /\ UNCHANGED <<sOwn, companies, invitations, memberships, recoveries, calls, delivered,
                 outlived, uses>>

\* The provider accepts the mail; whether the answer arrives in time is another matter.
Post(w) ==
  /\ mailers[w].pc = "send"
  /\ \/ /\ delivered' = delivered \cup {mailers[w].link}
        /\ \E pc \in {"sent", "failed"} : mailers' = [mailers EXCEPT ![w].pc = pc]
     \/ mailers' = [mailers EXCEPT ![w].pc = "failed"] /\ UNCHANGED delivered
  /\ UNCHANGED <<sOwn, companies, invitations, memberships, recoveries, calls, mails,
                 outlived, uses>>

Settled(mail, pc) ==
  [mail EXCEPT !.status = IF pc = "sent" THEN "SENT" ELSE "FAILED", !.attempts = @ + 1,
               !.due = FALSE]
Settle(w) ==
  LET link == mailers[w].link IN
  /\ mailers[w].pc \in {"sent", "failed"}
  /\ mails' = [mails EXCEPT ![link] = Settled(@, mailers[w].pc)]
  /\ mailers' = [mailers EXCEPT ![w] = Idle]
  /\ UNCHANGED <<sOwn, companies, invitations, memberships, recoveries, calls, delivered,
                 outlived, uses>>

\* The process dies before the transaction is committed.
MailerCrash(w) ==
  /\ mailers[w] # Idle
  /\ mailers' = [mailers EXCEPT ![w] = Idle]
  /\ UNCHANGED <<sOwn, companies, invitations, memberships, recoveries, calls, mails, delivered,
                 outlived, uses>>

-----------------------------------------------------------------------------
(* Time *)

InvitationExpires(i) ==
  /\ Pending(i)
  /\ invitations' = [invitations EXCEPT ![i].expired = TRUE]
  /\ UNCHANGED <<sOwn, companies, memberships, recoveries, calls, mails, mailers, delivered,
                 outlived, uses>>
\* An hour passes since a link was made, the first minute of it before.
RecoveryAges(t) ==
  /\ recoveries[t] # NoRow /\ ~ recoveries[t].expired
  /\ recoveries' = [recoveries EXCEPT ![t].recent = FALSE, ![t].expired = ~ recoveries[t].recent]
  /\ UNCHANGED <<sOwn, companies, invitations, memberships, calls, mails, mailers, delivered,
                 outlived, uses>>
MailDue(link) ==
  /\ mails[link].status = "FAILED" /\ ~ mails[link].due
  /\ mails' = [mails EXCEPT ![link].due = TRUE]
  /\ UNCHANGED <<sOwn, companies, invitations, memberships, recoveries, calls, mailers,
                 delivered, outlived, uses>>

-----------------------------------------------------------------------------
CInit ==
  /\ SInit
  /\ companies = Companies
  /\ invitations = [i \in Invitations |-> NoRow]
  /\ memberships = [c \in Companies |-> [a \in Accounts |-> Null]]
  /\ recoveries = [t \in Recoveries |-> NoRow]
  /\ calls = [h \in Handlers |-> Idle]
  /\ mails = [link \in Links |-> NoRow]
  /\ mailers = [w \in Mailers |-> Idle]
  /\ delivered = {} /\ outlived = {}
  /\ uses = [t \in Recoveries |-> 0]

InvitationStep ==
  \/ \E h \in Handlers, c \in Companies, a \in Accounts : BeginInvite(h, c, a)
  \/ \E h \in Handlers, i \in Invitations : Invite(h, i) \/ Preview(h, i)
  \/ \E h \in Handlers : BeginActivate(h) \/ Activate(h)
  \/ \E i \in Invitations : RevokeInvitation(i) \/ InvitationExpires(i)
  \/ \E c \in Companies, a \in Accounts : RevokeMembership(c, a)
  \/ \E c \in Companies : SetCompany(c)
PasswordStep ==
  \/ \E a \in Accounts, t \in Recoveries : Recover(a, t)
  \/ \E h \in Handlers, t \in Recoveries : BeginReset(h, t)
  \/ \E h \in Handlers : Reset(h)
  \/ \E a \in Accounts : ChangeOwnPassword(a)
  \/ \E t \in Recoveries : RecoveryAges(t)
ActStep ==
  \/ \E h \in Handlers, s \in Sessions, c \in Companies : Check(h, s, c)
  \/ \E h \in Handlers : Authorize(h) \/ End(h)
MailStep ==
  \/ \E w \in Mailers, link \in Links : Take(w, link)
  \/ \E w \in Mailers : Post(w) \/ Settle(w) \/ MailerCrash(w)
  \/ \E link \in Links : MailDue(link)
CNext ==
  \/ SNext /\ UNCHANGED cOwn
  \/ InvitationStep \/ PasswordStep \/ ActStep \/ MailStep
CSpec == CInit /\ [][CNext]_cVars

-----------------------------------------------------------------------------
(* Properties *)

\* The columns of customer.schema.ts and outbox_messages, and what handlers remember.
CTypeOK ==
  /\ STypeOK
  /\ companies \subseteq Companies
  /\ invitations \in [Invitations -> Invitation \cup {NoRow}]
  /\ memberships \in [Companies -> [Accounts -> {Null, "ACTIVE", "REVOKED"}]]
  /\ recoveries \in [Recoveries -> Recovery \cup {NoRow}]
  /\ calls \in [Handlers -> Call]
  /\ mails \in [Links -> Mail \cup {NoRow}]
  /\ mailers \in [Mailers -> Mailing]
  /\ delivered \subseteq Links /\ outlived \subseteq Recoveries
  /\ uses \in [Recoveries -> Nat]

\* A pending invitation is the only way in: there is one for a customer and an email, no member
\* has one, and none is from before the membership was last revoked
\* (CUSTOMER_ACCOUNTS_API.md: no accidental reactivation through an older invitation).
OneWayIn ==
  \A c \in Companies, a \in Accounts :
    \A i \in PendingFor(c, a) :
      PendingFor(c, a) = {i} /\ memberships[c][a] # "ACTIVE" /\ ~ invitations[i].old

\* A recovery link sets one password and none after another has been set, however many requests
\* have read it (resetPassword, changePassword, recover).
LinkSetsOnePassword ==
  [][\A t \in Recoveries : uses'[t] # uses[t] => uses'[t] = 1 /\ t \notin outlived]_cVars

\* As long as the transaction of a customer's acceptance or payment lasts, the customer is a
\* member, whatever staff revoke meanwhile.
ActsAsMember ==
  \A h \in Handlers :
    calls[h].pc = "acting" => Member(calls[h].company, calls[h].account)

\* A mail that counts as sent has been accepted by the provider or has a link that never works
\* again, and nobody is sending it any more: also after crashes and lost answers.
SentOrUseless ==
  \A link \in Links :
    mails[link].status = "SENT" =>
      /\ link \in delivered \/ ~ Usable(link)
      /\ ~ \E w \in Mailers : mailers[w] # Idle /\ mailers[w].link = link
=============================================================================
