SPECIFICATION CSpec
CONSTANTS
  boss = boss
  aide = aide
  ann = ann
  bob = bob
  Accounts = {boss, aide, ann, bob}
  Initial <- MCInitial
  Sessions = {s1}
  Requests = {r1, r2}
  Staff = {u1, u2}
  Accesses <- MCAccesses
  MaxToken = 2
  Companies = {co1}
  Invitations = {i1, i2, i3}
  Recoveries = {t1, t2}
  Handlers = {h1, h2}
  Mailers = {w1, w2}
  MailEnabled = TRUE
  MaxAttempts = 2
  Null = Null
CONSTRAINT OneScene
SYMMETRY MCSymmetry
INVARIANT LastAdminRemains
INVARIANT BrowserKeepsSession
INVARIANT OneWayIn
INVARIANT ActsAsMember
INVARIANT SentOrUseless
PROPERTY LinkSetsOnePassword
CHECK_DEADLOCK FALSE
