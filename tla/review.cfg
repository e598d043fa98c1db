SPECIFICATION RSpec
CONSTANTS
  Invoice = i1
  Plan <- OneMilestone
  Orders = {o1}
  Payments = {p1, p2}
  OddPayments <- OddMoney
  Customers = {}
  Checkers = {w1}
  Offered = {o1}
  StaffActs = {"CANCELLED"}
  Invoices = {i1}
  Receipts = {r1, r2}
  Adjustments = {}
  Users = {u1}
  Keys = {p1, p2}
  Sources = {}
  Companies = {co1}
  Dates <- April
  Prices = {}
  Amounts = {}
  Rates = {0}
  LegacyNumbers = {}
  Hundred = 1000000
  MaxMinor = 2
  MaxNumber = 2
  MaxVersion = 1
  Null = Null
  Reviewers = {s1}
  References = {f1, f2}
  DecisionKeys = {d1, d2}
  Historic = {"ORPHAN", "REVERSED"}
CONSTRAINT OddOnce
SYMMETRY MCSymmetry
INVARIANT MoneyIsInOnePlace
INVARIANT StatusFollowsDecisions
INVARIANT NoDeadEnd
INVARIANT RegisterTellsTheMoney
CHECK_DEADLOCK FALSE
