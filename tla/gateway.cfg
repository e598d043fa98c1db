SPECIFICATION GSpec
CONSTANTS
  Invoice = i1
  Plan <- TwoMilestones
  Orders = {o1, o2}
  Payments = {p1}
  OddPayments <- OddMoney
  Customers = {c1, c2}
  Checkers = {w1, w2}
  Offered = {}
  StaffActs = {"CONFIRMED", "COMPLETED", "CANCELLED", "INVOICE_CANCELLED"}
  Invoices = {i1}
  Receipts = {r1, r2}
  Adjustments = {x1}
  Users = {u1}
  Keys = {p1, k1}
  Sources = {}
  Companies = {co1}
  Dates <- April
  Prices = {}
  Amounts = {1}
  Rates = {0}
  LegacyNumbers = {}
  Hundred = 1000000
  MaxMinor = 3
  MaxNumber = 2
  MaxVersion = 1
  Null = Null
CONSTRAINT OneScene
SYMMETRY MCSymmetry
INVARIANT OneLiveOrder
INVARIANT MoneyIsAccounted
PROPERTY AskedIsOwed
PROPERTY SuccessIsFinal
CHECK_DEADLOCK FALSE
