SPECIFICATION Spec
CONSTANTS
  i1 = i1
  i2 = i2
  c1 = c1
  c2 = c2
  l1 = l1
  l2 = l2
  Invoices = {i1, i2}
  Receipts = {r1, r2}
  Adjustments = {x1}
  Users = {u1}
  Keys = {k1, k2}
  Sources = {l1, l2}
  Companies = {co1}
  Dates <- Spring
  Prices = {2}
  Amounts = {1}
  Rates = {0}
  LegacyNumbers <- OldFormat
  Hundred = 1000000
  MaxMinor = 2
  MaxNumber = 2
  MaxVersion = 1
  Null = Null
  Debtors = {c1, c2}
  BilledTo <- EachTheirs
  DueDate <- OneDue
  TopLimit = 1
SYMMETRY MCSymmetry
CONSTRAINT Imported
INVARIANT QueriesAgree
INVARIANT StatementBalances
CHECK_DEADLOCK FALSE
