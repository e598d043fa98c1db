SPECIFICATION TxSpec
CONSTANTS
  Invoices = {i1}
  Receipts = {r1, r2}
  Adjustments = {x1}
  Users = {u1}
  Keys = {k1}
  Sources = {}
  Companies = {c1}
  Dates <- April
  Prices = {1}
  Amounts = {1}
  Rates <- HalfRates
  LegacyNumbers = {}
  Hundred = 1000000
  MaxMinor = 2
  MaxNumber = 2
  MaxVersion = 2
  Null = Null
  Sessions = {a, b}
SYMMETRY MCSymmetry
INVARIANT NoDeadlock
INVARIANT ReaderSeesABalance
PROPERTY TransactionsAreAtomic
