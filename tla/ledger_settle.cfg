SPECIFICATION Spec
CONSTANTS
  Invoices = {i1}
  Receipts = {r1, r2, r3}
  Adjustments = {x1}
  Users = {u1}
  Keys = {k1, k2, k3}
  Sources = {}
  Companies = {c1}
  Dates <- MarchApril
  Prices = {3}
  Amounts = {1, 2}
  Rates = {0}
  LegacyNumbers = {}
  Hundred = 1000000
  MaxMinor = 3
  MaxNumber = 2
  MaxVersion = 2
  Null = Null
SYMMETRY MCSymmetry
INVARIANT NoOverpayment
INVARIANT SettlementsHaveIssuedInvoice
INVARIANT OneRowPerKey
INVARIANT OutboxTellsTheLedger
INVARIANT ReceiptSeriesGapless
PROPERTY LedgerIsReceivable
CHECK_DEADLOCK FALSE
