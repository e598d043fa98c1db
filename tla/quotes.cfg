SPECIFICATION QSpec
CONSTANTS
  Bookings = {b1}
  Guests = {g1}
  Plans <- TwoPlans
  Percents = {30}
  MaxLink = 2
  MaxQuotes = 2
  Invoices = {i1, i2}
  Receipts = {}
  Adjustments = {}
  Users = {u1, u2}
  Keys = {}
  Sources = {s1, s2}
  Companies = {co1}
  Dates <- April
  Prices = {2}
  Amounts = {}
  Rates = {0, 1}
  LegacyNumbers <- OldAndNewNumbers
  Hundred = 2
  MaxMinor = 4
  MaxNumber = 2
  MaxVersion = 2
  Null = Null
CONSTRAINT Scene
SYMMETRY MCSymmetry
INVARIANT InvoiceSeriesAhead
INVARIANT InvoicedAsAccepted
PROPERTY ActsOnWhatWasRead
CHECK_DEADLOCK FALSE
