SPECIFICATION TLSpec
CONSTANTS
  Bookings = {b1, b2}
  Drivers = {d1, d2}
  Vehicles = {v1}
  MaxTrips = 1
  MaxSlot = 1
  MaxVersion = 3
  Ends = {1}
  Statuses = {}
  SectionSets = {}
  Offered <- MCOffered
  b1 = b1
  b2 = b2
  v1 = v1
  c1 = c1
  p1 = p1
  d1 = d1
  Reports <- MCReports
  Linked <- MCLinked
  Away = {}
  MaxDuty = 2
  Staff = {"mover"}
  Does <- MCDoes
  Null = Null
  ClientIds = {c1, c2}
  Messages <- MCMessages
  Photos = {p1}
  MaxTime = 2
PROPERTIES
  TimesAgree
  AttachedStays
CHECK_DEADLOCK FALSE
CONSTRAINT Small
