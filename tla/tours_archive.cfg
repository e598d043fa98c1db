SPECIFICATION TSpec
CONSTANTS
  Bookings = {b1, b2}
  Drivers = {d1, d2}
  Vehicles = {v1, v2}
  MaxTrips = 2
  MaxSlot = 2
  MaxVersion = 2
  Ends = {2}
  Statuses = {"CANCELLED"}
  SectionSets <- OneSection
  Offered <- MCOffered
  b1 = b1
  b2 = b2
  d1 = d1
  v1 = v1
  v2 = v2
  Reports <- OneReport
  Linked <- OneLink
  Away = {}
  MaxDuty = 2
  Staff = {"mover", "other"}
  Does <- Anything
  Null = Null
CHECK_DEADLOCK FALSE
INVARIANT LinksHaveTrips
