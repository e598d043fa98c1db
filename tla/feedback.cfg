SPECIFICATION FSpec
CONSTANTS
  Subjects = {"DRIVER"}
  Papers = {q1}
  Versions = {v1, v2}
  Contents = {"none", "A", "B"}
  Blank = "none"
  Sound = {"A", "B"}
  Editors = {e1, e2}
  MaxConsent = 2
  Rides = {r1}
  Guests = {g1, g2}
  FormIds = {c1, c2}
  Pictures = {p1}
  Completers = {w1, w2}
  MaxToken = 2
  Optional = {"A"}
  NoPicture = NoPicture
  p1 = p1
  g1 = g1
  g2 = g2
  c1 = c1
  v1 = v1
  v2 = v2
  e1 = e1
  e2 = e2
INVARIANT AnsweredAsAsked AttachedHasImage
PROPERTY ClosedIsClosed
CHECK_DEADLOCK FALSE
CONSTRAINT Small
