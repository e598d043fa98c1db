SPECIFICATION FairSpec
CONSTANTS
  Orders = {o1}
  Workers = {w1, w2}
  Requests = {q1}
  Limit = 2
  MaxNews = 1
  MaxRevision = 1
  Null = Null
INVARIANT NothingForgotten
PROPERTY LeaseIsKept
PROPERTY AcceptedIsRecorded
CHECK_DEADLOCK FALSE
CONSTRAINT AtMostTwoChecks
