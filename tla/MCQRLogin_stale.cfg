SPECIFICATION FairSpec
CONSTANTS
  p1 = p1
  p2 = p2
  Polls = {p1, p2}
  MaxCallbacks = 2
  MaxSessions = 2
  Expiring = {}
  Faults = {"oauth"}
PROPERTIES
  EventuallySignedIn
CHECK_DEADLOCK FALSE
