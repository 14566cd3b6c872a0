SPECIFICATION Spec
CONSTANTS
  p1 = p1
  p2 = p2
  Polls = {p1, p2}
  MaxCallbacks = 2
  MaxSessions = 2
  Expiring = {1}
  Faults = {"oauth", "database", "response"}
INVARIANTS
  TypeOK
  TokensOnlyWhileApproved
  OneHolder
  PollsUntilEnded
PROPERTIES
  ImplementsHandoff
CHECK_DEADLOCK FALSE
