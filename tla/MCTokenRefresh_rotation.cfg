SPECIFICATION Spec
CONSTANTS
  r1 = r1
  r2 = r2
  r3 = r3
  Requests = {r1, r2}
  Clearing = {}
  Bootstraps = {}
  Faults = {}
  MaxTokens = 3
  MaxLogouts = 1
INVARIANTS
  UsedOnce
CHECK_DEADLOCK FALSE
