SPECIFICATION Spec
CONSTANTS
  r1 = r1
  r2 = r2
  r3 = r3
  Requests = {r1, r2, r3}
  Clearing = {r1}
  Bootstraps = {r1}
  Faults = {"database", "response", "expiry"}
  MaxTokens = 3
  MaxLogouts = 1
SYMMETRY Alike
INVARIANTS
  TypeOK
  HeldIsUsable
  LogoutRevokesAll
CHECK_DEADLOCK FALSE
