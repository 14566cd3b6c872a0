SPECIFICATION FairSpec
CONSTANTS
  r1 = r1
  r2 = r2
  MaxNotes = 2
  Requests = {r1, r2}
  Limit = 1
  MaxLoads = 3
  Faults = {"load", "mark"}
INVARIANTS TypeOK ReadStaysRead 
 
