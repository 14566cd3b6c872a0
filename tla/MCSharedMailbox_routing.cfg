SPECIFICATION FairSpec
CONSTANTS
  ann = ann
  bob = bob
  d1 = d1
  Users = {ann, bob}
  Handlers = {d1}
  Faults = {"database", "google"}
  MaxHistory = 2
  MaxLinks = 2
INVARIANTS
  TypeOK
PROPERTIES
  AckedIsExamined
  EventuallyAcked
  EventuallyWatched
