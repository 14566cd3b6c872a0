SPECIFICATION Spec
CONSTANTS
  poller = poller
  renewer = renewer
  h1 = h1
  h2 = h2
  Syncers = {poller}
  Renewers = {}
  Handlers = {h1, h2}
  Requests = {"unlink","link"}
  Faults = {"store","crash"}
  Topic = TRUE
  MaxHistory = 2
  MaxLinks = 3
  MaxEpoch = 0
CONSTRAINTS
  FewAtTheEnd
SYMMETRY TwoAlike
INVARIANTS
  TypeOK
  NoUnvisitedMessage
  RecordsOfLiveAccount
  PushIsBacked
PROPERTIES
  UnlinkIsFinal
  ImplementsLedger
  SyncExaminesAll
  NoDuplicatePush
