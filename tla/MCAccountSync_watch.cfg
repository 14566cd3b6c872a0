SPECIFICATION Spec
CONSTANTS
  poller = poller
  renewer = renewer
  h1 = h1
  h2 = h2
  Syncers = {poller}
  Renewers = {renewer}
  Handlers = {}
  Requests = {}
  Faults = {}
  Topic = TRUE
  MaxHistory = 2
  MaxLinks = 1
  MaxEpoch = 0
INVARIANTS
  AdvanceOnlyAfterSync
