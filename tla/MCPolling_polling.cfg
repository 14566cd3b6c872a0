SPECIFICATION MCSpec
CONSTANTS
  poller = poller
  hook = hook
  renewer = renewer
  h1 = h1
  Syncers = {poller, hook}
  Renewers = {renewer}
  Handlers = {h1}
  Requests = {"toggle","settings"}
  Faults = {"list","fetch","store","push","database"}
  Topic = FALSE
  MaxHistory = 3
  MaxLinks = 1
  MaxEpoch = 1
CONSTRAINTS
  OneBeside
INVARIANTS
  AdvanceOnlyAfterSync
PROPERTIES
  NoDuplicatePush
  EventuallyExamined
