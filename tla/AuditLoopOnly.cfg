SPECIFICATION FairSpec
CONSTANTS
  LoopEntries = {e1, e2}
  ThreadEntries = {}
  Flushers = {f1, f2}
  InitSinks = 1
  MaxSinks = 2
  MaxFailures = 2
  MaxCancels = 0
  None = None
INVARIANTS NoEntryLost DeliveredInOrder
PROPERTIES DeliverySpec EventuallySettled
