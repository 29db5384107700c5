SPECIFICATION Spec
CONSTANTS
  LoopEntries = {}
  ThreadEntries = {t1}
  Flushers = {f1}
  InitSinks = 1
  MaxSinks = 1
  MaxFailures = 0
  MaxCancels = 0
  None = None
INVARIANT NoEntryLost
