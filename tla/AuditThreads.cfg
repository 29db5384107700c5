SPECIFICATION Spec
CONSTANTS
  LoopEntries = {e1}
  ThreadEntries = {t1, t2}
  Flushers = {f1, f2}
  InitSinks = 1
  MaxSinks = 2
  MaxFailures = 2
  MaxCancels = 1
  None = None
SYMMETRY Symmetry
INVARIANTS FanOutInOrder SettledEverywhere SingleOwner DuplicatesNeedFailures
