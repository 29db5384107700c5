SPECIFICATION Spec
CONSTANTS
  Operators = {o1}
  Services = {api, db}
  Modes <- MCDryModes
  MaxEdits = 1
  MaxRuns = 1
  Down = Down
  Initially = Initially
  Partial = Partial
  Missing = Missing
INVARIANT DryRunsExecuteNothing
CHECK_DEADLOCK FALSE
