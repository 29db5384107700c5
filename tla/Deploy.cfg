SPECIFICATION Spec
CONSTANTS
  Operators = {o1, o2}
  Services = {api, db}
  Modes <- MCModes
  MaxEdits = 1
  MaxRuns = 3
  Down = Down
  Initially = Initially
  Partial = Partial
  Missing = Missing
SYMMETRY Symmetry
INVARIANTS PushedIsDeployed ServicesHaveCheckedEnv OnlyFailedPushesAreSkipped
PROPERTY NothingRollsBack
CHECK_DEADLOCK FALSE
