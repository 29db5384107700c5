SPECIFICATION Spec
CONSTANTS
  Requests = {r1, r2}
  Actions = {"health", "match"}
  Bridges = {b1, b2}
  MaxWirings = 2
  Errors = {"ValidationError"}
  None = None
SYMMETRY Symmetry
INVARIANTS OkMeansCompleted OnlyAuthorizedRun BridgeOfItsTime
CHECK_DEADLOCK FALSE
