SPECIFICATION PacketsSpec
CONSTANTS
  Actions = {"match", "enrich"}
  Nodes = {"matcher", "enricher"}
  NodeRegistry = {"matcher"}
  Supports <- MCSupports
  Payloads = {"p0", "p1"}
  MaxHops = 3
  MaxRequests = 2
  None = "none"
  Retries = 2
  MaxCalls = 2
INVARIANTS MetricsAddUp TraceExplainsRoute ExecutedAtMostOnce
PROPERTIES RouteEnds AnsweredIsOver PythonCallReturns
CHECK_DEADLOCK FALSE
