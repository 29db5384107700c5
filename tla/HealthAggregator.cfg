SPECIFICATION FairSpec
CONSTANTS
  Names = {"neo4j", "redis"}
  Probes = {p1}
  Checks = {c1, c2}
  Timeout = 2
  MaxChanges = 2
  None = None
INVARIANTS HealthyVouchesForAll OneTimeoutForAll
PROPERTY CheckReturns
