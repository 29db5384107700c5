SPECIFICATION PartsSpec
CONSTANTS
  Users <- MCUsers
  u1 = u1
  u2 = u2
  NoUser = NoUser
  NoList = NoList
  Bucket <- MCBucket
  Full = 3
  Env = "production"
  Configs <- MCConfigs
  Impls <- MCImpls
  MaxEdits = 2
  MaxChanges = 3
  MaxClock = 3
  MaxCopies = 2
INVARIANTS FailsClosed VariantIsStricter LoadServesCurrent CleanedStaysClean OnlyWhatWasFound
PROPERTY WideningKeepsUsers
CHECK_DEADLOCK FALSE
