SPECIFICATION AuditsSpec
CONSTANTS
  Categories <- MCCategories
  Incremental <- MCIncremental
  Files <- MCFiles
  ChangedLists <- MCChangedLists
  Named = {"testing"}
  Answers <- MCAnswers
  Durations = {0, 3}
  RpmLimit = 2
  Window = 10
  MaxRetries = 2
  None = None
  Cases <- MCCases
  NoTree = NoTree
  NoClass = NoClass
  NoMethod = NoMethod
INVARIANTS RateLimited FindingsAreWhatWasHeard TimeBounded PassMeansCompatible
PROPERTY GatesHold
CHECK_DEADLOCK FALSE
