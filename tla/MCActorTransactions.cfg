CONSTANTS
  MaxTime = 1
  MaxCommits = 2
  MaxDepth = 2
  MaxFaults = 1
  MaxCrashes = 0
  DeleteAllAllowed = TRUE
  SameInstant = FALSE
  PromptScheduler = TRUE
  PromptStorage = TRUE
SPECIFICATION Spec
INVARIANTS
  OpenTxnWillCommit
  CacheMatchesFile
  MergedCommitsAreLed
