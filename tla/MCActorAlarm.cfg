CONSTANTS
  MaxTime = 2
  MaxCommits = 2
  MaxDepth = 0
  MaxFaults = 1
  MaxCrashes = 1
  DeleteAllAllowed = TRUE
  SameInstant = FALSE
  PromptScheduler = TRUE
  PromptStorage = TRUE
SPECIFICATION RecoverySpec
INVARIANTS
  AlarmCovered
  NoLaterThanIsTrue
PROPERTIES
  AlarmFires
