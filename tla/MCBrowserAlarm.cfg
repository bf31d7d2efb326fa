CONSTANTS
  MaxTime = 2
  MaxTries = 2
  MaxSets = 1
  MaxSends = 1
  MaxAttempts = 1
  MaxTroubles = 2
SPECIFICATION Spec
INVARIANTS
  AcceptedIsJournaled
PROPERTIES
  WatchdogOutlivesWork
  DueIsDelivered
\* The bounds run out, and an idle system waits for events.
CHECK_DEADLOCK FALSE
