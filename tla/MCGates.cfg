CONSTANTS
  MaxLocks = 3
  Waiters = {w1, w2}
  MaxSections = 3
  MaxInputLocks = 4
  MaxWaits = 2
  MaxRefs = 1
SPECIFICATION GatesSpec
INVARIANTS
  RejectedWithEarliestFailure
  SectionIsExclusive
  FailureReachesRoot
PROPERTIES
  ImplementsBarrier
  WaitersGetIn
\* The bounds run out, and an idle actor waits for events.
CHECK_DEADLOCK FALSE
