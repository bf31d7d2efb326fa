CONSTANTS
  MaxUnit = 2
  MaxLength = 1
  Keys <- MCKeys
  Queries <- MCQueries
  MaxAlarm = 1
  MaxClosures = 1
  MaxCalls = 1
  MaxCallbacks = 2
  MaxRows = 1
  Iterators = {"i1", "i2"}
  ListsOutlast = FALSE
SPECIFICATION Spec
INVARIANTS
  RangeIsWhatWasAsked
  FailedCallsLeaveNothing
PROPERTIES
  ImplementsStore
\* A broken actor waits for its replacement.
CHECK_DEADLOCK FALSE
