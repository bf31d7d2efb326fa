CONSTANTS
  MaxTasks = 5
  MaxCalls = 3
  MaxEvents = 2
  MaxOps = 3
  MaxFaults = 1
  \* The model that is left alone.
  Actors = {}
  MaxWork = 0
  MaxAwaits = 0
  MaxFrames = 0
  MaxAborts = 0
  None = None
SPECIFICATION SlicesSpec
INVARIANTS
  OneTransactionPerEvent
PROPERTIES
  StretchIsUninterrupted
  QueuedGetIn
\* The bounds run out, and an idle actor waits for events.
CHECK_DEADLOCK FALSE
