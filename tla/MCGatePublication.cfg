CONSTANTS
  Actors = {a, b}
  MaxWork = 3
  MaxAwaits = 6
  MaxFrames = 3
  MaxAborts = 1
  None = None
  \* The model that is left alone.
  MaxTasks = 0
  MaxCalls = 1
  MaxEvents = 0
  MaxOps = 0
  MaxFaults = 0
SPECIFICATION ContinuationsSpec
INVARIANTS
  CodeRunsAsItself
  WaitingOutKeepsTheActor
PROPERTIES
  SettledGoesOn
\* The bounds run out, and the realm waits for events.
CHECK_DEADLOCK FALSE
