CONSTANTS
  agent = agent
  thread = thread
  Keys = {agent, thread}
  Conns = {1, 2}
  Ids = {1}
  Callers = {1}
  Overtakes = FALSE
  ProbesHeld = FALSE
  MaxWorkers = 2
  MaxFrames = 2
  MaxProbes = 1
  MaxTroubles = 2
  Within <- Nested
  KeyOf <- OfThread
  CallerKey <- ToThread
SPECIFICATION Spec
INVARIANTS
  FramesInOrder
PROPERTIES
  StaleIsRefused
  NobodyIsStranded
\* The bounds run out, and an idle supervisor waits for its clients.
CHECK_DEADLOCK FALSE
