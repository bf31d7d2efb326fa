CONSTANTS
  MaxGens = 2
  MaxFrames = 1
  MaxWrites = 1
  MaxNotes = 2
  MaxSent = 2
  MaxQuiet = 3
  MaxTroubles = 2
SPECIFICATION SocketsSpec
INVARIANTS
  OnlyDurableIsHeard
  ListedIsMirrored
PROPERTIES
  CloseSettles
  ImplementsConnection
\* The bounds run out, and an idle actor waits for events.
CHECK_DEADLOCK FALSE
