CONSTANTS
  Prefixes = {p, q}
  Names = {db}
  Initial = 3
  MaxQueue = 2
  MaxExports = 1
  MaxFaults = 3
SPECIFICATION Spec
INVARIANTS
  AcknowledgedIsKept
  RoomForJournals
  ExportsAreWhole
SYMMETRY Symmetry
\* A pool that nobody installs again.
CHECK_DEADLOCK FALSE
