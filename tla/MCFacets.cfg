CONSTANTS
  outer = outer
  inner = inner
  Root = Root
  Facets = {outer, inner}
  MaxGets = 2
  MaxDeletes = 2
  MaxAborts = 1
  MaxCrashes = 1
  MaxFaults = 1
  Parent <- Chain
SPECIFICATION Spec
INVARIANTS
  DoomedIsOnRecord
PROPERTIES
  StartsAreSerial
  DeletionsFinish
\* The bounds run out, and an idle actor waits for its application.
CHECK_DEADLOCK FALSE
