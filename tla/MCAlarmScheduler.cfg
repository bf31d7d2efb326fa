SPECIFICATION Spec
INVARIANTS
  FailuresAreChargedOnce
PROPERTIES
  NoRedeliveryOffTheRecord
  NewerAlarmIsKept
  AlarmIsDelivered
CONSTANTS
  MaxTime = 2
  MaxNow = 4
  MaxTries = 2
  MaxBackoff = 1
  MaxOrphans = 2
  MaxFaults = 2
  MaxCrashes = 2
