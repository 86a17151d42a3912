CONSTANTS
  Lease = 3
  MaxTime = 5
  DiskFaults = FALSE
  ClockBack = FALSE
SPECIFICATION FairSpec
INVARIANTS QuietAtEnd
PROPERTIES StopIsHonoured
CHECK_DEADLOCK FALSE
