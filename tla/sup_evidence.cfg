CONSTANTS
  Lease = 3
  MaxTime = 4
  DiskFaults = TRUE
  ClockBack = FALSE
SPECIFICATION FairSpec
PROPERTIES EvidenceCopiedBeforeRelease
CHECK_DEADLOCK FALSE
