CONSTANTS
  Lease = 3
  MaxTime = 4
  DiskFaults = TRUE
  ClockBack = TRUE
SPECIFICATION Spec
INVARIANTS LeaseHeldWhileActive LedgerNeverAhead NoLockAfterRelease VerdictAgrees
PROPERTIES LeaseAdvances FirstCauseImmutable LeasePromise
CHECK_DEADLOCK FALSE
