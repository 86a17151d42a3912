CONSTANTS
  k1 = k1
  w1 = w1
  Job <- TwoJobs
  Key <- OneKey
  Worker <- OneWorker
  MaxRetries = 2
  CooldownBase = 1
  LockTimeout = 1
  MaxTime = 5
SPECIFICATION Spec
INVARIANTS RetryBudget
PROPERTIES CooldownHonoured Lifecycle
CHECK_DEADLOCK FALSE
