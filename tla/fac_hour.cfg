SPECIFICATION FairSpec
CONSTANTS
  N = 2
  SelectiveHour = TRUE
  Delays <- MCDelays
  LateSets <- MCLateSets
INVARIANTS StepJobParity BarrierHolds PlansAreWhole CompletedIsHonest ScheduleKeepsOrder PlannedWindowsAreClean
PROPERTIES TokenIsolation RunEnds
CHECK_DEADLOCK FALSE
