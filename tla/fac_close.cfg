SPECIFICATION FairSpec
CONSTANTS
  N = 2
  SelectiveHour = TRUE
  Delays <- MCDelays
  LateSets <- MCLateSets
PROPERTIES SuccessfulCloseStands
CHECK_DEADLOCK FALSE
