SPECIFICATION ClosureSpec
CONSTANTS
  N = 2
  SelectiveHour = TRUE
INVARIANTS ClaimedIsCancelled
CHECK_DEADLOCK FALSE
