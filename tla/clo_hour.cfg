SPECIFICATION ClosureFairSpec
CONSTANTS
  N = 2
  SelectiveHour = TRUE
INVARIANTS OnlyStoppedStepLeft RunNeverLeftRunning ReportIsWhole
PROPERTIES ClosureKeepsTerminalWork ClosureEnds
CHECK_DEADLOCK FALSE
