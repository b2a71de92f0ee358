SPECIFICATION Spec
CONSTANTS
  Steps = 2
  OnFailure <- FallsBack
  MaxRetries = 1
  MaxReplans = 3
  MaxRuns = 2

PROPERTY CancelIsFinal
CHECK_DEADLOCK FALSE
