SPECIFICATION Spec
CONSTANTS
  Steps = 2
  OnFailure <- FallsBack
  MaxRetries = 1
  MaxReplans = 3
  MaxRuns = 2
INVARIANTS TypeOK StopHolds CancelHolds
PROPERTIES TaskEnds PauseAnswered
CHECK_DEADLOCK FALSE
