SPECIFICATION Spec
CONSTANTS
  e1 = e1
  Engines = {e1}
  N = 3
  InitialSteps = 5
  MaxRounds = 4
  MaxRepairs = 1
  MaxExtensions = 1
  MaxEmergency = 1
  AutoSteps = 1
  RestartSteps = 1
  ExtendSteps = 1
  MaxUnfunded = 2
  SavesFail = TRUE
INVARIANTS OverspendBounded StageAfterItsInputs CompletedMeansAllStages NoStageStranded
PROPERTY VerdictOutlivesReaders
CHECK_DEADLOCK FALSE
