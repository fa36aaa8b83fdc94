CONSTANTS
  MaxAttempts = 2
  MaxSteps = 2
  Lossy = FALSE
  DeadlineHits = {"reset"}
SPECIFICATION Spec
INVARIANT InfraIsInvalid
CHECK_DEADLOCK FALSE
