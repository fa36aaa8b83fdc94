CONSTANTS
  MaxAttempts = 2
  MaxSteps = 2
  Lossy = FALSE
  DeadlineHits = {}
SPECIFICATION Spec
INVARIANT InfraIsInvalid
CHECK_DEADLOCK FALSE
