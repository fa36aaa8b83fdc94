CONSTANTS
  MaxAttempts = 2
  MaxSteps = 2
  Lossy = TRUE
  DeadlineHits = {"policy", "reset", "step"}
SPECIFICATION FairSpec
INVARIANT TypeOK
INVARIANT CloseIsIdempotent
INVARIANT SeenIsJudged
INVARIANT OutageIsInvalid
INVARIANT NoOrphanRegistered
PROPERTY BrowserReleased
PROPERTY RolloutEnds
CHECK_DEADLOCK FALSE
