CONSTANTS
  GroupSize = 3
  Rollouts <- MCRollouts
  PromptOf <- MCPromptOf
  ChunkSize = 3
  MinValid = 2
  MaxInvalidNum = 1
  MaxInvalidDen = 3
SPECIFICATION Spec
INVARIANT TypeOK
INVARIANT OutageMovesNothing
INVARIANT HealthyGroupTrains
CHECK_DEADLOCK FALSE
