CONSTANTS
  GroupSize = 2
  Rollouts <- MCRollouts
  PromptOf <- MCPromptOf
  ChunkSize = 4
  MinValid = 2
  MaxInvalidNum = 1
  MaxInvalidDen = 2
SPECIFICATION Spec
INVARIANT CollationSurvives
CHECK_DEADLOCK FALSE
