CONSTANTS
  NumRollouts = 3
  GroupSizes = {1, 3}
  RankCounts = {1, 3}
  ResponseLength = 3
  TurnTokens = 2
  Estimators = {"grpo_vectorized", "reinforce_plus_plus_baseline", "rloo", "rloo_vectorized", "opo", "gpg", "grpo_passk", "reinforce_plus_plus", "remax"}
  CalculateLogProbs = TRUE
  DiscountUnit = 2
  Unit = 5
  ClipLow = 1
  ClipHigh = 1
  ClipC = 3
SPECIFICATION Spec
INVARIANT TypeOK
INVARIANT RowIsAligned
INVARIANT BetterIsReinforced
INVARIANT ParallelismIsInvisible
INVARIANT MovesWithinTheClip
INVARIANT ObservationsAreTransparent
CHECK_DEADLOCK FALSE
