CONSTANTS
  c1 = c1
  c2 = c2
  Calls = {c1, c2}
  MaxConcurrent = 1
  Attempts = 2
  PageSize = 1
  Faults = {"create", "close"}
  BudgetExpires = TRUE
SPECIFICATION FairSpec
INVARIANT TypeOK
INVARIANT QuotaConserved
INVARIANT SlotCoversWork
INVARIANT SweeperSparesOwned
PROPERTY ImplementsPool
PROPERTY SlotReturned
PROPERTY NoStarvation
PROPERTY Reclaimed
