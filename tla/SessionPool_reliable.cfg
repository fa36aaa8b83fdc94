CONSTANTS
  c1 = c1
  c2 = c2
  c3 = c3
  Calls = {c1, c2, c3}
  MaxConcurrent = 2
  Attempts = 2
  PageSize = 2
  Faults = {}
  BudgetExpires = FALSE
SPECIFICATION Spec
SYMMETRY Symmetry
INVARIANT ProviderBound
INVARIANT AbandonedIsReclaimable
