CONSTANTS
  c1 = c1
  c2 = c2
  Calls = {c1, c2}
  MaxConcurrent = 1
  Attempts = 3
  PageSize = 1
  Faults = {}
  BudgetExpires = TRUE
SPECIFICATION Spec
SYMMETRY Symmetry
INVARIANT ProviderBound
