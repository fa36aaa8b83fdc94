CONSTANTS
  c1 = c1
  c2 = c2
  Calls = {c1, c2}
  MaxConcurrent = 1
  Attempts = 2
  PageSize = 1
  Faults = {"close"}
  BudgetExpires = FALSE
SPECIFICATION Spec
SYMMETRY Symmetry
INVARIANT AbandonedIsReclaimable
