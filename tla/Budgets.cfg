SPECIFICATION Spec
CONSTANTS
  Users = {u1}
  Requests = {r1, r2}
  Limits <- TwoScopes
  MaxMinute = 3
  None = None
INVARIANT TypeOK
INVARIANT BudgetKept
INVARIANT LateCountersAreReads
SYMMETRY BudgetSymmetry
CHECK_DEADLOCK FALSE
