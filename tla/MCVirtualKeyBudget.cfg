CONSTANTS
  Requests = {r1, r2}
  Admins = {a1}
  Budgets = {1}
  NoLimit = none
  Expiries = {2}
  Costs = {0, 1}
  MaxNow = 1
  MaxFaults = 0
SYMMETRY Symmetry
SPECIFICATION Spec
PROPERTY BudgetEnforced
CHECK_DEADLOCK FALSE
