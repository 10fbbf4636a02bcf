CONSTANTS
  Requests = {r1, r2}
  Admins = {a1, a2}
  Budgets = {1, none}
  NoLimit = none
  Expiries = {1, 2}
  Costs = {0, 1}
  MaxNow = 1
  MaxFaults = 1
SYMMETRY Symmetry
SPECIFICATION Spec
INVARIANTS SpendNotOverstated
PROPERTIES BlockedOnlyWhenSpent RevokedStaysOut
CHECK_DEADLOCK FALSE
