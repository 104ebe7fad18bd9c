SPECIFICATION Spec
CONSTANTS
  IP = {a, b}
  Requests = 10
  Stale = 3
  PerMatch = TRUE
  MaxSweepers = 5
  NULL = NULL
INVARIANT IpBudget
