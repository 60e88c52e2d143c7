SPECIFICATION Spec
CONSTANTS
  Clients = {1, 2}
  NoClient = NoClient
  Requests = {r1, r2}
  MonthlyLimit = 1
  MaxCalls = 3
  StatementsFail = TRUE
  Instances = {i1}
  PageLimit = 2
  Retries = {1}
  FailureThreshold = 1
  MaxMonth = 1
  MayCrash = FALSE
  MayDeactivate = FALSE
INVARIANTS
  UsageAccounts
  OvershootBounded
SYMMETRY Symmetry
CHECK_DEADLOCK FALSE
