SPECIFICATION Spec
CONSTANTS
  Clients = {1, 2}
  NoClient = NoClient
  Requests = {r1}
  MonthlyLimit = 1
  MaxCalls = 0
  StatementsFail = TRUE
  Instances = {i1}
  PageLimit = 2
  Retries = {1}
  FailureThreshold = 1
  MaxMonth = 1
  MayCrash = FALSE
  MayDeactivate = FALSE
INVARIANTS
  FailureNotified
CHECK_DEADLOCK FALSE
