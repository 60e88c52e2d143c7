SPECIFICATION FairSpec
CONSTANTS
  Clients = {1, 2}
  NoClient = NoClient
  Requests = {r1}
  MonthlyLimit = 1
  MaxCalls = 0
  StatementsFail = TRUE
  Instances = {i1}
  PageLimit = 2
  Retries = {1, 2}
  FailureThreshold = 1
  MaxMonth = 1
  MayCrash = TRUE
  MayDeactivate = TRUE
INVARIANTS
  ResetTypeOK
  ProgressIsReal
PROPERTIES
  SuccessIsReal
  JobEnds
CHECK_DEADLOCK FALSE
