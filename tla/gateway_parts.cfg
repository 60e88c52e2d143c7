SPECIFICATION MCSpec
CONSTANTS
  Expressions = {"monthly", "unreadable"}
  Hours = {"two", "four", "none"}
  Accepted = {"monthly", "two", "four"}
  Retentions = {1, 2}
  LogRows = {w1}
  Cleaners = {c1}
  Users = {u1}
  Grants = {"admin", "user"}
  NewGrant = "user"
  NoAccount = "none"
  Replicas = {i1, i2}
  AccessLife = 2
  RefreshLife = 2
  HashTime = 1
  Flows = {f1, f2}
  MaxTokens = 3
  Malformed = {bad}
  Gates = {g1, g2}
  Calls = {c1}
  CacheTTL = 2
  MaxLag = 1
  Bypass = TRUE
  Counters = {k1}
  Window = 3
  Plans = {0, 2, 3}
  Monitors = {q1, q2}
  UsageLimit = 5
  MaxUsage = 6
  MaxDay = 1
  MaxFaults = 1
  Tiers = {t1, t2}
  Slugs = {s1, s2}
  NoClient = NoClient
  Requests = {n1, n2}
  UserRows = {u1}
  ClientRows = {k1}
  Handlers = {h1, h2}
  MaxWrites = 3
  Items = {d1, d2}
  Regenerations = {r1, r2}
  MaxSecret = 3
  Tolerance = 2
  MaxFlight = 1
INVARIANTS
  PartsTypeOK
  OneTaskPerJob
  TasksAsConfigured
  GrantIsRecent
  RevocationIsExact
  OpenedByRank
  AdmittedRecently
  InvalidationHolds
  RateBound
  WaitingHelps
  MarkedMeansTold
  RepeatsBounded
  InactiveTierUnused
  CurrentValueRecorded
  DeletedOnce
  RejectedMeansRotated
PROPERTIES
  DeletesOnlyExpired
CHECK_DEADLOCK FALSE
