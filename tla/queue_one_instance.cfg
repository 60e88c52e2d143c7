SPECIFICATION Spec
CONSTANTS
  Instances = {i1}
  Slots = {n1, n2}
  CallSlots = {s1, s2}
  Configs = {k1, k2}
  Deliveries = {d1, d2}
  NoConfig = NoConfig
  NoDelivery = NoDelivery
  MaxAttempts = 2
  BatchLimit = 1
  DbMayFail = TRUE
  MayCrash = TRUE
  MayReconfigure = TRUE
SYMMETRY Symmetry
INVARIANTS
  TypeOK
  OneRunPerInstance
  NoStrandedRow
  RetryBatchIsFresh
  QueuedOnce
  AttemptsBackedByPosts
  SettledIsHonest
  OverrunBounded
CHECK_DEADLOCK FALSE
