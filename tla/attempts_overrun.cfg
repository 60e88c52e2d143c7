SPECIFICATION Spec
CONSTANTS
  Instances = {i1, i2}
  Slots = {n1}
  CallSlots = {s1}
  Configs = {k1}
  Deliveries = {d1, d2}
  NoConfig = NoConfig
  NoDelivery = NoDelivery
  MaxAttempts = 2
  BatchLimit = 100
  DbMayFail = FALSE
  MayCrash = FALSE
  MayReconfigure = FALSE
INVARIANTS
  AttemptsWithinLimit
CHECK_DEADLOCK FALSE
