SPECIFICATION FairSpec
CONSTANTS
  Instances = {i1}
  Slots = {n1, n2}
  CallSlots = {s1, s2}
  Configs = {k1}
  Deliveries = {d1, d2}
  NoConfig = NoConfig
  NoDelivery = NoDelivery
  MaxAttempts = 2
  BatchLimit = 2
  DbMayFail = FALSE
  MayCrash = FALSE
  MayReconfigure = TRUE
INVARIANTS
  AcknowledgedAtMostTwice
PROPERTIES
  QueueDrains
CHECK_DEADLOCK FALSE
