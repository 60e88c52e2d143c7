SPECIFICATION Spec
CONSTANTS
  Instances = {i1}
  Slots = {n1}
  CallSlots = {s1}
  Configs = {k1}
  Deliveries = {d1}
  NoConfig = NoConfig
  NoDelivery = NoDelivery
  MaxAttempts = 3
  BatchLimit = 100
  DbMayFail = FALSE
  MayCrash = FALSE
  MayReconfigure = FALSE
PROPERTIES
  NotPostedAfterAck
CHECK_DEADLOCK FALSE
