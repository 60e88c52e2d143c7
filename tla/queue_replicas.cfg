SPECIFICATION Spec
CONSTANTS
  Instances = {i1, i2}
  Slots = {n1}
  CallSlots = {s1}
  Configs = {k1}
  Deliveries = {d1, d2}
  NoConfig = NoConfig
  NoDelivery = NoDelivery
  MaxAttempts = 2
  BatchLimit = 2
  DbMayFail = FALSE
  MayCrash = TRUE
  MayReconfigure = FALSE
SYMMETRY Symmetry
PROPERTIES
  HonestAccount
CHECK_DEADLOCK FALSE
