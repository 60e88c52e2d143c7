SPECIFICATION MonitorSpec
CONSTANTS
  Monitors = {q1, q2}
  UsageLimit = 5
  MaxUsage = 6
  MaxDay = 0
  MaxFaults = 0
INVARIANT QuotaExceededTold
CHECK_DEADLOCK FALSE
