SPECIFICATION FairSpec
CONSTANTS
  Setters = {s1}
  Limits = {1}
  Actions = {"stop"}
  NoQuota = NoQuota
  MaxTraffic = 1
  MaxMonth = 0
  MaxCrashes = 0
PROPERTIES
  OverIsStopped
CHECK_DEADLOCK FALSE
