SPECIFICATION FairSpec
CONSTANTS
  Setters = {s1}
  Limits = {0, 1}
  Actions = {"stop", "freeze", "notify"}
  NoQuota = NoQuota
  MaxTraffic = 1
  MaxMonth = 0
  MaxCrashes = 1
PROPERTIES
  OverIsNoticed
CHECK_DEADLOCK FALSE
