SPECIFICATION Spec
CONSTANTS
  Setters = {s1}
  Limits = {1, 2}
  Actions = {"stop", "notify"}
  NoQuota = NoQuota
  MaxTraffic = 2
  MaxMonth = 0
  MaxCrashes = 0
INVARIANTS
  SetKeepsLatch
CHECK_DEADLOCK FALSE
