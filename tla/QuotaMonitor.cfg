SPECIFICATION Spec
CONSTANTS
  Setters = {s1}
  Limits = {1, 2}
  Actions = {"stop"}
  NoQuota = NoQuota
  MaxTraffic = 2
  MaxMonth = 1
  MaxCrashes = 1
INVARIANTS
  NeverOvercounts
  ExactWhileSteady
  Accounting
  LatchMeansOver
PROPERTIES
  RefinesMeter
CHECK_DEADLOCK FALSE
