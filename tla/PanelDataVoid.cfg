SPECIFICATION Spec
CONSTANTS
  Keys <- MCKeys
  NoData = 0
  Retries = 1
  Visits <- VoidVisits
  MaxOthers = 0
  MaxFails = 0
INVARIANTS
  DoneIsReported
CHECK_DEADLOCK FALSE
