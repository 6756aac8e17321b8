SPECIFICATION FairSpec
CONSTANTS
  Keys <- MCKeys
  NoData = 0
  Retries = 1
  Visits <- PullVisit
  MaxOthers = 0
  MaxFails = 0
PROPERTIES
  PulledIsListed
CHECK_DEADLOCK FALSE
