SPECIFICATION FairSpec
CONSTANTS
  Keys <- MCKeys
  NoData = 0
  Retries = 1
  Visits <- MCVisits
  MaxOthers = 1
  MaxFails = 1
INVARIANTS
  ReadYourWrites
  RowWritesShown
PROPERTIES
  ChangesShown
CHECK_DEADLOCK FALSE
