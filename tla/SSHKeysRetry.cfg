SPECIFICATION StoreSpec
CONSTANTS
  Ids = {k1, k2}
  MaxCrashes = 1
INVARIANTS
  AnsweredStaysAway
CHECK_DEADLOCK FALSE
