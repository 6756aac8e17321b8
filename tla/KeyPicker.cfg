SPECIFICATION KeysSpec
CONSTANTS
  PanelKeys = {k1, k2}
  OtherLine = other
  MaxWrites = 1
INVARIANTS
  PageStaysUp
CHECK_DEADLOCK FALSE
