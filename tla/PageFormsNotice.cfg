SPECIFICATION FormsSpec
CONSTANTS
  FormsInUse = {"createInstance"}
  MaxOpenings = 2
  MaxSends = 2
  MaxSaved = 3
INVARIANTS
  CreationIsNoticed
CHECK_DEADLOCK FALSE
