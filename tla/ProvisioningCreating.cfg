SPECIFICATION Spec
CONSTANTS
  n1 = n1
  Requests = {r1}
  Deletes = {d1}
  Names = {n1}
  NameOf <- MCNameOf
  None = None
  MaxRestarts = 0
INVARIANTS
  CreatingIsTrue
CHECK_DEADLOCK FALSE
