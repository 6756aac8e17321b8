SPECIFICATION Spec
CONSTANTS
  n1 = n1
  Requests = {r1,r2}
  Deletes = {d1, d2}
  Names = {n1}
  NameOf <- MCNameOf
  None = None
  MaxRestarts = 1
SYMMETRY HandlerSymmetry
INVARIANTS
  QuotaHasRow
  StartsLimited
  PromiseInHand
PROPERTIES
  PatchSurvives
CHECK_DEADLOCK FALSE
