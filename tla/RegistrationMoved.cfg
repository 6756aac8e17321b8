SPECIFICATION Spec
CONSTANTS
  Ids = {i1, i2}
  Plans = {p1}
  NoRow = NoRow
  NoStock = NoStock
  Nobody = Nobody
  MaxConns = 2
  Terms <- MCLongTerms
  Pools <- MCMovedPools
INVARIANTS
  AllocatedInPool
CHECK_DEADLOCK FALSE
