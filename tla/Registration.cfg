SPECIFICATION Spec
CONSTANTS
  Ids = {i1, i2, i3}
  Plans = {p1}
  NoRow = NoRow
  NoStock = NoStock
  Nobody = Nobody
  MaxConns = 2
  Terms <- MCTerms
  Pools <- MCPools
SYMMETRY IdSymmetry
INVARIANTS
  RangesDisjoint
  SoldWithinPeak
  NoFalseExhaustion
  LowestFit
  SomebodyGoesOn
  StockInvariant
PROPERTIES
  RefinesAtomic
CHECK_DEADLOCK FALSE
