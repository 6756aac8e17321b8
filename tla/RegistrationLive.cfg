SPECIFICATION FairSpec
CONSTANTS
  Ids = {i1, i2, i3}
  Plans = {p1}
  NoRow = NoRow
  NoStock = NoStock
  Nobody = Nobody
  MaxConns = 2
  Terms <- MCOpenTerms
  Pools <- MCTightPool
PROPERTIES
  EveryCallEnds
CHECK_DEADLOCK FALSE
