SPECIFICATION Spec
CONSTANTS
  g = g
  a1 = a1
  a2 = a2
  b1 = b1
  b2 = b2
  Items <- MCItems
  Size <- MCSize
  Parent <- MCParent
  Genesis = g
  PoolSize = 2
  MaxItems = 3
  MaxCells = 4
  Hole = Hole
  Nothing = Nothing
  MaxKills = 2
INVARIANTS Coherent DerivedActual Durable
PROPERTIES ReadsBack
CHECK_DEADLOCK FALSE
