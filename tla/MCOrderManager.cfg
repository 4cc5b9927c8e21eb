SPECIFICATION Spec
CONSTANTS
  o1 = o1
  o2 = o2
  etf1 = etf1
  etf2 = etf2
  OrderIds = {o1, o2}
  Quantities = {1, 4}
  Levels = {l1, l2}
  Securities = {etf1, etf2}
  SecurityOf <- MCSecurityOf
  NoOrder = NoOrder
SYMMETRY LevelSymmetry
CHECK_DEADLOCK FALSE
INVARIANTS
  KnowsVenue
  QuantityAccounted
  HistoryIsHonest
  EndsOnce
