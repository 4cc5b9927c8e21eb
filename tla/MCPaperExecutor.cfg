SPECIFICATION PaperSpec
CONSTANTS
  etf1 = etf1
  etf2 = etf2
  OrderIds = {o1, o2}
  Securities = {etf1, etf2}
  Prices = {1, 2}
  Levels = {1, 2}
  Requests <- MCRequests
  LotSize = 2
  SlipUnit = 10
  SlippageBps = 1
  NoOrder = NoOrder
  MaxDay = 1
  MaxFills = 1
SYMMETRY OrderSymmetry
PROPERTIES
  TriggeredOrdersFill
  ImplementsExecutor
