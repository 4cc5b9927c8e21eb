SPECIFICATION Spec
CONSTANTS
  SlipUnit = 10
  SlippageBps = 1
  RiskCapital = 100
  MaxRiskPct = 20
  MaxDailyLossPct = 8
  MaxOpenPositions = 2
  InitialCapital = 100
  WarmUpBars = 2
  LotSize = 1
  TickSize = 1
  WallDate = 2
  MonthLength = 2
  OrderIds = {o1, o2}
  Shapes <- MCShapes
  MaxBars = 7
  MaxDay = 3
  NoPosition = NoPosition
  NoSignal = NoSignal
  NoOrder = NoOrder
  NoBar = NoBar
SYMMETRY OrderSymmetry
INVARIANTS
  PositionsAgree
  MoneyAgrees
  TradeLogComplete
  BookIsCurrent
  LoggedLongsSettled
PROPERTIES
  NoTradeAfterLossLimit
  ImplementsLedger
