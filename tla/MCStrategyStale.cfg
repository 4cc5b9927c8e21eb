SPECIFICATION Spec
CONSTANTS
  BodyLookback = 3
  MaxPrice <- MCMaxPrice
  MaxBars = 4
  MaxSwings = 2
  MaxLevels = 2
  ConfirmationBars = 2
  MaxFailed = 2
  MinRewardRisk = 150
  RiskCapital = 1000000
  MaxRiskPct = 10
  MaxDailyLossPct = 3
  MaxOpenPositions = 2
  WarmUpBars = 2
  Securities = {s1}
  LotSize = 8
  TickSize = 1000
  Params <- MCParams
  DefaultConfig <- MCDefaultConfig
  Pasts <- MCPasts
  Shapes <- MCShapes
  ContextShapes <- MCContextShapes
  Schedule <- MCSchedule
  TickPrices <- MCTickPrices
  Horizon = 11
  MaxContextBars = 1
  MaxDay = 2
  MaxRuns = 2
  NoPosition = NoPosition
INVARIANT
  EntryFollowsSignalBar
CHECK_DEADLOCK FALSE
