SPECIFICATION Spec
CONSTANTS
  BodyLookback = 3
  MaxPrice <- MCMaxPrice
  MaxBars = 4
  MaxSwings = 2
  MaxLevels = 2
  ConfirmationBars = 2
  MaxFailed = 2
  Config <- MCConfig
  Shapes <- MCShapes
  Horizon = 7
  TopPrice <- MCTopPrice
INVARIANTS
  TypeOK
  SwingsAreTurningPoints
  WatermarksOfSequence
  BreakoutsAreDecidedInTime
  RangesHold
  EntryBarsFollowSignals
  TrendMirrors
CHECK_DEADLOCK FALSE
