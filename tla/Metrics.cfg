SPECIFICATION ReportSpec
CONSTANTS
  StartingCapital = 3
  Gains = {0, 2}
  Losses = {1}
  Equities = {0, 1, 2, 3, 4}
  ReturnUnit = 12
  MaxTrades = 4
  MaxPoints = 4
CHECK_DEADLOCK FALSE
INVARIANT
  FiguresAreExact
