\* The auction, two slots of the start of the morning, the last minute of each
\* session and its close, lunch, and the start of the afternoon.
SPECIFICATION Spec
CONSTANTS
  TimeframeChoices = {"Minute5", "Minute60", "Daily", "Weekly"}
  Dates = {1, 2}
  TickMinutes = {565, 570, 574, 575, 689, 690, 780, 899, 900}
  TickPrices = {1, 2}
  TickVolumes = {1}
  MaxTicks = 5
  NoBar = NoBar
CHECK_DEADLOCK FALSE
INVARIANTS
  BarsSummariseTheirTicks
  BarsKeepToTheirSlot
  DropsComeFirst
