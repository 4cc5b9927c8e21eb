\* One security, three timeframes of which two share a subscription.
SPECIFICATION ProviderSpec
\* The bounds on frames may be reached, and nobody is left to act.
CHECK_DEADLOCK FALSE
CONSTANTS
  Securities = {e1}
  TimeframeLists = {{"Minute5", "Daily"}, {"Weekly"}}
  ChannelSize = 1
  MaxFrames = 3
  MaxPushes = 2
INVARIANTS
  FramesAreWhole
  EventsKeepOrder
  BarsHaveAggregators
PROPERTY
  NobodyWaitsForEver
