\* From Friday, 2025-01-24, past the makeup Sunday and into the holidays of the
\* Spring Festival; the Saturday and the Monday after the start may be edited.
SPECIFICATION ClockSpec
CONSTANTS
  WarmUpBars = 2
  MaxBreak = 20
  FirstDay = 24
  Editable = {25, 27}
  MaxDays = 4
CHECK_DEADLOCK FALSE
INVARIANT
  CalendarSkipsNoDay
PROPERTY
  BoundariesAgree
