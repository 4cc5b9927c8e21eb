SPECIFICATION Spec
CONSTANTS
  Securities = {s1, s2}
  Prices = {1, 3, 4}
  Levels = {2, 3}
  Openings <- MCOpenings
  MaxDate = 2
  NoPosition = NoPosition
SYMMETRY SecuritySymmetry
INVARIANTS
  StopIsEarned
  NoMissedExit
