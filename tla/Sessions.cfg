\* Two sessions of any kinds; sessions share only the maps.
SPECIFICATION Spec
\* All sessions may have ended, and no more ids are left.
CHECK_DEADLOCK FALSE
CONSTANT
  SessionIds = {s1, s2}
INVARIANTS
  StatusTellsTruth
  NothingLingers
PROPERTY
  StopTakesEffect
