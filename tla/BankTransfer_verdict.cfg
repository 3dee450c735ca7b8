SPECIFICATION Spec
CONSTANTS
  Start = 100
  Move1 = 30
  Move2 = 50
  FreeSchedule = FALSE
INVARIANT ReadsWereCommitted
CHECK_DEADLOCK FALSE
