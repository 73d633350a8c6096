CONSTANTS
  Rate = 2
  ClockRate = 3
  Frames = {5, 6}
  Writes = {0, 4}
  Capacity = 8
  Limits = {0, 1}
  MaxTime = 17
  MaxOps = 3
INIT Init
NEXT Next
CHECK_DEADLOCK FALSE
INVARIANT NoFalseFailure
