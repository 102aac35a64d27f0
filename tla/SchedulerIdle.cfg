SPECIFICATION Spec
CONSTANTS
  NONE = NONE
  Core = {c1, c2}
  Task = {t1, t2}
  MAX_TICK_MISS = 1
  LifeExpectancy = 3
  ExecCanPanic = FALSE
SYMMETRY Symmetric
CHECK_DEADLOCK FALSE
INVARIANT EventLoopTicks
