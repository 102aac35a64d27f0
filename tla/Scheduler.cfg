SPECIFICATION FairSpec
CONSTANTS
  NONE = NONE
  Core = {c1, c2}
  Task = {t1, t2}
  MAX_TICK_MISS = 0
  LifeExpectancy = 3
  ExecCanPanic = TRUE
CHECK_DEADLOCK FALSE
INVARIANTS
  TypeOK
  OneOwner
  CurrentIsRunning
  NoLostTask
PROPERTIES
  ListStable
  ResumeStable
  KernelReturns
