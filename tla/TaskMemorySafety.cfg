SPECIFICATION Spec
CONSTANTS
  Core = {c0, c1}
  Frame = {1, 2, 3, 4}
  STACK_PAGE = 9
  Images <- MCImages
  PAGE_SIZE = 2
  USERSPACE_TOP = 23
  U64_MAX = 63
  TMP_TASK_SIZE_PER_PROC = 4
  USERSTACK_SIZE = 2
  MaxTasks = 2
  MaxKernel = 1
  NONE = NONE
SYMMETRY Cores
INVARIANTS
  TypeOK
  OwnedOnce
  NoFrameLost
  InUserSpace
  FirstInItsMemory
CHECK_DEADLOCK FALSE
