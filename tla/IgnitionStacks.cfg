SPECIFICATION Spec
CONSTANTS
  Core = {0, 2, 3}
  Bspid = 0
  TICKS = 4
  BYTE = 2
  PIT_DELAY = 2
  MaxGap = 2
  TimerWraps = {}
  EntrySize <- MCEntrySize
  STACK_SIZE = 4
  TOP = 64
  PAGE_SIZE = 4
  Machines <- UsualOnly
  Layouts <- MCLayouts
  Archives <- MCArchives
  BLOCK = 2
  NONE = NONE
INVARIANT
  OwnStack
CHECK_DEADLOCK FALSE
