SPECIFICATION FairSpec
CONSTANTS
  Core = {0, 2, 3}
  Bspid = 0
  TICKS = 4
  BYTE = 2
  PIT_DELAY = 2
  MaxGap = 2
  TimerWraps = {2}
  EntrySize <- MCEntrySize
  STACK_SIZE = 4
  TOP = 64
  PAGE_SIZE = 4
  Machines <- MCMachines
  Layouts <- MCLayouts
  Archives <- MCArchives
  BLOCK = 2
  NONE = NONE
INVARIANTS
  TypeOK
  FilesFound
  TablesRead
  SharedBeforeUse
  LateBarrier
  PitInTurn
  InOrder
PROPERTY
  Awake
CHECK_DEADLOCK FALSE
