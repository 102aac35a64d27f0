SPECIFICATION Spec
CONSTANTS
  c1 = c1
  c2 = c2
  Core = {c1, c2}
  P2PAGE_COUNT = 2
  P1_ENTRIES = 5
  NULL = 0
  ENTRIES = 2
  Page <- MCPages
  KVMSPACE <- MCKVMSPACE
  RLCR3_THRESHOLD = 2
  MaxPages = 2
  PoolSize = 7
  DataFrames <- MCFrames
  NONE = NONE
  JUNK = JUNK
SYMMETRY Symmetric
INVARIANTS
  TypeOK
  CountsMatch
  MapperHasSlots
  TmpPrivate
  NoStaleAccess
  MappedIsMapped
  CallerFlushed
