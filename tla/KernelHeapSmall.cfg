SPECIFICATION FairSpec
CONSTANTS
  c1 = c1
  c2 = c2
  Core = {c1, c2}
  SIZE = 12
  FRAG_SIZE = 2
  BLOCK = 3
  NONE = NONE
INVARIANTS
  TypeOK
  GrowthMapped
PROPERTY
  GrowthEnds
CHECK_DEADLOCK FALSE
