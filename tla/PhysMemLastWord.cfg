CONSTANTS
  Core = {c1, c2}
  PAGE_SIZE = 16
  WORD_BITS = 3
  WORD_SIZE = 8
  HEADER_SIZE = 12
  MemoryMaps <- AlignedMaps
SPECIFICATION Spec
SYMMETRY Symmetric
INVARIANT OnlyLeftoversSet
CHECK_DEADLOCK FALSE
