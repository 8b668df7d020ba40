SPECIFICATION Spec
CONSTANTS
  KHEAP_START = 64
  KHEAP_END = 80
  HDR = 2
  WordMod = 1024
  Sizes <- SmallSizes
  Alignments = {}
  MaxLive = 3
  MaxCalls = 5
  Careful = FALSE
INVARIANT ExtentsDisjoint
CHECK_DEADLOCK FALSE
