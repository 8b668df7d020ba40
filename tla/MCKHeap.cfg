SPECIFICATION FairSpec
CONSTANTS
  KHEAP_START = 64
  KHEAP_END = 80
  HDR = 2
  WordMod = 1024
  Sizes <- AllSizes
  Alignments = {4}
  MaxLive = 3
  MaxCalls = 5
  Careful = TRUE
INVARIANTS TypeOK ExtentsDisjoint BytesDisjoint LiveAllocated FullyCompacted
PROPERTIES CallsReturn ImplementsAllocator
CHECK_DEADLOCK FALSE
