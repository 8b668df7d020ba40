SPECIFICATION FairSpec
CONSTANTS
  FRAME_SIZE = 8
  NumFrames = 8
  FrameCountMod = 4
  MemoryMaps <- PCMaps
  Page <- MCPages
  Value = {v1, v2}
  Garbage = garbage
INVARIANTS TypeOK NoSharedFrame FramesBackedByRAM HaltsOnlyWhenExhausted
PROPERTIES MappingStable StoreEventuallyDone ImplementsVirtualMemory
CHECK_DEADLOCK FALSE
