SPECIFICATION Spec
CONSTANTS
  FRAME_SIZE = 8
  NumFrames = 8
  FrameCountMod = 4
  MemoryMaps <- LargeMaps
  Page <- MCPages
  Value = {v1, v2}
  Garbage = garbage
INVARIANT HaltsOnlyWhenExhausted
CHECK_DEADLOCK FALSE
