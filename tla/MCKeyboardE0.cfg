SPECIFICATION Spec
CONSTANTS
  QUEUE_SIZE = 4
  Codes = {}
  SpecialCodes <- Arrows
  Readers = {"char"}
  MaxBytes = 4
  MaxBacklog = 3
INVARIANT SpecialKeysMapped
CHECK_DEADLOCK FALSE
