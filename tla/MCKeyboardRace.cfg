SPECIFICATION Spec
CONSTANTS
  QUEUE_SIZE = 4
  Codes <- Letters
  SpecialCodes = {}
  Readers = {"line"}
  MaxBytes = 4
  MaxBacklog = 3
INVARIANT FIFO
CHECK_DEADLOCK FALSE
