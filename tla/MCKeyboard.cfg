SPECIFICATION FairSpec
CONSTANTS
  QUEUE_SIZE = 3
  Codes <- AllCodes
  SpecialCodes <- Arrows
  Readers = {"line", "char"}
  MaxBytes = 4
  MaxBacklog = 2
INVARIANTS TypeOK UndisturbedFIFO InputVisible ModifiersFollowKeys UndisturbedSpecialKeys
PROPERTY EveryByteRead
CONSTRAINT Undisturbed
CHECK_DEADLOCK FALSE
