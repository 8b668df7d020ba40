SPECIFICATION FairSpec
CONSTANTS
  SECTOR_SIZE = 4
  WordMod = 32
  ByteMod = 4
  LBA_MOD = 16
  LOW_MOD = 8
  COUNT_MOD = 4
  CAPACITY = 12
  Blocks <- CheckedBlocks
  Blank <- CheckedBlank
  Sectors = {0, 1, 2, 31}
  Counts = {0, 1, 2}
  MaxSectors = 1
  Machines <- CheckedMachines
  Leftovers = {1, 30}
INVARIANTS TypeOK
PROPERTIES PortOnlyWhenRequested ImplementsExtentStore TransfersReturn InitReturns
\* A machine ideInit does not cope with is polled for ever.
CHECK_DEADLOCK FALSE
