SPECIFICATION Spec
CONSTANTS
  SECTORS_PER_CHUNK = 2
  BITS_PER_SECTOR = 1
  FILES_PER_SECTOR = 1
  CHUNKS_IN_ALLOCATION_MAP = 2
  CHUNKS_IN_FILE_MAP = 2
  NAME_SIZE = 3
  Names <- CheckedNames
  MaxFaults = 2
INVARIANTS TypeOK DamageBounded FoundByName
PROPERTIES FilesKept
