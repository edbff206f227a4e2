SPECIFICATION Spec
CONSTANTS
  BITS = 4
  HALF = 1
  WORD = 2
  LONG = 3
  BLOCK_SIZE = 14
  RESTART_INTERVAL = 2
  MIN_KEYS = 1
  MIN_BITS = 12
  HASH_MULT = 21
  HASH_MIX = 177
  MAGIC = 2731
  MAX_HEIGHT = 2
  BITS_PER_KEY = 3
  FLUSH_BYTES = 15
  MaxReopens = 2
CONSTANTS
  FILTER_META_KEY <- MCFilterMetaKey
  Users <- MCUsers
  Values <- MCValues
  Asked <- MCAsked
  AllOptions <- MCOptions
  COMPARATOR <- MCComparator
INVARIANTS
  TypeOK
  LogTypeOK
  SkipListWellFormed
  MemtableIsLog
  CutLeavesPrefix
  ZerosLeavePrefix
  ManifestTellsVersion
  TablesFindTheirEntries
  GetReturnsNewest
  ScanReturnsNewest
PROPERTY
  LogSpec
CHECK_DEADLOCK FALSE
