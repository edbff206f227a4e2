\* No snapshots, three keys: the levels fill, output files are cut anywhere, and
\* everything a newer version or a base-level Delete shadows is collected.
SPECIFICATION Spec
SYMMETRY Symmetry
VIEW UpToNumbers
CHECK_DEADLOCK FALSE
CONSTANTS
  Keys = {1, 2, 3}
  Values = {v1, v2}
  Absent = Absent
  Tombstone = Tombstone
  Guards = {}
  NoSnapshot = NoSnapshot
  NumLevels = 4
  FlushEntries = 2
  L0StopWrites = 3
  SplitInsideKey = TRUE
  MaxSeq = 4
INVARIANTS
  NumbersUnique
  LevelsDisjoint
  NewerAbove
  GetAgreesWithScan
  GarbageCollected
PROPERTY ImplementsKVStore
