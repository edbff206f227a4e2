\* Two guards at a time, so that views are pinned and versions retained; no cut of an
\* output file falls between two versions of a key.
SPECIFICATION Spec
SYMMETRY Symmetry
VIEW UpToNumbers
CHECK_DEADLOCK FALSE
CONSTANTS
  Keys = {1, 2}
  Values = {v1, v2}
  Absent = Absent
  Tombstone = Tombstone
  Guards = {g1, g2}
  NoSnapshot = NoSnapshot
  NumLevels = 4
  FlushEntries = 2
  L0StopWrites = 3
  SplitInsideKey = FALSE
  MaxSeq = 3
INVARIANTS
  TypeOK
  GetAgreesWithScan
PROPERTY ImplementsKVStore
