\* Two files reach level 1 out of key order: the binary search misses.
SPECIFICATION Spec
SYMMETRY Symmetry
VIEW UpToNumbers
CHECK_DEADLOCK FALSE
CONSTANTS
  Keys = {1, 2}
  Values = {v1, v2}
  Absent = Absent
  Tombstone = Tombstone
  Guards = {}
  NoSnapshot = NoSnapshot
  NumLevels = 3
  FlushEntries = 2
  L0StopWrites = 3
  SplitInsideKey = FALSE
  MaxSeq = 3
INVARIANT GetFindsLatest
