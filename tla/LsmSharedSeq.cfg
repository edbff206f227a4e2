\* Two guards taken with no write between them share a sequence number.
SPECIFICATION Spec
SYMMETRY Symmetry
VIEW UpToNumbers
CHECK_DEADLOCK FALSE
CONSTANTS
  Keys = {1}
  Values = {v1, v2}
  Absent = Absent
  Tombstone = Tombstone
  Guards = {g1, g2}
  NoSnapshot = NoSnapshot
  NumLevels = 3
  FlushEntries = 2
  L0StopWrites = 3
  SplitInsideKey = FALSE
  MaxSeq = 4
PROPERTY GuardViewStable
