\* An output file is cut between two versions of a key kept for a snapshot.
SPECIFICATION Spec
SYMMETRY Symmetry
VIEW UpToNumbers
CHECK_DEADLOCK FALSE
CONSTANTS
  Keys = {1}
  Values = {v1, v2}
  Absent = Absent
  Tombstone = Tombstone
  Guards = {g1}
  NoSnapshot = NoSnapshot
  NumLevels = 3
  FlushEntries = 2
  L0StopWrites = 3
  SplitInsideKey = TRUE
  MaxSeq = 4
PROPERTY NoResurrection
