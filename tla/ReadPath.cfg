\* Two readers, one snapshot handle, a cache of two tables or of none.
SPECIFICATION ReadSpec
SYMMETRY Symmetry
CHECK_DEADLOCK FALSE
CONSTANTS
  Keys = {1}
  Values = {v1}
  Absent = Absent
  Tombstone = Tombstone
  Guards = {g1}
  NoSnapshot = NoSnapshot
  NumLevels = 2
  FlushEntries = 2
  L0StopWrites = 4
  SplitInsideKey = FALSE
  MaxSeq = 3
  Readers = {r1, r2}
  Capacities = {0, 2}
  MaxRaces = 1
INVARIANTS
  ReadTypeOK
  OpensSucceed
  GetReturnsCaptured
  IteratorShowsSnapshot
  CachedIsQueued
  OnlyRacesOvergrow
