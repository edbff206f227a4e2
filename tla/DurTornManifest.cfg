\* A crash may also cut the last record of the manifest in two.
SPECIFICATION Spec
CHECK_DEADLOCK FALSE
CONSTANTS
  Faults <- None
  TornTails = {"log", "manifest"}
  Torn = Torn
  MaxWrites = 3
  MaxOpens = 3
  MaxCompact = 8
INVARIANT CommitsReplayed
