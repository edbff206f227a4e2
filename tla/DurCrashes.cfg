\* Crashes at every disk operation, torn log tails, and the failures the code survives.
SPECIFICATION Spec
VIEW UpToHistory
CHECK_DEADLOCK FALSE
CONSTANTS
  Faults <- Survivable
  TornTails = {"log"}
  Torn = Torn
  MaxWrites = 3
  MaxOpens = 3
  MaxCompact = 8
INVARIANTS
  TypeOK
  LiveIsRecoverable
  CommitsReplayed
PROPERTIES
  LiveFilesImmutable
  ImplementsDurableLog
