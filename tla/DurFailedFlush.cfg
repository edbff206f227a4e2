\* The creation of the next log may fail in the middle of a flush.
SPECIFICATION Spec
VIEW UpToHistory
CHECK_DEADLOCK FALSE
CONSTANTS
  Faults <- FlushLogFails
  TornTails = {"log"}
  Torn = Torn
  MaxWrites = 3
  MaxOpens = 3
  MaxCompact = 8
INVARIANT AcknowledgedSurvives
