\* As many writers as L0 takes files, and levels below that never outweigh a full L0.
SPECIFICATION Spec
CHECK_DEADLOCK FALSE
CONSTANTS
  Writers = {w1, w2, w3}
  Bg = Bg
  Keys = {1, 2}
  NumLevels = 3
  Trigger = 2
  Stop = 4
  Base = 1
  Multiplier = 2
  MaxFailures = 1
INVARIANTS
  TypeOK
  BgAwakeForWork
PROPERTIES
  StallEnds
  SleepersWake
  CloseReturns
