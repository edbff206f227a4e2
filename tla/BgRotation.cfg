\* Level 1 may come to outweigh a full L0 while its rotation point is past all its files.
SPECIFICATION Spec
CHECK_DEADLOCK FALSE
CONSTANTS
  Writers = {w1, w2}
  Bg = Bg
  Keys = {1, 2, 3}
  NumLevels = 3
  Trigger = 1
  Stop = 2
  Base = 1
  Multiplier = 2
  MaxFailures = 1
PROPERTY StallEnds
