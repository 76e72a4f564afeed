SPECIFICATION Spec
CONSTANTS
  HDR = 2
  Sizes <- MCSizes
  JunkSizes <- MCJunkSizes
  Cells = 12
PROPERTY FreeKeepsTheEnd
CHECK_DEADLOCK FALSE
