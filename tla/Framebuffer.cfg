SPECIFICATION FairSpec
CONSTANTS
  BW = 2
  BH = 6
  ROWS = 3
  COLS = 2
  LINE = 2
  GLYPH = 1
  TITLE = 1
  Window = 14
  Modes <- MCModes
INVARIANTS
  PlotsInside
  HaltShowsConsole
PROPERTIES
  ScreenCatchesUp
\* The kernel may halt.
CHECK_DEADLOCK FALSE
