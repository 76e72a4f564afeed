SPECIFICATION VmmSpec
CONSTANTS
  W = 5
  SELF = 3
  FB_SLOT = 2
  BSS = 1
  FbFrame = 100
  Spare <- MCSpare
  Pages <- MCPages
  Contents <- MCContents
  PAGE_SIZE = 4
  HEADER = 2
  Sizes <- MCSizes
  MaxPages = 3
PROPERTIES
  FreedIsUnmapped
\* A page fault halts the kernel.
CHECK_DEADLOCK FALSE
