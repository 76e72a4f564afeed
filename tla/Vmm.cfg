SPECIFICATION VmmSpec
CONSTANTS
  W = 5
  SELF = 3
  FB_SLOT = 2
  BSS = 1
  FbFrame = 100
  Spare <- MCSpare
  Pages <- MCPages
  Contents <- MCContents
  PAGE_SIZE = 4
  HEADER = 2
  Sizes <- MCSizes
  MaxPages = 8
INVARIANTS
  RegionsAreContiguous
  RegionsAreBacked
  FreeFaults
\* A page fault halts the kernel, and the last page ends the model.
CHECK_DEADLOCK FALSE
