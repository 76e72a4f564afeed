SPECIFICATION Spec
CONSTANTS
  W = 5
  SELF = 3
  FB_SLOT = 2
  BSS = 1
  FbFrame = 100
  Spare = {10, 11, 12, 13, 14, 15, 16}
  Pages <- MCPages
  Contents <- MCContents
INVARIANTS
  TablesArePrivate
PROPERTIES
  FramesAreUsed
  ImplementsAddressSpace
\* A request without a free frame ends the model.
CHECK_DEADLOCK FALSE
