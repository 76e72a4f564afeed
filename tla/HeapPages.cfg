SPECIFICATION FairPagesSpec
CONSTANTS
  HDR = 2
  Sizes <- MCSizes
  JunkSizes <- MCJunkSizes
  Cells = 12
  PAGE = 4
  Origin = 0
  Regions <- MCRegions
INVARIANTS
  LiveBlocksIntact
  Coalesced
  FaultsAtPageEdges
  RegionHolds
PROPERTIES
  LiveBlocksAreFound
  ImplementsArena
  CallsReturnOrHalt
\* Nobody has to call again, and the kernel halts after a page fault.
CHECK_DEADLOCK FALSE
