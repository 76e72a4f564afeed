SPECIFICATION BootSpec
CONSTANTS
  PageSize = 4
  UpperBase = 24
  KernelEnd = 34
  Slack = 31
  BootInfos <- MCBootInfos
  ALIGN = 2
  Infos <- MCInfos
INVARIANTS
  HeldPagesAreUsable
  TagsFound
  InformationIsKept
PROPERTIES
  ImplementsPool
\* The kernel is lost where it has overwritten its memory map.
CHECK_DEADLOCK FALSE
