SPECIFICATION Spec
CONSTANTS
  HDR = 9
  TABLE = 256
  RECORD = 48
  CONTEXT_AT = 40
  FRAME = 176
  IRET_AT = 136
  STACK = 16384
  START = 160
  NumTasks = 3
  Depths <- MCDepths
  HANDLER = 2000
INVARIANTS
  DamageDependsOnDepth
  HeapHolds
  StacksKeepApart
\* The kernel may crash.
CHECK_DEADLOCK FALSE
