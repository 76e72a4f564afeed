SPECIFICATION FairSpec
CONSTANTS
  N = 3
  MaxDepth = 2
  Windows <- MCWindows
INVARIANTS
  SoundOutsideWindows
  WaitingTasksAreSaved
  NoTickBeforeFirstTask
PROPERTIES
  ImplementsRing
  EveryTaskRuns
  BootCompletes
\* A lost processor does nothing any more.
CHECK_DEADLOCK FALSE
