SPECIFICATION ConversionsSpec
CONSTANTS
  INT = 6
  LONG = 12
  Words <- MCWords
INVARIANTS
  PrintsTheNumber
  FitsBuffer
