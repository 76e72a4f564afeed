SPECIFICATION InputSpec
CONSTANTS
  Strangers <- MCStrangers
  Letters <- MCLetters
  Others <- MCOthers
  MAX_KEYB_BUFFER_SIZE = 2
  PortSize = 2
VIEW view
INVARIANTS
  InServiceIsRunning
  OnlyStrangersHalt
  RingKeepsLatest
PROPERTIES
  PrintsAsTyped
  KeysAreHandled
\* The kernel may halt.
CHECK_DEADLOCK FALSE
