SPECIFICATION Spec
CONSTANTS
  VGA_WIDTH = 2
  VGA_HEIGHT = 4
  Thread <- MCThread
  Letters <- MCLetters
  LINE = 2
  FB_HEIGHT = 9
  MaxTorn = 2
INVARIANTS
  CursorSettles
  WritesNearScreen
  DrawnInsidePicture
PROPERTIES
  ImplementsTerminal
VIEW MCView
