SPECIFICATION Spec
CONSTANTS
  Width = 3
  Height = 3
  TailOffset = 1
INVARIANTS FreeListExact ScreenShowsGame
PROPERTIES GameSpec
CHECK_DEADLOCK FALSE
