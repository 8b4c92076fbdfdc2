SPECIFICATION Spec
CONSTANTS
  NumCols = 3
  NumRows = 3
  Space = " "
  Letter = "a"
  Enter = "nl"
  Tab = "tab"
  Chars <- MCChars
  MaxLength = 5
  Word = 2
  HalfScreen = 1
  PageSize = 2
  Files <- MCFiles
  NoFile = NoFile
INVARIANTS ScreenShowsText
PROPERTIES EditorSpec
CHECK_DEADLOCK FALSE
