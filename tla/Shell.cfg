SPECIFICATION Spec
CONSTANTS
  NumCols = 3
  NumRows = 6
  Space = " "
  Letter = "a"
  NewLine = "nl"
  Backslash = "backslash"
  Chars <- MCChars
  NumCommands = 3
  MaxCommandLength = 2
  MaxOutputSize = 4
  Outputs <- MCOutputs
  Banners <- MCBanners
  Scripts <- MCScripts
INVARIANTS OutputEndsLine ScreenShowsShell ScriptRunsLines
PROPERTIES HistorySpec
CHECK_DEADLOCK FALSE
