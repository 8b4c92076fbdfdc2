SPECIFICATION Spec
CONSTANTS
  Identifiers <- MCIdentifiers
  IntegerValue <- MCIntegerValue
  Literals <- MCIntegerValue
  Fields <- MCFields
  Families <- MCFamilies
  Scanned <- MCScanned
  MaxLexeme = 12
  MAX_REGISTERS = 8
  MAX_CODE_SIZE = 380
  Bits = 11
  StackTop = 480
  MemoryTop = 640
  CodeBase = 1024
  JUNK = 7
  FrameGap = 48
  LoopLimit = 10
  Steps = 200
INVARIANTS TypeOK CodeRight ScannedRight FramesConsistent
CHECK_DEADLOCK FALSE
