SPECIFICATION ImagesSpec
CONSTANTS
  NumBlocks = 4
  BlockSize = 4
  Names = {1, 2, 3}
  NameSize <- MCNameSize
  Bytes <- MCBytes
  Writes <- MCWrites
  ReadSizes = {1}
  Ops = {"open_write", "delete", "write", "create", "stat", "read"}
  MachineOps = {"open_write", "delete", "write"}
  MachineNames = {1, 2}
  KernelName = 2
  MemorySize = 9
  Arguments <- MCArguments
  FileNumber <- MCFileNumber
  SourceFiles = {1, 2}
  LongNames = {1}
  NEW_LINE = 3
  CodeSizes = {0, 5, 12, 13, 20}
  OtherFiles <- MCOtherFiles
  NIBBLES = 24
  NUM_TABLE_ENTRY_SECTORS = 2
  MIN_IMAGE_SECTORS = 28
INVARIANTS KernelLoaded MakeIsRight DumpIsRight DiskBoots BackupHeader
PROPERTIES KernelStarts ToolsEnd
CHECK_DEADLOCK FALSE
