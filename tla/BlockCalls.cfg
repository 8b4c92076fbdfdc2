SPECIFICATION FairSpec
CONSTANTS
  NumBlocks = 4
  BlockSize = 4
  Names = {1, 2}
  NameSize <- MCNameSize
  Bytes <- MCBytes
  Writes <- MCWrites
  ReadSizes = {1, 2, 4}
  Ops = {"create", "open_write", "delete", "write", "open_read", "read", "stat"}
INVARIANTS BlocksPartitioned FilesInOrder OthersSurvive ReadIsRight ResultIsRight
PROPERTIES CallsReturn StoreSpec
