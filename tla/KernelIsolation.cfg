SPECIFICATION Spec
CONSTANTS
  FileIds = {1}
  Names = {2, 3}
  ValidNames = {2}
  Shell = 2
  Bytes = {0}
  FirstChunk <- MCNoFirstChunk
  Chunk = 1
  Writes <- MCShortWrites
  Image <- MCShellOnly
  MaxFileSize = 1
  PageSize = 4
  Pages = {0, 1, 2, 3, 4, 5}
  TableOf <- MCTableOf
  HeapEnd = 4
  MemLimit = 20
  WordSize = 1
  MinStack = 1
  HeapUnits = 7
  ErrorBase = 7
  ExitCodes = {0, 2, 7}
  SpawnCalls <- MCManySpawns
  Buffers <- MCGoodAndBadBuffers
  StreamIds = {0, 1, 3, 4}
INVARIANTS OwnMemoryOnly
