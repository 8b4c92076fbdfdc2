SPECIFICATION Spec
CONSTANTS
  FileIds = {1, 2, 3}
  Names = {1, 2, 3}
  ValidNames = {1, 2, 3}
  Shell = 2
  Bytes = {0}
  FirstChunk <- MCNoFirstChunk
  Chunk = 1
  Writes <- MCShortWrites
  Image <- MCShellOnly
  MaxFileSize = 1
  PageSize = 4
  Pages = {0, 1, 2, 3, 4}
  TableOf <- MCTableOf
  HeapEnd = 4
  MemLimit = 20
  WordSize = 1
  MinStack = 1
  HeapUnits = 6
  ErrorBase = 7
  ExitCodes = {0}
  SpawnCalls <- MCOneSpawn
  Buffers <- MCOneBuffer
  StreamIds = {4}
INVARIANTS WriterExclusive StreamsSound
PROPERTIES ReadersSeeFrozenFiles ListingsSkipNothing
VIEW MCView
