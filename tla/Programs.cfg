SPECIFICATION ProgramSpec
CONSTANTS
  FileIds = {1, 2, 3, 4, 5, 6, 7}
  Names = {1, 2, 3, 4, 5, 6, 7}
  Bytes = {0, 1}
  FirstChunk <- MCFirstChunk
  Chunk = 3
  Writes = {}
  Image <- MCImage
  BufferSize = 2
  NewLine = 1
  Text <- MCText
  Slash = 2
  NameLimit = 6
  Paths <- MCPaths
  Reading = {3}
  Writing = {4}
INVARIANTS CopyIsRight StatIsRight ListIsRight
PROPERTIES ProgramsEnd
CHECK_DEADLOCK FALSE
