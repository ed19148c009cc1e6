CONSTANTS
  PageSize = 3
  PpnOf <- MCPpnOf
  VPages = 4
  UsizeSize = 24
  MaxLen = 8
  HeapRoom = 8
  DataRoom = 10
  FileSize = 4
SPECIFICATION IOSpec
INVARIANTS BufferExact CopiesExactly
PROPERTY CallsReturn
CHECK_DEADLOCK FALSE
