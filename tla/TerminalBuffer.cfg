SPECIFICATION BufferSpec
CONSTANTS
  MaxOutputBufferSize = 8
  MaxBufferLines = 2
  MaxAppends = 12
  Chunks <- MCChunks
INVARIANT AppendEnds
CHECK_DEADLOCK FALSE
