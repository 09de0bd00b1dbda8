CONSTANTS
  size_ = 4
  Values <- MCValues
  Chunks <- MCChunks
SPECIFICATION Spec
PROPERTY EnqueueReturnsCount
