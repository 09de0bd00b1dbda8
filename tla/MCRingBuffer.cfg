\* Four cells hold three bytes: every pair of indices is reached.
CONSTANTS
  size_ = 4
  Values <- MCValues
  Chunks <- MCChunks
SPECIFICATION Spec
INVARIANTS TypeOK SendBuffersAreContents
PROPERTY RingIsFifo
