SPECIFICATION Spec
CONSTANTS
  FIFO_SIZE = 3
  ChunkSize = 3
  BufferSize = 4
  MaxTyped = 6
  MaxWritten = 4
INVARIANTS
  InputInOrder
  OutputInOrder
PROPERTIES
  ShellReturns
