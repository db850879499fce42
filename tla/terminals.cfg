SPECIFICATION Spec
CONSTANTS
  N_TTYS = 2
  FIFO_SIZE = 1
  BufferSize = 1
  ProxySize = 2
  ChunkSize = 1
  MaxTyped = 2
  MaxWritten = 2
INVARIANTS
  LinesArrive
  OutputKept
  ScreenIsCurrent
  LineAsSeen
PROPERTIES
  LinesDelivered
