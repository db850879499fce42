SPECIFICATION Spec
CONSTANTS
  Shell = {s1, s2}
  Programs = Programs
  Lines <- SomeLines
  Pieces <- SomePieces
  Image <- OneProgram
  BufferSize = 1
  Chunk = 2
  MaxInodes = 6
  MaxSize = 3
  MaxFd = 3
INVARIANTS
  ListingComplete
  EveryEntryFound
  RedirectionEnds
  OutputHeld
SYMMETRY Shells
CHECK_DEADLOCK FALSE
