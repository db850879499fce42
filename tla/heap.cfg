SPECIFICATION HeapSpec
CONSTANTS
  Begin = 0
  PAGE_SIZE = 8
  Size = {1, 2, 5}
  Align = {1, 4, 8}
  MaxEnd = 24
INVARIANTS
  HeapTypeOK
  Apart
  Coalesced
  NoAssertionFails
PROPERTIES
  LossBounded
