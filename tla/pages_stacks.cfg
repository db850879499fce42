SPECIFICATION Spec
CONSTANTS
  MEMORY_BEGIN = 4
  MEMORY_SIZE = 11
  KernelBegin = 12
  KernelEnd = 15
  StackPages = 2
  Pid = {0, 1, 2}
  Levels = 3
  Width = 3
  TEXT = 1
  STACK_BOTTOM = 11
  STACK_TOP = 12
  HEAP = 18
  HEAP_END = 19
  BinarySize = {1, 2}
  MaxTables = 25
INVARIANTS
  StacksApart
