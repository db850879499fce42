SPECIFICATION Spec
CONSTANTS
  x = x  y = y  z = z  t = t  u = u
  BlockSize = 2
  BlockCount = 8
  InodeCount = 3
  InodeBits = 4
  Direct = 2
  Cell <- Cells
  Final <- Finals
  Name <- Names
  Text <- Texts
  Type = {"DIRECTORY", "FILE"}
  MaxInodes = 3
INVARIANTS
  BlocksApart
PROPERTIES
  OnlyIndirectLeaks
  ImplementsFiles
CHECK_DEADLOCK FALSE
