SPECIFICATION Spec
CONSTANTS
  log = log
  pipe = pipe
  file = file
  Pid <- TwoProcesses
  Inode <- LogAndPipe
  File = {}
  Fifo <- LogAndPipe
  Directory = {}
  Log = log
  Stdio <- StdinOfOne
  Byte = {0, 1}
  Message <- ShortAndLong
  FIFO_SIZE = 2
  BlockSize = 1
  Reopen = TRUE
  MaxFd = 2
  MaxSize = 0
  MaxListed = 2
  Amount = {1, 2}
  NoFile = NoFile
PROPERTIES
  ImplementsPipes
CHECK_DEADLOCK FALSE
