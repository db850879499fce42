SPECIFICATION Spec
CONSTANTS
  log = log
  pipe = pipe
  file = file
  Pid <- TwoProcesses
  Inode <- LogAndFile
  File = {file}
  Fifo <- JustLog
  Directory = {}
  Log = log
  Stdio <- NoStdio
  Byte = {0}
  Message <- OneByte
  FIFO_SIZE = 1
  BlockSize = 1
  Reopen = FALSE
  MaxFd = 2
  MaxSize = 2
  MaxListed = 2
  Amount = {1}
  NoFile = NoFile
INVARIANTS
  NoDangling
  Released
