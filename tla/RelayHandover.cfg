CONSTANTS
  MaxBuf = 3
  ReadSize = 2
  SockBuf = 2
  Reply = 1
  Waiting = 2
  Early = 0
  Sends <- MCSends
SPECIFICATION FairSpec
PROPERTIES Resumed
CHECK_DEADLOCK FALSE
