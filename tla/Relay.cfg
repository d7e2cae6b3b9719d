CONSTANTS
  MaxBuf = 3
  ReadSize = 2
  SockBuf = 2
  Reply = 2
  Waiting = 0
  Early = 3
  Sends <- MCSends
SPECIFICATION FairSpec
INVARIANTS TypeOK HalfClose FlowControl
PROPERTIES Ends ChannelsAreIOChannels
CHECK_DEADLOCK FALSE
