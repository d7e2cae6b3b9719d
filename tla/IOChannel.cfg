CONSTANTS
  Byte <- MCByte
  Input <- MCInput
  Early = 1
  MaxBuf = 3
  ReadSize = 2
  SockBuf = 3
SPECIFICATION FairSpec
INVARIANTS TypeOK Fifo ConsumerIffBuffered ReaderDiscipline Bounded
PROPERTIES Delivered Finished ImplementsPipe
CHECK_DEADLOCK FALSE
