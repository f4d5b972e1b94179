SPECIFICATION FairSpec
CONSTANTS
  QueueSize = 1
  ReaderBuf = 1
  WriterBuf = 1
  HandlerBuf = 1
  PtySize = 1
  MaxReply = 0
  MaxOutput = 1
  MaxInput = 3
PROPERTIES
  ExitIsNoticed
CHECK_DEADLOCK FALSE
