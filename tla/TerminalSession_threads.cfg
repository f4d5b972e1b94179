SPECIFICATION FairSpec
CONSTANTS
  QueueSize = 1
  ReaderBuf = 1
  WriterBuf = 1
  HandlerBuf = 1
  PtySize = 1
  MaxReply = 1
  MaxOutput = 2
  MaxInput = 3
INVARIANTS
  NoStrandedInput
  WritesMeetAnOpenQueue
  OutputIsConserved
PROPERTIES
  NothingShownAfterExit
  ExitIsNoticedUnlessStuck
  ThreadsEndUnlessMisled
  OutputIsShown
CHECK_DEADLOCK FALSE
