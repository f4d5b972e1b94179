SPECIFICATION FairSpec
CONSTANTS
  Capacity = 3
  WriteLengths <- MCWriteLengths
  ReadLengths <- MCReadLengths
  BlockModes = {TRUE, FALSE}
  MaxBytes = 8
INVARIANTS
  RingHoldsUnreadBytes
  NoMissedSignal
  WriteResultIsTruthful
PROPERTIES
  ImplementsChannel
  BytesAreDelivered
  WritesReturn
  ReadsReturnAfterClose
