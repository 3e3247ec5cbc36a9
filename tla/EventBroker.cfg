SPECIFICATION FairSpec
CONSTANTS
  reader = reader
  slow = slow
  Streams = {reader, slow}
  Readers = {reader}
  PublishCap = 2
  StreamCap = 1
  MaxFrames = 4
CHECK_DEADLOCK FALSE
INVARIANTS
  TypeOK
  NeverSendsOnClosed
PROPERTIES
  InOrderAtMostOnce
  SlowBrowserHurtsNobody
