CONSTANTS
  news = news
  h1 = h1
  h2 = h2
  Names <- OneService
  Handles <- TwoStreams
  MaxClones = 1
  MaxPackets = 2
  QueueSize = 1
  BqSize = 1
SPECIFICATION Spec
INVARIANT NoFreedPacket
CHECK_DEADLOCK FALSE
