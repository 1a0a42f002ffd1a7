CONSTANTS
  news = news
  h1 = h1
  h2 = h2
  Names <- OneService
  Handles <- TwoStreams
  MaxClones = 1
  MaxPackets = 2
  QueueSize = 1
  BqSize = 1
SPECIFICATION FairSpec
INVARIANTS
  TypeOK
  RefsExact
  InOrder
  NoEmptyFront
  Served
PROPERTIES
  StopEnds
  ReadServed
CHECK_DEADLOCK FALSE
