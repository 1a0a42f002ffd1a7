CONSTANTS
  u1 = u1
  NoUrl = NoUrl
  Urls <- OneUrl
  Words <- VlcWords
  Presenters = {}
  CmdqSize = 1
SPECIFICATION VlcFairSpec
INVARIANTS
  VlcTypeOK
  PlayerStopped
  PauseAgrees
PROPERTIES
  SendersServed
