CONSTANTS
  u1 = u1
  NoUrl = NoUrl
  Urls <- OneUrl
  Words <- ClientWords
  Presenters = {"presenter"}
  CmdqSize = 2
SPECIFICATION Spec
INVARIANTS
  TypeOK
  NothingLoaded
PROPERTIES
  PlaysNamedUrl
