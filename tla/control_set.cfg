CONSTANTS
  u1 = u1
  NoUrl = NoUrl
  Urls <- OneUrl
  Words <- ReadmeWords
  Presenters = {}
  CmdqSize = 2
SPECIFICATION Spec
PROPERTIES
  PlaysNamedUrl
