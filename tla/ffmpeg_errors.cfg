CONSTANTS
  CmdqSize = 1
  PictqSize = 1
  AudioqSize = 1
  UserCommands <- AllKinds
  StreamSets <- OneStream
  FirstStream = "video"
  DecodeErrors = TRUE
  LoadErrors = TRUE
  AllocErrors = TRUE
  MaxLoads = 2
  MaxFrames = 2
SPECIFICATION Spec
INVARIANTS
  TypeOK
  PauseHolds
CHECK_DEADLOCK FALSE
