CONSTANTS
  CmdqSize = 1
  PictqSize = 1
  AudioqSize = 2
  UserCommands <- PlayStop
  StreamSets <- AudioVideo
  FirstStream = "other"
  DecodeErrors = FALSE
  LoadErrors = FALSE
  AllocErrors = FALSE
  MaxLoads = 2
  MaxFrames = 2
SPECIFICATION Spec
INVARIANTS
  UnloadUnblocks
CHECK_DEADLOCK FALSE
