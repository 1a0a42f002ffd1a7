CONSTANTS
  CmdqSize = 1
  PictqSize = 1
  AudioqSize = 2
  UserCommands <- AllKinds
  StreamSets <- AudioVideo
  FirstStream = "video"
  DecodeErrors = FALSE
  LoadErrors = FALSE
  AllocErrors = FALSE
  MaxLoads = 2
  MaxFrames = 2
SPECIFICATION Spec
PROPERTIES
  ReadsInReadingStates
CHECK_DEADLOCK FALSE
