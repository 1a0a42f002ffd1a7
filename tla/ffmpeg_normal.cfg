CONSTANTS
  CmdqSize = 1
  PictqSize = 1
  AudioqSize = 2
  UserCommands <- AllKinds
  StreamSets <- WithAudio
  FirstStream = "other"
  DecodeErrors = FALSE
  LoadErrors = FALSE
  AllocErrors = FALSE
  MaxLoads = 2
  MaxFrames = 3
SPECIFICATION Spec
INVARIANTS
  OnePresenter
  NoFreedQueue
  PauseHolds
  EosAfterAll
  StoppedClean
PROPERTIES
  ImplementsControl
CHECK_DEADLOCK FALSE
