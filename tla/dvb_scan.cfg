CONSTANTS
  Hardware <- TwoAdapters
  Airs <- FiveAirs
  Positions <- TwoPositions
  Places = 14
  Mute <- MayBeMute
  Late <- MayBeLate
SPECIFICATION FairSpec
INVARIANTS
  TypeOK
  ScanComplete
  SatMapTrue
  ServicesExact
  ShortTablesWhole
  FileKept
PROPERTIES
  ScanEnds
CHECK_DEADLOCK FALSE
