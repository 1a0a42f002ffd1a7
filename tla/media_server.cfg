CONSTANTS
  c1 = c1
  c2 = c2
  Hardware <- ThreeTuners
  Wirings <- TwoWirings
  File <- Found
  Weak <- SometimesWeak
  Scarce <- OneScarce
  Handles <- TwoPlayers
  MaxClones = 1
  MaxOpens = 3
  Files <- TwoFiles
  Words <- WordsOf
  MaxScans = 2
  Worlds <- EightWorlds
  Controllers <- TwoControllers
  Queries <- TwoQueries
  NoQuery = ""
  Commands <- FavCommands
  Disk <- Kept
  OldIds <- GoneIds
  PerMessage = 2
  MaxFavs = 2
  MaxFd = 4
SYMMETRY Alike
SPECIFICATION Spec
INVARIANTS
  TypeOK
  ListingTrue
  ReadsOwn
  FiltersExact
  ServerLives
  ScanKeeps
CHECK_DEADLOCK FALSE
