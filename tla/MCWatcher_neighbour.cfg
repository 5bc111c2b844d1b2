SPECIFICATION Spec
CONSTANTS
  Paths <- NeighbourPaths
  Dirs <- NeighbourDirs
  HiddenNames = {}
  NamePrefixes <- NeighbourPrefixes
  Configs <- OnlyCksum
  Numbers = {0, 1, 2}
  MaxWatches = 7
  MaxQueue = 1
  Patient = TRUE
  IncludesStay = TRUE
CHECK_DEADLOCK FALSE
INVARIANTS
  AllWatched
