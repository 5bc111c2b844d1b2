SPECIFICATION FairSpec
CONSTANTS
  Paths <- MCPaths
  Dirs <- MCDirs
  HiddenNames = {".t"}
  NamePrefixes = {}
  Configs <- MCConfigs
  Numbers = {0, 1, 2}
  MaxWatches = 7
  MaxQueue = 1
  Patient = TRUE
  IncludesStay = TRUE
CHECK_DEADLOCK FALSE
INVARIANTS
  WatcherTypeOK
  MapMatchesKernel
  NoStaleEntry
  NoLostChange
  AllWatched
PROPERTIES
  NeverFails
  ChangesReported
