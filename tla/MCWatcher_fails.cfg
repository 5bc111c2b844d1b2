SPECIFICATION Spec
CONSTANTS
  Paths <- MCPaths
  Dirs <- MCDirs
  HiddenNames = {".t"}
  NamePrefixes = {}
  Configs <- OnlyFile
  Numbers = {0, 1, 2}
  MaxWatches = 7
  MaxQueue = 1
  Patient = TRUE
  IncludesStay = TRUE
CHECK_DEADLOCK FALSE
PROPERTIES
  GoesOn
