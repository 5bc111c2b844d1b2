\* Restarts and failing writes at any point; one path.
SPECIFICATION PersistenceSpec
CONSTANTS
  both = both  other = other  r1 = r1
  Cfgs = {both}
  Keys = {both}
  Direction <- OneDirection
  Requests = {r1}
  EarlyRequests = FALSE
  Calls <- FullSyncCalls
INVARIANTS PersistenceTypeOK NeverLockedOut OneFullSync FileFollows
PROPERTIES RestartRestores
