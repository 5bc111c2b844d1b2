\* A periodic path synced both ways and an immediate path of the active BMC;
\* DisableSync changes once the last change has settled.
SPECIFICATION ManagerFairSpec
CONSTANTS
  g1 = g1  g2 = g2  s1 = s1  s2 = s2  p1 = p1  r1 = r1
  Cfgs = {g1, g2}
  Keys = {g1, g2}
  Direction <- OneBothWays
  Kind <- PeriodicAndImmediate
  Requests = {}
  EarlyRequests = FALSE
  Slots = {s1, s2}
  Spawned = {p1}
  Patient = TRUE
  InotifyFails = FALSE
  Calls <- ManagerCalls
INVARIANTS  NoOrphanCalls PausedMeansDisabled
PROPERTIES EventsStop FullSyncHolds FullSyncEnds CriticalIsSticky
