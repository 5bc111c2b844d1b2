\* A deferred path; DisableSync changes at any time, watchers may fail.
SPECIFICATION ManagerSpec
CONSTANTS
  g1 = g1  g2 = g2  s1 = s1  s2 = s2  p1 = p1  r1 = r1
  Cfgs = {g1}
  Keys = {g1}
  Direction <- BothWays
  Kind <- AllDeferred
  Requests = {r1}
  EarlyRequests = FALSE
  Slots = {s1, s2}
  Spawned = {p1}
  Patient = FALSE
  InotifyFails = TRUE
  Calls <- ManagerCalls
INVARIANTS ManagerTypeOK DeferredCovered 
