\* DisableSync is set and cleared before a monitor has stopped.
SPECIFICATION ManagerSpec
CONSTANTS
  g1 = g1  g2 = g2  s1 = s1  s2 = s2  p1 = p1  r1 = r1
  Cfgs = {g1}
  Keys = {g1}
  Direction <- BothWays
  Kind <- AllImmediate
  Requests = {}
  EarlyRequests = FALSE
  Slots = {s1, s2}
  Spawned = {p1}
  Patient = FALSE
  InotifyFails = FALSE
  Calls <- ManagerCalls
INVARIANTS EventsServed
