\* One call on a key with a notification to send.
SPECIFICATION Spec
CONSTANTS
  Calls = {c1}
  leaf = leaf  f1 = f1
  Keys = {leaf}
  Files = {f1}
  Covers <- OneKey
  WatchedKeys = {leaf}
  NotifyKeys = {leaf}
  IncludeKeys = {}
  Sizes = {1, 1500}
  MaxRetry = 1
  CounterMod = 4
INVARIANTS ChangeAnnounced
