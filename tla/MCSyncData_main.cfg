\* Two calls on one key with a notification to send.
SPECIFICATION FairSpec
CONSTANTS
  Calls = {c1, c2}
  leaf = leaf  f1 = f1
  Keys = {leaf}
  Files = {f1}
  Covers <- OneKey
  WatchedKeys = {leaf}
  NotifyKeys = {leaf}
  IncludeKeys = {leaf}
  Sizes = {1}
  MaxRetry = 1
  CounterMod = 4
INVARIANTS TypeOK MarkIsExact NoStaleOverwrite NoSilentStale ReportedExactlyOnce
PROPERTIES KeepsContract Settles KeepsFairContract
