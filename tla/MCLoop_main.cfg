SPECIFICATION FairSpec
CONSTANTS
  c1 = "c1"  c2 = "c2"  c3 = "c3"  t1 = "t1"  t2 = "t2"
  Calls = {"c1", "c2", "c3"}
  Tools = {"t1", "t2"}
  PipeSize = 1
  MaxOutput = 2
  Failing = TRUE
  Absent = Absent
  Empty = Empty
  MaxChanges = 2
  Casts <- MCCasts
CHECK_DEADLOCK FALSE
INVARIANTS LoopTypeOK CodesExact CacheFollows DumpIsFresh
PROPERTIES CallsEnd ThreadReturns
