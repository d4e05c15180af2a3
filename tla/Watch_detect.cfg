CONSTANTS
  DBs = {0, 1}
  Keys <- MCKeys
  Vals = {"v"}
  Shards = {0}
  ShardOf <- OneShard
  Actors = {c1}
  Commands <- Writes
  Absent = Absent
  Idle = Idle
  Propagating = FALSE
  SampleSize = 2
  Policy = "volatile"
  PoolSize = 1
  EvictMax = 2
  MaxTime = 1
  DirtyWrap = 1
  MaxBuf = 0
  Clients = {w1, w2}
  LastOnly = TRUE
  MaxSeq = 3
SPECIFICATION WSpec
SYMMETRY ClientSymmetry
INVARIANT WatchDetects
PROPERTY ReadsNeverAbort
