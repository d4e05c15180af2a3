CONSTANTS
  DBs = {0}
  Keys <- ThreeKeys
  Vals = {"v", "w"}
  Shards = {0}
  ShardOf <- OneShard
  Actors = {c1, c2}
  Commands <- Flush
  Absent = Absent
  Idle = Idle
  Propagating = TRUE
  SampleSize = 2
  Policy = "noeviction"
  PoolSize = 1
  EvictMax = 2
  MaxTime = 0
  DirtyWrap = 1
  MaxBuf = 3
SPECIFICATION PSpec
SYMMETRY ActorSymmetry
INVARIANT ReplayRebuilds
