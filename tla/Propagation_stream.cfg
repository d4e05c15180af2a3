CONSTANTS
  DBs = {0, 1}
  Keys <- ThreeKeys
  Vals = {"v", "w"}
  Shards = {0}
  ShardOf <- OneShard
  Actors = {c1, c2}
  Commands <- Stream
  Absent = Absent
  Idle = Idle
  Propagating = TRUE
  SampleSize = 2
  Policy = "allkeys"
  PoolSize = 1
  EvictMax = 2
  MaxTime = 1
  DirtyWrap = 1
  MaxBuf = 2
SPECIFICATION PSpec
SYMMETRY ActorSymmetry
INVARIANT ReplayRebuilds
