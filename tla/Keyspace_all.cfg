CONSTANTS
  DBs = {0, 1}
  Keys <- MCKeys
  Vals = {"v", "w"}
  Shards = {0, 1}
  ShardOf <- TwoShards
  Actors = {c1, c2}
  Commands <- AllCommands
  Absent = Absent
  Idle = Idle
  Propagating = FALSE
  SampleSize = 1
  Policy = "volatile"
  PoolSize = 1
  EvictMax = 2
  MaxTime = 2
  DirtyWrap = 1000
  MaxBuf = 0
SPECIFICATION Spec
SYMMETRY ActorSymmetry
VIEW WithoutCounters
INVARIANTS
  TypeOK
  IndexInSync
PROPERTIES
  OnlyDeadKeysReaped
  PlainKeysSurvive
  DirtyCounts
