CONSTANTS
  N = 4
  Threads = {t1, t2}
  Tasks = {k1}
  NoThread = NoThread
  Keys <- MCKeys
  ShardOf <- MCShardOf
  Commands <- MCCommands
  Sweeps <- MCSweeps
  MaxDirty = 1
SPECIFICATION FairSpec
INVARIANTS
  TypeOK
  MutualExclusion
  WaitsAbove
  NoDeadlock
  NothingLeaked
  MirrorExactWhenFree
PROPERTIES
  MirrorMonotone
  CommandsComplete
