CONSTANTS
  N = 2
  Clients = {c1, c2}
  Limit = 2
  Policies = {"volatile"}
  PlainCost = 1
  VolatileCost = 2
  Batch = 2
  MaxRounds = 4
  MaxKeys = 2
  MaxWrites = 4
SPECIFICATION FairSpec
PROPERTY MemoryComesBack
