CONSTANTS
  N = 2
  Clients = {c1, c2}
  Limit = 1
  Policies = {"noeviction", "allkeys", "volatile"}
  PlainCost = 1
  VolatileCost = 2
  Batch = 2
  MaxRounds = 3
  MaxKeys = 2
  MaxWrites = 4
SPECIFICATION FairSpec
INVARIANTS
  TypeOK
  EstimateExact
  OvershootBounded
PROPERTIES
  AllkeysComesBack
  GateReopens
