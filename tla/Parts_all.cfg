SPECIFICATION partsSpec
CONSTANTS
  Nil = Nil
  I64Max = 1073741823
  ISValues <- MCISValues
  ISHalf <- MCISHalf
  LPInt32Max = 67108863
  LPUnknown = 3
  LPMaxSafety = 4240
  LPMaxLen = 3
  LPValues <- MCLPValues
  LPInits <- MCLPInits
  QLLen <- MCQLLen
  QLLevels <- MCQLLevels
  QLSafety = 25
  QLFills <- MCQLFills
  QLMaxLen = 5
  ZMembers = {1, 2, 3}
  ZScores = {1, 2}
  ZInf = 99
  MAX_LEVEL = 3
  RaxKeys <- MCRaxKeys
  RaxProbes <- MCRaxProbes
  RaxVals = {1}
  INLINE_MAX_SIZE = 20
  MULTIBULK_MAX = 3
  ProtoMaxBulkLen = 4
  RequestStreams <- MCStreams
  MAX_IOVECS = 2
  OutLimit <- MCOutLimit
  OutMaxBytes = 5
  OutMaxTime = 3
  SessRequests <- MCSessRequests
  SessDatabases = 2
  SessPasswords = {"pw"}
  SessNumerals <- MCNumerals
  SessBadNames = {"b d"}
  SessPeers <- MCPeers
  SessMe <- MCMe
  CfgInts <- MCCfgInts
  CfgMem <- MCCfgMem
  CfgU16Max = 4
  CfgU32Max = 5
  CfgPolicies = {"noeviction", "allkeys-lru"}
  CfgFiles <- MCCfgFiles
  CfgOverrides <- MCCfgOverrides
  CfgRequests <- MCCfgRequests
  CfgWriters = {1, 2}
  CfgMaxStores = 1
  Keys <- MCKeys
  ShardBits = 1
  MaxBits = 2
  ShardOf <- MCShardOf
  Hash <- MCHash
  Counts = {1, 2}
INVARIANTS
  IntsetHoldsTheSet
  ListpackHoldsTheList
  QuicklistHoldsTheList
  SkiplistAgreesWithDict
  SkiplistLinksExact
  RaxAgreesWithMap
  RaxArenaExact
  ParseIgnoresReadBoundaries
  BytesInOrder
  RepliesAsPromised
  ReadersSeeWholeChanges
  ScanComplete
PROPERTIES
  QuicklistRespectsFill
  ScanEnds
  ScanSweeps
CHECK_DEADLOCK FALSE
