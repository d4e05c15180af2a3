SPECIFICATION sessSpec
CONSTANTS
  Nil = Nil
  SessRequests <- MCSessRequests
  SessDatabases = 2
  SessPasswords = {"pw"}
  SessNumerals <- MCNumerals
  SessBadNames = {"b d"}
  SessPeers <- MCPeers
  SessMe <- MCMe
INVARIANT MutedCommandsSilent
CHECK_DEADLOCK FALSE
