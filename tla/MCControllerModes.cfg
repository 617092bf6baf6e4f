SPECIFICATION Spec
CONSTANTS
  Blocks <- MCBlocks
  Genesis = "g"
  NoBlock = "none"
  Prev <- MCPrev
  Num <- MCNum
  Lib <- MCLib
  IdRank <- MCIdRank
  Trxs <- MCTrxs
  TrxsOf <- MCTrxsOf
  Invalid <- NoneInvalid
  Modes <- BothModes
  CleanStop = TRUE
INVARIANTS
  NoFault
  DbMatchesHead
  FollowsBest
PROPERTIES
  Finality
