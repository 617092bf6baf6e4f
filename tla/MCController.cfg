SPECIFICATION Spec
CONSTANTS
  Blocks <- MCBlocks
  Genesis = "g"
  NoBlock = "none"
  Prev <- MCPrev
  Num <- MCNum
  Lib <- MCLib
  IdRank <- MCIdRank
  Trxs <- MCTrxs
  TrxsOf <- MCTrxsOf
  Invalid <- SomeInvalid
  Modes <- BothModes
  CleanStop = FALSE
INVARIANTS
  TypeOK
  NoFault
  DbMatchesHead
  ReversibleIsBranch
  CrashSafe
  LogIsChain
  RootIsLogHead
  UnappliedNotOnBranch
  NoOrphans
  HeadIsBestValid
PROPERTIES
  HandlerEnds
  Finality
