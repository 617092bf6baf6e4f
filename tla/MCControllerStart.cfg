SPECIFICATION Spec
CONSTANTS
  Blocks <- MCBlocks
  Genesis = "g"
  NoBlock = "none"
  Prev <- MCPrev
  Num <- MCNum
  Lib <- MCLib
  IdRank <- MCIdRank
  Trxs <- MCTrxs
  TrxsOf <- MCTrxsOf
  Invalid <- SomeInvalid
  Modes <- Speculative
  CleanStop = TRUE
INVARIANTS
  NeverRefusesToStart
