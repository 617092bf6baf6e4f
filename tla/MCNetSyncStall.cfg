SPECIFICATION Spec
INVARIANT InSyncIsCaughtUp
CONSTANTS
  Blocks <- MCBlocks
  Genesis = 1
  NoBlock = NoBlock
  Prev <- MCPrev
  Num <- MCNum
  Lib <- MCLib
  IdRank <- MCIdRank
  NPeers = 2
  Span = 2
  NodeStart = 1
  PeerStart <- MCPeerStartBehind
  PeerEnd <- MCPeerEnd
  MayHang = {1}
  MaxFaults = 1
CHECK_DEADLOCK FALSE
