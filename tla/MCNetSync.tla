----------------------------- MODULE MCNetSync -----------------------------
(***************************************************************************)
(* An instance of NetSync for TLC.                                         *)
(***************************************************************************)
EXTENDS NetSync

\* Blocks 5 and 6 follow block 4 on two branches.
MCBlocks == 1..6
MCPrev == <<NoBlock, 1, 2, 3, 4, 4>>
MCNum == <<1, 2, 3, 4, 5, 5>>
MCLib == <<0, 1, 2, 3, 4, 4>>
MCIdRank == [b \in MCBlocks |-> b]

\* Peer 2 starts on the branch of block 6 and meets block 5 later.
MCPeerStart == <<5, 6>>
\* Peer 2 starts two blocks behind peer 1.
MCPeerStartBehind == <<5, 3>>
MCPeerEnd == <<5, 5>>
=============================================================================
