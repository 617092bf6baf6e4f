--------------------------- MODULE MCController ---------------------------
(***************************************************************************)
(* One node and two forks.  The branch of the a's makes a2 and then a3 and *)
(* a4 at once irreversible; that of the b's overtakes a4 only with b5.     *)
(*                                                                         *)
(*     g(1) -- a2 -- a3 -- a4 -- a5        lib of a4: 2, of a5: 4          *)
(*               \     \                                                   *)
(*                \     c4                                                 *)
(*                 b3 -- b4 -- b5          lib of b5: 4                    *)
(*                                                                         *)
(* The irreversible number never goes down along a branch (LibGrows).      *)
(***************************************************************************)
EXTENDS Controller

MCBlocks == {"g", "a2", "a3", "a4", "a5", "b3", "b4", "b5", "c4"}
MCPrev == [b \in MCBlocks |->
             CASE b = "g" -> "none" [] b = "a2" -> "g"
               [] b = "a3" -> "a2" [] b = "a4" -> "a3" [] b = "a5" -> "a4"
               [] b = "b3" -> "a2" [] b = "b4" -> "b3" [] b = "b5" -> "b4"
               [] b = "c4" -> "a3"]
MCNum == [b \in MCBlocks |->
            CASE b = "g" -> 1 [] b = "a2" -> 2
              [] b \in {"a3", "b3"} -> 3 [] b \in {"a4", "b4", "c4"} -> 4
              [] b \in {"a5", "b5"} -> 5]
MCLib == [b \in MCBlocks |->
            CASE b = "g" -> 0 [] b = "a4" -> 2 [] b \in {"a5", "b5"} -> 4
              [] OTHER -> 1]
\* In the order of the ids b3 comes before a3, its equal in the fork choice.
MCIdRank == [b \in MCBlocks |->
               CASE b = "g" -> 0 [] b = "a2" -> 1 [] b = "b3" -> 2 [] b = "a3" -> 3
                 [] b = "a4" -> 4 [] b = "b4" -> 5 [] b = "c4" -> 6
                 [] b = "a5" -> 7 [] b = "b5" -> 8]

\* Transactions that both branches have, at different heights.
MCTrxs == {"t", "u"}
MCTrxsOf == [b \in MCBlocks |->
               CASE b \in {"a3", "b4"} -> {"t"} [] b \in {"c4", "b3"} -> {"u"}
                 [] OTHER -> {}]

NoneInvalid == {}
\* c4 is refused as the next block, b4 when a fork switch has applied b3.
SomeInvalid == {"b4", "c4"}
Speculative == {SPECULATIVE}
BothModes == {SPECULATIVE, IRREVERSIBLE}
===========================================================================
