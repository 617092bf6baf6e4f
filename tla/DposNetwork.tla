----------------------------- MODULE DposNetwork -----------------------------
(***************************************************************************)
(* The producers of one schedule, each with a node of its own, and all the *)
(* blocks they ever sign: a tree, since blocks travel with any delay and a *)
(* producer extends the best block it knows.  A block is the list of the   *)
(* producers and `confirmed` fields of its branch; hs[b] is the header     *)
(* state that module BlockHeaderState computes for it.                     *)
(*                                                                         *)
(* A node keeps the best block it knows as its head (fork_database) and    *)
(* the watermark of its producer (producer_plugin).  What it knows besides *)
(* its head matters only when it takes a new head, so a node learns of     *)
(* blocks at the moment it produces.  Slots may be missed, so any producer *)
(* may have the next turn; Turns can narrow that down.                     *)
(***************************************************************************)
EXTENDS BlockHeaderState, SequencesExt

CONSTANTS
  Initial,      \* the producers of the schedule
  Trunk,        \* the producers of the blocks before the first fork
  Turns         \* the producers that may sign the first block after the trunk, on
                \* whichever branch, the second, and so on; its length is a bound

Producers == {Initial[i] : i \in 1..Len(Initial)}

ASSUME DposNetworkAssumption ==
  /\ Initial \in Schedules /\ Initial # <<>>
  /\ Trunk \in Seq(Producers)
  /\ \A p \in Producers : \E i \in 1..Len(Trunk) : Trunk[i] = p
  /\ Turns \in Seq(SUBSET Producers)

VARIABLES
  hs,        \* the header state of every block signed so far
  node       \* node[p]: the head and the watermark of p's node

dnVars == <<hs, node>>

Tree == DOMAIN hs
NumOf(b) == Len(b) + 1

\* first_preferred, of two blocks.
Preferred(a, b) ==
  \/ hs[a].dpos_irreversible > hs[b].dpos_irreversible
  \/ hs[a].dpos_irreversible = hs[b].dpos_irreversible /\ NumOf(a) > NumOf(b)

\* The branch up to the irreversible block: what b makes final.
Final(b) == SubSeq(b, 1, hs[b].dpos_irreversible - 1)

\* The branch up to the block that b proposes as irreversible.
Proposal(b) == SubSeq(b, 1, hs[b].dpos_proposed - 1)

\* The fork database of a node with head h can make b its head.
MayFollow(h, b) == b = h \/ (Preferred(b, h) /\ IsPrefix(Final(h), b))

-----------------------------------------------------------------------------
\* Mutant of MayProduce: the watermark does not matter.
MayProduceAnywayMutant(w, b) == TRUE
\* start_block: a producer with watermark w may produce on b.
MayProduce(w, b) == w < NumOf(b) + 1

\* start_block, on a block with number num: nothing without a watermark, else all
\* since the last block the producer signed, but no irreversible one.
BlocksToConfirm(w, num, irreversible) ==
  Min({IF w # 0 /\ w < num THEN num - w ELSE 0, num - irreversible})

\* p's node comes to have the head b, and p signs the next block.
Produce(p, b) ==
  LET w == node[p].watermark
      c == BlocksToConfirm(w, NumOf(b), hs[b].dpos_irreversible)
      new == Append(b, [producer |-> p, confirmed |-> c])
      turn == Cardinality(Tree) - Cardinality(Producers) + 1
  IN  /\ turn <= Len(Turns) /\ p \in Turns[turn]
      /\ MayFollow(node[p].head, b)
      /\ MayProduce(w, b)
      /\ MayConfirm(hs[b], p, c)
      /\ hs' = Put(hs, new, next(hs[b], p, c, <<>>))
      /\ node' = [node EXCEPT ![p] = [head |-> new, watermark |-> NumOf(new)]]

\* The producers of Trunk have signed one branch; each node has it up to the last
\* block of its own producer.
GenesisBlock == [branch |-> <<>>, hs |-> GenesisState(Initial)]
Grow(b, p) ==
  LET w == IF p \in DOMAIN b.hs.produced THEN b.hs.produced[p] ELSE 0
      c == BlocksToConfirm(w, b.hs.block_num, b.hs.dpos_irreversible)
  IN  [branch |-> Append(b.branch, [producer |-> p, confirmed |-> c]),
       hs |-> next(b.hs, p, c, <<>>)]
TrunkBlock[n \in 1..(Len(Trunk) + 1)] ==
  IF n = 1 THEN GenesisBlock ELSE Grow(TrunkBlock[n - 1], Trunk[n - 1])
LastOf(p) == 1 + Max({i \in 1..Len(Trunk) : Trunk[i] = p})
TrunkHead(p) == TrunkBlock[LastOf(p)].branch

Init ==
  /\ hs = [b \in {TrunkHead(p) : p \in Producers} |-> TrunkBlock[NumOf(b)].hs]
  /\ node = [p \in Producers |-> [head |-> TrunkHead(p), watermark |-> LastOf(p)]]

Next == \E p \in Producers, b \in Tree : Produce(p, b)

Spec == Init /\ [][Next]_dnVars

-----------------------------------------------------------------------------
\* The blocks p signed.
SignedBy(p) == {b \in Tree : Last(b).producer = p}

\* The numbers of the blocks that b confirms, itself included.
Confirms(b) == (NumOf(b) - Last(b).confirmed)..NumOf(b)

(***************************************************************************)
(* At most one block of a number is ever proposed as irreversible or made  *)
(* irreversible, on whichever branches and however long blocks travel: a   *)
(* producer confirms a number once, and a block needs more than two thirds *)
(* of them.                                                                *)
(***************************************************************************)
OneBlockPerNumber ==
  \A a, b \in Tree :
    /\ hs[a].dpos_proposed = hs[b].dpos_proposed => Proposal(a) = Proposal(b)
    /\ hs[a].dpos_irreversible = hs[b].dpos_irreversible => Final(a) = Final(b)

(***************************************************************************)
(* What any two nodes ever regard as irreversible lies on one branch:      *)
(* "once a block with a block_header::timestamp greater than expiration is *)
(* deemed irreversible, then a user can safely trust the transaction will  *)
(* never be included".                                                     *)
(***************************************************************************)
Agreement ==
  LET finals == {Final(b) : b \in Tree}
  IN  \A f, g \in finals : IsPrefix(f, g) \/ IsPrefix(g, f)

(***************************************************************************)
(* No producer signs two blocks of one number or confirms one number with  *)
(* two blocks, when its node changes to a branch with a lower head in      *)
(* between: start_block goes by the watermark, not by the producer's last  *)
(* block on the branch.                                                    *)
(***************************************************************************)
NoDoubleConfirm ==
  \A p \in Producers : \A a, b \in SignedBy(p) :
    a = b \/ Confirms(a) \cap Confirms(b) = {}
=============================================================================
