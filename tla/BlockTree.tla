----------------------------- MODULE BlockTree -----------------------------
(***************************************************************************)
(* The blocks a node may ever meet, as one fixed tree.  A block is         *)
(* identified by its id; what the fork database and the controller read of *)
(* a block_state is its parent (header.previous), its number               *)
(* (block_num) and the last irreversible block number that its header      *)
(* state computed (dpos_irreversible_blocknum).  How that last number is   *)
(* computed is the subject of module BlockHeaderState; here it is any      *)
(* number below the block's own.                                           *)
(***************************************************************************)
EXTENDS Naturals

CONSTANTS
  Blocks,    \* every block of the instance (block_id_type)
  Genesis,   \* the block every branch starts from
  NoBlock,   \* a null block_state_ptr
  Prev,      \* header.previous
  Num,       \* block_num
  Lib,       \* dpos_irreversible_blocknum
  IdRank     \* the place of a block's id in the order sha256_less

ASSUME TreeAssumption ==
  /\ Genesis \in Blocks
  /\ NoBlock \notin Blocks
  /\ Prev \in [Blocks -> Blocks \cup {NoBlock}]
  /\ \A b \in Blocks : Prev[b] = NoBlock <=> b = Genesis

\* block_header_state::next: block_num is the parent's plus one, and the last
\* irreversible number does not reach the block itself.
ASSUME NumberAssumption ==
  /\ Num \in [Blocks -> Nat]
  /\ Lib \in [Blocks -> Nat]
  /\ \A b \in Blocks \ {Genesis} : Num[b] = Num[Prev[b]] + 1
  /\ \A b \in Blocks : Lib[b] < Num[b]

\* The last irreversible number does not go down along a branch.  That depends on
\* the schedules: module HeaderChain checks it (NextIsPreferred) for schedules of
\* one length, and shows others that break it.
LibGrows == \A b \in Blocks \ {Genesis} : Lib[Prev[b]] <= Lib[b]

ASSUME IdAssumption ==
  /\ IdRank \in [Blocks -> Nat]
  /\ \A a, b \in Blocks : IdRank[a] = IdRank[b] => a = b

-----------------------------------------------------------------------------
\* A set of blocks that holds the parent of each of its members.
ClosedUnderPrev(S) == \A x \in S : Prev[x] \in Blocks => Prev[x] \in S

\* Ancestors[b]: b and every block before it on its branch, the least such set.
Ancestors ==
  [b \in Blocks |->
     {a \in Blocks : \A S \in SUBSET Blocks :
                        b \in S /\ ClosedUnderPrev(S) => a \in S}]

\* The blocks of S built on b, b included.
DescendantsIn(S, b) == {x \in S : b \in Ancestors[x]}

\* The block of `target`'s branch that comes directly after b.
NextTowards(b, target) == CHOOSE x \in Ancestors[target] : Prev[x] = b

\* The ancestor of b whose number is n.
AncestorAt(b, n) == CHOOSE a \in Ancestors[b] : Num[a] = n

-----------------------------------------------------------------------------
\* first_preferred: the fork choice, a higher last irreversible number and
\* then a longer branch.
first_preferred(a, b) ==
  \/ Lib[a] > Lib[b]
  \/ Lib[a] = Lib[b] /\ Num[a] > Num[b]

\* The order of the index by_lib_block_num among blocks with the same
\* `validated` flag: fork choice first, then the smaller id.
Precedes(a, b) ==
  \/ first_preferred(a, b)
  \/ /\ ~ first_preferred(b, a)
     /\ IdRank[a] < IdRank[b]

\* b is the first element of S in that order.
IsFirstOf(b, S) == b \in S /\ \A x \in S \ {b} : Precedes(b, x)
=============================================================================
