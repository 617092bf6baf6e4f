---------------------------- MODULE NetSyncProofs ----------------------------
(***************************************************************************)
(* Proofs about the synchronisation of a node, for every tree of blocks,   *)
(* every number of peers and every length of a range.                      *)
(***************************************************************************)
EXTENDS NetSync, SumTheorems

(***************************************************************************)
(* Facts about branches, as in module ControllerProofs.                    *)
(***************************************************************************)
\* A block is on its own branch, and a branch consists of blocks.
LEMMA AncestorsOfBlock ==
  ASSUME NEW b \in Blocks
  PROVE  b \in Ancestors[b] /\ Ancestors[b] \subseteq Blocks
BY DEF Ancestors

\* Whatever holds b and is closed under Prev holds the whole branch of b.
LEMMA AncestorsLeast ==
  ASSUME NEW b \in Blocks, NEW S \in SUBSET Blocks, b \in S, ClosedUnderPrev(S)
  PROVE  Ancestors[b] \subseteq S
BY DEF Ancestors

\* A branch is closed under Prev.
LEMMA AncestorsClosed ==
  ASSUME NEW b \in Blocks
  PROVE  ClosedUnderPrev(Ancestors[b])
BY DEF Ancestors, ClosedUnderPrev

\* Being an ancestor is transitive.
LEMMA AncestorsTransitive ==
  ASSUME NEW c \in Blocks, NEW b \in Ancestors[c]
  PROVE  Ancestors[b] \subseteq Ancestors[c]
<1>1. Ancestors[c] \in SUBSET Blocks /\ b \in Blocks
  BY AncestorsOfBlock
<1> QED
  BY <1>1, AncestorsLeast, AncestorsClosed

\* An ancestor other than the block itself is an ancestor of its parent.
LEMMA AncestorsSplit ==
  ASSUME NEW b \in Blocks, NEW a \in Ancestors[b], a # b
  PROVE  Prev[b] \in Blocks /\ a \in Ancestors[Prev[b]]
<1>1. Prev[b] \in Blocks
  <2>1. SUFFICES ASSUME Prev[b] \notin Blocks PROVE FALSE
    OBVIOUS
  <2>2. ClosedUnderPrev({b})
    BY <2>1 DEF ClosedUnderPrev
  <2> QED
    BY <2>2, AncestorsLeast
<1>2. DEFINE S == {b} \cup Ancestors[Prev[b]]
<1>3. S \in SUBSET Blocks
  BY <1>1, AncestorsOfBlock
<1>4. ClosedUnderPrev(S)
  BY <1>1, AncestorsOfBlock, AncestorsClosed DEF ClosedUnderPrev
<1>5. Ancestors[b] \subseteq S
  <2> HIDE DEF S
  <2>1. b \in S
    BY DEF S
  <2> QED
    BY <2>1, <1>3, <1>4, AncestorsLeast
<1> QED
  BY <1>1, <1>5

\* Block numbers increase along a branch.
LEMMA AncestorsOrdered ==
  ASSUME NEW b \in Blocks, NEW a \in Ancestors[b]
  PROVE  Num[a] <= Num[b] /\ (a # b => Num[a] < Num[b])
<1> USE TreeAssumption, NumberAssumption
<1>1. DEFINE S == {x \in Blocks : x = b \/ Num[x] < Num[b]}
<1>2. ClosedUnderPrev(S)
  <2>1. SUFFICES ASSUME NEW x \in S, Prev[x] \in Blocks PROVE Prev[x] \in S
    BY DEF ClosedUnderPrev
  <2>2. x # Genesis
    BY <2>1
  <2>3. Num[x] = Num[Prev[x]] + 1
    BY <2>2
  <2> QED
    BY <2>1, <2>3
<1>3. b \in S
  OBVIOUS
<1>4. Ancestors[b] \subseteq S
  <2> HIDE DEF S
  <2>1. S \in SUBSET Blocks
    BY DEF S
  <2> QED
    BY <2>1, <1>2, <1>3, AncestorsLeast
<1> QED
  BY <1>4

\* Every branch starts at the genesis block and has a block of every number up to
\* its last: take the lowest of its blocks that are not below the number.
LEMMA BranchHasNumber ==
  ASSUME NEW b \in Blocks, NEW n \in 1..Num[b]
  PROVE  \E a \in Ancestors[b] : Num[a] = n
<1> USE TreeAssumption, NumberAssumption
<1> DEFINE above == {a \in Ancestors[b] : Num[a] >= n}
           nums == {Num[a] : a \in above}
<1>1. Ancestors[b] \subseteq Blocks /\ b \in Ancestors[b]
  BY AncestorsOfBlock
<1>2. b \in above
  BY <1>1
<1>3. nums \in SUBSET Nat /\ nums # {}
  BY <1>1, <1>2
<1>4. PICK m \in nums : \A k \in nums : m <= k
  <2> HIDE DEF nums
  <2> QED
    BY <1>3, SmallestNumber
<1>5. PICK a \in above : Num[a] = m
  BY <1>4
<1>6. CASE a = Genesis
  BY <1>5, <1>6, NetSyncAssumption
<1>7. CASE a # Genesis
  <2>1. a \in Blocks /\ Prev[a] \in Blocks /\ Num[a] = Num[Prev[a]] + 1
    BY <1>1, <1>5, <1>7
  <2>2. Prev[a] \in Ancestors[b]
    BY <1>5, <2>1, AncestorsClosed DEF ClosedUnderPrev
  <2>3. Prev[a] \notin above
    <3>1. Prev[a] \in above => m <= Num[Prev[a]]
      BY <1>4
    <3> QED
      BY <1>5, <2>1, <3>1
  <2> QED
    BY <1>1, <1>5, <2>1, <2>2, <2>3
<1> QED
  BY <1>6, <1>7

\* What AncestorAt finds then.
LEMMA AncestorAtNumber ==
  ASSUME NEW b \in Blocks, NEW n \in 1..Num[b]
  PROVE  AncestorAt(b, n) \in Ancestors[b] /\ Num[AncestorAt(b, n)] = n
BY BranchHasNumber DEF AncestorAt

\* The numbers of blocks start at 1, and irreversible numbers are below them.
LEMMA NumbersOfBlock ==
  ASSUME NEW b \in Blocks
  PROVE  Num[b] \in Nat \ {0} /\ Lib[b] \in Nat /\ Lib[b] < Num[b] /\ IdRank[b] \in Nat
BY NumberAssumption, IdAssumption

-----------------------------------------------------------------------------
(***************************************************************************)
(* Facts about chains: their blocks hold the parents of their blocks, the  *)
(* last irreversible block is on the branch of the head, and the fork      *)
(* choice prefers none of them to the head.                                *)
(***************************************************************************)
LEMMA MaxOfTwo ==
  ASSUME NEW x \in Nat, NEW y \in Nat
  PROVE  Max({x, y}) \in {x, y} /\ Max({x, y}) >= x /\ Max({x, y}) >= y
<1>1. \E m \in {x, y} : \A k \in {x, y} : m >= k
  <2>1. CASE x >= y
    BY <2>1
  <2>2. CASE y >= x
    BY <2>2
  <2> QED
    BY <2>1, <2>2
<1> QED
  BY <1>1 DEF Max

\* The least of two numbers.
LEMMA MinOfTwo ==
  ASSUME NEW x \in Nat, NEW y \in Nat
  PROVE  Min({x, y}) \in {x, y} /\ Min({x, y}) <= x /\ Min({x, y}) <= y
<1>1. \E m \in {x, y} : \A k \in {x, y} : m <= k
  <2>1. CASE x <= y
    BY <2>1
  <2>2. CASE y <= x
    BY <2>2
  <2> QED
    BY <2>1, <2>2
<1> QED
  BY <1>1 DEF Min

\* A block with a higher number never has a lower irreversible number.
LongerIsPreferred == \A a, b \in Blocks : Num[a] > Num[b] => Lib[a] >= Lib[b]

\* The numbers that the last irreversible block of a chain can have.
LibNums == {LibNum(Branch(b)) : b \in Blocks}

IsChain(C) ==
  /\ C \in [blocks : SUBSET Blocks, head : Blocks, root : Blocks]
  /\ ClosedUnderPrev(C.blocks)
  /\ C.head \in C.blocks
  /\ C.root \in Ancestors[C.head]
  /\ LibNum(C) \in LibNums
  /\ LongerIsPreferred => \A x \in C.blocks : Num[x] <= HeadNum(C)

\* The last irreversible block of a branch.
LEMMA LibOfBranch ==
  ASSUME NEW b \in Blocks
  PROVE  /\ Branch(b).root \in Ancestors[b]
         /\ LibNum(Branch(b)) = Max({Lib[b], 1})
         /\ LibNum(Branch(b)) \in 1..Num[b]
<1>1. PICK n : n = Max({Lib[b], 1})
  OBVIOUS
<1>2. n \in 1..Num[b]
  BY <1>1, MaxOfTwo, NumbersOfBlock
<1>3. Branch(b).root = AncestorAt(b, n)
  BY <1>1, NetSyncAssumption DEF Branch
<1> QED
  BY <1>1, <1>2, <1>3, AncestorAtNumber DEF LibNum

\* A branch is a chain.
LEMMA BranchIsChain ==
  ASSUME NEW b \in Blocks
  PROVE  IsChain(Branch(b))
<1>1. PICK C : C = Branch(b)
  OBVIOUS
<1>2. Ancestors[b] \in SUBSET Blocks /\ b \in Ancestors[b] /\ ClosedUnderPrev(Ancestors[b])
  BY AncestorsOfBlock, AncestorsClosed
<1>3. C.root \in Ancestors[b] /\ LibNum(C) \in LibNums
  BY <1>1, LibOfBranch DEF LibNums
<1>4. C = [blocks |-> Ancestors[b], head |-> b, root |-> C.root]
  BY <1>1 DEF Branch
<1>5. \A x \in Ancestors[b] : Num[x] <= Num[b]
  BY AncestorsOrdered
<1>6. IsChain(C)
  BY <1>2, <1>3, <1>4, <1>5 DEF IsChain, HeadNum
<1> QED
  BY <1>1, <1>6

\* These are numbers, from 1.
LEMMA LibNumsAreNumbers == LibNums \in SUBSET (Nat \ {0})
<1>1. ASSUME NEW b \in Blocks PROVE LibNum(Branch(b)) \in Nat \ {0}
  <2>1. LibNum(Branch(b)) \in 1..Num[b] /\ Num[b] \in Nat
    BY <1>1, LibOfBranch, NumbersOfBlock
  <2> QED
    BY <2>1
<1> QED
  BY <1>1 DEF LibNums

\* The numbers of a chain's head and of its last irreversible block.
LEMMA ChainNumbers ==
  ASSUME NEW C, IsChain(C)
  PROVE  /\ C.head \in Blocks /\ C.root \in Blocks
         /\ HeadNum(C) \in Nat \ {0}
         /\ LibNum(C) \in LibNums
         /\ LibNum(C) \in 1..HeadNum(C)
<1>1. C.head \in Blocks /\ C.root \in Blocks /\ C.root \in Ancestors[C.head] /\ LibNum(C) \in LibNums
  BY DEF IsChain
<1>2. Num[C.root] <= Num[C.head] /\ Num[C.root] \in Nat \ {0} /\ Num[C.head] \in Nat \ {0}
  BY <1>1, AncestorsOrdered, NumbersOfBlock
<1> QED
  BY <1>1, <1>2 DEF LibNum, HeadNum

\* A block of every number up to the head's is at hand.
LEMMA BlockAtNumber ==
  ASSUME NEW C, IsChain(C), NEW n \in 1..HeadNum(C)
  PROVE  BlockAt(C, n) \in C.blocks /\ BlockAt(C, n) \in Blocks /\ Num[BlockAt(C, n)] = n
<1>1. C.head \in Blocks /\ C.head \in C.blocks /\ C.blocks \in SUBSET Blocks
      /\ ClosedUnderPrev(C.blocks)
  BY DEF IsChain
<1>2. Ancestors[C.head] \subseteq C.blocks
  BY <1>1, AncestorsLeast
<1> QED
  BY <1>1, <1>2, AncestorAtNumber DEF BlockAt, HeadNum

\* Where longer branches are preferred a block becomes the head of a chain unless
\* the head is as high.
LEMMA PreferredIsHigher ==
  ASSUME LongerIsPreferred, NEW a \in Blocks, NEW b \in Blocks
  PROVE  /\ first_preferred(a, b) => Num[b] <= Num[a]
         /\ ~ first_preferred(a, b) => Num[a] <= Num[b]
<1>1. Num[a] \in Nat /\ Num[b] \in Nat /\ Lib[a] \in Nat /\ Lib[b] \in Nat
  BY NumbersOfBlock
<1>2. (Num[a] > Num[b] => Lib[a] >= Lib[b]) /\ (Num[b] > Num[a] => Lib[b] >= Lib[a])
  BY DEF LongerIsPreferred
<1> QED
  BY <1>1, <1>2 DEF first_preferred

\* Accepting a block leads from a chain to a chain, whose head is the one there was
\* or the new block: what is removed does not descend from the last irreversible
\* block, the head does.
LEMMA AcceptedIsChain ==
  ASSUME NEW C, IsChain(C), NEW b \in Blocks, Linkable(C, b)
  PROVE  /\ IsChain(Accepted(C, b))
         /\ LongerIsPreferred => /\ Num[b] <= HeadNum(Accepted(C, b))
                                 /\ HeadNum(C) <= HeadNum(Accepted(C, b))
<1>1. PICK T : T = C.blocks \cup {b}
  OBVIOUS
<1>2. PICK h : h = IF first_preferred(b, C.head) THEN b ELSE C.head
  OBVIOUS
<1>3. PICK root : root = IF Lib[h] > LibNum(C) THEN AncestorAt(h, Lib[h]) ELSE C.root
  OBVIOUS
<1>4. PICK A : A = Accepted(C, b)
  OBVIOUS
<1>5. A = [blocks |-> Ancestors[root] \cup DescendantsIn(T, root), head |-> h, root |-> root]
  BY <1>1, <1>2, <1>3, <1>4 DEF Accepted
<1>6. /\ C.blocks \in SUBSET Blocks /\ C.head \in Blocks /\ C.head \in C.blocks /\ C.root \in Blocks
      /\ ClosedUnderPrev(C.blocks) /\ C.root \in Ancestors[C.head] /\ LibNum(C) \in LibNums
      /\ LongerIsPreferred => \A x \in C.blocks : Num[x] <= Num[C.head]
  BY DEF IsChain, HeadNum
<1>7. T \in SUBSET Blocks /\ ClosedUnderPrev(T) /\ h \in T /\ h \in Blocks
  <2>1. T \in SUBSET Blocks /\ h \in T
    BY <1>1, <1>2, <1>6
  <2>2. ClosedUnderPrev(T)
    BY <1>1, <1>6 DEF Linkable, ClosedUnderPrev
  <2> QED
    BY <2>1, <2>2
<1>8. C.root \in Ancestors[h]
  <2>1. CASE h = C.head
    BY <1>6, <2>1
  <2>2. CASE h = b
    <3>1. Prev[b] \in C.blocks /\ C.root \in Ancestors[Prev[b]]
      BY DEF Linkable
    <3>2. Prev[b] \in Ancestors[b]
      BY <1>6, <3>1, AncestorsOfBlock, AncestorsClosed DEF ClosedUnderPrev
    <3> QED
      BY <2>2, <3>1, <3>2, AncestorsTransitive
  <2> QED
    BY <1>2, <2>1, <2>2
<1>9. root \in Ancestors[h] /\ Num[root] \in LibNums
  <2>1. Lib[h] \in Nat /\ Lib[h] < Num[h] /\ Num[h] \in Nat /\ LibNum(C) \in Nat \ {0}
    BY <1>6, <1>7, NumbersOfBlock, LibNumsAreNumbers
  <2>2. CASE Lib[h] > LibNum(C)
    <3>1. Lib[h] \in 1..Num[h]
      BY <2>1, <2>2
    <3>2. root \in Ancestors[h] /\ Num[root] = Lib[h]
      BY <1>3, <1>7, <2>2, <3>1, AncestorAtNumber
    <3>3. Max({Lib[h], 1}) = Lib[h]
      BY <2>1, <2>2, MaxOfTwo
    <3>4. Lib[h] = LibNum(Branch(h))
      BY <1>7, <3>3, LibOfBranch
    <3> QED
      BY <1>7, <3>2, <3>4 DEF LibNums
  <2>3. CASE ~ (Lib[h] > LibNum(C))
    BY <1>3, <1>6, <1>8, <2>3 DEF LibNum
  <2> QED
    BY <2>2, <2>3
<1>10. Ancestors[h] \subseteq T /\ root \in T /\ root \in Blocks
  BY <1>7, <1>9, AncestorsLeast
<1>11. A.blocks = Ancestors[root] \cup DescendantsIn(T, root) /\ A.head = h /\ A.root = root
  BY <1>5
<1>12. A.blocks \subseteq T
  BY <1>7, <1>10, <1>11, AncestorsLeast DEF DescendantsIn
<1>13. ClosedUnderPrev(A.blocks)
  <2>1. SUFFICES ASSUME NEW x \in A.blocks, Prev[x] \in Blocks PROVE Prev[x] \in A.blocks
    BY DEF ClosedUnderPrev
  <2>2. x \in Blocks /\ Prev[x] \in T
    BY <1>7, <1>12, <2>1 DEF ClosedUnderPrev
  <2>3. CASE x \in Ancestors[root]
    BY <1>10, <1>11, <2>1, <2>3, AncestorsClosed DEF ClosedUnderPrev
  <2>4. CASE root \in Ancestors[x] /\ x # root
    BY <1>11, <2>2, <2>4, AncestorsSplit DEF DescendantsIn
  <2> QED
    BY <1>10, <1>11, <2>1, <2>3, <2>4, AncestorsOfBlock DEF DescendantsIn
<1>14. h \in A.blocks
  BY <1>7, <1>9, <1>11 DEF DescendantsIn
<1>15. LongerIsPreferred => Num[b] <= Num[h] /\ Num[C.head] <= Num[h]
  BY <1>2, <1>6, PreferredIsHigher, NumbersOfBlock
<1>16. LongerIsPreferred => \A x \in T : Num[x] <= Num[h]
  <2>1. SUFFICES ASSUME LongerIsPreferred, NEW x \in C.blocks PROVE Num[x] <= Num[h]
    BY <1>1, <1>15
  <2>2. Num[x] <= Num[C.head] /\ Num[C.head] <= Num[h]
    BY <1>6, <1>15, <2>1
  <2> QED
    BY <1>6, <1>7, <2>2, NumbersOfBlock
<1>17. IsChain(A)
  <2>1. A \in [blocks : SUBSET Blocks, head : Blocks, root : Blocks]
    BY <1>5, <1>7, <1>10, <1>11, <1>12
  <2> QED
    BY <1>9, <1>11, <1>12, <1>13, <1>14, <1>16, <2>1 DEF IsChain, LibNum, HeadNum
<1> QED
  BY <1>4, <1>11, <1>15, <1>17 DEF HeadNum

-----------------------------------------------------------------------------
(***************************************************************************)
(* The messages, and the state of a peer's end of a connection.            *)
(***************************************************************************)
Notices ==
       [type : {"handshake"}, head : Blocks, lib : LibNums, lib_id : Blocks]
  \cup [type : {"last_irr_catch_up"}, lib : LibNums]
  \cup [type : {"catch_up"}, head : Blocks]
  \cup [type : {"request"}, mode : {"none", "catch_up"}]

\* What a peer sends to the node.
Sent == Notices \cup [type : {"block"}, block : Blocks] \cup {GoAway}

\* What the node sends to a peer.
Asked ==
       Notices
  \cup [type : {"sync_request"}, start : Nat \ {0}, end : Nat]
  \cup {SyncRequest(0, 0)}

Chains == {C \in [blocks : SUBSET Blocks, head : Blocks, root : Blocks] : IsChain(C)}

Sessions ==
  [chain : Chains, greeted : BOOLEAN, syncing : BOOLEAN, node_lib : Nat, node_lib_id : Nat,
   requested : {<<>>} \cup {<<r>> : r \in [last : Nat, end : Nat]},
   sync_queue : Seq(Sent), queue : Seq(Sent), writing : BOOLEAN, wire : Seq(Sent)]

\* A chain is one.
LEMMA ChainsAre ==
  ASSUME NEW C
  PROVE  C \in Chains <=> IsChain(C)
BY DEF Chains, IsChain

\* The messages a node or peer makes of its chain.
LEMMA MessagesOfChain ==
  ASSUME NEW S, IsChain(S)
  PROVE  /\ Handshake(S) \in Notices /\ LibNotice(S) \in Notices /\ HeadNotice(S) \in Notices
         /\ BranchRequest("none") \in Notices /\ BranchRequest("catch_up") \in Notices
BY ChainNumbers DEF Notices, Handshake, LibNotice, HeadNotice, BranchRequest

\* What is queued is written.
LEMMA WriteKeepsSession ==
  ASSUME NEW s \in Sessions
  PROVE  do_queue_write(s) \in Sessions /\ do_queue_write(s).chain = s.chain
<1> DEFINE w == s.wire \o s.sync_queue
           v == s.wire \o s.queue
           u == s.wire \o s.sync_queue \o s.queue
<1>1. w \in Seq(Sent) /\ v \in Seq(Sent) /\ u \in Seq(Sent) /\ <<>> \in Seq(Sent)
  BY DEF Sessions
<1> QED
  BY <1>1 DEF do_queue_write, Sessions

\* A message is queued.
LEMMA EnqueueKeepsSession ==
  ASSUME NEW s \in Sessions, NEW m \in Sent
  PROVE  PeerEnqueue(s, m) \in Sessions /\ PeerEnqueue(s, m).chain = s.chain
<1> DEFINE t == [s EXCEPT !.queue = Append(@, m)]
<1>1. Append(s.queue, m) \in Seq(Sent)
  BY DEF Sessions
<1>2. t \in Sessions /\ t.chain = s.chain
  BY <1>1 DEF Sessions
<1> HIDE DEF t
<1>3. do_queue_write(t) \in Sessions /\ do_queue_write(t).chain = s.chain
  BY <1>2, WriteKeepsSession
<1> QED
  BY <1>3 DEF PeerEnqueue, t

\* The next block of a range is queued, if the chain reaches it.
LEMMA NextBlockKeepsSession ==
  ASSUME NEW s \in Sessions
  PROVE  enqueue_sync_block(s) \in Sessions
<1>1. CASE s.requested = <<>>
  BY <1>1 DEF enqueue_sync_block
<1>2. CASE s.requested # <<>>
  <2>1. PICK r \in [last : Nat, end : Nat] : s.requested = <<r>>
    BY <1>2 DEF Sessions
  <2> DEFINE n == r.last + 1
             req == IF n = r.end THEN <<>> ELSE <<[r EXCEPT !.last = n]>>
             que == IF n > HeadNum(s.chain) THEN s.sync_queue
                    ELSE Append(s.sync_queue, BlockMessage(BlockAt(s.chain, n)))
  <2>2. n \in Nat \ {0}
    BY <2>1
  <2>3. req \in {<<>>} \cup {<<q>> : q \in [last : Nat, end : Nat]}
    <3>1. PICK q : q = [r EXCEPT !.last = n]
      OBVIOUS
    <3>2. q \in [last : Nat, end : Nat]
      BY <2>1, <2>2, <3>1
    <3> QED
      BY <3>1, <3>2
  <2>4. IsChain(s.chain) /\ s.sync_queue \in Seq(Sent)
    BY ChainsAre DEF Sessions
  <2>5. que \in Seq(Sent)
    <3>1. CASE n > HeadNum(s.chain)
      BY <2>4, <3>1
    <3>2. CASE n <= HeadNum(s.chain)
      <4>1. HeadNum(s.chain) \in Nat
        BY <2>4, ChainNumbers
      <4>2. BlockAt(s.chain, n) \in Blocks
        BY <2>2, <2>4, <3>2, <4>1, BlockAtNumber
      <4>3. BlockMessage(BlockAt(s.chain, n)) \in Sent
        BY <4>2 DEF BlockMessage, Sent
      <4> QED
        BY <2>4, <3>2, <4>1, <4>3
    <3> QED
      BY <2>2, <2>4, <3>1, <3>2, ChainNumbers
  <2>6. enqueue_sync_block(s) = [s EXCEPT !.requested = req, !.sync_queue = que]
    BY <1>2, <2>1 DEF enqueue_sync_block
  <2> HIDE DEF req, que
  <2> QED
    BY <2>3, <2>5, <2>6 DEF Sessions
<1> QED
  BY <1>1, <1>2

\* A range is begun.
LEMMA ServeKeepsSession ==
  ASSUME NEW s \in Sessions, NEW first \in Nat \ {0}, NEW last \in Nat
  PROVE  Serve(s, first, last) \in Sessions
<1> DEFINE r == [last |-> first - 1, end |-> last]
           t == [s EXCEPT !.requested = <<r>>]
<1>1. r \in [last : Nat, end : Nat]
  OBVIOUS
<1>2. t \in Sessions
  <2> HIDE DEF r
  <2>1. <<r>> \in {<<q>> : q \in [last : Nat, end : Nat]}
    BY <1>1
  <2> QED
    BY <2>1 DEF Sessions
<1>3. Serve(s, first, last) = do_queue_write(enqueue_sync_block(t))
  BY DEF Serve
<1> HIDE DEF t
<1> QED
  BY <1>2, <1>3, NextBlockKeepsSession, WriteKeepsSession

\* What a peer does with a message of the node.
LEMMA HandshakeKeepsSession ==
  ASSUME NEW s \in Sessions, NEW msg \in Notices, msg.type = "handshake"
  PROVE  PeerHandshake(s, msg) \in Sessions
<1> DEFINE g == IF s.greeted THEN s ELSE PeerEnqueue(s, Handshake(s.chain))
           m == [g EXCEPT !.greeted = TRUE, !.node_lib = msg.lib, !.node_lib_id = Num[msg.lib_id],
                           !.syncing = FALSE]
           y == [m EXCEPT !.syncing = TRUE]
           told == PeerEnqueue(y, HeadNotice(s.chain))
<1>1. IsChain(s.chain) /\ msg.lib \in Nat /\ Num[msg.lib_id] \in Nat
  <2>1. s.chain \in Chains /\ msg.lib \in LibNums /\ msg.lib_id \in Blocks
    BY DEF Sessions, Notices
  <2> QED
    BY <2>1, ChainsAre, LibNumsAreNumbers, NumbersOfBlock
<1>2. /\ Handshake(s.chain) \in Sent /\ LibNotice(s.chain) \in Sent
      /\ HeadNotice(s.chain) \in Sent /\ BranchRequest("catch_up") \in Sent
      /\ GoAway \in Sent
  BY <1>1, MessagesOfChain DEF Sent
<1>3. g \in Sessions /\ PeerEnqueue(s, GoAway) \in Sessions
  BY <1>2, EnqueueKeepsSession
<1>4. m \in Sessions /\ y \in Sessions
  <2> HIDE DEF g
  <2> QED
    BY <1>1, <1>3 DEF Sessions
<1> HIDE DEF m, y
<1>5. told \in Sessions
  BY <1>2, <1>4, EnqueueKeepsSession
<1>6. /\ PeerEnqueue(y, LibNotice(s.chain)) \in Sessions
      /\ PeerEnqueue(m, BranchRequest("catch_up")) \in Sessions
      /\ PeerEnqueue(told, BranchRequest("catch_up")) \in Sessions
  <2> HIDE DEF told
  <2> QED
    BY <1>2, <1>4, <1>5, EnqueueKeepsSession
<1>7. PeerHandshake(s, msg) \in
        {m, told, PeerEnqueue(s, GoAway), PeerEnqueue(y, LibNotice(s.chain)),
         PeerEnqueue(m, BranchRequest("catch_up")), PeerEnqueue(told, BranchRequest("catch_up"))}
  BY DEF PeerHandshake, m, y
<1> HIDE DEF told
<1> QED
  BY <1>3, <1>4, <1>5, <1>6, <1>7

\* A peer handles a notice of the node.
LEMMA NoticeKeepsSession ==
  ASSUME NEW s \in Sessions, NEW msg \in Notices, msg.type \in {"last_irr_catch_up", "catch_up"}
  PROVE  PeerNotice(s, msg) \in Sessions
<1>1. IsChain(s.chain)
  BY ChainsAre DEF Sessions
<1>2. Handshake(s.chain) \in Sent /\ BranchRequest("catch_up") \in Sent
  BY <1>1, MessagesOfChain DEF Sent
<1>3. /\ PeerEnqueue(s, Handshake(s.chain)) \in Sessions
      /\ PeerEnqueue(s, BranchRequest("catch_up")) \in Sessions
  BY <1>2, EnqueueKeepsSession
<1>4. CASE msg.type = "last_irr_catch_up"
  <2>1. msg.lib \in Nat
    BY <1>4, LibNumsAreNumbers DEF Notices
  <2> QED
    BY <1>4, <2>1 DEF PeerNotice, Sessions
<1> QED
  BY <1>3, <1>4 DEF PeerNotice

\* A peer sends its branch.
LEMMA BranchKeepsSession ==
  ASSUME NEW s \in Sessions
  PROVE  blk_send_branch(s) \in Sessions
<1> DEFINE first == IF s.requested = <<>> THEN s.node_lib_id + 1
                    ELSE Min({s.requested[1].last + 1, s.node_lib_id + 1})
           last == IF s.requested = <<>> THEN HeadNum(s.chain)
                   ELSE Max({s.requested[1].end, HeadNum(s.chain)})
           m == [s EXCEPT !.syncing = FALSE]
<1>1. m \in Sessions /\ [m EXCEPT !.requested = <<>>] \in Sessions
  BY DEF Sessions
<1>2. s.node_lib_id \in Nat /\ HeadNum(s.chain) \in Nat
  BY ChainsAre, ChainNumbers DEF Sessions
<1>3. first \in Nat \ {0} /\ last \in Nat
  <2>1. CASE s.requested = <<>>
    BY <1>2, <2>1
  <2>2. CASE s.requested # <<>>
    <3>1. PICK r \in [last : Nat, end : Nat] : s.requested = <<r>>
      BY <2>2 DEF Sessions
    <3>2. s.requested[1].last \in Nat /\ s.requested[1].end \in Nat
      BY <3>1
    <3>3. PICK x : x = s.requested[1].last + 1
      OBVIOUS
    <3>4. PICK y : y = s.node_lib_id + 1
      OBVIOUS
    <3>5. Min({x, y}) \in Nat \ {0}
      BY <1>2, <3>2, <3>3, <3>4, MinOfTwo
    <3>6. Max({s.requested[1].end, HeadNum(s.chain)}) \in Nat
      BY <1>2, <3>2, MaxOfTwo
    <3> QED
      BY <2>2, <3>3, <3>4, <3>5, <3>6
  <2> QED
    BY <2>1, <2>2
<1>4. blk_send_branch(s) = IF first <= last THEN Serve(m, first, last)
                           ELSE [m EXCEPT !.requested = <<>>]
  BY DEF blk_send_branch
<1> HIDE DEF first, last, m
<1> QED
  BY <1>1, <1>3, <1>4, ServeKeepsSession

\* A peer handles any message of the node.
LEMMA HandleKeepsSession ==
  ASSUME NEW s \in Sessions, NEW msg \in Asked
  PROVE  PeerHandle(s, msg) \in Sessions
<1>1. CASE msg.type = "handshake"
  <2>1. msg \in Notices
    BY <1>1 DEF Asked, SyncRequest
  <2> QED
    BY <1>1, <2>1, HandshakeKeepsSession DEF PeerHandle
<1>2. CASE msg.type \in {"last_irr_catch_up", "catch_up"}
  <2>1. msg \in Notices
    BY <1>2 DEF Asked, SyncRequest
  <2> QED
    BY <1>2, <2>1, NoticeKeepsSession DEF PeerHandle
<1>3. CASE msg.type = "request"
  <2>1. [s EXCEPT !.syncing = FALSE] \in Sessions
    BY DEF Sessions
  <2>2. PeerHandle(s, msg) \in {blk_send_branch(s), [s EXCEPT !.syncing = FALSE]}
    BY <1>3 DEF PeerHandle
  <2> QED
    BY <2>1, <2>2, BranchKeepsSession
<1>4. CASE msg.type = "sync_request"
  <2>1. msg.end = 0 \/ (msg.start \in Nat \ {0} /\ msg.end \in Nat)
    BY <1>4 DEF Asked, Notices, SyncRequest
  <2>2. [s EXCEPT !.requested = <<>>, !.sync_queue = <<>>, !.queue = <<>>] \in Sessions
    <3>1. <<>> \in Seq(Sent)
      OBVIOUS
    <3> QED
      BY <3>1 DEF Sessions
  <2>3. PeerHandle(s, msg) = PeerSyncRequest(s, msg)
    BY <1>4 DEF PeerHandle
  <2> QED
    BY <2>1, <2>2, <2>3, ServeKeepsSession DEF PeerSyncRequest
<1>5. msg.type \in {"handshake", "last_irr_catch_up", "catch_up", "request", "sync_request"}
  BY DEF Asked, Notices, SyncRequest
<1> QED
  BY <1>1, <1>2, <1>3, <1>4, <1>5

\* A peer broadcasts a block.
LEMMA BroadcastKeepsSession ==
  ASSUME NEW s \in Sessions, NEW b \in Blocks
  PROVE  bcast_block(s, b) \in Sessions /\ bcast_block(s, b).chain = s.chain
<1>1. BlockMessage(b) \in Sent
  BY DEF BlockMessage, Sent
<1> QED
  BY <1>1, EnqueueKeepsSession DEF bcast_block

-----------------------------------------------------------------------------
(***************************************************************************)
(* A peer handles the messages of a step in order.  FoldLeft recurs over   *)
(* sets of places; that its recursion has a value, and that it keeps the   *)
(* type of a session, is shown for a smallest counterexample.              *)
(***************************************************************************)
\* g has the session after the messages at each set of places within D.
Handles(g, s, msgs, D) ==
  g = [r \in SUBSET D |-> IF r = {} THEN s ELSE PeerHandle(g[r \ {Max(r)}], msgs[Max(r)])]

\* FoldLeft is the value of such a function for all the places.
LEMMA FoldIs ==
  ASSUME NEW s, NEW msgs
  PROVE  FoldLeft(PeerHandle, s, msgs)
           = (CHOOSE g : Handles(g, s, msgs, DOMAIN msgs))[DOMAIN msgs]
  BY DEF FoldLeft, MapThenFoldSet, Handles

\* Some places of a sequence.
Places(D) == \E n \in Nat : D \subseteq 1..n

\* Some places have a last one.
LEMMA LastPlace ==
  ASSUME NEW r, Places(r), r # {}
  PROVE  Max(r) \in r
<1>0. PICK n \in Nat : r \subseteq 1..n
  BY DEF Places
<1> DEFINE d == {n - k : k \in r}
<1>1. d \in SUBSET Nat /\ d # {}
  <2>1. ASSUME NEW k \in r PROVE n - k \in Nat
    BY <1>0, <2>1
  <2> QED
    BY <2>1
<1>2. PICK m \in d : \A k \in d : m <= k
  <2> HIDE DEF d
  <2> QED
    BY <1>1, SmallestNumber
<1>3. PICK x \in r : m = n - x
  BY <1>2
<1>4. ASSUME NEW y \in r PROVE x >= y
  <2>1. n - y \in d
    BY <1>4
  <2>2. m <= n - y
    BY <1>2, <2>1
  <2> QED
    BY <1>0, <1>3, <1>4, <2>2
<1> QED
  BY <1>3, <1>4 DEF Max

\* Sets of places are finite, and their subsets are such sets.
LEMMA PlacesFinite ==
  ASSUME NEW D, Places(D)
  PROVE  IsFiniteSet(D) /\ \A r \in SUBSET D : Places(r)
<1>1. PICK n \in Nat : D \subseteq 1..n
  BY DEF Places
<1>2. IsFiniteSet(1..n)
  BY FS_Interval
<1>3. IsFiniteSet(D)
  BY <1>1, <1>2, FS_Subset
<1> QED
  BY <1>1, <1>3 DEF Places

\* The recursion of such a function.
LEMMA HandlesStep ==
  ASSUME NEW g, NEW s, NEW msgs, NEW D, Handles(g, s, msgs, D), NEW r \in SUBSET D
  PROVE  /\ r = {} => g[r] = s
         /\ r # {} => g[r] = PeerHandle(g[r \ {Max(r)}], msgs[Max(r)])
<1>1. g[r] = IF r = {} THEN s ELSE PeerHandle(g[r \ {Max(r)}], msgs[Max(r)])
  <2>1. PICK h : h = [q \in SUBSET D |-> IF q = {} THEN s
                                          ELSE PeerHandle(g[q \ {Max(q)}], msgs[Max(q)])]
    OBVIOUS
  <2>2. g = h
    BY <2>1 DEF Handles
  <2>3. h[r] = IF r = {} THEN s ELSE PeerHandle(g[r \ {Max(r)}], msgs[Max(r)])
    BY <2>1
  <2> QED
    BY <2>2, <2>3
<1> QED
  BY <1>1

\* The last of the messages is handled last.
LEMMA HandlesLast ==
  ASSUME NEW g, NEW s, NEW msgs, NEW D, Handles(g, s, msgs, D), NEW r \in SUBSET D, r # {},
         NEW q, q = r \ {Max(r)}
  PROVE  g[r] = PeerHandle(g[q], msgs[Max(r)])
<1>1. g[r] = PeerHandle(g[r \ {Max(r)}], msgs[Max(r)])
  BY HandlesStep
<1> QED
  BY <1>1

\* Two such functions agree where both are defined.
LEMMA HandlesAgree ==
  ASSUME NEW s, NEW msgs, NEW D, NEW E, NEW g, Handles(g, s, msgs, D),
         NEW h, Handles(h, s, msgs, E), NEW t \in SUBSET D, t \in SUBSET E, Places(t)
  PROVE  g[t] = h[t]
<1> DEFINE B == {r \in SUBSET t : g[r] # h[r]}
<1>1. SUFFICES ASSUME B # {} PROVE FALSE
  OBVIOUS
<1>2. PICK r \in B : \A q \in B : q \subseteq r => q = r
  <2>1. IsFiniteSet(t)
    BY PlacesFinite
  <2> HIDE DEF B
  <2>2. B \in SUBSET SUBSET t
    BY DEF B
  <2> QED
    BY <1>1, <2>1, <2>2, SmallestSubset
<1>3. r \in SUBSET D /\ r \in SUBSET E /\ g[r] # h[r] /\ r \in SUBSET t
  OBVIOUS
<1>4. r # {}
  BY <1>3, HandlesStep
<1>5. Max(r) \in r
  BY <1>3, <1>4, PlacesFinite, LastPlace
<1>6. PICK q : q = r \ {Max(r)}
  OBVIOUS
<1>7. q \notin B /\ q \in SUBSET t
  BY <1>2, <1>3, <1>5, <1>6
<1>8. g[q] = h[q]
  BY <1>7
<1>9. /\ g[r] = PeerHandle(g[q], msgs[Max(r)])
      /\ h[r] = PeerHandle(h[q], msgs[Max(r)])
  <2>1. /\ g[r] = PeerHandle(g[r \ {Max(r)}], msgs[Max(r)])
        /\ h[r] = PeerHandle(h[r \ {Max(r)}], msgs[Max(r)])
    BY <1>3, <1>4, HandlesStep
  <2> QED
    BY <1>6, <2>1
<1> QED
  BY <1>3, <1>8, <1>9

\* There is such a function.
LEMMA HandlesExist ==
  ASSUME NEW s, NEW msgs, NEW D, Places(D)
  PROVE  \E g : Handles(g, s, msgs, D)
<1> DEFINE B == {T \in SUBSET D : ~ \E g : Handles(g, s, msgs, T)}
<1>1. SUFFICES ASSUME B # {} PROVE FALSE
  OBVIOUS
<1>2. PICK T \in B : \A U \in B : U \subseteq T => U = T
  <2>1. IsFiniteSet(D)
    BY PlacesFinite
  <2> HIDE DEF B
  <2>2. B \in SUBSET SUBSET D
    BY DEF B
  <2> QED
    BY <1>1, <2>1, <2>2, SmallestSubset
<1>3. T \in SUBSET D /\ ~ \E g : Handles(g, s, msgs, T)
  OBVIOUS
<1> DEFINE Of(U) == CHOOSE g : Handles(g, s, msgs, U)
<1>4. ASSUME NEW U \in SUBSET T, U # T PROVE Handles(Of(U), s, msgs, U)
  <2>1. U \notin B /\ U \in SUBSET D
    BY <1>2, <1>3, <1>4
  <2> QED
    BY <2>1
<1> DEFINE val == [U \in SUBSET T |-> Of(U)[U]]
           g == [U \in SUBSET T |-> IF U = {} THEN s
                                    ELSE PeerHandle(val[U \ {Max(U)}], msgs[Max(U)])]
<1>5. ASSUME NEW U \in SUBSET T, U # {} PROVE Max(U) \in U
  BY <1>3, <1>5, PlacesFinite, LastPlace
<1>6. ASSUME NEW U \in SUBSET T, U # T PROVE g[U] = val[U]
  <2>1. Handles(Of(U), s, msgs, U) /\ U \in SUBSET D
    BY <1>3, <1>4, <1>6
  <2>2. CASE U = {}
    <3>1. Of(U)[U] = s
      <4> HIDE DEF Of
      <4> QED
        BY <2>1, <2>2, HandlesStep
    <3> QED
      BY <2>2, <3>1
  <2>3. CASE U # {}
    <3>1. PICK V : V = U \ {Max(U)}
      OBVIOUS
    <3>2. V \in SUBSET U /\ V \in SUBSET T /\ V # T /\ Places(V)
      BY <1>3, <1>5, <1>6, <2>1, <2>3, <3>1, PlacesFinite
    <3>3. Handles(Of(V), s, msgs, V)
      BY <1>4, <3>2
    <3>4. Of(U)[V] = Of(V)[V]
      <4> HIDE DEF Of
      <4> QED
        BY <2>1, <3>2, <3>3, HandlesAgree
    <3>5. Of(U)[U] = PeerHandle(Of(U)[V], msgs[Max(U)])
      <4> HIDE DEF Of
      <4>1. Of(U)[U] = PeerHandle(Of(U)[U \ {Max(U)}], msgs[Max(U)])
        BY <2>1, <2>3, HandlesStep
      <4> QED
        BY <3>1, <4>1
    <3>6. val[U] = PeerHandle(val[V], msgs[Max(U)])
      <4> HIDE DEF Of
      <4> QED
        BY <3>2, <3>4, <3>5
    <3> QED
      <4> HIDE DEF val
      <4> QED
        BY <2>3, <3>1, <3>6
  <2> QED
    BY <2>2, <2>3
<1>7. Handles(g, s, msgs, T)
  <2>1. ASSUME NEW U \in SUBSET T, U # {}
        PROVE  val[U \ {Max(U)}] = g[U \ {Max(U)}]
    <3>1. U \ {Max(U)} \in SUBSET T /\ U \ {Max(U)} # T
      BY <1>5, <2>1
    <3> HIDE DEF val, g
    <3> QED
      BY <1>6, <3>1
  <2>2. PICK h : h = g
    OBVIOUS
  <2>3. h = [U \in SUBSET T |-> IF U = {} THEN s
                                ELSE PeerHandle(h[U \ {Max(U)}], msgs[Max(U)])]
    <3>1. \A U \in SUBSET T : U # {} => val[U \ {Max(U)}] = h[U \ {Max(U)}]
      <4> HIDE DEF val, g
      <4> QED
        BY <2>1, <2>2
    <3>2. h = [U \in SUBSET T |-> IF U = {} THEN s
                                  ELSE PeerHandle(val[U \ {Max(U)}], msgs[Max(U)])]
      BY <2>2
    <3> HIDE DEF val, g
    <3> QED
      BY <3>1, <3>2
  <2> HIDE DEF g
  <2> QED
    BY <2>2, <2>3 DEF Handles
<1> HIDE DEF g
<1> QED
  BY <1>3, <1>7

\* A session stays one through all messages of a step.
LEMMA FoldKeepsSession ==
  ASSUME NEW s \in Sessions, NEW msgs \in Seq(Asked)
  PROVE  FoldLeft(PeerHandle, s, msgs) \in Sessions
<1>1. PICK D : D = DOMAIN msgs
  OBVIOUS
<1>2. Places(D)
  BY <1>1 DEF Places
<1>3. PICK g : Handles(g, s, msgs, D) /\ FoldLeft(PeerHandle, s, msgs) = g[D]
  <2>1. Handles(CHOOSE g : Handles(g, s, msgs, D), s, msgs, D)
    BY <1>2, HandlesExist
  <2> QED
    BY <1>1, <2>1, FoldIs
<1> DEFINE B == {r \in SUBSET D : g[r] \notin Sessions}
<1>4. SUFFICES ASSUME B # {} PROVE FALSE
  BY <1>3
<1>5. PICK r \in B : \A q \in B : q \subseteq r => q = r
  <2>1. IsFiniteSet(D)
    BY <1>2, PlacesFinite
  <2> HIDE DEF B
  <2>2. B \in SUBSET SUBSET D
    BY DEF B
  <2> QED
    BY <1>4, <2>1, <2>2, SmallestSubset
<1>6. r \in SUBSET D /\ g[r] \notin Sessions
  OBVIOUS
<1>7. r # {}
  BY <1>3, <1>6, HandlesStep
<1>8. Max(r) \in r
  BY <1>2, <1>6, <1>7, PlacesFinite, LastPlace
<1>9. PICK q : q = r \ {Max(r)}
  OBVIOUS
<1>10. q \notin B /\ q \in SUBSET D
  BY <1>5, <1>6, <1>8, <1>9
<1>11. g[q] \in Sessions
  BY <1>10
<1>12. msgs[Max(r)] \in Asked
  <2>1. PICK x : x = Max(r)
    OBVIOUS
  <2>2. x \in DOMAIN msgs
    BY <1>1, <1>6, <1>8, <2>1
  <2>3. msgs[x] \in Asked
    BY <2>2
  <2> QED
    BY <2>1, <2>3
<1>13. g[r] = PeerHandle(g[q], msgs[Max(r)])
  <2> HIDE DEF B
  <2>1. Handles(g, s, msgs, D) /\ r \in SUBSET D /\ r # {}
    BY <1>3, <1>6, <1>7
  <2> QED
    BY <1>9, <2>1, HandlesLast
<1> QED
  BY <1>6, <1>11, <1>12, <1>13, HandleKeepsSession

-----------------------------------------------------------------------------
(***************************************************************************)
(* The node.  NodeOK is the invariant, stated about a state of the node    *)
(* and not about the variable, since a handler passes through states that  *)
(* no step leaves.                                                         *)
(***************************************************************************)
Conns ==
  [open : BOOLEAN, connecting : BOOLEAN, syncing : BOOLEAN, lib : {0} \cup LibNums,
   fork_head : Blocks \cup {NoBlock}, timer : BOOLEAN, expired : BOOLEAN,
   no_retry : BOOLEAN]

Nodes ==
  [chain : Chains,
   stage : {"in_sync", "lib_catchup", "head_catchup"},
   known_lib : {0} \cup LibNums, last_requested : Nat,
   next_expected : {1} \cup {Num[b] + 1 : b \in Blocks},
   source : Peers \cup {NoPeer}, conn : [Peers -> Conns], out : [Peers -> Seq(Asked)]]

\* No range reaches past what is known to be irreversible.
InRange(n) ==
  /\ n.last_requested <= n.known_lib
  /\ n.stage = "lib_catchup" => n.next_expected <= n.known_lib

\* The blocks before the next one expected are there.
HasPrevious(n) ==
  n.stage = "lib_catchup" => 2 <= n.next_expected /\ n.next_expected <= HeadNum(n.chain) + 1

\* The range asked for has not been passed.
NotPassed(n) ==
  n.stage = "lib_catchup" => n.last_requested = 0 \/ n.next_expected <= n.last_requested

\* What the node has of the range asked for is no reason to wait for it.
Passed(n) == n.last_requested <= HeadNum(n.chain)

NodeOK(n) ==
  /\ n \in Nodes
  /\ InRange(n)
  /\ LongerIsPreferred => HasPrevious(n) /\ NotPassed(n)

\* Before the next range is asked for.
ReadyOK(n) ==
  /\ n \in Nodes
  /\ InRange(n)
  /\ LongerIsPreferred => HasPrevious(n) /\ (NotPassed(n) \/ Passed(n))

\* m differs from n at most in its connections, its source and what it sends.
SameSync(n, m) ==
  /\ m.chain = n.chain /\ m.stage = n.stage /\ m.known_lib = n.known_lib
  /\ m.last_requested = n.last_requested /\ m.next_expected = n.next_expected

\* Connections, the source and what is sent do not matter to NodeOK.
LEMMA SameSyncOK ==
  ASSUME NEW n, NodeOK(n), NEW m \in Nodes, SameSync(n, m)
  PROVE  NodeOK(m)
BY DEF NodeOK, SameSync, InRange, HasPrevious, NotPassed

\* The numbers of a node.
LEMMA NodeNumbers ==
  ASSUME NEW n \in Nodes
  PROVE  /\ n.known_lib \in Nat /\ n.last_requested \in Nat /\ n.next_expected \in Nat \ {0}
         /\ IsChain(n.chain) /\ HeadNum(n.chain) \in Nat \ {0}
         /\ LibNum(n.chain) \in LibNums /\ LibNum(n.chain) \in 1..HeadNum(n.chain)
<1>1. IsChain(n.chain)
  BY ChainsAre DEF Nodes
<1>2. n.next_expected \in Nat \ {0}
  <2>1. CASE n.next_expected = 1
    BY <2>1
  <2>2. CASE n.next_expected # 1
    <3>1. PICK b \in Blocks : n.next_expected = Num[b] + 1
      BY <2>2 DEF Nodes
    <3>2. Num[b] \in Nat
      BY NumbersOfBlock
    <3> QED
      BY <3>1, <3>2
  <2> QED
    BY <2>1, <2>2
<1>3. n.known_lib \in Nat /\ n.last_requested \in Nat
  <2>1. n.known_lib \in {0} \cup LibNums /\ n.last_requested \in Nat
    BY DEF Nodes
  <2>2. \A k \in {0} \cup LibNums : k \in Nat
    BY LibNumsAreNumbers
  <2> QED
    BY <2>1, <2>2
<1> QED
  BY <1>1, <1>2, <1>3, ChainNumbers

\* What is sent changes.
LEMMA OutOK ==
  ASSUME NEW n, NodeOK(n), NEW o \in [Peers -> Seq(Asked)]
  PROVE  NodeOK([n EXCEPT !.out = o])
<1>1. n \in Nodes
  BY DEF NodeOK
<1>2. PICK m : m = [n EXCEPT !.out = o]
  OBVIOUS
<1>3. m \in Nodes /\ SameSync(n, m)
  BY <1>1, <1>2 DEF Nodes, SameSync
<1> QED
  BY <1>2, <1>3, SameSyncOK

\* The connections change.
LEMMA ConnOK ==
  ASSUME NEW n, NodeOK(n), NEW k \in [Peers -> Conns]
  PROVE  NodeOK([n EXCEPT !.conn = k])
<1>1. n \in Nodes
  BY DEF NodeOK
<1>2. PICK m : m = [n EXCEPT !.conn = k]
  OBVIOUS
<1>3. m \in Nodes /\ SameSync(n, m)
  BY <1>1, <1>2 DEF Nodes, SameSync
<1> QED
  BY <1>2, <1>3, SameSyncOK

\* The source changes.
LEMMA SourceOK ==
  ASSUME NEW n, NodeOK(n), NEW s \in Peers \cup {NoPeer}
  PROVE  NodeOK([n EXCEPT !.source = s])
<1>1. n \in Nodes
  BY DEF NodeOK
<1>2. PICK m : m = [n EXCEPT !.source = s]
  OBVIOUS
<1>3. m \in Nodes /\ SameSync(n, m)
  BY <1>1, <1>2 DEF Nodes, SameSync
<1> QED
  BY <1>2, <1>3, SameSyncOK

\* A message is sent.
LEMMA EnqueueOK ==
  ASSUME NEW n, NodeOK(n), NEW p \in Peers, NEW msg \in Asked
  PROVE  NodeOK(enqueue(n, p, msg)) /\ SameSync(n, enqueue(n, p, msg))
<1>1. n \in Nodes
  BY DEF NodeOK
<1>2. PICK o : o = [n.out EXCEPT ![p] = Append(@, msg)]
  OBVIOUS
<1>3. o \in [Peers -> Seq(Asked)]
  BY <1>1, <1>2 DEF Nodes
<1>4. enqueue(n, p, msg) = [n EXCEPT !.out = o]
  BY <1>1, <1>2 DEF enqueue, Nodes
<1>5. SameSync(n, [n EXCEPT !.out = o])
  BY <1>1 DEF SameSync, Nodes
<1> QED
  BY <1>3, <1>4, <1>5, OutOK

\* Handshakes are sent.
LEMMA HandshakesOK ==
  ASSUME NEW n, NodeOK(n)
  PROVE  NodeOK(send_handshakes(n))
<1>1. n \in Nodes /\ IsChain(n.chain)
  BY ChainsAre DEF NodeOK, Nodes
<1>2. PICK h \in Asked : h = Handshake(n.chain)
  BY <1>1, MessagesOfChain DEF Asked
<1>3. PICK o : o = [p \in Peers |-> IF current(n, p) THEN Append(n.out[p], h) ELSE n.out[p]]
  OBVIOUS
<1>4. o \in [Peers -> Seq(Asked)]
  <2>1. ASSUME NEW p \in Peers PROVE n.out[p] \in Seq(Asked) /\ Append(n.out[p], h) \in Seq(Asked)
    BY <1>1, <1>2, <2>1 DEF Nodes
  <2> QED
    BY <1>3, <2>1
<1>5. send_handshakes(n) = [n EXCEPT !.out = o]
  BY <1>2, <1>3 DEF send_handshakes
<1> QED
  BY <1>4, <1>5, OutOK

\* The timer of a connection is armed, or cancelled.
LEMMA WaitOK ==
  ASSUME NEW n, NodeOK(n), NEW p \in Peers
  PROVE  NodeOK(sync_wait(n, p)) /\ NodeOK(cancel_wait(n, p))
<1>1. n \in Nodes
  BY DEF NodeOK
<1>2. PICK k : k = [n.conn EXCEPT ![p].timer = TRUE]
  OBVIOUS
<1>3. PICK j : j = [n.conn EXCEPT ![p].timer = FALSE]
  OBVIOUS
<1>4. n.conn \in [Peers -> Conns]
  BY <1>1 DEF Nodes
<1>5. k \in [Peers -> Conns] /\ j \in [Peers -> Conns]
  BY <1>2, <1>3, <1>4 DEF Conns
<1>6. sync_wait(n, p) = [n EXCEPT !.conn = k] /\ cancel_wait(n, p) = [n EXCEPT !.conn = j]
  BY <1>1, <1>2, <1>3 DEF sync_wait, cancel_wait, Nodes
<1> QED
  BY <1>5, <1>6, ConnOK

\* A range is asked for.
LEMMA RequestOK ==
  ASSUME NEW n, NodeOK(n), NEW p \in Peers, NEW first \in Nat \ {0}, NEW last \in Nat
  PROVE  NodeOK(request_sync_blocks(n, p, first, last))
<1>1. SyncRequest(first, last) \in Asked
  BY DEF SyncRequest, Asked
<1> QED
  BY <1>1, EnqueueOK, WaitOK DEF request_sync_blocks

\* A place in the turn of the connections is a connection.
LEMMA RingIsPeer ==
  ASSUME NEW s \in Nat, NEW k \in Nat
  PROVE  Ring(s, k) \in Peers
<1>1. NPeers \in Nat \ {0}
  BY NetSyncAssumption
<1>2. PICK x \in Int : x = s + k - 1
  OBVIOUS
<1>3. x % NPeers \in 0..(NPeers - 1)
  BY <1>1
<1> QED
  BY <1>1, <1>2, <1>3 DEF Ring, Peers

\* The source that is chosen is a connection.
LEMMA NextSourceIs ==
  ASSUME NEW n \in Nodes
  PROVE  NextSource(n) \in Peers \cup {NoPeer}
<1>1. NPeers \in Nat \ {0}
  BY NetSyncAssumption
<1>2. n.source \in Nat /\ n.source \in Peers \cup {NoPeer}
  BY <1>1 DEF Nodes, Peers, NoPeer
<1> DEFINE usable == {k \in Peers : current(n, Ring(n.source, k))}
<1>3. CASE usable = {}
  BY <1>1, <1>2, <1>3 DEF NextSource, Peers
<1>4. CASE usable # {}
  <2>1. usable \in SUBSET Nat
    BY <1>1 DEF Peers
  <2>2. PICK m \in usable : \A k \in usable : m <= k
    <3> HIDE DEF usable
    <3> QED
      BY <1>4, <2>1, SmallestNumber
  <2>3. Min(usable) \in usable
    <3> HIDE DEF usable
    <3> QED
      BY <2>2 DEF Min
  <2>4. Min(usable) \in Nat
    BY <2>1, <2>3
  <2>5. Ring(n.source, Min(usable)) \in Peers
    <3>1. PICK k \in Nat : k = Min(usable)
      BY <2>4
    <3> HIDE DEF usable
    <3>2. Ring(n.source, k) \in Peers
      BY <1>1, <1>2, RingIsPeer
    <3> QED
      BY <3>1, <3>2
  <2> QED
    BY <1>4, <2>5 DEF NextSource
<1> QED
  BY <1>3, <1>4

\* Asking for the next range leads from a state in which the last one may have
\* been passed to one in which it has not: the node waits only where the range
\* reaches beyond its head, and a new range starts at the next block expected.
LEMMA NextChunkOK ==
  ASSUME NEW n, ReadyOK(n), NEW c \in Peers \cup {NoPeer}
  PROVE  NodeOK(request_next_chunk(n, c))
<1>1. n \in Nodes /\ InRange(n)
  BY DEF ReadyOK
<1>2. PICK s \in Peers \cup {NoPeer} : s = IF c # NoPeer /\ current(n, c) THEN c ELSE NextSource(n)
  BY <1>1, NextSourceIs
<1>3. PICK m : m = [n EXCEPT !.source = s]
  OBVIOUS
<1>4. m \in Nodes /\ SameSync(n, m)
  BY <1>1, <1>3 DEF Nodes, SameSync
<1>5. PICK last : last = RangeEnd(n)
  OBVIOUS
<1>6. /\ n.known_lib \in Nat /\ n.last_requested \in Nat /\ n.next_expected \in Nat \ {0}
      /\ HeadNum(n.chain) \in Nat \ {0} /\ LibNum(n.chain) \in LibNums
  BY <1>1, NodeNumbers
<1>7. /\ last \in Nat /\ last <= n.known_lib
      /\ n.next_expected <= n.known_lib => n.next_expected <= last
  <2>1. PICK e \in Nat : e = n.next_expected + Span - 1 /\ n.next_expected <= e
    BY <1>6, NetSyncAssumption
  <2>2. PICK k \in Nat : k = n.known_lib
    BY <1>6
  <2>3. last = Min({e, k})
    BY <1>5, <2>1, <2>2 DEF RangeEnd
  <2>4. last \in {e, k} /\ last <= k
    BY <2>3, MinOfTwo
  <2> QED
    BY <1>6, <2>1, <2>2, <2>4
<1> DEFINE waiting == /\ HeadNum(n.chain) < n.last_requested
                      /\ n.source # NoPeer
                      /\ current(n, n.source)
           stopped == [m EXCEPT !.known_lib = LibNum(n.chain), !.last_requested = 0,
                                !.stage = "in_sync"]
           marked == [m EXCEPT !.last_requested = last]
           asked == request_sync_blocks(marked, s, n.next_expected, last)
           more == n.last_requested # n.known_lib /\ last >= n.next_expected
<1>8. request_next_chunk(n, c) = IF waiting THEN n
                                 ELSE IF s = NoPeer \/ ~ current(n, s) THEN stopped
                                 ELSE IF more THEN asked ELSE m
  BY <1>2, <1>3, <1>5 DEF request_next_chunk
<1>9. CASE waiting
  <2>1. ~ Passed(n)
    BY <1>6, <1>9 DEF Passed
  <2>2. NodeOK(n)
    BY <2>1 DEF ReadyOK, NodeOK
  <2> QED
    BY <1>8, <1>9, <2>2
<1>10. NodeOK(stopped)
  <2>1. PICK l \in LibNums : l = LibNum(n.chain)
    BY <1>6
  <2>2. l \in Nat
    BY LibNumsAreNumbers
  <2>3. PICK t : t = [m EXCEPT !.known_lib = l, !.last_requested = 0, !.stage = "in_sync"]
    OBVIOUS
  <2>4. t \in Nodes /\ t.stage = "in_sync" /\ t.last_requested = 0 /\ t.known_lib = l
    BY <1>4, <2>3 DEF Nodes
  <2>5. NodeOK(t)
    BY <2>2, <2>4 DEF NodeOK, InRange, HasPrevious, NotPassed
  <2> QED
    BY <2>1, <2>3, <2>5
<1>11. CASE ~ waiting /\ s # NoPeer /\ current(n, s) /\ more
  <2>1. PICK t : t = marked
    OBVIOUS
  <2>2. /\ t \in Nodes /\ t.stage = n.stage /\ t.last_requested = last /\ t.chain = n.chain
        /\ t.known_lib = n.known_lib /\ t.next_expected = n.next_expected
    BY <1>4, <1>7, <2>1 DEF Nodes, SameSync
  <2>3. NodeOK(t)
    <3>1. LongerIsPreferred => HasPrevious(t)
      BY <2>2 DEF ReadyOK, HasPrevious
    <3>2. InRange(t)
      BY <1>1, <1>7, <2>2 DEF InRange
    <3>3. NotPassed(t)
      BY <1>6, <1>7, <1>11, <2>2 DEF NotPassed
    <3> QED
      BY <2>2, <3>1, <3>2, <3>3 DEF NodeOK
  <2>4. s \in Peers
    BY <1>11
  <2>5. NodeOK(request_sync_blocks(t, s, n.next_expected, last))
    BY <1>6, <1>7, <2>3, <2>4, RequestOK
  <2> QED
    BY <1>8, <1>11, <2>1, <2>5
<1>12. CASE ~ waiting /\ s # NoPeer /\ current(n, s) /\ ~ more
  <2>1. NotPassed(n)
    <3>1. SUFFICES ASSUME n.stage = "lib_catchup" PROVE n.next_expected <= n.last_requested
      BY DEF NotPassed
    <3>2. n.next_expected <= n.known_lib
      BY <1>1, <3>1 DEF InRange
    <3>3. n.last_requested = n.known_lib
      BY <1>6, <1>7, <1>12, <3>2
    <3> QED
      BY <3>2, <3>3
  <2>2. NodeOK(n)
    BY <2>1 DEF ReadyOK, NodeOK
  <2>3. NodeOK(m)
    BY <1>4, <2>2, SameSyncOK
  <2> QED
    BY <1>8, <1>12, <2>3
<1> HIDE DEF waiting, stopped, asked, more
<1> QED
  BY <1>8, <1>9, <1>10, <1>11, <1>12

\* Every state of the node is ready to ask.
LEMMA IsReady ==
  ASSUME NEW n, NodeOK(n)
  PROVE  ReadyOK(n)
BY DEF NodeOK, ReadyOK

\* The range asked for is forgotten.
LEMMA ForgetOK ==
  ASSUME NEW n, NodeOK(n)
  PROVE  NodeOK([n EXCEPT !.last_requested = 0])
<1>1. n \in Nodes
  BY DEF NodeOK
<1>2. PICK m : m = [n EXCEPT !.last_requested = 0]
  OBVIOUS
<1>3. /\ m \in Nodes /\ m.last_requested = 0 /\ m.chain = n.chain /\ m.stage = n.stage
      /\ m.known_lib = n.known_lib /\ m.next_expected = n.next_expected
  BY <1>1, <1>2 DEF Nodes
<1>4. n.known_lib \in Nat
  BY <1>1, NodeNumbers
<1>5. NodeOK(m)
  BY <1>3, <1>4 DEF NodeOK, InRange, HasPrevious, NotPassed
<1> QED
  BY <1>2, <1>5

\* The stage becomes another than lib_catchup.
LEMMA StageOK ==
  ASSUME NEW n, NodeOK(n), NEW stage \in {"in_sync", "head_catchup"}
  PROVE  NodeOK([n EXCEPT !.stage = stage])
<1>1. n \in Nodes
  BY DEF NodeOK
<1>2. PICK m : m = [n EXCEPT !.stage = stage]
  OBVIOUS
<1>3. /\ m \in Nodes /\ m.last_requested = n.last_requested
      /\ m.stage # "lib_catchup" /\ m.known_lib = n.known_lib
  BY <1>1, <1>2 DEF Nodes
<1>4. NodeOK(m)
  BY <1>3 DEF NodeOK, InRange, HasPrevious, NotPassed
<1> QED
  BY <1>2, <1>4

\* A higher number is known to be irreversible.
LEMMA KnownOK ==
  ASSUME NEW n, NodeOK(n), NEW l \in {0} \cup LibNums
  PROVE  /\ NodeOK([n EXCEPT !.known_lib = Max({n.known_lib, l})])
         /\ l <= Max({n.known_lib, l})
<1>1. n \in Nodes
  BY DEF NodeOK
<1>2. PICK k \in {0} \cup LibNums : k = n.known_lib
  BY <1>1 DEF Nodes
<1>3. k \in Nat /\ l \in Nat
  BY LibNumsAreNumbers
<1>4. PICK t : t = Max({k, l})
  OBVIOUS
<1>5. t \in {k, l} /\ t >= k /\ t >= l
  BY <1>3, <1>4, MaxOfTwo
<1>6. t \in {0} \cup LibNums /\ t \in Nat
  BY <1>3, <1>5
<1>7. PICK m : m = [n EXCEPT !.known_lib = t]
  OBVIOUS
<1>8. /\ m \in Nodes /\ m.last_requested = n.last_requested /\ m.chain = n.chain
      /\ m.stage = n.stage /\ m.known_lib = t /\ m.next_expected = n.next_expected
  BY <1>1, <1>6, <1>7 DEF Nodes
<1>9. n.last_requested \in Nat /\ n.next_expected \in Nat
  BY <1>1, NodeNumbers
<1>10. InRange(m)
  BY <1>2, <1>3, <1>5, <1>6, <1>8, <1>9 DEF NodeOK, InRange
<1>11. NodeOK(m)
  BY <1>8, <1>10 DEF NodeOK, HasPrevious, NotPassed
<1> QED
  BY <1>2, <1>3, <1>4, <1>5, <1>6, <1>7, <1>11

\* The end of a connection, a handshake and a notice.
LEMMA ResetOK ==
  ASSUME NEW n, NodeOK(n), NEW c \in Peers
  PROVE  NodeOK(reset_lib_num(n, c))
<1>1. NoPeer \in Peers \cup {NoPeer}
  OBVIOUS
<1>2. PICK m : m = IF n.stage = "in_sync" THEN [n EXCEPT !.source = NoPeer] ELSE n
  OBVIOUS
<1>3. NodeOK(m)
  BY <1>1, <1>2, SourceOK
<1>4. PICK l \in {0} \cup LibNums : l = m.conn[c].lib
  BY <1>3 DEF NodeOK, Nodes, Conns
<1>5. NodeOK([m EXCEPT !.known_lib = Max({m.known_lib, l})])
  BY <1>3, KnownOK
<1>6. PICK f : f = [m EXCEPT !.last_requested = 0]
  OBVIOUS
<1>7. NodeOK(request_next_chunk(f, NoPeer))
  BY <1>1, <1>3, <1>6, ForgetOK, IsReady, NextChunkOK
<1>8. [m EXCEPT !.known_lib = Max({@, m.conn[c].lib})] = [m EXCEPT !.known_lib = Max({m.known_lib, l})]
  BY <1>4
<1>9. reset_lib_num(n, c) = IF current(m, c) THEN [m EXCEPT !.known_lib = Max({m.known_lib, l})]
                            ELSE IF c = m.source THEN request_next_chunk(f, NoPeer)
                            ELSE m
  BY <1>2, <1>6, <1>8 DEF reset_lib_num
<1> QED
  BY <1>3, <1>5, <1>7, <1>9

\* Where the node starts to fetch irreversible blocks the next one it expects
\* follows its own last irreversible block.
LEMMA StartOK ==
  ASSUME NEW n, NodeOK(n), NEW c \in Peers, NEW target \in LibNums
  PROVE  NodeOK(start_sync(n, c, target))
<1>1. target \in {0} \cup LibNums /\ target \in Nat
  BY LibNumsAreNumbers
<1>2. PICK k : k = Max({n.known_lib, target})
  OBVIOUS
<1>3. PICK m : m = [n EXCEPT !.known_lib = k]
  OBVIOUS
<1>4. NodeOK(m) /\ target <= k
  BY <1>1, <1>2, <1>3, KnownOK
<1>5. m \in Nodes /\ m.known_lib = k
  BY <1>3, <1>4 DEF NodeOK, Nodes
<1>6. PICK l : l = LibNum(m.chain)
  OBVIOUS
<1>7. PICK started : started = IF m.stage = "in_sync"
                               THEN [m EXCEPT !.stage = "lib_catchup", !.next_expected = l + 1]
                               ELSE m
  OBVIOUS
<1>8. start_sync(n, c, target) = IF sync_required(m) /\ target > l
                                 THEN request_next_chunk(started, c) ELSE m
  BY <1>2, <1>3, <1>6, <1>7 DEF start_sync
<1>9. CASE sync_required(m) /\ target > l
  <2>1. ReadyOK(started)
    <3>1. CASE m.stage # "in_sync"
      BY <1>4, <1>7, <3>1, IsReady
    <3>2. CASE m.stage = "in_sync"
      <4>1. /\ IsChain(m.chain) /\ l \in 1..HeadNum(m.chain) /\ HeadNum(m.chain) \in Nat \ {0}
            /\ m.last_requested \in Nat /\ k \in Nat
        BY <1>5, <1>6, NodeNumbers
      <4>2. l + 1 \in {1} \cup {Num[b] + 1 : b \in Blocks}
        <5>1. BlockAt(m.chain, l) \in Blocks /\ Num[BlockAt(m.chain, l)] = l
          BY <4>1, BlockAtNumber
        <5>2. PICK b \in Blocks : Num[b] = l
          BY <5>1
        <5> QED
          BY <5>2
      <4>3. /\ started \in Nodes /\ started.stage = "lib_catchup" /\ started.known_lib = k
            /\ started.next_expected = l + 1 /\ started.last_requested = m.last_requested
            /\ started.chain = m.chain
        BY <1>5, <1>7, <3>2, <4>2 DEF Nodes
      <4>4. PICK h \in Nat : h = HeadNum(m.chain)
        BY <4>1
      <4>5. l \in Nat \ {0} /\ l <= h
        BY <4>1, <4>4
      <4>6. InRange(started)
        <5>1. l + 1 <= k
          BY <1>1, <1>4, <1>9, <4>1, <4>5
        <5>2. m.last_requested <= k
          BY <1>4, <1>5 DEF NodeOK, InRange
        <5> QED
          BY <4>3, <5>1, <5>2 DEF InRange
      <4>7. HasPrevious(started)
        BY <4>3, <4>4, <4>5 DEF HasPrevious
      <4>8. NotPassed(started) \/ Passed(started)
        BY <4>1, <4>3, <4>4, <4>5 DEF NotPassed, Passed
      <4> QED
        BY <4>3, <4>6, <4>7, <4>8 DEF ReadyOK
    <3> QED
      BY <3>1, <3>2
  <2> QED
    BY <1>8, <1>9, <2>1, NextChunkOK
<1> QED
  BY <1>4, <1>8, <1>9

\* One connection changes.
LEMMA OneConnOK ==
  ASSUME NEW n, NodeOK(n), NEW p \in Peers, NEW k \in Conns
  PROVE  NodeOK([n EXCEPT !.conn[p] = k])
<1>1. n \in Nodes
  BY DEF NodeOK
<1>2. PICK j : j = [n.conn EXCEPT ![p] = k]
  OBVIOUS
<1>3. j \in [Peers -> Conns]
  BY <1>1, <1>2 DEF Nodes
<1>4. [n EXCEPT !.conn[p] = k] = [n EXCEPT !.conn = j]
  BY <1>1, <1>2 DEF Nodes
<1> QED
  BY <1>3, <1>4, ConnOK

\* One field of a connection gets a value of its kind.
LEMMA FieldOK ==
  ASSUME NEW n, NodeOK(n), NEW p \in Peers, NEW v \in BOOLEAN,
         NEW l \in {0} \cup LibNums, NEW h \in Blocks \cup {NoBlock}
  PROVE  /\ NodeOK([n EXCEPT !.conn[p].connecting = v])
         /\ NodeOK([n EXCEPT !.conn[p].syncing = v])
         /\ NodeOK([n EXCEPT !.conn[p].expired = v])
         /\ NodeOK([n EXCEPT !.conn[p].no_retry = v])
         /\ NodeOK([n EXCEPT !.conn[p].lib = l])
         /\ NodeOK([n EXCEPT !.conn[p].fork_head = h])
<1>1. n \in Nodes
  BY DEF NodeOK
<1>2. PICK k \in Conns : k = n.conn[p]
  BY <1>1 DEF Nodes
<1>3. /\ [k EXCEPT !.connecting = v] \in Conns
      /\ [k EXCEPT !.syncing = v] \in Conns
      /\ [k EXCEPT !.expired = v] \in Conns
      /\ [k EXCEPT !.no_retry = v] \in Conns
      /\ [k EXCEPT !.lib = l] \in Conns
      /\ [k EXCEPT !.fork_head = h] \in Conns
  BY DEF Conns
<1>4. /\ [n EXCEPT !.conn[p].connecting = v] = [n EXCEPT !.conn[p] = [k EXCEPT !.connecting = v]]
      /\ [n EXCEPT !.conn[p].syncing = v] = [n EXCEPT !.conn[p] = [k EXCEPT !.syncing = v]]
      /\ [n EXCEPT !.conn[p].expired = v] = [n EXCEPT !.conn[p] = [k EXCEPT !.expired = v]]
      /\ [n EXCEPT !.conn[p].no_retry = v] = [n EXCEPT !.conn[p] = [k EXCEPT !.no_retry = v]]
      /\ [n EXCEPT !.conn[p].lib = l] = [n EXCEPT !.conn[p] = [k EXCEPT !.lib = l]]
      /\ [n EXCEPT !.conn[p].fork_head = h] = [n EXCEPT !.conn[p] = [k EXCEPT !.fork_head = h]]
  BY <1>2
<1>5. /\ NodeOK([n EXCEPT !.conn[p] = [k EXCEPT !.connecting = v]])
      /\ NodeOK([n EXCEPT !.conn[p] = [k EXCEPT !.syncing = v]])
      /\ NodeOK([n EXCEPT !.conn[p] = [k EXCEPT !.expired = v]])
      /\ NodeOK([n EXCEPT !.conn[p] = [k EXCEPT !.no_retry = v]])
      /\ NodeOK([n EXCEPT !.conn[p] = [k EXCEPT !.lib = l]])
      /\ NodeOK([n EXCEPT !.conn[p] = [k EXCEPT !.fork_head = h]])
  BY <1>3, OneConnOK
<1> QED
  BY <1>4, <1>5

\* The timer's handler.
LEMMA ReassignOK ==
  ASSUME NEW n, NodeOK(n), NEW c \in Peers
  PROVE  NodeOK(reassign_fetch(n, c))
<1>1. PICK w : w = cancel_wait(n, c)
  OBVIOUS
<1>2. PICK e : e = enqueue(w, c, SyncRequest(0, 0))
  OBVIOUS
<1>3. PICK f : f = [e EXCEPT !.last_requested = 0]
  OBVIOUS
<1>4. SyncRequest(0, 0) \in Asked
  BY DEF Asked
<1>5. NodeOK(w)
  BY <1>1, WaitOK
<1>6. NodeOK(e)
  BY <1>2, <1>4, <1>5, EnqueueOK
<1>7. NodeOK(request_next_chunk(f, NoPeer))
  BY <1>3, <1>6, ForgetOK, IsReady, NextChunkOK
<1>8. reassign_fetch(n, c) = IF c # n.source THEN n ELSE request_next_chunk(f, NoPeer)
  BY <1>1, <1>2, <1>3 DEF reassign_fetch
<1> QED
  BY <1>7, <1>8

\* A connection is closed.
LEMMA CloseOK ==
  ASSUME NEW n, NodeOK(n), NEW p \in Peers
  PROVE  NodeOK(close(n, p))
<1>1. n \in Nodes
  BY DEF NodeOK
<1>2. PICK k : k = Closed(n.conn[p])
  OBVIOUS
<1>3. k \in Conns
  <2>1. n.conn[p] \in Conns
    BY <1>1 DEF Nodes
  <2> QED
    BY <1>2, <2>1 DEF Closed, NewConnection, Conns
<1>4. PICK j : j = [n.conn EXCEPT ![p] = k]
  OBVIOUS
<1>5. PICK o : o = [n.out EXCEPT ![p] = <<>>]
  OBVIOUS
<1>6. PICK m : m = [[n EXCEPT !.conn = j] EXCEPT !.out = o]
  OBVIOUS
<1>7. j \in [Peers -> Conns] /\ o \in [Peers -> Seq(Asked)]
  <2>1. <<>> \in Seq(Asked)
    OBVIOUS
  <2> QED
    BY <1>1, <1>3, <1>4, <1>5, <2>1 DEF Nodes
<1>8. NodeOK(m)
  BY <1>6, <1>7, ConnOK, OutOK
<1>9. [n EXCEPT !.conn[p] = Closed(@), !.out[p] = <<>>] = m
  BY <1>1, <1>2, <1>4, <1>5, <1>6 DEF Nodes
<1>10. NodeOK(cancel_wait(reset_lib_num(m, p), p))
  BY <1>8, ResetOK, WaitOK
<1> QED
  BY <1>9, <1>10 DEF close

\* A branch is asked for, or refused.
LEMMA CatchupOK ==
  ASSUME NEW n, NodeOK(n), NEW c \in Peers, NEW head \in Blocks
  PROVE  NodeOK(verify_catchup(n, c, head))
<1>1. BranchRequest("none") \in Asked /\ BranchRequest("catch_up") \in Asked
  BY DEF BranchRequest, Asked, Notices
<1>2. PICK u : u = [n EXCEPT !.conn[c].fork_head = NoBlock]
  OBVIOUS
<1>3. PICK g : g = [n EXCEPT !.stage = "head_catchup"]
  OBVIOUS
<1>4. PICK h : h = [g EXCEPT !.conn[c].fork_head = head]
  OBVIOUS
<1>5. NodeOK(u) /\ NodeOK(g)
  BY <1>2, <1>3, FieldOK, StageOK
<1>6. NodeOK(h)
  BY <1>4, <1>5, FieldOK
<1>7. NodeOK(enqueue(u, c, BranchRequest("none"))) /\ NodeOK(enqueue(h, c, BranchRequest("catch_up")))
  BY <1>1, <1>5, <1>6, EnqueueOK
<1>8. [n EXCEPT !.stage = "head_catchup", !.conn[c].fork_head = head] = h
  BY <1>3, <1>4
<1> QED
  BY <1>2, <1>7, <1>8 DEF verify_catchup

\* A handshake of a peer.
LEMMA HandshakeOK ==
  ASSUME NEW n, NodeOK(n), NEW c \in Peers, NEW msg, msg.head \in Blocks
  PROVE  NodeOK(recv_handshake(n, c, msg))
<1>1. IsChain(n.chain)
  BY ChainsAre DEF NodeOK, Nodes
<1>2. /\ LibNotice(n.chain) \in Asked /\ HeadNotice(n.chain) \in Asked
      /\ BranchRequest("catch_up") \in Asked
  BY <1>1, MessagesOfChain DEF Asked
<1>3. PICK r : r = reset_lib_num(n, c)
  OBVIOUS
<1>4. PICK m : m = [r EXCEPT !.conn[c].syncing = FALSE]
  OBVIOUS
<1>5. PICK t : t = [m EXCEPT !.conn[c].syncing = TRUE]
  OBVIOUS
<1>6. PICK told : told = enqueue(t, c, HeadNotice(n.chain))
  OBVIOUS
<1>7. NodeOK(r)
  BY <1>3, ResetOK
<1>8. NodeOK(m)
  BY <1>4, <1>7, FieldOK
<1>9. NodeOK(t)
  BY <1>5, <1>8, FieldOK
<1>10. /\ NodeOK(enqueue(t, c, LibNotice(n.chain))) /\ NodeOK(told)
       /\ NodeOK(verify_catchup(m, c, msg.head))
  BY <1>2, <1>6, <1>8, <1>9, EnqueueOK, CatchupOK
<1>11. NodeOK(enqueue(told, c, BranchRequest("catch_up")))
  BY <1>2, <1>10, EnqueueOK
<1>12. \/ recv_handshake(n, c, msg) = m
       \/ recv_handshake(n, c, msg) = enqueue(t, c, LibNotice(n.chain))
       \/ recv_handshake(n, c, msg) = verify_catchup(m, c, msg.head)
       \/ recv_handshake(n, c, msg) = told
       \/ recv_handshake(n, c, msg) = enqueue(told, c, BranchRequest("catch_up"))
  BY <1>3, <1>4, <1>5, <1>6 DEF recv_handshake
<1> QED
  BY <1>8, <1>10, <1>11, <1>12

\* A notice of a peer.
LEMMA NoticeOK ==
  ASSUME NEW n, NodeOK(n), NEW c \in Peers, NEW msg,
         \/ msg.type = "catch_up" /\ msg.head \in Blocks
         \/ msg.type = "last_irr_catch_up" /\ msg.lib \in LibNums
  PROVE  NodeOK(recv_notice(n, c, msg))
<1>1. CASE msg.type = "catch_up" /\ msg.head \in Blocks
  <2>1. Handshake(n.chain) \in Asked
    BY MessagesOfChain, ChainsAre DEF Asked, NodeOK, Nodes
  <2>2. NodeOK(send_handshake(n, c)) /\ NodeOK(verify_catchup(n, c, msg.head))
    BY <1>1, <2>1, EnqueueOK, CatchupOK DEF send_handshake
  <2> QED
    BY <1>1, <2>2 DEF recv_notice
<1>2. CASE msg.type = "last_irr_catch_up" /\ msg.lib \in LibNums
  <2>1. PICK l \in LibNums : l = msg.lib
    BY <1>2
  <2>2. PICK m : m = [n EXCEPT !.conn[c].lib = l]
    OBVIOUS
  <2>3. NodeOK(m)
    BY <2>2, FieldOK
  <2>4. NodeOK(start_sync(reset_lib_num(m, c), c, l))
    BY <2>3, ResetOK, StartOK
  <2>5. recv_notice(n, c, msg) = start_sync(reset_lib_num(m, c), c, l)
    BY <1>2, <2>1, <2>2 DEF recv_notice
  <2> QED
    BY <2>4, <2>5
<1> QED
  BY <1>1, <1>2

\* A block that cannot be linked.
LEMMA RejectedOK ==
  ASSUME NEW n, NodeOK(n), NEW c \in Peers
  PROVE  NodeOK(rejected_block(n, c))
<1>1. PICK f : f = [n EXCEPT !.last_requested = 0]
  OBVIOUS
<1>2. PICK s : s = [f EXCEPT !.source = NoPeer]
  OBVIOUS
<1>3. NodeOK(s)
  BY <1>1, <1>2, ForgetOK, SourceOK
<1>4. PICK k : k = close(s, c)
  OBVIOUS
<1>5. PICK i : i = [k EXCEPT !.stage = "in_sync"]
  OBVIOUS
<1>6. NodeOK(send_handshakes(i))
  BY <1>3, <1>4, <1>5, CloseOK, StageOK, HandshakesOK
<1>7. [n EXCEPT !.last_requested = 0, !.source = NoPeer] = s
  BY <1>1, <1>2
<1> QED
  BY <1>4, <1>5, <1>6, <1>7 DEF rejected_block

\* A block that arrives in head_catchup.
LEMMA AtHeadOK ==
  ASSUME NEW n, NodeOK(n), NEW c \in Peers, NEW b \in Blocks
  PROVE  NodeOK(recv_block_at_head(n, c, b))
<1> DEFINE done(q) == \/ n.conn[q].fork_head = b
                      \/ ForkHeadNum(n.conn[q]) < Num[b]
           waits(q) == n.conn[q].fork_head # NoBlock
           first == {q \in Peers : waits(q) /\ done(q)}
<1>1. PICK h : h = IF first = {} THEN n.conn[c].fork_head ELSE NoBlock
  OBVIOUS
<1>2. h \in Blocks \cup {NoBlock}
  <2>1. n.conn[c] \in Conns
    BY DEF NodeOK, Nodes
  <2> HIDE DEF first
  <2> QED
    BY <1>1, <2>1 DEF Conns
<1>3. PICK s : s = [n EXCEPT !.source = NoPeer]
  OBVIOUS
<1>4. PICK m : m = [s EXCEPT !.conn[c].fork_head = h]
  OBVIOUS
<1>5. NodeOK(m)
  BY <1>2, <1>3, <1>4, SourceOK, FieldOK
<1>6. PICK i : i = [m EXCEPT !.stage = "in_sync"]
  OBVIOUS
<1>7. NodeOK(send_handshakes(i))
  BY <1>5, <1>6, StageOK, HandshakesOK
<1>8. [n EXCEPT !.source = NoPeer,
                !.conn[c].fork_head = IF first = {} THEN @ ELSE NoBlock] = m
  <2> HIDE DEF first
  <2> QED
    BY <1>1, <1>3, <1>4
<1>9. recv_block_at_head(n, c, b) = m \/ recv_block_at_head(n, c, b) = send_handshakes(i)
  <2>1. [[n EXCEPT !.source = NoPeer,
                   !.conn[c].fork_head = IF first = {} THEN @ ELSE NoBlock] EXCEPT !.stage = "in_sync"] = i
    BY <1>6, <1>8
  <2> QED
    BY <1>8, <2>1 DEF recv_block_at_head
<1> QED
  BY <1>5, <1>7, <1>9

\* The block that was expected in lib_catchup ends the stage, or the range, or
\* leaves the next one of the range expected.
LEMMA AtLibOK ==
  ASSUME NEW n, NodeOK(n), n.stage = "lib_catchup", NEW c \in Peers, NEW b \in Blocks,
         LongerIsPreferred => Num[b] <= HeadNum(n.chain)
  PROVE  NodeOK(recv_block_at_lib(n, c, b))
<1>1. n \in Nodes /\ InRange(n)
  BY DEF NodeOK
<1>2. /\ n.known_lib \in Nat /\ n.last_requested \in Nat /\ n.next_expected \in Nat \ {0}
      /\ HeadNum(n.chain) \in Nat \ {0}
  BY <1>1, NodeNumbers
<1>3. Num[b] \in Nat \ {0}
  BY NumbersOfBlock
<1>4. PICK m : m = [n EXCEPT !.next_expected = Num[b] + 1]
  OBVIOUS
<1>5. /\ m \in Nodes /\ m.next_expected = Num[b] + 1 /\ m.stage = "lib_catchup"
      /\ m.chain = n.chain /\ m.known_lib = n.known_lib /\ m.last_requested = n.last_requested
  <2>1. Num[b] + 1 \in {1} \cup {Num[x] + 1 : x \in Blocks}
    OBVIOUS
  <2> QED
    BY <1>1, <1>4, <2>1 DEF Nodes
<1>6. PICK i : i = [m EXCEPT !.stage = "in_sync"]
  OBVIOUS
<1>7. /\ i \in Nodes /\ i.stage = "in_sync" /\ i.known_lib = n.known_lib
      /\ i.last_requested = n.last_requested
  BY <1>5, <1>6 DEF Nodes
<1>8. NodeOK(send_handshakes(i))
  <2>1. NodeOK(i)
    BY <1>1, <1>7 DEF NodeOK, InRange, HasPrevious, NotPassed
  <2> QED
    BY <2>1, HandshakesOK
<1>9. CASE Num[b] = n.next_expected /\ Num[b] # n.known_lib
  <2>1. InRange(m)
    BY <1>1, <1>2, <1>3, <1>5, <1>9 DEF InRange
  <2>2. LongerIsPreferred => HasPrevious(m)
    BY <1>2, <1>3, <1>5 DEF HasPrevious
  <2>3. CASE Num[b] = n.last_requested
    <3>1. LongerIsPreferred => Passed(m)
      BY <1>2, <1>3, <1>5, <2>3 DEF Passed
    <3>2. ReadyOK(m)
      BY <1>5, <2>1, <2>2, <3>1 DEF ReadyOK
    <3>3. NodeOK(request_next_chunk(m, NoPeer))
      BY <3>2, NextChunkOK
    <3> QED
      BY <1>4, <1>9, <2>3, <3>3 DEF recv_block_at_lib
  <2>4. CASE Num[b] # n.last_requested
    <3>1. LongerIsPreferred => NotPassed(m)
      BY <1>2, <1>3, <1>5, <1>9, <2>4 DEF NodeOK, NotPassed
    <3>2. NodeOK(m)
      BY <1>5, <2>1, <2>2, <3>1 DEF NodeOK
    <3>3. NodeOK(sync_wait(m, c))
      BY <3>2, WaitOK
    <3> QED
      BY <1>4, <1>9, <2>4, <3>3 DEF recv_block_at_lib
  <2> QED
    BY <2>3, <2>4
<1>10. CASE Num[b] = n.next_expected /\ Num[b] = n.known_lib
  BY <1>4, <1>6, <1>8, <1>10 DEF recv_block_at_lib
<1>11. CASE Num[b] # n.next_expected
  BY <1>11 DEF recv_block_at_lib
<1> QED
  BY <1>9, <1>10, <1>11

\* A block that is part of the chain, in each stage.
LEMMA RecvBlockOK ==
  ASSUME NEW n, NodeOK(n), NEW c \in Peers, NEW b \in Blocks,
         LongerIsPreferred => Num[b] <= HeadNum(n.chain)
  PROVE  NodeOK(recv_block(n, c, b))
<1>1. CASE n.stage = "lib_catchup"
  BY <1>1, AtLibOK DEF recv_block
<1>2. CASE n.stage = "head_catchup"
  BY <1>2, AtHeadOK DEF recv_block
<1>3. CASE n.stage = "in_sync"
  BY <1>3 DEF recv_block
<1> QED
  BY <1>1, <1>2, <1>3 DEF NodeOK, Nodes

\* A block is accepted, rejected or known already.
LEMMA BlockOK ==
  ASSUME NEW n, NodeOK(n), NEW c \in Peers, NEW b \in Blocks
  PROVE  NodeOK(handle_block(n, c, b))
<1>1. n \in Nodes /\ IsChain(n.chain)
  BY ChainsAre DEF NodeOK, Nodes
<1>2. PICK w : w = cancel_wait(n, c)
  OBVIOUS
<1>3. NodeOK(w) /\ w.chain = n.chain
  BY <1>1, <1>2, WaitOK DEF cancel_wait, Nodes
<1>4. CASE b \in n.chain.blocks
  <2>1. LongerIsPreferred => Num[b] <= HeadNum(n.chain)
    BY <1>1, <1>4 DEF IsChain
  <2> QED
    BY <1>4, <2>1, RecvBlockOK DEF handle_block
<1>5. CASE b \notin n.chain.blocks /\ ~ Linkable(n.chain, b)
  BY <1>2, <1>3, <1>5, RejectedOK DEF handle_block
<1>6. CASE b \notin n.chain.blocks /\ Linkable(n.chain, b)
  <2>1. PICK A : A = Accepted(n.chain, b)
    OBVIOUS
  <2>2. /\ IsChain(A) /\ A \in Chains
        /\ LongerIsPreferred => Num[b] <= HeadNum(A) /\ HeadNum(n.chain) <= HeadNum(A)
    BY <1>1, <1>6, <2>1, AcceptedIsChain, ChainsAre
  <2>3. PICK m : m = [w EXCEPT !.chain = A]
    OBVIOUS
  <2>4. /\ m \in Nodes /\ m.chain = A /\ m.stage = w.stage /\ m.known_lib = w.known_lib
        /\ m.last_requested = w.last_requested /\ m.next_expected = w.next_expected
    BY <1>3, <2>2, <2>3 DEF NodeOK, Nodes
  <2>5. NodeOK(m)
    <3>1. /\ m.next_expected \in Nat /\ HeadNum(A) \in Nat /\ HeadNum(n.chain) \in Nat
      BY <1>1, <2>2, <2>4, NodeNumbers, ChainNumbers
    <3>2. LongerIsPreferred => HasPrevious(m)
      BY <1>3, <2>2, <2>4, <3>1 DEF NodeOK, HasPrevious
    <3> QED
      BY <1>3, <2>4, <3>2 DEF NodeOK, InRange, NotPassed
  <2>6. NodeOK(recv_block(m, c, b))
    BY <2>2, <2>4, <2>5, RecvBlockOK
  <2>7. [w EXCEPT !.chain = Accepted(@, b)] = m
    BY <1>3, <2>1, <2>3
  <2> QED
    BY <1>2, <1>6, <2>6, <2>7 DEF handle_block
<1> QED
  BY <1>4, <1>5, <1>6

\* Every message a peer can send.
LEMMA MessageOK ==
  ASSUME NEW n, NodeOK(n), NEW c \in Peers, NEW msg \in Sent
  PROVE  NodeOK(handle_message(n, c, msg))
<1>1. PICK m : m = [n EXCEPT !.conn[c].connecting = FALSE]
  OBVIOUS
<1>2. NodeOK(m)
  BY <1>1, FieldOK
<1>3. CASE msg \in [type : {"handshake"}, head : Blocks, lib : LibNums, lib_id : Blocks]
  <2>1. msg.type = "handshake" /\ msg.head \in Blocks
    BY <1>3
  <2>2. PICK l \in {0} \cup LibNums : l = msg.lib
    BY <1>3
  <2>3. PICK k : k = [m EXCEPT !.conn[c].lib = l]
    OBVIOUS
  <2>4. NodeOK(k)
    BY <1>2, <2>3, FieldOK
  <2>5. \/ handle_message(n, c, msg) = close(m, c)
        \/ handle_message(n, c, msg) = recv_handshake(k, c, msg)
    BY <1>1, <2>1, <2>2, <2>3 DEF handle_message
  <2> QED
    BY <1>2, <2>1, <2>4, <2>5, CloseOK, HandshakeOK
<1>4. CASE msg \in [type : {"last_irr_catch_up"}, lib : LibNums]
  BY <1>1, <1>2, <1>4, NoticeOK DEF handle_message
<1>5. CASE msg \in [type : {"catch_up"}, head : Blocks]
  BY <1>1, <1>2, <1>5, NoticeOK DEF handle_message
<1>6. CASE msg \in [type : {"request"}, mode : {"none", "catch_up"}]
  <2>1. NodeOK([n EXCEPT !.conn[c].syncing = FALSE])
    BY FieldOK
  <2> QED
    BY <1>6, <2>1 DEF handle_message
<1>7. CASE msg \in [type : {"block"}, block : Blocks]
  <2>1. msg.type = "block" /\ msg.block \in Blocks
    BY <1>7
  <2>2. handle_message(n, c, msg) = handle_block(n, c, msg.block)
    BY <2>1 DEF handle_message
  <2> QED
    BY <2>1, <2>2, BlockOK
<1>8. CASE msg = GoAway
  <2>1. PICK k : k = [n EXCEPT !.conn[c].no_retry = TRUE]
    OBVIOUS
  <2>2. NodeOK(k)
    BY <2>1, FieldOK
  <2>3. handle_message(n, c, msg) = close(k, c)
    BY <1>8, <2>1 DEF handle_message, GoAway
  <2> QED
    BY <2>2, <2>3, CloseOK
<1> QED
  BY <1>3, <1>4, <1>5, <1>6, <1>7, <1>8 DEF Sent, Notices

-----------------------------------------------------------------------------
\* The inductive invariant: the node and the peers' ends of the connections.
SyncInv == NodeOK(node) /\ peer \in [Peers -> Sessions]

\* A session that begins.
LEMMA NewSessionIs ==
  ASSUME NEW C \in Chains
  PROVE  NewSession(C) \in Sessions
<1>1. <<>> \in Seq(Sent)
  OBVIOUS
<1> QED
  BY <1>1 DEF NewSession, Sessions

\* The node takes over what a handler computed, and the peers what it sent.
LEMMA BecomesOK ==
  ASSUME SyncInv, NEW m, NodeOK(m), NEW consumed, Becomes(m, consumed),
         \A p \in Peers : p = consumed => peer[p].wire # <<>>
  PROVE  SyncInv'
<1>1. node' = [m EXCEPT !.out = [p \in Peers |-> <<>>]]
  BY DEF Becomes
<1>2. [p \in Peers |-> <<>>] \in [Peers -> Seq(Asked)]
  OBVIOUS
<1>3. NodeOK([m EXCEPT !.out = [p \in Peers |-> <<>>]])
  BY <1>2, OutOK
<1>4. NodeOK(node')
  BY <1>1, <1>3
<1> DEFINE lost(p) == node.conn[p].open /\ ~ m.conn[p].open
           read(p) == IF p = consumed THEN [peer[p] EXCEPT !.wire = Tail(@)] ELSE peer[p]
<1>5. peer' = [p \in Peers |-> IF lost(p) THEN NewSession(peer[p].chain)
                               ELSE FoldLeft(PeerHandle, read(p), m.out[p])]
  BY DEF Becomes
<1>6. ASSUME NEW p \in Peers
      PROVE  /\ NewSession(peer[p].chain) \in Sessions
             /\ FoldLeft(PeerHandle, read(p), m.out[p]) \in Sessions
  <2>1. PICK s \in Sessions : s = peer[p]
    BY <1>6 DEF SyncInv
  <2>2. NewSession(s.chain) \in Sessions
    BY NewSessionIs DEF Sessions
  <2>3. read(p) \in Sessions
    <3>1. CASE p = consumed
      <4>1. PICK w \in Seq(Sent) : w = s.wire
        BY DEF Sessions
      <4>2. w # <<>>
        BY <1>6, <2>1, <3>1, <4>1
      <4>3. Tail(w) \in Seq(Sent)
        BY <4>2
      <4>4. [s EXCEPT !.wire = Tail(w)] \in Sessions
        BY <4>3 DEF Sessions
      <4> QED
        BY <2>1, <3>1, <4>1, <4>4
    <3> QED
      BY <2>1, <3>1
  <2>4. m.out[p] \in Seq(Asked)
    BY <1>6 DEF NodeOK, Nodes
  <2> HIDE DEF read
  <2>5. FoldLeft(PeerHandle, read(p), m.out[p]) \in Sessions
    BY <2>3, <2>4, FoldKeepsSession
  <2> QED
    BY <2>1, <2>2, <2>5
<1> HIDE DEF lost, read
<1>7. peer' \in [Peers -> Sessions]
  BY <1>5, <1>6
<1> QED
  BY <1>4, <1>7 DEF SyncInv

\* Initially nothing is known, asked for or sent.
LEMMA SyncInvInit ==
  Init => SyncInv
<1>1. SUFFICES ASSUME Init PROVE SyncInv
  OBVIOUS
<1>2. NodeStart \in Blocks /\ PeerStart \in [Peers -> Blocks]
  BY NetSyncAssumption
<1>3. Branch(NodeStart) \in Chains
  BY <1>2, BranchIsChain, ChainsAre
<1>4. NewConnection \in Conns
  BY DEF NewConnection, Conns
<1>5. [p \in Peers |-> <<>>] \in [Peers -> Seq(Asked)]
  OBVIOUS
<1>6. /\ node \in Nodes /\ node.stage = "in_sync" /\ node.last_requested = 0
      /\ node.known_lib = 0
  BY <1>1, <1>3, <1>4, <1>5 DEF Init, Nodes
<1>7. NodeOK(node)
  BY <1>6 DEF NodeOK, InRange, HasPrevious, NotPassed
<1>8. ASSUME NEW p \in Peers PROVE NewSession(Branch(PeerStart[p])) \in Sessions
  <2>1. PICK b \in Blocks : b = PeerStart[p]
    BY <1>2, <1>8
  <2>2. Branch(b) \in Chains
    BY BranchIsChain, ChainsAre
  <2> QED
    BY <2>1, <2>2, NewSessionIs
<1> QED
  BY <1>1, <1>7, <1>8 DEF Init, SyncInv

\* A peer's end of a connection changes and nothing else does.
LEMMA PeerStepOK ==
  ASSUME SyncInv, NEW p \in Peers, NEW s \in Sessions, peer' = [peer EXCEPT ![p] = s],
         node' = node
  PROVE  SyncInv'
BY DEF SyncInv

\* Every step keeps the invariant, the handlers by the lemmas above.
LEMMA SyncInvStep ==
  ASSUME SyncInv, [Next]_nsVars
  PROVE  SyncInv'
<1>1. NodeOK(node) /\ node \in Nodes /\ peer \in [Peers -> Sessions]
  BY DEF SyncInv, NodeOK
<1>2. NoPeer \notin Peers
  BY NetSyncAssumption DEF NoPeer, Peers
<1>3. ASSUME NEW p \in Peers, Connect(p) PROVE SyncInv'
  <2>1. PICK k : k = [node.conn[p] EXCEPT !.open = TRUE, !.connecting = TRUE]
    OBVIOUS
  <2>2. k \in Conns
    <3>1. node.conn[p] \in Conns
      BY <1>1, <1>3 DEF Nodes
    <3> QED
      BY <2>1, <3>1 DEF Conns
  <2>3. PICK m : m = [node EXCEPT !.conn[p] = k]
    OBVIOUS
  <2>4. NodeOK(m)
    BY <1>1, <1>3, <2>2, <2>3, OneConnOK
  <2>5. [node EXCEPT !.conn[p].open = TRUE, !.conn[p].connecting = TRUE] = m
    BY <1>1, <1>3, <2>1, <2>3 DEF Nodes
  <2>6. Handshake(m.chain) \in Asked
    BY <2>4, MessagesOfChain, ChainsAre DEF Asked, NodeOK, Nodes
  <2>7. NodeOK(send_handshake(m, p))
    BY <1>3, <2>4, <2>6, EnqueueOK DEF send_handshake
  <2>8. Becomes(send_handshake(m, p), NoPeer)
    BY <1>3, <2>5 DEF Connect
  <2> QED
    BY <1>2, <2>7, <2>8, BecomesOK
<1>4. ASSUME NEW p \in Peers, Receive(p) PROVE SyncInv'
  <2>1. peer[p].wire # <<>> /\ peer[p].wire \in Seq(Sent)
    BY <1>1, <1>4 DEF Receive, Sessions
  <2>2. Head(peer[p].wire) \in Sent
    BY <2>1
  <2>3. NodeOK(handle_message(node, p, Head(peer[p].wire)))
    BY <1>1, <1>4, <2>2, MessageOK
  <2>4. Becomes(handle_message(node, p, Head(peer[p].wire)), p)
    BY <1>4 DEF Receive
  <2> QED
    BY <2>1, <2>3, <2>4, BecomesOK
<1>5. ASSUME NEW p \in Peers, Expire(p) PROVE SyncInv'
  <2>1. PICK k : k = [node.conn[p] EXCEPT !.timer = FALSE, !.expired = TRUE]
    OBVIOUS
  <2>2. k \in Conns
    <3>1. node.conn[p] \in Conns
      BY <1>1, <1>5 DEF Nodes
    <3> QED
      BY <2>1, <3>1 DEF Conns
  <2>3. NodeOK([node EXCEPT !.conn[p] = k])
    BY <1>1, <1>5, <2>2, OneConnOK
  <2>4. node' = [node EXCEPT !.conn[p] = k]
    BY <1>1, <1>5, <2>1 DEF Nodes, Expire
  <2>5. peer' = peer
    BY <1>5 DEF Expire
  <2>6. NodeOK(node')
    BY <2>3, <2>4
  <2> QED
    BY <1>1, <2>5, <2>6 DEF SyncInv
<1>6. ASSUME NEW p \in Peers, sync_timeout(p) PROVE SyncInv'
  <2>1. PICK m : m = [node EXCEPT !.conn[p].expired = FALSE]
    OBVIOUS
  <2>2. NodeOK(m)
    BY <1>1, <1>6, <2>1, FieldOK
  <2>3. NodeOK(reassign_fetch(m, p))
    BY <1>6, <2>2, ReassignOK
  <2>4. Becomes(reassign_fetch(m, p), NoPeer)
    BY <1>6, <2>1 DEF sync_timeout
  <2> QED
    BY <1>2, <2>3, <2>4, BecomesOK
<1>7. ASSUME NEW p \in Peers, Lose(p) PROVE SyncInv'
  <2>1. NodeOK(close(node, p)) /\ Becomes(close(node, p), NoPeer)
    BY <1>1, <1>7, CloseOK DEF Lose
  <2> QED
    BY <1>2, <2>1, BecomesOK
<1>8. ASSUME NEW p \in Peers, PeerWrote(p) PROVE SyncInv'
  <2>1. PICK s \in Sessions : s = peer[p]
    BY <1>1, <1>8
  <2>2. PICK t : t = [s EXCEPT !.writing = FALSE]
    OBVIOUS
  <2>3. t \in Sessions
    BY <2>2 DEF Sessions
  <2>4. do_queue_write(enqueue_sync_block(t)) \in Sessions
    BY <2>3, NextBlockKeepsSession, WriteKeepsSession
  <2>5. peer' = [peer EXCEPT ![p] = do_queue_write(enqueue_sync_block(t))] /\ node' = node
    BY <1>8, <2>1, <2>2 DEF PeerWrote
  <2> QED
    BY <1>8, <2>4, <2>5, PeerStepOK
<1>9. ASSUME NEW p \in Peers, Hang(p) PROVE SyncInv'
  BY <1>1, <1>9 DEF Hang, SyncInv
<1>10. ASSUME NEW p \in Peers, NEW b \in Blocks, PeerAccept(p, b) PROVE SyncInv'
  <2>1. PICK s \in Sessions : s = peer[p]
    BY <1>1, <1>10
  <2>2. IsChain(s.chain) /\ Linkable(s.chain, b)
    BY <1>10, <2>1, ChainsAre DEF PeerAccept, Sessions
  <2>3. PICK A : A = Accepted(s.chain, b)
    OBVIOUS
  <2>4. A \in Chains
    BY <1>10, <2>2, <2>3, AcceptedIsChain, ChainsAre
  <2>5. PICK t : t = [s EXCEPT !.chain = A]
    OBVIOUS
  <2>6. t \in Sessions
    BY <2>4, <2>5 DEF Sessions
  <2>7. PICK u : u = bcast_block(t, b)
    OBVIOUS
  <2>8. u \in Sessions
    BY <1>10, <2>6, <2>7, BroadcastKeepsSession
  <2>9. PeerEnqueue(u, Handshake(u.chain)) \in Sessions
    <3>1. Handshake(u.chain) \in Sent
      BY <2>8, MessagesOfChain, ChainsAre DEF Sessions, Sent
    <3> QED
      BY <2>8, <3>1, EnqueueKeepsSession
  <2>10. [peer[p] EXCEPT !.chain = Accepted(@, b)] = t
    BY <2>1, <2>3, <2>5
  <2>11. PICK v \in Sessions : peer' = [peer EXCEPT ![p] = v] /\ node' = node
    BY <1>10, <2>7, <2>8, <2>9, <2>10 DEF PeerAccept
  <2> QED
    BY <1>10, <2>11, PeerStepOK
<1>11. CASE UNCHANGED nsVars
  BY <1>1, <1>11 DEF nsVars, SyncInv
<1> QED
  BY <1>3, <1>4, <1>5, <1>6, <1>7, <1>8, <1>9, <1>10, <1>11 DEF Next

-----------------------------------------------------------------------------
\* The invariant holds in every reachable state.
LEMMA SyncInvAlways ==
  Spec => []SyncInv
<1>1. Init => SyncInv
  BY SyncInvInit
<1>2. SyncInv /\ [Next]_nsVars => SyncInv'
  BY SyncInvStep
<1> QED
  BY <1>1, <1>2, PTL DEF Spec

\* TypeOK, of the sync_manager and its connections, is an invariant for every tree
\* of blocks, number of connections, span and sequence of faults: whatever a peer
\* announces and whenever it does, sync_known_lib_num is 0 or the irreversible
\* number of some chain, and no request_next_chunk asks for a range that ends
\* above it.
THEOREM SyncTypeCorrect == Spec => []TypeOK
<1>1. SyncInv => TypeOK
  <2>1. SUFFICES ASSUME SyncInv PROVE TypeOK
    OBVIOUS
  <2>2. node \in Nodes /\ node.last_requested <= node.known_lib
    BY <2>1 DEF SyncInv, NodeOK, InRange
  <2>3. node.known_lib \in Nat /\ node.last_requested \in Nat
    BY <2>2, NodeNumbers
  <2>4. node.last_requested \in 0..node.known_lib
    BY <2>2, <2>3
  <2>5. ASSUME NEW p \in Peers PROVE node.conn[p].fork_head \in Blocks \cup {NoBlock}
    <3>1. node.conn[p] \in Conns
      BY <2>2, <2>5 DEF Nodes
    <3> QED
      BY <3>1 DEF Conns
  <2>6. /\ node.chain.blocks \subseteq Blocks
        /\ node.stage \in {"in_sync", "lib_catchup", "head_catchup"}
        /\ node.known_lib \in {0} \cup LibNums
        /\ node.next_expected \in {1} \cup {Num[b] + 1 : b \in Blocks}
        /\ node.source \in Peers \cup {NoPeer}
    BY <2>2 DEF Nodes, Chains
  <2> QED
    BY <2>4, <2>5, <2>6 DEF TypeOK, LibNums
<1> QED
  BY <1>1, SyncInvAlways, PTL

\* Whatever the tree, the block the sync_manager waits for in lib_catchup is one
\* that some chain has made irreversible: recv_block leaves the stage with the last
\* of these, and no handler passes it.
THEOREM ExpectedIsKnown ==
  Spec => [](node.stage = "lib_catchup" => node.next_expected <= node.known_lib)
<1>1. SyncInv => (node.stage = "lib_catchup" => node.next_expected <= node.known_lib)
  BY DEF SyncInv, NodeOK, InRange
<1> QED
  BY <1>1, SyncInvAlways, PTL

\* ExpectedFollows, of lib_catchup, is an invariant wherever a longer branch never
\* has a lower irreversible number: late blocks of the former source, timeouts,
\* lost connections and hung peers never leave sync_next_expected_num without its
\* predecessor, above sync_known_lib_num, or past the range asked for.
THEOREM ExpectedAlwaysFollows ==
  ASSUME LongerIsPreferred
  PROVE  Spec => []ExpectedFollows
<1>1. SyncInv => ExpectedFollows
  <2>1. SUFFICES ASSUME SyncInv, node.stage = "lib_catchup"
                 PROVE  /\ \E b \in node.chain.blocks : Num[b] + 1 = node.next_expected
                        /\ node.next_expected <= node.known_lib
                        /\ node.last_requested # 0 =>
                             node.last_requested \in node.next_expected..node.known_lib
    BY DEF ExpectedFollows
  <2>2. /\ node \in Nodes /\ node.last_requested <= node.known_lib
        /\ node.next_expected <= node.known_lib
        /\ 2 <= node.next_expected /\ node.next_expected <= HeadNum(node.chain) + 1
        /\ node.last_requested = 0 \/ node.next_expected <= node.last_requested
    BY <2>1 DEF SyncInv, NodeOK, InRange, HasPrevious, NotPassed
  <2>3. /\ IsChain(node.chain) /\ node.known_lib \in Nat /\ node.last_requested \in Nat
        /\ node.next_expected \in Nat /\ HeadNum(node.chain) \in Nat
    BY <2>2, NodeNumbers
  <2>4. PICK k \in 1..HeadNum(node.chain) : k + 1 = node.next_expected
    <3>1. node.next_expected - 1 \in 1..HeadNum(node.chain)
      BY <2>2, <2>3
    <3> QED
      BY <2>3, <3>1
  <2>5. BlockAt(node.chain, k) \in node.chain.blocks /\ Num[BlockAt(node.chain, k)] = k
    BY <2>3, BlockAtNumber
  <2>6. \E b \in node.chain.blocks : Num[b] = k
    BY <2>5
  <2> QED
    BY <2>2, <2>3, <2>4, <2>6
<1> QED
  BY <1>1, SyncInvAlways, PTL

=============================================================================
