-------------------------- MODULE ControllerProofs --------------------------
(***************************************************************************)
(* Proofs about the fork database and the controller, for every tree of    *)
(* blocks, every set of invalid blocks and both modes.  The invariants of  *)
(* module ForkDatabase hold whatever operations are called in whatever     *)
(* order; the controller calls the fork database only through them, so     *)
(* they carry over; and log_irreversible appends to the block log in chain *)
(* order, across crashes and restarts.                                     *)
(*                                                                         *)
(* Every theorem is for trees in which the irreversible number does not go *)
(* down along a branch (LibGrows), which HeaderChainProofs shows for       *)
(* schedules of one length.  Without it a block need not be preferred to   *)
(* its parent, and commit_block then asserts that fork_db.head() is the    *)
(* block it has just added in vain (run header_chain_shrink).              *)
(***************************************************************************)
EXTENDS Controller, FiniteSetTheorems, TLAPS

(***************************************************************************)
(* Facts about branches.  Ancestors[b] is the least set that holds b and   *)
(* is closed under Prev, so a fact about all ancestors is shown by giving  *)
(* such a set.                                                             *)
(***************************************************************************)
\* A block is on its own branch, and a branch consists of blocks.
LEMMA AncestorsOfBlock ==
  ASSUME NEW b \in Blocks
  PROVE  b \in Ancestors[b] /\ Ancestors[b] \subseteq Blocks
BY DEF Ancestors

\* Whatever holds b and is closed under Prev holds the whole branch of b.
LEMMA AncestorsLeast ==
  ASSUME NEW b \in Blocks, NEW S \in SUBSET Blocks, b \in S, ClosedUnderPrev(S)
  PROVE  Ancestors[b] \subseteq S
BY DEF Ancestors

\* A branch is closed under Prev.
LEMMA AncestorsClosed ==
  ASSUME NEW b \in Blocks
  PROVE  ClosedUnderPrev(Ancestors[b])
BY DEF Ancestors, ClosedUnderPrev

\* Being an ancestor is transitive.
LEMMA AncestorsTransitive ==
  ASSUME NEW c \in Blocks, NEW b \in Ancestors[c]
  PROVE  Ancestors[b] \subseteq Ancestors[c]
<1>1. Ancestors[c] \in SUBSET Blocks /\ b \in Blocks
  BY AncestorsOfBlock
<1> QED
  BY <1>1, AncestorsLeast, AncestorsClosed

\* The branch of a block contains that of its parent.
LEMMA AncestorsOfParent ==
  ASSUME NEW b \in Blocks, Prev[b] \in Blocks
  PROVE  Ancestors[Prev[b]] \subseteq Ancestors[b]
<1>1. Prev[b] \in Ancestors[b]
  BY AncestorsOfBlock, AncestorsClosed DEF ClosedUnderPrev
<1> QED
  BY <1>1, AncestorsTransitive

\* An ancestor other than the block itself is an ancestor of its parent.
LEMMA AncestorsSplit ==
  ASSUME NEW b \in Blocks, NEW a \in Ancestors[b], a # b
  PROVE  Prev[b] \in Blocks /\ a \in Ancestors[Prev[b]]
<1>1. Prev[b] \in Blocks
  <2>1. SUFFICES ASSUME Prev[b] \notin Blocks PROVE FALSE
    OBVIOUS
  <2>2. ClosedUnderPrev({b})
    BY <2>1 DEF ClosedUnderPrev
  <2> QED
    BY <2>2, AncestorsLeast
<1>2. DEFINE S == {b} \cup Ancestors[Prev[b]]
<1>3. S \in SUBSET Blocks
  BY <1>1, AncestorsOfBlock
<1>4. ClosedUnderPrev(S)
  BY <1>1, AncestorsOfBlock, AncestorsClosed DEF ClosedUnderPrev
<1>5. Ancestors[b] \subseteq S
  <2> HIDE DEF S
  <2>1. b \in S
    BY DEF S
  <2> QED
    BY <2>1, <1>3, <1>4, AncestorsLeast
<1> QED
  BY <1>1, <1>5

\* Block numbers increase along a branch,
LEMMA AncestorsOrdered ==
  ASSUME NEW b \in Blocks, NEW a \in Ancestors[b]
  PROVE  /\ Num[a] <= Num[b]
         /\ a # b => Num[a] < Num[b]
<1> USE TreeAssumption, NumberAssumption
<1>1. DEFINE S == {x \in Blocks : x = b \/ Num[x] < Num[b]}
<1>2. ClosedUnderPrev(S)
  <2>1. SUFFICES ASSUME NEW x \in S, Prev[x] \in Blocks PROVE Prev[x] \in S
    BY DEF ClosedUnderPrev
  <2>2. x # Genesis
    BY <2>1
  <2>3. Num[x] = Num[Prev[x]] + 1
    BY <2>2
  <2> QED
    BY <2>1, <2>3
<1>3. b \in S
  OBVIOUS
<1>4. Ancestors[b] \subseteq S
  <2> HIDE DEF S
  <2>1. S \in SUBSET Blocks
    BY DEF S
  <2> QED
    BY <2>1, <1>2, <1>3, AncestorsLeast
<1> QED
  BY <1>4

\* and irreversible numbers do where they do from a block to the next.
LEMMA LibsOrdered ==
  ASSUME LibGrows, NEW b \in Blocks, NEW a \in Ancestors[b]
  PROVE  Lib[a] <= Lib[b]
<1>1. DEFINE S == {x \in Blocks : Lib[x] <= Lib[b]}
<1>2. ClosedUnderPrev(S)
  BY TreeAssumption, NumberAssumption DEF ClosedUnderPrev, LibGrows
<1>3. b \in S
  BY NumberAssumption
<1>4. Ancestors[b] \subseteq S
  <2> HIDE DEF S
  <2>1. S \in SUBSET Blocks
    BY DEF S
  <2> QED
    BY <2>1, <1>2, <1>3, AncestorsLeast
<1> QED
  BY <1>4

\* Two blocks that are each other's ancestor are the same.
LEMMA AncestorsAntisymmetric ==
  ASSUME NEW a \in Blocks, NEW b \in Blocks, a \in Ancestors[b], b \in Ancestors[a]
  PROVE  a = b
BY AncestorsOrdered, NumberAssumption

\* A branch is a line: of two blocks on it one is the ancestor of the other.
LEMMA AncestorsLinear ==
  ASSUME NEW t \in Blocks, NEW a \in Ancestors[t], NEW b \in Ancestors[t]
  PROVE  a \in Ancestors[b] \/ b \in Ancestors[a]
<1>1. a \in Blocks /\ b \in Blocks
  BY AncestorsOfBlock
<1>2. DEFINE S == {x \in Blocks : a \in Ancestors[x] \/ x \in Ancestors[a]}
<1>3. ClosedUnderPrev(S)
  <2>1. SUFFICES ASSUME NEW x \in S, Prev[x] \in Blocks PROVE Prev[x] \in S
    BY DEF ClosedUnderPrev
  <2>2. CASE x \in Ancestors[a]
    BY <1>1, <2>1, <2>2, AncestorsClosed DEF ClosedUnderPrev
  <2>3. CASE a \in Ancestors[x] /\ a # x
    BY <1>1, <2>1, <2>3, AncestorsSplit
  <2> QED
    BY <1>1, <2>1, <2>2, <2>3, AncestorsOfBlock
<1>4. Ancestors[t] \subseteq S
  <2>1. S \in SUBSET Blocks /\ t \in S
    OBVIOUS
  <2> HIDE DEF S
  <2> QED
    BY <2>1, <1>3, AncestorsLeast
<1> QED
  BY <1>4

\* On a branch there is one block for each number.
LEMMA BranchNumbersDiffer ==
  ASSUME NEW t \in Blocks, NEW a \in Ancestors[t], NEW b \in Ancestors[t],
         Num[a] = Num[b]
  PROVE  a = b
<1>1. a \in Blocks /\ b \in Blocks /\ Num[a] \in Nat
  BY AncestorsOfBlock, NumberAssumption
<1> QED
  BY <1>1, AncestorsLinear, AncestorsOrdered

\* What AncestorAt finds.
LEMMA AncestorAtFinds ==
  ASSUME NEW t \in Blocks, NEW a \in Ancestors[t]
  PROVE  AncestorAt(t, Num[a]) = a
<1>1. /\ AncestorAt(t, Num[a]) \in Ancestors[t]
      /\ Num[AncestorAt(t, Num[a])] = Num[a]
  BY DEF AncestorAt
<1> QED
  BY <1>1, BranchNumbersDiffer

\* The blocks of a branch above one of its members are those with a higher number.
LEMMA BranchAbove ==
  ASSUME NEW t \in Blocks, NEW a \in Ancestors[t], NEW x \in Ancestors[t]
  PROVE  x \notin Ancestors[a] <=> Num[x] > Num[a]
<1>1. a \in Blocks /\ x \in Blocks /\ Num[a] \in Nat /\ Num[x] \in Nat
  BY AncestorsOfBlock, NumberAssumption
<1>2. CASE x \in Ancestors[a]
  BY <1>1, <1>2, AncestorsOrdered
<1>3. CASE x \notin Ancestors[a]
  <2>1. a \in Ancestors[x] /\ a # x
    BY <1>1, <1>3, AncestorsLinear, AncestorsOfBlock
  <2> QED
    BY <1>1, <1>3, <2>1, AncestorsOrdered
<1> QED
  BY <1>2, <1>3

\* The branch of a block is that of its parent with the block on top.
LEMMA AncestorsOfChild ==
  ASSUME NEW b \in Blocks, NEW p \in Blocks, Prev[b] = p
  PROVE  /\ Ancestors[b] = Ancestors[p] \cup {b}
         /\ b \notin Ancestors[p]
         /\ Num[b] = Num[p] + 1
<1>1. Num[b] = Num[p] + 1
  BY TreeAssumption, NumberAssumption
<1>2. b \notin Ancestors[p]
  BY <1>1, AncestorsOrdered, NumberAssumption
<1>3. Ancestors[b] \subseteq Ancestors[p] \cup {b}
  BY AncestorsSplit
<1>4. Ancestors[p] \cup {b} \subseteq Ancestors[b]
  BY AncestorsOfBlock, AncestorsOfParent
<1> QED
  BY <1>1, <1>2, <1>3, <1>4

(***************************************************************************)
(* Facts about the fork choice.                                            *)
(***************************************************************************)
\* An ancestor is never preferred to its descendant.
LEMMA AncestorNotPreferred ==
  ASSUME LibGrows, NEW b \in Blocks, NEW a \in Ancestors[b]
  PROVE  ~ first_preferred(a, b)
<1>1. a \in Blocks
  BY AncestorsOfBlock
<1> QED
  BY <1>1, AncestorsOrdered, LibsOrdered, NumberAssumption DEF first_preferred

\* Nothing is preferred to the first element of a set in the index's order.
LEMMA NonePreferredToFirst ==
  ASSUME NEW S \in SUBSET Blocks, NEW c \in S, IsFirstOf(c, S), NEW x \in S
  PROVE  ~ first_preferred(x, c)
BY NumberAssumption DEF IsFirstOf, Precedes, first_preferred

\* The fork choice is a weak order.
LEMMA PreferenceIsWeakOrder ==
  ASSUME NEW x \in Blocks, NEW y \in Blocks, NEW z \in Blocks,
         ~ first_preferred(x, y), ~ first_preferred(y, z)
  PROVE  ~ first_preferred(x, z)
BY NumberAssumption DEF first_preferred

\* A block is preferred to every other block of its branch.
LEMMA PreferredToAncestor ==
  ASSUME LibGrows, NEW b \in Blocks, NEW a \in Ancestors[b], a # b
  PROVE  first_preferred(b, a)
<1>1. a \in Blocks
  BY AncestorsOfBlock
<1> QED
  BY <1>1, AncestorsOrdered, LibsOrdered, NumberAssumption DEF first_preferred

\* A block is preferred to its parent.
LEMMA PreferredToParent ==
  ASSUME LibGrows, NEW b \in Blocks, NEW p \in Blocks, Prev[b] = p
  PROVE  first_preferred(b, p)
BY TreeAssumption, NumberAssumption DEF LibGrows, first_preferred

\* The order of the index is total and transitive.
LEMMA PrecedesIsOrder ==
  ASSUME NEW x \in Blocks, NEW y \in Blocks, NEW z \in Blocks
  PROVE  /\ x # y => Precedes(x, y) \/ Precedes(y, x)
         /\ Precedes(x, y) /\ Precedes(y, z) => Precedes(x, z)
BY NumberAssumption, IdAssumption DEF Precedes, first_preferred

\* A finite set of blocks has a first element in the order of the index: a set
\* without one would have a least such subset, and that has no element to spare.
LEMMA FirstExists ==
  ASSUME NEW S \in SUBSET Blocks, IsFiniteSet(S), S # {}
  PROVE  \E c \in S : IsFirstOf(c, S)
<1>1. SUFFICES ASSUME ~ \E c \in S : IsFirstOf(c, S) PROVE FALSE
  OBVIOUS
<1>2. DEFINE C == {T \in SUBSET S : T # {} /\ ~ \E c \in T : IsFirstOf(c, T)}
<1>3. C \subseteq FiniteSubsetsOf(S) /\ C # {}
  <2>1. FiniteSubsetsOf(S) = SUBSET S
    BY FS_FiniteSubsetsOfFinite
  <2> QED
    BY <2>1, <1>1
<1>4. PICK T \in C : \A U \in C : <<U, T>> \notin StrictSubsetOrdering(S)
  <2>1. IsWellFoundedOn(StrictSubsetOrdering(S), FiniteSubsetsOf(S))
    BY FS_StrictSubsetOrderingWellFounded
  <2> HIDE DEF C
  <2> QED
    BY <2>1, <1>3, WFMin
<1>5. T \in SUBSET S /\ T # {} /\ ~ \E c \in T : IsFirstOf(c, T)
  OBVIOUS
<1>6. PICK x : x \in T
  BY <1>5
<1>7. DEFINE U == T \ {x}
<1>8. U # {}
  BY <1>5, <1>6 DEF IsFirstOf
<1>9. \E d \in U : IsFirstOf(d, U)
  <2>1. <<U, T>> \in StrictSubsetOrdering(S)
    BY <1>5, <1>6 DEF StrictSubsetOrdering
  <2>2. U \notin C
    BY <2>1, <1>4
  <2> QED
    BY <2>2, <1>5, <1>8
<1>10. PICK d \in U : IsFirstOf(d, U)
  BY <1>9
<1>11. CASE Precedes(x, d)
  <2>1. ASSUME NEW y \in T \ {x} PROVE Precedes(x, y)
    BY <1>5, <1>6, <1>10, <1>11, <2>1, PrecedesIsOrder DEF IsFirstOf
  <2> QED
    BY <2>1, <1>5, <1>6 DEF IsFirstOf
<1>12. CASE Precedes(d, x)
  <2>1. ASSUME NEW y \in T \ {d} PROVE Precedes(d, y)
    BY <1>5, <1>6, <1>10, <1>12, <2>1 DEF IsFirstOf
  <2> QED
    BY <2>1, <1>5, <1>10 DEF IsFirstOf
<1> QED
  BY <1>5, <1>6, <1>10, <1>11, <1>12, PrecedesIsOrder

-----------------------------------------------------------------------------
(***************************************************************************)
(* The inductive invariant, one lemma for each operation.  The three parts *)
(* of ForkDbInv need each other: add and mark_valid keep HeadIsBestValid   *)
(* because, by NoOrphans, the root is an ancestor of all; remove and       *)
(* advance_root keep the head because it is a block of the database.       *)
(***************************************************************************)
\* The root is not in the index, and only known blocks are validated.
LEMMA RootOutsideIndex ==
  ASSUME ForkDbInv
  PROVE  root \notin index /\ validated \subseteq index \cup {root}
BY DEF ForkDbInv, NoOrphans, HeadIsBestValid, Known

\* reset keeps the invariant.
LEMMA ResetKeepsInv ==
  ASSUME NEW b \in Blocks, Reset(b)
  PROVE  ForkDbInv'
<1>1. ~ first_preferred(b, b)
  BY NumberAssumption DEF first_preferred
<1> QED
  BY <1>1 DEF Reset, ForkDbInv, ForkDbTypeOK, NoOrphans, HeadIsBestValid, Known

\* rollback_head_to_root keeps the invariant.
LEMMA RollbackKeepsInv ==
  ASSUME ForkDbInv, RollbackHeadToRoot
  PROVE  ForkDbInv'
<1>1. ~ first_preferred(root, root)
  BY NumberAssumption DEF first_preferred, ForkDbInv, ForkDbTypeOK
<1> QED
  BY <1>1 DEF RollbackHeadToRoot, ForkDbInv, ForkDbTypeOK, NoOrphans,
              HeadIsBestValid, Known

\* add keeps the invariant.
LEMMA AddKeepsInv ==
  ASSUME LibGrows, NEW b \in Blocks, ForkDbInv, Add(b)
  PROVE  ForkDbInv'
<1> USE DEF ForkDbInv, ForkDbTypeOK
<1>1. Prev[b] \in Blocks
  BY DEF Add, Known
<1>2. root \in Ancestors[Prev[b]]
  BY <1>1, AncestorsOfBlock DEF Add, Known, NoOrphans
<1>3. root \in Ancestors[b]
  BY <1>1, <1>2, AncestorsOfParent
<1>4. b # root
  <2>1. Num[root] <= Num[Prev[b]]
    BY <1>1, <1>2, AncestorsOrdered
  <2>2. Num[b] = Num[Prev[b]] + 1
    BY <1>1, TreeAssumption, NumberAssumption
  <2> QED
    BY <1>1, <2>1, <2>2, NumberAssumption
<1>5. NoOrphans'
  BY <1>3, <1>4 DEF Add, NoOrphans, Known
<1>6. index' \cap validated = index \cap validated
  BY <1>4, RootOutsideIndex DEF Add
<1>7. HeadIsBestValid'
  <2>1. CASE index' \cap validated = {}
    BY <2>1 DEF Add, HeadIsBestValid, Known
  <2>2. CASE index' \cap validated # {}
    <3>1. PICK c \in index \cap validated :
                 IsFirstOf(c, index \cap validated) /\ fhead' = c
      BY <2>2, <1>6 DEF Add
    <3>2. ASSUME NEW x \in validated PROVE ~ first_preferred(x, c)
      <4>1. CASE x = root
        BY <4>1, AncestorNotPreferred DEF NoOrphans
      <4>2. CASE x \in index
        BY <4>2, <3>1, NonePreferredToFirst
      <4> QED
        BY <4>1, <4>2, RootOutsideIndex
    <3> QED
      BY <3>1, <3>2, <2>2 DEF Add, HeadIsBestValid, Known
  <2> QED
    BY <2>1, <2>2
<1>8. ForkDbTypeOK'
  BY <1>7 DEF Add, HeadIsBestValid
<1> QED
  BY <1>5, <1>7, <1>8

\* mark_valid keeps the invariant.
LEMMA MarkValidKeepsInv ==
  ASSUME LibGrows, NEW b \in Blocks, ForkDbInv, MarkValid(b)
  PROVE  ForkDbInv'
<1> USE DEF ForkDbInv, ForkDbTypeOK
<1>1. CASE UNCHANGED forkdbVars
  BY <1>1 DEF forkdbVars, NoOrphans, HeadIsBestValid, Known
<1>2. CASE b \notin validated
  <2>1. /\ b \in index
        /\ validated' = validated \cup {b}
        /\ index' = index
        /\ root' = root
    BY <1>2 DEF MarkValid
  <2>2. PICK c \in index \cap validated' :
               /\ IsFirstOf(c, index \cap validated')
               /\ fhead' = IF first_preferred(c, fhead) THEN c ELSE fhead
    BY <1>2 DEF MarkValid
  <2>3. ASSUME NEW x \in validated' PROVE ~ first_preferred(x, c)
    <3>1. CASE x = root
      BY <3>1, AncestorNotPreferred DEF NoOrphans
    <3>2. CASE x \in index
      BY <3>2, <2>2, <2>1, NonePreferredToFirst
    <3> QED
      BY <3>1, <3>2, <2>1, RootOutsideIndex
  <2>4. ASSUME NEW x \in validated' PROVE ~ first_preferred(x, fhead')
    BY <2>1, <2>2, <2>3, PreferenceIsWeakOrder
  <2>5. fhead' \in validated' /\ Known(fhead')
    BY <2>1, <2>2 DEF HeadIsBestValid, Known
  <2>6. HeadIsBestValid'
    BY <2>1, <2>4, <2>5 DEF HeadIsBestValid, Known
  <2>7. NoOrphans' /\ ForkDbTypeOK'
    BY <2>1, <2>5 DEF NoOrphans, Known
  <2> QED
    BY <2>6, <2>7
<1> QED
  BY <1>1, <1>2 DEF MarkValid

\* remove keeps the invariant.
LEMMA RemoveKeepsInv ==
  ASSUME NEW b \in Blocks, ForkDbInv, Remove(b)
  PROVE  ForkDbInv'
<1> USE DEF ForkDbInv, ForkDbTypeOK
<1>1. root \notin DescendantsIn(index, b)
  BY RootOutsideIndex DEF DescendantsIn
<1>2. HeadIsBestValid'
  BY <1>1 DEF Remove, HeadIsBestValid, Known
<1>3. ASSUME NEW x \in index, x \notin DescendantsIn(index, b)
      PROVE  Prev[x] \notin DescendantsIn(index, b)
  BY <1>3, AncestorsOfParent DEF DescendantsIn
<1>4. NoOrphans'
  BY <1>3 DEF Remove, NoOrphans, Known
<1> QED
  BY <1>2, <1>4 DEF Remove

\* advance_root keeps the invariant.
LEMMA AdvanceRootKeepsInv ==
  ASSUME NEW b \in Blocks, ForkDbInv, AdvanceRoot(b)
  PROVE  ForkDbInv'
<1> USE DEF ForkDbInv, ForkDbTypeOK
<1>1. b # root /\ root \in Ancestors[b]
  BY DEF AdvanceRoot, NoOrphans
<1>2. ASSUME NEW x \in DescendantsIn(index, b), x # b
      PROVE  Prev[x] \in DescendantsIn(index, b)
  <2>1. Prev[x] \in Blocks /\ b \in Ancestors[Prev[x]]
    BY <1>2, AncestorsSplit DEF DescendantsIn
  <2>2. Prev[x] # root
    BY <2>1, <1>1, AncestorsAntisymmetric
  <2> QED
    BY <2>1, <2>2 DEF DescendantsIn, NoOrphans, Known
<1>3. NoOrphans'
  BY <1>2 DEF AdvanceRoot, NoOrphans, Known, DescendantsIn
<1>4. b \in DescendantsIn(index, b)
  BY AncestorsOfBlock DEF AdvanceRoot, DescendantsIn
<1>5. HeadIsBestValid'
  BY <1>4 DEF AdvanceRoot, HeadIsBestValid, Known
<1> QED
  BY <1>3, <1>5 DEF AdvanceRoot, DescendantsIn

\* Every block between the root and a block of the database is in the database.
LEMMA KnownBetween ==
  ASSUME ForkDbInv, NEW b \in Blocks, Known(b), NEW x \in Ancestors[b],
         root \in Ancestors[x]
  PROVE  Known(x)
<1> USE DEF ForkDbInv, ForkDbTypeOK
<1>1. DEFINE S == {y \in Blocks : Known(y) \/ y \in Ancestors[root]}
<1>2. S \in SUBSET Blocks /\ b \in S
  OBVIOUS
<1>3. ClosedUnderPrev(S)
  <2>1. SUFFICES ASSUME NEW y \in S, Prev[y] \in Blocks PROVE Prev[y] \in S
    BY DEF ClosedUnderPrev
  <2>2. CASE y \in index
    BY <2>1, <2>2 DEF NoOrphans
  <2>3. CASE y \in Ancestors[root]
    BY <2>1, <2>3, AncestorsClosed DEF ClosedUnderPrev
  <2> QED
    BY <2>1, <2>2, <2>3, AncestorsOfBlock DEF Known
<1>4. x \in S
  <2> HIDE DEF S
  <2> QED
    BY <1>2, <1>3, AncestorsLeast
<1> QED
  BY <1>4, AncestorsAntisymmetric DEF Known

\* What add does: the head may only move to its equal in the fork choice.
LEMMA AddEffect ==
  ASSUME LibGrows, NEW b \in Blocks, ForkDbInv, Add(b)
  PROVE  /\ index' = index \cup {b}
         /\ UNCHANGED <<validated, root>>
         /\ b \notin validated
         /\ root \in Ancestors[b]
         /\ fhead' \in validated /\ fhead' \in Blocks
         /\ ~ first_preferred(fhead', fhead)
         /\ ~ first_preferred(fhead, fhead')
<1>1. ForkDbInv'
  BY AddKeepsInv
<1>2. index' = index \cup {b} /\ UNCHANGED <<validated, root>> /\ b \notin index
  BY DEF Add
<1>3. b # root /\ root \in Ancestors[b]
  BY <1>1, <1>2 DEF ForkDbInv, NoOrphans
<1>4. b \notin validated
  BY <1>2, <1>3, RootOutsideIndex
<1> QED
  BY <1>1, <1>2, <1>3, <1>4 DEF ForkDbInv, ForkDbTypeOK, HeadIsBestValid

\* What mark_valid does: the head moves exactly to a block preferred to it.
LEMMA MarkValidEffect ==
  ASSUME NEW b, ForkDbInv, MarkValid(b)
  PROVE  /\ b \in Blocks
         /\ Known(b)
         /\ UNCHANGED <<index, root>>
         /\ validated' = validated \cup {b}
         /\ fhead' = IF first_preferred(b, fhead) THEN b ELSE fhead
<1> USE DEF ForkDbInv, ForkDbTypeOK
<1>1. CASE b \in validated
  BY <1>1 DEF MarkValid, forkdbVars, HeadIsBestValid
<1>2. CASE b \notin validated
  <2>1. /\ b \in index
        /\ validated' = validated \cup {b}
        /\ UNCHANGED <<index, root>>
    BY <1>2 DEF MarkValid
  <2>2. PICK c \in index \cap validated' :
               /\ IsFirstOf(c, index \cap validated')
               /\ fhead' = IF first_preferred(c, fhead) THEN c ELSE fhead
    BY <1>2 DEF MarkValid
  <2>3. b \in Blocks /\ c \in Blocks /\ fhead \in Blocks
    BY <2>1, <2>2
  <2>4. ~ first_preferred(b, c)
    BY <2>1, <2>2, NonePreferredToFirst
  <2>5. c # b => ~ first_preferred(c, fhead)
    BY <2>1, <2>2 DEF HeadIsBestValid
  <2>6. fhead' = IF first_preferred(b, fhead) THEN b ELSE fhead
    BY <2>2, <2>3, <2>4, <2>5, PreferenceIsWeakOrder
  <2> QED
    BY <2>1, <2>3, <2>6 DEF Known
<1> QED
  BY <1>1, <1>2

\* No block that waits for validation is preferred to b.
NoneBetter(b) == \A x \in index \ validated : ~ first_preferred(x, b)

\* What pending_head returns.
LEMMA PendingHeadIs ==
  ASSUME ForkDbInv
  PROVE  \/ pending_head = fhead
         \/ /\ pending_head \in index \ validated
            /\ first_preferred(pending_head, fhead)
            /\ NoneBetter(pending_head)
<1> USE DEF ForkDbInv, ForkDbTypeOK
<1>1. DEFINE waiting == {b \in index \ validated : IsFirstOf(b, index \ validated)}
<1>2. SUFFICES ASSUME pending_head # fhead
               PROVE  /\ pending_head \in index \ validated
                      /\ first_preferred(pending_head, fhead)
                      /\ NoneBetter(pending_head)
  OBVIOUS
<1>3. PICK b \in waiting : first_preferred(b, fhead)
  BY <1>2 DEF pending_head
<1>4. pending_head \in waiting
  BY <1>3 DEF pending_head
<1>5. NoneBetter(pending_head)
  BY <1>4, NonePreferredToFirst DEF NoneBetter
<1>6. first_preferred(pending_head, fhead)
  BY <1>3, <1>4, <1>5, PreferenceIsWeakOrder DEF NoneBetter
<1> QED
  BY <1>4, <1>5, <1>6

\* pending_head is the head exactly when no waiting block is preferred to it.
LEMMA PendingHeadIsHead ==
  ASSUME ForkDbInv, IsFiniteSet(index)
  PROVE  pending_head = fhead <=> NoneBetter(fhead)
<1> USE DEF ForkDbInv, ForkDbTypeOK
<1>1. ASSUME NoneBetter(fhead) PROVE pending_head = fhead
  BY <1>1, PendingHeadIs DEF NoneBetter
<1>2. ASSUME pending_head = fhead, NEW x \in index \ validated, first_preferred(x, fhead)
      PROVE  FALSE
  <2>1. IsFiniteSet(index \ validated)
    BY FS_Difference
  <2>2. PICK c \in index \ validated : IsFirstOf(c, index \ validated)
    BY <1>2, <2>1, FirstExists
  <2>3. ~ first_preferred(x, c)
    BY <1>2, <2>2, NonePreferredToFirst
  <2>4. first_preferred(c, fhead)
    BY <1>2, <2>2, <2>3, PreferenceIsWeakOrder
  <2>5. \E b \in {y \in index \ validated : IsFirstOf(y, index \ validated)} :
           first_preferred(b, fhead)
    BY <2>2, <2>4
  <2>6. pending_head \in index \ validated
    BY <2>5 DEF pending_head
  <2> QED
    BY <1>2, <2>6 DEF HeadIsBestValid
<1> QED
  BY <1>1, <1>2 DEF NoneBetter

\* Every step of the fork database keeps the invariant.
LEMMA ForkDbStepKeepsInv ==
  ASSUME LibGrows, ForkDbInv, [ForkDbNext]_forkdbVars
  PROVE  ForkDbInv'
<1>1. CASE RollbackHeadToRoot
  BY <1>1, RollbackKeepsInv
<1>2. ASSUME NEW b \in Blocks, Reset(b) PROVE ForkDbInv'
  BY <1>2, ResetKeepsInv
<1>3. ASSUME NEW b \in Blocks, Add(b) PROVE ForkDbInv'
  BY <1>3, AddKeepsInv
<1>4. ASSUME NEW b \in Blocks, MarkValid(b) PROVE ForkDbInv'
  BY <1>4, MarkValidKeepsInv
<1>5. ASSUME NEW b \in Blocks, Remove(b) PROVE ForkDbInv'
  BY <1>5, RemoveKeepsInv
<1>6. ASSUME NEW b \in Blocks, AdvanceRoot(b) PROVE ForkDbInv'
  BY <1>6, AdvanceRootKeepsInv
<1>7. CASE UNCHANGED forkdbVars
  BY <1>7 DEF forkdbVars, ForkDbInv, ForkDbTypeOK, NoOrphans, HeadIsBestValid, Known
<1> QED
  BY <1>1, <1>2, <1>3, <1>4, <1>5, <1>6, <1>7 DEF ForkDbNext

(***************************************************************************)
(* The fork database of fork_database.cpp, used in any way: it is well     *)
(* typed, holds no orphan, and its head is a valid block to which no valid *)
(* block is preferred.                                                     *)
(***************************************************************************)
THEOREM ForkDbCorrect ==
  ASSUME LibGrows
  PROVE  ForkDbSpec => [](ForkDbTypeOK /\ NoOrphans /\ HeadIsBestValid)
<1>1. ForkDbInit => ForkDbInv
  <2>1. ~ first_preferred(Genesis, Genesis)
    BY TreeAssumption, NumberAssumption DEF first_preferred
  <2> QED
    BY <2>1, TreeAssumption DEF ForkDbInit, ForkDbInv, ForkDbTypeOK, NoOrphans,
                                HeadIsBestValid, Known
<1>2. ForkDbInv /\ [ForkDbNext]_forkdbVars => ForkDbInv'
  BY ForkDbStepKeepsInv
<1> QED
  BY <1>1, <1>2, PTL DEF ForkDbSpec, ForkDbInv
-----------------------------------------------------------------------------

\* job is a record with its four fields, and a call returns to a caller.
JobIsRecord ==
  /\ job = At(job.pc, job.new, job.old, job.after)
  /\ job.after \in {"idle", "push", "replay", "loop"}

LogTypeOK == blog \in Seq(Blocks) /\ blog # <<>>

\* While log_irreversible runs, its root_id is the end of the block log, and on
\* the branch it is logging.
LoggingInv ==
  job.pc \in {"logging", "trim"} =>
    /\ job.new \in Blocks
    /\ job.old \in Ancestors[job.new]
    /\ job.old = logHead

LogInv == JobIsRecord /\ LogTypeOK /\ LogIsChain /\ LoggingInv
CtrlInv == ForkDbInv /\ LogInv

\* pending_head is a block of the database.
LEMMA PendingHeadKnown ==
  ASSUME ForkDbInv
  PROVE  pending_head \in Blocks /\ root \in Ancestors[pending_head]
<1>1. pending_head \in index \cup {fhead}
  BY DEF pending_head
<1>2. fhead \in Blocks /\ root \in Ancestors[fhead]
  BY AncestorsOfBlock DEF ForkDbInv, ForkDbTypeOK, HeadIsBestValid, NoOrphans, Known
<1> QED
  BY <1>1, <1>2 DEF ForkDbInv, ForkDbTypeOK, NoOrphans

\* On the way from an ancestor to a block there is a next block.
LEMMA NextTowardsExists ==
  ASSUME NEW t \in Blocks, NEW a \in Ancestors[t], a # t
  PROVE  /\ NextTowards(a, t) \in Ancestors[t]
         /\ Prev[NextTowards(a, t)] = a
<1>1. \E x \in Ancestors[t] : Prev[x] = a
  <2>1. SUFFICES ASSUME \A x \in Ancestors[t] : Prev[x] # a PROVE FALSE
    OBVIOUS
  <2>2. DEFINE S == Ancestors[t] \ {a}
  <2>3. S \in SUBSET Blocks /\ t \in S
    BY AncestorsOfBlock
  <2>4. ClosedUnderPrev(S)
    BY <2>1, AncestorsClosed DEF ClosedUnderPrev
  <2>5. Ancestors[t] \subseteq S
    <3> HIDE DEF S
    <3> QED
      BY <2>3, <2>4, AncestorsLeast
  <2> QED
    BY <2>5
<1> QED
  BY <1>1 DEF NextTowards

\* What remove does to a name that is no block: nothing.
LEMMA RemoveAnything ==
  ASSUME LibGrows, NEW b, ForkDbInv, Remove(b)
  PROVE  ForkDbInv'
<1>1. CASE b \in Blocks
  BY <1>1, RemoveKeepsInv
<1>2. CASE b \notin Blocks
  <2>1. DescendantsIn(index, b) = {}
    BY <1>2, AncestorsOfBlock DEF DescendantsIn, ForkDbInv, ForkDbTypeOK
  <2>2. UNCHANGED forkdbVars
    BY <2>1 DEF Remove, forkdbVars
  <2> QED
    BY <2>2, ForkDbStepKeepsInv
<1> QED
  BY <1>1, <1>2

\* mark_valid, whatever it is given.
LEMMA MarkValidAnything ==
  ASSUME LibGrows, NEW b, ForkDbInv, MarkValid(b)
  PROVE  ForkDbInv'
<1>1. b \in Blocks
  BY DEF MarkValid, ForkDbInv, ForkDbTypeOK
<1> QED
  BY <1>1, MarkValidKeepsInv

\* advance_root, whatever it is given.
LEMMA AdvanceRootAnything ==
  ASSUME NEW b, ForkDbInv, AdvanceRoot(b)
  PROVE  ForkDbInv'
<1>1. b \in Blocks
  BY DEF AdvanceRoot, ForkDbInv, ForkDbTypeOK
<1> QED
  BY <1>1, AdvanceRootKeepsInv

\* Stuttering of the fork database.
LEMMA ForkDbUnchanged ==
  ASSUME LibGrows, ForkDbInv, UNCHANGED forkdbVars
  PROVE  ForkDbInv'
BY ForkDbStepKeepsInv

\* A step that leaves the block log alone and does not start logging.
LEMMA LogUntouched ==
  ASSUME LogInv, blog' = blog, JobIsRecord',
         job'.pc \notin {"logging", "trim"}
  PROVE  LogInv'
BY DEF LogInv, LogTypeOK, LogIsChain, LoggingInv

-----------------------------------------------------------------------------
\* Actions that touch neither the fork database nor the block log.
QuietStep ==
  \/ AbortBlock \/ StartBlock \/ Crash \/ Shutdown
  \/ \E t \in Trxs : PushTransaction(t)
  \/ PushSession \/ ChooseFork \/ SwitchPop
  \/ UnwindPop \/ UnwindApply \/ UnwindDone \/ ReplayDone \/ InitBranch \/ InitDone

\* They keep the invariant.
LEMMA QuietStepKeepsInv ==
  ASSUME LibGrows, CtrlInv, QuietStep
  PROVE  CtrlInv'
<1> USE DEF CtrlInv, LogInv, JobIsRecord, At, Goto, Idle, Switch
<1>1. CASE AbortBlock
  BY <1>1, ForkDbUnchanged, LogUntouched DEF AbortBlock
<1>2. CASE StartBlock
  BY <1>2, ForkDbUnchanged, LogUntouched DEF StartBlock, Fails
<1>3. CASE Crash
  BY <1>3, ForkDbUnchanged, LogUntouched DEF Crash
<1>4. CASE Shutdown
  BY <1>4, ForkDbUnchanged, LogUntouched DEF Shutdown
<1>5. ASSUME NEW t \in Trxs, PushTransaction(t) PROVE CtrlInv'
  BY <1>5, ForkDbUnchanged, LogUntouched DEF PushTransaction
<1>6. CASE PushSession
  BY <1>6, ForkDbUnchanged, LogUntouched DEF PushSession
<1>7. CASE ChooseFork
  BY <1>7, ForkDbUnchanged, LogUntouched DEF ChooseFork
<1>8. CASE SwitchPop
  BY <1>8, ForkDbUnchanged, LogUntouched DEF SwitchPop, PopBlock
<1>9. CASE UnwindPop
  BY <1>9, ForkDbUnchanged, LogUntouched DEF UnwindPop, PopBlock
<1>10. CASE UnwindApply
  BY <1>10, ForkDbUnchanged, LogUntouched DEF UnwindApply
<1>11. CASE UnwindDone
  BY <1>11, ForkDbUnchanged, LogUntouched DEF UnwindDone, Fails, Thrown
<1>12. CASE ReplayDone
  BY <1>12, ForkDbUnchanged, LogUntouched DEF ReplayDone
<1>13. CASE InitBranch
  BY <1>13, ForkDbUnchanged, LogUntouched DEF InitBranch
<1>14. CASE InitDone
  BY <1>14, ForkDbUnchanged, LogUntouched DEF InitDone
<1> QED
  BY <1>1, <1>2, <1>3, <1>4, <1>5, <1>6, <1>7, <1>8, <1>9, <1>10, <1>11, <1>12,
     <1>13, <1>14 DEF QuietStep

\* Actions that call the fork database and leave the block log alone.
ForkDbStep ==
  \/ \E b \in Blocks : ProduceBlock(b) \/ PushBlock(b) \/ ReplayReversible(b)
  \/ CommitBlock \/ SwitchApply \/ SwitchFails \/ LogDone \/ LogFails
  \/ \E m \in Modes : Restart(m) \/ Startup(m)

\* They keep the invariant.
LEMMA ForkDbStepKeepsCtrlInv ==
  ASSUME LibGrows, CtrlInv, ForkDbStep
  PROVE  CtrlInv'
<1> USE DEF CtrlInv, LogInv, JobIsRecord, At, Goto, Idle, Switch
<1>1. ASSUME NEW b \in Blocks, ProduceBlock(b) PROVE CtrlInv'
  BY <1>1, AddKeepsInv, LogUntouched DEF ProduceBlock
<1>2. ASSUME NEW b \in Blocks, PushBlock(b) PROVE CtrlInv'
  BY <1>2, AddKeepsInv, LogUntouched DEF PushBlock
<1>3. ASSUME NEW b \in Blocks, ReplayReversible(b) PROVE CtrlInv'
  BY <1>3, AddKeepsInv, ForkDbUnchanged, LogUntouched DEF ReplayReversible, Fails
<1>4. CASE CommitBlock
  BY <1>4, MarkValidAnything, LogUntouched DEF CommitBlock
<1>5. CASE SwitchApply
  BY <1>5, MarkValidAnything, LogUntouched DEF SwitchApply
<1>6. CASE SwitchFails
  BY <1>6, RemoveAnything, LogUntouched DEF SwitchFails, ApplyFails, Thrown
<1>7. CASE LogDone
  BY <1>7, AdvanceRootAnything, LogUntouched DEF LogDone
<1>8. CASE LogFails
  BY <1>8, AdvanceRootAnything, ForkDbUnchanged, LogUntouched DEF LogFails, ApplyFails
<1>9. ASSUME NEW m \in Modes, Restart(m) PROVE CtrlInv'
  <2>1. logHead \in Blocks
    BY DEF logHead, LogTypeOK
  <2> QED
    BY <1>9, <2>1, ResetKeepsInv, ForkDbUnchanged, LogUntouched DEF Restart, Fails
<1>10. ASSUME NEW m \in Modes, Startup(m) PROVE CtrlInv'
  BY <1>10, RollbackKeepsInv, ForkDbUnchanged, LogUntouched DEF Startup, Fails
<1> QED
  BY <1>1, <1>2, <1>3, <1>4, <1>5, <1>6, <1>7, <1>8, <1>9, <1>10 DEF ForkDbStep

\* log_irreversible starts at the root, which is the end of the block log.
LEMMA LogStartKeepsInv ==
  ASSUME LibGrows, CtrlInv, LogStart
  PROVE  CtrlInv'
<1> USE DEF CtrlInv, LogInv, JobIsRecord, At, Goto
<1>1. ForkDbInv' /\ blog' = blog
  BY ForkDbUnchanged DEF LogStart, Fails
<1>2. fhead \in Blocks /\ root \in Ancestors[fhead]
  BY AncestorsOfBlock DEF ForkDbInv, ForkDbTypeOK, HeadIsBestValid, NoOrphans, Known
<1>3. CASE job'.pc \notin {"logging", "trim"}
  BY <1>1, <1>3, LogUntouched DEF LogStart, Fails
<1>4. CASE job'.pc \in {"logging", "trim"}
  <2>1. /\ root = logHead
        /\ \E f \in {pending_head, fhead} : job' = At("logging", f, root, job.after)
    BY <1>4 DEF LogStart, Fails
  <2>2. JobIsRecord' /\ LoggingInv'
    BY <2>1, <1>1, <1>2, PendingHeadKnown DEF LoggingInv, logHead
  <2> QED
    BY <1>1, <2>2 DEF LogTypeOK, LogIsChain
<1> QED
  BY <1>3, <1>4

\* A block appended to the log is a child of the last one.
LEMMA LogBlockKeepsInv ==
  ASSUME LibGrows, CtrlInv, LogBlock
  PROVE  CtrlInv'
<1> USE DEF CtrlInv, LogInv
<1>1. DEFINE b == NextTowards(job.old, job.new)
<1>2. /\ job.new \in Blocks
      /\ job.old \in Ancestors[job.new]
      /\ job.old = logHead
  BY DEF LogBlock, LoggingInv
<1>3. job.old # job.new
  BY <1>2, NumberAssumption DEF LogBlock
<1>4. b \in Ancestors[job.new] /\ b \in Blocks /\ Prev[b] = logHead
  BY <1>2, <1>3, NextTowardsExists, AncestorsOfBlock
<1>5. ForkDbInv'
  BY MarkValidAnything, ForkDbUnchanged DEF LogBlock
<1>6. blog' = Append(blog, b)
  BY DEF LogBlock
<1>7. job' = At("trim", job.new, b, job.after)
  BY DEF LogBlock, JobIsRecord, At
<1> HIDE DEF b
<1>8. LogTypeOK' /\ logHead' = b
  BY <1>4, <1>6 DEF LogTypeOK, logHead
<1>9. LogIsChain'
  BY <1>4, <1>6 DEF LogTypeOK, LogIsChain, logHead
<1>10. JobIsRecord' /\ LoggingInv'
  BY <1>2, <1>4, <1>7, <1>8 DEF JobIsRecord, LoggingInv, At
<1> QED
  BY <1>5, <1>8, <1>9, <1>10

\* Trimming the reversible blocks changes nothing of this.
LEMMA LogTrimKeepsInv ==
  ASSUME LibGrows, CtrlInv, LogTrim
  PROVE  CtrlInv'
BY ForkDbUnchanged DEF CtrlInv, LogInv, JobIsRecord, At, LogTrim, LogTypeOK,
                       LogIsChain, LoggingInv, logHead

\* The invariant is inductive.
LEMMA CtrlStepKeepsInv ==
  ASSUME LibGrows, CtrlInv, [Next]_vars
  PROVE  CtrlInv'
<1>1. CASE UNCHANGED vars
  BY <1>1, ForkDbUnchanged DEF vars, ctrlVars, CtrlInv, LogInv, JobIsRecord, At,
                               LogTypeOK, LogIsChain, LoggingInv, logHead
<1>2. CASE Next
  BY <1>2, QuietStepKeepsInv, ForkDbStepKeepsCtrlInv, LogStartKeepsInv,
     LogBlockKeepsInv, LogTrimKeepsInv DEF Next, Step, QuietStep, ForkDbStep
<1> QED
  BY <1>1, <1>2

\* It holds initially.
LEMMA CtrlInitInv ==
  ASSUME Init
  PROVE  CtrlInv
<1>1. ForkDbInv
  <2>1. ~ first_preferred(Genesis, Genesis)
    BY TreeAssumption, NumberAssumption DEF first_preferred
  <2> QED
    BY <2>1, TreeAssumption DEF Init, ForkDbInit, ForkDbInv, ForkDbTypeOK, NoOrphans,
                                HeadIsBestValid, Known
<1>2. LogInv
  BY TreeAssumption DEF Init, LogInv, JobIsRecord, LogTypeOK, LogIsChain, LoggingInv,
                        Idle, Goto, At
<1> QED
  BY <1>1, <1>2 DEF CtrlInv

(***************************************************************************)
(* Through everything the controller does, invalid blocks, failed fork     *)
(* switches, changes of mode and crashes included, the fork database holds *)
(* no orphan and its head is a valid block to which no valid block is      *)
(* preferred: every start of the node finds a fork_db.dat that open()      *)
(* accepts.                                                                *)
(***************************************************************************)
THEOREM ControllerKeepsForkDb ==
  ASSUME LibGrows
  PROVE  Spec => [](NoOrphans /\ HeadIsBestValid)
<1>1. CtrlInv => NoOrphans /\ HeadIsBestValid
  BY DEF CtrlInv, ForkDbInv
<1> QED
  BY <1>1, CtrlInitInv, CtrlStepKeepsInv, PTL DEF Spec

(***************************************************************************)
(* The block log that log_irreversible writes is a chain, each block       *)
(* appended after its parent, whatever forks, crashes and restarts happen  *)
(* in between.                                                             *)
(***************************************************************************)
THEOREM BlockLogIsChain ==
  ASSUME LibGrows
  PROVE  Spec => []LogIsChain
<1>1. CtrlInv => LogIsChain
  BY DEF CtrlInv, LogInv
<1> QED
  BY <1>1, CtrlInitInv, CtrlStepKeepsInv, PTL DEF Spec

-----------------------------------------------------------------------------
(***************************************************************************)
(* What the controller keeps in step: head, chainbase, the reversible      *)
(* blocks, the block log and the fork database, for every tree of blocks,  *)
(* every set of invalid blocks, both modes, orderly stops and crashes.     *)
(*                                                                         *)
(* The properties of module Controller speak of the moments when no        *)
(* handler runs.  The inductive invariant says what holds between, at each *)
(* value of job.pc: which two stores have moved already, and why the fork  *)
(* choice brings the head of the fork database and the head of the         *)
(* controller together again.                                              *)
(***************************************************************************)
(***************************************************************************)
(* The inductive invariant.                                                *)
(***************************************************************************)
\* The reversible blocks are the branch from the end of the block log to t; the
\* block just logged may still be among them.
RevChain(t) ==
  /\ logHead \in Ancestors[t]
  /\ rev \ {logHead} = Ancestors[t] \ Ancestors[logHead]

\* A process runs or has been stopped in an orderly way.
Live == job.pc \notin {"crashed", "halt"}
\* init is replaying the reversible blocks.
Replaying == job.pc = "replay" \/ job.after = "replay"
\* commit_block has set head and not yet pushed the session of chainbase.
Pushing == job.pc = "push" \/ job.after = "push"

\* What the files hold, at every step and after a crash too.
StoreInv ==
  /\ head \in Blocks
  /\ dbAt \in Blocks
  /\ mode \in Modes
  /\ dbBase = libNum
  /\ logHead \in Ancestors[head]
  /\ \E t \in Blocks : RevChain(t)
  /\ rev \cap Invalid = {}
  /\ logHead \in rev => job.pc \in {"trim", "crashed"}

\* How what is in memory relates to it while the process lives.
RunInv ==
  Live =>
    /\ \/ root = logHead
       \/ job.pc \in {"logging", "trim"} /\ root \in Ancestors[logHead]
    /\ Replaying => \E t \in Blocks : head \in Ancestors[t] /\ RevChain(t)
    /\ ~ Replaying => RevChain(head)
    /\ ~ Pushing => dbAt = head

\* Where a call can have come from.
JobInv ==
  /\ job.after # "idle" => job.pc \in {"switch", "unwind", "log", "logging", "trim"}
  /\ job.after = "push" => job.pc \in {"log", "logging", "trim"}
  /\ job.after = "loop" \/ job.pc \in {"loop", "down"} => CleanStop
  /\ job.pc = "unwind" => Invalid # {} /\ job.after # "replay"

\* In irreversible mode the head is the end of the block log.
IrreversibleInv ==
  Live /\ mode = IRREVERSIBLE =>
    /\ job.pc \in {"idle", "log", "logging", "trim", "replay", "init", "down"}
    /\ job.after = "idle"
    /\ rev = {}
    /\ head = logHead
    /\ head \in validated
    /\ validated \subseteq Ancestors[logHead]

\* Of the blocks that wait for validation at most b is preferred to the head of
\* the fork database.
OneBetter(b) == \A x \in index \ validated : x # b => ~ first_preferred(x, fhead)

\* The head is valid and as good as the head of the fork database.
AtTie == head \in validated /\ ~ first_preferred(fhead, head)

\* The fork switch from job.old to job.new: the branch of the head holds all
\* that the two have in common, and nothing is preferred to job.new.
SwitchInv ==
  job.pc = "switch" =>
    /\ job.new \in Blocks
    /\ root \in Ancestors[job.new]
    /\ root \in Ancestors[job.old]
    /\ job.old \in validated
    /\ head \in (Ancestors[job.old] \cup Ancestors[job.new]) \ {job.new}
    /\ Ancestors[job.new] \cap Ancestors[job.old] \subseteq Ancestors[head]
    /\ job.new = fhead \/ first_preferred(job.new, fhead)
    /\ NoneBetter(job.new)
    /\ job.after = "idle" =>
         /\ ~ first_preferred(fhead, job.old)
         /\ OneBetter(job.new)
         /\ job.old \in Ancestors[job.new] => Prev[job.new] = job.old
    /\ job.after = "replay" => Prev[job.new] = head /\ job.new \in rev
    /\ job.after = "loop" =>
         /\ job.old = root
         /\ head \in Ancestors[job.new]
         /\ fhead \in Ancestors[head]

\* The way back to job.old.
UnwindInv ==
  job.pc = "unwind" =>
    /\ root \in Ancestors[job.old]
    /\ job.old \in validated
    /\ job.after = "idle" =>
         /\ ~ first_preferred(fhead, job.old)
         /\ NoneBetter(fhead)
         /\ job.old \notin Ancestors[job.new]
    /\ job.after = "loop" => job.old \in Ancestors[job.new]

\* Where a handler has nothing to do for the fork choice.
RestInv ==
  /\ job.pc = "idle" => AtTie /\ NoneBetter(fhead)
  /\ job.pc = "init" =>
       /\ head = fhead
       /\ NoneBetter(fhead) \/ (CleanStop /\ fhead = root)
  /\ job.pc = "down" =>
       /\ AtTie
       /\ NoneBetter(fhead) \/ (fhead = root /\ head = root)
  /\ Invalid = {} /\ AtRest => head = fhead

\* A block has been added and may become the head.
AddedInv ==
  /\ job.pc = "commit" =>
       /\ job.new \in Blocks
       /\ Prev[job.new] = head
       /\ Valid(job.new)
       /\ first_preferred(job.new, fhead)
       /\ OneBetter(job.new)
  /\ job.pc = "choose" => AtTie /\ \E y \in Blocks : OneBetter(y)

\* Both heads have moved to the same block.
MovedInv ==
  /\ job.pc \in {"push", "log", "logging", "trim", "replay", "loop"} =>
       head = fhead /\ NoneBetter(fhead)
  /\ job.pc \in {"logging", "trim"} => job.new = fhead

SpeculativeInv ==
  Live /\ mode # IRREVERSIBLE =>
    RestInv /\ AddedInv /\ SwitchInv /\ UnwindInv /\ MovedInv

\* Only two of the assertions can fail, and only after an orderly stop, on a chain
\* with an invalid block.
FaultInv ==
  fault # "none" =>
    /\ job.pc = "halt"
    /\ fault \in {"init", "reversal"}
    /\ CleanStop
    /\ Invalid # {}

Consistent ==
  /\ IsFiniteSet(index)
  /\ StoreInv
  /\ RunInv
  /\ JobInv
  /\ IrreversibleInv
  /\ SpeculativeInv
  /\ FaultInv

MainInv == CtrlInv /\ Consistent

-----------------------------------------------------------------------------
(***************************************************************************)
(* Facts used by many actions.                                             *)
(***************************************************************************)
\* The next block towards a block of the same branch, and its own branch.
LEMMA NextTowardsIs ==
  ASSUME NEW t \in Blocks, NEW a \in Ancestors[t], a # t, NEW n, n = NextTowards(a, t)
  PROVE  /\ n \in Blocks
         /\ n \in Ancestors[t]
         /\ Prev[n] = a
         /\ Num[n] = Num[a] + 1
         /\ Ancestors[n] = Ancestors[a] \cup {n}
         /\ n \notin Ancestors[a]
<1>1. n \in Ancestors[t] /\ Prev[n] = a
  BY NextTowardsExists
<1>2. n \in Blocks /\ a \in Blocks
  BY <1>1, AncestorsOfBlock
<1> QED
  BY <1>1, <1>2, AncestorsOfChild

\* The end of the block log is a block.
LEMMA LogHeadIsBlock ==
  ASSUME CtrlInv
  PROVE  logHead \in Blocks
BY DEF CtrlInv, LogInv, LogTypeOK, logHead

\* The head of the fork database is on the root, validated, and a block.
LEMMA ForkHeadFacts ==
  ASSUME ForkDbInv
  PROVE  /\ fhead \in Blocks
         /\ fhead \in validated
         /\ root \in Blocks
         /\ root \in Ancestors[fhead]
         /\ validated \in SUBSET Blocks
         /\ index \in SUBSET Blocks
         /\ \A x \in validated : ~ first_preferred(x, fhead) /\ root \in Ancestors[x]
BY AncestorsOfBlock DEF ForkDbInv, ForkDbTypeOK, NoOrphans, HeadIsBestValid, Known

\* In irreversible mode the fork database has the same head.
LEMMA IrreversibleHead ==
  ASSUME LibGrows, CtrlInv, logHead \in validated, validated \subseteq Ancestors[logHead]
  PROVE  fhead = logHead
<1>1. logHead \in Blocks /\ fhead \in Ancestors[logHead] /\ fhead \in Blocks
  BY LogHeadIsBlock, ForkHeadFacts DEF CtrlInv
<1>2. ~ first_preferred(logHead, fhead)
  BY ForkHeadFacts DEF CtrlInv
<1> QED
  BY <1>1, <1>2, PreferredToAncestor

\* A step that changes nothing the invariant speaks of.
LEMMA NothingMoves ==
  ASSUME Consistent,
         UNCHANGED <<forkdbVars, head, dbAt, dbBase, rev, blog, mode, job, fault>>
  PROVE  Consistent'
<1> USE DEF Consistent, forkdbVars, logHead, libNum, RevChain, Live, Replaying, Pushing
<1>1. IsFiniteSet(index)' /\ StoreInv' /\ RunInv' /\ JobInv' /\ FaultInv'
  BY DEF StoreInv, RunInv, JobInv, FaultInv
<1>2. IrreversibleInv'
  BY DEF IrreversibleInv
<1>3. SpeculativeInv'
  BY DEF SpeculativeInv, RestInv, AddedInv, SwitchInv, UnwindInv, MovedInv, AtTie,
         NoneBetter, OneBetter, AtRest, Valid
<1> QED
  BY <1>1, <1>2, <1>3

\* A step that leaves the files alone.
LEMMA FilesUntouched ==
  ASSUME CtrlInv, StoreInv, UNCHANGED <<head, dbAt, dbBase, rev, blog, mode>>,
         logHead \in rev => job'.pc \in {"trim", "crashed"}
  PROVE  /\ StoreInv'
         /\ logHead' = logHead
         /\ \A t \in Blocks : RevChain(t)' <=> RevChain(t)
BY DEF StoreInv, RevChain, logHead, libNum

\* A failed assertion that the invariant allows for.
LEMMA FailureAllowed ==
  ASSUME MainInv, NEW what \in {"init", "reversal"}, Fails(what), CleanStop, Invalid # {},
         job.pc \notin {"trim", "crashed"}
  PROVE  Consistent'
<1> USE DEF MainInv, Consistent
<1>1. job' = Goto("halt") /\ fault' = what
  BY DEF Fails
<1>2. job'.pc = "halt" /\ job'.after = "idle"
  BY <1>1 DEF Goto, At
<1>3. StoreInv'
  BY FilesUntouched DEF Fails, StoreInv
<1> QED
  BY <1>1, <1>2, <1>3 DEF RunInv, JobInv, IrreversibleInv, SpeculativeInv, FaultInv, Live,
                          Fails, forkdbVars

\* No assertion has failed while the node runs.
LEMMA NoFaultYet ==
  ASSUME MainInv, job.pc # "halt", UNCHANGED fault
  PROVE  FaultInv'
BY DEF MainInv, Consistent, FaultInv

\* Where the end of the block log is not among the reversible blocks, they are
\* exactly the branch above it.
LEMMA RevIs ==
  ASSUME MainInv, NEW t \in Blocks, RevChain(t), job.pc \notin {"trim", "crashed"}
  PROVE  logHead \notin rev /\ rev = Ancestors[t] \ Ancestors[logHead]
BY DEF MainInv, Consistent, StoreInv, RevChain

\* A block that is added may be better than the head, no other one is.
LEMMA AddLeavesOneBetter ==
  ASSUME LibGrows, NEW b \in Blocks, ForkDbInv, Add(b), NoneBetter(fhead)
  PROVE  OneBetter(b)'
<1>1. SUFFICES ASSUME NEW x \in index' \ validated', x # b
               PROVE  ~ first_preferred(x, fhead')
  BY DEF OneBetter
<1>2. x \in index \ validated /\ x \in Blocks
  BY <1>1, AddEffect, ForkHeadFacts
<1>3. ~ first_preferred(x, fhead)
  BY <1>2 DEF NoneBetter
<1> QED
  BY <1>2, <1>3, AddEffect, ForkHeadFacts, PreferenceIsWeakOrder

\* After it the two heads are still equals.
LEMMA AddKeepsTie ==
  ASSUME LibGrows, NEW b \in Blocks, ForkDbInv, Add(b), head \in Blocks, AtTie, UNCHANGED head
  PROVE  AtTie'
<1>1. ~ first_preferred(fhead', head)
  BY AddEffect, ForkHeadFacts, PreferenceIsWeakOrder DEF AtTie
<1> QED
  BY <1>1, AddEffect DEF AtTie

\* The index stays finite.
LEMMA IndexStaysFinite ==
  ASSUME IsFiniteSet(index),
         \/ \E b \in Blocks : Add(b)
         \/ index' \subseteq index
  PROVE  IsFiniteSet(index')
<1>1. CASE \E b \in Blocks : Add(b)
  BY <1>1, FS_AddElement DEF Add
<1>2. CASE index' \subseteq index
  BY <1>2, FS_Subset
<1> QED
  BY <1>1, <1>2

-----------------------------------------------------------------------------
(***************************************************************************)
(* The actions, one lemma each.                                            *)
(***************************************************************************)
\* Building a block concerns none of the stores; the revision of the database is
\* that of the head, so start_block does not fail.
LEMMA BuildingKeeps ==
  ASSUME MainInv,
         AbortBlock \/ StartBlock \/ \E t \in Trxs : PushTransaction(t)
  PROVE  Consistent'
<1>1. CASE AbortBlock \/ \E t \in Trxs : PushTransaction(t)
  BY <1>1, NothingMoves DEF AbortBlock, PushTransaction, MainInv
<1>2. CASE StartBlock
  <2>1. dbAt = head
    BY <1>2 DEF MainInv, Consistent, RunInv, JobInv, Live, Pushing, StartBlock
  <2>2. Num[dbAt] = Num[head]
    BY <2>1
  <2> QED
    BY <1>2, <2>2, NothingMoves DEF StartBlock, MainInv
<1> QED
  BY <1>1, <1>2

\* A crash leaves the files as they are.
LEMMA CrashKeeps ==
  ASSUME MainInv, Crash
  PROVE  Consistent'
<1> USE DEF MainInv, Consistent
<1>1. job'.pc = "crashed" /\ job'.after = "idle"
  BY DEF Crash, Goto, At
<1>2. StoreInv'
  BY <1>1, FilesUntouched DEF Crash
<1>3. FaultInv'
  BY NoFaultYet DEF Crash
<1> QED
  BY <1>1, <1>2, <1>3 DEF Crash, forkdbVars, RunInv, JobInv, IrreversibleInv, SpeculativeInv,
                          Live

\* An orderly stop happens between two handlers.
LEMMA ShutdownKeeps ==
  ASSUME MainInv, Shutdown
  PROVE  Consistent'
<1> USE DEF MainInv, Consistent
<1>1. /\ job.pc = "idle" /\ job.after = "idle" /\ CleanStop
      /\ job'.pc = "down" /\ job'.after = "idle"
      /\ UNCHANGED <<index, validated, root, fhead, head, dbAt, dbBase, rev, blog, mode,
                     fault>>
  BY DEF Shutdown, Goto, At, JobInv, forkdbVars
<1>2. /\ StoreInv'
      /\ logHead' = logHead
      /\ \A t \in Blocks : RevChain(t)' <=> RevChain(t)
  BY <1>1, FilesUntouched DEF StoreInv
<1>3. FaultInv'
  BY <1>1, NoFaultYet
<1>4. RunInv'
  BY <1>1, <1>2 DEF RunInv, Live, Replaying, Pushing, StoreInv, RevChain
<1>5. IrreversibleInv'
  BY <1>1, <1>2 DEF IrreversibleInv, Live
<1>6. SpeculativeInv'
  BY <1>1 DEF SpeculativeInv, Live, RestInv, AddedInv, SwitchInv, UnwindInv, MovedInv,
              AtTie, NoneBetter, AtRest
<1> QED
  BY <1>1, <1>2, <1>3, <1>4, <1>5, <1>6 DEF JobInv

\* The end of commit_block: chainbase catches up with the head.
LEMMA PushSessionKeeps ==
  ASSUME MainInv, PushSession
  PROVE  Consistent'
<1> USE DEF MainInv, Consistent
<1>1. /\ job.pc = "push" /\ job.after = "idle"
      /\ job'.pc = "idle" /\ job'.after = "idle"
      /\ dbAt' = head
      /\ UNCHANGED <<index, validated, root, fhead, head, dbBase, rev, blog, mode, fault>>
  BY DEF PushSession, Idle, Goto, At, JobInv, forkdbVars
<1>2. /\ logHead' = logHead /\ libNum' = libNum
      /\ \A t \in Blocks : RevChain(t)' <=> RevChain(t)
  BY <1>1 DEF logHead, libNum, RevChain
<1>3. StoreInv'
  BY <1>1, <1>2 DEF StoreInv
<1>4. FaultInv'
  BY <1>1, NoFaultYet
<1>5. RunInv'
  BY <1>1, <1>2 DEF RunInv, Live, Replaying, Pushing, StoreInv
<1>6. IrreversibleInv'
  BY <1>1, <1>2 DEF IrreversibleInv, Live
<1>7. SpeculativeInv'
  <2>1. mode # IRREVERSIBLE
    BY <1>1 DEF IrreversibleInv, Live
  <2>2. head = fhead /\ NoneBetter(fhead)
    BY <1>1, <2>1 DEF SpeculativeInv, Live, MovedInv
  <2>3. AtTie
    BY <2>2, ForkHeadFacts DEF AtTie, CtrlInv
  <2> QED
    BY <1>1, <2>2, <2>3 DEF SpeculativeInv, Live, RestInv, AddedInv, SwitchInv, UnwindInv,
              MovedInv, AtTie, NoneBetter, AtRest
<1> QED
  BY <1>1, <1>3, <1>4, <1>5, <1>6, <1>7 DEF JobInv

\* A produced block is better than the head of the fork database.
LEMMA ProduceBlockKeeps ==
  ASSUME LibGrows, MainInv, NEW b \in Blocks, ProduceBlock(b)
  PROVE  Consistent'
<1> USE DEF MainInv, Consistent
<1>1. /\ job.pc = "idle" /\ job.after = "idle" /\ mode # IRREVERSIBLE
      /\ job'.pc = "commit" /\ job'.after = "idle" /\ job'.new = b
      /\ Prev[b] = head /\ Valid(b) /\ Add(b)
      /\ UNCHANGED <<head, dbAt, dbBase, rev, blog, mode, fault>>
  BY DEF ProduceBlock, At, JobInv, SPECULATIVE, IRREVERSIBLE
<1>2. /\ StoreInv'
      /\ logHead' = logHead
      /\ \A t \in Blocks : RevChain(t)' <=> RevChain(t)
  BY <1>1, FilesUntouched DEF StoreInv
<1>3. FaultInv'
  BY <1>1, NoFaultYet
<1>4. IsFiniteSet(index)'
  BY <1>1, IndexStaysFinite
<1>5. RunInv'
  BY <1>1, <1>2, AddEffect DEF RunInv, Live, Replaying, Pushing, StoreInv, CtrlInv
<1>6. AtTie /\ NoneBetter(fhead)
  BY <1>1 DEF SpeculativeInv, Live, RestInv
<1>7. OneBetter(b)' /\ AtTie'
  BY <1>1, <1>6, AddLeavesOneBetter, AddKeepsTie DEF CtrlInv, StoreInv
<1>8. first_preferred(b, fhead')
  <2>1. first_preferred(b, head) /\ fhead' \in Blocks /\ head \in Blocks
    BY <1>1, AddEffect, AncestorsOfChild, PreferredToParent DEF CtrlInv, StoreInv
  <2>2. ~ first_preferred(fhead', head)
    BY <1>1, <1>7 DEF AtTie
  <2> QED
    BY <2>1, <2>2, PreferenceIsWeakOrder
<1>9. SpeculativeInv' /\ IrreversibleInv' /\ JobInv'
  BY <1>1, <1>7, <1>8 DEF SpeculativeInv, IrreversibleInv, JobInv, Live, RestInv, AddedInv,
        SwitchInv, UnwindInv, MovedInv, AtRest, Valid
<1> QED
  BY <1>2, <1>3, <1>4, <1>5, <1>9

\* A received block is added, and maybe_switch_forks or log_irreversible called.
LEMMA PushBlockKeeps ==
  ASSUME LibGrows, MainInv, NEW b \in Blocks, PushBlock(b)
  PROVE  Consistent'
<1> USE DEF MainInv, Consistent
<1>1. /\ job.pc = "idle" /\ job.after = "idle"
      /\ job'.pc = IF mode = IRREVERSIBLE THEN "log" ELSE "choose"
      /\ job'.after = "idle"
      /\ Add(b)
      /\ UNCHANGED <<head, dbAt, dbBase, rev, blog, mode, fault>>
  BY DEF PushBlock, Goto, At, JobInv
<1>2. /\ StoreInv'
      /\ logHead' = logHead
      /\ \A t \in Blocks : RevChain(t)' <=> RevChain(t)
  BY <1>1, FilesUntouched DEF StoreInv
<1>3. FaultInv'
  BY <1>1, NoFaultYet
<1>4. IsFiniteSet(index)'
  BY <1>1, IndexStaysFinite
<1>5. RunInv'
  BY <1>1, <1>2, AddEffect DEF RunInv, Live, Replaying, Pushing, StoreInv, CtrlInv
<1>6. IrreversibleInv' /\ JobInv'
  BY <1>1, <1>2, AddEffect DEF IrreversibleInv, JobInv, Live, CtrlInv
<1>7. ASSUME mode # IRREVERSIBLE PROVE OneBetter(b)' /\ AtTie'
  BY <1>1, <1>7, AddLeavesOneBetter, AddKeepsTie
     DEF CtrlInv, StoreInv, SpeculativeInv, Live, RestInv
<1>8. SpeculativeInv'
  BY <1>1, <1>7 DEF SpeculativeInv, Live, RestInv, AddedInv, SwitchInv, UnwindInv,
                    MovedInv, AtRest
<1> QED
  BY <1>2, <1>3, <1>4, <1>5, <1>6, <1>8

\* maybe_switch_forks picks the block just added, if any.
LEMMA ChooseForkKeeps ==
  ASSUME LibGrows, MainInv, ChooseFork
  PROVE  Consistent'
<1> USE DEF MainInv, Consistent
<1>1. /\ job.pc = "choose" /\ job.after = "idle" /\ mode # IRREVERSIBLE
      /\ job' = IF pending_head = head THEN Idle ELSE Switch(pending_head, "idle")
      /\ job'.after = "idle"
      /\ UNCHANGED <<index, validated, root, fhead, head, dbAt, dbBase, rev, blog, mode,
                     fault>>
  BY DEF ChooseFork, Idle, Goto, Switch, At, JobInv, forkdbVars, IrreversibleInv, Live
<1>2. job'.pc \in {"idle", "switch"}
  BY <1>1 DEF Idle, Goto, Switch, At
<1>3. /\ StoreInv'
      /\ logHead' = logHead
      /\ \A t \in Blocks : RevChain(t)' <=> RevChain(t)
  BY <1>1, FilesUntouched DEF StoreInv
<1>4. FaultInv'
  BY <1>1, NoFaultYet
<1>5. RunInv'
  BY <1>1, <1>2, <1>3 DEF RunInv, Live, Replaying, Pushing, StoreInv
<1>6. IrreversibleInv' /\ JobInv'
  BY <1>1, <1>2 DEF IrreversibleInv, JobInv
<1>7. AtTie /\ \E y \in Blocks : OneBetter(y)
  BY <1>1 DEF SpeculativeInv, Live, AddedInv
<1>8. ForkDbInv /\ head \in Blocks
  BY DEF CtrlInv, StoreInv
<1>9. CASE pending_head = head
  <2>1. job'.pc = "idle"
    BY <1>1, <1>9 DEF Idle, Goto, At
  <2>2. head = fhead
    BY <1>7, <1>8, <1>9, PendingHeadIs DEF AtTie
  <2>3. NoneBetter(fhead)
    BY <1>8, <1>9, <2>2, PendingHeadIsHead
  <2>4. SpeculativeInv'
    BY <1>1, <1>7, <2>1, <2>2, <2>3 DEF SpeculativeInv, RestInv, AddedInv, SwitchInv, UnwindInv,
           MovedInv, AtTie, NoneBetter, AtRest
  <2> QED
    BY <1>1, <1>3, <1>4, <1>5, <1>6, <2>4
<1>10. CASE pending_head # head
  <2> DEFINE p == pending_head
  <2>1. job'.pc = "switch" /\ job'.new = p /\ job'.old = head
    BY <1>1, <1>10 DEF Switch, At
  <2>2. p \in Blocks /\ root \in Ancestors[p] /\ root \in Ancestors[head] /\ Known(p)
    <3>1. root = logHead
      BY <1>1 DEF RunInv, Live
    <3> QED
      BY <3>1, <1>8, PendingHeadKnown, PendingHeadIs, ForkHeadFacts
         DEF StoreInv, Known, ForkDbInv, HeadIsBestValid
  <2>3. p = fhead \/ (p \in index \ validated /\ first_preferred(p, fhead))
    BY <1>8, PendingHeadIs
  <2>4. NoneBetter(p)
    BY <1>8, PendingHeadIs, PendingHeadIsHead
  <2>5. OneBetter(p)
    <3>1. CASE p = fhead
      BY <3>1, <2>4 DEF NoneBetter, OneBetter
    <3>2. CASE p # fhead
      BY <3>2, <2>3, <1>7 DEF OneBetter
    <3> QED
      BY <3>1, <3>2
  <2> HIDE DEF p
  <2>6. head \in Ancestors[p] => Prev[p] = head
    <3>1. SUFFICES ASSUME head \in Ancestors[p] PROVE Prev[p] = head
      OBVIOUS
    <3>2. p # head
      BY <1>10 DEF p
    <3>3. PICK x : x = NextTowards(head, p)
      OBVIOUS
    <3>4. /\ x \in Blocks /\ x \in Ancestors[p] /\ Prev[x] = head
          /\ Ancestors[x] = Ancestors[head] \cup {x}
      BY <2>2, <3>1, <3>2, <3>3, NextTowardsIs
    <3>5. first_preferred(x, head)
      BY <1>8, <3>4, PreferredToParent
    <3>6. first_preferred(x, fhead)
      BY <1>7, <1>8, <3>4, <3>5, ForkHeadFacts, PreferenceIsWeakOrder DEF AtTie
    <3>7. x \notin validated
      BY <1>8, <3>6, ForkHeadFacts
    <3>8. x \in index
      <4>1. Known(x)
        BY <1>8, <2>2, <3>4, KnownBetween
      <4>2. root \in validated
        BY <1>8 DEF ForkDbInv, HeadIsBestValid
      <4> QED
        BY <4>1, <4>2, <3>7 DEF Known
    <3>9. x = p
      BY <2>5, <3>6, <3>7, <3>8 DEF OneBetter
    <3> QED
      BY <3>4, <3>9
  <2>7. SwitchInv'
    BY <1>1, <1>7, <1>8, <1>10, <2>1, <2>2, <2>3, <2>4, <2>5, <2>6, AncestorsOfBlock
       DEF SwitchInv, AtTie, NoneBetter, OneBetter, p
  <2>8. SpeculativeInv'
    BY <2>1, <2>7 DEF SpeculativeInv, RestInv, AddedInv, UnwindInv, MovedInv, AtRest
  <2> QED
    BY <1>1, <1>3, <1>4, <1>5, <1>6, <2>8
<1> QED
  BY <1>9, <1>10

\* pop_block undoes one block in every store.
LEMMA PopBlockEffect ==
  ASSUME MainInv, PopBlock, RevChain(head), dbAt = head, head # logHead,
         job.pc \notin {"trim", "crashed"}
  PROVE  /\ head' = Prev[head]
         /\ head' \in Blocks
         /\ Ancestors[head] = Ancestors[head'] \cup {head}
         /\ dbAt' = head'
         /\ logHead' = logHead
         /\ StoreInv'
         /\ RevChain(head)'
<1> USE DEF MainInv, Consistent
<1>1. head \in Blocks /\ logHead \in Blocks /\ logHead \in Ancestors[head]
  BY LogHeadIsBlock DEF StoreInv
<1>2. /\ head' = Prev[head] /\ head' \in Blocks /\ logHead \in Ancestors[head']
  BY <1>1, AncestorsSplit DEF PopBlock
<1>3. /\ Ancestors[head] = Ancestors[head'] \cup {head}
      /\ head \notin Ancestors[head']
  BY <1>1, <1>2, AncestorsOfChild
<1>4. dbAt' = head'
  BY <1>1, <1>2, AncestorsOrdered, NumberAssumption DEF PopBlock, StoreInv, libNum
<1>5. logHead' = logHead /\ libNum' = libNum /\ dbBase' = dbBase /\ mode' = mode
  BY DEF PopBlock, logHead, libNum
<1>6. logHead \notin rev /\ rev = Ancestors[head] \ Ancestors[logHead]
  BY <1>1, RevIs
<1>7. rev' = rev \ {head}
  <2>1. rev' = {r \in rev : Num[r] # Num[head]}
    BY DEF PopBlock
  <2>2. \A r \in rev : Num[r] = Num[head] <=> r = head
    BY <1>1, <1>6, AncestorsOfBlock, BranchNumbersDiffer
  <2> QED
    BY <2>1, <2>2
<1>8. rev' = Ancestors[head'] \ Ancestors[logHead]
  BY <1>3, <1>6, <1>7
<1>9. RevChain(head)'
  BY <1>1, <1>2, <1>5, <1>6, <1>8, AncestorsOfBlock DEF RevChain
<1>10. StoreInv'
  BY <1>2, <1>4, <1>5, <1>6, <1>7, <1>9 DEF StoreInv, RevChain
<1> QED
  BY <1>2, <1>3, <1>4, <1>5, <1>9, <1>10

\* apply_block of the next block extends every store by it.
LEMMA ApplyBlockEffect ==
  ASSUME MainInv, NEW b \in Blocks, ApplyBlock(b), RevChain(head), Prev[b] = head,
         mode # IRREVERSIBLE, job.after # "replay", UNCHANGED <<dbBase, blog>>,
         job.pc \notin {"trim", "crashed"}
  PROVE  /\ head' = b
         /\ dbAt' = b
         /\ logHead' = logHead
         /\ StoreInv'
         /\ RevChain(head)'
<1> USE DEF MainInv, Consistent
<1>1. head \in Blocks /\ logHead \in Blocks /\ logHead \in Ancestors[head]
  BY LogHeadIsBlock DEF StoreInv
<1>2. /\ head' = b /\ dbAt' = b /\ rev' = rev \cup {b} /\ mode' = mode /\ b \notin Invalid
  BY DEF ApplyBlock, Valid
<1>3. /\ Ancestors[b] = Ancestors[head] \cup {b}
      /\ b \notin Ancestors[head]
  BY <1>1, AncestorsOfChild
<1>4. logHead' = logHead /\ libNum' = libNum
  BY DEF logHead, libNum
<1>5. b \notin Ancestors[logHead]
  BY <1>1, <1>3, AncestorsTransitive
<1>6. logHead \notin rev /\ rev = Ancestors[head] \ Ancestors[logHead]
  BY <1>1, RevIs
<1>7. rev' = Ancestors[b] \ Ancestors[logHead] /\ logHead \notin rev'
  BY <1>1, <1>2, <1>3, <1>5, <1>6, AncestorsOfBlock
<1>8. RevChain(head)'
  BY <1>1, <1>2, <1>3, <1>4, <1>7 DEF RevChain
<1>9. StoreInv'
  BY <1>2, <1>4, <1>6, <1>7, <1>8 DEF StoreInv, RevChain
<1> QED
  BY <1>2, <1>4, <1>8, <1>9

\* While blocks are switched, the root is the end of the log and no block is
\* being pushed.
LEMMA SwitchingFacts ==
  ASSUME MainInv, job.pc \in {"switch", "unwind"}
  PROVE  /\ root = logHead
         /\ root \in Blocks /\ head \in Blocks /\ logHead \in Ancestors[head]
         /\ mode # IRREVERSIBLE
         /\ dbAt = head
         /\ job.after \in {"idle", "replay", "loop"}
         /\ job.after # "replay" => RevChain(head)
         /\ logHead \notin rev
         /\ SwitchInv /\ UnwindInv
BY LogHeadIsBlock DEF MainInv, Consistent, CtrlInv, LogInv, JobIsRecord, RunInv, JobInv,
     StoreInv, IrreversibleInv, SpeculativeInv, Live, Pushing, Replaying

\* The block of the old head is undone; the new head is not below the old one.
LEMMA SwitchPopKeeps ==
  ASSUME LibGrows, MainInv, SwitchPop
  PROVE  Consistent'
<1> USE DEF MainInv, Consistent
<1>1. /\ job.pc = "switch" /\ head \notin Ancestors[job.new] /\ PopBlock
      /\ UNCHANGED <<index, validated, root, fhead, job, mode, fault>>
  BY DEF SwitchPop, PopBlock, forkdbVars
<1>2. /\ root = logHead /\ root \in Blocks /\ head \in Blocks /\ mode # IRREVERSIBLE
      /\ dbAt = head /\ job.new \in Blocks /\ root \in Ancestors[job.new] /\ SwitchInv
      /\ job.after \in {"idle", "replay", "loop"}
  BY <1>1, SwitchingFacts DEF SwitchInv
<1>3. job.after = "idle"
  <2>1. job.after # "replay"
    <3>1. Prev[job.new] = head => head \in Ancestors[job.new]
      BY <1>2, AncestorsOfChild, AncestorsOfBlock
    <3> QED
      BY <3>1, <1>1, <1>2 DEF SwitchInv
  <2> QED
    BY <2>1, <1>1, <1>2 DEF SwitchInv
<1>4. RevChain(head) /\ head # logHead
  BY <1>1, <1>2, <1>3, SwitchingFacts
<1>5. /\ head' = Prev[head] /\ head' \in Blocks /\ dbAt' = head' /\ logHead' = logHead
      /\ Ancestors[head] = Ancestors[head'] \cup {head}
      /\ StoreInv' /\ RevChain(head)'
  BY <1>1, <1>2, <1>4, PopBlockEffect
<1>6. RunInv' /\ FaultInv'
  BY <1>1, <1>2, <1>3, <1>5, NoFaultYet DEF RunInv, Live, Replaying, Pushing
<1>7. job.new \notin Ancestors[job.old]
  <2>1. SUFFICES ASSUME job.new \in Ancestors[job.old] PROVE FALSE
    OBVIOUS
  <2>2. /\ job.old \in Blocks /\ fhead \in Blocks
        /\ ~ first_preferred(job.old, fhead)
    BY <1>1, <1>2, ForkHeadFacts DEF SwitchInv, CtrlInv
  <2>3. job.new # job.old
    BY <1>1, <1>2, <2>2 DEF SwitchInv
  <2>4. first_preferred(job.old, job.new)
    BY <2>1, <2>2, <2>3, PreferredToAncestor
  <2> QED
    BY <1>1, <1>2, <2>2, <2>4, NumberAssumption DEF SwitchInv, first_preferred
<1>8. SwitchInv'
  <2>1. head \in Ancestors[job.old] /\ job.old \in Blocks
    BY <1>1, <1>2, ForkHeadFacts DEF SwitchInv, CtrlInv
  <2>2. head' \in Ancestors[job.old]
    BY <1>2, <1>5, <2>1, AncestorsTransitive, AncestorsOfBlock
  <2> QED
    BY <1>1, <1>2, <1>3, <1>5, <1>7, <2>2 DEF SwitchInv, NoneBetter, OneBetter
<1>9. SpeculativeInv' /\ IrreversibleInv' /\ JobInv'
  BY <1>1, <1>2, <1>8 DEF SpeculativeInv, IrreversibleInv, JobInv, Live, RestInv, AddedInv,
       UnwindInv, MovedInv, AtRest
<1> QED
  BY <1>1, <1>5, <1>6, <1>9

\* The next block of the new branch: when it is the last one, both heads are there.
LEMMA SwitchApplyKeeps ==
  ASSUME LibGrows, MainInv, SwitchApply
  PROVE  Consistent'
<1> USE DEF MainInv, Consistent
<1>1. PICK b : b = NextTowards(head, job.new)
  OBVIOUS
<1>2. /\ job.pc = "switch" /\ head \in Ancestors[job.new]
      /\ ApplyBlock(b) /\ MarkValid(b)
      /\ job' = IF b = job.new THEN At("log", NoBlock, NoBlock, job.after) ELSE job
      /\ UNCHANGED <<dbBase, blog, mode, fault>>
      /\ head' = b /\ dbAt' = b
  BY <1>1 DEF SwitchApply, ApplyBlock
<1>3. /\ root = logHead /\ root \in Blocks /\ head \in Blocks /\ mode # IRREVERSIBLE
      /\ dbAt = head /\ job.new \in Blocks /\ root \in Ancestors[job.new] /\ SwitchInv
      /\ job.after \in {"idle", "replay", "loop"} /\ head # job.new
      /\ logHead \notin rev
  BY <1>2, SwitchingFacts DEF SwitchInv
<1>4. /\ b \in Blocks /\ b \in Ancestors[job.new] /\ Prev[b] = head
      /\ Num[b] = Num[head] + 1
      /\ Ancestors[b] = Ancestors[head] \cup {b}
  BY <1>1, <1>2, <1>3, NextTowardsIs
<1>5. /\ UNCHANGED <<index, root>>
      /\ validated' = validated \cup {b}
      /\ fhead' = IF first_preferred(b, fhead) THEN b ELSE fhead
  BY <1>2, MarkValidEffect DEF CtrlInv
<1>6. /\ logHead' = logHead
      /\ job'.pc \in {"switch", "log"}
      /\ job'.after = job.after
  BY <1>2 DEF logHead, At
<1>7. ASSUME job.after = "replay"
      PROVE  /\ b = job.new
             /\ StoreInv'
             /\ \E t \in Blocks : head' \in Ancestors[t] /\ RevChain(t)'
  <2>1. b = job.new
    <3>1. Num[job.new] = Num[head] + 1
      BY <1>2, <1>3, <1>7, AncestorsOfChild DEF SwitchInv
    <3> QED
      BY <3>1, <1>3, <1>4, AncestorsOfBlock, BranchNumbersDiffer
  <2>2. rev' = rev
    BY <1>2, <1>7 DEF ApplyBlock
  <2>3. PICK t \in Blocks : head \in Ancestors[t] /\ RevChain(t)
    BY <1>2, <1>7 DEF RunInv, Live, Replaying
  <2>4. b \in Ancestors[t]
    BY <1>2, <1>3, <1>7, <2>1, <2>3 DEF SwitchInv, RevChain
  <2>5. RevChain(t)'
    BY <1>6, <2>2, <2>3 DEF RevChain
  <2>6. StoreInv'
    BY <1>2, <1>3, <1>4, <1>6, <2>2, <2>5 DEF StoreInv, libNum
  <2> QED
    BY <1>2, <2>1, <2>4, <2>5, <2>6
<1>8. ASSUME job.after # "replay"
      PROVE  StoreInv' /\ RevChain(head)'
  BY <1>2, <1>3, <1>4, <1>8, SwitchingFacts, ApplyBlockEffect
<1>9. StoreInv'
  BY <1>7, <1>8
<1>10. RunInv' /\ FaultInv'
  BY <1>2, <1>3, <1>5, <1>6, <1>7, <1>8, NoFaultYet DEF RunInv, Live, Replaying, Pushing
<1>11. ~ first_preferred(b, fhead) \/ fhead' = b
  BY <1>5
<1>12. CASE b = job.new
  <2>1. job'.pc = "log"
    BY <1>2, <1>12 DEF At
  <2>2. fhead' = b
    <3>1. ~ first_preferred(b, b)
      BY <1>4, NumberAssumption DEF first_preferred
    <3> QED
      BY <1>2, <1>3, <1>5, <1>12, <3>1 DEF SwitchInv
  <2>3. NoneBetter(fhead)'
    BY <1>2, <1>3, <1>5, <1>12, <2>2 DEF SwitchInv, NoneBetter
  <2>4. SpeculativeInv'
    BY <1>2, <2>1, <2>2, <2>3 DEF SpeculativeInv, RestInv, AddedInv, SwitchInv, UnwindInv,
           MovedInv, AtRest
  <2>5. IrreversibleInv' /\ JobInv'
    BY <1>2, <1>3, <1>6, <2>1 DEF IrreversibleInv, JobInv
  <2> QED
    BY <1>5, <1>9, <1>10, <2>4, <2>5
<1>13. CASE b # job.new
  <2>1. job' = job
    BY <1>2, <1>13
  <2>2. job.new = fhead' \/ first_preferred(job.new, fhead')
    BY <1>2, <1>3, <1>4, <1>5, <1>13, PreferredToAncestor DEF SwitchInv
  <2>3. ASSUME job.after = "idle" PROVE fhead' = fhead
    <3>1. Known(b) /\ root \in validated
      BY <1>2, MarkValidEffect DEF CtrlInv, ForkDbInv, HeadIsBestValid
    <3>2. ~ first_preferred(b, fhead)
      <4>1. CASE b \in validated
        BY <4>1, ForkHeadFacts DEF CtrlInv
      <4>2. CASE b \notin validated
        BY <1>2, <1>3, <1>13, <2>3, <3>1, <4>2 DEF SwitchInv, OneBetter, Known
      <4> QED
        BY <4>1, <4>2
    <3> QED
      BY <1>5, <3>2
  <2>4. NoneBetter(job.new)'
    BY <1>2, <1>3, <1>5, <2>1 DEF SwitchInv, NoneBetter
  <2>5. ASSUME job.after = "idle" PROVE OneBetter(job.new)'
    BY <1>2, <1>3, <1>5, <2>1, <2>3, <2>5 DEF SwitchInv, OneBetter
  <2>6. ASSUME job.after = "loop" PROVE fhead' \in Ancestors[b]
    BY <1>2, <1>3, <1>4, <1>5, <2>6 DEF SwitchInv
  <2>7. SwitchInv'
    BY <1>2, <1>3, <1>4, <1>5, <1>7, <1>13, <2>1, <2>2, <2>3, <2>4, <2>5, <2>6
       DEF SwitchInv
  <2>8. SpeculativeInv' /\ IrreversibleInv' /\ JobInv'
    BY <1>2, <1>3, <2>1, <2>7 DEF SpeculativeInv, IrreversibleInv, JobInv, Live, RestInv,
         AddedInv, UnwindInv, MovedInv, AtRest
  <2> QED
    BY <1>5, <1>9, <1>10, <2>8
<1> QED
  BY <1>12, <1>13

\* A bad block and its descendants are gone; the old head is not among them.
LEMMA SwitchFailsKeeps ==
  ASSUME MainInv, SwitchFails
  PROVE  Consistent'
<1> USE DEF MainInv, Consistent
<1>1. PICK b : b = NextTowards(head, job.new)
  OBVIOUS
<1>2. /\ job.pc = "switch" /\ head \in Ancestors[job.new]
      /\ b \in Invalid /\ Remove(b)
      /\ job' = IF Prev[job.new] = job.old THEN Thrown ELSE [job EXCEPT !.pc = "unwind"]
      /\ UNCHANGED <<head, dbAt, dbBase, rev, blog, mode, fault>>
  <2>1. ~ Valid(b)
    BY <1>1 DEF SwitchFails, ApplyFails
  <2>2. b \in Blocks
    BY <1>1, NextTowardsIs, SwitchingFacts DEF SwitchFails, SwitchInv
  <2> QED
    BY <1>1, <2>1 DEF SwitchFails, ApplyFails, Valid
<1>3. /\ root = logHead /\ root \in Blocks /\ head \in Blocks /\ mode # IRREVERSIBLE
      /\ job.new \in Blocks /\ root \in Ancestors[job.new] /\ SwitchInv
      /\ job.after \in {"idle", "replay", "loop"} /\ head # job.new
      /\ logHead \notin rev /\ job.old \in Blocks /\ root \in Ancestors[head]
  BY <1>2, SwitchingFacts, ForkHeadFacts DEF SwitchInv, CtrlInv
<1>4. /\ b \in Blocks /\ b \in Ancestors[job.new] /\ Prev[b] = head
      /\ b \notin Ancestors[head] /\ Num[b] = Num[head] + 1
  BY <1>1, <1>2, <1>3, NextTowardsIs
<1>5. job.after # "replay"
  <2>1. SUFFICES ASSUME job.after = "replay" PROVE FALSE
    OBVIOUS
  <2>2. Num[job.new] = Num[head] + 1 /\ job.new \in rev
    BY <1>2, <1>3, <2>1, AncestorsOfChild DEF SwitchInv
  <2>3. b = job.new
    BY <2>2, <1>3, <1>4, AncestorsOfBlock, BranchNumbersDiffer
  <2> QED
    BY <1>2, <2>2, <2>3 DEF StoreInv
<1>6. /\ index' = index \ DescendantsIn(index, b)
      /\ validated' = validated \ DescendantsIn(index, b)
      /\ root' = root /\ fhead' = fhead
  BY <1>2 DEF Remove
<1>7. job.old \in validated'
  <2>1. b \notin Ancestors[job.old]
    BY <1>2, <1>3, <1>4 DEF SwitchInv
  <2> QED
    BY <1>2, <1>3, <1>6, <2>1 DEF SwitchInv, DescendantsIn
<1>8. ASSUME job.after = "idle" PROVE NoneBetter(fhead)'
  <2>1. job.new \notin index'
    BY <1>4, <1>6 DEF DescendantsIn
  <2>2. index' \ validated' \subseteq index \ validated
    BY <1>6
  <2> QED
    BY <1>2, <1>3, <1>6, <1>8, <2>1, <2>2 DEF SwitchInv, NoneBetter, OneBetter
<1>9. /\ job'.pc \in {"idle", "down", "unwind"}
      /\ job'.pc = "unwind" => /\ Prev[job.new] # job.old
                               /\ job'.new = job.new /\ job'.old = job.old
                               /\ job'.after = job.after
      /\ job'.pc # "unwind" => Prev[job.new] = job.old /\ job'.after = "idle"
      /\ job'.pc = "idle" => job.after = "idle"
      /\ job'.pc = "down" => job.after = "loop"
  BY <1>2, <1>3, <1>5 DEF Thrown, Idle, Goto, At, CtrlInv, LogInv, JobIsRecord
<1>10. /\ StoreInv'
       /\ logHead' = logHead
       /\ \A t \in Blocks : RevChain(t)' <=> RevChain(t)
  BY <1>2, <1>3, FilesUntouched
<1>11. RunInv' /\ FaultInv'
  BY <1>2, <1>3, <1>5, <1>6, <1>9, <1>10, SwitchingFacts, NoFaultYet
     DEF RunInv, Live, Replaying, Pushing
<1>12. IsFiniteSet(index)'
  BY <1>6, IndexStaysFinite
<1>13. JobInv' /\ IrreversibleInv'
  BY <1>2, <1>3, <1>5, <1>9 DEF JobInv, IrreversibleInv
<1>14. ASSUME Prev[job.new] = job.old PROVE head = job.old
  <2>1. head \in Ancestors[job.old]
    BY <1>2, <1>3, <1>14, AncestorsSplit
  <2>2. job.old \in Ancestors[job.new]
    BY <1>3, <1>14, AncestorsOfChild, AncestorsOfBlock
  <2>3. job.old \in Ancestors[head]
    BY <1>2, <1>3, <2>2, AncestorsOfBlock DEF SwitchInv
  <2> QED
    BY <1>3, <2>1, <2>3, AncestorsAntisymmetric
<1>15. RestInv'
  <2>1. CASE job'.pc = "idle"
    BY <1>2, <1>3, <1>6, <1>7, <1>8, <1>9, <1>14, <2>1
       DEF RestInv, AtTie, AtRest, SwitchInv
  <2>2. CASE job'.pc = "down"
    <3>1. head = root
      BY <1>2, <1>3, <1>9, <1>14, <2>2 DEF SwitchInv
    <3>2. fhead = root
      BY <1>2, <1>3, <1>9, <2>2, <3>1, ForkHeadFacts, AncestorsAntisymmetric
         DEF SwitchInv, CtrlInv
    <3>3. ~ first_preferred(root, root)
      BY <1>3, NumberAssumption DEF first_preferred
    <3>4. head \in validated'
      BY <1>7, <1>9, <1>14, <2>2
    <3> QED
      BY <1>2, <1>6, <2>2, <3>1, <3>2, <3>3, <3>4 DEF RestInv, AtTie, AtRest
  <2> QED
    BY <1>9, <2>1, <2>2 DEF RestInv, AtRest
<1>16. UnwindInv'
  BY <1>2, <1>3, <1>5, <1>6, <1>7, <1>8, <1>9 DEF UnwindInv, SwitchInv
<1>17. SpeculativeInv'
  BY <1>9, <1>15, <1>16 DEF SpeculativeInv, AddedInv, SwitchInv, MovedInv
<1> QED
  BY <1>10, <1>11, <1>12, <1>13, <1>17

\* On the way back a block of the bad branch is undone.
LEMMA UnwindPopKeeps ==
  ASSUME MainInv, UnwindPop
  PROVE  Consistent'
<1> USE DEF MainInv, Consistent
<1>1. /\ job.pc = "unwind" /\ head \notin Ancestors[job.old] /\ PopBlock
      /\ UNCHANGED <<index, validated, root, fhead, job, mode, fault>>
  BY DEF UnwindPop, PopBlock, forkdbVars
<1>2. /\ root = logHead /\ mode # IRREVERSIBLE /\ dbAt = head /\ UnwindInv
      /\ job.after \in {"idle", "loop"} /\ RevChain(head) /\ head # logHead
  BY <1>1, SwitchingFacts DEF UnwindInv, JobInv
<1>3. dbAt' = head' /\ logHead' = logHead /\ StoreInv' /\ RevChain(head)'
  BY <1>1, <1>2, PopBlockEffect
<1>4. RunInv' /\ FaultInv'
  BY <1>1, <1>2, <1>3, NoFaultYet DEF RunInv, Live, Replaying, Pushing
<1>5. UnwindInv'
  BY <1>1, <1>2 DEF UnwindInv, NoneBetter
<1>6. SpeculativeInv' /\ IrreversibleInv' /\ JobInv'
  BY <1>1, <1>2, <1>5 DEF SpeculativeInv, IrreversibleInv, JobInv, Live, RestInv, AddedInv,
       SwitchInv, MovedInv, AtRest
<1> QED
  BY <1>1, <1>3, <1>4, <1>6

\* A block of the old branch is applied again.
LEMMA UnwindApplyKeeps ==
  ASSUME MainInv, UnwindApply
  PROVE  Consistent'
<1> USE DEF MainInv, Consistent
<1>1. PICK b : b = NextTowards(head, job.old)
  OBVIOUS
<1>2. /\ job.pc = "unwind" /\ head \in Ancestors[job.old] /\ head # job.old
      /\ ApplyBlock(b)
      /\ UNCHANGED <<index, validated, root, fhead, job, mode, fault, dbBase, blog>>
  BY <1>1 DEF UnwindApply, ApplyBlock, forkdbVars
<1>3. /\ root = logHead /\ mode # IRREVERSIBLE /\ dbAt = head /\ UnwindInv
      /\ job.after \in {"idle", "loop"} /\ RevChain(head) /\ job.old \in Blocks
  BY <1>2, SwitchingFacts, ForkHeadFacts DEF UnwindInv, JobInv, CtrlInv
<1>4. b \in Blocks /\ Prev[b] = head
  BY <1>1, <1>2, <1>3, NextTowardsIs
<1>5. dbAt' = head' /\ logHead' = logHead /\ StoreInv' /\ RevChain(head)'
  BY <1>2, <1>3, <1>4, ApplyBlockEffect
<1>6. RunInv' /\ FaultInv'
  BY <1>2, <1>3, <1>5, NoFaultYet DEF RunInv, Live, Replaying, Pushing
<1>7. UnwindInv'
  BY <1>2, <1>3 DEF UnwindInv, NoneBetter
<1>8. SpeculativeInv' /\ IrreversibleInv' /\ JobInv'
  BY <1>2, <1>3, <1>7 DEF SpeculativeInv, IrreversibleInv, JobInv, Live, RestInv, AddedInv,
       SwitchInv, MovedInv, AtRest
<1> QED
  BY <1>2, <1>5, <1>6, <1>8

\* The old branch is restored, or the assertion about it fails in init.
LEMMA UnwindDoneKeeps ==
  ASSUME MainInv, UnwindDone
  PROVE  Consistent'
<1> USE DEF MainInv, Consistent
<1>1. job.pc = "unwind" /\ head = job.old
  BY DEF UnwindDone
<1>2. /\ root = logHead /\ mode # IRREVERSIBLE /\ dbAt = head /\ UnwindInv
      /\ job.after \in {"idle", "loop"} /\ RevChain(head) /\ Invalid # {}
      /\ logHead \notin rev /\ head \in Blocks
  BY <1>1, SwitchingFacts DEF UnwindInv, JobInv
<1>3. CASE job.old \in Ancestors[job.new]
  BY <1>1, <1>2, <1>3, FailureAllowed DEF UnwindDone, UnwindInv, JobInv
<1>4. CASE job.old \notin Ancestors[job.new]
  <2>1. /\ job.after = "idle" /\ job'.pc = "idle" /\ job'.after = "idle"
        /\ UNCHANGED <<index, validated, root, fhead, head, dbAt, dbBase, rev, blog, mode,
                       fault>>
    BY <1>1, <1>2, <1>4 DEF UnwindDone, UnwindInv, Thrown, Idle, Goto, At, forkdbVars
  <2>2. /\ StoreInv'
        /\ logHead' = logHead
        /\ \A t \in Blocks : RevChain(t)' <=> RevChain(t)
    BY <1>2, <2>1, FilesUntouched
  <2>3. RunInv' /\ FaultInv'
    BY <1>1, <1>2, <2>1, <2>2, NoFaultYet DEF RunInv, Live, Replaying, Pushing, RevChain
  <2>4. RestInv'
    BY <1>1, <1>2, <2>1 DEF RestInv, AtTie, AtRest, UnwindInv, NoneBetter
  <2>5. SpeculativeInv' /\ IrreversibleInv' /\ JobInv'
    BY <1>2, <2>1, <2>4 DEF SpeculativeInv, IrreversibleInv, JobInv, AddedInv, SwitchInv,
         UnwindInv, MovedInv
  <2> QED
    BY <2>1, <2>2, <2>3, <2>5
<1> QED
  BY <1>3, <1>4

\* commit_block: the produced block becomes the head everywhere but in chainbase.
LEMMA CommitBlockKeeps ==
  ASSUME MainInv, CommitBlock
  PROVE  Consistent'
<1> USE DEF MainInv, Consistent
<1>1. PICK b : b = job.new
  OBVIOUS
<1>2. /\ job.pc = "commit" /\ job.after = "idle" /\ mode # IRREVERSIBLE
      /\ b \in Blocks /\ Prev[b] = head /\ b \notin Invalid
      /\ first_preferred(b, fhead) /\ OneBetter(b)
  BY <1>1 DEF CommitBlock, JobInv, IrreversibleInv, SpeculativeInv, AddedInv, Live, Valid
<1>3. /\ UNCHANGED <<index, root>>
      /\ validated' = validated \cup {b}
      /\ fhead' = b /\ head' = b
  BY <1>1, <1>2, MarkValidEffect DEF CommitBlock, CtrlInv
<1>4. /\ rev' = rev \cup {b} /\ job'.pc = "log" /\ job'.after = "push"
      /\ UNCHANGED <<dbAt, dbBase, blog, mode, fault>>
  BY <1>1, <1>3 DEF CommitBlock, At
<1>5. /\ head \in Blocks /\ logHead \in Blocks /\ logHead \in Ancestors[head]
      /\ RevChain(head) /\ root = logHead
  BY <1>2, LogHeadIsBlock DEF StoreInv, RunInv, Live, Replaying
<1>6. logHead' = logHead /\ libNum' = libNum
  BY <1>4 DEF logHead, libNum
<1>7. Ancestors[b] = Ancestors[head] \cup {b} /\ b \notin Ancestors[head]
  BY <1>2, <1>5, AncestorsOfChild
<1>8. b \notin Ancestors[logHead]
  BY <1>5, <1>7, AncestorsTransitive
<1>9. logHead \notin rev /\ rev = Ancestors[head] \ Ancestors[logHead]
  BY <1>2, <1>5, RevIs
<1>10. rev' = Ancestors[b] \ Ancestors[logHead] /\ logHead \notin rev'
  BY <1>4, <1>5, <1>7, <1>8, <1>9, AncestorsOfBlock
<1>11. RevChain(head)'
  BY <1>3, <1>5, <1>6, <1>7, <1>10 DEF RevChain
<1>12. StoreInv'
  BY <1>2, <1>3, <1>4, <1>6, <1>10, <1>11 DEF StoreInv, RevChain
<1>13. RunInv' /\ FaultInv'
  BY <1>2, <1>3, <1>4, <1>5, <1>6, <1>11, NoFaultYet DEF RunInv, Live, Replaying, Pushing
<1>14. NoneBetter(fhead)'
  <2>1. SUFFICES ASSUME NEW x \in index \ validated, x # b
                 PROVE  ~ first_preferred(x, b)
    BY <1>3 DEF NoneBetter
  <2>2. ~ first_preferred(x, fhead) /\ x \in Blocks /\ fhead \in Blocks
    BY <1>2, <2>1, ForkHeadFacts DEF OneBetter, CtrlInv
  <2> QED
    BY <1>2, <2>2, NumberAssumption DEF first_preferred
<1>15. SpeculativeInv' /\ IrreversibleInv' /\ JobInv'
  BY <1>2, <1>3, <1>4, <1>14 DEF SpeculativeInv, IrreversibleInv, JobInv, RestInv, AddedInv,
       SwitchInv, UnwindInv, MovedInv, AtRest
<1> QED
  BY <1>3, <1>12, <1>13, <1>15

\* What holds in the steps of log_irreversible.
LEMMA LoggingFacts ==
  ASSUME LibGrows, MainInv, job.pc \in {"log", "logging", "trim"}
  PROVE  /\ logHead \in Blocks /\ head \in Blocks /\ logHead \in Ancestors[head]
         /\ job.after \in {"idle", "push", "replay", "loop"}
         /\ head = fhead
         /\ head \in validated
         /\ mode = IRREVERSIBLE => job.after = "idle"
         /\ mode # IRREVERSIBLE =>
              /\ NoneBetter(fhead)
              /\ job.pc \in {"logging", "trim"} => job.new = fhead
         /\ job.pc = "log" => root = logHead
<1> USE DEF MainInv, Consistent
<1>1. CASE mode = IRREVERSIBLE
  <2>1. head = logHead /\ logHead \in validated /\ validated \subseteq Ancestors[logHead]
        /\ job.after = "idle"
    BY <1>1 DEF IrreversibleInv, Live
  <2>2. fhead = logHead
    BY <2>1, IrreversibleHead
  <2> QED
    BY <1>1, <2>1, <2>2, LogHeadIsBlock DEF StoreInv, RunInv, Live
<1>2. CASE mode # IRREVERSIBLE
  BY <1>2, LogHeadIsBlock, ForkHeadFacts DEF StoreInv, RunInv, Live, SpeculativeInv, MovedInv,
                              CtrlInv, LogInv, JobIsRecord
<1> QED
  BY <1>1, <1>2

\* log_irreversible returns to its caller, with the root at the end of the log.
LEMMA LogReturns ==
  ASSUME LibGrows, MainInv, job.pc \in {"log", "logging"}, job' = Goto(job.after),
         UNCHANGED <<head, dbAt, dbBase, rev, blog, mode, fault, fhead>>,
         root' = logHead,
         index' \subseteq index,
         index' \ validated' \subseteq index \ validated,
         validated' \subseteq validated,
         head \in validated'
  PROVE  Consistent'
<1> USE DEF MainInv, Consistent
<1>1. /\ job'.pc = job.after /\ job'.after = "idle"
      /\ job.after \in {"idle", "push", "replay", "loop"}
      /\ head = fhead /\ head \in Blocks
      /\ mode = IRREVERSIBLE => job.after = "idle"
      /\ mode # IRREVERSIBLE => NoneBetter(fhead)
  BY LoggingFacts DEF Goto, At
<1>2. /\ StoreInv'
      /\ logHead' = logHead
      /\ \A t \in Blocks : RevChain(t)' <=> RevChain(t)
  BY FilesUntouched DEF StoreInv
<1>3. RunInv' /\ FaultInv'
  BY <1>1, <1>2, NoFaultYet DEF RunInv, Live, Replaying, Pushing, RevChain, StoreInv
<1>4. IsFiniteSet(index)'
  BY IndexStaysFinite
<1>5. IrreversibleInv' /\ JobInv'
  BY <1>1, <1>2 DEF IrreversibleInv, JobInv, Live
<1>6. ~ first_preferred(fhead, head)
  BY <1>1, NumberAssumption DEF first_preferred
<1>7. mode # IRREVERSIBLE => NoneBetter(fhead)'
  BY <1>1 DEF NoneBetter
<1>8. SpeculativeInv'
  BY <1>1, <1>6, <1>7 DEF SpeculativeInv, RestInv, AddedInv, SwitchInv, UnwindInv, MovedInv,
       AtTie, AtRest
<1> QED
  BY <1>2, <1>3, <1>4, <1>5, <1>8

\* log_irreversible finds the root at the end of the log.
LEMMA LogStartKeeps ==
  ASSUME LibGrows, MainInv, LogStart
  PROVE  Consistent'
<1> USE DEF MainInv, Consistent
<1>1. /\ job.pc = "log" /\ root = logHead
      /\ head = fhead /\ head \in validated /\ head \in Blocks
      /\ job.after \in {"idle", "push", "replay", "loop"}
      /\ mode = IRREVERSIBLE => job.after = "idle"
      /\ mode # IRREVERSIBLE => NoneBetter(fhead)
  BY LoggingFacts DEF LogStart
<1>2. /\ UNCHANGED <<index, validated, root, fhead, head, dbAt, dbBase, rev, blog, mode,
                     fault>>
      /\ \/ job' = Goto(job.after)
         \/ \E f : /\ job' = At("logging", f, root, job.after)
                   /\ mode # IRREVERSIBLE => f = fhead
  BY <1>1 DEF LogStart, forkdbVars
<1>3. CASE job' = Goto(job.after)
  BY <1>1, <1>2, <1>3, LogReturns
<1>4. CASE \E f : /\ job' = At("logging", f, root, job.after)
                  /\ mode # IRREVERSIBLE => f = fhead
  <2>1. /\ job'.pc = "logging" /\ job'.after = job.after
        /\ mode # IRREVERSIBLE => job'.new = fhead
    BY <1>4 DEF At
  <2>2. /\ StoreInv'
        /\ logHead' = logHead
        /\ \A t \in Blocks : RevChain(t)' <=> RevChain(t)
    BY <1>1, <1>2, FilesUntouched DEF StoreInv
  <2>3. RunInv' /\ FaultInv'
    BY <1>1, <1>2, <2>1, <2>2, NoFaultYet DEF RunInv, Live, Replaying, Pushing, RevChain
  <2>4. IrreversibleInv' /\ JobInv'
    BY <1>1, <1>2, <2>1, <2>2 DEF IrreversibleInv, JobInv, Live
  <2>5. SpeculativeInv'
    BY <1>1, <1>2, <2>1 DEF SpeculativeInv, RestInv, AddedInv, SwitchInv, UnwindInv, MovedInv,
         NoneBetter, AtRest
  <2> QED
    BY <1>2, <2>2, <2>3, <2>4, <2>5
<1> QED
  BY <1>2, <1>3, <1>4

\* The end of log_irreversible.
LEMMA LogDoneKeeps ==
  ASSUME LibGrows, MainInv, LogDone
  PROVE  Consistent'
<1> USE DEF MainInv, Consistent
<1>1. /\ job.pc = "logging" /\ job.old = logHead /\ AdvanceRoot(logHead)
      /\ job' = Goto(job.after)
      /\ UNCHANGED <<head, dbAt, dbBase, rev, blog, mode, fault>>
  BY DEF LogDone, CtrlInv, LogInv, LoggingInv
<1>2. head = fhead /\ head \in validated
  BY <1>1, LoggingFacts
<1> QED
  BY <1>1, <1>2, LogReturns DEF AdvanceRoot, DescendantsIn

\* An invalid block ends it early.
LEMMA LogFailsKeeps ==
  ASSUME LibGrows, MainInv, LogFails
  PROVE  Consistent'
<1> USE DEF MainInv, Consistent
<1>1. /\ job.pc = "logging" /\ job.old = logHead /\ job.after = "idle"
      /\ IF logHead # root THEN AdvanceRoot(logHead) ELSE UNCHANGED forkdbVars
      /\ job' = Goto(job.after)
      /\ UNCHANGED <<head, dbAt, dbBase, rev, blog, mode, fault>>
  BY LoggingFacts DEF LogFails, ApplyFails, Idle, CtrlInv, LogInv, LoggingInv
<1>2. head = fhead /\ head \in validated
  BY <1>1, LoggingFacts
<1>3. CASE logHead # root
  BY <1>1, <1>2, <1>3, LogReturns DEF AdvanceRoot, DescendantsIn
<1>4. CASE logHead = root
  BY <1>1, <1>2, <1>4, LogReturns DEF forkdbVars
<1> QED
  BY <1>3, <1>4

\* A block goes to the block log; in irreversible mode it is applied first.
LEMMA LogBlockKeeps ==
  ASSUME LibGrows, MainInv, LogBlock
  PROVE  Consistent'
<1> USE DEF MainInv, Consistent
<1>1. PICK b : b = NextTowards(job.old, job.new)
  OBVIOUS
<1>2. /\ job.pc = "logging" /\ job.old = logHead /\ job.new \in Blocks
      /\ logHead \in Ancestors[job.new]
      /\ Num[logHead] < Lib[job.new]
      /\ dbBase' = Num[b] /\ blog' = Append(blog, b)
  BY <1>1 DEF LogBlock, CtrlInv, LogInv, LoggingInv
<1>3. logHead # job.new
  BY <1>2, NumberAssumption
<1>4. /\ b \in Blocks /\ b \in Ancestors[job.new] /\ Prev[b] = logHead
      /\ Ancestors[b] = Ancestors[logHead] \cup {b} /\ b \notin Ancestors[logHead]
  BY <1>1, <1>2, <1>3, NextTowardsIs
<1>5. /\ job'.pc = "trim" /\ job'.new = job.new /\ job'.after = job.after
  BY DEF LogBlock, CtrlInv, LogInv, JobIsRecord, At
<1>6. logHead' = b /\ libNum' = Num[b]
  BY <1>2, <1>4 DEF logHead, libNum, CtrlInv, LogInv, LogTypeOK
<1>7. /\ logHead \in Blocks /\ head \in Blocks /\ logHead \in Ancestors[head] /\ head = fhead
      /\ head \in validated /\ root \in Ancestors[logHead] /\ logHead \notin rev
      /\ mode = IRREVERSIBLE => job.after = "idle"
      /\ mode # IRREVERSIBLE => NoneBetter(fhead) /\ job.new = fhead
  BY <1>2, LoggingFacts, AncestorsOfBlock DEF RunInv, Live, StoreInv
<1>8. ASSUME NEW t \in Blocks, b \in Ancestors[t], RevChain(t), rev' = rev
      PROVE  RevChain(t)'
  BY <1>4, <1>6, <1>7, <1>8 DEF RevChain
<1>9. CASE mode # IRREVERSIBLE
  <2>1. UNCHANGED <<index, validated, root, fhead, head, dbAt, rev, mode, fault>>
    BY <1>9 DEF LogBlock, forkdbVars
  <2>2. b \in Ancestors[head]
    BY <1>4, <1>7, <1>9
  <2>3. ~ Replaying => RevChain(head)'
    <3>1. ~ Replaying => RevChain(head)
      BY <1>2 DEF RunInv, Live
    <3>2. RevChain(head) => RevChain(head)'
      BY <1>4, <1>6, <1>7, <2>1, <2>2 DEF RevChain
    <3> QED
      BY <3>1, <3>2
  <2>4. Replaying => \E t \in Blocks : head \in Ancestors[t] /\ RevChain(t)'
    <3>1. SUFFICES ASSUME Replaying
                   PROVE  \E t \in Blocks : head \in Ancestors[t] /\ RevChain(t)'
      OBVIOUS
    <3>2. PICK t \in Blocks : head \in Ancestors[t] /\ RevChain(t)
      BY <1>2, <3>1 DEF RunInv, Live
    <3>3. b \in Ancestors[t]
      BY <2>2, <3>2, AncestorsTransitive
    <3> QED
      BY <1>8, <2>1, <3>2, <3>3
  <2>5. \E t \in Blocks : RevChain(t)'
    <3>1. ~ Replaying => \E t \in Blocks : RevChain(t)'
      BY <1>7, <2>1, <2>3 DEF RevChain
    <3> QED
      BY <3>1, <2>4
  <2>6. StoreInv'
    BY <1>2, <1>5, <1>6, <1>7, <2>1, <2>2, <2>5 DEF StoreInv
  <2>7. RunInv'
    <3>1. root \in Ancestors[b]
      BY <1>4, <1>7
    <3>2. (Replaying' <=> Replaying) /\ (Pushing' <=> Pushing)
      BY <1>2, <1>5 DEF Replaying, Pushing
    <3>3. ~ Pushing => dbAt = head
      BY <1>2 DEF RunInv, Live
    <3> QED
      BY <1>5, <1>6, <2>1, <2>3, <2>4, <3>1, <3>2, <3>3 DEF RunInv
  <2>8. FaultInv'
    BY <1>2, <2>1, NoFaultYet
  <2>9. IrreversibleInv' /\ JobInv'
    BY <1>2, <1>5, <1>9, <2>1 DEF IrreversibleInv, JobInv
  <2>10. SpeculativeInv'
    BY <1>5, <1>7, <1>9, <2>1 DEF SpeculativeInv, RestInv, AddedInv, SwitchInv, UnwindInv,
         MovedInv, NoneBetter, AtRest
  <2> QED
    BY <2>1, <2>6, <2>7, <2>8, <2>9, <2>10
<1>10. CASE mode = IRREVERSIBLE
  <2>1. /\ ApplyBlock(b) /\ MarkValid(b)
        /\ rev = {} /\ validated \subseteq Ancestors[logHead]
    BY <1>1, <1>2, <1>10 DEF LogBlock, IrreversibleInv, Live
  <2>2. /\ head' = b /\ dbAt' = b /\ rev' = {} /\ UNCHANGED <<mode, fault>>
    BY <1>10, <2>1 DEF ApplyBlock
  <2>3. UNCHANGED <<index, root>> /\ validated' = validated \cup {b}
    BY <2>1, MarkValidEffect DEF CtrlInv
  <2>4. RevChain(b)' /\ RevChain(head)'
    BY <1>4, <1>6, <2>2, AncestorsOfBlock DEF RevChain
  <2>5. StoreInv'
    BY <1>2, <1>4, <1>6, <2>2, <2>4, AncestorsOfBlock DEF StoreInv
  <2>6. RunInv' /\ FaultInv'
    BY <1>2, <1>4, <1>5, <1>6, <1>7, <1>10, <2>2, <2>3, <2>4, NoFaultYet
       DEF RunInv, Live, Replaying, Pushing
  <2>7. IrreversibleInv'
    BY <1>4, <1>5, <1>6, <1>7, <1>10, <2>1, <2>2, <2>3 DEF IrreversibleInv
  <2>8. SpeculativeInv' /\ JobInv'
    BY <1>2, <1>5, <1>7, <1>10, <2>2 DEF SpeculativeInv, JobInv
  <2> QED
    BY <2>3, <2>5, <2>6, <2>7, <2>8
<1> QED
  BY <1>9, <1>10

\* It leaves the reversible blocks.
LEMMA LogTrimKeeps ==
  ASSUME MainInv, LogTrim
  PROVE  Consistent'
<1> USE DEF MainInv, Consistent
<1>1. /\ job.pc = "trim" /\ job.old = logHead
      /\ rev' = {r \in rev : Num[r] > Num[logHead]}
      /\ UNCHANGED <<index, validated, root, fhead, head, dbAt, dbBase, blog, mode, fault>>
  BY DEF LogTrim, forkdbVars, CtrlInv, LogInv, LoggingInv
<1>2. job'.pc = "logging" /\ job'.new = job.new /\ job'.after = job.after
  BY DEF LogTrim, CtrlInv, LogInv, JobIsRecord, At
<1>3. logHead' = logHead /\ libNum' = libNum /\ logHead \in Blocks
  BY <1>1, LogHeadIsBlock DEF logHead, libNum
<1>4. PICK t \in Blocks : RevChain(t)
  BY DEF StoreInv
<1>5. rev' = rev \ {logHead}
  <2>1. ~ (Num[logHead] > Num[logHead])
    BY <1>3, NumberAssumption
  <2>2. ASSUME NEW r \in rev, r # logHead PROVE Num[r] > Num[logHead]
    BY <1>4, <2>2, BranchAbove DEF RevChain
  <2> QED
    BY <1>1, <2>1, <2>2
<1>6. \A x \in Blocks : RevChain(x)' <=> RevChain(x)
  BY <1>3, <1>5 DEF RevChain
<1>7. StoreInv'
  BY <1>1, <1>3, <1>5, <1>6 DEF StoreInv
<1>8. RunInv' /\ FaultInv'
  BY <1>1, <1>2, <1>3, <1>5, NoFaultYet
     DEF RunInv, Live, Replaying, Pushing, RevChain
<1>9. IrreversibleInv' /\ JobInv'
  BY <1>1, <1>2, <1>3, <1>5 DEF IrreversibleInv, JobInv, Live
<1>10. SpeculativeInv'
  BY <1>1, <1>2 DEF SpeculativeInv, Live, RestInv, AddedInv, SwitchInv, UnwindInv, MovedInv,
       NoneBetter, AtRest
<1> QED
  BY <1>1, <1>7, <1>8, <1>9, <1>10

\* The reversible blocks that a start of the node keeps.
LEMMA KeptIsBranch ==
  ASSUME MainInv, NEW t \in Blocks, RevChain(t), NEW m, m # IRREVERSIBLE
  PROVE  /\ keptReversible(m) = Ancestors[t] \ Ancestors[logHead]
         /\ ~ Gap(m)
<1>1. logHead \in Blocks /\ Num[logHead] \in Nat
  BY LogHeadIsBlock, NumberAssumption DEF MainInv
<1>2. keptReversible(m) = Ancestors[t] \ Ancestors[logHead]
  <2>1. ~ (Num[logHead] > Num[logHead])
    BY <1>1
  <2>2. ASSUME NEW r \in rev, r # logHead PROVE Num[r] > Num[logHead]
    BY <2>2, BranchAbove DEF RevChain
  <2>3. {r \in rev : Num[r] > libNum} = rev \ {logHead}
    BY <2>1, <2>2 DEF libNum
  <2> QED
    BY <2>3 DEF keptReversible, RevChain
<1>3. ~ Gap(m)
  <2>1. SUFFICES ASSUME Gap(m) PROVE FALSE
    OBVIOUS
  <2>2. logHead # t
    BY <1>2, <2>1 DEF Gap
  <2>3. PICK n : n = NextTowards(logHead, t)
    OBVIOUS
  <2>4. n \in Ancestors[t] /\ n \notin Ancestors[logHead] /\ Num[n] = Num[logHead] + 1
    BY <2>2, <2>3, NextTowardsIs DEF RevChain
  <2> QED
    BY <1>2, <2>1, <2>4 DEF Gap, libNum
<1> QED
  BY <1>2, <1>3

\* The start after a crash finds no gap.
LEMMA RestartKeeps ==
  ASSUME MainInv, NEW m \in Modes, Restart(m)
  PROVE  Consistent'
<1> USE DEF MainInv, Consistent
<1>1. PICK t \in Blocks : RevChain(t)
  BY DEF StoreInv
<1>2. ~ Gap(m)
  <2>1. CASE m = IRREVERSIBLE
    BY <2>1 DEF Gap, keptReversible
  <2> QED
    BY <1>1, <2>1, KeptIsBranch
<1>3. /\ job.pc = "crashed" /\ Reset(logHead)
      /\ head' = logHead /\ dbAt' = logHead /\ dbBase' = libNum
      /\ rev' = keptReversible(m) /\ mode' = m
      /\ job'.pc = "replay" /\ job'.after = "idle"
      /\ UNCHANGED <<blog, fault>>
  BY <1>2 DEF Restart, Goto, At
<1>4. /\ index' = {} /\ validated' = {logHead} /\ root' = logHead /\ fhead' = logHead
  BY <1>3 DEF Reset
<1>5. /\ logHead' = logHead /\ libNum' = libNum /\ logHead \in Blocks
      /\ logHead \in Ancestors[logHead] /\ rev' \subseteq rev
  BY <1>3, LogHeadIsBlock, AncestorsOfBlock DEF logHead, libNum, keptReversible
<1>6. \E x \in Blocks : logHead \in Ancestors[x] /\ RevChain(x)' /\ logHead \notin rev'
  <2>1. CASE m = IRREVERSIBLE
    BY <1>3, <1>5, <2>1 DEF RevChain, keptReversible
  <2>2. CASE m # IRREVERSIBLE
    BY <1>1, <1>3, <1>5, <2>2, KeptIsBranch DEF RevChain
  <2> QED
    BY <2>1, <2>2
<1>7. StoreInv'
  BY <1>3, <1>5, <1>6 DEF StoreInv
<1>8. RunInv' /\ FaultInv'
  BY <1>3, <1>4, <1>5, <1>6, NoFaultYet DEF RunInv, Live, Replaying, Pushing
<1>9. IrreversibleInv' /\ JobInv'
  BY <1>3, <1>4, <1>5 DEF IrreversibleInv, JobInv, keptReversible
<1>10. SpeculativeInv'
  BY <1>3, <1>4 DEF SpeculativeInv, RestInv, AddedInv, SwitchInv, UnwindInv, MovedInv,
       NoneBetter, AtRest
<1>11. IsFiniteSet(index)'
  BY <1>4, FS_EmptySet
<1> QED
  BY <1>7, <1>8, <1>9, <1>10, <1>11

\* The state an orderly stop leaves: the two heads are equals.
LEMMA StoppedFacts ==
  ASSUME LibGrows, MainInv, job.pc = "down"
  PROVE  /\ CleanStop
         /\ root = logHead /\ logHead \in Blocks /\ head \in Blocks
         /\ logHead \in Ancestors[head]
         /\ dbAt = head
         /\ RevChain(head)
         /\ rev = Ancestors[head] \ Ancestors[logHead]
         /\ logHead \notin rev
         /\ head \in validated
         /\ fhead \in Blocks
         /\ Num[fhead] = Num[head]
         /\ Invalid = {} => head = fhead
         /\ NoneBetter(fhead) \/ (fhead = root /\ head = root)
<1> USE DEF MainInv, Consistent
<1>1. job.after = "idle" /\ CleanStop
  BY DEF JobInv
<1>2. /\ root = logHead /\ logHead \in Blocks /\ head \in Blocks /\ dbAt = head
      /\ logHead \in Ancestors[head] /\ RevChain(head)
  BY <1>1, LogHeadIsBlock DEF RunInv, Live, Replaying, Pushing, StoreInv
<1>3. CASE mode = IRREVERSIBLE
  <2>1. /\ head = logHead /\ head \in validated /\ validated \subseteq Ancestors[logHead]
    BY <1>3 DEF IrreversibleInv, Live
  <2>2. fhead = logHead
    BY <2>1, IrreversibleHead
  <2> QED
    BY <1>1, <1>2, <2>1, <2>2, RevIs
<1>4. CASE mode # IRREVERSIBLE
  <2>1. /\ AtTie
        /\ NoneBetter(fhead) \/ (fhead = root /\ head = root)
        /\ Invalid = {} => head = fhead
    BY <1>4 DEF SpeculativeInv, Live, RestInv, AtRest
  <2>2. /\ fhead \in Blocks /\ head \in validated /\ ~ first_preferred(fhead, head)
        /\ ~ first_preferred(head, fhead)
    BY <1>4, ForkHeadFacts DEF AtTie, CtrlInv, SpeculativeInv, Live, RestInv
  <2>3. Num[fhead] = Num[head]
    BY <1>2, <2>2, NumberAssumption DEF first_preferred
  <2> QED
    BY <1>1, <1>2, <1>4, <2>1, <2>2, <2>3, RevIs DEF SpeculativeInv, Live, RestInv, AtRest
<1> QED
  BY <1>3, <1>4

\* The largest of a set of numbers.
LEMMA MaxIs ==
  ASSUME NEW S \in SUBSET Nat, NEW x \in S, \A y \in S : x >= y
  PROVE  Max(S) = x
<1>1. Max(S) \in S /\ \A y \in S : Max(S) >= y
  BY DEF Max
<1>2. PICK y : y = Max(S)
  OBVIOUS
<1>3. y \in Nat /\ x \in Nat /\ y >= x /\ x >= y
  BY <1>1, <1>2
<1> QED
  BY <1>2, <1>3

\* The highest number a start finds, and what its comparison of the fork database
\* with the reversible blocks comes to.
LEMMA StoppedNumbers ==
  ASSUME LibGrows, MainInv, job.pc = "down"
  PROVE  /\ \A m \in Modes : ~ Gap(m)
         /\ \A m \in Modes :
              lastBlockNum(m) = IF m = IRREVERSIBLE THEN libNum ELSE Num[head]
         /\ \A m \in Modes : m # IRREVERSIBLE => keptReversible(m) = rev
         /\ PendingHeadMatches <=> fhead = head
<1> USE DEF MainInv, Consistent
<1>1. /\ root = logHead /\ logHead \in Blocks /\ head \in Blocks /\ logHead \in Ancestors[head]
      /\ RevChain(head) /\ rev = Ancestors[head] \ Ancestors[logHead] /\ fhead \in Blocks
      /\ Num[fhead] = Num[head]
      /\ NoneBetter(fhead) \/ (fhead = root /\ head = root)
  BY StoppedFacts
<1>2. libNum = Num[logHead] /\ libNum \in Nat /\ Num[head] \in Nat /\ libNum <= Num[head]
  BY <1>1, NumberAssumption, AncestorsOrdered DEF libNum
<1>3. ASSUME NEW m, m # IRREVERSIBLE
      PROVE  keptReversible(m) = rev /\ ~ Gap(m) /\ lastBlockNum(m) = Num[head]
  <2>1. keptReversible(m) = rev /\ ~ Gap(m)
    BY <1>1, <1>3, KeptIsBranch
  <2>2. DEFINE S == {libNum} \cup {Num[r] : r \in rev}
  <2>3. S \in SUBSET Nat
    BY <1>1, <1>2, AncestorsOfBlock, NumberAssumption
  <2>4. Num[head] \in S
    <3>1. CASE head = logHead
      BY <1>2, <3>1
    <3>2. CASE head # logHead
      <4>1. head \in rev
        BY <1>1, <3>2, AncestorsOfBlock, AncestorsAntisymmetric
      <4> QED
        BY <4>1
    <3> QED
      BY <3>1, <3>2
  <2>5. \A y \in S : Num[head] >= y
    <3>1. ASSUME NEW r \in rev PROVE Num[head] >= Num[r]
      BY <1>1, <3>1, AncestorsOrdered, AncestorsOfBlock, NumberAssumption
    <3> QED
      BY <1>2, <3>1
  <2>6. Max(S) = Num[head]
    <3> HIDE DEF S
    <3> QED
      BY <2>3, <2>4, <2>5, MaxIs
  <2> QED
    BY <2>1, <2>6 DEF lastBlockNum
<1>4. ~ Gap(IRREVERSIBLE) /\ lastBlockNum(IRREVERSIBLE) = libNum
  <2>1. keptReversible(IRREVERSIBLE) = {}
    BY DEF keptReversible
  <2>2. Max({libNum}) = libNum
    BY <1>2, MaxIs
  <2>3. {libNum} \cup {Num[r] : r \in {}} = {libNum}
    OBVIOUS
  <2> QED
    BY <2>1, <2>2, <2>3 DEF Gap, lastBlockNum
<1>5. PendingHeadMatches <=> fhead = head
  <2>1. keptReversible(SPECULATIVE) = rev /\ lastBlockNum(SPECULATIVE) = Num[head]
    BY <1>3 DEF SPECULATIVE, IRREVERSIBLE
  <2>2. CASE head = logHead
    <3>1. rev = {}
      BY <1>1, <2>2
    <3>2. fhead = root
      BY <1>1, <2>2, ForkHeadFacts, BranchNumbersDiffer, AncestorsOfBlock DEF CtrlInv
    <3> QED
      BY <1>1, <2>1, <2>2, <3>1, <3>2 DEF PendingHeadMatches
  <2>3. CASE head # logHead
    <3>1. pending_head = fhead
      BY <1>1, <2>3, PendingHeadIsHead DEF CtrlInv
    <3>2. rev # {} /\ libNum < Num[fhead]
      <4>1. head \in rev
        BY <1>1, <2>3, AncestorsOfBlock, AncestorsAntisymmetric
      <4>2. Num[logHead] < Num[head]
        BY <1>1, <2>3, AncestorsOrdered
      <4> QED
        BY <1>1, <1>2, <4>1, <4>2
    <3>3. Min({Num[head], Num[fhead]}) = Num[fhead]
      BY <1>1, <1>2 DEF Min
    <3>4. AncestorAt(fhead, Num[fhead]) = fhead
      BY <1>1, AncestorAtFinds, AncestorsOfBlock
    <3>5. PendingHeadMatches <=> fhead \in rev
      BY <2>1, <3>1, <3>2, <3>3, <3>4 DEF PendingHeadMatches
    <3>6. fhead \in rev => fhead = head
      BY <1>1, BranchNumbersDiffer, AncestorsOfBlock
    <3>7. head \in rev
      BY <1>1, <2>3, AncestorsOfBlock, AncestorsAntisymmetric
    <3> QED
      BY <3>5, <3>6, <3>7
  <2> QED
    BY <2>2, <2>3
<1> QED
  BY <1>3, <1>4, <1>5

\* The start after an orderly stop is refused only when a failed fork switch has
\* left the two heads on different blocks; otherwise it comes back to the head.
LEMMA StartupKeeps ==
  ASSUME LibGrows, MainInv, NEW m \in Modes, Startup(m)
  PROVE  Consistent'
<1> USE DEF MainInv, Consistent
<1>1. /\ job.pc = "down" /\ CleanStop
      /\ root = logHead /\ logHead \in Blocks /\ head \in Blocks /\ logHead \in Ancestors[head]
      /\ dbAt = head /\ RevChain(head) /\ logHead \notin rev
      /\ head \in validated /\ fhead \in Blocks /\ Num[fhead] = Num[head]
      /\ Invalid = {} => head = fhead
      /\ NoneBetter(fhead) \/ (fhead = root /\ head = root)
  BY StoppedFacts DEF Startup
<1>2. /\ ~ Gap(m)
      /\ lastBlockNum(m) = IF m = IRREVERSIBLE THEN libNum ELSE Num[head]
      /\ m # IRREVERSIBLE => keptReversible(m) = rev
      /\ PendingHeadMatches <=> fhead = head
  BY <1>1, StoppedNumbers
<1>3. Num[head] \in Nat /\ libNum \in Nat /\ libNum = Num[root] /\ Num[root] <= Num[head]
  BY <1>1, NumberAssumption, AncestorsOrdered DEF libNum
<1>4. CASE Fails("init")
  <2>1. Invalid # {}
    <3>1. SUFFICES ASSUME Invalid = {} PROVE FALSE
      OBVIOUS
    <3>2. fault' = "init" /\ fault = "none"
      BY <1>1, <1>4 DEF Fails, FaultInv
    <3>3. \/ Num[dbAt] < Num[IF m = IRREVERSIBLE THEN root ELSE fhead]
          \/ /\ m # IRREVERSIBLE
             /\ Gap(m) \/ Num[fhead] > lastBlockNum(m) \/ ~ PendingHeadMatches
      BY <3>2 DEF Startup
    <3> QED
      BY <1>1, <1>2, <1>3, <3>1, <3>3
  <2> QED
    BY <1>1, <1>4, <2>1, FailureAllowed
<1>5. CASE ~ Fails("init")
  <2>1. /\ IF m = IRREVERSIBLE /\ fhead # root
             THEN RollbackHeadToRoot ELSE UNCHANGED forkdbVars
        /\ head' = IF m = IRREVERSIBLE THEN root ELSE fhead
        /\ dbAt' = AncestorAt(head, Num[head'])
        /\ rev' = keptReversible(m)
        /\ mode' = m
        /\ job' = IF lastBlockNum(m) > Num[head'] THEN Goto("replay") ELSE Goto("init")
        /\ UNCHANGED <<dbBase, blog, fault>>
        /\ m # IRREVERSIBLE => PendingHeadMatches
    BY <1>1, <1>5 DEF Startup
  <2>2. logHead' = logHead /\ libNum' = libNum
    BY <2>1 DEF logHead, libNum
  <2>3. CASE m # IRREVERSIBLE
    <3>1. fhead = head
      BY <1>2, <2>1, <2>3
    <3>2. /\ UNCHANGED <<index, validated, root, fhead, head, dbAt, rev, dbBase, blog, fault>>
          /\ job'.pc = "init" /\ job'.after = "idle" /\ mode' # IRREVERSIBLE
      <4>1. AncestorAt(head, Num[head]) = head
        BY <1>1, AncestorAtFinds, AncestorsOfBlock
      <4> QED
        BY <1>1, <1>2, <1>3, <2>1, <2>3, <3>1, <4>1 DEF forkdbVars, Goto, At
    <3>3. RevChain(head)'
      BY <1>1, <2>2, <3>2 DEF RevChain
    <3>4. StoreInv'
      BY <1>1, <2>1, <2>2, <3>2, <3>3 DEF StoreInv, RevChain
    <3>5. RunInv' /\ FaultInv'
      BY <1>1, <2>2, <3>2, <3>3, NoFaultYet DEF RunInv, Live, Replaying, Pushing
    <3>6. IrreversibleInv' /\ JobInv'
      BY <1>1, <3>2 DEF IrreversibleInv, JobInv
    <3>7. SpeculativeInv'
      BY <1>1, <3>1, <3>2 DEF SpeculativeInv, RestInv, AddedInv, SwitchInv, UnwindInv,
           MovedInv, AtRest, NoneBetter
    <3> QED
      BY <3>2, <3>4, <3>5, <3>6, <3>7
  <2>4. CASE m = IRREVERSIBLE
    <3>1. /\ head' = root /\ rev' = {} /\ mode' = IRREVERSIBLE
          /\ job'.pc = "init" /\ job'.after = "idle"
      BY <1>2, <1>3, <2>1, <2>4 DEF keptReversible, Goto, At
    <3>2. dbAt' = root
      BY <1>1, <2>1, <3>1, AncestorAtFinds
    <3>3. index' = index /\ root' = root /\ validated' = {root}
      <4>1. CASE fhead # root
        BY <2>1, <2>4, <4>1 DEF RollbackHeadToRoot
      <4>2. CASE fhead = root
        <5>1. ASSUME NEW x \in validated PROVE x = root
          BY <4>2, <5>1, ForkHeadFacts, PreferredToAncestor DEF CtrlInv
        <5>2. UNCHANGED <<index, validated, root>> /\ root \in validated
          BY <2>1, <4>2, ForkHeadFacts DEF forkdbVars, CtrlInv
        <5> QED
          BY <5>1, <5>2
      <4> QED
        BY <4>1, <4>2
    <3>4. RevChain(head)' /\ root \in Ancestors[root]
      BY <1>1, <2>2, <3>1, AncestorsOfBlock DEF RevChain
    <3>5. StoreInv'
      BY <1>1, <2>1, <2>2, <3>1, <3>2, <3>4 DEF StoreInv, RevChain
    <3>6. RunInv' /\ FaultInv'
      BY <1>1, <2>1, <2>2, <3>1, <3>2, <3>3, <3>4, NoFaultYet DEF RunInv, Live, Replaying, Pushing
    <3>7. IrreversibleInv' /\ JobInv' /\ SpeculativeInv'
      BY <1>1, <2>2, <3>1, <3>3, <3>4 DEF IrreversibleInv, JobInv, SpeculativeInv
    <3> QED
      BY <3>3, <3>5, <3>6, <3>7
  <2> QED
    BY <2>3, <2>4
<1> QED
  BY <1>4, <1>5

\* The next reversible block is the child of the head.
LEMMA ReplayReversibleKeeps ==
  ASSUME LibGrows, MainInv, NEW r \in Blocks, ReplayReversible(r)
  PROVE  Consistent'
<1> USE DEF MainInv, Consistent
<1>1. /\ job.pc = "replay" /\ job.after = "idle" /\ r \in rev /\ Num[r] = Num[head] + 1
      /\ mode # IRREVERSIBLE
  BY DEF ReplayReversible, JobInv, IrreversibleInv, Live
<1>2. PICK t \in Blocks : head \in Ancestors[t] /\ RevChain(t)
  BY <1>1 DEF RunInv, Live, Replaying
<1>3. /\ root = logHead /\ head \in Blocks /\ logHead \in Ancestors[head]
      /\ logHead \notin rev /\ dbAt = head
      /\ head = fhead /\ NoneBetter(fhead)
  BY <1>1 DEF RunInv, Live, Pushing, StoreInv, SpeculativeInv, MovedInv
<1>4. r \in Ancestors[t]
  BY <1>1, <1>2, <1>3 DEF RevChain
<1>5. Prev[r] = head
  <2>1. head # t
    BY <1>1, <1>2, <1>3, <1>4, AncestorsOrdered, NumberAssumption
  <2>2. PICK n : n = NextTowards(head, t)
    OBVIOUS
  <2>3. n \in Ancestors[t] /\ Num[n] = Num[head] + 1 /\ Prev[n] = head
    BY <1>2, <2>1, <2>2, NextTowardsIs
  <2>4. n = r
    BY <1>1, <1>2, <1>4, <2>3, BranchNumbersDiffer
  <2> QED
    BY <2>3, <2>4
<1>6. /\ Add(r) \/ (r \in index /\ UNCHANGED forkdbVars)
      /\ job'.pc = "switch" /\ job'.new = r /\ job'.old = head /\ job'.after = "replay"
      /\ UNCHANGED <<head, dbAt, dbBase, rev, blog, mode, fault>>
  BY <1>5 DEF ReplayReversible, Switch, At
<1>7. /\ root' = root /\ validated' = validated /\ index' \subseteq index \cup {r}
      /\ fhead' \in Blocks
      /\ ~ first_preferred(fhead', fhead)
  <2>1. CASE Add(r)
    BY <2>1, AddEffect DEF CtrlInv
  <2>2. CASE UNCHANGED forkdbVars
    BY <1>3, <2>2, NumberAssumption DEF forkdbVars, first_preferred
  <2> QED
    BY <1>6, <2>1, <2>2
<1>8. IsFiniteSet(index)'
  BY <1>6, IndexStaysFinite DEF forkdbVars
<1>9. /\ StoreInv'
      /\ logHead' = logHead
      /\ \A x \in Blocks : RevChain(x)' <=> RevChain(x)
  BY <1>3, <1>6, FilesUntouched
<1>10. RunInv' /\ FaultInv'
  BY <1>1, <1>2, <1>3, <1>6, <1>7, <1>9, NoFaultYet DEF RunInv, Live, Replaying, Pushing
<1>11. /\ Ancestors[r] = Ancestors[head] \cup {r} /\ r \notin Ancestors[head]
       /\ first_preferred(r, head)
  BY <1>3, <1>5, AncestorsOfChild, PreferredToParent
<1>12. first_preferred(r, fhead')
  BY <1>3, <1>7, <1>11, PreferenceIsWeakOrder
<1>13. NoneBetter(r)'
  <2>1. SUFFICES ASSUME NEW x \in index' \ validated'
                 PROVE  ~ first_preferred(x, r)
    BY DEF NoneBetter
  <2>2. ~ first_preferred(r, r)
    BY NumberAssumption DEF first_preferred
  <2>3. CASE x # r
    <3>1. x \in index \ validated /\ x \in Blocks
      BY <1>7, <2>1, <2>3, ForkHeadFacts DEF CtrlInv
    <3>2. ~ first_preferred(x, head)
      BY <1>3, <3>1 DEF NoneBetter
    <3> QED
      BY <1>3, <1>11, <3>1, <3>2, NumberAssumption DEF first_preferred
  <2> QED
    BY <2>2, <2>3
<1>14. SwitchInv'
  BY <1>1, <1>3, <1>5, <1>6, <1>7, <1>11, <1>12, <1>13, AncestorsOfBlock, ForkHeadFacts
     DEF SwitchInv, CtrlInv, NoneBetter
<1>15. SpeculativeInv' /\ IrreversibleInv' /\ JobInv'
  BY <1>1, <1>6, <1>14 DEF SpeculativeInv, IrreversibleInv, JobInv, RestInv, AddedInv,
       UnwindInv, MovedInv, AtRest
<1> QED
  BY <1>8, <1>9, <1>10, <1>15

\* A replay ends at the last reversible block.
LEMMA ReplayDoneKeeps ==
  ASSUME MainInv, ReplayDone
  PROVE  Consistent'
<1> USE DEF MainInv, Consistent
<1>1. /\ job.pc = "replay" /\ job.after = "idle"
      /\ \A r \in rev : Num[r] # Num[head] + 1
      /\ job'.pc = "init" /\ job'.after = "idle"
      /\ UNCHANGED <<index, validated, root, fhead, head, dbAt, dbBase, rev, blog, mode,
                     fault>>
  BY DEF ReplayDone, JobInv, Goto, At, forkdbVars
<1>2. PICK t \in Blocks : head \in Ancestors[t] /\ RevChain(t)
  BY <1>1 DEF RunInv, Live, Replaying
<1>3. head = t
  <2>1. SUFFICES ASSUME head # t PROVE FALSE
    OBVIOUS
  <2>2. PICK n : n = NextTowards(head, t)
    OBVIOUS
  <2>3. /\ n \in Ancestors[t] /\ Num[n] = Num[head] + 1 /\ n \notin Ancestors[head]
    BY <1>2, <2>1, <2>2, NextTowardsIs
  <2>4. n \notin Ancestors[logHead]
    BY <2>3, AncestorsTransitive DEF StoreInv
  <2> QED
    BY <1>1, <1>2, <2>3, <2>4 DEF RevChain
<1>4. /\ StoreInv'
      /\ logHead' = logHead
      /\ \A x \in Blocks : RevChain(x)' <=> RevChain(x)
  BY <1>1, FilesUntouched DEF StoreInv
<1>5. RunInv' /\ FaultInv'
  BY <1>1, <1>2, <1>3, <1>4, NoFaultYet DEF RunInv, Live, Replaying, Pushing
<1>6. IrreversibleInv' /\ JobInv'
  BY <1>1, <1>4 DEF IrreversibleInv, JobInv, Live
<1>7. SpeculativeInv'
  BY <1>1 DEF SpeculativeInv, Live, RestInv, AddedInv, SwitchInv, UnwindInv, MovedInv,
       NoneBetter, AtRest
<1> QED
  BY <1>1, <1>4, <1>5, <1>6, <1>7

\* init switches from the root to the best block that irreversible mode has left.
LEMMA InitBranchKeeps ==
  ASSUME MainInv, InitBranch
  PROVE  Consistent'
<1> USE DEF MainInv, Consistent
<1>1. PICK p : p = pending_head
  OBVIOUS
<1>2. /\ job.pc \in {"init", "loop"} /\ job.after = "idle" /\ p # fhead
      /\ job'.pc = "switch" /\ job'.new = p /\ job'.old = head /\ job'.after = "loop"
      /\ UNCHANGED <<index, validated, root, fhead, head, dbAt, dbBase, rev, blog, mode,
                     fault>>
      /\ mode # IRREVERSIBLE
  BY <1>1 DEF InitBranch, JobInv, Switch, At, forkdbVars, IrreversibleInv, Live
<1>3. ~ NoneBetter(fhead)
  BY <1>1, <1>2, PendingHeadIsHead DEF CtrlInv
<1>4. CleanStop /\ fhead = root /\ head = root
  BY <1>2, <1>3 DEF SpeculativeInv, Live, RestInv, MovedInv
<1>5. /\ p \in Blocks /\ root \in Ancestors[p] /\ first_preferred(p, fhead) /\ NoneBetter(p)
  BY <1>1, <1>2, PendingHeadIs, PendingHeadKnown DEF CtrlInv
<1>6. /\ StoreInv'
      /\ logHead' = logHead
      /\ \A x \in Blocks : RevChain(x)' <=> RevChain(x)
  BY <1>2, FilesUntouched DEF StoreInv
<1>7. RunInv' /\ FaultInv'
  BY <1>2, <1>6, NoFaultYet DEF RunInv, Live, Replaying, Pushing, StoreInv
<1>8. SwitchInv'
  BY <1>2, <1>4, <1>5, AncestorsOfBlock, ForkHeadFacts DEF SwitchInv, CtrlInv, NoneBetter
<1>9. SpeculativeInv' /\ IrreversibleInv' /\ JobInv'
  BY <1>2, <1>4, <1>8 DEF SpeculativeInv, IrreversibleInv, JobInv, RestInv, AddedInv,
       UnwindInv, MovedInv, AtRest
<1> QED
  BY <1>2, <1>6, <1>7, <1>9

\* The end of init: nothing better is left.
LEMMA InitDoneKeeps ==
  ASSUME MainInv, InitDone
  PROVE  Consistent'
<1> USE DEF MainInv, Consistent
<1>1. /\ job.pc \in {"init", "loop"} /\ job.after = "idle"
      /\ job'.pc = "idle" /\ job'.after = "idle"
      /\ UNCHANGED <<index, validated, root, fhead, head, dbAt, dbBase, rev, blog, mode,
                     fault>>
  BY DEF InitDone, JobInv, Idle, Goto, At, forkdbVars
<1>2. ASSUME mode # IRREVERSIBLE
      PROVE  head = fhead /\ NoneBetter(fhead)
  <2>1. pending_head = fhead => NoneBetter(fhead)
    BY PendingHeadIsHead DEF CtrlInv
  <2> QED
    BY <1>1, <1>2, <2>1 DEF InitDone, SpeculativeInv, Live, RestInv, MovedInv
<1>3. /\ StoreInv'
      /\ logHead' = logHead
      /\ \A x \in Blocks : RevChain(x)' <=> RevChain(x)
  BY <1>1, FilesUntouched DEF StoreInv
<1>4. RunInv' /\ FaultInv'
  BY <1>1, <1>3, NoFaultYet DEF RunInv, Live, Replaying, Pushing, StoreInv
<1>5. IrreversibleInv' /\ JobInv'
  BY <1>1, <1>3 DEF IrreversibleInv, JobInv, Live
<1>6. SpeculativeInv'
  <2>1. fhead \in validated /\ ~ first_preferred(fhead, fhead)
    BY ForkHeadFacts DEF CtrlInv
  <2> QED
    BY <1>1, <1>2, <2>1 DEF SpeculativeInv, RestInv, AddedInv, SwitchInv, UnwindInv, MovedInv,
         NoneBetter, AtTie, AtRest
<1> QED
  BY <1>1, <1>3, <1>4, <1>5, <1>6

-----------------------------------------------------------------------------
\* The invariant is inductive.
LEMMA MainStepKeepsInv ==
  ASSUME LibGrows, MainInv, [Next]_vars
  PROVE  MainInv'
<1>1. CtrlInv'
  BY CtrlStepKeepsInv DEF MainInv
<1>2. CASE UNCHANGED vars
  BY <1>1, <1>2, NothingMoves DEF vars, ctrlVars, MainInv
<1>3. CASE Next
  <2>1. CASE Step
    BY <2>1, CommitBlockKeeps, PushSessionKeeps, ChooseForkKeeps, SwitchPopKeeps,
       SwitchApplyKeeps, SwitchFailsKeeps, UnwindPopKeeps, UnwindApplyKeeps, UnwindDoneKeeps,
       LogStartKeeps, LogBlockKeeps, LogTrimKeeps, LogDoneKeeps, LogFailsKeeps,
       ReplayDoneKeeps, InitBranchKeeps, InitDoneKeeps, ReplayReversibleKeeps, <1>1
       DEF Step, MainInv
  <2> QED
    BY <1>1, <1>3, <2>1, BuildingKeeps, CrashKeeps, ShutdownKeeps, ProduceBlockKeeps,
       PushBlockKeeps, RestartKeeps, StartupKeeps DEF Next, MainInv
<1> QED
  BY <1>2, <1>3

\* It holds initially.
LEMMA MainInitInv ==
  ASSUME Init
  PROVE  MainInv
<1>1. CtrlInv
  BY CtrlInitInv
<1>2. /\ head = Genesis /\ dbAt = Genesis /\ dbBase = Num[Genesis] /\ rev = {}
      /\ blog = <<Genesis>> /\ mode \in Modes /\ fault = "none"
      /\ job.pc = "idle" /\ job.after = "idle"
      /\ index = {} /\ validated = {Genesis} /\ root = Genesis /\ fhead = Genesis
  BY DEF Init, ForkDbInit, Idle, Goto, At
<1>3. logHead = Genesis /\ libNum = Num[Genesis]
  BY <1>2 DEF logHead, libNum
<1>4. Genesis \in Blocks /\ Genesis \in Ancestors[Genesis]
  BY TreeAssumption, AncestorsOfBlock
<1>5. RevChain(Genesis)
  BY <1>2, <1>3, <1>4 DEF RevChain
<1>6. StoreInv /\ RunInv /\ JobInv /\ FaultInv
  BY <1>2, <1>3, <1>4, <1>5 DEF StoreInv, RunInv, JobInv, FaultInv, Replaying, Pushing
<1>7. ~ first_preferred(Genesis, Genesis)
  BY <1>4, NumberAssumption DEF first_preferred
<1>8. IrreversibleInv /\ SpeculativeInv
  BY <1>2, <1>3, <1>4, <1>7 DEF IrreversibleInv, SpeculativeInv, RestInv, AddedInv, SwitchInv,
       UnwindInv, MovedInv, AtTie, NoneBetter, AtRest
<1>9. IsFiniteSet(index)
  BY <1>2, FS_EmptySet
<1> QED
  BY <1>1, <1>6, <1>8, <1>9 DEF MainInv, Consistent

\* How a step changes the block log: not at all, or by a child of its last block.
LEMMA BlockLogGrows ==
  ASSUME MainInv, [Next]_vars, blog' # blog
  PROVE  \E f \in Blocks : Prev[f] = logHead /\ blog' = Append(blog, f)
<1>1. LogBlock
  BY DEF Next, Step, vars, ctrlVars, Fails, AbortBlock, StartBlock, Crash, Shutdown,
     PushTransaction, ProduceBlock, PushBlock, Restart, Startup, CommitBlock, PushSession,
     ChooseFork, SwitchPop, SwitchApply, SwitchFails, UnwindPop, UnwindApply, UnwindDone,
     PopBlock, ApplyFails, LogStart, LogTrim, LogDone, LogFails, ReplayDone, InitBranch,
     InitDone, ReplayReversible
<1>2. /\ job.new \in Blocks /\ job.old = logHead /\ logHead \in Ancestors[job.new]
      /\ Num[logHead] < Lib[job.new]
  BY <1>1 DEF LogBlock, MainInv, CtrlInv, LogInv, LoggingInv
<1>3. logHead # job.new
  BY <1>2, NumberAssumption
<1>4. PICK f : f = NextTowards(logHead, job.new)
  OBVIOUS
<1>5. f \in Blocks /\ Prev[f] = logHead
  BY <1>2, <1>3, <1>4, NextTowardsIs
<1> QED
  BY <1>1, <1>2, <1>4, <1>5 DEF LogBlock

-----------------------------------------------------------------------------
(***************************************************************************)
(* Whenever no handler runs, the chain state in chainbase is that of the   *)
(* head, the fork database is rooted at the end of the block log with the  *)
(* head above it, and reversible_blocks is the branch between the two, for *)
(* every tree of blocks: also after fork switches that failed and were     *)
(* undone, after crashes, and in and between both modes.                   *)
(***************************************************************************)
THEOREM StoresAgree ==
  ASSUME LibGrows
  PROVE  Spec => [](DbMatchesHead /\ RootIsLogHead /\ ReversibleIsBranch)
<1>1. MainInv => DbMatchesHead /\ RootIsLogHead /\ ReversibleIsBranch
  <2> SUFFICES ASSUME MainInv, AtRest
               PROVE  /\ dbAt = head
                      /\ root = logHead
                      /\ root \in Ancestors[head]
                      /\ rev = IF mode = IRREVERSIBLE THEN {}
                               ELSE Ancestors[head] \ Ancestors[root]
    BY DEF DbMatchesHead, RootIsLogHead, ReversibleIsBranch
  <2> USE DEF MainInv, Consistent
  <2>1. job.pc \in {"idle", "down"} /\ job.after = "idle"
    BY DEF AtRest, JobInv
  <2>2. /\ dbAt = head /\ root = logHead /\ RevChain(head)
        /\ head \in Blocks /\ logHead \in Ancestors[head]
    BY <2>1 DEF RunInv, Live, Replaying, Pushing, StoreInv
  <2>3. rev = Ancestors[head] \ Ancestors[logHead]
    BY <2>1, <2>2, RevIs
  <2>4. mode = IRREVERSIBLE => rev = {}
    BY <2>1 DEF IrreversibleInv, Live
  <2> QED
    BY <2>2, <2>3, <2>4
<1> QED
  BY <1>1, MainInitInv, MainStepKeepsInv, PTL DEF Spec

(***************************************************************************)
(* At every step the reversible blocks above the block log are one chain   *)
(* that starts at its last block: wherever the process dies, between the   *)
(* append to the log and the removal from reversible_blocks, in the middle *)
(* of a fork switch or of a replay, the next start can use its files.      *)
(***************************************************************************)
THEOREM FilesSurviveCrash ==
  ASSUME LibGrows
  PROVE  Spec => []CrashSafe
<1>1. MainInv => CrashSafe
  <2> SUFFICES ASSUME MainInv PROVE CrashSafe
    OBVIOUS
  <2>1. logHead \in Blocks /\ libNum = Num[logHead]
    BY LogHeadIsBlock DEF MainInv, libNum
  <2>2. PICK t \in Blocks : RevChain(t)
    BY DEF MainInv, Consistent, StoreInv
  <2>3. rev \subseteq Ancestors[t] /\ logHead \in Ancestors[t]
    BY <2>2 DEF RevChain
  <2>4. \A r, s \in rev : Num[r] = Num[s] => r = s
    BY <2>3, BranchNumbersDiffer
  <2>5. ASSUME NEW r \in rev, Num[r] > libNum
        PROVE  Prev[r] = logHead \/ (Prev[r] \in rev /\ Num[Prev[r]] > libNum)
    <3>1. r \in Ancestors[t] /\ r \in Blocks /\ r \notin Ancestors[logHead]
      BY <2>1, <2>3, <2>5, BranchAbove, AncestorsOfBlock
    <3>2. logHead \in Ancestors[r] /\ logHead # r
      BY <2>1, <2>3, <3>1, AncestorsLinear, AncestorsOfBlock
    <3>3. Prev[r] \in Blocks /\ logHead \in Ancestors[Prev[r]]
      BY <3>1, <3>2, AncestorsSplit
    <3>4. Prev[r] \in Ancestors[t]
      BY <3>1, <3>3, AncestorsClosed DEF ClosedUnderPrev
    <3>5. CASE Prev[r] # logHead
      <4>1. Prev[r] \notin Ancestors[logHead]
        BY <2>1, <3>3, <3>5, AncestorsAntisymmetric
      <4>2. Num[Prev[r]] > Num[logHead]
        BY <2>3, <3>4, <4>1, BranchAbove
      <4> QED
        BY <2>1, <2>2, <3>4, <3>5, <4>1, <4>2 DEF RevChain
    <3> QED
      BY <3>5
  <2> QED
    BY <2>4, <2>5 DEF CrashSafe
<1> QED
  BY <1>1, MainInitInv, MainStepKeepsInv, PTL DEF Spec

(***************************************************************************)
(* Of the conditions that the controller asserts none fails on a node that *)
(* is never stopped in an orderly way, nor on one that meets no invalid    *)
(* block: the two cases in which the runs check it too.  Where both may    *)
(* happen, the run controller_start has a counterexample.                  *)
(***************************************************************************)
THEOREM AssertionsHold ==
  ASSUME LibGrows, ~ CleanStop \/ Invalid = {}
  PROVE  Spec => []NoFault
<1>1. MainInv => NoFault
  BY DEF MainInv, Consistent, FaultInv, NoFault
<1> QED
  BY <1>1, MainInitInv, MainStepKeepsInv, PTL DEF Spec

(***************************************************************************)
(* With orderly stops and invalid blocks, too, every assertion holds but   *)
(* two: init's comparison of its files, which controller_start shows to    *)
(* fail, and the check at the end of a fork switch reversal.               *)
(***************************************************************************)
THEOREM OtherAssertionsHold ==
  ASSUME LibGrows
  PROVE  Spec => [](fault \in {"none", "init", "reversal"})
<1>1. MainInv => fault \in {"none", "init", "reversal"}
  BY DEF MainInv, Consistent, FaultInv
<1> QED
  BY <1>1, MainInitInv, MainStepKeepsInv, PTL DEF Spec

(***************************************************************************)
(* Without invalid blocks a node that is not in irreversible mode stands   *)
(* on a block to which no block it knows is preferred, whenever a handler  *)
(* has returned: what irreversible mode, a crash or a stop left unapplied  *)
(* is applied by the time init is done.                                    *)
(***************************************************************************)
THEOREM BestBranchFollowed ==
  ASSUME LibGrows, Invalid = {}
  PROVE  Spec => []FollowsBest
<1>1. MainInv => FollowsBest
  <2> SUFFICES ASSUME MainInv, job.pc = "idle", mode # IRREVERSIBLE
               PROVE  head = fhead /\ \A b \in index : ~ first_preferred(b, head)
    BY DEF FollowsBest
  <2>1. head = fhead /\ NoneBetter(fhead)
    BY DEF MainInv, Consistent, SpeculativeInv, Live, RestInv, AtRest
  <2> QED
    BY <2>1, ForkHeadFacts DEF NoneBetter, MainInv, CtrlInv
<1> QED
  BY <1>1, MainInitInv, MainStepKeepsInv, PTL DEF Spec

\* The tree of module Ledger is the same tree.
LEMMA SameTree == LedgerOf!Ancestors = Ancestors
BY DEF LedgerOf!Ancestors, Ancestors, LedgerOf!ClosedUnderPrev, ClosedUnderPrev

(***************************************************************************)
(* Finality: the controller implements module Ledger, with the block log   *)
(* as the ledger and head as the tip.  No step of any handler, no crash    *)
(* and no restart replaces an irreversible block or moves the head to a    *)
(* branch that is not built on the last of them.                           *)
(***************************************************************************)
THEOREM ControllerImplementsLedger ==
  ASSUME LibGrows
  PROVE  Spec => Finality
<1>1. Init => LedgerOf!LedgerInit
  BY DEF Init, LedgerOf!LedgerInit
<1>2. ASSUME MainInv, MainInv', [Next]_vars
      PROVE  [LedgerOf!LedgerNext]_(LedgerOf!ledgerVars)
  <2>1. head' \in Blocks /\ logHead' \in Ancestors[head']
    BY <1>2 DEF MainInv, Consistent, StoreInv
  <2>2. CASE blog' = blog
    <3>1. logHead' = logHead
      BY <2>2 DEF logHead
    <3>2. LedgerOf!MoveTip(head')
      BY <2>1, <2>2, <3>1, SameTree DEF LedgerOf!MoveTip, LedgerOf!last, logHead
    <3> QED
      BY <2>1, <3>2 DEF LedgerOf!LedgerNext
  <2>3. CASE blog' # blog
    <3>1. PICK f \in Blocks : Prev[f] = logHead /\ blog' = Append(blog, f)
      BY <1>2, <2>3, BlockLogGrows
    <3>2. logHead' = f
      BY <1>2, <3>1 DEF logHead, MainInv, CtrlInv, LogInv, LogTypeOK
    <3>3. LedgerOf!Finalize(f, head')
      BY <2>1, <3>1, <3>2, SameTree DEF LedgerOf!Finalize, LedgerOf!last, logHead
    <3> QED
      BY <2>1, <3>1, <3>3 DEF LedgerOf!LedgerNext
  <2> QED
    BY <2>2, <2>3
<1> QED
  BY <1>1, <1>2, MainInitInv, MainStepKeepsInv, PTL DEF Spec, Finality, LedgerOf!LedgerSpec

-----------------------------------------------------------------------------
(***************************************************************************)
(* The transactions that wait, and the types.                              *)
(***************************************************************************)
\* Those that wait are on no block of the branch of the head, at every step of a
\* fork switch.  The pending block holds others, which are those of the block that
\* commit_block is about to make the head, and is gone while blocks are applied.
WaitingInv ==
  /\ \A t \in unapplied : ~ OnBranch(t, head)
  /\ job.pc \in {"idle", "commit"} =>
       /\ unapplied \cap pending.trxs = {}
       /\ \A t \in pending.trxs : ~ OnBranch(t, head)
  /\ job.pc = "commit" => TrxsOf[job.new] = pending.trxs
  /\ job.pc \notin {"idle", "commit", "halt"} /\ ~ Pushing => pending.trxs = {}

WaitingTypeOK ==
  /\ pending \in [open : BOOLEAN, trxs : SUBSET Trxs]
  /\ unapplied \in SUBSET Trxs
  /\ metas \in SUBSET Blocks

JobTypeOK ==
  /\ job.pc \in {"idle", "commit", "push", "choose", "switch", "unwind", "log",
                 "logging", "trim", "replay", "init", "loop", "down", "crashed", "halt"}
  /\ job.new \in Blocks \cup {NoBlock}
  /\ job.old \in Blocks \cup {NoBlock}

FullInv == MainInv /\ JobTypeOK /\ WaitingTypeOK /\ WaitingInv

\* A branch holds the transactions of its last block and of the branch before it;
\* a valid block has none of those.
LEMMA OnBranchOfChild ==
  ASSUME NEW b \in Blocks, Prev[b] \in Blocks
  PROVE  /\ \A t : OnBranch(t, b) <=> OnBranch(t, Prev[b]) \/ t \in TrxsOf[b]
         /\ Valid(b) => \A t \in TrxsOf[b] : ~ OnBranch(t, Prev[b])
<1>1. /\ Ancestors[b] = Ancestors[Prev[b]] \cup {b}
      /\ b \notin Ancestors[Prev[b]]
  BY AncestorsOfChild
<1>2. \A t : OnBranch(t, b) <=> OnBranch(t, Prev[b]) \/ t \in TrxsOf[b]
  BY <1>1 DEF OnBranch
<1>3. ASSUME Valid(b), NEW t \in TrxsOf[b], OnBranch(t, Prev[b]) PROVE FALSE
  <2>1. PICK a \in Ancestors[Prev[b]] : t \in TrxsOf[a]
    BY <1>3 DEF OnBranch
  <2>2. a \in Ancestors[b] \ {b}
    BY <1>1, <2>1
  <2>3. TrxsOf[a] \cap TrxsOf[b] = {}
    BY <1>3, <2>2, ControllerAssumption DEF Valid
  <2> QED
    BY <1>3, <2>1, <2>3
<1> QED
  BY <1>2, <1>3

\* A head above the block log is valid.
LEMMA HeadAboveLogIsValid ==
  ASSUME MainInv, Live, head # logHead
  PROVE  Valid(head)
<1> USE DEF MainInv, Consistent
<1>1. PICK t \in Blocks : head \in Ancestors[t] /\ RevChain(t)
  BY AncestorsOfBlock DEF RunInv, StoreInv
<1>2. head \notin Ancestors[logHead]
  BY LogHeadIsBlock, AncestorsAntisymmetric DEF StoreInv
<1>3. head \in rev
  BY <1>1, <1>2 DEF RevChain
<1> QED
  BY <1>3 DEF StoreInv, Valid

\* pop_block gives the transactions of the old head back, and they are not on the
\* branch that is left.
LEMMA PopBlockKeepsWaiting ==
  ASSUME FullInv, PopBlock, Live, head # logHead
  PROVE  unapplied' \in SUBSET Trxs /\ \A t \in unapplied' : ~ OnBranch(t, head')
<1>1. /\ head \in Blocks /\ logHead \in Blocks /\ logHead \in Ancestors[head]
  BY LogHeadIsBlock DEF FullInv, MainInv, Consistent, StoreInv
<1>2. head' = Prev[head] /\ Prev[head] \in Blocks
  BY <1>1, AncestorsSplit DEF PopBlock
<1>3. Valid(head)
  BY HeadAboveLogIsValid DEF FullInv
<1>4. unapplied' \subseteq unapplied \cup TrxsOf[head]
  BY DEF PopBlock
<1>5. TrxsOf[head] \in SUBSET Trxs
  BY <1>1, ControllerAssumption
<1> QED
  BY <1>1, <1>2, <1>3, <1>4, <1>5, OnBranchOfChild DEF FullInv, WaitingTypeOK, WaitingInv

\* apply_block takes the transactions of the new head off the list.
LEMMA ApplyBlockKeepsWaiting ==
  ASSUME FullInv, NEW b \in Blocks, ApplyBlock(b), Prev[b] = head
  PROVE  unapplied' \in SUBSET Trxs /\ \A t \in unapplied' : ~ OnBranch(t, head')
<1>1. head \in Blocks
  BY DEF FullInv, MainInv, Consistent, StoreInv
<1>2. head' = b /\ unapplied' = unapplied \ TrxsOf[b]
  BY DEF ApplyBlock
<1> QED
  BY <1>1, <1>2, OnBranchOfChild DEF FullInv, WaitingTypeOK, WaitingInv

\* A block that cannot be applied gives back only what the branch does not have.
LEMMA ApplyFailsKeepsWaiting ==
  ASSUME FullInv, NEW b \in Blocks, ApplyFails(b)
  PROVE  /\ unapplied' \in SUBSET Trxs
         /\ \A t \in unapplied' : ~ OnBranch(t, head')
         /\ UNCHANGED <<head, pending, metas>>
<1>1. PICK done \in SUBSET {t \in TrxsOf[b] : ~ OnBranch(t, head)} :
        unapplied' \subseteq unapplied \cup done
  BY DEF ApplyFails
<1>2. TrxsOf[b] \in SUBSET Trxs
  BY ControllerAssumption
<1> QED
  BY <1>1, <1>2 DEF FullInv, WaitingTypeOK, WaitingInv, ApplyFails

\* Building a block: what it takes is not on the branch and leaves the list.
LEMMA BuildingKeepsFull ==
  ASSUME FullInv, MainInv',
         \/ AbortBlock \/ StartBlock \/ Crash \/ Shutdown
         \/ \E t \in Trxs : PushTransaction(t)
  PROVE  JobTypeOK' /\ WaitingTypeOK' /\ WaitingInv'
<1> USE DEF FullInv, JobTypeOK, WaitingTypeOK, WaitingInv, NoPending, Goto, At, Pushing
<1>1. CASE AbortBlock
  BY <1>1 DEF AbortBlock, unappliedAfterAbort
<1>2. CASE StartBlock
  <2>1. CASE pending' = [open |-> TRUE, trxs |-> {}] /\ UNCHANGED <<head, unapplied, metas, job>>
    <3>1. pending'.trxs = {} /\ pending' \in [open : BOOLEAN, trxs : SUBSET Trxs]
      BY <2>1
    <3> QED
      BY <1>2, <2>1, <3>1 DEF StartBlock
  <2>2. CASE job' = Goto("halt") /\ UNCHANGED <<head, pending, unapplied, metas>>
    BY <2>2
  <2> QED
    BY <1>2, <2>1, <2>2 DEF StartBlock, Fails
<1>3. CASE Crash
  BY <1>3 DEF Crash
<1>4. CASE Shutdown
  BY <1>4 DEF Shutdown
<1>5. ASSUME NEW t \in Trxs, PushTransaction(t)
      PROVE  JobTypeOK' /\ WaitingTypeOK' /\ WaitingInv'
  <2>1. job.pc = "idle" /\ UNCHANGED <<head, metas, job>>
    BY <1>5 DEF PushTransaction
  <2>2. CASE UNCHANGED pending
    BY <1>5, <2>1, <2>2 DEF PushTransaction
  <2>3. CASE ~ OnBranch(t, head) /\ pending' = [pending EXCEPT !.trxs = @ \cup {t}]
             /\ unapplied' = unapplied \ {t}
    BY <2>1, <2>3
  <2> QED
    BY <1>5, <2>2, <2>3 DEF PushTransaction
<1> QED
  BY <1>1, <1>2, <1>3, <1>4, <1>5

\* A block is added: it is the pending block, or the pending block is aborted.
LEMMA AddingKeepsFull ==
  ASSUME FullInv, MainInv',
         \E b \in Blocks : ProduceBlock(b) \/ PushBlock(b) \/ ReplayReversible(b)
  PROVE  JobTypeOK' /\ WaitingTypeOK' /\ WaitingInv'
<1> USE DEF FullInv, JobTypeOK, WaitingTypeOK, WaitingInv, NoPending, Goto, At, Pushing
<1>0. head \in Blocks
  BY DEF MainInv, Consistent, StoreInv
<1>1. ASSUME NEW b \in Blocks, ProduceBlock(b)
      PROVE  JobTypeOK' /\ WaitingTypeOK' /\ WaitingInv'
  <2>1. /\ job.pc = "idle" /\ TrxsOf[b] = pending.trxs
        /\ job'.pc = "commit" /\ job'.new = b /\ job'.old = head /\ job'.after = "idle"
        /\ UNCHANGED <<head, pending, unapplied, metas>>
    BY <1>1 DEF ProduceBlock
  <2>2. JobTypeOK'
    BY <1>0, <2>1
  <2>3. WaitingTypeOK' /\ WaitingInv'
    BY <2>1
  <2> QED
    BY <2>2, <2>3
<1>2. ASSUME NEW b \in Blocks, PushBlock(b)
      PROVE  JobTypeOK' /\ WaitingTypeOK' /\ WaitingInv'
  BY <1>2 DEF PushBlock, unappliedAfterAbort
<1>3. ASSUME NEW b \in Blocks, ReplayReversible(b)
      PROVE  JobTypeOK' /\ WaitingTypeOK' /\ WaitingInv'
  BY <1>0, <1>3 DEF ReplayReversible, Fails, Switch, MainInv, Consistent, JobInv
<1> QED
  BY <1>1, <1>2, <1>3

\* commit_block: the new head is the block that holds what was pending.
LEMMA CommitKeepsFull ==
  ASSUME FullInv, MainInv', CommitBlock \/ PushSession
  PROVE  JobTypeOK' /\ WaitingTypeOK' /\ WaitingInv'
<1> USE DEF FullInv, JobTypeOK, WaitingTypeOK, WaitingInv, NoPending, Idle, Goto, At, Pushing
<1>1. CASE CommitBlock
  <2>1. /\ head \in Blocks /\ job.new \in Blocks /\ Prev[job.new] = head
        /\ job.pc = "commit" /\ mode # IRREVERSIBLE
    BY <1>1 DEF CommitBlock, MainInv, Consistent, StoreInv, SpeculativeInv, AddedInv,
         IrreversibleInv, Live
  <2>2. fault' # "commit_block"
    BY DEF MainInv, Consistent, FaultInv
  <2>3. /\ head' = job.new /\ metas' = metas \cup {job.new}
        /\ job' = At("log", NoBlock, NoBlock, "push") /\ UNCHANGED <<pending, unapplied>>
    BY <1>1, <2>2 DEF CommitBlock
  <2>4. \A t \in unapplied : ~ OnBranch(t, job.new)
    BY <2>1, OnBranchOfChild
  <2> QED
    BY <2>1, <2>3, <2>4
<1>2. CASE PushSession
  BY <1>2 DEF PushSession
<1> QED
  BY <1>1, <1>2

\* A step of a handler that moves neither the head nor a transaction.
LEMMA HandlerMovesOn ==
  ASSUME FullInv, UNCHANGED <<head, pending, unapplied, metas>>, JobTypeOK',
         job.pc \notin {"idle", "commit"},
         \/ job'.pc = "halt"
         \/ job.pc # "halt" /\ ~ Pushing /\ job'.pc # "commit"
         \/ Pushing' /\ job'.pc \notin {"idle", "commit"}
  PROVE  WaitingTypeOK' /\ WaitingInv'
BY DEF FullInv, WaitingTypeOK, WaitingInv

\* The steps of a fork switch.
LEMMA SwitchKeepsFull ==
  ASSUME FullInv, MainInv',
         \/ ChooseFork \/ SwitchPop \/ SwitchApply \/ SwitchFails
         \/ UnwindPop \/ UnwindApply \/ UnwindDone
  PROVE  JobTypeOK' /\ WaitingTypeOK' /\ WaitingInv'
<1> USE DEF FullInv
<1>0. /\ head \in Blocks /\ pending_head \in Blocks /\ job = At(job.pc, job.new, job.old, job.after)
      /\ job.pc \in {"choose", "switch", "unwind"} => ~ Pushing /\ pending.trxs = {}
      /\ Live
  BY PendingHeadKnown DEF MainInv, Consistent, StoreInv, CtrlInv, LogInv, JobIsRecord, JobInv,
       Pushing, WaitingInv, ChooseFork, SwitchPop, SwitchApply, SwitchFails, UnwindPop,
       UnwindApply, UnwindDone, Live
<1>1. CASE ChooseFork
  <2>1. JobTypeOK' /\ job'.pc \in {"idle", "switch"}
    BY <1>0, <1>1 DEF ChooseFork, JobTypeOK, Idle, Goto, Switch, At
  <2> QED
    BY <1>0, <1>1, <2>1, HandlerMovesOn DEF ChooseFork
<1>2. CASE SwitchPop \/ UnwindPop
  <2>1. PopBlock /\ UNCHANGED <<job, pending, metas>> /\ job.pc \in {"switch", "unwind"}
    BY <1>2 DEF SwitchPop, UnwindPop, PopBlock
  <2>2. root = logHead /\ SwitchInv /\ UnwindInv
    BY <2>1, SwitchingFacts
  <2>3. head # logHead
    BY <1>2, <2>2 DEF SwitchPop, UnwindPop, SwitchInv, UnwindInv
  <2> QED
    BY <1>0, <2>1, <2>3, PopBlockKeepsWaiting DEF JobTypeOK, WaitingTypeOK, WaitingInv, Pushing
<1>3. CASE SwitchApply
  <2>1. PICK b : b = NextTowards(head, job.new)
    OBVIOUS
  <2>2. /\ job.pc = "switch" /\ head \in Ancestors[job.new] /\ ApplyBlock(b)
        /\ job' = IF b = job.new THEN At("log", NoBlock, NoBlock, job.after) ELSE job
        /\ UNCHANGED <<pending, metas>>
    BY <1>3, <2>1 DEF SwitchApply, ApplyBlock
  <2>3. job.new \in Blocks /\ head # job.new
    BY <2>2, SwitchingFacts DEF SwitchInv
  <2>4. b \in Blocks /\ Prev[b] = head
    BY <2>1, <2>2, <2>3, NextTowardsIs
  <2>5. /\ unapplied' \in SUBSET Trxs /\ \A t \in unapplied' : ~ OnBranch(t, head')
    BY <2>2, <2>4, ApplyBlockKeepsWaiting
  <2> QED
    BY <1>0, <2>2, <2>5 DEF JobTypeOK, WaitingTypeOK, WaitingInv, Pushing, At
<1>4. CASE SwitchFails
  <2>1. PICK b : b = NextTowards(head, job.new)
    OBVIOUS
  <2>2. /\ job.pc = "switch" /\ head \in Ancestors[job.new] /\ ApplyFails(b)
        /\ job' = IF Prev[job.new] = job.old THEN Thrown ELSE [job EXCEPT !.pc = "unwind"]
    BY <1>4, <2>1 DEF SwitchFails
  <2>3. job.new \in Blocks /\ head # job.new
    BY <2>2, SwitchingFacts DEF SwitchInv
  <2>4. b \in Blocks
    BY <2>1, <2>2, <2>3, NextTowardsIs
  <2>5. /\ unapplied' \in SUBSET Trxs /\ \A t \in unapplied' : ~ OnBranch(t, head')
        /\ UNCHANGED <<head, pending, metas>>
    BY <2>2, <2>4, ApplyFailsKeepsWaiting
  <2>6. JobTypeOK' /\ job'.pc # "commit"
    BY <1>0, <2>2 DEF JobTypeOK, Thrown, Idle, Goto, At
  <2> QED
    BY <1>0, <2>2, <2>5, <2>6 DEF WaitingTypeOK, WaitingInv
<1>5. CASE UnwindApply
  <2>1. PICK b : b = NextTowards(head, job.old)
    OBVIOUS
  <2>2. /\ job.pc = "unwind" /\ head \in Ancestors[job.old] /\ head # job.old /\ ApplyBlock(b)
        /\ UNCHANGED <<pending, metas, job>>
    BY <1>5, <2>1 DEF UnwindApply, ApplyBlock
  <2>3. job.old \in Blocks
    BY <2>2, SwitchingFacts, ForkHeadFacts DEF UnwindInv, MainInv, CtrlInv
  <2>4. b \in Blocks /\ Prev[b] = head
    BY <2>1, <2>2, <2>3, NextTowardsIs
  <2>5. /\ unapplied' \in SUBSET Trxs /\ \A t \in unapplied' : ~ OnBranch(t, head')
    BY <2>2, <2>4, ApplyBlockKeepsWaiting
  <2> QED
    BY <1>0, <2>2, <2>5 DEF JobTypeOK, WaitingTypeOK, WaitingInv, Pushing
<1>6. CASE UnwindDone
  <2>1. JobTypeOK' /\ job'.pc # "commit" /\ job.pc = "unwind"
        /\ UNCHANGED <<head, pending, unapplied, metas>>
    BY <1>6 DEF UnwindDone, Fails, Thrown, JobTypeOK, Idle, Goto, At
  <2> QED
    BY <1>0, <2>1, HandlerMovesOn
<1> QED
  BY <1>1, <1>2, <1>3, <1>4, <1>5, <1>6

\* The steps of log_irreversible.
LEMMA LogKeepsFull ==
  ASSUME LibGrows, FullInv, MainInv', LogStart \/ LogBlock \/ LogTrim \/ LogDone \/ LogFails
  PROVE  JobTypeOK' /\ WaitingTypeOK' /\ WaitingInv'
<1> USE DEF FullInv
<1>0. /\ job.pc \in {"log", "logging", "trim"}
      /\ job = At(job.pc, job.new, job.old, job.after)
      /\ job.after \in {"idle", "push", "replay", "loop"}
      /\ logHead \in Blocks /\ head \in Blocks
      /\ root \in Blocks /\ fhead \in Blocks /\ pending_head \in Blocks
      /\ mode = IRREVERSIBLE => job.after = "idle" /\ head = logHead
      /\ job.pc \in {"logging", "trim"} =>
           job.new \in Blocks /\ job.old \in Ancestors[job.new] /\ job.old = logHead
  <2>1. job.pc \in {"log", "logging", "trim"}
    BY DEF LogStart, LogBlock, LogTrim, LogDone, LogFails
  <2> QED
    BY <2>1, LogHeadIsBlock, ForkHeadFacts, PendingHeadKnown, LoggingFacts DEF MainInv,
       Consistent, CtrlInv, LogInv, JobIsRecord, LoggingInv, IrreversibleInv, Live
<1>1. CASE LogStart
  <2>1. /\ UNCHANGED <<head, pending, unapplied, metas>> /\ JobTypeOK'
        /\ job'.pc # "commit"
        /\ job'.pc = "halt" \/ (Pushing => Pushing' /\ job'.pc # "idle")
    BY <1>0, <1>1 DEF LogStart, Fails, JobTypeOK, Goto, At, Pushing
  <2> QED
    BY <1>0, <2>1, HandlerMovesOn
<1>2. CASE LogBlock \/ LogFails
  <2>1. PICK b : b = NextTowards(job.old, job.new)
    OBVIOUS
  <2>2. job.pc = "logging" /\ Num[job.old] < Lib[job.new]
    BY <1>2 DEF LogBlock, LogFails
  <2>3. job.old # job.new
    BY <1>0, <2>2, NumberAssumption
  <2>4. b \in Blocks /\ Prev[b] = logHead
    BY <1>0, <2>1, <2>2, <2>3, NextTowardsIs
  <2>5. CASE LogBlock
    <3>1. job' = [job EXCEPT !.pc = "trim", !.old = b] /\ UNCHANGED <<pending, metas>>
      BY <2>1, <2>5 DEF LogBlock, ApplyBlock
    <3>2. JobTypeOK' /\ job'.pc = "trim" /\ job'.after = job.after
      BY <1>0, <2>4, <3>1 DEF JobTypeOK, At
    <3>3. unapplied' \in SUBSET Trxs /\ \A t \in unapplied' : ~ OnBranch(t, head')
      <4>1. CASE mode = IRREVERSIBLE
        BY <1>0, <2>1, <2>4, <2>5, <4>1, ApplyBlockKeepsWaiting DEF LogBlock
      <4>2. CASE mode # IRREVERSIBLE
        BY <2>5, <4>2 DEF LogBlock, WaitingTypeOK, WaitingInv
      <4> QED
        BY <4>1, <4>2
    <3> QED
      BY <1>0, <2>2, <3>1, <3>2, <3>3 DEF WaitingTypeOK, WaitingInv, Pushing
  <2>6. CASE LogFails
    <3>1. mode = IRREVERSIBLE /\ ApplyFails(b) /\ job' = Idle
      BY <2>1, <2>6 DEF LogFails
    <3>2. JobTypeOK' /\ job'.pc = "idle" /\ ~ Pushing
      BY <1>0, <2>2, <3>1 DEF JobTypeOK, Idle, Goto, At, Pushing
    <3>3. /\ unapplied' \in SUBSET Trxs /\ \A t \in unapplied' : ~ OnBranch(t, head')
          /\ UNCHANGED <<head, pending, metas>>
      BY <2>4, <3>1, ApplyFailsKeepsWaiting
    <3> QED
      BY <1>0, <2>2, <3>2, <3>3 DEF WaitingTypeOK, WaitingInv
  <2> QED
    BY <1>2, <2>5, <2>6
<1>3. CASE LogTrim
  <2>1. /\ UNCHANGED <<head, pending, unapplied, metas>> /\ JobTypeOK'
        /\ job'.pc = "logging" /\ job'.after = job.after
    BY <1>0, <1>3 DEF LogTrim, JobTypeOK, At
  <2> QED
    BY <1>0, <2>1, HandlerMovesOn DEF Pushing
<1>4. CASE LogDone
  <2>1. /\ UNCHANGED <<head, pending, unapplied, metas>> /\ JobTypeOK'
        /\ job'.pc # "commit"
        /\ Pushing => Pushing' /\ job'.pc # "idle"
    BY <1>0, <1>4 DEF LogDone, JobTypeOK, Goto, At, Pushing
  <2> QED
    BY <1>0, <2>1, HandlerMovesOn
<1> QED
  BY <1>1, <1>2, <1>3, <1>4

\* A node that starts has no transaction waiting until blocks are applied.
LEMMA StartKeepsFull ==
  ASSUME FullInv, MainInv',
         (\E m \in Modes : Restart(m) \/ Startup(m)) \/ ReplayDone \/ InitBranch \/ InitDone
  PROVE  JobTypeOK' /\ WaitingTypeOK' /\ WaitingInv'
<1> USE DEF FullInv
<1>0. /\ head \in Blocks /\ head' \in Blocks /\ pending_head \in Blocks
      /\ index \in SUBSET Blocks
      /\ job.pc \in {"crashed", "down", "replay", "init", "loop"} =>
           ~ Pushing /\ pending.trxs = {}
  BY PendingHeadKnown DEF MainInv, Consistent, StoreInv, CtrlInv, ForkDbInv, ForkDbTypeOK,
       JobInv, Pushing, WaitingInv
<1>1. CASE ReplayDone \/ InitBranch \/ InitDone
  <2>1. /\ UNCHANGED <<head, pending, unapplied, metas>> /\ JobTypeOK'
        /\ job.pc \in {"replay", "init", "loop"} /\ job'.pc # "commit"
    BY <1>0, <1>1 DEF ReplayDone, InitBranch, InitDone, JobTypeOK, Idle, Switch, Goto, At
  <2> QED
    BY <1>0, <2>1, HandlerMovesOn
<1>2. ASSUME NEW m \in Modes, Restart(m)
      PROVE  JobTypeOK' /\ WaitingTypeOK' /\ WaitingInv'
  <2>1. fault' # "gap"
    BY DEF MainInv, Consistent, FaultInv
  <2>2. /\ job.pc = "crashed" /\ job' = Goto("replay") /\ head' = logHead
        /\ UNCHANGED <<pending, unapplied, metas>>
    BY <1>2, <2>1 DEF Restart, Fails
  <2>3. Ancestors[logHead] \subseteq Ancestors[head]
    BY <1>0, AncestorsTransitive DEF MainInv, Consistent, StoreInv
  <2>4. \A t \in unapplied : ~ OnBranch(t, logHead)
    BY <2>3 DEF WaitingInv, OnBranch
  <2> QED
    BY <1>0, <2>2, <2>4 DEF JobTypeOK, WaitingTypeOK, WaitingInv, Goto, At
<1>3. ASSUME NEW m \in Modes, Startup(m)
      PROVE  JobTypeOK' /\ WaitingTypeOK' /\ WaitingInv'
  <2>1. CASE Fails("init")
    <3>1. /\ UNCHANGED <<head, pending, unapplied, metas>> /\ JobTypeOK'
          /\ job.pc = "down" /\ job'.pc = "halt"
      BY <1>3, <2>1 DEF Startup, Fails, JobTypeOK, Goto, At
    <3> QED
      BY <3>1, HandlerMovesOn
  <2>2. CASE ~ Fails("init")
    <3>1. /\ job.pc = "down" /\ job'.pc \in {"replay", "init"}
          /\ job'.new = NoBlock /\ job'.old = NoBlock
          /\ unapplied' = {} /\ metas' = index /\ UNCHANGED pending
      BY <1>3, <2>2 DEF Startup, Goto, At
    <3> QED
      BY <1>0, <3>1 DEF JobTypeOK, WaitingTypeOK, WaitingInv
  <2> QED
    BY <2>1, <2>2
<1> QED
  BY <1>1, <1>2, <1>3

\* The invariant is inductive.
LEMMA FullStepKeepsInv ==
  ASSUME LibGrows, FullInv, [Next]_vars
  PROVE  FullInv'
<1>1. MainInv'
  BY MainStepKeepsInv DEF FullInv
<1>2. CASE UNCHANGED vars
  BY <1>1, <1>2 DEF FullInv, vars, ctrlVars, JobTypeOK, WaitingTypeOK, WaitingInv, Pushing
<1>3. CASE Next
  BY <1>1, <1>3, BuildingKeepsFull, AddingKeepsFull, CommitKeepsFull, SwitchKeepsFull,
     LogKeepsFull, StartKeepsFull DEF Next, Step, FullInv
<1> QED
  BY <1>2, <1>3

\* It holds initially.
LEMMA FullInitInv ==
  ASSUME Init
  PROVE  FullInv
<1>1. MainInv
  BY MainInitInv
<1> QED
  BY <1>1 DEF FullInv, Init, JobTypeOK, WaitingTypeOK, WaitingInv, NoPending, Idle, Goto, At

(***************************************************************************)
(* The types of the controller's state: what a handler keeps in its locals *)
(* over the steps of a fork switch or of log_irreversible is a block.      *)
(***************************************************************************)
THEOREM ControllerTypeCorrect ==
  ASSUME LibGrows
  PROVE  Spec => []TypeOK
<1>1. FullInv => TypeOK
  <2> SUFFICES ASSUME FullInv PROVE TypeOK
    OBVIOUS
  <2>1. /\ ForkDbTypeOK /\ head \in Blocks /\ dbAt \in Blocks /\ mode \in Modes
        /\ blog \in Seq(Blocks) /\ blog # <<>>
    BY DEF FullInv, MainInv, CtrlInv, ForkDbInv, LogInv, LogTypeOK, Consistent, StoreInv
  <2>2. dbBase \in Nat
    BY LogHeadIsBlock, NumberAssumption DEF FullInv, MainInv, Consistent, StoreInv, libNum
  <2>3. rev \in SUBSET Blocks
    <3>1. PICK t \in Blocks : RevChain(t)
      BY DEF FullInv, MainInv, Consistent, StoreInv
    <3>2. rev \subseteq Ancestors[t]
      BY <3>1 DEF RevChain
    <3> QED
      BY <3>1, <3>2, AncestorsOfBlock
  <2>4. /\ job = At(job.pc, job.new, job.old, job.after)
        /\ job.after \in {"idle", "push", "replay", "loop"}
    BY DEF FullInv, MainInv, CtrlInv, LogInv, JobIsRecord
  <2>5. JobTypeOK /\ WaitingTypeOK
    BY DEF FullInv
  <2> QED
    BY <2>1, <2>2, <2>3, <2>4, <2>5 DEF TypeOK, JobTypeOK, WaitingTypeOK, At
<1> QED
  BY <1>1, FullInitInv, FullStepKeepsInv, PTL DEF Spec

(***************************************************************************)
(* A transaction that waits in unapplied_transactions is on no block of    *)
(* the branch of the head when no handler runs, however many blocks were   *)
(* popped, applied, refused and applied again on the way there.            *)
(***************************************************************************)
THEOREM WaitingIsNotOnBranch ==
  ASSUME LibGrows
  PROVE  Spec => []UnappliedNotOnBranch
<1>1. FullInv => UnappliedNotOnBranch
  BY DEF FullInv, WaitingInv, UnappliedNotOnBranch
<1> QED
  BY <1>1, FullInitInv, FullStepKeepsInv, PTL DEF Spec
=============================================================================
