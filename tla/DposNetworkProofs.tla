-------------------------- MODULE DposNetworkProofs --------------------------
(***************************************************************************)
(* Any number of producers that fork as they like, for any delays and any  *)
(* number of blocks: none confirms a number twice, so that at most one     *)
(* block of a number is proposed as irreversible or made irreversible.     *)
(***************************************************************************)
EXTENDS DposNetwork, BlockHeaderStateProofs

(***************************************************************************)
(* A branch and the header state of its last block.                        *)
(***************************************************************************)
Entry == [producer : Producers, confirmed : Nat]

\* The i-th block after genesis confirms the block with number n.
ConfirmsAt(b, i, n) == i + 1 - b[i].confirmed <= n /\ n <= i + 1

ConfirmersOn(b, n) ==
  {p \in Producers : \E i \in 1..Len(b) : b[i].producer = p /\ ConfirmsAt(b, i, n)}

Needed == (Len(Initial) * 2) \div 3 + 1
Quorum(b, n) == n \in 1..(Len(b) + 1) /\ Cardinality(ConfirmersOn(b, n)) >= Needed
Backed(b, n) == n = 0 \/ Quorum(b, n)

\* The blocks that are still counted have the confirmations counted down so far.
CountedOK(b, h) ==
  \A i \in 1..Len(h.confirm_count) :
    h.confirm_count[i] + Cardinality(ConfirmersOn(b, Len(b) + 1 - Len(h.confirm_count) + i))
      >= Needed

\* The schedule is the initial one, active, and pending until the first block.
ScheduleKept(h) ==
  h.active.producers = Initial /\ h.pending.producers \in {Initial, <<>>}

\* What is proposed, irreversible or implied to be has been confirmed by a quorum.
BackedOK(b, h) ==
  /\ Backed(b, h.dpos_proposed)
  /\ Backed(b, h.dpos_irreversible)
  /\ \A q \in DOMAIN h.implied : Backed(b, h.implied[q])

BranchOK(b, h) ==
  /\ b \in Seq(Entry)
  /\ StateOK(h) /\ h.block_num = Len(b) + 1
  /\ ScheduleKept(h)
  /\ CountedOK(b, h)
  /\ BackedOK(b, h)

\* p has confirmed none of what a block after b with `confirmed` = c confirms.
FreshFor(b, p, c) ==
  \A i \in 1..Len(b) : b[i].producer = p => i + 1 < Len(b) + 2 - c

\* A block with all before it is one block more.
LEMMA Extended ==
  ASSUME NEW b \in Seq(Entry), NEW e \in Entry
  PROVE  /\ Append(b, e) \in Seq(Entry) /\ Len(Append(b, e)) = Len(b) + 1
         /\ Append(b, e)[Len(b) + 1] = e
         /\ \A j \in 1..Len(b) : Append(b, e)[j] = b[j]
         /\ \A n \in Nat : ConfirmsAt(Append(b, e), Len(b) + 1, n)
                           <=> (Len(b) + 2 - e.confirmed <= n /\ n <= Len(b) + 2)
         /\ \A j \in 1..Len(b) : \A n \in Nat : ConfirmsAt(Append(b, e), j, n) <=> ConfirmsAt(b, j, n)
<1>1. /\ Append(b, e) \in Seq(Entry) /\ Len(Append(b, e)) = Len(b) + 1
      /\ Append(b, e)[Len(b) + 1] = e
      /\ \A j \in 1..Len(b) : Append(b, e)[j] = b[j]
  BY Appended
<1>2. PICK k : k = Len(b)
  OBVIOUS
<1>3. PICK a : a = Append(b, e)
  OBVIOUS
<1>4. k \in Nat /\ e.confirmed \in Nat /\ a[k + 1] = e
  BY <1>1, <1>2, <1>3 DEF Entry
<1>5. \A n \in Nat : ConfirmsAt(a, k + 1, n) <=> (k + 2 - e.confirmed <= n /\ n <= k + 2)
  BY <1>4 DEF ConfirmsAt
<1>6. \A j \in 1..k : \A n \in Nat : ConfirmsAt(a, j, n) <=> ConfirmsAt(b, j, n)
  BY <1>1, <1>2, <1>3 DEF ConfirmsAt
<1> QED
  BY <1>1, <1>2, <1>3, <1>5, <1>6

\* Producers are finitely many.
LEMMA ProducersAre ==
  /\ IsFiniteSet(Producers) /\ Producers \subseteq AllProducers
  /\ Cardinality(Producers) = Len(Initial) /\ Len(Initial) \in Nat
<1>1. Initial \in Schedules /\ Initial \in Seq(AllProducers)
      /\ \A i, j \in 1..Len(Initial) : Initial[i] = Initial[j] => i = j
  BY DposNetworkAssumption, SchedulesAssumption
<1>2. Producers \subseteq AllProducers
  BY <1>1 DEF Producers, AllProducers
<1>3. IsFiniteSet(Producers)
  BY <1>2, SchedulesAssumption, FS_Subset
<1>4. Len(Initial) \in Nat /\ Initial \in [1..Len(Initial) -> Producers]
  BY <1>1 DEF Producers
<1>5. /\ Initial \in Injection(1..Len(Initial), Producers)
      /\ Initial \in Surjection(1..Len(Initial), Producers)
  BY <1>1, <1>4 DEF Injection, IsInjective, Surjection, Producers
<1>6. IsFiniteSet(1..Len(Initial)) /\ Cardinality(1..Len(Initial)) = Len(Initial)
  <2>1. 1 \in Int /\ Len(Initial) \in Int
    BY <1>4
  <2>2. /\ IsFiniteSet(1..Len(Initial))
        /\ Cardinality(1..Len(Initial)) = IF 1 > Len(Initial) THEN 0 ELSE Len(Initial) - 1 + 1
    BY <2>1, FS_Interval
  <2> QED
    BY <1>4, <2>2
<1>7. Cardinality(1..Len(Initial)) = Cardinality(Producers)
  BY <1>3, <1>5, FS_Injection
<1> QED
  BY <1>2, <1>3, <1>4, <1>6, <1>7

\* Confirmers are finitely many.
LEMMA ConfirmersAre ==
  ASSUME NEW b, NEW n
  PROVE  /\ ConfirmersOn(b, n) \subseteq Producers /\ IsFiniteSet(ConfirmersOn(b, n))
         /\ Cardinality(ConfirmersOn(b, n)) \in Nat
<1>1. ConfirmersOn(b, n) \subseteq Producers
  BY DEF ConfirmersOn
<1>2. IsFiniteSet(ConfirmersOn(b, n))
  BY <1>1, ProducersAre, FS_Subset
<1> QED
  BY <1>1, <1>2, FS_CardinalityType

\* The block after a branch adds its producer to the confirmers of what it confirms.
LEMMA ConfirmersGrow ==
  ASSUME NEW b \in Seq(Entry), NEW e \in Entry, NEW n \in Nat
  PROVE  ConfirmersOn(Append(b, e), n) =
           IF Len(b) + 2 - e.confirmed <= n /\ n <= Len(b) + 2
             THEN ConfirmersOn(b, n) \cup {e.producer} ELSE ConfirmersOn(b, n)
<1>1. PICK a : a = Append(b, e)
  OBVIOUS
<1>2. PICK k : k = Len(b)
  OBVIOUS
<1>3. /\ Len(a) = k + 1 /\ a[k + 1] = e /\ k \in Nat
      /\ \A j \in 1..k : a[j] = b[j]
      /\ ConfirmsAt(a, k + 1, n) <=> (k + 2 - e.confirmed <= n /\ n <= k + 2)
      /\ \A j \in 1..k : ConfirmsAt(a, j, n) <=> ConfirmsAt(b, j, n)
  BY <1>1, <1>2, Extended
<1>4. e.producer \in Producers
  BY DEF Entry
<1>5. \A i : i \in 1..(k + 1) <=> (i \in 1..k \/ i = k + 1)
  BY <1>3
<1>6. ASSUME NEW p \in Producers
      PROVE  p \in ConfirmersOn(a, n) <=>
               (p \in ConfirmersOn(b, n) \/ (p = e.producer /\ ConfirmsAt(a, k + 1, n)))
  <2>1. p \in ConfirmersOn(a, n) <=>
          \E i \in 1..(k + 1) : a[i].producer = p /\ ConfirmsAt(a, i, n)
    BY <1>3 DEF ConfirmersOn
  <2>2. p \in ConfirmersOn(b, n) <=>
          \E i \in 1..k : b[i].producer = p /\ ConfirmsAt(b, i, n)
    BY <1>2 DEF ConfirmersOn
  <2> QED
    BY <2>1, <2>2, <1>3, <1>5
<1>7. \A p : p \in ConfirmersOn(a, n) \/ p \in ConfirmersOn(b, n) => p \in Producers
  BY DEF ConfirmersOn
<1>8. CASE k + 2 - e.confirmed <= n /\ n <= k + 2
  <2>1. ConfirmersOn(a, n) = ConfirmersOn(b, n) \cup {e.producer}
    BY <1>3, <1>4, <1>6, <1>7, <1>8
  <2> QED
    BY <1>1, <1>2, <1>8, <2>1
<1>9. CASE ~ (k + 2 - e.confirmed <= n /\ n <= k + 2)
  <2>1. ConfirmersOn(a, n) = ConfirmersOn(b, n)
    BY <1>3, <1>6, <1>7, <1>9
  <2> QED
    BY <1>1, <1>2, <1>9, <2>1
<1> QED
  BY <1>8, <1>9

\* A quorum on a branch is one on every longer branch.
LEMMA QuorumStays ==
  ASSUME NEW b \in Seq(Entry), NEW e \in Entry, NEW n, Backed(b, n)
  PROVE  Backed(Append(b, e), n)
<1>1. CASE n = 0
  BY <1>1 DEF Backed
<1>2. CASE n # 0
  <2>1. n \in 1..(Len(b) + 1) /\ Cardinality(ConfirmersOn(b, n)) >= Needed /\ n \in Nat
    BY <1>2 DEF Backed, Quorum
  <2>2. ConfirmersOn(b, n) \subseteq ConfirmersOn(Append(b, e), n)
    BY <2>1, ConfirmersGrow
  <2>3. Cardinality(ConfirmersOn(b, n)) <= Cardinality(ConfirmersOn(Append(b, e), n))
    BY <2>2, ConfirmersAre, FS_Subset
  <2>4. Len(Append(b, e)) = Len(b) + 1 /\ Len(b) \in Nat
    BY Extended
  <2>5. Needed \in Int
    <3>1. PICK k : k = Len(Initial)
      OBVIOUS
    <3>2. k \in Nat /\ Needed = (k * 2) \div 3 + 1
      BY <3>1, ProducersAre DEF Needed
    <3> QED
      BY <3>2
  <2>6. /\ Cardinality(ConfirmersOn(b, n)) \in Nat
        /\ Cardinality(ConfirmersOn(Append(b, e), n)) \in Nat
    BY ConfirmersAre
  <2> QED
    BY <2>1, <2>3, <2>4, <2>5, <2>6 DEF Backed, Quorum
<1> QED
  BY <1>1, <1>2

\* What has to be confirmed is confirmed by more than two thirds.
LEMMA NeededIs ==
  /\ Needed \in Nat /\ 2 * Needed > Cardinality(Producers)
  /\ \A h : h.active.producers = Initial => RequiredConfs(h.active) = Needed
<1>1. PICK k : k = Len(Initial)
  OBVIOUS
<1>2. k \in Nat /\ Needed = (k * 2) \div 3 + 1 /\ Cardinality(Producers) = k
  BY <1>1, ProducersAre DEF Needed
<1>3. (k * 2) \div 3 + 1 \in Nat /\ 2 * ((k * 2) \div 3 + 1) > k
  BY <1>2
<1> QED
  BY <1>2, <1>3 DEF Needed, RequiredConfs

\* The counts of the next block: each block not cut off has the confirmations that
\* are not counted down any more, the one at the cut has all it needs.
LEMMA NextCounted ==
  ASSUME NEW b, NEW h, BranchOK(b, h), NEW p \in Producers, NEW c \in Nat,
         FreshFor(b, p, c)
  PROVE  LET a == Append(b, [producer |-> p, confirmed |-> c])
             k == Len(Grown(h))
         IN  \A j \in 1..k :
               j >= Cut(h, c) =>
                 (IF j >= k - c THEN Grown(h)[j] - 1 ELSE Grown(h)[j])
                   + Cardinality(ConfirmersOn(a, Len(b) + 2 - k + j)) >= Needed
<1>1. PICK e : e = [producer |-> p, confirmed |-> c]
  OBVIOUS
<1>2. PICK a : a = Append(b, e)
  OBVIOUS
<1>3. PICK k : k = Len(Grown(h))
  OBVIOUS
<1>4. PICK m : m = Len(h.confirm_count)
  OBVIOUS
<1>5. PICK l : l = Len(b)
  OBVIOUS
<1>6. e \in Entry /\ e.producer = p /\ e.confirmed = c /\ b \in Seq(Entry) /\ l \in Nat
  BY <1>1, <1>5 DEF Entry, BranchOK
<1>7. CountsOK(h) /\ SchedulesOK(h) /\ h.block_num = l + 1 /\ m \in Nat /\ m <= l + 1
  BY <1>4, <1>5, <1>6 DEF BranchOK, StateOK, CountsOK
<1>8. k \in 1..(m + 1) /\ k \in Nat /\ Grown(h) \in Seq(1..MaxConfs)
  BY <1>3, <1>4, <1>7, GrownIs
<1>9. SUFFICES ASSUME NEW j \in 1..k
               PROVE  (IF j >= k - c THEN Grown(h)[j] - 1 ELSE Grown(h)[j])
                        + Cardinality(ConfirmersOn(a, l + 2 - k + j)) >= Needed
  BY <1>1, <1>2, <1>3, <1>5
<1>10. PICK n : n = l + 2 - k + j
  OBVIOUS
<1>11. n \in Nat /\ n <= l + 2 /\ (j >= k - c <=> l + 2 - c <= n) /\ j \in Nat
  BY <1>6, <1>7, <1>8, <1>10
<1>12. PICK g : g = Grown(h)[j]
  OBVIOUS
<1>13. g \in Nat
  <2>1. Grown(h)[j] \in 1..MaxConfs
    <3>1. Grown(h) \in [1..k -> 1..MaxConfs]
      BY <1>3, <1>8, IsFunction
    <3> QED
      BY <3>1
  <2> QED
    BY <1>12, <2>1
<1>14. PICK N : N = Needed
  OBVIOUS
<1>15. N \in Nat
  BY <1>14, NeededIs
<1>16. PICK before : before = Cardinality(ConfirmersOn(b, n))
  OBVIOUS
<1>17. PICK after : after = Cardinality(ConfirmersOn(a, n))
  OBVIOUS
<1>18. before \in Nat /\ after \in Nat
  BY <1>16, <1>17, ConfirmersAre
<1>19. g + before >= N
  <2>1. CASE j = k
    <3>1. g = RequiredConfs(h.active)
      BY <1>3, <1>7, <1>12, <2>1, GrownIs
    <3>2. g = N
      BY <3>1, <1>14, NeededIs DEF BranchOK, ScheduleKept
    <3> QED
      BY <3>2, <1>15, <1>18
  <2>2. CASE j # k
    <3>1. j \in 1..(k - 1)
      BY <1>8, <2>2
    <3>2. PICK i : i = j + m + 1 - k
      OBVIOUS
    <3>3. i \in 1..m /\ g = h.confirm_count[i]
      BY <1>3, <1>4, <1>7, <1>12, <3>1, <3>2, GrownIs
    <3>4. n = l + 1 - m + i
      BY <1>6, <1>7, <1>8, <1>10, <1>11, <3>2
    <3>5. h.confirm_count[i] + Cardinality(ConfirmersOn(b, l + 1 - m + i)) >= Needed
      BY <1>4, <1>5, <3>3 DEF BranchOK, CountedOK
    <3> QED
      BY <1>14, <1>16, <3>3, <3>4, <3>5
  <2> QED
    BY <2>1, <2>2
<1>20. CASE j >= k - c
  <2>1. ConfirmersOn(a, n) = ConfirmersOn(b, n) \cup {p}
    BY <1>2, <1>5, <1>6, <1>11, <1>20, ConfirmersGrow
  <2>2. p \notin ConfirmersOn(b, n)
    <3>1. ASSUME NEW i \in 1..l, b[i].producer = p, ConfirmsAt(b, i, n) PROVE FALSE
      <4>1. i + 1 < l + 2 - c
        BY <1>5, <3>1 DEF FreshFor
      <4>2. n <= i + 1
        BY <3>1 DEF ConfirmsAt
      <4> QED
        BY <1>6, <1>11, <1>20, <4>1, <4>2
    <3> QED
      BY <1>5, <3>1 DEF ConfirmersOn
  <2>3. after = before + 1
    BY <1>16, <1>17, <2>1, <2>2, ConfirmersAre, FS_AddElement
  <2>4. g - 1 + after >= N
    BY <1>13, <1>15, <1>18, <1>19, <2>3
  <2> QED
    BY <1>10, <1>12, <1>14, <1>17, <1>20, <2>4
<1>21. CASE ~ (j >= k - c)
  <2>1. ConfirmersOn(a, n) = ConfirmersOn(b, n)
    BY <1>2, <1>5, <1>6, <1>11, <1>21, ConfirmersGrow
  <2> QED
    BY <1>10, <1>12, <1>14, <1>16, <1>17, <1>19, <1>21, <2>1
<1> QED
  BY <1>20, <1>21

\* A block that confirms nothing its producer has confirmed on the branch keeps
\* the branch in order.
LEMMA BranchExtends ==
  ASSUME NEW b, NEW h, BranchOK(b, h), NEW p \in Producers, NEW c \in Nat,
         FreshFor(b, p, c)
  PROVE  BranchOK(Append(b, [producer |-> p, confirmed |-> c]), next(h, p, c, <<>>))
<1>1. PICK e : e = [producer |-> p, confirmed |-> c]
  OBVIOUS
<1>2. PICK a : a = Append(b, e)
  OBVIOUS
<1>3. PICK g : g = next(h, p, c, <<>>)
  OBVIOUS
<1>4. e \in Entry /\ b \in Seq(Entry)
  BY <1>1 DEF Entry, BranchOK
<1>5. a \in Seq(Entry) /\ Len(a) = Len(b) + 1 /\ Len(b) \in Nat
  BY <1>2, <1>4, Extended
<1>6. StateOK(h) /\ CountsOK(h) /\ IrreversibleOK(h) /\ SchedulesOK(h) /\ h.block_num = Len(b) + 1
  BY DEF BranchOK, StateOK
<1>7. StateOK(g)
  <2>1. CarriedOK(<<>>)
    BY DEF CarriedOK
  <2>2. p \in AllProducers
    BY ProducersAre
  <2> QED
    BY <1>3, <1>6, <2>1, <2>2, NextStateOK
<1>8. /\ g.block_num = h.block_num + 1
      /\ g.dpos_proposed = NextProposed(h, c)
      /\ g.dpos_irreversible = calc_dpos_last_irreversible(h, p)
      /\ g.confirm_count = NextConfirmCount(h, c)
  BY <1>3 DEF next
<1>9. g.block_num = Len(a) + 1
  BY <1>5, <1>6, <1>8
<1>10. ScheduleKept(g)
  <2>1. CarriedOK(<<>>)
    BY DEF CarriedOK
  <2>2. /\ g.active = IF Promotes(h, p) THEN ScheduleOf(h.pending) ELSE h.active
        /\ g.pending.producers = <<>> \/ g.pending.producers = h.pending.producers
    BY <1>3, <1>6, <2>1, NextSchedulesOK
  <2>3. Promotes(h, p) => h.pending.producers = Initial
    BY DEF Promotes, BranchOK, ScheduleKept
  <2>4. ScheduleOf(h.pending).producers = h.pending.producers
    BY DEF ScheduleOf
  <2> QED
    BY <2>2, <2>3, <2>4 DEF BranchOK, ScheduleKept
<1>11. PICK k : k = Len(Grown(h))
  OBVIOUS
<1>12. PICK m : m = Cut(h, c)
  OBVIOUS
<1>13. PICK l : l = Len(b)
  OBVIOUS
<1>14. k \in Nat /\ k >= 1 /\ m \in 0..k /\ l \in Nat /\ k <= l + 2 /\ (m # 0 => m >= k - c /\ Grown(h)[m] = 1)
  <2>1. k \in 1..(Len(h.confirm_count) + 1)
    BY <1>6, <1>11, GrownIs
  <2>2. m \in 0..k /\ (m # 0 => m >= k - c /\ Grown(h)[m] = 1)
    BY <1>6, <1>11, <1>12, CutIs
  <2>3. Len(h.confirm_count) \in Nat /\ h.dpos_proposed + Len(h.confirm_count) <= l + 1
        /\ h.dpos_proposed \in Nat
    BY <1>6, <1>13 DEF CountsOK
  <2> QED
    BY <1>5, <1>13, <2>1, <2>2, <2>3
<1>15. \A j \in 1..k : j >= m =>
         (IF j >= k - c THEN Grown(h)[j] - 1 ELSE Grown(h)[j])
           + Cardinality(ConfirmersOn(a, l + 2 - k + j)) >= Needed
  BY <1>1, <1>2, <1>11, <1>12, <1>13, NextCounted
<1>16. CountedOK(a, g)
  <2>1. PICK cc : cc = NextConfirmCount(h, c)
    OBVIOUS
  <2>2. /\ Len(cc) = k - m
        /\ \A i \in 1..(k - m) :
             /\ m + i \in 1..k
             /\ cc[i] = IF m + i >= k - c THEN Grown(h)[m + i] - 1 ELSE Grown(h)[m + i]
    BY <1>6, <1>11, <1>12, <2>1, CountsAfter
  <2>3. ASSUME NEW i \in 1..(k - m)
        PROVE  cc[i] + Cardinality(ConfirmersOn(a, Len(a) + 1 - (k - m) + i)) >= Needed
    <3>1. m + i \in 1..k /\ m + i >= m
      BY <1>14, <2>2
    <3>2. cc[i] + Cardinality(ConfirmersOn(a, l + 2 - k + (m + i))) >= Needed
      BY <1>15, <2>2, <3>1
    <3>3. l + 2 - k + (m + i) = Len(a) + 1 - (k - m) + i
      BY <1>5, <1>13, <1>14
    <3> QED
      BY <3>2, <3>3
  <2> QED
    BY <1>8, <2>1, <2>2, <2>3 DEF CountedOK
<1>17. Backed(a, g.dpos_proposed)
  <2>1. g.dpos_proposed = IF m = 0 THEN h.dpos_proposed ELSE l + 2 - (k - m)
    <3>1. g.dpos_proposed = IF m = 0 THEN h.dpos_proposed ELSE h.block_num + 1 - (k - m)
      BY <1>6, <1>8, <1>11, <1>12, ProposedAfter
    <3> QED
      BY <1>6, <1>13, <1>14, <3>1
  <2>2. CASE m = 0
    <3>1. Backed(b, h.dpos_proposed)
      BY DEF BranchOK, BackedOK
    <3> QED
      BY <1>2, <1>4, <2>1, <2>2, <3>1, QuorumStays
  <2>3. CASE m # 0
    <3>1. PICK n : n = l + 2 - (k - m)
      OBVIOUS
    <3>2. n \in 1..(Len(a) + 1) /\ n = l + 2 - k + m /\ m \in 1..k /\ m >= m
      BY <1>5, <1>13, <1>14, <2>3, <3>1
    <3>3. Grown(h)[m] - 1 + Cardinality(ConfirmersOn(a, l + 2 - k + m)) >= Needed
      BY <1>14, <1>15, <2>3, <3>2
    <3>4. Cardinality(ConfirmersOn(a, n)) \in Nat
      BY ConfirmersAre
    <3>5. Cardinality(ConfirmersOn(a, n)) >= Needed
      BY <1>14, <2>3, <3>2, <3>3, <3>4
    <3> QED
      BY <2>1, <2>3, <3>1, <3>2, <3>5 DEF Backed, Quorum
  <2> QED
    BY <2>2, <2>3
<1>18. /\ Backed(a, h.dpos_proposed) /\ Backed(a, 0)
       /\ \A q \in DOMAIN h.implied : Backed(a, h.implied[q])
  BY <1>2, <1>4, QuorumStays DEF BranchOK, BackedOK, Backed
<1>19. PICK irb : irb = calc_dpos_last_irreversible(h, p)
  OBVIOUS
<1>20. Backed(a, irb)
  BY <1>6, <1>18, <1>19, CalcAmong
<1>21. \A q \in DOMAIN g.implied : Backed(a, g.implied[q])
  <2>1. DEFINE implied == IF Promotes(h, p) THEN Inherit(h.implied, ProducersOf(h.pending), irb)
                                            ELSE h.implied
  <2>2. g.implied = implied \/ g.implied = Put(implied, p, h.dpos_proposed)
    BY <1>3, <1>19 DEF next
  <2>3. \A q \in DOMAIN implied : Backed(a, implied[q])
    <3>1. CASE Promotes(h, p)
      BY <1>18, <1>20, <3>1 DEF Inherit
    <3>2. CASE ~ Promotes(h, p)
      BY <1>18, <3>2
    <3> QED
      BY <3>1, <3>2
  <2> HIDE DEF implied
  <2> QED
    BY <1>18, <2>2, <2>3 DEF Put
<1>22. BackedOK(a, g)
  BY <1>8, <1>17, <1>19, <1>20, <1>21 DEF BackedOK
<1> QED
  BY <1>1, <1>2, <1>3, <1>5, <1>7, <1>9, <1>10, <1>16, <1>22 DEF BranchOK

-----------------------------------------------------------------------------
(***************************************************************************)
(* What a producer confirms.                                               *)
(***************************************************************************)
\* start_block confirms nothing up to the watermark.
LEMMA ConfirmsAfterWatermark ==
  ASSUME NEW w \in Nat, NEW num \in Nat, NEW irr \in Nat, irr <= num, w <= num
  PROVE  /\ BlocksToConfirm(w, num, irr) \in Nat
         /\ w # 0 => w < num + 1 - BlocksToConfirm(w, num, irr)
<1>1. PICK x : x = IF w # 0 /\ w < num THEN num - w ELSE 0
  OBVIOUS
<1>2. PICK y : y = num - irr
  OBVIOUS
<1>3. PICK c : c = BlocksToConfirm(w, num, irr)
  OBVIOUS
<1>4. c = Min({x, y})
  BY <1>1, <1>2, <1>3 DEF BlocksToConfirm
<1>5. x \in Nat /\ y \in Nat /\ (w # 0 => x <= num - w)
  BY <1>1, <1>2
<1>6. c \in Nat /\ c <= x
  BY <1>4, <1>5, MinOfTwo
<1> QED
  BY <1>3, <1>5, <1>6

\* Blocks of one producer on a and on b that confirm a number are the same block.
Distinct(a, b) ==
  \A i \in 1..Len(a), j \in 1..Len(b) : \A n \in Int :
    a[i].producer = b[j].producer /\ ConfirmsAt(a, i, n) /\ ConfirmsAt(b, j, n)
      => i = j /\ \A k \in 1..i : a[k] = b[k]

\* The order of the two branches does not matter.
LEMMA DistinctSymmetric ==
  ASSUME NEW a, NEW b, Distinct(a, b)
  PROVE  Distinct(b, a)
  BY DEF Distinct

\* The blocks on x that p signed are before all that a block after b confirms.
LEMMA DistinctExtends ==
  ASSUME NEW b \in Seq(Entry), NEW x \in Seq(Entry), Distinct(b, x),
         NEW p \in Producers, NEW c \in Nat,
         \A j \in 1..Len(x) : x[j].producer = p => j + 1 < Len(b) + 2 - c
  PROVE  Distinct(Append(b, [producer |-> p, confirmed |-> c]), x)
<1>1. PICK e : e = [producer |-> p, confirmed |-> c]
  OBVIOUS
<1>2. PICK a : a = Append(b, e)
  OBVIOUS
<1>3. PICK l : l = Len(b)
  OBVIOUS
<1>4. e \in Entry /\ e.producer = p /\ e.confirmed = c /\ l \in Nat
  BY <1>1, <1>3 DEF Entry
<1>5. Len(a) = l + 1 /\ a[l + 1] = e /\ \A j \in 1..l : a[j] = b[j]
  BY <1>2, <1>3, <1>4, Extended
<1>6. SUFFICES ASSUME NEW i \in 1..(l + 1), NEW j \in 1..Len(x), NEW n \in Int,
                      a[i].producer = x[j].producer, ConfirmsAt(a, i, n), ConfirmsAt(x, j, n)
               PROVE  i = j /\ \A k \in 1..i : a[k] = x[k]
  BY <1>1, <1>2, <1>5 DEF Distinct
<1>7. CASE i = l + 1
  <2>1. x[j].producer = p
    BY <1>4, <1>5, <1>6, <1>7
  <2>2. j + 1 < l + 2 - c
    BY <1>3, <2>1
  <2>3. l + 2 - c <= n /\ n <= j + 1
    BY <1>4, <1>5, <1>6, <1>7 DEF ConfirmsAt
  <2> QED
    BY <1>4, <2>2, <2>3
<1>8. CASE i # l + 1
  <2>1. i \in 1..l /\ \A k \in 1..i : k \in 1..l
    BY <1>4, <1>8
  <2>2. a[i] = b[i] /\ ConfirmsAt(b, i, n)
    BY <1>5, <1>6, <2>1 DEF ConfirmsAt
  <2>3. i = j /\ \A k \in 1..i : b[k] = x[k]
    BY <1>3, <1>6, <2>1, <2>2 DEF Distinct
  <2> QED
    BY <1>5, <2>1, <2>3
<1> QED
  BY <1>7, <1>8

\* The branch with the new block against itself.
LEMMA DistinctFromItself ==
  ASSUME NEW b \in Seq(Entry), Distinct(b, b), NEW p \in Producers, NEW c \in Nat,
         FreshFor(b, p, c)
  PROVE  Distinct(Append(b, [producer |-> p, confirmed |-> c]),
                  Append(b, [producer |-> p, confirmed |-> c]))
<1>1. PICK e : e = [producer |-> p, confirmed |-> c]
  OBVIOUS
<1>2. PICK a : a = Append(b, e)
  OBVIOUS
<1>3. PICK l : l = Len(b)
  OBVIOUS
<1>4. e \in Entry /\ e.producer = p /\ l \in Nat
  BY <1>1, <1>3 DEF Entry
<1>5. Len(a) = l + 1 /\ a[l + 1] = e /\ \A j \in 1..l : a[j] = b[j]
  BY <1>2, <1>3, <1>4, Extended
<1>6. Distinct(a, b)
  BY <1>1, <1>2, DistinctExtends DEF FreshFor
<1>7. SUFFICES ASSUME NEW i \in 1..(l + 1), NEW j \in 1..(l + 1), NEW n \in Int,
                      a[i].producer = a[j].producer, ConfirmsAt(a, i, n), ConfirmsAt(a, j, n)
               PROVE  i = j
  BY <1>1, <1>2, <1>5 DEF Distinct
<1>8. CASE j \in 1..l
  <2>1. a[j] = b[j] /\ ConfirmsAt(b, j, n)
    BY <1>5, <1>7, <1>8 DEF ConfirmsAt
  <2> QED
    BY <1>3, <1>5, <1>6, <1>7, <1>8, <2>1 DEF Distinct
<1>9. CASE i \in 1..l
  <2>1. a[i] = b[i] /\ ConfirmsAt(b, i, n)
    BY <1>5, <1>7, <1>9 DEF ConfirmsAt
  <2> QED
    BY <1>3, <1>5, <1>6, <1>7, <1>9, <2>1 DEF Distinct
<1>10. CASE i = l + 1 /\ j = l + 1
  BY <1>10
<1> QED
  BY <1>4, <1>8, <1>9, <1>10

-----------------------------------------------------------------------------
(***************************************************************************)
(* The blocks before the first fork.                                       *)
(***************************************************************************)
TrunkNums == 1..(Len(Trunk) + 1)
TrunkStep(t, n) == IF n = 1 THEN GenesisBlock ELSE Grow(t, Trunk[n - 1])
IsTrunk(f, top) == f = [n \in 1..top |-> TrunkStep(f[n - 1], n)]

\* TrunkBlock is defined by such a function,
LEMMA TrunkIs == TrunkBlock = CHOOSE f : IsTrunk(f, Len(Trunk) + 1)
  BY DEF TrunkBlock, IsTrunk, TrunkStep

\* and there is one.
LEMMA TrunkExists ==
  ASSUME NEW top \in Nat
  PROVE  \E f : IsTrunk(f, top)
<1> DEFINE B == {m \in Nat : ~ \E f : IsTrunk(f, m)}
<1>1. SUFFICES ASSUME B # {} PROVE FALSE
  OBVIOUS
<1>2. PICK m \in B : \A k \in B : m <= k
  <2> HIDE DEF B
  <2>1. B \in SUBSET Nat
    BY DEF B
  <2> QED
    BY <1>1, <2>1, LeastNumber
<1>3. m \in Nat /\ ~ \E f : IsTrunk(f, m)
  OBVIOUS
<1>4. m # 0
  <2>1. ASSUME m = 0 PROVE FALSE
    <3>1. PICK f : f = [n \in 1..0 |-> 0]
      OBVIOUS
    <3>2. f = [n \in 1..0 |-> TrunkStep(f[n - 1], n)]
      BY <3>1
    <3> QED
      BY <1>3, <2>1, <3>2 DEF IsTrunk
  <2> QED
    BY <2>1
<1>5. PICK h : IsTrunk(h, m - 1)
  <2>1. m - 1 \in Nat /\ ~ (m <= m - 1)
    BY <1>3, <1>4
  <2>2. m - 1 \notin B
    BY <1>2, <2>1
  <2> QED
    BY <2>1, <2>2
<1>6. PICK f : f = [n \in 1..m |-> IF n = m THEN TrunkStep(h[m - 1], m) ELSE h[n]]
  OBVIOUS
<1>7. \A n \in 1..(m - 1) : h[n] = TrunkStep(h[n - 1], n)
  <2>1. PICK e : e = [n \in 1..(m - 1) |-> TrunkStep(h[n - 1], n)]
    OBVIOUS
  <2>2. h = e
    BY <1>5, <2>1 DEF IsTrunk
  <2>3. \A n \in 1..(m - 1) : e[n] = TrunkStep(h[n - 1], n)
    BY <2>1
  <2> QED
    BY <2>2, <2>3
<1>8. ASSUME NEW n \in 1..m PROVE f[n] = TrunkStep(f[n - 1], n)
  <2>1. CASE n = 1
    <3>1. \A x, y : TrunkStep(x, 1) = TrunkStep(y, 1)
      BY DEF TrunkStep
    <3> QED
      BY <1>3, <1>4, <1>6, <1>7, <2>1, <3>1
  <2>2. CASE n # 1
    <3>1. f[n - 1] = h[n - 1]
      BY <1>3, <1>6, <2>2
    <3> QED
      BY <1>3, <1>6, <1>7, <2>2, <3>1
  <2> QED
    BY <2>1, <2>2
<1>9. IsTrunk(f, m)
  BY <1>6, <1>8 DEF IsTrunk
<1> QED
  BY <1>3, <1>9

\* The trunk, block by block.
LEMMA TrunkSteps ==
  /\ Len(Trunk) \in Nat
  /\ \A n \in TrunkNums : TrunkBlock[n] = TrunkStep(TrunkBlock[n - 1], n)
<1>1. Len(Trunk) \in Nat
  BY DposNetworkAssumption
<1>2. IsTrunk(TrunkBlock, Len(Trunk) + 1)
  <2>1. Len(Trunk) + 1 \in Nat
    BY <1>1
  <2> QED
    BY <2>1, TrunkIs, TrunkExists
<1>3. PICK e : e = [n \in TrunkNums |-> TrunkStep(TrunkBlock[n - 1], n)]
  OBVIOUS
<1>4. TrunkBlock = e
  BY <1>2, <1>3 DEF IsTrunk, TrunkNums
<1>5. \A n \in TrunkNums : e[n] = TrunkStep(TrunkBlock[n - 1], n)
  BY <1>3
<1> QED
  BY <1>1, <1>4, <1>5

\* producer_to_last_produced covers every block of the branch.
ProducedCovers(b, h) ==
  \A i \in 1..Len(b) : /\ b[i].producer \in DOMAIN h.produced
                       /\ i + 1 <= h.produced[b[i].producer]

\* The branch of block n of the trunk, and its part up to block m.
TrunkPart(m, n) ==
  /\ Len(TrunkBlock[m].branch) = m - 1
  /\ \A i \in 1..(m - 1) : TrunkBlock[m].branch[i] = TrunkBlock[n].branch[i]

TrunkOK(n) ==
  /\ BranchOK(TrunkBlock[n].branch, TrunkBlock[n].hs)
  /\ ProducedCovers(TrunkBlock[n].branch, TrunkBlock[n].hs)
  /\ Distinct(TrunkBlock[n].branch, TrunkBlock[n].branch)
  /\ \A i \in 1..(n - 1) : TrunkBlock[n].branch[i].producer = Trunk[i]
  /\ \A m \in 1..n : TrunkPart(m, n)

\* The genesis block.
LEMMA GenesisOK ==
  /\ BranchOK(<<>>, GenesisState(Initial))
  /\ ProducedCovers(<<>>, GenesisState(Initial))
  /\ Distinct(<<>>, <<>>)
<1>1. PICK g : g = GenesisState(Initial)
  OBVIOUS
<1>2. /\ g.block_num = 1 /\ g.dpos_proposed = 0 /\ g.dpos_irreversible = 0
      /\ g.active = [version |-> 0, producers |-> Initial]
      /\ g.produced = <<>> /\ g.implied = <<>> /\ g.confirm_count = <<>>
      /\ g.pending = [lib_num |-> 0, version |-> 0, producers |-> Initial]
  BY <1>1 DEF GenesisState
<1>3. Initial \in Schedules
  BY DposNetworkAssumption
<1>4. CountsOK(g)
  BY <1>2 DEF CountsOK
<1>5. DOMAIN g.implied = {} /\ DOMAIN g.produced = {} /\ Len(g.confirm_count) = 0
  BY <1>2
<1>6. IrreversibleOK(g) /\ SchedulesOK(g)
  BY <1>2, <1>3, <1>5 DEF IrreversibleOK, SchedulesOK
<1>7. CountedOK(<<>>, g) /\ BackedOK(<<>>, g) /\ ScheduleKept(g)
  BY <1>2, <1>5 DEF CountedOK, BackedOK, Backed, ScheduleKept
<1>8. BranchOK(<<>>, g)
  BY <1>2, <1>4, <1>6, <1>7 DEF BranchOK, StateOK
<1> QED
  BY <1>1, <1>8 DEF ProducedCovers, Distinct

\* A block keeps producer_to_last_produced covering the branch.
LEMMA CoversExtends ==
  ASSUME NEW b, NEW h, BranchOK(b, h), ProducedCovers(b, h), NEW p \in Producers, NEW c \in Nat
  PROVE  ProducedCovers(Append(b, [producer |-> p, confirmed |-> c]), next(h, p, c, <<>>))
<1>1. PICK e : e = [producer |-> p, confirmed |-> c]
  OBVIOUS
<1>2. PICK a : a = Append(b, e)
  OBVIOUS
<1>3. PICK l : l = Len(b)
  OBVIOUS
<1>4. e \in Entry /\ e.producer = p /\ l \in Nat /\ b \in Seq(Entry)
  BY <1>1, <1>3 DEF Entry, BranchOK
<1>5. Len(a) = l + 1 /\ a[l + 1] = e /\ \A j \in 1..l : a[j] = b[j]
  BY <1>2, <1>3, <1>4, Extended
<1>6. PICK irb : irb = calc_dpos_last_irreversible(h, p)
  OBVIOUS
<1>7. DEFINE produced == IF Promotes(h, p) THEN Inherit(h.produced, ProducersOf(h.pending), irb)
                                           ELSE h.produced
<1>8. next(h, p, c, <<>>).produced = Put(produced, p, l + 2)
  <2>1. h.block_num + 1 = l + 2
    BY <1>3, <1>4 DEF BranchOK
  <2> QED
    BY <1>6, <2>1 DEF next
<1>9. ASSUME NEW i \in 1..l
      PROVE  b[i].producer \in DOMAIN produced /\ i + 1 <= produced[b[i].producer]
  <2>1. b[i].producer \in DOMAIN h.produced /\ i + 1 <= h.produced[b[i].producer]
    BY <1>3 DEF ProducedCovers
  <2>2. CASE Promotes(h, p)
    <3>1. h.pending.producers = Initial
      BY <2>2 DEF Promotes, BranchOK, ScheduleKept
    <3>2. b[i].producer \in ProducersOf(h.pending)
      <4>1. b[i] \in Entry
        BY <1>3, <1>4
      <4> QED
        BY <3>1, <4>1 DEF Entry, Producers, ProducersOf
    <3> QED
      BY <2>1, <2>2, <3>2 DEF Inherit
  <2>3. CASE ~ Promotes(h, p)
    BY <2>1, <2>3
  <2> QED
    BY <2>2, <2>3
<1> HIDE DEF produced
<1>10. ASSUME NEW i \in 1..(l + 1)
       PROVE  /\ a[i].producer \in DOMAIN Put(produced, p, l + 2)
              /\ i + 1 <= Put(produced, p, l + 2)[a[i].producer]
  <2>1. CASE a[i].producer = p
    BY <1>4, <2>1 DEF Put
  <2>2. CASE a[i].producer # p
    <3>1. i \in 1..l /\ a[i] = b[i]
      BY <1>4, <1>5, <2>2
    <3> QED
      BY <1>9, <2>2, <3>1 DEF Put
  <2> QED
    BY <2>1, <2>2
<1> QED
  BY <1>1, <1>2, <1>5, <1>8, <1>10 DEF ProducedCovers

\* The next block of the trunk.
LEMMA TrunkGrows ==
  ASSUME NEW n \in TrunkNums, n # 1, n - 1 \in TrunkNums, TrunkOK(n - 1)
  PROVE  TrunkOK(n)
<1>1. PICK t : t = TrunkBlock[n - 1]
  OBVIOUS
<1>2. PICK p : p = Trunk[n - 1]
  OBVIOUS
<1>3. PICK b : b = t.branch
  OBVIOUS
<1>4. PICK h : h = t.hs
  OBVIOUS
<1>5. PICK w : w = IF p \in DOMAIN h.produced THEN h.produced[p] ELSE 0
  OBVIOUS
<1>6. PICK c : c = BlocksToConfirm(w, h.block_num, h.dpos_irreversible)
  OBVIOUS
<1>7. PICK a : a = Append(b, [producer |-> p, confirmed |-> c])
  OBVIOUS
<1>8. TrunkBlock[n] = [branch |-> a, hs |-> next(h, p, c, <<>>)]
  <2>1. TrunkBlock[n] = Grow(t, p)
    BY <1>1, <1>2, TrunkSteps DEF TrunkStep
  <2> QED
    BY <2>1, <1>3, <1>4, <1>5, <1>6, <1>7 DEF Grow
<1>9. n \in Nat /\ n > 1 /\ n - 1 \in 1..Len(Trunk) /\ p \in Producers
  <2>1. n \in Nat /\ n > 1 /\ n - 1 \in 1..Len(Trunk)
    BY TrunkSteps DEF TrunkNums
  <2> QED
    BY <1>2, <2>1, DposNetworkAssumption
<1>10. /\ BranchOK(b, h) /\ ProducedCovers(b, h) /\ Distinct(b, b)
       /\ \A i \in 1..(n - 2) : b[i].producer = Trunk[i]
       /\ \A m \in 1..(n - 1) : TrunkPart(m, n - 1)
  <2>1. (n - 1) - 1 = n - 2
    BY <1>9
  <2> QED
    BY <1>1, <1>3, <1>4, <2>1 DEF TrunkOK
<1>11. Len(b) = n - 2 /\ b \in Seq(Entry) /\ h.block_num = n - 1
  <2>1. n - 1 \in 1..(n - 1) /\ (n - 1) - 1 = n - 2 /\ (n - 2) + 1 = n - 1
    BY <1>9
  <2> QED
    BY <1>1, <1>3, <1>10, <2>1 DEF TrunkPart, BranchOK
<1>12. w \in Nat /\ w <= n - 1 /\ h.dpos_irreversible \in Nat /\ h.dpos_irreversible <= n - 1
  <2>1. StateOK(h)
    BY <1>10 DEF BranchOK
  <2>2. h.dpos_irreversible \in 0..h.dpos_proposed /\ h.dpos_proposed \in Nat /\ h.dpos_proposed <= n - 1
    BY <1>9, <1>11, <2>1 DEF StateOK, CountsOK, IrreversibleOK
  <2>3. \A q \in DOMAIN h.produced : h.produced[q] \in 0..(n - 1)
    BY <1>11, <2>1 DEF StateOK, IrreversibleOK
  <2> QED
    BY <1>5, <1>9, <2>2, <2>3
<1>13. c \in Nat /\ (w # 0 => w < n - c)
  <2>1. PICK num : num = n - 1
    OBVIOUS
  <2>2. num \in Nat /\ w <= num /\ h.dpos_irreversible <= num /\ h.block_num = num
    BY <1>9, <1>11, <1>12, <2>1
  <2>3. c \in Nat /\ (w # 0 => w < num + 1 - c)
    BY <1>6, <1>12, <2>2, ConfirmsAfterWatermark
  <2> QED
    BY <1>9, <2>1, <2>3
<1>14. FreshFor(b, p, c)
  <2>1. ASSUME NEW i \in 1..Len(b), b[i].producer = p PROVE i + 1 < Len(b) + 2 - c
    <3>1. p \in DOMAIN h.produced /\ i + 1 <= h.produced[p]
      BY <1>10, <2>1 DEF ProducedCovers
    <3>2. i + 1 <= w /\ w # 0
      BY <1>5, <1>11, <1>12, <3>1
    <3> QED
      BY <1>9, <1>11, <1>12, <1>13, <3>2
  <2> QED
    BY <2>1 DEF FreshFor
<1>15. BranchOK(a, next(h, p, c, <<>>))
  BY <1>7, <1>9, <1>10, <1>13, <1>14, BranchExtends
<1>16. ProducedCovers(a, next(h, p, c, <<>>))
  BY <1>7, <1>9, <1>10, <1>13, CoversExtends
<1>17. Distinct(a, a)
  BY <1>7, <1>9, <1>10, <1>11, <1>13, <1>14, DistinctFromItself
<1>18. Len(a) = n - 1 /\ a[n - 1].producer = p /\ \A i \in 1..(n - 2) : a[i] = b[i]
  <2>1. PICK e : e = [producer |-> p, confirmed |-> c]
    OBVIOUS
  <2>2. e \in Entry /\ e.producer = p
    BY <1>9, <1>13, <2>1 DEF Entry
  <2>3. Len(a) = Len(b) + 1 /\ a[Len(b) + 1] = e /\ \A i \in 1..Len(b) : a[i] = b[i]
    BY <1>7, <1>11, <2>1, <2>2, Extended
  <2>4. Len(b) + 1 = n - 1
    BY <1>9, <1>11
  <2> QED
    BY <1>11, <2>2, <2>3, <2>4
<1>19. ASSUME NEW i \in 1..(n - 1) PROVE a[i].producer = Trunk[i]
  <2>1. CASE i = n - 1
    BY <1>2, <1>18, <2>1
  <2>2. CASE i # n - 1
    <3>1. i \in 1..(n - 2)
      BY <1>9, <2>2
    <3> QED
      BY <1>10, <1>18, <3>1
  <2> QED
    BY <2>1, <2>2
<1>20. TrunkBlock[n].branch = a /\ TrunkBlock[n].hs = next(h, p, c, <<>>)
  BY <1>8
<1>21. ASSUME NEW m \in 1..n PROVE TrunkPart(m, n)
  <2>1. CASE m = n
    BY <1>18, <1>20, <2>1 DEF TrunkPart
  <2>2. CASE m # n
    <3>1. m \in 1..(n - 1) /\ \A i \in 1..(m - 1) : i \in 1..(n - 2)
      BY <1>9, <2>2
    <3>2. /\ Len(TrunkBlock[m].branch) = m - 1
          /\ \A i \in 1..(m - 1) : TrunkBlock[m].branch[i] = b[i]
      BY <1>1, <1>3, <1>10, <3>1 DEF TrunkPart
    <3> QED
      BY <1>18, <1>20, <3>1, <3>2 DEF TrunkPart
  <2> QED
    BY <2>1, <2>2
<1> QED
  BY <1>15, <1>16, <1>17, <1>19, <1>20, <1>21 DEF TrunkOK

\* All of the trunk is in order.
LEMMA TrunkHolds ==
  ASSUME NEW n \in TrunkNums
  PROVE  TrunkOK(n)
<1> DEFINE B == {m \in TrunkNums : ~ TrunkOK(m)}
<1>1. SUFFICES ASSUME B # {} PROVE FALSE
  OBVIOUS
<1>2. PICK m \in B : \A k \in B : m <= k
  <2>1. B \in SUBSET Nat
    BY TrunkSteps DEF TrunkNums
  <2> HIDE DEF B
  <2> QED
    BY <1>1, <2>1, LeastNumber
<1>3. m \in TrunkNums /\ m \in Nat /\ m >= 1 /\ ~ TrunkOK(m)
  BY TrunkSteps DEF TrunkNums
<1>4. CASE m = 1
  <2>1. TrunkBlock[1] = [branch |-> <<>>, hs |-> GenesisState(Initial)]
    BY <1>3, <1>4, TrunkSteps DEF TrunkStep, GenesisBlock
  <2>2. TrunkBlock[1].branch = <<>> /\ TrunkBlock[1].hs = GenesisState(Initial)
    BY <2>1
  <2>3. TrunkPart(1, 1)
    BY <2>2 DEF TrunkPart
  <2>4. \A k \in 1..1 : k = 1
    OBVIOUS
  <2>5. 1..(1 - 1) = {}
    OBVIOUS
  <2>6. TrunkOK(1)
    BY <2>2, <2>3, <2>4, <2>5, GenesisOK DEF TrunkOK
  <2> QED
    BY <1>3, <1>4, <2>6
<1>5. CASE m # 1
  <2>1. m - 1 \in TrunkNums /\ ~ (m <= m - 1)
    BY <1>3, <1>5, TrunkSteps DEF TrunkNums
  <2>2. TrunkOK(m - 1)
    BY <1>2, <2>1
  <2> HIDE DEF B
  <2> QED
    BY <1>3, <1>5, <2>1, <2>2, TrunkGrows
<1> QED
  BY <1>4, <1>5

-----------------------------------------------------------------------------
(***************************************************************************)
(* The network.                                                            *)
(***************************************************************************)
TreeOK == \A b \in Tree : b # <<>> /\ BranchOK(b, hs[b])

NodesOK ==
  /\ DOMAIN node = Producers
  /\ \A p \in Producers : node[p].watermark \in Nat \ {0}

\* A producer has signed no block beyond its watermark, on whichever branch.
SignedOK ==
  \A b \in Tree : \A i \in 1..Len(b) : i + 1 <= node[b[i].producer].watermark

\* A number confirmed twice by one producer was confirmed by one block.
ConfirmedOnce == \A a, b \in Tree : Distinct(a, b)

NetworkInv == TreeOK /\ NodesOK /\ SignedOK /\ ConfirmedOnce

\* The last block of p in the trunk.
LEMMA LastIs ==
  ASSUME NEW p \in Producers
  PROVE  /\ LastOf(p) \in TrunkNums /\ LastOf(p) \in Nat /\ LastOf(p) > 1
         /\ \A i \in 1..Len(Trunk) : Trunk[i] = p => i + 1 <= LastOf(p)
<1>1. PICK S : S = {i \in 1..Len(Trunk) : Trunk[i] = p}
  OBVIOUS
<1>2. Len(Trunk) \in Nat
  BY TrunkSteps
<1>3. S \in SUBSET Nat /\ S # {} /\ \A x \in S : x <= Len(Trunk)
  <2>1. \E i \in 1..Len(Trunk) : Trunk[i] = p
    BY DposNetworkAssumption
  <2> QED
    BY <1>1, <1>2, <2>1
<1>4. Max(S) \in S /\ \A x \in S : Max(S) >= x
  BY <1>2, <1>3, MaxOfBounded
<1>5. PICK m : m = Max(S)
  OBVIOUS
<1>6. LastOf(p) = 1 + m
  BY <1>1, <1>5 DEF LastOf
<1>7. m \in 1..Len(Trunk) /\ \A i \in 1..Len(Trunk) : Trunk[i] = p => m >= i
  BY <1>1, <1>4, <1>5
<1> QED
  BY <1>2, <1>6, <1>7 DEF TrunkNums

\* The network starts in order.
LEMMA NetworkInit == Init => NetworkInv
<1> SUFFICES ASSUME Init PROVE NetworkInv
  OBVIOUS
<1>1. PICK top : top = Len(Trunk) + 1
  OBVIOUS
<1>2. top \in TrunkNums /\ top \in Nat /\ Len(Trunk) \in Nat
  BY <1>1, TrunkSteps DEF TrunkNums
<1>3. PICK f : f = TrunkBlock[top].branch
  OBVIOUS
<1>4. ASSUME NEW b \in Tree
      PROVE  /\ Len(b) \in Nat /\ Len(b) + 1 \in TrunkNums /\ Len(b) >= 1 /\ Len(b) <= top - 1
             /\ hs[b] = TrunkBlock[Len(b) + 1].hs /\ b = TrunkBlock[Len(b) + 1].branch
             /\ \A i \in 1..Len(b) : b[i] = f[i]
  <2>1. PICK p \in Producers : b = TrunkHead(p)
    BY DEF Init, Tree
  <2>2. PICK n : n = LastOf(p)
    OBVIOUS
  <2>3. n \in TrunkNums /\ n \in Nat /\ n > 1 /\ n <= top
    BY <1>1, <2>2, LastIs DEF TrunkNums
  <2>4. b = TrunkBlock[n].branch
    BY <2>1, <2>2 DEF TrunkHead
  <2>5. TrunkPart(n, top)
    BY <1>2, <2>3, TrunkHolds DEF TrunkOK
  <2>6. Len(b) = n - 1 /\ \A i \in 1..(n - 1) : b[i] = f[i]
    BY <1>3, <2>4, <2>5 DEF TrunkPart
  <2>7. (n - 1) + 1 = n /\ n - 1 \in Nat /\ n - 1 >= 1 /\ n - 1 <= top - 1
    BY <1>2, <2>3
  <2>8. hs[b] = TrunkBlock[NumOf(b)].hs
    BY DEF Init, Tree
  <2> QED
    BY <2>3, <2>4, <2>6, <2>7, <2>8 DEF NumOf
<1>5. TreeOK
  <2>1. ASSUME NEW b \in Tree PROVE b # <<>> /\ BranchOK(b, hs[b])
    BY <1>4, TrunkHolds DEF TrunkOK
  <2> QED
    BY <2>1 DEF TreeOK
<1>6. DOMAIN node = Producers /\ \A p \in Producers : node[p].watermark = LastOf(p)
  BY DEF Init
<1>7. NodesOK
  BY <1>6, LastIs DEF NodesOK
<1>8. \A i \in 1..(top - 1) : f[i].producer = Trunk[i]
  BY <1>2, <1>3, TrunkHolds DEF TrunkOK
<1>9. SignedOK
  <2>1. ASSUME NEW b \in Tree, NEW i \in 1..Len(b)
        PROVE  i + 1 <= node[b[i].producer].watermark
    <3>1. i \in 1..Len(Trunk) /\ b[i] = f[i] /\ b[i].producer = Trunk[i]
      BY <1>1, <1>2, <1>4, <1>8
    <3>2. Trunk[i] \in Producers
      BY <3>1, DposNetworkAssumption
    <3> QED
      BY <1>6, <3>1, <3>2, LastIs
  <2> QED
    BY <2>1 DEF SignedOK
<1>10. Distinct(f, f) /\ Len(f) = top - 1
  <2>1. top \in 1..top
    BY <1>1, <1>2
  <2> QED
    BY <1>2, <1>3, <2>1, TrunkHolds DEF TrunkOK, TrunkPart
<1>11. ConfirmedOnce
  <2>1. ASSUME NEW a \in Tree, NEW b \in Tree, NEW i \in 1..Len(a), NEW j \in 1..Len(b), NEW n \in Int,
               a[i].producer = b[j].producer, ConfirmsAt(a, i, n), ConfirmsAt(b, j, n)
        PROVE  i = j /\ \A k \in 1..i : a[k] = b[k]
    <3>1. a[i] = f[i] /\ b[j] = f[j] /\ i \in 1..Len(f) /\ j \in 1..Len(f)
      BY <1>1, <1>2, <1>4, <1>10
    <3>2. ConfirmsAt(f, i, n) /\ ConfirmsAt(f, j, n)
      BY <2>1, <3>1 DEF ConfirmsAt
    <3>3. i = j
      BY <1>10, <2>1, <3>1, <3>2 DEF Distinct
    <3>4. \A k \in 1..i : k \in 1..Len(a) /\ k \in 1..Len(b)
      BY <1>4, <3>3
    <3> QED
      BY <1>4, <3>3, <3>4
  <2> QED
    BY <2>1 DEF ConfirmedOnce, Distinct
<1> QED
  BY <1>5, <1>7, <1>9, <1>11 DEF NetworkInv

\* A new block keeps the network in order.
LEMMA ProduceKeeps ==
  ASSUME NetworkInv, NEW p \in Producers, NEW b \in Tree, Produce(p, b)
  PROVE  NetworkInv'
<1>1. PICK w : w = node[p].watermark
  OBVIOUS
<1>2. PICK h : h = hs[b]
  OBVIOUS
<1>3. PICK l : l = Len(b)
  OBVIOUS
<1>4. PICK c : c = BlocksToConfirm(w, l + 1, h.dpos_irreversible)
  OBVIOUS
<1>5. PICK e : e = [producer |-> p, confirmed |-> c]
  OBVIOUS
<1>6. PICK a : a = Append(b, e)
  OBVIOUS
<1>7. /\ w < l + 2
      /\ hs' = Put(hs, a, next(h, p, c, <<>>))
      /\ node' = [node EXCEPT ![p] = [head |-> a, watermark |-> NumOf(a)]]
  <2>1. /\ w < NumOf(b) + 1
        /\ hs' = Put(hs, a, next(h, p, c, <<>>))
        /\ node' = [node EXCEPT ![p] = [head |-> a, watermark |-> NumOf(a)]]
    BY <1>1, <1>2, <1>3, <1>4, <1>5, <1>6 DEF Produce, MayProduce, NumOf
  <2>2. NumOf(b) + 1 = l + 2
    BY <1>3 DEF NumOf, NetworkInv, TreeOK, BranchOK
  <2> QED
    BY <2>1, <2>2
<1>8. BranchOK(b, h) /\ b \in Seq(Entry) /\ l \in Nat /\ h.block_num = l + 1
  BY <1>2, <1>3 DEF NetworkInv, TreeOK, BranchOK
<1>9. w \in Nat \ {0} /\ DOMAIN node = Producers /\ w <= l + 1
  BY <1>1, <1>7, <1>8 DEF NetworkInv, NodesOK
<1>10. h.dpos_irreversible \in Nat /\ h.dpos_irreversible <= l + 1
  BY <1>8 DEF BranchOK, StateOK, CountsOK, IrreversibleOK
<1>11. c \in Nat /\ w < l + 2 - c
  <2>1. PICK num : num = l + 1
    OBVIOUS
  <2>2. num \in Nat /\ w <= num /\ h.dpos_irreversible <= num
    BY <1>8, <1>9, <1>10, <2>1
  <2>3. c \in Nat /\ (w # 0 => w < num + 1 - c)
    BY <1>4, <1>9, <1>10, <2>1, <2>2, ConfirmsAfterWatermark
  <2> QED
    BY <1>8, <1>9, <2>1, <2>3
<1>12. e \in Entry /\ e.producer = p
  BY <1>5, <1>11 DEF Entry
<1>13. a \in Seq(Entry) /\ Len(a) = l + 1 /\ a[l + 1] = e /\ \A j \in 1..l : a[j] = b[j]
  BY <1>3, <1>6, <1>8, <1>12, Extended
<1>14. ASSUME NEW x \in Tree
       PROVE  \A j \in 1..Len(x) : x[j].producer = p => j + 1 < l + 2 - c
  <2>1. ASSUME NEW j \in 1..Len(x), x[j].producer = p PROVE j + 1 < l + 2 - c
    <3>1. j + 1 <= w
      BY <1>1, <2>1 DEF NetworkInv, SignedOK
    <3> QED
      BY <1>8, <1>9, <1>11, <3>1
  <2> QED
    BY <2>1
<1>15. FreshFor(b, p, c)
  BY <1>3, <1>14 DEF FreshFor
<1>16. BranchOK(a, next(h, p, c, <<>>)) /\ a # <<>>
  <2>1. BranchOK(a, next(h, p, c, <<>>))
    BY <1>5, <1>6, <1>8, <1>11, <1>15, BranchExtends
  <2>2. Len(a) # 0
    BY <1>8, <1>13
  <2> QED
    BY <2>1, <2>2
<1>17. Tree' = Tree \cup {a} /\ hs'[a] = next(h, p, c, <<>>)
       /\ \A x \in Tree : x # a => hs'[x] = hs[x]
  BY <1>7 DEF Tree, Put
<1>18. TreeOK'
  <2>1. ASSUME NEW x \in Tree' PROVE x # <<>> /\ BranchOK(x, hs'[x])
    <3>1. CASE x = a
      BY <1>16, <1>17, <3>1
    <3>2. CASE x # a
      BY <1>17, <2>1, <3>2 DEF NetworkInv, TreeOK
    <3> QED
      BY <3>1, <3>2
  <2> QED
    BY <2>1 DEF TreeOK
<1>19. /\ DOMAIN node' = Producers /\ node'[p].watermark = l + 2
       /\ \A q \in Producers : q # p => node'[q] = node[q]
  <2>1. NumOf(a) = l + 2
    BY <1>8, <1>13 DEF NumOf
  <2> QED
    BY <1>7, <1>9, <2>1
<1>20. NodesOK'
  BY <1>8, <1>19 DEF NetworkInv, NodesOK
<1>21. SignedOK'
  <2>1. ASSUME NEW x \in Tree, NEW i \in 1..Len(x)
        PROVE  i + 1 <= node'[x[i].producer].watermark
    <3>1. x[i].producer \in Producers
      <4>1. x \in Seq(Entry)
        BY <2>1 DEF NetworkInv, TreeOK, BranchOK
      <4>2. x[i] \in Entry
        BY <2>1, <4>1, IsFunction
      <4> QED
        BY <4>2 DEF Entry
    <3>2. i + 1 <= node[x[i].producer].watermark
      BY <2>1 DEF NetworkInv, SignedOK
    <3>3. CASE x[i].producer = p
      <4>1. x \in Seq(Entry) /\ i \in Nat
        BY <2>1 DEF NetworkInv, TreeOK, BranchOK
      <4> QED
        BY <1>1, <1>7, <1>8, <1>9, <1>19, <3>2, <3>3, <4>1
    <3>4. CASE x[i].producer # p
      BY <1>19, <3>1, <3>2, <3>4
    <3> QED
      BY <3>3, <3>4
  <2>2. ASSUME NEW i \in 1..Len(a) PROVE i + 1 <= node'[a[i].producer].watermark
    <3>1. CASE i = l + 1
      BY <1>8, <1>12, <1>13, <1>19, <3>1
    <3>2. CASE i # l + 1
      <4>1. i \in 1..Len(b) /\ a[i] = b[i]
        BY <1>3, <1>8, <1>13, <3>2
      <4> QED
        BY <2>1, <4>1
    <3> QED
      BY <3>1, <3>2
  <2> QED
    BY <1>17, <2>1, <2>2 DEF SignedOK
<1>22. \A x \in Tree : Distinct(a, x) /\ Distinct(x, a)
  <2>1. ASSUME NEW x \in Tree PROVE Distinct(a, x)
    <3>1. x \in Seq(Entry) /\ Distinct(b, x)
      BY <2>1 DEF NetworkInv, TreeOK, BranchOK, ConfirmedOnce
    <3>2. \A j \in 1..Len(x) : x[j].producer = p => j + 1 < Len(b) + 2 - c
      BY <1>3, <1>14, <2>1
    <3> QED
      BY <1>5, <1>6, <1>8, <1>11, <3>1, <3>2, DistinctExtends
  <2> QED
    BY <2>1, DistinctSymmetric
<1>23. Distinct(a, a)
  <2>1. Distinct(b, b)
    BY DEF NetworkInv, ConfirmedOnce
  <2> QED
    BY <1>5, <1>6, <1>8, <1>11, <1>15, <2>1, DistinctFromItself
<1>24. ConfirmedOnce'
  <2>1. \A x, y \in Tree : Distinct(x, y)
    BY DEF NetworkInv, ConfirmedOnce
  <2>2. \A x, y \in Tree \cup {a} : Distinct(x, y)
    BY <1>22, <1>23, <2>1
  <2> QED
    BY <1>17, <2>2 DEF ConfirmedOnce
<1> QED
  BY <1>18, <1>20, <1>21, <1>24 DEF NetworkInv

\* It stays in order.
LEMMA NetworkHolds == Spec => []NetworkInv
<1>1. ASSUME NetworkInv, Next PROVE NetworkInv'
  BY <1>1, ProduceKeeps DEF Next
<1>2. ASSUME NetworkInv, UNCHANGED dnVars PROVE NetworkInv'
  <2>1. hs' = hs /\ node' = node
    BY <1>2 DEF dnVars
  <2>2. Tree' = Tree
    BY <2>1 DEF Tree
  <2> QED
    BY <1>2, <2>1, <2>2 DEF NetworkInv, TreeOK, NodesOK, SignedOK, ConfirmedOnce
<1> QED
  BY <1>1, <1>2, NetworkInit, PTL DEF Spec

(***************************************************************************)
(* No producer signs two blocks of one number or confirms one number with  *)
(* two blocks, whatever branches its node follows: start_block confirms    *)
(* only what is after the watermark, and all that a producer has signed,   *)
(* on any branch, is up to it.                                             *)
(***************************************************************************)
THEOREM ProducersConfirmOnce == Spec => []NoDoubleConfirm
<1>1. ASSUME NetworkInv PROVE NoDoubleConfirm
  <2>1. SUFFICES ASSUME NEW p \in Producers, NEW a \in SignedBy(p), NEW b \in SignedBy(p),
                        NEW n, n \in Confirms(a), n \in Confirms(b)
                 PROVE  a = b
    BY DEF NoDoubleConfirm
  <2>2. /\ a \in Tree /\ b \in Tree /\ a \in Seq(Entry) /\ b \in Seq(Entry)
        /\ a # <<>> /\ b # <<>>
    BY <1>1 DEF SignedBy, NetworkInv, TreeOK, BranchOK
  <2>3. PICK i : i = Len(a)
    OBVIOUS
  <2>4. PICK j : j = Len(b)
    OBVIOUS
  <2>5. i \in Nat /\ i # 0 /\ j \in Nat /\ j # 0 /\ a[i] \in Entry /\ b[j] \in Entry
    BY <2>2, <2>3, <2>4
  <2>6. a[i].producer = p /\ b[j].producer = p
    BY <2>3, <2>4 DEF SignedBy, Last
  <2>7. n \in Int /\ ConfirmsAt(a, i, n) /\ ConfirmsAt(b, j, n)
    BY <2>1, <2>3, <2>4, <2>5 DEF Confirms, ConfirmsAt, NumOf, Last, Entry
  <2>8. i = j /\ \A k \in 1..i : a[k] = b[k]
    <3>1. Distinct(a, b)
      BY <1>1, <2>2 DEF NetworkInv, ConfirmedOnce
    <3>2. i \in 1..Len(a) /\ j \in 1..Len(b)
      BY <2>3, <2>4, <2>5
    <3> QED
      BY <2>6, <2>7, <3>1, <3>2 DEF Distinct
  <2>9. a \in [1..i -> Entry] /\ b \in [1..i -> Entry]
    BY <2>2, <2>3, <2>4, <2>8, IsFunction
  <2>10. a = [k \in 1..i |-> a[k]] /\ b = [k \in 1..i |-> b[k]]
    BY <2>9
  <2>11. [k \in 1..i |-> a[k]] = [k \in 1..i |-> b[k]]
    BY <2>8
  <2> QED
    BY <2>10, <2>11, Zenon
<1> QED
  BY <1>1, NetworkHolds, PTL

\* Two branches on which a number has a quorum are one up to that number.
LEMMA QuorumsAgree ==
  ASSUME NetworkInv, NEW a \in Tree, NEW b \in Tree, NEW n, Backed(a, n), Backed(b, n)
  PROVE  SubSeq(a, 1, n - 1) = SubSeq(b, 1, n - 1)
<1>1. CASE n = 0
  <2>1. a \in Seq(Entry) /\ b \in Seq(Entry)
    BY DEF NetworkInv, TreeOK, BranchOK
  <2> QED
    BY <1>1, <2>1
<1>2. CASE n # 0
  <2>1. /\ Quorum(a, n) /\ Quorum(b, n) /\ n \in Nat /\ n >= 1
        /\ a \in Seq(Entry) /\ b \in Seq(Entry) /\ Distinct(a, b)
    BY <1>2 DEF Backed, Quorum, NetworkInv, TreeOK, BranchOK, ConfirmedOnce
  <2>2. PICK A : A = ConfirmersOn(a, n)
    OBVIOUS
  <2>3. PICK B : B = ConfirmersOn(b, n)
    OBVIOUS
  <2>4. A \cap B # {}
    <3>1. /\ A \subseteq Producers /\ B \subseteq Producers
          /\ IsFiniteSet(A) /\ IsFiniteSet(B)
      BY <2>2, <2>3, ConfirmersAre
    <3>2. Cardinality(A \cup B) = Cardinality(A) + Cardinality(B) - Cardinality(A \cap B)
      BY <3>1, FS_Union
    <3>3. A \cup B \in SUBSET Producers
      BY <3>1
    <3>4. Cardinality(A \cup B) <= Cardinality(Producers) /\ IsFiniteSet(A \cup B)
      BY <3>3, ProducersAre, FS_Subset
    <3>5. /\ Cardinality(A) \in Nat /\ Cardinality(B) \in Nat /\ Cardinality(Producers) \in Nat
          /\ Cardinality(A \cup B) \in Nat
      BY <3>1, <3>4, ProducersAre, FS_CardinalityType
    <3>6. Cardinality(A) >= Needed /\ Cardinality(B) >= Needed
      BY <2>1, <2>2, <2>3 DEF Quorum
    <3>7. ASSUME A \cap B = {} PROVE FALSE
      <4>1. Cardinality(A \cap B) = 0
        BY <3>7, FS_EmptySet
      <4> QED
        BY <3>2, <3>4, <3>5, <3>6, <4>1, NeededIs
    <3> QED
      BY <3>7
  <2>5. PICK p : p \in A /\ p \in B
    BY <2>4
  <2>6. PICK i \in 1..Len(a) : a[i].producer = p /\ ConfirmsAt(a, i, n)
    BY <2>2, <2>5 DEF ConfirmersOn
  <2>7. PICK j \in 1..Len(b) : b[j].producer = p /\ ConfirmsAt(b, j, n)
    BY <2>3, <2>5 DEF ConfirmersOn
  <2>8. i = j /\ \A k \in 1..i : a[k] = b[k]
    BY <2>1, <2>6, <2>7 DEF Distinct
  <2>9. PICK m : m = n - 1
    OBVIOUS
  <2>10. m \in Nat /\ m <= i /\ i \in Nat /\ i <= Len(a) /\ i <= Len(b) /\ Len(a) \in Nat /\ Len(b) \in Nat
    BY <2>1, <2>6, <2>7, <2>8, <2>9 DEF ConfirmsAt
  <2>11. SubSeq(a, 1, m) = SubSeq(b, 1, m)
    <3>1. \A k \in 1..m : a[k] = b[k]
      BY <2>8, <2>10
    <3> QED
      BY <2>1, <2>10, <3>1
  <2> QED
    BY <2>9, <2>11
<1> QED
  BY <1>1, <1>2

(***************************************************************************)
(* At most one block of a number is ever proposed as irreversible or made  *)
(* irreversible, on whichever branches: it takes the confirmations of more *)
(* than two thirds of the producers, two such sets have a producer in      *)
(* common, and that one confirmed the number with one block.               *)
(***************************************************************************)
THEOREM IrreversiblePerNumber == Spec => []OneBlockPerNumber
<1>1. ASSUME NetworkInv PROVE OneBlockPerNumber
  <2>1. \A b \in Tree : Backed(b, hs[b].dpos_proposed) /\ Backed(b, hs[b].dpos_irreversible)
    BY <1>1 DEF NetworkInv, TreeOK, BranchOK, BackedOK
  <2>2. ASSUME NEW a \in Tree, NEW b \in Tree, hs[a].dpos_proposed = hs[b].dpos_proposed
        PROVE  Proposal(a) = Proposal(b)
    BY <1>1, <2>1, <2>2, QuorumsAgree DEF Proposal
  <2>3. ASSUME NEW a \in Tree, NEW b \in Tree, hs[a].dpos_irreversible = hs[b].dpos_irreversible
        PROVE  Final(a) = Final(b)
    BY <1>1, <2>1, <2>3, QuorumsAgree DEF Final
  <2> QED
    BY <2>2, <2>3 DEF OneBlockPerNumber
<1> QED
  BY <1>1, NetworkHolds, PTL
=============================================================================
