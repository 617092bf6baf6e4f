----------------------- MODULE BlockHeaderStateProofs -----------------------
(***************************************************************************)
(* What a block does to a header state, for any schedules: the counts stay *)
(* those of the last blocks, the block proposed as irreversible advances,  *)
(* and the irreversible one stays behind it.                               *)
(***************************************************************************)
EXTENDS BlockHeaderState, FiniteSetTheorems, TLAPS

(***************************************************************************)
(* Numbers and cardinalities.                                              *)
(***************************************************************************)
\* A set of numbers has a smallest one.
LEMMA LeastNumber ==
  ASSUME NEW S \in SUBSET Nat, S # {}
  PROVE  \E n \in S : \A m \in S : n <= m
<1>1. DEFINE C == {0..n : n \in S}
<1>2. C \subseteq FiniteSubsetsOf(Nat) /\ C # {}
  <2>1. ASSUME NEW n \in S PROVE 0..n \in FiniteSubsetsOf(Nat)
    BY FS_Interval DEF FiniteSubsetsOf
  <2> QED
    BY <2>1
<1>3. PICK T \in C : \A U \in C : <<U, T>> \notin StrictSubsetOrdering(Nat)
  <2>1. IsWellFoundedOn(StrictSubsetOrdering(Nat), FiniteSubsetsOf(Nat))
    BY FS_StrictSubsetOrderingWellFounded
  <2> HIDE DEF C
  <2> QED
    BY <2>1, <1>2, WFMin
<1>4. PICK n \in S : T = 0..n
  OBVIOUS
<1>5. ASSUME NEW m \in S, m < n PROVE FALSE
  <2>1. 0..m \in C /\ 0..m \in SUBSET Nat /\ 0..n \in SUBSET Nat
    OBVIOUS
  <2>2. 0..m \subseteq 0..n /\ 0..m # 0..n
    BY <1>5
  <2>3. <<0..m, 0..n>> \in StrictSubsetOrdering(Nat)
    BY <2>1, <2>2 DEF StrictSubsetOrdering
  <2> QED
    BY <1>3, <1>4, <2>1, <2>3
<1> QED
  BY <1>5

\* A bounded set of numbers has a largest one.
LEMMA MaxOfBounded ==
  ASSUME NEW S \in SUBSET Nat, S # {}, NEW bound \in Nat, \A x \in S : x <= bound
  PROVE  Max(S) \in S /\ \A x \in S : Max(S) >= x
<1>1. DEFINE D == {bound - x : x \in S}
<1>2. D \in SUBSET Nat /\ D # {}
  <2>1. \A x \in S : bound - x \in Nat
    OBVIOUS
  <2> QED
    BY <2>1
<1>3. PICK d \in D : \A e \in D : d <= e
  <2> HIDE DEF D
  <2> QED
    BY <1>2, LeastNumber
<1>4. PICK x \in S : d = bound - x
  OBVIOUS
<1>5. ASSUME NEW y \in S PROVE x >= y
  <2>1. bound - x <= bound - y
    BY <1>3, <1>4
  <2> QED
    BY <2>1
<1> QED
  BY <1>4, <1>5 DEF Max

\* The larger of two numbers.
LEMMA MaxOfTwo ==
  ASSUME NEW a \in Int, NEW b \in Int, a <= b
  PROVE  Max({a, b}) = b
  BY DEF Max

\* The smaller of two numbers.
LEMMA MinOfTwo ==
  ASSUME NEW a \in Int, NEW b \in Int
  PROVE  Min({a, b}) \in Int /\ Min({a, b}) <= a /\ Min({a, b}) <= b
         /\ (Min({a, b}) = a \/ Min({a, b}) = b)
<1>1. CASE a <= b
  <2>1. a \in {a, b} /\ \A y \in {a, b} : a <= y
    BY <1>1
  <2>2. Min({a, b}) \in {a, b} /\ \A y \in {a, b} : Min({a, b}) <= y
    BY <2>1 DEF Min
  <2> QED
    BY <2>2
<1>2. CASE b <= a
  <2>1. b \in {a, b} /\ \A y \in {a, b} : b <= y
    BY <1>2
  <2>2. Min({a, b}) \in {a, b} /\ \A y \in {a, b} : Min({a, b}) <= y
    BY <2>1 DEF Min
  <2> QED
    BY <2>2
<1> QED
  BY <1>1, <1>2

\* std::nth_element: there is a value with at most i smaller ones and more than i
\* that are not greater.
LEMMA NthValueIs ==
  ASSUME NEW m, IsFiniteSet(DOMAIN m), NEW bound \in Nat,
         \A p \in DOMAIN m : m[p] \in 0..bound,
         NEW i \in Nat, i < Cardinality(DOMAIN m)
  PROVE  /\ \E p \in DOMAIN m : NthValue(m, i) = m[p]
         /\ Cardinality({p \in DOMAIN m : m[p] < NthValue(m, i)}) <= i
         /\ i < Cardinality({p \in DOMAIN m : m[p] <= NthValue(m, i)})
<1> DEFINE Below(v) == Cardinality({p \in DOMAIN m : m[p] < v})
           UpTo(v) == Cardinality({p \in DOMAIN m : m[p] <= v})
           C == {v \in Nat : i < UpTo(v)}
<1>1. \A v : Below(v) \in Nat /\ UpTo(v) \in Nat
  <2>1. ASSUME NEW v PROVE Below(v) \in Nat /\ UpTo(v) \in Nat
    <3>1. /\ IsFiniteSet({p \in DOMAIN m : m[p] < v})
          /\ IsFiniteSet({p \in DOMAIN m : m[p] <= v})
      BY FS_Subset
    <3> QED
      BY <3>1, FS_CardinalityType
  <2> QED
    BY <2>1
<1>2. bound \in C
  <2>1. {p \in DOMAIN m : m[p] <= bound} = DOMAIN m
    OBVIOUS
  <2> QED
    BY <2>1
<1>3. PICK v \in C : \A w \in C : v <= w
  <2> HIDE DEF C
  <2>1. C \in SUBSET Nat
    BY DEF C
  <2> QED
    BY <1>2, <2>1, LeastNumber
<1>4. v \in Nat /\ i < UpTo(v)
  OBVIOUS
<1>5. Below(v) <= i
  <2>1. CASE v = 0
    <3>1. {p \in DOMAIN m : m[p] < v} = {}
      BY <2>1
    <3> QED
      BY <3>1, FS_EmptySet
  <2>2. CASE v # 0
    <3>1. v - 1 \in Nat /\ v - 1 \notin C
      BY <1>3, <1>4, <2>2
    <3>2. UpTo(v - 1) <= i
      <4>1. UpTo(v - 1) \in Nat
        BY <1>1
      <4>2. ~ (i < UpTo(v - 1))
        BY <3>1
      <4> QED
        BY <4>1, <4>2
    <3>3. {p \in DOMAIN m : m[p] < v} = {p \in DOMAIN m : m[p] <= v - 1}
      BY <1>4
    <3> QED
      BY <3>2, <3>3
  <2> QED
    BY <2>1, <2>2
<1>6. \E p \in DOMAIN m : v = m[p]
  <2>1. SUFFICES ASSUME \A p \in DOMAIN m : v # m[p] PROVE FALSE
    OBVIOUS
  <2>2. {p \in DOMAIN m : m[p] < v} = {p \in DOMAIN m : m[p] <= v}
    BY <1>4, <2>1
  <2> QED
    BY <1>1, <1>4, <1>5, <2>2
<1>7. \E w \in {m[p] : p \in DOMAIN m} : Below(w) <= i /\ i < UpTo(w)
  BY <1>4, <1>5, <1>6
<1>8. PICK w : w = NthValue(m, i)
  OBVIOUS
<1>9. w \in {m[p] : p \in DOMAIN m} /\ Below(w) <= i /\ i < UpTo(w)
  BY <1>7, <1>8 DEF NthValue
<1> QED
  BY <1>8, <1>9

-----------------------------------------------------------------------------
(***************************************************************************)
(* A header state.                                                         *)
(***************************************************************************)
MaxConfs == Cardinality(AllProducers) + 1

\* The blocks whose confirmations are counted are the last ones, and come after
\* the one proposed as irreversible.
CountsOK(h) ==
  /\ h.block_num \in Nat \ {0}
  /\ h.dpos_proposed \in Nat
  /\ h.confirm_count \in Seq(1..MaxConfs)
  /\ h.dpos_proposed + Len(h.confirm_count) <= h.block_num

\* What producers imply is not past what is proposed.
IrreversibleOK(h) ==
  /\ h.dpos_irreversible \in 0..h.dpos_proposed
  /\ DOMAIN h.implied \in SUBSET AllProducers
  /\ \A p \in DOMAIN h.implied : h.implied[p] \in 0..h.dpos_proposed
  /\ DOMAIN h.produced \in SUBSET AllProducers
  /\ \A p \in DOMAIN h.produced : h.produced[p] \in 0..h.block_num

SchedulesOK(h) ==
  /\ h.active.producers \in Schedules /\ h.active.version \in Nat
  /\ h.pending.producers \in Schedules \cup {<<>>} /\ h.pending.version \in Nat
  /\ h.pending = [lib_num |-> h.pending.lib_num, version |-> h.pending.version,
                  producers |-> h.pending.producers]

StateOK(h) == CountsOK(h) /\ IrreversibleOK(h) /\ SchedulesOK(h)

\* A schedule as a header carries it.
CarriedOK(new) ==
  new = <<>> \/ (new # <<>> /\ new[1].producers \in Schedules /\ new[1].version \in Nat)

\* A schedule has no more producers than there are.
LEMMA ScheduleLength ==
  ASSUME NEW s \in Schedules
  PROVE  Len(s) \in Nat /\ Len(s) <= Cardinality(AllProducers)
<1>1. s \in Seq(AllProducers) /\ \A i, j \in 1..Len(s) : s[i] = s[j] => i = j
  BY SchedulesAssumption
<1>2. s \in Injection(1..Len(s), AllProducers) /\ Len(s) \in Nat
  <2>1. s \in [1..Len(s) -> AllProducers] /\ Len(s) \in Nat
    BY <1>1
  <2> QED
    BY <1>1, <2>1 DEF Injection, IsInjective
<1>3. Cardinality(1..Len(s)) <= Cardinality(AllProducers)
  <2>1. IsFiniteSet(AllProducers)
    BY SchedulesAssumption
  <2> QED
    BY <1>2, <2>1, FS_Injection
<1>4. Cardinality(1..Len(s)) = Len(s)
  <2>1. 1 \in Int /\ Len(s) \in Int
    BY <1>2
  <2>2. Cardinality(1..Len(s)) = IF 1 > Len(s) THEN 0 ELSE Len(s) - 1 + 1
    BY <2>1, FS_Interval
  <2> QED
    BY <1>2, <2>2
<1> QED
  BY <1>2, <1>3, <1>4

\* The confirmations a block needs are at least one.
LEMMA RequiredIs ==
  ASSUME NEW h, SchedulesOK(h)
  PROVE  RequiredConfs(h.active) \in 1..MaxConfs
<1>1. PICK n : n = Len(h.active.producers)
  OBVIOUS
<1>2. n \in Nat /\ n <= Cardinality(AllProducers) /\ Cardinality(AllProducers) \in Nat
  <2>1. IsFiniteSet(AllProducers) /\ h.active.producers \in Schedules
    BY SchedulesAssumption DEF SchedulesOK
  <2>2. Cardinality(AllProducers) \in Nat
    BY <2>1, FS_CardinalityType
  <2> QED
    BY <1>1, <2>1, <2>2, ScheduleLength
<1>3. (n * 2) \div 3 \in Nat /\ (n * 2) \div 3 <= n
  BY <1>2
<1>4. RequiredConfs(h.active) = (n * 2) \div 3 + 1
  BY <1>1 DEF RequiredConfs
<1>5. PICK q : q = (n * 2) \div 3
  OBVIOUS
<1>6. PICK k : k = Cardinality(AllProducers)
  OBVIOUS
<1>7. q + 1 \in 1..(k + 1)
  BY <1>2, <1>3, <1>5, <1>6
<1> QED
  BY <1>4, <1>5, <1>6, <1>7 DEF MaxConfs

\* calc_dpos_last_irreversible is one of the numbers it looks at, if any.
LEMMA CalcAmong ==
  ASSUME NEW h, CountsOK(h), IrreversibleOK(h), NEW p
  PROVE  \/ calc_dpos_last_irreversible(h, p) = 0
         \/ calc_dpos_last_irreversible(h, p) = h.dpos_proposed
         \/ \E q \in DOMAIN h.implied : calc_dpos_last_irreversible(h, p) = h.implied[q]
<1> DEFINE m == [q \in DOMAIN h.implied |-> IF q = p THEN h.dpos_proposed ELSE h.implied[q]]
           i == (Cardinality(DOMAIN m) - 1) \div 3
<1>1. /\ DOMAIN m = DOMAIN h.implied /\ h.dpos_proposed \in Nat
      /\ \A q \in DOMAIN m : m[q] \in 0..h.dpos_proposed
      /\ \A q \in DOMAIN m : m[q] = h.dpos_proposed \/ m[q] = h.implied[q]
  BY DEF CountsOK, IrreversibleOK
<1>2. IsFiniteSet(DOMAIN m)
  BY <1>1, FS_Subset, SchedulesAssumption DEF IrreversibleOK
<1>3. CASE DOMAIN m = {}
  BY <1>1, <1>3 DEF calc_dpos_last_irreversible
<1>4. CASE DOMAIN m # {}
  <2>1. calc_dpos_last_irreversible(h, p) = NthValue(m, i)
    BY <1>4 DEF calc_dpos_last_irreversible
  <2>2. PICK k : k = Cardinality(DOMAIN m)
    OBVIOUS
  <2>3. k \in Nat /\ k # 0
    BY <1>2, <1>4, <2>2, FS_CardinalityType, FS_EmptySet
  <2>4. (k - 1) \div 3 \in Nat /\ (k - 1) \div 3 < k
    BY <2>3
  <2>5. i \in Nat /\ i < Cardinality(DOMAIN m)
    BY <2>2, <2>4
  <2> HIDE DEF m, i
  <2>6. \E q \in DOMAIN m : NthValue(m, i) = m[q]
    BY <1>1, <1>2, <2>5, NthValueIs
  <2> QED
    BY <1>1, <2>1, <2>6
<1> QED
  BY <1>3, <1>4

\* calc_dpos_last_irreversible never passes the block proposed by the parent.
LEMMA CalcIs ==
  ASSUME NEW h, CountsOK(h), IrreversibleOK(h), NEW p
  PROVE  calc_dpos_last_irreversible(h, p) \in 0..h.dpos_proposed
  BY CalcAmong DEF CountsOK, IrreversibleOK

\* Append, entry by entry.
LEMMA Appended ==
  ASSUME NEW S, NEW s \in Seq(S), NEW r \in S
  PROVE  /\ Append(s, r) \in Seq(S) /\ Len(Append(s, r)) = Len(s) + 1
         /\ Append(s, r)[Len(s) + 1] = r
         /\ \A j \in 1..Len(s) : Append(s, r)[j] = s[j]
  OBVIOUS

\* The counts with the new block: those of the parent, the oldest dropped when
\* there are MaxTracked, and what the new block needs.
LEMMA GrownIs ==
  ASSUME NEW h, CountsOK(h), SchedulesOK(h)
  PROVE  /\ Grown(h) \in Seq(1..MaxConfs)
         /\ Len(Grown(h)) \in 1..(Len(h.confirm_count) + 1)
         /\ Grown(h)[Len(Grown(h))] = RequiredConfs(h.active)
         /\ \A j \in 1..(Len(Grown(h)) - 1) :
              /\ j + Len(h.confirm_count) + 1 - Len(Grown(h)) \in 1..Len(h.confirm_count)
              /\ Grown(h)[j] = h.confirm_count[j + Len(h.confirm_count) + 1 - Len(Grown(h))]
<1>1. PICK s : s = h.confirm_count
  OBVIOUS
<1>2. PICK r : r = RequiredConfs(h.active)
  OBVIOUS
<1>3. s \in Seq(1..MaxConfs) /\ r \in 1..MaxConfs
  BY <1>1, <1>2, RequiredIs DEF CountsOK
<1>4. CASE Len(s) < MaxTracked
  <2>1. Grown(h) = Append(s, r)
    BY <1>1, <1>2, <1>4 DEF Grown
  <2>2. /\ Append(s, r) \in Seq(1..MaxConfs) /\ Len(Append(s, r)) = Len(s) + 1
        /\ Append(s, r)[Len(s) + 1] = r
        /\ \A j \in 1..Len(s) : Append(s, r)[j] = s[j]
    BY <1>3, Appended
  <2>3. Len(s) \in Nat
    BY <1>3
  <2>4. \A j \in 1..(Len(Grown(h)) - 1) :
          /\ j + Len(s) + 1 - Len(Grown(h)) = j
          /\ j \in 1..Len(s)
    BY <2>1, <2>2, <2>3
  <2> QED
    BY <1>1, <1>2, <2>1, <2>2, <2>3, <2>4
<1>5. CASE ~ (Len(s) < MaxTracked)
  <2>1. Grown(h) = Append(Tail(s), r)
    BY <1>1, <1>2, <1>5 DEF Grown
  <2>2. s # <<>> /\ Len(s) \in Nat \ {0}
    BY <1>3, <1>5, MaxTrackedAssumption
  <2>3. /\ Tail(s) \in Seq(1..MaxConfs) /\ Len(Tail(s)) = Len(s) - 1
        /\ \A j \in 1..(Len(s) - 1) : Tail(s)[j] = s[j + 1]
    BY <1>3, <2>2
  <2>4. PICK t : t = Tail(s)
    OBVIOUS
  <2>5. /\ Append(t, r) \in Seq(1..MaxConfs) /\ Len(Append(t, r)) = Len(t) + 1
        /\ Append(t, r)[Len(t) + 1] = r
        /\ \A j \in 1..Len(t) : Append(t, r)[j] = t[j]
    BY <1>3, <2>3, <2>4, Appended
  <2>6. PICK n : n = Len(s)
    OBVIOUS
  <2>7. n \in Nat \ {0} /\ Len(t) = n - 1 /\ Len(Grown(h)) = n
    BY <2>1, <2>2, <2>3, <2>4, <2>5, <2>6
  <2>8. \A j \in 1..(n - 1) :
          /\ j + n + 1 - n = j + 1
          /\ j + 1 \in 1..n
    BY <2>7
  <2>9. \A j \in 1..(n - 1) : Grown(h)[j] = s[j + 1]
    BY <2>1, <2>3, <2>4, <2>5, <2>6, <2>7
  <2>10. Grown(h)[n] = r /\ n \in 1..(n + 1)
    BY <2>1, <2>4, <2>5, <2>7
  <2>11. Grown(h) \in Seq(1..MaxConfs)
    BY <2>1, <2>4, <2>5
  <2> QED
    BY <1>1, <1>2, <2>6, <2>7, <2>8, <2>9, <2>10, <2>11
<1> QED
  BY <1>4, <1>5

\* How many of the oldest counts go: all up to the last one that reached zero.
Cut(h, c) == IF Reached(h, c) = {} THEN 0 ELSE Max(Reached(h, c))

\* The cut is the last count that reaches zero.
LEMMA CutIs ==
  ASSUME NEW h, CountsOK(h), SchedulesOK(h), NEW c \in Nat
  PROVE  /\ Cut(h, c) \in 0..Len(Grown(h))
         /\ Cut(h, c) # 0 => /\ Grown(h)[Cut(h, c)] = 1
                             /\ Cut(h, c) >= Len(Grown(h)) - c
         /\ \A j \in 1..Len(Grown(h)) :
              j > Cut(h, c) /\ j >= Len(Grown(h)) - c => Grown(h)[j] # 1
<1>1. PICK R : R = Reached(h, c)
  OBVIOUS
<1>2. PICK n : n = Len(Grown(h))
  OBVIOUS
<1>3. n \in Nat /\ Grown(h) \in Seq(1..MaxConfs)
  BY <1>2, GrownIs
<1>4. R = {j \in 1..n : j >= n - c /\ Grown(h)[j] = 1}
  BY <1>1, <1>2 DEF Reached, Confirmed
<1>5. CASE R = {}
  BY <1>1, <1>2, <1>3, <1>4, <1>5 DEF Cut
<1>6. CASE R # {}
  <2>1. Max(R) \in R /\ \A x \in R : Max(R) >= x
    <3>1. R \in SUBSET Nat /\ n \in Nat /\ \A x \in R : x <= n
      BY <1>3, <1>4
    <3> QED
      BY <3>1, <1>6, MaxOfBounded
  <2>2. Cut(h, c) = Max(R)
    BY <1>1, <1>6 DEF Cut
  <2>3. PICK m : m = Max(R)
    OBVIOUS
  <2>4. m \in 1..n /\ m >= n - c /\ Grown(h)[m] = 1 /\ \A x \in R : m >= x
    BY <1>4, <2>1, <2>3
  <2>5. \A j \in 1..n : j > m /\ j >= n - c => Grown(h)[j] # 1
    <3>1. ASSUME NEW j \in 1..n, j > m, j >= n - c, Grown(h)[j] = 1 PROVE FALSE
      <4>1. j \in R
        BY <1>4, <3>1
      <4>2. m >= j /\ m \in Nat /\ j \in Nat
        BY <1>3, <2>4, <4>1
      <4> QED
        BY <3>1, <4>2
    <3> QED
      BY <3>1
  <2>6. m \in 0..n
    BY <1>3, <2>4
  <2> QED
    BY <1>2, <2>2, <2>3, <2>4, <2>5, <2>6
<1> QED
  BY <1>5, <1>6

\* A sequence is a function on 1..n.
LEMMA IsFunction ==
  ASSUME NEW S, NEW s \in Seq(S)
  PROVE  Len(s) \in Nat /\ s \in [1..Len(s) -> S]
  OBVIOUS

\* A function on 1..n is a sequence of length n.
LEMMA IsSequence ==
  ASSUME NEW S, NEW n \in Nat, NEW f \in [1..n -> S]
  PROVE  f \in Seq(S) /\ Len(f) = n
  OBVIOUS

\* The counts after the block: the ones above the cut, those of the blocks it
\* confirms counted down.
LEMMA CountsAfter ==
  ASSUME NEW h, CountsOK(h), SchedulesOK(h), NEW c \in Nat
  PROVE  /\ NextConfirmCount(h, c) \in Seq(1..MaxConfs)
         /\ Len(NextConfirmCount(h, c)) = Len(Grown(h)) - Cut(h, c)
         /\ \A i \in 1..(Len(Grown(h)) - Cut(h, c)) :
              /\ Cut(h, c) + i \in 1..Len(Grown(h))
              /\ NextConfirmCount(h, c)[i] =
                   IF Cut(h, c) + i >= Len(Grown(h)) - c
                     THEN Grown(h)[Cut(h, c) + i] - 1 ELSE Grown(h)[Cut(h, c) + i]
<1>1. PICK g : g = Grown(h)
  OBVIOUS
<1>2. PICK L : L = Len(Grown(h))
  OBVIOUS
<1>3. PICK m : m = Cut(h, c)
  OBVIOUS
<1>4. L \in Nat /\ g \in Seq(1..MaxConfs) /\ g \in [1..L -> 1..MaxConfs]
  <2>1. g \in Seq(1..MaxConfs) /\ L = Len(g)
    BY <1>1, <1>2, GrownIs
  <2> QED
    BY <2>1, IsFunction
<1>5. /\ m \in 0..L
      /\ m # 0 => m >= L - c
      /\ \A j \in 1..L : j > m /\ j >= L - c => g[j] # 1
  BY <1>1, <1>2, <1>3, CutIs
<1>6. \A i \in 1..(L - m) : m + i \in 1..L /\ m + i > m
  BY <1>4, <1>5
<1>7. DEFINE f == [i \in 1..(L - m) |-> IF m + i >= L - c THEN g[m + i] - 1 ELSE g[m + i]]
<1>8. NextConfirmCount(h, c) = f
  <2>1. CASE Reached(h, c) = {}
    <3>1. m = 0
      BY <1>3, <2>1 DEF Cut
    <3>2. NextConfirmCount(h, c) =
            [i \in 1..L |-> IF i \in Confirmed(h, c) THEN g[i] - 1 ELSE g[i]]
      BY <1>1, <1>2, <2>1 DEF NextConfirmCount
    <3>3. \A i \in 1..L : i \in Confirmed(h, c) <=> i >= L - c
      BY <1>2 DEF Confirmed
    <3>4. f = [i \in 1..L |-> IF i >= L - c THEN g[i] - 1 ELSE g[i]]
      BY <1>4, <3>1
    <3> QED
      BY <3>2, <3>3, <3>4
  <2>2. CASE Reached(h, c) # {}
    <3>1. m = Max(Reached(h, c))
      BY <1>3, <2>2 DEF Cut
    <3>2. NextConfirmCount(h, c) = [i \in 1..(L - m) |-> g[m + i] - 1]
      BY <1>1, <1>2, <2>2, <3>1 DEF NextConfirmCount
    <3>3. m # 0
      <4>1. Reached(h, c) \in SUBSET (1..L)
        BY <1>2 DEF Reached, Confirmed
      <4>2. Reached(h, c) \in SUBSET Nat /\ \A x \in Reached(h, c) : x <= L
        BY <4>1, <1>4
      <4>3. m \in Reached(h, c)
        BY <4>2, <1>4, <2>2, <3>1, MaxOfBounded
      <4> QED
        BY <4>1, <4>3, <1>4
    <3>4. \A i \in 1..(L - m) : m + i >= L - c
      BY <1>4, <1>5, <3>3
    <3> QED
      BY <3>2, <3>4
  <2> QED
    BY <2>1, <2>2
<1>9. MaxConfs \in Nat
  <2>1. Cardinality(AllProducers) \in Nat
    BY FS_CardinalityType, SchedulesAssumption
  <2> QED
    BY <2>1 DEF MaxConfs
<1>10. ASSUME NEW i \in 1..(L - m) PROVE f[i] \in 1..MaxConfs
  <2>1. m + i \in 1..L /\ m + i > m
    BY <1>6
  <2>2. g[m + i] \in 1..MaxConfs
    BY <2>1, <1>4
  <2>3. CASE m + i >= L - c
    <3>1. g[m + i] # 1
      BY <1>5, <2>1, <2>3
    <3>2. g[m + i] - 1 \in 1..MaxConfs
      BY <1>9, <2>2, <3>1
    <3> QED
      BY <2>3, <3>2
  <2>4. CASE ~ (m + i >= L - c)
    BY <2>2, <2>4
  <2> QED
    BY <2>3, <2>4
<1>11. f \in [1..(L - m) -> 1..MaxConfs] /\ L - m \in Nat
  BY <1>4, <1>5, <1>10
<1>12. f \in Seq(1..MaxConfs) /\ Len(f) = L - m
  <2> HIDE DEF f
  <2> QED
    BY <1>11, IsSequence
<1> QED
  BY <1>1, <1>2, <1>3, <1>6, <1>8, <1>12

\* The block proposed as irreversible advances, and stays behind the counted ones.
LEMMA ProposedAfter ==
  ASSUME NEW h, CountsOK(h), SchedulesOK(h), NEW c \in Nat
  PROVE  /\ NextProposed(h, c) \in Nat /\ h.dpos_proposed <= NextProposed(h, c)
         /\ NextProposed(h, c) + Len(NextConfirmCount(h, c)) <= h.block_num + 1
         /\ NextProposed(h, c) = IF Cut(h, c) = 0 THEN h.dpos_proposed
                                 ELSE h.block_num + 1 - (Len(Grown(h)) - Cut(h, c))
<1>1. PICK L : L = Len(Grown(h))
  OBVIOUS
<1>2. PICK m : m = Cut(h, c)
  OBVIOUS
<1>3. PICK k : k = Len(h.confirm_count)
  OBVIOUS
<1>4. PICK n : n = h.block_num
  OBVIOUS
<1>5. PICK d : d = h.dpos_proposed
  OBVIOUS
<1>6. k \in Nat /\ n \in Nat /\ d \in Nat /\ d + k <= n
  BY <1>3, <1>4, <1>5 DEF CountsOK
<1>7. L \in 1..(k + 1) /\ m \in 0..L /\ Len(NextConfirmCount(h, c)) = L - m
  BY <1>1, <1>2, <1>3, GrownIs, CutIs, CountsAfter
<1>8. NextProposed(h, c) = IF m = 0 THEN d ELSE n + 1 - (L - m)
  <2>1. CASE Reached(h, c) = {}
    BY <1>1, <1>2, <1>4, <1>5, <2>1 DEF Cut, NextProposed
  <2>2. CASE Reached(h, c) # {}
    <3>1. m = Max(Reached(h, c))
      BY <1>2, <2>2 DEF Cut
    <3>2. Reached(h, c) \in SUBSET (1..L)
      BY <1>1 DEF Reached, Confirmed
    <3>3. L \in Nat /\ Reached(h, c) \in SUBSET Nat /\ \A x \in Reached(h, c) : x <= L
      BY <1>6, <1>7, <3>2
    <3>4. m \in 1..L
      BY <2>2, <3>1, <3>2, <3>3, MaxOfBounded
    <3> QED
      BY <1>1, <1>4, <2>2, <3>1, <3>4, <3>3 DEF NextProposed
  <2> QED
    BY <2>1, <2>2
<1>9. CASE m = 0
  BY <1>1, <1>2, <1>4, <1>5, <1>6, <1>7, <1>8, <1>9
<1>10. CASE m # 0
  <2>1. n + 1 - (L - m) \in Nat /\ d <= n + 1 - (L - m)
    BY <1>6, <1>7, <1>10
  <2>2. n + 1 - (L - m) + (L - m) <= n + 1
    BY <1>6, <1>7
  <2> QED
    BY <1>1, <1>2, <1>4, <1>5, <1>7, <1>8, <1>10, <2>1, <2>2
<1> QED
  BY <1>9, <1>10

\* Producers of a schedule are producers.
LEMMA ScheduledAre ==
  ASSUME NEW x, x.producers \in Schedules \cup {<<>>}
  PROVE  ProducersOf(x) \in SUBSET AllProducers
<1>1. CASE x.producers \in Schedules
  BY <1>1 DEF ProducersOf, AllProducers
<1>2. CASE x.producers = <<>>
  BY <1>2 DEF ProducersOf
<1> QED
  BY <1>1, <1>2

\* A block keeps the counts in order.
LEMMA NextCountsOK ==
  ASSUME NEW h, CountsOK(h), SchedulesOK(h), NEW p, NEW c \in Nat, NEW new
  PROVE  CountsOK(next(h, p, c, new))
<1>1. /\ next(h, p, c, new).block_num = h.block_num + 1
      /\ next(h, p, c, new).dpos_proposed = NextProposed(h, c)
      /\ next(h, p, c, new).confirm_count = NextConfirmCount(h, c)
  BY DEF next
<1>2. h.block_num + 1 \in Nat \ {0}
  BY DEF CountsOK
<1> QED
  BY <1>1, <1>2, CountsAfter, ProposedAfter DEF CountsOK

\* A block keeps the maps of producers in range.
LEMMA NextIrreversibleOK ==
  ASSUME NEW h, StateOK(h), NEW p \in AllProducers, NEW c \in Nat, NEW new
  PROVE  IrreversibleOK(next(h, p, c, new))
<1>1. PICK g : g = next(h, p, c, new)
  OBVIOUS
<1>2. PICK num : num = h.block_num + 1
  OBVIOUS
<1>3. PICK irb : irb = calc_dpos_last_irreversible(h, p)
  OBVIOUS
<1>4. PICK d : d = h.dpos_proposed
  OBVIOUS
<1>5. PICK e : e = NextProposed(h, c)
  OBVIOUS
<1>6. CountsOK(h) /\ IrreversibleOK(h) /\ SchedulesOK(h)
  BY DEF StateOK
<1>7. irb \in 0..d /\ d \in Nat /\ e \in Nat /\ d <= e /\ num \in Nat /\ d <= num
      /\ h.block_num \in Nat /\ h.block_num <= num
  <2>1. irb \in 0..d
    BY <1>3, <1>4, <1>6, CalcIs
  <2>2. e \in Nat /\ d <= e
    BY <1>4, <1>5, <1>6, ProposedAfter
  <2>3. d \in Nat /\ h.block_num \in Nat /\ d <= h.block_num
    BY <1>4, <1>6 DEF CountsOK
  <2>4. num \in Nat /\ h.block_num <= num /\ d <= num
    BY <1>2, <2>3
  <2> QED
    BY <2>1, <2>2, <2>3, <2>4
<1>8. ProducersOf(h.pending) \in SUBSET AllProducers
  BY <1>6, ScheduledAre DEF SchedulesOK
<1>9. DEFINE produced == IF Promotes(h, p) THEN Inherit(h.produced, ProducersOf(h.pending), irb)
                                           ELSE h.produced
             implied == IF Promotes(h, p) THEN Inherit(h.implied, ProducersOf(h.pending), irb)
                                          ELSE h.implied
<1>10. /\ g.block_num = num /\ g.dpos_proposed = e /\ g.dpos_irreversible = irb
       /\ g.produced = Put(produced, p, num)
       /\ g.implied = implied \/ g.implied = Put(implied, p, d)
  BY <1>1, <1>2, <1>3, <1>4, <1>5 DEF next
<1>11. /\ DOMAIN produced \in SUBSET AllProducers
       /\ \A q \in DOMAIN produced : produced[q] \in 0..num
  <2>1. CASE Promotes(h, p)
    BY <1>6, <1>7, <1>8, <2>1 DEF IrreversibleOK, Inherit
  <2>2. CASE ~ Promotes(h, p)
    BY <1>6, <1>7, <2>2 DEF IrreversibleOK
  <2> QED
    BY <2>1, <2>2
<1>12. /\ DOMAIN implied \in SUBSET AllProducers
       /\ \A q \in DOMAIN implied : implied[q] \in 0..d
  <2>1. CASE Promotes(h, p)
    BY <1>4, <1>6, <1>7, <1>8, <2>1 DEF IrreversibleOK, Inherit
  <2>2. CASE ~ Promotes(h, p)
    BY <1>4, <1>6, <1>7, <2>2 DEF IrreversibleOK
  <2> QED
    BY <2>1, <2>2
<1> HIDE DEF produced, implied
<1>13. /\ DOMAIN g.produced \in SUBSET AllProducers
       /\ \A q \in DOMAIN g.produced : g.produced[q] \in 0..num
  BY <1>7, <1>10, <1>11 DEF Put
<1>14. /\ DOMAIN g.implied \in SUBSET AllProducers
       /\ \A q \in DOMAIN g.implied : g.implied[q] \in 0..e
  <2>1. \A q \in DOMAIN implied : implied[q] \in 0..e
    BY <1>7, <1>12
  <2>2. d \in 0..e
    BY <1>7
  <2> QED
    BY <1>10, <1>12, <2>1, <2>2 DEF Put
<1>15. irb \in 0..e
  BY <1>7
<1> QED
  BY <1>1, <1>10, <1>13, <1>14, <1>15 DEF IrreversibleOK

\* A block leaves schedules that may be proposed.
LEMMA NextSchedulesOK ==
  ASSUME NEW h, SchedulesOK(h), NEW p, NEW c, NEW new, CarriedOK(new)
  PROVE  /\ SchedulesOK(next(h, p, c, new))
         /\ next(h, p, c, new).active = IF Promotes(h, p) THEN ScheduleOf(h.pending) ELSE h.active
         /\ next(h, p, c, new).pending.producers =
              CASE new # <<>> -> new[1].producers
                [] new = <<>> /\ Promotes(h, p) -> <<>>
                [] OTHER -> h.pending.producers
         /\ next(h, p, c, new).pending.version =
              IF new # <<>> THEN new[1].version ELSE h.pending.version
<1>1. PICK g : g = next(h, p, c, new)
  OBVIOUS
<1>2. g.active = IF Promotes(h, p) THEN ScheduleOf(h.pending) ELSE h.active
  BY <1>1 DEF next, ScheduleOf
<1>3. g.active.producers \in Schedules /\ g.active.version \in Nat
  <2>1. CASE Promotes(h, p)
    BY <1>2, <2>1 DEF SchedulesOK, ScheduleOf, Promotes
  <2>2. CASE ~ Promotes(h, p)
    BY <1>2, <2>2 DEF SchedulesOK
  <2> QED
    BY <2>1, <2>2
<1>4. CASE new # <<>>
  <2>1. g.pending = [lib_num |-> h.block_num + 1, version |-> new[1].version,
                     producers |-> new[1].producers]
    BY <1>1, <1>4 DEF next
  <2> QED
    BY <1>1, <1>2, <1>3, <1>4, <2>1 DEF SchedulesOK, CarriedOK
<1>5. CASE new = <<>> /\ Promotes(h, p)
  <2>1. g.pending = [h.pending EXCEPT !.producers = <<>>]
    BY <1>1, <1>5 DEF next
  <2>2. g.pending = [lib_num |-> h.pending.lib_num, version |-> h.pending.version,
                     producers |-> <<>>]
    BY <2>1 DEF SchedulesOK
  <2>3. h.pending.version \in Nat
    BY DEF SchedulesOK
  <2> QED
    BY <1>1, <1>2, <1>3, <1>5, <2>2, <2>3 DEF SchedulesOK
<1>6. CASE new = <<>> /\ ~ Promotes(h, p)
  <2>1. g.pending = h.pending
    BY <1>1, <1>6 DEF next
  <2> QED
    BY <1>1, <1>2, <1>3, <1>6, <2>1 DEF SchedulesOK
<1> QED
  BY <1>4, <1>5, <1>6

\* A block keeps a header state in order.
LEMMA NextStateOK ==
  ASSUME NEW h, StateOK(h), NEW p \in AllProducers, NEW c \in Nat, NEW new, CarriedOK(new)
  PROVE  StateOK(next(h, p, c, new))
<1>1. CountsOK(h) /\ SchedulesOK(h)
  BY DEF StateOK
<1> QED
  BY <1>1, NextCountsOK, NextIrreversibleOK, NextSchedulesOK DEF StateOK

-----------------------------------------------------------------------------
(***************************************************************************)
(* The irreversible block of a branch, from block to block.  It is the     *)
(* number at one place of the sorted list of what producers imply; an      *)
(* entry of the list only grows, so the number can only fall when a new    *)
(* schedule makes the list shorter and the place an earlier one.           *)
(***************************************************************************)
\* The place, in the list of a schedule.
PlaceIn(schedule) == (Len(schedule.producers) - 1) \div 3

\* The producers that imply less than is irreversible are too few to matter.
Behind(h) == {q \in DOMAIN h.implied : h.implied[q] < h.dpos_irreversible}
SupportOK(h) ==
  \/ h.dpos_irreversible = 0
  \/ Cardinality(Behind(h)) <= (Cardinality(DOMAIN h.implied) - 1) \div 3

\* A schedule has as many producers as its list is long.
LEMMA ScheduleSize ==
  ASSUME NEW x, x.producers \in Schedules
  PROVE  /\ Len(x.producers) \in Nat
         /\ IsFiniteSet(ProducersOf(x)) /\ Cardinality(ProducersOf(x)) = Len(x.producers)
<1>1. PICK s \in Schedules : s = x.producers
  OBVIOUS
<1>2. s \in Seq(AllProducers) /\ \A i, j \in 1..Len(s) : s[i] = s[j] => i = j
  BY SchedulesAssumption
<1>3. Len(s) \in Nat /\ s \in [1..Len(s) -> AllProducers]
  BY <1>2
<1>4. PICK P : P = {s[i] : i \in 1..Len(s)}
  OBVIOUS
<1>5. s \in Bijection(1..Len(s), P)
  <2>1. s \in [1..Len(s) -> P]
    BY <1>3, <1>4
  <2> QED
    BY <1>2, <1>4, <2>1 DEF Bijection, Injection, Surjection, IsInjective
<1>6. IsFiniteSet(1..Len(s)) /\ Cardinality(1..Len(s)) = Len(s)
  <2>1. 1 \in Int /\ Len(s) \in Int
    BY <1>3
  <2>2. /\ IsFiniteSet(1..Len(s))
        /\ Cardinality(1..Len(s)) = IF 1 > Len(s) THEN 0 ELSE Len(s) - 1 + 1
    BY <2>1, FS_Interval
  <2> QED
    BY <1>3, <2>2
<1>7. IsFiniteSet(P) /\ Cardinality(P) = Len(s)
  <2>1. ExistsBijection(1..Len(s), P)
    BY <1>5 DEF ExistsBijection
  <2> QED
    BY <1>6, <2>1, FS_Bijection
<1>8. ProducersOf(x) = P
  BY <1>1, <1>4 DEF ProducersOf
<1> QED
  BY <1>1, <1>3, <1>7, <1>8

\* calc_dpos_last_irreversible does not go back while the list is the same: who
\* implies as little as it would return implied less than is irreversible before.
LEMMA CalcNotBack ==
  ASSUME NEW h, StateOK(h), SupportOK(h), NEW p, DOMAIN h.implied # {},
         NEW m, m = [q \in DOMAIN h.implied |-> IF q = p THEN h.dpos_proposed ELSE h.implied[q]],
         NEW v, v = calc_dpos_last_irreversible(h, p)
  PROVE  /\ h.dpos_irreversible <= v
         /\ Cardinality({q \in DOMAIN h.implied : m[q] < v})
              <= (Cardinality(DOMAIN h.implied) - 1) \div 3
<1>1. CountsOK(h) /\ IrreversibleOK(h)
  BY DEF StateOK
<1>2. PICK i : i = (Cardinality(DOMAIN h.implied) - 1) \div 3
  OBVIOUS
<1>3. /\ DOMAIN m = DOMAIN h.implied /\ h.dpos_proposed \in Nat
      /\ \A q \in DOMAIN m : m[q] \in 0..h.dpos_proposed
  BY <1>1 DEF CountsOK, IrreversibleOK
<1>4. IsFiniteSet(DOMAIN h.implied)
  BY <1>1, FS_Subset, SchedulesAssumption DEF IrreversibleOK
<1>5. i \in Nat /\ i < Cardinality(DOMAIN m)
  <2>1. PICK k : k = Cardinality(DOMAIN h.implied)
    OBVIOUS
  <2>2. k \in Nat /\ k # 0
    BY <1>4, <2>1, FS_CardinalityType, FS_EmptySet
  <2>3. (k - 1) \div 3 \in Nat /\ (k - 1) \div 3 < k
    BY <2>2
  <2> QED
    BY <1>2, <1>3, <2>1, <2>3
<1>6. v = NthValue(m, i)
  BY <1>2, <1>3 DEF calc_dpos_last_irreversible
<1>7. /\ Cardinality({q \in DOMAIN m : m[q] < NthValue(m, i)}) <= i
      /\ i < Cardinality({q \in DOMAIN m : m[q] <= NthValue(m, i)})
  BY <1>3, <1>4, <1>5, NthValueIs
<1>8. v \in Nat /\ h.dpos_irreversible \in Nat /\ h.dpos_irreversible <= h.dpos_proposed
  BY <1>1, <1>3, CalcIs DEF IrreversibleOK
<1>9. h.dpos_irreversible <= v
  <2>1. SUFFICES ASSUME v < h.dpos_irreversible PROVE FALSE
    BY <1>8
  <2>2. PICK U : U = {q \in DOMAIN m : m[q] <= v}
    OBVIOUS
  <2>3. U \subseteq Behind(h)
    <3>1. SUFFICES ASSUME NEW q \in U PROVE q \in Behind(h)
      OBVIOUS
    <3>2. q \in DOMAIN h.implied /\ m[q] \in Nat /\ m[q] <= v
      BY <1>3, <2>2, <3>1
    <3>3. q # p
      BY <1>3, <1>8, <2>1, <3>2
    <3>4. m[q] = h.implied[q]
      BY <3>2, <3>3
    <3> QED
      BY <1>8, <2>1, <3>2, <3>4 DEF Behind
  <2>4. IsFiniteSet(Behind(h))
    BY <1>4, FS_Subset DEF Behind
  <2>5. Cardinality(U) <= Cardinality(Behind(h)) /\ Cardinality(U) \in Nat /\ Cardinality(Behind(h)) \in Nat
    BY <2>3, <2>4, FS_Subset, FS_CardinalityType
  <2>6. Cardinality(Behind(h)) <= i
    BY <1>2, <1>8, <2>1 DEF SupportOK
  <2>7. i < Cardinality(U)
    BY <1>6, <1>7, <2>2
  <2> QED
    BY <1>5, <2>5, <2>6, <2>7
<1> QED
  BY <1>2, <1>3, <1>6, <1>7, <1>9

\* A block of a producer of the active schedule: the irreversible block does not go
\* back, and stays supported, unless the block makes a schedule active in which the
\* place is an earlier one.
LEMMA NextNotBack ==
  ASSUME NEW h, StateOK(h), SupportOK(h), NEW p \in ProducersOf(h.active),
         NEW c \in Nat, NEW new,
         DOMAIN h.implied = ProducersOf(h.active),
         h.pending.producers # <<>> => PlaceIn(h.active) <= PlaceIn(h.pending)
  PROVE  /\ h.dpos_irreversible <= next(h, p, c, new).dpos_irreversible
         /\ SupportOK(next(h, p, c, new))
<1>1. CountsOK(h) /\ IrreversibleOK(h) /\ SchedulesOK(h)
  BY DEF StateOK
<1>2. PICK g : g = next(h, p, c, new)
  OBVIOUS
<1>3. PICK D : D = DOMAIN h.implied
  OBVIOUS
<1>4. PICK v : v = calc_dpos_last_irreversible(h, p)
  OBVIOUS
<1>5. PICK m : m = [q \in D |-> IF q = p THEN h.dpos_proposed ELSE h.implied[q]]
  OBVIOUS
<1>6. p \in D /\ D = ProducersOf(h.active)
  BY <1>3
<1>7. /\ h.dpos_irreversible <= v
      /\ Cardinality({q \in D : m[q] < v}) <= (Cardinality(D) - 1) \div 3
  <2>1. DOMAIN h.implied # {}
    BY <1>3, <1>6
  <2>2. m = [q \in DOMAIN h.implied |-> IF q = p THEN h.dpos_proposed ELSE h.implied[q]]
    BY <1>3, <1>5
  <2>3. /\ h.dpos_irreversible <= v
        /\ Cardinality({q \in DOMAIN h.implied : m[q] < v})
             <= (Cardinality(DOMAIN h.implied) - 1) \div 3
    BY <1>4, <2>1, <2>2, CalcNotBack
  <2> QED
    BY <1>3, <2>3
<1>8. v \in Nat
  BY <1>1, <1>4, CalcIs DEF CountsOK
<1>9. PICK stay : stay = ProducersOf(h.pending)
  OBVIOUS
<1>10. /\ g.dpos_irreversible = v
       /\ g.implied = IF Promotes(h, p)
                        THEN IF p \notin stay THEN Inherit(h.implied, stay, v)
                             ELSE Put(Inherit(h.implied, stay, v), p, h.dpos_proposed)
                        ELSE Put(h.implied, p, h.dpos_proposed)
  BY <1>2, <1>4, <1>9 DEF next
<1>11. Behind(g) \subseteq {q \in D : m[q] < v}
  <2>1. SUFFICES ASSUME NEW q \in DOMAIN g.implied, g.implied[q] < v
                 PROVE  q \in D /\ m[q] < v
    BY <1>10 DEF Behind
  <2>2. CASE ~ Promotes(h, p)
    <3>1. g.implied = Put(h.implied, p, h.dpos_proposed)
      BY <1>10, <2>2
    <3> QED
      BY <1>3, <1>5, <1>6, <2>1, <3>1 DEF Put
  <2>3. CASE Promotes(h, p) /\ p \notin stay
    <3>1. g.implied = Inherit(h.implied, stay, v)
      BY <1>10, <2>3
    <3>2. q \in stay /\ g.implied[q] = IF q \in D THEN h.implied[q] ELSE v
      BY <1>3, <2>1, <3>1 DEF Inherit
    <3> QED
      BY <1>5, <1>8, <2>1, <2>3, <3>2
  <2>4. CASE Promotes(h, p) /\ p \in stay
    <3>1. g.implied = Put(Inherit(h.implied, stay, v), p, h.dpos_proposed)
      BY <1>10, <2>4
    <3>2. q = p => g.implied[q] = h.dpos_proposed
      BY <2>1, <3>1 DEF Put
    <3>3. q # p => g.implied[q] = IF q \in D THEN h.implied[q] ELSE v
      BY <1>3, <2>1, <3>1 DEF Put, Inherit
    <3> QED
      BY <1>5, <1>6, <1>8, <2>1, <3>2, <3>3
  <2> QED
    BY <2>2, <2>3, <2>4
<1>12. IsFiniteSet(D) /\ Cardinality(D) = Len(h.active.producers) /\ Len(h.active.producers) \in Nat
  BY <1>1, <1>6, ScheduleSize DEF SchedulesOK
<1>13. (Cardinality(D) - 1) \div 3 <= (Cardinality(DOMAIN g.implied) - 1) \div 3
  <2>1. CASE ~ Promotes(h, p)
    <3>1. DOMAIN g.implied = D
      BY <1>3, <1>6, <1>10, <2>1 DEF Put
    <3>2. PICK n \in Nat : n = Cardinality(D)
      BY <1>12
    <3>3. (n - 1) \div 3 <= (n - 1) \div 3
      OBVIOUS
    <3> QED
      BY <3>1, <3>2, <3>3
  <2>2. CASE Promotes(h, p)
    <3>1. h.pending.producers # <<>> /\ h.pending.producers \in Schedules
      BY <1>1, <2>2 DEF Promotes, SchedulesOK
    <3>2. DOMAIN g.implied = stay
      BY <1>10, <2>2 DEF Put, Inherit
    <3>3. Cardinality(DOMAIN g.implied) = Len(h.pending.producers)
      BY <1>9, <3>1, <3>2, ScheduleSize
    <3> QED
      BY <1>12, <3>1, <3>3 DEF PlaceIn
  <2> QED
    BY <2>1, <2>2
<1>14. Cardinality(Behind(g)) <= (Cardinality(DOMAIN g.implied) - 1) \div 3
  <2>1. PICK L : L = {q \in D : m[q] < v}
    OBVIOUS
  <2>2. IsFiniteSet(L) /\ Behind(g) \subseteq L
    BY <1>11, <1>12, <2>1, FS_Subset
  <2>3. /\ Cardinality(Behind(g)) <= Cardinality(L) /\ Cardinality(Behind(g)) \in Nat
        /\ Cardinality(L) \in Nat
    BY <2>2, FS_Subset, FS_CardinalityType
  <2>4. Cardinality(L) <= (Cardinality(D) - 1) \div 3 /\ (Cardinality(D) - 1) \div 3 \in Int
    <3>1. PICK n \in Nat : n = Cardinality(D)
      BY <1>12
    <3>2. (n - 1) \div 3 \in Int
      OBVIOUS
    <3> QED
      BY <1>7, <2>1, <3>1, <3>2
  <2>5. PICK k : k = Cardinality(DOMAIN g.implied)
    OBVIOUS
  <2>6. k \in Nat
    <3>1. DOMAIN g.implied \in SUBSET (D \cup stay \cup {p})
      BY <1>3, <1>10 DEF Put, Inherit
    <3>2. IsFiniteSet(AllProducers) /\ D \in SUBSET AllProducers /\ stay \in SUBSET AllProducers
      BY <1>1, <1>6, <1>9, SchedulesAssumption, ScheduledAre DEF SchedulesOK
    <3>3. IsFiniteSet(DOMAIN g.implied)
      BY <1>6, <3>1, <3>2, FS_Subset
    <3> QED
      BY <2>5, <3>3, FS_CardinalityType
  <2>7. (k - 1) \div 3 \in Int /\ (Cardinality(D) - 1) \div 3 <= (k - 1) \div 3
    BY <1>13, <2>5, <2>6
  <2> QED
    BY <2>3, <2>4, <2>5, <2>7
<1> QED
  BY <1>2, <1>7, <1>10, <1>14 DEF SupportOK

\* The map of what producers imply is that of the active schedule.
LEMMA NextImplied ==
  ASSUME NEW h, NEW p \in ProducersOf(h.active), NEW c, NEW new,
         DOMAIN h.implied = ProducersOf(h.active) \/ Promotes(h, p)
  PROVE  DOMAIN next(h, p, c, new).implied = ProducersOf(next(h, p, c, new).active)
<1>1. PICK g : g = next(h, p, c, new)
  OBVIOUS
<1>2. PICK v : v = calc_dpos_last_irreversible(h, p)
  OBVIOUS
<1>3. PICK stay : stay = ProducersOf(h.pending)
  OBVIOUS
<1>4. CASE Promotes(h, p)
  <2>1. /\ \/ p \notin stay /\ g.implied = Inherit(h.implied, stay, v)
           \/ p \in stay /\ g.implied = Put(Inherit(h.implied, stay, v), p, h.dpos_proposed)
        /\ g.active.producers = h.pending.producers
    BY <1>1, <1>2, <1>3, <1>4 DEF next
  <2>2. DOMAIN g.implied = stay
    BY <2>1 DEF Put, Inherit
  <2>3. ProducersOf(g.active) = stay
    BY <1>3, <2>1 DEF ProducersOf
  <2> QED
    BY <1>1, <2>2, <2>3
<1>5. CASE ~ Promotes(h, p)
  <2>1. g.implied = Put(h.implied, p, h.dpos_proposed) /\ g.active = h.active
    BY <1>1, <1>5 DEF next
  <2> QED
    BY <1>1, <1>5, <2>1 DEF Put
<1> QED
  BY <1>4, <1>5
=============================================================================
