----------------------------- MODULE SumTheorems -----------------------------
(***************************************************************************)
(* What SumFunctionOnSet of the community modules computes for a finite    *)
(* set: it is defined by a recursion over an arbitrary choice of elements, *)
(* and every fact about it is shown for a smallest counterexample.         *)
(***************************************************************************)
EXTENDS Integers, FiniteSets, FiniteSetsExt, FiniteSetTheorems, TLAPS

\* Sets of subsets of a finite set have smallest members.
LEMMA SmallestSubset ==
  ASSUME NEW S, IsFiniteSet(S), NEW B \in SUBSET SUBSET S, B # {}
  PROVE  \E T \in B : \A U \in B : U \subseteq T => U = T
<1>1. IsWellFoundedOn(StrictSubsetOrdering(S), FiniteSubsetsOf(S))
  BY FS_StrictSubsetOrderingWellFounded
<1>2. FiniteSubsetsOf(S) = SUBSET S
  BY FS_FiniteSubsetsOfFinite
<1>3. B \subseteq FiniteSubsetsOf(S)
  BY <1>2
<1>4. PICK T \in B : \A U \in B : ~ (<<U, T>> \in StrictSubsetOrdering(S))
  BY <1>1, <1>3, WFMin
<1>5. ASSUME NEW U \in B, U \subseteq T, U # T PROVE FALSE
  BY <1>4, <1>5 DEF StrictSubsetOrdering
<1> QED
  BY <1>5

\* Sets of natural numbers have smallest members.
LEMMA SmallestNumber ==
  ASSUME NEW B \in SUBSET Nat, B # {}
  PROVE  \E m \in B : \A k \in B : m <= k
<1>1. PICK m \in B : \A k \in B : ~ (<<k, m>> \in OpToRel(<, Nat))
  BY NatLessThanWellFounded, WFMin
<1>2. \A k \in B : ~ (k < m)
  BY <1>1 DEF OpToRel
<1> QED
  BY <1>2

\* The element that the recursion takes from s.
First(s) == CHOOSE x \in s : TRUE

\* g sums f over every subset of S.
Sums(g, f, S) ==
  g = [s \in SUBSET S |-> IF s = {} THEN 0 ELSE f[First(s)] + g[s \ {First(s)}]]

\* A sum is the value of a function on subsets.
LEMMA SumIs ==
  ASSUME NEW f, NEW S
  PROVE  SumFunctionOnSet(f, S) = (CHOOSE g : Sums(g, f, S))[S]
  BY DEF SumFunctionOnSet, FoldFunctionOnSet, MapThenFoldSet, Sums, First

\* The element summed first is in the set.
LEMMA FirstIn ==
  ASSUME NEW s, s # {}
  PROVE  First(s) \in s
  BY DEF First

\* That function, subset by subset.
LEMMA SumsStep ==
  ASSUME NEW g, NEW f, NEW S, Sums(g, f, S), NEW s \in SUBSET S
  PROVE  /\ s = {} => g[s] = 0
         /\ s # {} => g[s] = f[First(s)] + g[s \ {First(s)}]
<1>1. g[s] = IF s = {} THEN 0 ELSE f[First(s)] + g[s \ {First(s)}]
  <2>1. PICK h : h = [r \in SUBSET S |-> IF r = {} THEN 0
                                         ELSE f[First(r)] + g[r \ {First(r)}]]
    OBVIOUS
  <2>2. g = h
    BY <2>1 DEF Sums
  <2>3. h[s] = IF s = {} THEN 0 ELSE f[First(s)] + g[s \ {First(s)}]
    BY <2>1
  <2> QED
    BY <2>2, <2>3
<1> QED
  BY <1>1

\* Two such functions agree where both are defined and the summands agree.
LEMMA SumsAgree ==
  ASSUME NEW g, NEW f, NEW S, Sums(g, f, S), NEW h, NEW e, NEW T, Sums(h, e, T),
         NEW s \in SUBSET S, s \in SUBSET T, IsFiniteSet(s), \A x \in s : f[x] = e[x]
  PROVE  g[s] = h[s]
<1> DEFINE B == {r \in SUBSET s : g[r] # h[r]}
<1>1. SUFFICES ASSUME B # {} PROVE FALSE
  OBVIOUS
<1>2. PICK r \in B : \A q \in B : q \subseteq r => q = r
  <2> HIDE DEF B
  <2>1. B \in SUBSET SUBSET s
    BY DEF B
  <2> QED
    BY <1>1, <2>1, SmallestSubset
<1>3. r \in SUBSET S /\ r \in SUBSET T /\ g[r] # h[r] /\ r \in SUBSET s
  OBVIOUS
<1>4. r # {}
  <2>1. r = {} => g[r] = 0 /\ h[r] = 0
    BY <1>3, SumsStep
  <2> QED
    BY <1>3, <2>1
<1>5. First(r) \in r
  BY <1>4, FirstIn
<1>6. PICK q : q = r \ {First(r)}
  OBVIOUS
<1>7. q \notin B /\ q \in SUBSET s
  BY <1>2, <1>3, <1>5, <1>6
<1>8. g[q] = h[q]
  BY <1>7
<1>9. g[r] = f[First(r)] + g[q] /\ h[r] = e[First(r)] + h[q]
  BY <1>3, <1>4, <1>6, SumsStep
<1>10. f[First(r)] = e[First(r)]
  BY <1>3, <1>5
<1> QED
  BY <1>3, <1>8, <1>9, <1>10

\* There is such a function,
LEMMA SumsExist ==
  ASSUME NEW f, NEW S, IsFiniteSet(S)
  PROVE  \E g : Sums(g, f, S)
<1> DEFINE B == {T \in SUBSET S : ~ \E g : Sums(g, f, T)}
<1>1. SUFFICES ASSUME B # {} PROVE FALSE
  OBVIOUS
<1>2. PICK T \in B : \A U \in B : U \subseteq T => U = T
  <2> HIDE DEF B
  <2>1. B \in SUBSET SUBSET S
    BY DEF B
  <2> QED
    BY <1>1, <2>1, SmallestSubset
<1>3. T \in SUBSET S /\ ~ \E g : Sums(g, f, T)
  OBVIOUS
<1> DEFINE Of(U) == CHOOSE g : Sums(g, f, U)
<1>4. ASSUME NEW U \in SUBSET T, U # T PROVE Sums(Of(U), f, U)
  <2>1. U \notin B /\ U \in SUBSET S
    BY <1>2, <1>3, <1>4
  <2> QED
    BY <2>1
<1> DEFINE val == [U \in SUBSET T |-> Of(U)[U]]
           g == [U \in SUBSET T |-> IF U = {} THEN 0
                                    ELSE f[First(U)] + val[U \ {First(U)}]]
<1>5. ASSUME NEW U \in SUBSET T, U # T PROVE g[U] = val[U]
  <2>1. Sums(Of(U), f, U)
    BY <1>4, <1>5
  <2>2. IsFiniteSet(U)
    BY <1>3, FS_Subset
  <2>3. CASE U = {}
    <3>1. Of(U)[U] = 0
      <4> HIDE DEF Of
      <4> QED
        BY <2>1, <2>3, SumsStep
    <3> QED
      BY <2>3, <3>1
  <2>4. CASE U # {}
    <3>1. PICK V : V = U \ {First(U)}
      OBVIOUS
    <3>2. First(U) \in U
      BY <2>4, FirstIn
    <3>3. V \in SUBSET U /\ V \in SUBSET T /\ V # T
      BY <1>5, <3>1, <3>2
    <3>4. Sums(Of(V), f, V)
      BY <1>4, <3>3
    <3>5. IsFiniteSet(V)
      BY <2>2, <3>3, FS_Subset
    <3>6. Of(U)[V] = Of(V)[V]
      <4> HIDE DEF Of
      <4> QED
        BY <2>1, <3>3, <3>4, <3>5, SumsAgree
    <3>7. Of(U)[U] = f[First(U)] + Of(U)[V]
      <4> HIDE DEF Of
      <4> QED
        BY <2>1, <2>4, <3>1, SumsStep
    <3>8. val[U] = f[First(U)] + val[V]
      <4> HIDE DEF Of
      <4> QED
        BY <3>3, <3>6, <3>7
    <3> QED
      <4> HIDE DEF val
      <4> QED
        BY <2>4, <3>1, <3>8
  <2> QED
    BY <2>3, <2>4
<1>6. Sums(g, f, T)
  <2>1. ASSUME NEW U \in SUBSET T, U # {}
        PROVE  val[U \ {First(U)}] = g[U \ {First(U)}]
    <3>1. First(U) \in U
      BY <2>1, FirstIn
    <3>2. U \ {First(U)} \in SUBSET T /\ U \ {First(U)} # T
      BY <2>1, <3>1
    <3> HIDE DEF val, g
    <3> QED
      BY <1>5, <3>2
  <2>2. PICK h : h = g
    OBVIOUS
  <2>3. h = [U \in SUBSET T |-> IF U = {} THEN 0 ELSE f[First(U)] + h[U \ {First(U)}]]
    <3>1. \A U \in SUBSET T : U # {} => val[U \ {First(U)}] = h[U \ {First(U)}]
      <4> HIDE DEF val, g
      <4> QED
        BY <2>1, <2>2
    <3>2. h = [U \in SUBSET T |-> IF U = {} THEN 0 ELSE f[First(U)] + val[U \ {First(U)}]]
      BY <2>2
    <3> HIDE DEF val, g
    <3> QED
      BY <3>1, <3>2
  <2> HIDE DEF g
  <2> QED
    BY <2>2, <2>3 DEF Sums
<1> HIDE DEF g
<1> QED
  BY <1>3, <1>6

-----------------------------------------------------------------------------
SumOver(f, S) == SumFunctionOnSet(f, S)

\* and the sum is its value.
LEMMA SumSums ==
  ASSUME NEW f, NEW S, IsFiniteSet(S)
  PROVE  \E g : Sums(g, f, S) /\ SumOver(f, S) = g[S]
<1>1. Sums(CHOOSE g : Sums(g, f, S), f, S)
  BY SumsExist
<1> QED
  BY <1>1, SumIs DEF SumOver

\* The sum over no elements.
LEMMA SumEmpty ==
  ASSUME NEW f PROVE SumOver(f, {}) = 0
<1>1. PICK g : Sums(g, f, {}) /\ SumOver(f, {}) = g[{}]
  BY SumSums, FS_EmptySet
<1> QED
  BY <1>1, SumsStep

\* The recursion.
LEMMA SumFirst ==
  ASSUME NEW f, NEW S, IsFiniteSet(S), S # {}
  PROVE  SumOver(f, S) = f[First(S)] + SumOver(f, S \ {First(S)})
<1>1. PICK g : Sums(g, f, S) /\ SumOver(f, S) = g[S]
  BY SumSums
<1>2. PICK T : T = S \ {First(S)}
  OBVIOUS
<1>3. T \in SUBSET S /\ IsFiniteSet(T)
  BY <1>2, FS_Subset
<1>4. PICK h : Sums(h, f, T) /\ SumOver(f, T) = h[T]
  BY <1>3, SumSums
<1>5. g[T] = h[T]
  BY <1>1, <1>3, <1>4, SumsAgree
<1>6. g[S] = f[First(S)] + g[T]
  BY <1>1, <1>2, SumsStep
<1> QED
  BY <1>1, <1>2, <1>4, <1>5, <1>6

\* The sum depends on the summands of the set only.
LEMMA SumAgree ==
  ASSUME NEW f, NEW e, NEW S, IsFiniteSet(S), \A x \in S : f[x] = e[x]
  PROVE  SumOver(f, S) = SumOver(e, S)
<1>1. PICK g : Sums(g, f, S) /\ SumOver(f, S) = g[S]
  BY SumSums
<1>2. PICK h : Sums(h, e, S) /\ SumOver(e, S) = h[S]
  BY SumSums
<1>3. g[S] = h[S]
  BY <1>1, <1>2, SumsAgree
<1> QED
  BY <1>1, <1>2, <1>3

\* A sum of integers is an integer.
LEMMA SumType ==
  ASSUME NEW f, NEW S, IsFiniteSet(S), \A x \in S : f[x] \in Int
  PROVE  SumOver(f, S) \in Int
<1> DEFINE B == {T \in SUBSET S : SumOver(f, T) \notin Int}
<1>1. SUFFICES ASSUME B # {} PROVE FALSE
  OBVIOUS
<1>2. PICK T \in B : \A U \in B : U \subseteq T => U = T
  <2> HIDE DEF B
  <2>1. B \in SUBSET SUBSET S
    BY DEF B
  <2> QED
    BY <1>1, <2>1, SmallestSubset
<1>3. T \in SUBSET S /\ SumOver(f, T) \notin Int /\ IsFiniteSet(T)
  BY FS_Subset
<1>4. T # {}
  BY <1>3, SumEmpty
<1>5. First(T) \in T
  BY <1>4, FirstIn
<1>6. T \ {First(T)} \in SUBSET S /\ T \ {First(T)} \notin B
  BY <1>2, <1>3, <1>5
<1>7. SumOver(f, T \ {First(T)}) \in Int
  BY <1>6
<1>8. f[First(T)] \in Int
  BY <1>3, <1>5
<1>9. SumOver(f, T) = f[First(T)] + SumOver(f, T \ {First(T)})
  BY <1>3, <1>4, SumFirst
<1> QED
  BY <1>3, <1>7, <1>8, <1>9

\* Any element may be taken first.
LEMMA SumTake ==
  ASSUME NEW f, NEW S, IsFiniteSet(S), \A x \in S : f[x] \in Int, NEW y \in S
  PROVE  SumOver(f, S) = f[y] + SumOver(f, S \ {y})
<1> DEFINE B == {T \in SUBSET S : \E z \in T : SumOver(f, T) # f[z] + SumOver(f, T \ {z})}
<1>1. SUFFICES ASSUME B # {} PROVE FALSE
  OBVIOUS
<1>2. PICK T \in B : \A U \in B : U \subseteq T => U = T
  <2> HIDE DEF B
  <2>1. B \in SUBSET SUBSET S
    BY DEF B
  <2> QED
    BY <1>1, <2>1, SmallestSubset
<1>3. PICK z \in T : SumOver(f, T) # f[z] + SumOver(f, T \ {z})
  OBVIOUS
<1>4. T \in SUBSET S /\ IsFiniteSet(T)
  BY FS_Subset
<1>5. PICK x : x = First(T)
  OBVIOUS
<1>6. x \in T /\ SumOver(f, T) = f[x] + SumOver(f, T \ {x})
  BY <1>4, <1>5, SumFirst, FirstIn
<1>7. x # z
  BY <1>3, <1>6
<1>8. T \ {x} \notin B /\ T \ {z} \notin B /\ T \ {x} \in SUBSET S /\ T \ {z} \in SUBSET S
  BY <1>2, <1>4, <1>6
<1>9. SumOver(f, T \ {x}) = f[z] + SumOver(f, (T \ {x}) \ {z})
  BY <1>7, <1>8
<1>10. SumOver(f, T \ {z}) = f[x] + SumOver(f, (T \ {z}) \ {x})
  BY <1>6, <1>7, <1>8
<1>11. PICK R : R = (T \ {x}) \ {z}
  OBVIOUS
<1>12. R = (T \ {z}) \ {x} /\ R \in SUBSET S
  BY <1>4, <1>11
<1>13. SumOver(f, R) \in Int /\ f[x] \in Int /\ f[z] \in Int
  <2>1. IsFiniteSet(R) /\ \A w \in R : f[w] \in Int
    BY <1>12, FS_Subset
  <2> QED
    BY <1>4, <1>6, <2>1, SumType
<1>14. SumOver(f, T) = f[x] + (f[z] + SumOver(f, R))
  BY <1>6, <1>9, <1>11
<1>15. f[z] + SumOver(f, T \ {z}) = f[z] + (f[x] + SumOver(f, R))
  BY <1>10, <1>12
<1>16. f[x] + (f[z] + SumOver(f, R)) = f[z] + (f[x] + SumOver(f, R))
  BY <1>13
<1> QED
  BY <1>3, <1>14, <1>15, <1>16

\* One summand changes.
LEMMA SumChange ==
  ASSUME NEW f, NEW e, NEW S, IsFiniteSet(S), NEW y \in S,
         \A x \in S : f[x] \in Int, e[y] \in Int, \A x \in S : x # y => e[x] = f[x]
  PROVE  SumOver(e, S) = SumOver(f, S) - f[y] + e[y]
<1>1. SumOver(f, S) = f[y] + SumOver(f, S \ {y})
  BY SumTake
<1>2. \A x \in S : e[x] \in Int
  OBVIOUS
<1>3. SumOver(e, S) = e[y] + SumOver(e, S \ {y})
  BY <1>2, SumTake
<1>4. IsFiniteSet(S \ {y}) /\ S \ {y} \in SUBSET S
  BY FS_Subset
<1>5. SumOver(e, S \ {y}) = SumOver(f, S \ {y})
  BY <1>4, SumAgree
<1>6. SumOver(f, S \ {y}) \in Int
  BY <1>4, SumType
<1>7. f[y] \in Int /\ e[y] \in Int
  OBVIOUS
<1> QED
  BY <1>1, <1>3, <1>5, <1>6, <1>7

\* A sum of numbers that are not negative is not.
LEMMA SumNat ==
  ASSUME NEW f, NEW S, IsFiniteSet(S), \A x \in S : f[x] \in Nat
  PROVE  SumOver(f, S) \in Nat
<1> DEFINE B == {T \in SUBSET S : SumOver(f, T) \notin Nat}
<1>1. SUFFICES ASSUME B # {} PROVE FALSE
  OBVIOUS
<1>2. PICK T \in B : \A U \in B : U \subseteq T => U = T
  <2> HIDE DEF B
  <2>1. B \in SUBSET SUBSET S
    BY DEF B
  <2> QED
    BY <1>1, <2>1, SmallestSubset
<1>3. T \in SUBSET S /\ SumOver(f, T) \notin Nat /\ IsFiniteSet(T)
  BY FS_Subset
<1>4. T # {}
  BY <1>3, SumEmpty
<1>5. First(T) \in T
  BY <1>4, FirstIn
<1>6. T \ {First(T)} \in SUBSET S /\ T \ {First(T)} \notin B
  BY <1>2, <1>3, <1>5
<1>7. SumOver(f, T \ {First(T)}) \in Nat
  BY <1>6
<1>8. f[First(T)] \in Nat
  BY <1>3, <1>5
<1>9. SumOver(f, T) = f[First(T)] + SumOver(f, T \ {First(T)})
  BY <1>3, <1>4, SumFirst
<1> QED
  BY <1>3, <1>7, <1>8, <1>9


\* A summand more.
LEMMA SumMore ==
  ASSUME NEW f, NEW S, IsFiniteSet(S), \A x \in S : f[x] \in Int,
         NEW y, y \notin S, f[y] \in Int
  PROVE  SumOver(f, S \cup {y}) = f[y] + SumOver(f, S)
<1>1. IsFiniteSet(S \cup {y}) /\ (S \cup {y}) \ {y} = S
  BY FS_AddElement
<1>2. PICK T : T = S \cup {y}
  OBVIOUS
<1>3. SumOver(f, T) = f[y] + SumOver(f, T \ {y})
  BY <1>1, <1>2, SumTake
<1> QED
  BY <1>1, <1>2, <1>3

\* Several summands change, those of T.
LEMMA SumChanges ==
  ASSUME NEW f, NEW e, NEW S, IsFiniteSet(S), NEW T \in SUBSET S,
         \A x \in S : f[x] \in Int, \A x \in T : e[x] \in Int,
         \A x \in S \ T : e[x] = f[x]
  PROVE  SumOver(e, S) = SumOver(f, S) + SumOver([x \in S |-> e[x] - f[x]], T)
<1> DEFINE d == [x \in S |-> e[x] - f[x]]
           m(U) == [x \in S |-> IF x \in U THEN e[x] ELSE f[x]]
           B == {U \in SUBSET T : SumOver(m(U), S) # SumOver(f, S) + SumOver(d, U)}
<1>1. ASSUME B # {} PROVE FALSE
  <2>1. PICK U \in B : \A V \in B : V \subseteq U => V = U
    <3>1. B \in SUBSET SUBSET S
      OBVIOUS
    <3> HIDE DEF B
    <3> QED
      BY <1>1, <3>1, SmallestSubset
  <2>2. U \in SUBSET T /\ IsFiniteSet(U)
    BY FS_Subset
  <2>3. SumOver(f, S) \in Int
    BY SumType
  <2>4. CASE U = {}
    <3>1. SumOver(m(U), S) = SumOver(f, S)
      <4>1. PICK h : h = m(U)
        OBVIOUS
      <4>2. \A x \in S : h[x] = f[x]
        BY <2>4, <4>1
      <4> QED
        BY <4>1, <4>2, SumAgree
    <3>2. SumOver(d, U) = 0
      BY <2>4, SumEmpty
    <3> QED
      BY <2>1, <2>3, <3>1, <3>2
  <2>5. CASE U # {}
    <3>1. PICK y \in U : TRUE
      BY <2>5
    <3>2. PICK V : V = U \ {y}
      OBVIOUS
    <3>3. V \in SUBSET T /\ IsFiniteSet(V) /\ V \subseteq U /\ V # U
      BY <2>2, <3>1, <3>2, FS_Subset
    <3>4. SumOver(m(V), S) = SumOver(f, S) + SumOver(d, V)
      BY <2>1, <3>3
    <3>5. PICK h : h = m(V)
      OBVIOUS
    <3>6. PICK i : i = m(U)
      OBVIOUS
    <3>7. \A x \in S : h[x] \in Int
      BY <3>3, <3>5
    <3>8. h[y] = f[y] /\ i[y] = e[y] /\ y \in S
      BY <2>2, <3>1, <3>2, <3>5, <3>6
    <3>9. \A x \in S : x # y => i[x] = h[x]
      BY <3>2, <3>5, <3>6
    <3>10. f[y] \in Int /\ e[y] \in Int
      BY <2>2, <3>1, <3>8
    <3>11. SumOver(i, S) = SumOver(h, S) - h[y] + i[y]
      BY <3>7, <3>8, <3>9, <3>10, SumChange
    <3>12. PICK c : c = d
      OBVIOUS
    <3>13. c[y] = e[y] - f[y] /\ \A x \in U : c[x] \in Int
      BY <2>2, <3>8, <3>12
    <3>14. SumOver(c, U) = c[y] + SumOver(c, V)
      BY <2>2, <3>1, <3>2, <3>13, SumTake
    <3>15. SumOver(c, V) \in Int
      BY <3>3, <3>13, SumType
    <3>16. SumOver(i, S) = SumOver(f, S) + SumOver(c, U)
      <4>1. SumOver(h, S) = SumOver(f, S) + SumOver(c, V)
        BY <3>4, <3>5, <3>12
      <4> QED
        BY <2>3, <3>8, <3>10, <3>11, <3>13, <3>14, <3>15, <4>1
    <3> QED
      BY <2>1, <3>6, <3>12, <3>16
  <2> QED
    BY <2>4, <2>5
<1>2. SumOver(m(T), S) = SumOver(f, S) + SumOver(d, T)
  BY <1>1
<1>3. SumOver(m(T), S) = SumOver(e, S)
  <2>1. PICK h : h = m(T)
    OBVIOUS
  <2>2. \A x \in S : h[x] = e[x]
    BY <2>1
  <2> QED
    BY <2>1, <2>2, SumAgree
<1> QED
  BY <1>2, <1>3

\* Zeroes add up to zero.
LEMMA SumZero ==
  ASSUME NEW f, NEW S, IsFiniteSet(S), \A x \in S : f[x] = 0
  PROVE  SumOver(f, S) = 0
<1>1. PICK d : d = [x \in S |-> f[x] - f[x]]
  OBVIOUS
<1>2. \A x \in S : f[x] \in Int
  OBVIOUS
<1>3. SumOver(f, S) \in Int
  BY <1>2, SumType
<1>4. SumOver(f, S) = SumOver(f, S) + SumOver([x \in S |-> f[x] - f[x]], S)
  <2>1. S \in SUBSET S
    OBVIOUS
  <2> QED
    BY <1>2, <2>1, SumChanges
<1>5. SumOver(d, S) \in Int
  <2>1. \A x \in S : d[x] \in Int
    BY <1>1, <1>2
  <2> QED
    BY <2>1, SumType
<1>6. SumOver(d, S) = 0
  BY <1>1, <1>3, <1>4, <1>5
<1>7. \A x \in S : d[x] = f[x]
  BY <1>1, <1>2
<1> QED
  BY <1>6, <1>7, SumAgree

\* A sum of one value.
LEMMA SumOne ==
  ASSUME NEW f, NEW x, f[x] \in Int
  PROVE  SumOver(f, {x}) = f[x]
<1>1. IsFiniteSet({x}) /\ x \in {x} /\ {x} \ {x} = {}
  BY FS_Singleton
<1>2. SumOver(f, {x}) = f[x] + SumOver(f, {x} \ {x})
  <2>1. \A y \in {x} : f[y] \in Int
    OBVIOUS
  <2> QED
    BY <1>1, <2>1, SumTake
<1> QED
  BY <1>1, <1>2, SumEmpty

\* The sums over disjoint sets add up.
LEMMA SumUnion ==
  ASSUME NEW f, NEW S, IsFiniteSet(S), NEW T, IsFiniteSet(T), S \cap T = {},
         \A x \in S \cup T : f[x] \in Int
  PROVE  SumOver(f, S \cup T) = SumOver(f, S) + SumOver(f, T)
<1> DEFINE B == {U \in SUBSET T : SumOver(f, S \cup U) # SumOver(f, S) + SumOver(f, U)}
<1>1. SUFFICES ASSUME B # {} PROVE FALSE
  OBVIOUS
<1>2. PICK U \in B : \A V \in B : V \subseteq U => V = U
  <2> HIDE DEF B
  <2>1. B \in SUBSET SUBSET T
    BY DEF B
  <2> QED
    BY <1>1, <2>1, SmallestSubset
<1>3. U \in SUBSET T /\ SumOver(f, S \cup U) # SumOver(f, S) + SumOver(f, U) /\ IsFiniteSet(U)
  BY FS_Subset
<1>4. SumOver(f, S) \in Int
  BY SumType
<1>5. U # {}
  <2>1. ASSUME U = {} PROVE FALSE
    <3>1. SumOver(f, U) = 0 /\ S \cup U = S
      BY <2>1, SumEmpty
    <3>2. SumOver(f, S \cup U) = SumOver(f, S)
      BY <3>1, Zenon
    <3> QED
      BY <1>3, <1>4, <3>1, <3>2
  <2> QED
    BY <2>1
<1>6. PICK x \in U : TRUE
  BY <1>5
<1>7. PICK V : V = U \ {x}
  OBVIOUS
<1>8. V \in SUBSET T /\ V \notin B /\ IsFiniteSet(V)
  BY <1>2, <1>3, <1>6, <1>7, FS_Subset
<1>9. SumOver(f, S \cup V) = SumOver(f, S) + SumOver(f, V)
  BY <1>8
<1> HIDE DEF B
<1>10. SumOver(f, U) = f[x] + SumOver(f, V)
  <2>1. \A y \in U : f[y] \in Int
    BY <1>3
  <2> QED
    BY <1>3, <1>7, <2>1, SumTake
<1>11. SumOver(f, S \cup U) = f[x] + SumOver(f, S \cup V)
  <2>1. PICK W : W = S \cup V
    OBVIOUS
  <2>2. IsFiniteSet(W)
    BY <1>8, <2>1, FS_Union
  <2>3. x \notin W /\ f[x] \in Int /\ \A y \in W : f[y] \in Int
    BY <1>3, <1>7, <1>8, <2>1
  <2>4. SumOver(f, W \cup {x}) = f[x] + SumOver(f, W)
    BY <2>2, <2>3, SumMore
  <2>5. W \cup {x} = S \cup U
    BY <1>6, <1>7, <2>1
  <2> QED
    BY <2>1, <2>4, <2>5
<1>12. SumOver(f, V) \in Int /\ f[x] \in Int
  <2>1. \A y \in V : f[y] \in Int
    BY <1>8
  <2> QED
    BY <1>3, <1>6, <1>8, <2>1, SumType
<1> QED
  BY <1>3, <1>4, <1>9, <1>10, <1>11, <1>12

\* Zeroes may be left out.
LEMMA SumSupport ==
  ASSUME NEW f, NEW S, IsFiniteSet(S), NEW T \in SUBSET S, \A x \in S : f[x] \in Int,
         \A x \in S \ T : f[x] = 0
  PROVE  SumOver(f, T) = SumOver(f, S)
<1>1. PICK R : R = S \ T
  OBVIOUS
<1>2. IsFiniteSet(T) /\ IsFiniteSet(R)
  BY <1>1, FS_Subset
<1>3. T \cap R = {} /\ T \cup R = S /\ \A x \in R : f[x] = 0
  BY <1>1
<1>4. SumOver(f, R) = 0
  BY <1>2, <1>3, SumZero
<1>5. SumOver(f, T \cup R) = SumOver(f, T) + SumOver(f, R)
  <2>1. \A x \in T \cup R : f[x] \in Int
    BY <1>3
  <2> QED
    BY <1>2, <1>3, <2>1, SumUnion
<1>6. SumOver(f, T) \in Int
  BY <1>2, SumType
<1>7. SumOver(f, S) = SumOver(f, T) + SumOver(f, R)
  BY <1>3, <1>5, Zenon
<1> QED
  BY <1>4, <1>6, <1>7

\* The summands of S that have the key a, and those that have a key in A.
Keyed(S, key, a) == {x \in S : key[x] = a}
KeyedIn(S, key, A) == {x \in S : key[x] \in A}
Partials(f, S, key, A) == [a \in A |-> SumOver(f, Keyed(S, key, a))]

\* A sum taken key by key.
LEMMA SumByKey ==
  ASSUME NEW f, NEW S, IsFiniteSet(S), \A x \in S : f[x] \in Int, NEW key,
         NEW A, IsFiniteSet(A)
  PROVE  SumOver(Partials(f, S, key, A), A) = SumOver(f, KeyedIn(S, key, A))
<1>1. PICK p : p = Partials(f, S, key, A)
  OBVIOUS
<1>2. ASSUME NEW a \in A
      PROVE  /\ p[a] = SumOver(f, Keyed(S, key, a)) /\ p[a] \in Int
             /\ IsFiniteSet(Keyed(S, key, a))
  <2>1. PICK T : T = Keyed(S, key, a)
    OBVIOUS
  <2>2. T \in SUBSET S /\ IsFiniteSet(T)
    BY <2>1, FS_Subset DEF Keyed
  <2>3. p[a] = SumOver(f, T)
    BY <1>1, <2>1 DEF Partials
  <2> QED
    BY <2>1, <2>2, <2>3, SumType
<1> DEFINE B == {U \in SUBSET A : SumOver(p, U) # SumOver(f, KeyedIn(S, key, U))}
<1>3. ASSUME B # {} PROVE FALSE
  <2>1. PICK U \in B : \A V \in B : V \subseteq U => V = U
    <3> HIDE DEF B
    <3>1. B \in SUBSET SUBSET A
      BY DEF B
    <3> QED
      BY <1>3, <3>1, SmallestSubset
  <2>2. U \in SUBSET A /\ SumOver(p, U) # SumOver(f, KeyedIn(S, key, U)) /\ IsFiniteSet(U)
    BY FS_Subset
  <2>3. U # {}
    <3>1. ASSUME U = {} PROVE FALSE
      <4>1. KeyedIn(S, key, U) = {}
        BY <3>1 DEF KeyedIn
      <4> QED
        BY <2>2, <3>1, <4>1, SumEmpty
    <3> QED
      BY <3>1
  <2>4. PICK a \in U : TRUE
    BY <2>3
  <2>5. PICK V : V = U \ {a}
    OBVIOUS
  <2>6. V \in SUBSET A /\ V \notin B
    BY <2>1, <2>2, <2>4, <2>5
  <2>7. SumOver(p, V) = SumOver(f, KeyedIn(S, key, V))
    BY <2>6
  <2> HIDE DEF B
  <2>8. SumOver(p, U) = p[a] + SumOver(p, V)
    <3>1. \A u \in U : p[u] \in Int
      BY <1>2, <2>2
    <3> QED
      BY <2>2, <2>5, <3>1, SumTake
  <2>9. PICK R : R = KeyedIn(S, key, V)
    OBVIOUS
  <2>10. PICK T : T = Keyed(S, key, a)
    OBVIOUS
  <2>11. R \cap T = {} /\ R \cup T = KeyedIn(S, key, U) /\ R \in SUBSET S /\ T \in SUBSET S
    BY <2>4, <2>5, <2>9, <2>10 DEF KeyedIn, Keyed
  <2>12. IsFiniteSet(R) /\ IsFiniteSet(T)
    BY <2>11, FS_Subset
  <2>13. SumOver(f, R \cup T) = SumOver(f, R) + SumOver(f, T)
    <3>1. \A x \in R \cup T : f[x] \in Int
      BY <2>11
    <3> QED
      BY <2>11, <2>12, <3>1, SumUnion
  <2>14. SumOver(f, R) \in Int /\ SumOver(f, T) \in Int
    BY <2>11, <2>12, SumType
  <2>15. p[a] = SumOver(f, T)
    BY <1>2, <2>2, <2>10
  <2>16. SumOver(f, KeyedIn(S, key, U)) = SumOver(f, R) + SumOver(f, T)
    BY <2>11, <2>13, Zenon
  <2>17. SumOver(p, V) = SumOver(f, R)
    BY <2>7, <2>9
  <2> QED
    BY <2>2, <2>8, <2>14, <2>15, <2>16, <2>17
<1>4. A \in SUBSET A
  OBVIOUS
<1> QED
  BY <1>1, <1>3, <1>4

\* Numbers that are each at most a, together at most a for each of them.
LEMMA SumBound ==
  ASSUME NEW f, NEW S, IsFiniteSet(S), NEW n \in Nat, NEW a \in Nat,
         \A x \in S : f[x] \in Nat /\ f[x] * n <= a
  PROVE  SumOver(f, S) * n <= Cardinality(S) * a
<1> DEFINE B == {T \in SUBSET S : ~ (SumOver(f, T) * n <= Cardinality(T) * a)}
<1>1. SUFFICES ASSUME B # {} PROVE FALSE
  OBVIOUS
<1>2. PICK T \in B : \A U \in B : U \subseteq T => U = T
  <2> HIDE DEF B
  <2>1. B \in SUBSET SUBSET S
    BY DEF B
  <2> QED
    BY <1>1, <2>1, SmallestSubset
<1>3. T \in SUBSET S /\ ~ (SumOver(f, T) * n <= Cardinality(T) * a) /\ IsFiniteSet(T)
  BY FS_Subset
<1>4. T # {}
  <2>1. ASSUME T = {} PROVE FALSE
    <3>1. SumOver(f, T) = 0 /\ Cardinality(T) = 0
      BY <2>1, SumEmpty, FS_EmptySet
    <3> QED
      BY <1>3, <3>1
  <2> QED
    BY <2>1
<1>5. PICK x \in T : TRUE
  BY <1>4
<1>6. PICK U : U = T \ {x}
  OBVIOUS
<1>7. U \in SUBSET S /\ U \notin B /\ IsFiniteSet(U)
  BY <1>2, <1>3, <1>5, <1>6, FS_Subset
<1>8. SumOver(f, U) * n <= Cardinality(U) * a
  BY <1>7
<1> HIDE DEF B
<1>9. Cardinality(T) = Cardinality(U) + 1 /\ Cardinality(U) \in Nat
  <2>1. Cardinality(T) \in Nat /\ Cardinality(U) \in Nat
    BY <1>3, <1>7, FS_CardinalityType
  <2>2. Cardinality(U) = Cardinality(T) - 1
    BY <1>3, <1>5, <1>6, FS_RemoveElement
  <2> QED
    BY <2>1, <2>2
<1>10. SumOver(f, T) = f[x] + SumOver(f, U)
  <2>1. \A y \in T : f[y] \in Int
    BY <1>3
  <2> QED
    BY <1>3, <1>6, <2>1, SumTake
<1>11. SumOver(f, U) \in Nat
  <2>1. \A y \in U : f[y] \in Nat
    BY <1>7
  <2> QED
    BY <1>7, <2>1, SumNat
<1>12. PICK s \in Nat : s = SumOver(f, U)
  BY <1>11
<1>13. PICK c \in Nat : c = Cardinality(U)
  BY <1>9
<1>14. PICK y \in Nat : y = f[x] /\ y * n <= a
  BY <1>3, <1>5
<1>15. (y + s) * n = y * n + s * n /\ (c + 1) * a = c * a + a
  OBVIOUS
<1>16. y * n \in Nat /\ s * n \in Nat /\ c * a \in Nat
  OBVIOUS
<1>17. (y + s) * n <= (c + 1) * a
  BY <1>8, <1>12, <1>13, <1>14, <1>15, <1>16
<1> QED
  BY <1>3, <1>9, <1>10, <1>12, <1>13, <1>14, <1>17
=============================================================================
