---------------------------- MODULE CountingLemmas ----------------------------
(***************************************************************************)
(* Induction and sums, for the proofs about counts.                        *)
(*                                                                         *)
(* An induction takes the least number, or a smallest subset of a finite   *)
(* set, for which a claim fails.  A sum over a finite set is the fold that *)
(* MapThenSumSet is; Total is its value on each subset, and the lemmas     *)
(* about it are proved subset by subset.                                   *)
(***************************************************************************)
EXTENDS Integers, FiniteSetsExt, FiniteSetTheorems, TLAPS

\* A set of numbers that is not empty has a least one.
LEMMA LeastNumber ==
    ASSUME NEW S, S \subseteq Nat, S # {}
    PROVE  \E m \in S : \A k \in S : m <= k
<1> DEFINE T == {0 .. n : n \in S}
<1>1. IsWellFoundedOn(StrictSubsetOrdering(Nat), FiniteSubsetsOf(Nat))
  BY FS_StrictSubsetOrderingWellFounded
<1>2. T \subseteq FiniteSubsetsOf(Nat) /\ T # {}
  <2>1. \A n \in S : 0 .. n \in FiniteSubsetsOf(Nat)
    BY FS_Interval DEF FiniteSubsetsOf
  <2> QED BY <2>1
<1>3. \E x \in T : \A y \in T : ~ (<<y, x>> \in StrictSubsetOrdering(Nat))
  <2> HIDE DEF T
  <2> QED BY <1>1, <1>2, WFMin
<1>4. PICK m \in S : \A k \in S : ~ (<<0 .. k, 0 .. m>> \in StrictSubsetOrdering(Nat))
  BY <1>3
<1>5. ASSUME NEW k \in S, k < m PROVE FALSE
  <2>1. 0 .. k \subseteq 0 .. m /\ 0 .. k # 0 .. m
    <3>1. m \in 0 .. m /\ m \notin 0 .. k BY <1>5
    <3> QED BY <3>1, <1>5
  <2>2. (0 .. k) \in SUBSET Nat /\ (0 .. m) \in SUBSET Nat
    OBVIOUS
  <2> QED BY <2>1, <2>2, <1>4 DEF StrictSubsetOrdering
<1> QED BY <1>5

\* Of some subsets of a finite set, one contains no other.
LEMMA SmallestSubset ==
    ASSUME NEW S, IsFiniteSet(S), NEW B, B \subseteq SUBSET S, B # {}
    PROVE  \E T \in B : \A U \in B : U \subseteq T => U = T
<1>1. IsWellFoundedOn(StrictSubsetOrdering(S), SUBSET S)
  BY FS_StrictSubsetOrderingWellFounded, FS_FiniteSubsetsOfFinite
<1>2. PICK T \in B : \A U \in B : ~ (<<U, T>> \in StrictSubsetOrdering(S))
  BY <1>1, WFMin
<1> QED BY <1>2 DEF StrictSubsetOrdering

-----------------------------------------------------------------------------
(* Sums of a function over the subsets of a finite set *)

Sum(g, S) == MapThenSumSet(LAMBDA l : g[l], S)

Some(T) == CHOOSE l \in T : TRUE

Totals(total, g, S) ==
    total = [T \in SUBSET S |-> IF T = {} THEN 0 ELSE g[Some(T)] + total[T \ {Some(T)}]]

Total(g, S) == CHOOSE total : Totals(total, g, S)

\* The fold of the library is the total over the whole set.
LEMMA SumIsTotal ==
    ASSUME NEW g, NEW S
    PROVE  Sum(g, S) = Total(g, S)[S]
BY DEF Sum, MapThenSumSet, MapThenFoldSet, Total, Totals, Some

\* The fold is well defined: it is so on the subsets up to every size.
LEMMA TotalsExist ==
    ASSUME NEW S, IsFiniteSet(S), NEW g
    PROVE  Totals(Total(g, S), g, S)
<1> DEFINE Upto(n) == {T \in SUBSET S : Cardinality(T) <= n}
           Has(n) == \E total : total = [T \in Upto(n) |->
                         IF T = {} THEN 0 ELSE g[Some(T)] + total[T \ {Some(T)}]]
           Bad == {n \in Nat : ~Has(n)}
<1>1. \A T \in SUBSET S : IsFiniteSet(T) /\ Cardinality(T) \in Nat
  BY FS_Subset, FS_CardinalityType
<1>2. \A T \in SUBSET S : T # {} =>
          /\ T \ {Some(T)} \in SUBSET S
          /\ Cardinality(T \ {Some(T)}) = Cardinality(T) - 1
  BY <1>1, FS_RemoveElement DEF Some
<1>3. Has(0)
  <2>1. Upto(0) = {{}}
    BY <1>1, FS_EmptySet
  <2> DEFINE zero == [T \in Upto(0) |-> 0]
  <2>2. zero = [T \in Upto(0) |-> IF T = {} THEN 0 ELSE g[Some(T)] + zero[T \ {Some(T)}]]
    BY <2>1
  <2> QED BY <2>2
<1>4. ASSUME NEW m \in Nat, Has(m) PROVE Has(m + 1)
  <2>1. PICK total : total = [T \in Upto(m) |->
                         IF T = {} THEN 0 ELSE g[Some(T)] + total[T \ {Some(T)}]]
    BY <1>4
  <2> DEFINE next == [T \in Upto(m + 1) |->
                         IF T = {} THEN 0 ELSE g[Some(T)] + total[T \ {Some(T)}]]
  <2>2. ASSUME NEW T \in Upto(m + 1), T # {} PROVE T \ {Some(T)} \in Upto(m)
    <3>1. T \in SUBSET S /\ Cardinality(T) \in Nat /\ Cardinality(T) <= m + 1
      BY <1>1
    <3> QED BY <1>2, <2>2, <3>1
  <2>3. ASSUME NEW T \in Upto(m) PROVE next[T] = total[T]
    <3>1. T \in Upto(m + 1)
      BY <1>1
    <3> HIDE DEF Upto
    <3> QED BY <2>1, <3>1
  <2>4. next = [T \in Upto(m + 1) |->
                    IF T = {} THEN 0 ELSE g[Some(T)] + next[T \ {Some(T)}]]
    <3> HIDE DEF Upto
    <3> QED BY <2>2, <2>3
  <2> QED BY <2>4
<1>5. ASSUME Bad # {} PROVE FALSE
  <2>1. PICK m \in Bad : \A k \in Bad : m <= k
    <3>1. Bad \subseteq Nat OBVIOUS
    <3> HIDE DEF Bad
    <3> QED BY <3>1, <1>5, LeastNumber
  <2> HIDE DEF Has
  <2>2. m # 0 /\ m - 1 \in Nat /\ (m - 1) + 1 = m
    BY <1>3
  <2>3. Has(m - 1)
    BY <2>1, <2>2
  <2> QED BY <1>4, <2>2, <2>3
<1>6. Has(Cardinality(S))
  <2>1. Cardinality(S) \in Nat
    BY FS_CardinalityType
  <2> HIDE DEF Has
  <2> QED BY <1>5, <2>1
<1>7. Upto(Cardinality(S)) = SUBSET S
  BY FS_Subset
<1>8. \E total : Totals(total, g, S)
  BY <1>6, <1>7 DEF Totals
<1> QED BY <1>8 DEF Total

\* Its two equations
LEMMA TotalStep ==
    ASSUME NEW S, IsFiniteSet(S), NEW g
    PROVE  /\ Total(g, S)[{}] = 0
           /\ \A T \in SUBSET S : T # {} =>
                  Total(g, S)[T] = g[Some(T)] + Total(g, S)[T \ {Some(T)}]
<1> DEFINE total == Total(g, S)
<1>1. total = [T \in SUBSET S |-> IF T = {} THEN 0 ELSE g[Some(T)] + total[T \ {Some(T)}]]
  BY TotalsExist DEF Totals
<1> HIDE DEF total
<1>2. total[{}] = 0 /\ \A T \in SUBSET S : T # {} => total[T] = g[Some(T)] + total[T \ {Some(T)}]
  BY <1>1
<1> QED BY <1>2 DEF total

\* A sum of naturals is a natural, and no less than each of its terms.
LEMMA TotalBounds ==
    ASSUME NEW S, IsFiniteSet(S), NEW g \in [S -> Nat]
    PROVE  \A T \in SUBSET S : Total(g, S)[T] \in Nat /\ \A l \in T : g[l] <= Total(g, S)[T]
<1> DEFINE total == Total(g, S)
           Holds(T) == total[T] \in Nat /\ \A l \in T : g[l] <= total[T]
           Bad == {T \in SUBSET S : ~Holds(T)}
<1>1. total[{}] = 0 /\ \A T \in SUBSET S : T # {} => total[T] = g[Some(T)] + total[T \ {Some(T)}]
  BY TotalStep
<1> HIDE DEF total
<1>2. ASSUME Bad # {} PROVE FALSE
  <2>1. PICK T \in Bad : \A U \in Bad : U \subseteq T => U = T
    <3>1. Bad \subseteq SUBSET S OBVIOUS
    <3> HIDE DEF Bad
    <3> QED BY <3>1, <1>2, SmallestSubset
  <2>2. T # {}
    <3>1. total[{}] \in Nat
      BY <1>1
    <3>2. T \in SUBSET S /\ ~Holds(T)
      BY <2>1
    <3> QED BY <3>1, <3>2
  <2>3. Some(T) \in T /\ g[Some(T)] \in Nat
    BY <2>2 DEF Some
  <2>4. Holds(T \ {Some(T)})
    BY <2>1, <2>3
  <2>5. total[T] = g[Some(T)] + total[T \ {Some(T)}]
    BY <1>1, <2>2
  <2>6. total[T] \in Nat
    BY <2>3, <2>4, <2>5
  <2>7. ASSUME NEW l \in T PROVE g[l] <= total[T]
    <3>1. CASE l = Some(T)
      BY <2>3, <2>4, <2>5, <3>1
    <3>2. CASE l # Some(T)
      <4>1. g[l] <= total[T \ {Some(T)}] /\ g[l] \in Nat
        BY <2>4, <3>2
      <4> QED BY <2>3, <2>4, <2>5, <4>1
    <3> QED BY <3>1, <3>2
  <2> QED BY <2>6, <2>7
<1> QED BY <1>2 DEF total

\* Sums follow their terms.
LEMMA TotalMonotone ==
    ASSUME NEW S, IsFiniteSet(S), NEW g \in [S -> Nat], NEW h \in [S -> Nat],
           \A l \in S : g[l] <= h[l]
    PROVE  \A T \in SUBSET S : Total(g, S)[T] <= Total(h, S)[T]
<1> DEFINE small == Total(g, S)
           large == Total(h, S)
           Bad == {T \in SUBSET S : ~(small[T] <= large[T])}
<1>1. /\ small[{}] = 0 /\ \A T \in SUBSET S : T # {} => small[T] = g[Some(T)] + small[T \ {Some(T)}]
      /\ large[{}] = 0 /\ \A T \in SUBSET S : T # {} => large[T] = h[Some(T)] + large[T \ {Some(T)}]
  BY TotalStep
<1>2. \A T \in SUBSET S : small[T] \in Nat /\ large[T] \in Nat
  BY TotalBounds
<1> HIDE DEF small, large
<1>3. ASSUME Bad # {} PROVE FALSE
  <2>1. PICK T \in Bad : \A U \in Bad : U \subseteq T => U = T
    <3>1. Bad \subseteq SUBSET S OBVIOUS
    <3> HIDE DEF Bad
    <3> QED BY <3>1, <1>3, SmallestSubset
  <2>2. T # {}
    <3>1. small[{}] <= large[{}]
      BY <1>1
    <3>2. T \in SUBSET S /\ ~(small[T] <= large[T])
      BY <2>1
    <3> QED BY <3>1, <3>2
  <2>3. Some(T) \in T
    BY <2>2 DEF Some
  <2>4. T \ {Some(T)} \in SUBSET S /\ T \ {Some(T)} \notin Bad
    BY <2>1, <2>3
  <2>5. small[T \ {Some(T)}] <= large[T \ {Some(T)}]
    BY <2>4
  <2>6. g[Some(T)] <= h[Some(T)] /\ g[Some(T)] \in Nat /\ h[Some(T)] \in Nat
    BY <2>3
  <2>7. small[T] <= large[T]
    <3>1. small[T \ {Some(T)}] \in Nat /\ large[T \ {Some(T)}] \in Nat
      BY <1>2, <2>4
    <3>2. /\ small[T] = g[Some(T)] + small[T \ {Some(T)}]
          /\ large[T] = h[Some(T)] + large[T \ {Some(T)}]
      BY <1>1, <2>2
    <3> QED BY <2>5, <2>6, <3>1, <3>2
  <2> QED BY <2>7
<1> QED BY <1>3 DEF small, large

\* One more in one term is one more in the sum.
LEMMA TotalOneMore ==
    ASSUME NEW S, IsFiniteSet(S), NEW g \in [S -> Nat], NEW h \in [S -> Nat], NEW a \in S,
           h[a] = g[a] + 1, \A l \in S \ {a} : h[l] = g[l]
    PROVE  \A T \in SUBSET S :
               Total(h, S)[T] = Total(g, S)[T] + (IF a \in T THEN 1 ELSE 0)
<1> DEFINE before == Total(g, S)
           after == Total(h, S)
           Holds(T) == after[T] = before[T] + (IF a \in T THEN 1 ELSE 0)
           Bad == {T \in SUBSET S : ~Holds(T)}
<1>1. /\ before[{}] = 0
      /\ \A T \in SUBSET S : T # {} => before[T] = g[Some(T)] + before[T \ {Some(T)}]
      /\ after[{}] = 0
      /\ \A T \in SUBSET S : T # {} => after[T] = h[Some(T)] + after[T \ {Some(T)}]
  BY TotalStep
<1>2. \A T \in SUBSET S : before[T] \in Nat /\ after[T] \in Nat
  BY TotalBounds
<1> HIDE DEF before, after
<1>3. ASSUME Bad # {} PROVE FALSE
  <2>1. PICK T \in Bad : \A U \in Bad : U \subseteq T => U = T
    <3>1. Bad \subseteq SUBSET S OBVIOUS
    <3> HIDE DEF Bad
    <3> QED BY <3>1, <1>3, SmallestSubset
  <2>2. T # {}
    <3>1. Holds({})
      BY <1>1
    <3>2. T \in SUBSET S /\ ~Holds(T)
      BY <2>1
    <3> HIDE DEF Holds
    <3> QED BY <3>1, <3>2
  <2> DEFINE x == Some(T)
             U == T \ {x}
  <2>3. x \in T
    BY <2>2 DEF Some
  <2>4. U \in SUBSET S /\ Holds(U)
    BY <2>1, <2>3
  <2>5. /\ before[T] = g[x] + before[U] /\ after[T] = h[x] + after[U]
        /\ before[U] \in Nat /\ after[U] \in Nat /\ g[x] \in Nat
    BY <1>1, <1>2, <2>2, <2>3
  <2>6. CASE x = a
    <3>1. after[U] = before[U] /\ h[x] = g[x] + 1 /\ a \in T
      BY <2>3, <2>4, <2>5, <2>6
    <3> HIDE DEF x, U
    <3> QED BY <2>5, <3>1
  <2>7. CASE x # a
    <3>1. h[x] = g[x] /\ (a \in U <=> a \in T)
      BY <2>3, <2>7
    <3> HIDE DEF x, U
    <3> QED BY <2>4, <2>5, <3>1
  <2> QED BY <2>6, <2>7
<1> QED BY <1>3 DEF before, after

\* The elements that carry a label are as many as there are of each label.
LEMMA TotalCounts ==
    ASSUME NEW S, IsFiniteSet(S), NEW I, IsFiniteSet(I), NEW label,
           NEW g \in [S -> Nat], \A l \in S : g[l] = Cardinality({i \in I : label[i] = l})
    PROVE  \A T \in SUBSET S : Total(g, S)[T] = Cardinality({i \in I : label[i] \in T})
<1> DEFINE total == Total(g, S)
           With(T) == {i \in I : label[i] \in T}
           Bad == {T \in SUBSET S : total[T] # Cardinality(With(T))}
<1>1. total[{}] = 0 /\ \A T \in SUBSET S : T # {} => total[T] = g[Some(T)] + total[T \ {Some(T)}]
  BY TotalStep
<1>2. \A T : IsFiniteSet(With(T)) /\ Cardinality(With(T)) \in Nat
  BY FS_Subset, FS_CardinalityType
<1> HIDE DEF total
<1>3. ASSUME Bad # {} PROVE FALSE
  <2>1. PICK T \in Bad : \A U \in Bad : U \subseteq T => U = T
    <3>1. Bad \subseteq SUBSET S OBVIOUS
    <3> HIDE DEF Bad
    <3> QED BY <3>1, <1>3, SmallestSubset
  <2>2. T # {}
    <3>1. With({}) = {}
      OBVIOUS
    <3> QED BY <1>1, <3>1, FS_EmptySet
  <2> DEFINE x == Some(T)
             U == T \ {x}
  <2>3. x \in T
    BY <2>2 DEF Some
  <2>4. U \in SUBSET S /\ total[U] = Cardinality(With(U))
    <3>1. U \in SUBSET S /\ U # T /\ U \subseteq T
      BY <2>1, <2>3
    <3>2. U \notin Bad
      BY <2>1, <3>1
    <3> HIDE DEF U
    <3> QED BY <3>1, <3>2
  <2>5. total[T] = g[x] + total[U]
    BY <1>1, <2>2
  <2>6. g[x] = Cardinality(With({x}))
    <3>1. With({x}) = {i \in I : label[i] = x}
      OBVIOUS
    <3> HIDE DEF With, x
    <3>2. x \in S
      BY <2>3
    <3> QED BY <3>1, <3>2
  <2>7. With(T) = With(U) \cup With({x}) /\ With(U) \cap With({x}) = {}
    BY <2>3
  <2>8. Cardinality(With(T)) = Cardinality(With(U)) + Cardinality(With({x}))
    <3> HIDE DEF With, U, x
    <3>1. Cardinality(With(U) \cap With({x})) = 0
      BY <2>7, FS_EmptySet
    <3>2. /\ IsFiniteSet(With(U)) /\ IsFiniteSet(With({x}))
          /\ Cardinality(With(U)) \in Nat /\ Cardinality(With({x})) \in Nat
      BY <1>2
    <3>3. Cardinality(With(U) \cup With({x}))
             = Cardinality(With(U)) + Cardinality(With({x})) - Cardinality(With(U) \cap With({x}))
      BY <3>2, FS_Union
    <3> QED BY <2>7, <3>1, <3>2, <3>3
  <2> HIDE DEF With, U, x
  <2>9. total[T] = Cardinality(With(T))
    BY <1>2, <2>4, <2>5, <2>6, <2>8
  <2> QED BY <2>9 DEF With
<1> QED BY <1>3 DEF total

\* A sum of nothing is nothing.
LEMMA TotalZero ==
    ASSUME NEW S, IsFiniteSet(S), NEW g \in [S -> Nat], \A l \in S : g[l] = 0
    PROVE  Total(g, S)[S] = 0
<1> DEFINE total == Total(g, S)
           Bad == {T \in SUBSET S : total[T] # 0}
<1>1. total[{}] = 0 /\ \A T \in SUBSET S : T # {} => total[T] = g[Some(T)] + total[T \ {Some(T)}]
  BY TotalStep
<1> HIDE DEF total
<1>2. ASSUME Bad # {} PROVE FALSE
  <2>1. PICK T \in Bad : \A U \in Bad : U \subseteq T => U = T
    <3>1. Bad \subseteq SUBSET S OBVIOUS
    <3> HIDE DEF Bad
    <3> QED BY <3>1, <1>2, SmallestSubset
  <2>2. T # {}
    BY <1>1, <2>1
  <2>3. Some(T) \in T /\ g[Some(T)] = 0
    BY <2>2 DEF Some
  <2>4. total[T \ {Some(T)}] = 0
    BY <2>1, <2>3
  <2> QED BY <1>1, <2>2, <2>3, <2>4
<1> QED BY <1>2 DEF total

\* A function that is at most b on R and 0 elsewhere sums to at most b for each
\* element of R.
LEMMA TotalWithin ==
    ASSUME NEW S, IsFiniteSet(S), NEW g \in [S -> Nat], NEW R \in SUBSET S, NEW b \in Nat,
           \A l \in S : g[l] <= b /\ (g[l] > 0 => l \in R)
    PROVE  \A T \in SUBSET S : Total(g, S)[T] <= Cardinality(T \cap R) * b
<1> DEFINE total == Total(g, S)
           Bad == {T \in SUBSET S : ~(total[T] <= Cardinality(T \cap R) * b)}
<1>1. total[{}] = 0 /\ \A T \in SUBSET S : T # {} => total[T] = g[Some(T)] + total[T \ {Some(T)}]
  BY TotalStep
<1>2. \A T \in SUBSET S : total[T] \in Nat BY TotalBounds
<1>3. \A T \in SUBSET S : IsFiniteSet(T \cap R) /\ Cardinality(T \cap R) \in Nat
  BY FS_Subset, FS_CardinalityType
<1> HIDE DEF total
<1>4. ASSUME Bad # {} PROVE FALSE
  <2>1. PICK T \in Bad : \A U \in Bad : U \subseteq T => U = T
    <3>1. Bad \subseteq SUBSET S OBVIOUS
    <3> HIDE DEF Bad
    <3> QED BY <3>1, <1>4, SmallestSubset
  <2>2. T \in SUBSET S /\ ~(total[T] <= Cardinality(T \cap R) * b) BY <2>1
  <2>3. T # {}
    <3>1. CASE T = {}
      <4>1. T \cap R = {} BY <3>1
      <4>2. Cardinality(T \cap R) = 0 BY <4>1, FS_EmptySet
      <4> QED BY <1>1, <2>2, <3>1, <4>2
    <3> QED BY <3>1
  <2>4. PICK a : a = Some(T) OBVIOUS
  <2>5. a \in T /\ a \in S BY <2>2, <2>3, <2>4 DEF Some
  <2>6. T \ {a} \in SUBSET S /\ T \ {a} # T BY <2>2, <2>5
  <2>7. total[T \ {a}] <= Cardinality((T \ {a}) \cap R) * b BY <2>1, <2>6
  <2>8. total[T] = g[a] + total[T \ {a}] BY <1>1, <2>2, <2>3, <2>4
  <2>9. CASE a \in R
    <3>1. (T \ {a}) \cap R = (T \cap R) \ {a} /\ a \in T \cap R BY <2>5, <2>9
    <3>2. Cardinality((T \cap R) \ {a}) = Cardinality(T \cap R) - 1
      BY <1>3, <2>2, <3>1, FS_RemoveElement
    <3>3. PICK n \in Nat : n = Cardinality((T \ {a}) \cap R) /\ Cardinality(T \cap R) = n + 1
      BY <1>3, <2>2, <2>6, <3>1, <3>2
    <3>4. (n + 1) * b = n * b + b /\ n * b \in Nat OBVIOUS
    <3>5. g[a] \in Nat /\ g[a] <= b BY <2>5
    <3>6. total[T] \in Nat /\ total[T \ {a}] \in Nat BY <1>2, <2>2, <2>6
    <3> QED BY <2>2, <2>7, <2>8, <3>3, <3>4, <3>5, <3>6
  <2>10. CASE a \notin R
    <3>1. (T \ {a}) \cap R = T \cap R BY <2>10
    <3>2. g[a] = 0 BY <2>5, <2>10
    <3>3. total[T \ {a}] \in Nat BY <1>2, <2>6
    <3>4. total[T] = total[T \ {a}] BY <2>8, <3>2, <3>3
    <3>5. Cardinality((T \ {a}) \cap R) = Cardinality(T \cap R) BY <3>1
    <3> QED BY <2>2, <2>7, <3>4, <3>5
  <2> QED BY <2>9, <2>10
<1> QED BY <1>4 DEF total
==============================================================================
