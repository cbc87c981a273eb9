----------------------------- MODULE FiniteSums -----------------------------
(***************************************************************************)
(* What the proofs of the other modules need of natural numbers and finite *)
(* sets: induction, as the least number or smallest set for which a claim  *)
(* fails, and the sum of a function over a set.                            *)
(***************************************************************************)
EXTENDS FiniteSetsExt, FiniteSetTheorems, WellFoundedInduction, TLAPS

\* A set of natural numbers that is not empty has a least element.
LEMMA LeastElement ==
    ASSUME NEW T \in SUBSET Nat, T # {}
    PROVE  \E m \in T : \A k \in T : m <= k
<1>1. PICK m \in T : \A k \in T : ~(<<k, m>> \in OpToRel(<, Nat))
  BY NatLessThanWellFounded, WFMin, Zenon
<1>2. \A k \in T : ~(k < m)
  BY <1>1 DEF OpToRel
<1>3. QED
  BY <1>2

\* A finite set is in P if every subset is that has all smaller ones in P.
LEMMA SubsetInduction ==
    ASSUME NEW S, IsFiniteSet(S), NEW P,
           \A s \in SUBSET S :
               (\A t \in SUBSET S : Cardinality(t) < Cardinality(s) => t \in P) => s \in P
    PROVE  S \in P
<1> SUFFICES ASSUME S \notin P PROVE FALSE
  OBVIOUS
<1> DEFINE T == {n \in Nat : \E s \in SUBSET S : Cardinality(s) = n /\ s \notin P}
<1>1. \A s \in SUBSET S : Cardinality(s) \in Nat
  BY FS_Subset, FS_CardinalityType
<1>2. PICK n \in T : \A k \in T : n <= k
  <2>1. S \in SUBSET S /\ Cardinality(S) \in Nat
    BY <1>1
  <2>2. Cardinality(S) \in T /\ T \in SUBSET Nat
    BY <2>1
  <2> HIDE DEF T
  <2>3. QED
    BY <2>2, LeastElement
<1>3. PICK s \in SUBSET S : Cardinality(s) = n /\ s \notin P
  BY <1>2
<1>4. \A t \in SUBSET S : Cardinality(t) < n => t \in P
  <2>1. ASSUME NEW t \in SUBSET S, Cardinality(t) < n, t \notin P PROVE FALSE
    <3>1. Cardinality(t) \in T /\ Cardinality(t) \in Nat
      BY <1>1, <2>1
    <3>2. n \in Nat /\ n <= Cardinality(t)
      BY <1>2, <3>1
    <3>3. QED
      BY <2>1, <3>1, <3>2
  <2>2. QED
    BY <2>1
<1>5. QED
  BY <1>3, <1>4

\* Taking an element away.
LEMMA Smaller ==
    ASSUME NEW S, IsFiniteSet(S), NEW x \in S
    PROVE  /\ IsFiniteSet(S \ {x}) /\ Cardinality(S) \in Nat /\ Cardinality(S \ {x}) \in Nat
           /\ Cardinality(S \ {x}) < Cardinality(S)
           /\ Cardinality(S \ {x}) = Cardinality(S) - 1
<1>1. /\ IsFiniteSet(S \ {x})
      /\ Cardinality(S \ {x}) = Cardinality(S) - 1
  BY FS_RemoveElement
<1>2. Cardinality(S) \in Nat /\ Cardinality(S \ {x}) \in Nat
  BY <1>1, FS_CardinalityType
<1>3. QED
  BY <1>1, <1>2

-----------------------------------------------------------------------------
\* The element the sum takes first.
Pick(s) == CHOOSE x \in s : TRUE

LEMMA PickFacts == ASSUME NEW s, s # {} PROVE Pick(s) \in s
BY DEF Pick

SumOn(f, S) == MapThenSumSet(LAMBDA i : f[i], S)

\* it gives the sum of f over each set in D.
Sums(it, f, D) == it = [s \in D |-> IF s = {} THEN 0 ELSE f[Pick(s)] + it[s \ {Pick(s)}]]

SumsAll(it, f, S) == Sums(it, f, SUBSET S)

UpTo(S, n) == {s \in SUBSET S : Cardinality(s) <= n}

LEMMA SumsStep ==
    ASSUME NEW S, IsFiniteSet(S), NEW f, NEW n \in Nat, NEW it, Sums(it, f, UpTo(S, n))
    PROVE  \E g : Sums(g, f, UpTo(S, n + 1))
<1> DEFINE F(h, s) == IF s = {} THEN 0 ELSE f[Pick(s)] + h[s \ {Pick(s)}]
           g == [s \in UpTo(S, n + 1) |-> F(it, s)]
<1>1. \A s \in UpTo(S, n) : it[s] = F(it, s)
  <2>1. it = [s \in UpTo(S, n) |-> F(it, s)]
    BY Zenon DEF Sums
  <2> HIDE DEF F
  <2>2. QED
    BY <2>1, Zenon
<1>2. \A s \in UpTo(S, n + 1) : g[s] = F(it, s)
  OBVIOUS
<1>3. UpTo(S, n) \subseteq UpTo(S, n + 1)
  <2>1. \A s \in SUBSET S : Cardinality(s) \in Nat
    BY FS_Subset, FS_CardinalityType
  <2>2. QED
    BY <2>1 DEF UpTo
<1>4. ASSUME NEW s \in UpTo(S, n + 1), s # {}
      PROVE  s \ {Pick(s)} \in UpTo(S, n)
  <2>1. Pick(s) \in s /\ s \in SUBSET S /\ IsFiniteSet(s) /\ Cardinality(s) <= n + 1
    BY <1>4, PickFacts, FS_Subset DEF UpTo
  <2>2. /\ Cardinality(s) \in Nat /\ Cardinality(s \ {Pick(s)}) \in Nat
        /\ Cardinality(s \ {Pick(s)}) = Cardinality(s) - 1
    BY <2>1, Smaller
  <2>3. Cardinality(s \ {Pick(s)}) <= n
    BY <2>1, <2>2
  <2>4. s \ {Pick(s)} \in SUBSET S
    BY <2>1
  <2>5. QED
    BY <2>3, <2>4 DEF UpTo
<1>5. ASSUME NEW s \in UpTo(S, n + 1) PROVE g[s] = F(g, s)
  <2>1. CASE s = {}
    BY <1>2, <2>1
  <2>2. CASE s # {}
    <3>1. s \ {Pick(s)} \in UpTo(S, n)
      BY <1>4, <2>2
    <3>2. g[s \ {Pick(s)}] = it[s \ {Pick(s)}]
      <4> HIDE DEF F, g
      <4>1. QED
        BY <1>1, <1>2, <1>3, <3>1
    <3> HIDE DEF g
    <3>3. F(it, s) = F(g, s)
      BY <3>2
    <3>4. QED
      BY <1>2, <3>3
  <2>3. QED
    BY <2>1, <2>2
<1>6. g = [s \in UpTo(S, n + 1) |-> g[s]]
  <2> HIDE DEF F
  <2>1. QED
    BY Zenon
<1>7. [s \in UpTo(S, n + 1) |-> g[s]] = [s \in UpTo(S, n + 1) |-> F(g, s)]
  <2> HIDE DEF g, F
  <2>1. QED
    BY <1>5, Zenon
<1>8. Sums(g, f, UpTo(S, n + 1))
  <2> HIDE DEF g
  <2>1. QED
    BY <1>6, <1>7, Zenon DEF Sums
<1>9. QED
  BY <1>8, Zenon

LEMMA SumsExist ==
    ASSUME NEW S, IsFiniteSet(S), NEW f
    PROVE  \E it : Sums(it, f, SUBSET S)
<1> DEFINE T == {n \in Nat : ~\E it : Sums(it, f, UpTo(S, n))}
<1>1. \A s \in SUBSET S : /\ IsFiniteSet(s) /\ Cardinality(s) \in Nat
                          /\ Cardinality(s) <= Cardinality(S)
  BY FS_Subset, FS_CardinalityType
<1>2. T = {}
  <2> SUFFICES ASSUME T # {} PROVE FALSE
    OBVIOUS
  <2>1. T \in SUBSET Nat
    OBVIOUS
  <2>2. PICK n \in T : \A k \in T : n <= k
    <3> HIDE DEF T
    <3>1. QED
      BY <2>1, LeastElement
  <2>3. n \in Nat /\ ~\E it : Sums(it, f, UpTo(S, n))
    BY <2>2, Zenon
  <2>4. CASE n = 0
    <3> DEFINE g == [s \in UpTo(S, 0) |-> 0]
    <3>1. \A s \in UpTo(S, 0) : s = {}
      <4>1. \A s \in SUBSET S : Cardinality(s) = 0 => s = {}
        BY <1>1, FS_EmptySet
      <4>2. QED
        BY <1>1, <4>1 DEF UpTo
    <3>2. g = [s \in UpTo(S, 0) |-> IF s = {} THEN 0 ELSE f[Pick(s)] + g[s \ {Pick(s)}]]
      BY <3>1, Zenon
    <3>3. Sums(g, f, UpTo(S, 0))
      <4> HIDE DEF g
      <4>1. QED
        BY <3>2, Zenon DEF Sums
    <3>4. QED
      BY <2>3, <2>4, <3>3, Zenon
  <2>5. CASE n # 0
    <3>1. PICK m \in Nat : n = m + 1 /\ m \notin T
      <4>1. n - 1 \in Nat /\ n = (n - 1) + 1 /\ ~(n <= n - 1)
        BY <2>3, <2>5
      <4> HIDE DEF T
      <4>2. QED
        BY <2>2, <4>1
    <3>2. PICK it : Sums(it, f, UpTo(S, m))
      BY <3>1, Zenon
    <3>3. QED
      BY <2>3, <3>1, <3>2, SumsStep, Zenon
  <2>6. QED
    BY <2>4, <2>5
<1>3. UpTo(S, Cardinality(S)) = SUBSET S
  BY <1>1 DEF UpTo
<1>4. Cardinality(S) \in Nat /\ Cardinality(S) \notin T
  BY <1>1, <1>2
<1>5. \E it : Sums(it, f, UpTo(S, Cardinality(S)))
  BY <1>4, Zenon
<1>6. QED
  BY <1>3, <1>5, Zenon

LEMMA SumIsIter ==
    ASSUME NEW S, IsFiniteSet(S), NEW f
    PROVE  \E it : SumsAll(it, f, S) /\ SumOn(f, S) = it[S]
<1> DEFINE F == CHOOSE it : Sums(it, f, SUBSET S)
<1>1. Sums(F, f, SUBSET S)
  BY SumsExist, Zenon
<1>2. SumOn(f, S) = F[S]
  BY Zenon DEF SumOn, MapThenSumSet, MapThenFoldSet, Sums, Pick
<1>3. QED
  BY <1>1, <1>2, Zenon DEF SumsAll

\* A subset has the same sum, whichever set its iteration was made for.
LEMMA SumOfSubset ==
    ASSUME NEW S, IsFiniteSet(S), NEW f, NEW it, SumsAll(it, f, S), NEW T \in SUBSET S
    PROVE  it[T] = SumOn(f, T)
<1>1. IsFiniteSet(T)
  BY FS_Subset
<1>2. PICK jt : SumsAll(jt, f, T) /\ SumOn(f, T) = jt[T]
  BY <1>1, SumIsIter, Zenon
<1>3. \A s \in SUBSET S : it[s] = IF s = {} THEN 0 ELSE f[Pick(s)] + it[s \ {Pick(s)}]
  <2>1. it = [s \in SUBSET S |-> IF s = {} THEN 0 ELSE f[Pick(s)] + it[s \ {Pick(s)}]]
    BY Zenon DEF Sums, SumsAll
  <2>2. QED
    BY <2>1, Zenon
<1>4. \A s \in SUBSET T : jt[s] = IF s = {} THEN 0 ELSE f[Pick(s)] + jt[s \ {Pick(s)}]
  <2>1. jt = [s \in SUBSET T |-> IF s = {} THEN 0 ELSE f[Pick(s)] + jt[s \ {Pick(s)}]]
    BY <1>2, Zenon DEF Sums, SumsAll
  <2>2. QED
    BY <2>1, Zenon
<1> DEFINE P == {s \in SUBSET T : it[s] = jt[s]}
<1>5. ASSUME NEW s \in SUBSET T,
             \A t \in SUBSET T : Cardinality(t) < Cardinality(s) => t \in P
      PROVE  s \in P
  <2>1. CASE s = {}
    <3>1. it[s] = 0 /\ jt[s] = 0
      BY <1>3, <1>4, <2>1, Zenon
    <3>2. QED
      BY <3>1
  <2>2. CASE s # {}
    <3>1. Pick(s) \in s /\ IsFiniteSet(s) /\ s \in SUBSET S
      BY <1>1, <2>2, PickFacts, FS_Subset
    <3>2. s \ {Pick(s)} \in SUBSET T /\ Cardinality(s \ {Pick(s)}) < Cardinality(s)
      BY <3>1, Smaller
    <3>3. it[s \ {Pick(s)}] = jt[s \ {Pick(s)}]
      BY <1>5, <3>2
    <3>4. /\ it[s] = f[Pick(s)] + it[s \ {Pick(s)}]
          /\ jt[s] = f[Pick(s)] + jt[s \ {Pick(s)}]
      BY <1>3, <1>4, <2>2, <3>1, Zenon
    <3>5. QED
      BY <3>3, <3>4, Zenon
  <2>3. QED
    BY <2>1, <2>2
<1>6. T \in P
  <2> HIDE DEF P
  <2>1. QED
    BY <1>1, <1>5, SubsetInduction
<1>7. QED
  BY <1>2, <1>6

\* The recursion of the sum.
LEMMA SumPick ==
    ASSUME NEW S, IsFiniteSet(S), NEW f
    PROVE  SumOn(f, S) = IF S = {} THEN 0 ELSE f[Pick(S)] + SumOn(f, S \ {Pick(S)})
<1>1. PICK it : SumsAll(it, f, S) /\ SumOn(f, S) = it[S]
  BY SumIsIter, Zenon
<1>2. S \in SUBSET S /\ S \ {Pick(S)} \in SUBSET S
  OBVIOUS
<1>3. it[S] = IF S = {} THEN 0 ELSE f[Pick(S)] + it[S \ {Pick(S)}]
  <2>1. it = [s \in SUBSET S |-> IF s = {} THEN 0 ELSE f[Pick(s)] + it[s \ {Pick(s)}]]
    BY <1>1, Zenon DEF Sums, SumsAll
  <2>2. QED
    BY <1>2, <2>1, Zenon
<1>4. it[S \ {Pick(S)}] = SumOn(f, S \ {Pick(S)})
  BY <1>1, <1>2, SumOfSubset
<1>5. QED
  BY <1>1, <1>3, <1>4, Zenon

LEMMA SumEmpty == ASSUME NEW f PROVE SumOn(f, {}) = 0
<1>1. IsFiniteSet({})
  BY FS_EmptySet
<1>2. QED
  BY <1>1, SumPick, Zenon

LEMMA SumNat ==
    ASSUME NEW S, IsFiniteSet(S), NEW f, \A x \in S : f[x] \in Nat
    PROVE  SumOn(f, S) \in Nat
<1> DEFINE P == {s \in SUBSET S : SumOn(f, s) \in Nat}
<1>1. ASSUME NEW s \in SUBSET S,
             \A t \in SUBSET S : Cardinality(t) < Cardinality(s) => t \in P
      PROVE  s \in P
  <2>1. IsFiniteSet(s)
    BY FS_Subset
  <2>2. SumOn(f, s) = IF s = {} THEN 0 ELSE f[Pick(s)] + SumOn(f, s \ {Pick(s)})
    BY <2>1, SumPick
  <2>3. CASE s # {}
    <3>1. Pick(s) \in s /\ f[Pick(s)] \in Nat
      BY <2>3, PickFacts
    <3>2. s \ {Pick(s)} \in SUBSET S /\ Cardinality(s \ {Pick(s)}) < Cardinality(s)
      BY <2>1, <3>1, Smaller
    <3>3. SumOn(f, s \ {Pick(s)}) \in Nat
      BY <1>1, <3>2
    <3>4. QED
      BY <2>2, <2>3, <3>1, <3>3
  <2>4. QED
    BY <2>2, <2>3
<1>2. S \in P
  <2> HIDE DEF P
  <2>1. QED
    BY <1>1, SubsetInduction
<1>3. QED
  BY <1>2

\* Any element may be taken first.
LEMMA SumRemove ==
    ASSUME NEW S, IsFiniteSet(S), NEW f, \A y \in S : f[y] \in Nat, NEW x \in S
    PROVE  /\ SumOn(f, S) = f[x] + SumOn(f, S \ {x})
           /\ SumOn(f, S \ {x}) \in Nat
<1> DEFINE P == {s \in SUBSET S : \A y \in s : SumOn(f, s) = f[y] + SumOn(f, s \ {y})}
<1>1. ASSUME NEW s \in SUBSET S,
             \A t \in SUBSET S : Cardinality(t) < Cardinality(s) => t \in P
      PROVE  s \in P
  <2>1. IsFiniteSet(s)
    BY FS_Subset
  <2>2. SUFFICES ASSUME NEW y \in s PROVE SumOn(f, s) = f[y] + SumOn(f, s \ {y})
    BY <2>2
  <2> DEFINE c == Pick(s)
  <2>3. c \in s /\ SumOn(f, s) = f[c] + SumOn(f, s \ {c})
    BY <2>1, PickFacts, SumPick
  <2>4. CASE c = y
    BY <2>3, <2>4
  <2>5. CASE c # y
    <3>1. /\ s \ {c} \in SUBSET S /\ Cardinality(s \ {c}) < Cardinality(s)
          /\ s \ {y} \in SUBSET S /\ Cardinality(s \ {y}) < Cardinality(s)
      BY <2>1, <2>3, Smaller
    <3>2. y \in s \ {c} /\ c \in s \ {y} /\ (s \ {c}) \ {y} = (s \ {y}) \ {c}
      BY <2>3, <2>5
    <3>3. s \ {c} \in P /\ s \ {y} \in P
      BY <1>1, <3>1
    <3> HIDE DEF c
    <3>4. SumOn(f, s \ {c}) = f[y] + SumOn(f, (s \ {c}) \ {y})
      BY <3>2, <3>3
    <3>5. SumOn(f, s \ {y}) = f[c] + SumOn(f, (s \ {y}) \ {c})
      BY <3>2, <3>3
    <3>6. SumOn(f, (s \ {y}) \ {c}) \in Nat
      <4>1. IsFiniteSet((s \ {y}) \ {c}) /\ (s \ {y}) \ {c} \in SUBSET S
        BY FS_Subset
      <4>2. QED
        BY <4>1, SumNat
    <3>7. f[y] \in Nat /\ f[c] \in Nat
      BY <2>3
    <3>8. PICK r \in Nat : r = SumOn(f, (s \ {y}) \ {c})
      BY <3>6
    <3>9. SumOn(f, s) = f[c] + (f[y] + r) /\ SumOn(f, s \ {y}) = f[c] + r
      BY <2>3, <3>2, <3>4, <3>5, <3>8, Zenon
    <3>10. QED
      BY <3>7, <3>9
  <2>6. QED
    BY <2>4, <2>5
<1>2. S \in P
  <2> HIDE DEF P
  <2>1. QED
    BY <1>1, SubsetInduction
<1>3. IsFiniteSet(S \ {x}) /\ \A y \in S \ {x} : f[y] \in Nat
  BY Smaller
<1>4. QED
  BY <1>2, <1>3, SumNat

\* Functions that agree have the same sum, and a larger one no smaller sum.
LEMMA SumMonotone ==
    ASSUME NEW S, IsFiniteSet(S), NEW f, NEW g,
           \A x \in S : f[x] \in Nat /\ g[x] \in Nat /\ f[x] <= g[x]
    PROVE  SumOn(f, S) <= SumOn(g, S)
<1> DEFINE P == {s \in SUBSET S : SumOn(f, s) <= SumOn(g, s)}
<1>1. ASSUME NEW s \in SUBSET S,
             \A t \in SUBSET S : Cardinality(t) < Cardinality(s) => t \in P
      PROVE  s \in P
  <2>1. IsFiniteSet(s)
    BY FS_Subset
  <2>2. /\ SumOn(f, s) = IF s = {} THEN 0 ELSE f[Pick(s)] + SumOn(f, s \ {Pick(s)})
        /\ SumOn(g, s) = IF s = {} THEN 0 ELSE g[Pick(s)] + SumOn(g, s \ {Pick(s)})
    BY <2>1, SumPick
  <2>3. CASE s # {}
    <3>1. /\ Pick(s) \in s /\ f[Pick(s)] \in Nat /\ g[Pick(s)] \in Nat
          /\ f[Pick(s)] <= g[Pick(s)]
      BY <2>3, PickFacts
    <3>2. /\ s \ {Pick(s)} \in SUBSET S /\ Cardinality(s \ {Pick(s)}) < Cardinality(s)
          /\ IsFiniteSet(s \ {Pick(s)})
      BY <2>1, <3>1, Smaller
    <3>3. SumOn(f, s \ {Pick(s)}) <= SumOn(g, s \ {Pick(s)})
      BY <1>1, <3>2
    <3>4. SumOn(f, s \ {Pick(s)}) \in Nat /\ SumOn(g, s \ {Pick(s)}) \in Nat
      BY <3>2, SumNat
    <3>5. QED
      BY <2>2, <2>3, <3>1, <3>3, <3>4
  <2>4. QED
    BY <2>2, <2>3
<1>2. S \in P
  <2> HIDE DEF P
  <2>1. QED
    BY <1>1, SubsetInduction
<1>3. QED
  BY <1>2

LEMMA SumEqual ==
    ASSUME NEW S, IsFiniteSet(S), NEW f, NEW g, \A x \in S : f[x] \in Nat /\ f[x] = g[x]
    PROVE  SumOn(f, S) = SumOn(g, S)
<1>1. \A x \in S : g[x] \in Nat /\ f[x] <= g[x] /\ g[x] <= f[x]
  OBVIOUS
<1>2. SumOn(f, S) <= SumOn(g, S) /\ SumOn(g, S) <= SumOn(f, S)
  BY <1>1, SumMonotone
<1>3. SumOn(f, S) \in Nat /\ SumOn(g, S) \in Nat
  BY <1>1, SumNat
<1>4. QED
  BY <1>2, <1>3

\* One value changes.
LEMMA SumUpdate ==
    ASSUME NEW S, IsFiniteSet(S), NEW f, NEW g, NEW x \in S,
           \A y \in S : f[y] \in Nat /\ g[y] \in Nat,
           \A y \in S : y # x => f[y] = g[y]
    PROVE  SumOn(g, S) + f[x] = SumOn(f, S) + g[x]
<1>1. /\ SumOn(f, S) = f[x] + SumOn(f, S \ {x}) /\ SumOn(f, S \ {x}) \in Nat
      /\ SumOn(g, S) = g[x] + SumOn(g, S \ {x}) /\ SumOn(g, S \ {x}) \in Nat
  BY SumRemove
<1>2. SumOn(f, S \ {x}) = SumOn(g, S \ {x})
  <2>1. IsFiniteSet(S \ {x})
    BY Smaller
  <2>2. QED
    BY <2>1, SumEqual
<1>3. f[x] \in Nat /\ g[x] \in Nat
  OBVIOUS
<1>4. QED
  BY <1>1, <1>2, <1>3

LEMMA SumZero ==
    ASSUME NEW S, IsFiniteSet(S), NEW f, \A x \in S : f[x] = 0
    PROVE  SumOn(f, S) = 0
<1> DEFINE P == {s \in SUBSET S : SumOn(f, s) = 0}
<1>1. ASSUME NEW s \in SUBSET S,
             \A t \in SUBSET S : Cardinality(t) < Cardinality(s) => t \in P
      PROVE  s \in P
  <2>1. IsFiniteSet(s)
    BY FS_Subset
  <2>2. SumOn(f, s) = IF s = {} THEN 0 ELSE f[Pick(s)] + SumOn(f, s \ {Pick(s)})
    BY <2>1, SumPick
  <2>3. CASE s # {}
    <3>1. Pick(s) \in s /\ f[Pick(s)] = 0
      BY <2>3, PickFacts
    <3>2. s \ {Pick(s)} \in SUBSET S /\ Cardinality(s \ {Pick(s)}) < Cardinality(s)
      BY <2>1, <3>1, Smaller
    <3>3. SumOn(f, s \ {Pick(s)}) = 0
      BY <1>1, <3>2
    <3>4. QED
      BY <2>2, <2>3, <3>1, <3>3
  <2>4. QED
    BY <2>2, <2>3
<1>2. S \in P
  <2> HIDE DEF P
  <2>1. QED
    BY <1>1, SubsetInduction
<1>3. QED
  BY <1>2

\* Only where the function is not zero does the set matter.
LEMMA SumSupport ==
    ASSUME NEW S, IsFiniteSet(S), NEW T \in SUBSET S, NEW f,
           \A x \in S : f[x] \in Nat, \A x \in S \ T : f[x] = 0
    PROVE  SumOn(f, S) = SumOn(f, T)
<1> DEFINE R == S \ T
           P == {s \in SUBSET R : SumOn(f, T \union s) = SumOn(f, T)}
<1>1. ASSUME NEW s \in SUBSET R,
             \A t \in SUBSET R : Cardinality(t) < Cardinality(s) => t \in P
      PROVE  s \in P
  <2>1. CASE s = {}
    BY <2>1
  <2>2. CASE s # {}
    <3>1. PICK x : x \in s
      BY <2>2
    <3>2. IsFiniteSet(s) /\ IsFiniteSet(T \union s) /\ T \union s \in SUBSET S
      <4>1. s \in SUBSET S /\ T \union s \in SUBSET S
        OBVIOUS
      <4>2. QED
        BY <4>1, FS_Subset
    <3>3. s \ {x} \in SUBSET R /\ Cardinality(s \ {x}) < Cardinality(s)
      BY <3>1, <3>2, Smaller
    <3>4. SumOn(f, T \union (s \ {x})) = SumOn(f, T)
      BY <1>1, <3>3
    <3>5. x \in T \union s /\ x \notin T /\ f[x] = 0
      BY <3>1
    <3>6. (T \union s) \ {x} = T \union (s \ {x})
      BY <3>5
    <3>7. /\ SumOn(f, T \union s) = f[x] + SumOn(f, (T \union s) \ {x})
          /\ SumOn(f, (T \union s) \ {x}) \in Nat
      <4>1. \A y \in T \union s : f[y] \in Nat
        BY <3>2
      <4>2. QED
        BY <3>2, <3>5, <4>1, SumRemove
    <3>8. SumOn(f, T) \in Nat /\ SumOn(f, T \union s) = 0 + SumOn(f, T)
      BY <3>4, <3>5, <3>6, <3>7, Zenon
    <3>9. SumOn(f, T \union s) = SumOn(f, T)
      BY <3>8
    <3>10. QED
      BY <3>9, Zenon
  <2>3. QED
    BY <2>1, <2>2
<1>2. R \in P
  <2>1. IsFiniteSet(R)
    BY FS_Subset
  <2> HIDE DEF P, R
  <2>2. QED
    BY <1>1, <2>1, SubsetInduction
<1>3. T \union R = S
  OBVIOUS
<1>4. QED
  BY <1>2, <1>3
=============================================================================
