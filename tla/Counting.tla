------------------------------- MODULE Counting -------------------------------
(***************************************************************************)
(* Facts about numbers that the proofs share: the least and the largest of   *)
(* a set of them, how many there are, and induction up to a bound.          *)
(***************************************************************************)
EXTENDS FiniteSetTheorems, NaturalsInduction, WellFoundedInduction, TLAPS

\* A set of numbers has a least one.
LEMMA SmallestOf ==
  ASSUME NEW T, T \subseteq Nat, T # {}
  PROVE  \E x \in T : \A y \in T : x <= y
  <1> DEFINE Below == {ss \in Nat \X Nat : ss[1] < ss[2]}
  <1>1. IsWellFoundedOn(Below, Nat)
    BY NatLessThanWellFounded DEF OpToRel
  <1>2. \A x, y \in Nat : y < x => <<y, x>> \in Below
    OBVIOUS
  <1> HIDE DEF Below
  <1>3. PICK x \in T : \A y \in T : ~ (<<y, x>> \in Below)
    BY <1>1, WFMin, Zenon
  <1>4. ASSUME NEW y \in T PROVE x <= y
    <2>1. x \in Nat /\ y \in Nat
      OBVIOUS
    <2>2. ~ (<<y, x>> \in Below)
      BY <1>3, Zenon
    <2>3. ~ (y < x)
      BY <2>1, <2>2, <1>2, Zenon
    <2> QED
      BY <2>1, <2>3
  <1> QED
    BY <1>4

\* A bounded set of numbers has a greatest one.
LEMMA LargestOf ==
  ASSUME NEW c \in Nat, NEW T, T \subseteq 1..c, T # {}
  PROVE  \E x \in T : \A y \in T : y <= x
  <1> DEFINE Mirror == {c - x : x \in T}
  <1>1. Mirror \subseteq Nat /\ Mirror # {}
    <2>1. \A x \in T : x \in Int /\ 1 <= x /\ x <= c
      OBVIOUS
    <2>2. \A x \in T : c - x \in Nat
      BY <2>1
    <2> QED
      BY <2>2
  <1>2. PICK m \in Mirror : \A y \in Mirror : m <= y
    BY <1>1, SmallestOf
  <1>3. PICK x \in T : m = c - x
    OBVIOUS
  <1>4. ASSUME NEW y \in T PROVE y <= x
    <2>1. c - y \in Mirror
      OBVIOUS
    <2>2. m <= c - y
      BY <1>2, <2>1
    <2> QED
      BY <1>3, <2>2
  <1> QED
    BY <1>4

\* Of a set S of numbers, Old are those with at least k greater ones in S.
\* The others are greater than all of Old, at most k, and k of them when there
\* are any Old (the index arithmetic of discardOldVCLs, without its sort).
LEMMA NewestOf ==
  ASSUME NEW c \in Nat, NEW S, S \subseteq 1..c, NEW k \in Nat,
         NEW Old, Old = {n \in S : Cardinality({o \in S : o > n}) >= k}
  PROVE  /\ \A g \in Old, n \in S \ Old : g < n
         /\ Cardinality(S \ Old) <= k
         /\ Old # {} => Cardinality(S \ Old) = k
  <1> DEFINE Above(n) == {o \in S : o > n}
             Kept == S \ Old
  <1>1. IsFiniteSet(S)
    <2>1. IsFiniteSet(1..c)
      BY FS_Interval
    <2> QED
      BY <2>1, FS_Subset
  <1> Old \subseteq S /\ Kept \subseteq S /\ \A n \in S : n \in Nat
    OBVIOUS
  <1>2. \A n \in S : n \in Old <=> Cardinality(Above(n)) >= k
    OBVIOUS
  <1>3. ASSUME NEW n
        PROVE  /\ Above(n) \subseteq S
               /\ IsFiniteSet(Above(n))
               /\ Cardinality(Above(n)) \in Nat
    <2>1. Above(n) \subseteq S
      OBVIOUS
    <2> HIDE DEF Above
    <2> QED
      BY <1>1, <2>1, FS_Subset, FS_CardinalityType
  <1>4. IsFiniteSet(Kept) /\ Cardinality(Kept) \in Nat
    BY <1>1, FS_Subset, FS_CardinalityType
  <1>5. \A g \in Old, n \in Kept : g < n
    <2> SUFFICES ASSUME NEW g \in Old, NEW n \in Kept, n <= g
                 PROVE  FALSE
      OBVIOUS
    <2>0. g \in Int /\ n \in Int /\ n \in S /\ g \in S
      OBVIOUS
    <2>1. Above(g) \subseteq Above(n)
      <3>1. \A o \in S : o > g => o > n
        BY <2>0
      <3> QED
        BY <3>1
    <2> HIDE DEF Above
    <2>2. Cardinality(Above(g)) <= Cardinality(Above(n))
      BY <1>3, <2>1, FS_Subset
    <2>3. Cardinality(Above(g)) >= k /\ ~ (Cardinality(Above(n)) >= k)
      BY <2>0, <1>2
    <2> QED
      BY <1>3, <2>2, <2>3
  <1>6. Cardinality(Kept) <= k
    <2> HIDE DEF Kept
    <2>1. CASE Kept = {}
      <3>1. Cardinality(Kept) = 0
        BY <2>1, FS_EmptySet
      <3> QED
        BY <3>1
    <2> USE DEF Kept
    <2>2. CASE Kept # {}
      <3>1. PICK m \in Kept : \A y \in Kept : m <= y
        <4>1. Kept \subseteq Nat
          OBVIOUS
        <4> HIDE DEF Kept
        <4> QED
          BY <2>2, <4>1, SmallestOf
      <3>2. Kept \subseteq Above(m) \cup {m}
        <4>1. \A y \in Kept : y \in S /\ (y = m \/ y > m)
          BY <3>1
        <4> QED
          BY <4>1
      <3>3. ~ (Cardinality(Above(m)) >= k)
        BY <1>2
      <3>4. m \notin Above(m)
        OBVIOUS
      <3> HIDE DEF Above, Kept
      <3>5. /\ IsFiniteSet(Above(m) \cup {m})
            /\ Cardinality(Above(m) \cup {m}) = Cardinality(Above(m)) + 1
        BY <1>3, <3>4, FS_AddElement
      <3>6. Cardinality(Kept) <= Cardinality(Above(m) \cup {m})
        BY <3>2, <3>5, FS_Subset
      <3> QED
        BY <1>3, <1>4, <3>3, <3>5, <3>6
    <2> QED
      BY <2>1, <2>2
  <1>7. ASSUME Old # {} PROVE Cardinality(Kept) >= k
    <2>1. PICK g \in Old : \A y \in Old : y <= g
      <3>1. Old \subseteq 1..c
        OBVIOUS
      <3> QED
        BY <1>7, <3>1, LargestOf
    <2>2. Above(g) \subseteq Kept
      <3>1. \A y \in Above(g) : y \in S /\ y > g /\ y \in Nat /\ g \in Nat
        OBVIOUS
      <3>2. \A y \in Above(g) : y \notin Old
        BY <2>1, <3>1
      <3> QED
        BY <3>1, <3>2
    <2>3. Cardinality(Above(g)) >= k
      BY <1>2
    <2> HIDE DEF Above, Kept
    <2>4. Cardinality(Above(g)) <= Cardinality(Kept)
      BY <1>4, <2>2, FS_Subset
    <2> QED
      BY <1>3, <1>4, <2>3, <2>4
  <1> QED
    BY <1>4, <1>5, <1>6, <1>7

\* In a finite set every place, counted from the smallest, is taken by one
\* number and no other.
LEMMA PlacesOf ==
  ASSUME NEW c \in Nat, NEW D, D \subseteq 1..c
  PROVE  /\ IsFiniteSet(D) /\ Cardinality(D) \in Nat /\ Cardinality(D) <= c
         /\ \A p \in D : Cardinality({q \in D : q <= p}) \in 1..Cardinality(D)
         /\ \A p, q \in D :
              Cardinality({r \in D : r <= p}) = Cardinality({r \in D : r <= q})
                => p = q
         /\ \A k \in 1..Cardinality(D) :
              \E p \in D : Cardinality({q \in D : q <= p}) = k
  <1> DEFINE UpTo(p) == {q \in D : q <= p}
  <1>1. /\ IsFiniteSet(1..c) /\ Cardinality(1..c) = c
    <2>1. Cardinality(1..c) = IF 1 > c THEN 0 ELSE c - 1 + 1
      BY FS_Interval
    <2> QED
      BY <2>1, FS_Interval
  <1>2. IsFiniteSet(D) /\ Cardinality(D) \in Nat /\ Cardinality(D) <= c
    BY <1>1, FS_Subset, FS_CardinalityType
  <1>3. \A p \in D : p \in Nat
    OBVIOUS
  <1>4. ASSUME NEW p
        PROVE  /\ UpTo(p) \subseteq D
               /\ IsFiniteSet(UpTo(p))
               /\ Cardinality(UpTo(p)) \in Nat
               /\ Cardinality(UpTo(p)) <= Cardinality(D)
    <2>1. UpTo(p) \subseteq D
      OBVIOUS
    <2> HIDE DEF UpTo
    <2> QED
      BY <1>2, <2>1, FS_Subset, FS_CardinalityType
  <1>5. ASSUME NEW p \in D, NEW q \in D, p < q
        PROVE  Cardinality(UpTo(p)) + 1 <= Cardinality(UpTo(q))
    <2>0. p \in Nat /\ q \in Nat
      BY <1>3
    <2>1. UpTo(p) \cup {q} \subseteq UpTo(q) /\ q \notin UpTo(p)
      <3>1. \A r \in D : r <= p => r <= q
        BY <1>3, <1>5, <2>0
      <3>2. q <= q /\ ~ (q <= p)
        BY <1>5, <2>0
      <3> QED
        BY <3>1, <3>2
    <2> HIDE DEF UpTo
    <2>2. /\ Cardinality(UpTo(p) \cup {q}) = Cardinality(UpTo(p)) + 1
          /\ Cardinality(UpTo(p) \cup {q}) <= Cardinality(UpTo(q))
      BY <1>4, <2>1, FS_AddElement, FS_Subset
    <2> QED
      BY <2>2
  <1>6. ASSUME NEW p \in D
        PROVE  Cardinality(UpTo(p)) \in 1..Cardinality(D)
    <2>1. p \in UpTo(p)
      BY <1>3
    <2> HIDE DEF UpTo
    <2>2. Cardinality(UpTo(p)) # 0
      BY <1>4, <2>1, FS_EmptySet
    <2> QED
      BY <1>2, <1>4, <2>2
  <1>7. ASSUME NEW k \in 1..Cardinality(D)
        PROVE  \E p \in D : Cardinality(UpTo(p)) = k
    <2> DEFINE T == {p \in D : Cardinality(UpTo(p)) >= k}
    <2>1. T # {}
      <3>1. D # {}
        BY <1>2, FS_EmptySet
      <3>2. PICK m \in D : \A y \in D : y <= m
        BY <3>1, LargestOf
      <3>3. UpTo(m) = D
        BY <3>2
      <3>4. m \in T
        BY <1>2, <3>3
      <3> QED
        BY <3>4
    <2>2. T \subseteq Nat
      BY <1>3
    <2>3. PICK p \in T : \A y \in T : p <= y
      <3> HIDE DEF T
      <3> QED
        BY <2>1, <2>2, SmallestOf
    <2>4. CASE Cardinality(UpTo(p)) = k
      BY <2>4
    <2>5. CASE Cardinality(UpTo(p)) > k
      <3> DEFINE Below == UpTo(p) \ {p}
      <3>1. p \in UpTo(p) /\ p \in D
        BY <1>3
      <3>2. /\ IsFiniteSet(Below)
            /\ Cardinality(Below) = Cardinality(UpTo(p)) - 1
        BY <1>4, <3>1, FS_RemoveElement
      <3>3. Below # {}
        <4> HIDE DEF Below, UpTo
        <4> QED
          BY <2>5, <3>2, <1>4, FS_EmptySet
      <3>4. Below \subseteq 1..c
        OBVIOUS
      <3>5. PICK m \in Below : \A y \in Below : y <= m
        <4> HIDE DEF Below
        <4> QED
          BY <3>3, <3>4, LargestOf
      <3>6. m \in D /\ m < p
        BY <1>3, <3>1
      <3>7. UpTo(m) = Below
        <4>1. \A y \in D : y <= m => y <= p /\ y # p
          BY <1>3, <3>1, <3>6
        <4>2. UpTo(m) \subseteq Below
          BY <4>1
        <4>3. Below \subseteq UpTo(m)
          BY <3>5
        <4> QED
          BY <4>2, <4>3
      <3>8. m \in T
        <4> HIDE DEF Below, UpTo
        <4> QED
          BY <1>4, <2>5, <3>2, <3>6, <3>7
      <3> QED
        BY <1>3, <2>3, <3>6, <3>8
    <2> QED
      BY <1>4, <2>4, <2>5
  <1>8. ASSUME NEW p \in D, NEW q \in D,
               Cardinality(UpTo(p)) = Cardinality(UpTo(q))
        PROVE  p = q
    <2> HIDE DEF UpTo
    <2> QED
      BY <1>3, <1>4, <1>5, <1>8
  <1> QED
    BY <1>2, <1>6, <1>7, <1>8

\* A finite set of numbers is bounded.
LEMMA BoundOf ==
  ASSUME NEW D, D \subseteq Nat, IsFiniteSet(D)
  PROVE  \E c \in Nat : \A x \in D : x <= c
  <1> DEFINE Bounded(E) == \E c \in Nat : \A x \in E : x <= c
             Wild == {E \in SUBSET D : ~Bounded(E)}
             Sizes == {Cardinality(E) : E \in Wild}
  <1>1. \A E \in SUBSET D :
          E \subseteq Nat /\ IsFiniteSet(E) /\ Cardinality(E) \in Nat
    BY FS_Subset, FS_CardinalityType
  <1>2. Wild = {}
    <2> SUFFICES ASSUME Wild # {} PROVE FALSE
      OBVIOUS
    <2>1. Sizes \subseteq Nat /\ Sizes # {}
      BY <1>1
    <2>2. PICK k \in Sizes : \A j \in Sizes : k <= j
      <3> HIDE DEF Sizes
      <3> QED
        BY <2>1, SmallestOf
    <2>3. PICK E \in Wild : Cardinality(E) = k
      OBVIOUS
    <2>4. E # {}
      <3>1. Bounded({})
        OBVIOUS
      <3> QED
        BY <2>3, <3>1
    <2>5. PICK e \in E : TRUE
      BY <2>4
    <2>6. /\ Cardinality(E \ {e}) = Cardinality(E) - 1
          /\ E \ {e} \in SUBSET D /\ E \in SUBSET D
      BY <1>1, <2>3, <2>5, FS_RemoveElement
    <2>7. Bounded(E \ {e})
      <3> SUFFICES ASSUME E \ {e} \in Wild PROVE FALSE
        BY <2>6
      <3>1. Cardinality(E \ {e}) \in Sizes
        OBVIOUS
      <3> HIDE DEF Wild, Sizes
      <3>2. k <= Cardinality(E \ {e}) /\ Cardinality(E) \in Nat
        BY <1>1, <2>2, <2>6, <3>1
      <3> QED
        BY <2>3, <2>6, <3>2
    <2>8. PICK c \in Nat : \A x \in E \ {e} : x <= c
      BY <2>7
    <2>9. e \in Nat
      BY <1>1, <2>5, <2>6
    <2>10. \A x \in E : x \in Nat
      BY <1>1, <2>6
    <2>11. Bounded(E)
      <3>1. CASE e <= c
        BY <2>8, <3>1
      <3>2. CASE ~ (e <= c)
        <4>1. \A x \in E : x <= e
          BY <2>8, <2>9, <2>10, <3>2
        <4> QED
          BY <2>9, <4>1
      <3> QED
        BY <3>1, <3>2
    <2> QED
      BY <2>3, <2>11
  <1>3. D \in SUBSET D
    OBVIOUS
  <1> QED
    BY <1>2, <1>3

\* Induction up to n, by its least counterexample.
LEMMA UpTo ==
  ASSUME NEW n \in Nat, NEW T, 0 \in T, \A i \in 1..n : i - 1 \in T => i \in T
  PROVE  \A i \in 0..n : i \in T
  <1> DEFINE Bad == {i \in 0..n : i \notin T}
  <1>1. SUFFICES Bad = {}
    OBVIOUS
  <1>2. SUFFICES ASSUME Bad # {} PROVE FALSE
    OBVIOUS
  <1>3. Bad \subseteq Nat
    OBVIOUS
  <1>4. PICK x \in Bad : \A y \in Bad : x <= y
    <2> HIDE DEF Bad
    <2> QED
      BY <1>2, <1>3, SmallestOf
  <1>5. x \in 1..n /\ x - 1 \in 0..n /\ ~(x <= x - 1)
    <2>1. x \in 0..n /\ x # 0 /\ x \in Int
      OBVIOUS
    <2> QED
      BY <2>1
  <1>6. x - 1 \in T
    BY <1>4, <1>5
  <1> QED
    BY <1>5, <1>6

\* f starts with v0, and step i makes its value at i of the one before.
Steps(n, V) == [1..n -> [V -> V]]
IsIterate(f, n, V, v0, step) ==
  /\ f \in [0..n -> V]
  /\ f[0] = v0
  /\ \A i \in 1..n : f[i] = step[i][f[i - 1]]

\* A function defined by recursion up to n exists.
LEMMA IteratesOf ==
  ASSUME NEW n \in Nat, NEW V, NEW v0 \in V, NEW step \in Steps(n, V)
  PROVE  \E f : IsIterate(f, n, V, v0, step)
  <1> USE DEF Steps
  <1> DEFINE Iterates(k) == {f \in [0..k -> V] :
                 f[0] = v0 /\ \A i \in 1..k : f[i] = step[i][f[i - 1]]}
             T == {k \in 0..n : Iterates(k) # {}}
  <1>1. 0 \in T
    <2>1. [i \in 0..0 |-> v0] \in Iterates(0)
      OBVIOUS
    <2> QED
      BY <2>1
  <1>2. ASSUME NEW k \in 1..n, k - 1 \in T PROVE k \in T
    <2>1. PICK f \in [0..(k - 1) -> V] :
            f[0] = v0 /\ \A i \in 1..(k - 1) : f[i] = step[i][f[i - 1]]
      BY <1>2
    <2> DEFINE g == [i \in 0..k |-> IF i < k THEN f[i] ELSE step[k][f[k - 1]]]
    <2>2. step[k][f[k - 1]] \in V
      OBVIOUS
    <2>3. g \in [0..k -> V]
      <3>1. \A i \in 0..k : i < k => i \in 0..(k - 1)
        OBVIOUS
      <3> QED
        BY <2>2, <3>1
    <2>4. g[0] = v0
      BY <2>1
    <2>5. ASSUME NEW i \in 1..k PROVE g[i] = step[i][g[i - 1]]
      <3>1. CASE i < k
        <4>1. i \in 1..(k - 1) /\ i - 1 \in 0..k /\ i \in 0..k /\ i - 1 < k
          BY <3>1
        <4>2. g[i] = f[i] /\ g[i - 1] = f[i - 1]
          BY <3>1, <4>1
        <4> QED
          BY <2>1, <4>1, <4>2
      <3>2. CASE i = k
        <4>1. g[k - 1] = f[k - 1] /\ g[k] = step[k][f[k - 1]]
          OBVIOUS
        <4> QED
          BY <3>2, <4>1
      <3> QED
        BY <3>1, <3>2
    <2>6. g \in Iterates(k)
      <3> HIDE DEF g
      <3> QED
        BY <2>3, <2>4, <2>5
    <2> HIDE DEF g, Iterates
    <2>7. k \in 0..n /\ Iterates(k) # {}
      BY <2>6
    <2> QED
      BY <2>7
  <1> HIDE DEF T
  <1>3. \A i \in 0..n : i \in T
    BY <1>1, <1>2, UpTo
  <1>4. n \in T
    BY <1>3
  <1> QED
    BY <1>4 DEF T, IsIterate
================================================================================
