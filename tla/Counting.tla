------------------------------- MODULE Counting --------------------------------
(* Lemmas about how many things there are, and about what is defined one step *)
(* after the other. *)
EXTENDS Integers, Sequences, SequencesExt, FiniteSetTheorems, SequenceTheorems, TLAPS

-----------------------------------------------------------------------------
\* before[p] is what goes before p among S, and each two of S are ordered.
Ordered(before, S) ==
  /\ before \in [S -> SUBSET S]
  /\ \A p \in S : p \notin before[p]
  /\ \A p, q \in S : p # q => p \in before[q] \/ q \in before[p]
  /\ \A p, q \in S : p \in before[q] => before[p] \subseteq before[q]

\* Each number below n is how many go before exactly one of S.
Ranked(before, S, n) ==
  /\ \A p \in S : Cardinality(before[p]) \in 0..(n - 1)
  /\ \A p, q \in S : Cardinality(before[p]) = Cardinality(before[q]) => p = q
  /\ \A k \in 1..n : \E p \in S : Cardinality(before[p]) = k - 1

\* Among n things of which each two are ordered, exactly one has k - 1 others
\* before it.
LEMMA OnePerRank ==
  ASSUME NEW S, IsFiniteSet(S), NEW before, Ordered(before, S)
  PROVE  Ranked(before, S, Cardinality(S))
  <1> DEFINE n == Cardinality(S)
  <1>1. n \in Nat
    BY FS_CardinalityType
  <1>2. ASSUME NEW p \in S
        PROVE  IsFiniteSet(before[p]) /\ Cardinality(before[p]) \in 0..(n - 1)
    <2>1. before[p] \in SUBSET (S \ {p})
      BY DEF Ordered
    <2>2. IsFiniteSet(S \ {p}) /\ Cardinality(S \ {p}) = n - 1
      BY FS_RemoveElement
    <2>3. IsFiniteSet(before[p]) /\ Cardinality(before[p]) <= n - 1
      BY <2>1, <2>2, FS_Subset
    <2>4. Cardinality(before[p]) \in Nat
      BY <2>3, FS_CardinalityType
    <2> QED BY <1>1, <2>3, <2>4
  <1>3. ASSUME NEW p \in S, NEW q \in S, p \in before[q]
        PROVE  Cardinality(before[p]) # Cardinality(before[q])
    <2>1. before[p] \in SUBSET before[q] /\ before[p] # before[q]
      BY <1>3 DEF Ordered
    <2> QED BY <1>2, <2>1, FS_Subset
  <1>4. \A p, q \in S : Cardinality(before[p]) = Cardinality(before[q]) => p = q
    BY <1>3 DEF Ordered
  <1>5. ASSUME NEW k \in 1..n PROVE \E p \in S : Cardinality(before[p]) = k - 1
    <2> DEFINE rank == [p \in S |-> Cardinality(before[p])]
    <2>1. rank \in [S -> 0..(n - 1)]
      BY <1>2
    <2>2. rank \in Injection(S, 0..(n - 1))
      BY <1>4, <2>1 DEF Injection, IsInjective
    <2>3. IsFiniteSet(0..(n - 1)) /\ Cardinality(0..(n - 1)) = n
      <3> HIDE DEF n
      <3>1. 0 \in Int /\ n - 1 \in Int
        BY <1>1
      <3>2. /\ IsFiniteSet(0..(n - 1))
            /\ Cardinality(0..(n - 1)) = IF 0 > n - 1 THEN 0 ELSE (n - 1) - 0 + 1
        BY <3>1, FS_Interval
      <3> QED BY <1>1, <3>2
    <2>4. k - 1 \in 0..(n - 1)
      BY <1>1
    <2>5. \E p \in S : rank[p] = k - 1
      <3> HIDE DEF rank
      <3>1. rank \in Surjection(S, 0..(n - 1))
        BY <2>2, <2>3, FS_Injection
      <3> QED BY <2>4, <3>1 DEF Surjection
    <2> QED BY <2>5
  <1> QED BY <1>2, <1>4, <1>5 DEF Ranked

\* Numbers are ordered by size.
LEMMA NumbersRanked ==
  ASSUME NEW n \in Nat, NEW I \in SUBSET (1..n)
  PROVE  /\ IsFiniteSet(I) /\ Cardinality(I) \in Nat
         /\ \A i \in I : Cardinality({j \in I : j < i}) \in 0..(Cardinality(I) - 1)
         /\ \A i, j \in I :
              Cardinality({k \in I : k < i}) = Cardinality({k \in I : k < j}) => i = j
         /\ \A k \in 1..Cardinality(I) : \E i \in I : Cardinality({j \in I : j < i}) = k - 1
  <1> DEFINE before == [i \in I |-> {j \in I : j < i}]
  <1>1. IsFiniteSet(I) /\ Cardinality(I) \in Nat
    <2>1. IsFiniteSet(1..n)
      BY FS_Interval
    <2> QED BY <2>1, FS_Subset, FS_CardinalityType
  <1>2. Ordered(before, I)
    <2>1. \A i, j \in I : j \in before[i] <=> j < i
      OBVIOUS
    <2>2. before \in [I -> SUBSET I]
      OBVIOUS
    <2> HIDE DEF before
    <2>3. \A i \in I : i \notin before[i]
      BY <2>1
    <2>4. \A i, j \in I : i # j => i \in before[j] \/ j \in before[i]
      BY <2>1
    <2>5. \A i, j \in I : i \in before[j] => before[i] \subseteq before[j]
      <3> SUFFICES ASSUME NEW i \in I, NEW j \in I, i \in before[j], NEW k \in before[i]
                   PROVE  k \in before[j]
        OBVIOUS
      <3>1. k \in I
        BY <2>2
      <3>2. k < i /\ i < j
        BY <2>1, <3>1
      <3>3. k < j
        BY <3>1, <3>2
      <3> QED BY <2>1, <3>1, <3>3
    <2> QED BY <2>2, <2>3, <2>4, <2>5 DEF Ordered
  <1>3. Ranked(before, I, Cardinality(I))
    <2> HIDE DEF before
    <2> QED BY <1>1, <1>2, OnePerRank
  <1>4. \A i \in I : Cardinality({j \in I : j < i}) = Cardinality(before[i])
    OBVIOUS
  <1> HIDE DEF before
  <1> QED BY <1>1, <1>3, <1>4 DEF Ranked

\* What has less before it has a smaller rank.
LEMMA SmallerRank ==
  ASSUME NEW S, IsFiniteSet(S), NEW before, Ordered(before, S),
         NEW p \in S, NEW q \in S, p \in before[q]
  PROVE  Cardinality(before[p]) < Cardinality(before[q])
  <1>1. before[p] \in SUBSET before[q] /\ before[p] # before[q] /\ before[q] \in SUBSET S
    BY DEF Ordered
  <1>2. IsFiniteSet(before[q])
    BY <1>1, FS_Subset
  <1>3. /\ IsFiniteSet(before[p]) /\ Cardinality(before[p]) <= Cardinality(before[q])
        /\ Cardinality(before[p]) # Cardinality(before[q])
    BY <1>1, <1>2, FS_Subset
  <1>4. Cardinality(before[p]) \in Nat /\ Cardinality(before[q]) \in Nat
    BY <1>2, <1>3, FS_CardinalityType
  <1> QED BY <1>3, <1>4

\* A sequence without repetition is not longer than the set it is over.
LEMMA NoLonger ==
  ASSUME NEW S, IsFiniteSet(S), NEW s \in Seq(S),
         \A i, j \in 1..Len(s) : s[i] = s[j] => i = j
  PROVE  Len(s) <= Cardinality(S)
  <1>1. s \in Injection(1..Len(s), S)
    BY DEF Injection, IsInjective
  <1>2. Len(s) \in Nat
    BY LenProperties
  <1>3. Cardinality(1..Len(s)) = Len(s)
    <2>1. \A n \in Nat : Cardinality(1..n) = n
      BY FS_Interval
    <2> QED BY <1>2, <2>1
  <1>4. Cardinality(1..Len(s)) <= Cardinality(S)
    BY <1>1, FS_Injection
  <1> QED BY <1>3, <1>4

-----------------------------------------------------------------------------
(* Induction. *)

\* A set of numbers with 0 that has the next of each number it has is all of Nat:
\* else adding 1 would map the part below a number that it lacks into itself, one
\* to one and not onto.
LEMMA SetInduction ==
  ASSUME NEW S, 0 \in S, \A n \in Nat : n \in S => n + 1 \in S
  PROVE  Nat \subseteq S
  <1> SUFFICES ASSUME NEW n \in Nat, n \notin S PROVE FALSE
    OBVIOUS
  <1> DEFINE T == S \cap (0..n)
             up == [k \in T |-> k + 1]
  <1>1. IsFiniteSet(0..n)
    BY FS_Interval
  <1>2. IsFiniteSet(T)
    BY <1>1, FS_Subset
  <1>3. 0 \in T /\ \A k \in T : k \in Nat /\ k + 1 \in T
    OBVIOUS
  <1>4. up \in Injection(T, T)
    BY <1>3 DEF Injection, IsInjective
  <1> HIDE DEF T
  <1>5. up \in Surjection(T, T)
    <2> HIDE DEF up
    <2> QED BY <1>2, <1>4, FS_Injection
  <1>6. PICK k \in T : up[k] = 0
    <2> HIDE DEF up
    <2> QED BY <1>3, <1>5 DEF Surjection
  <1>7. k + 1 = 0
    BY <1>6
  <1> QED BY <1>3, <1>7

\* Of some numbers one is the smallest.
LEMMA Smallest ==
  ASSUME NEW S \in SUBSET Nat, S # {}
  PROVE  \E s \in S : \A r \in S : s <= r
  <1> SUFFICES ASSUME \A s \in S : \E r \in S : ~(s <= r) PROVE FALSE
    OBVIOUS
  <1> DEFINE T == {n \in Nat : \A r \in S : ~(r <= n)}
  <1>1. 0 \in T
    OBVIOUS
  <1>2. ASSUME NEW n \in Nat, n \in T PROVE n + 1 \in T
    <2> SUFFICES ASSUME NEW r \in S, r <= n + 1 PROVE FALSE
      OBVIOUS
    <2>1. r = n + 1
      BY <1>2
    <2>2. PICK q \in S : ~(r <= q)
      OBVIOUS
    <2> QED BY <1>2, <2>1, <2>2
  <1> HIDE DEF T
  <1>3. Nat \subseteq T
    BY <1>1, <1>2, SetInduction
  <1>4. PICK r \in S : TRUE
    OBVIOUS
  <1>5. r \in Nat /\ r <= r
    OBVIOUS
  <1> QED BY <1>3, <1>4, <1>5 DEF T

\* The largest of the numbers up to m is m.
LEMMA LargestIsLast ==
  ASSUME NEW m \in Nat, NEW s \in SUBSET (1..m), m \in s
  PROVE  Max(s) = m
  <1>1. \A x \in s : (\A y \in s : x >= y) <=> x = m
    OBVIOUS
  <1> QED BY <1>1 DEF Max

\* What a fold over the numbers up to n defines: it takes the largest last.
LEMMA FoldExists ==
  ASSUME NEW V, NEW b \in V, NEW n \in Nat, NEW F \in [(1..n) \X V -> V]
  PROVE  \E g \in [SUBSET (1..n) -> V] : \A s \in SUBSET (1..n) :
           /\ g[s] = IF s = {} THEN b ELSE F[<<Max(s), g[s \ {Max(s)}]>>]
           /\ s # {} => Max(s) \in s
  <1> DEFINE Folds(m, g) ==
               /\ g \in [SUBSET (1..m) -> V]
               /\ \A s \in SUBSET (1..m) :
                    /\ g[s] = IF s = {} THEN b ELSE F[<<Max(s), g[s \ {Max(s)}]>>]
                    /\ s # {} => Max(s) \in s
             S == {m \in Nat : m <= n => \E g : Folds(m, g)}
  <1> HIDE DEF Folds
  <1>1. 0 \in S
    <2> DEFINE g == [s \in SUBSET (1..0) |-> b]
    <2>1. \A s \in SUBSET (1..0) : s = {}
      OBVIOUS
    <2>2. Folds(0, g)
      BY <2>1 DEF Folds
    <2> HIDE DEF g
    <2> QED BY <2>2
  <1>2. ASSUME NEW m \in Nat, m \in S PROVE m + 1 \in S
    <2> SUFFICES ASSUME m + 1 <= n PROVE \E h : Folds(m + 1, h)
      OBVIOUS
    <2>1. PICK g : Folds(m, g)
      BY <1>2
    <2> DEFINE h == [s \in SUBSET (1..(m + 1)) |->
                       IF m + 1 \in s THEN F[<<m + 1, g[s \ {m + 1}]>>] ELSE g[s]]
    <2>2. ASSUME NEW s \in SUBSET (1..(m + 1)), m + 1 \notin s
          PROVE  s \in SUBSET (1..m) /\ h[s] = g[s]
      BY <2>2
    <2>3. ASSUME NEW s \in SUBSET (1..(m + 1)), m + 1 \in s
          PROVE  /\ s \ {m + 1} \in SUBSET (1..m) /\ Max(s) = m + 1
                 /\ h[s] = F[<<m + 1, h[s \ {m + 1}]>>] /\ h[s] \in V
      <3>1. s \ {m + 1} \in SUBSET (1..m) /\ s \ {m + 1} \in SUBSET (1..(m + 1))
        OBVIOUS
      <3>2. Max(s) = m + 1
        BY <2>3, LargestIsLast
      <3>3. h[s \ {m + 1}] = g[s \ {m + 1}] /\ g[s \ {m + 1}] \in V
        BY <2>1, <2>2, <3>1 DEF Folds
      <3>4. h[s] = F[<<m + 1, g[s \ {m + 1}]>>]
        BY <2>3
      <3>5. <<m + 1, g[s \ {m + 1}]>> \in (1..n) \X V
        BY <3>3
      <3> QED BY <3>1, <3>2, <3>3, <3>4, <3>5
    <2>4. h \in [SUBSET (1..(m + 1)) -> V]
      <3>1. ASSUME NEW s \in SUBSET (1..(m + 1)) PROVE h[s] \in V
        <4>1. m + 1 \notin s => h[s] \in V
          BY <2>1, <2>2 DEF Folds
        <4> QED BY <2>3, <4>1
      <3> QED BY <3>1
    <2>5. ASSUME NEW s \in SUBSET (1..(m + 1))
          PROVE  /\ h[s] = IF s = {} THEN b ELSE F[<<Max(s), h[s \ {Max(s)}]>>]
                 /\ s # {} => Max(s) \in s
      <3>1. CASE m + 1 \in s
        BY <2>3, <3>1
      <3>2. CASE m + 1 \notin s
        <4>1. s \in SUBSET (1..m) /\ h[s] = g[s]
          BY <2>2, <3>2
        <4>2. h[s \ {Max(s)}] = g[s \ {Max(s)}]
          <5>1. s \ {Max(s)} \in SUBSET (1..(m + 1)) /\ m + 1 \notin s \ {Max(s)}
            BY <3>2
          <5> QED BY <2>2, <5>1
        <4> HIDE DEF h
        <4> QED BY <2>1, <4>1, <4>2 DEF Folds
      <3> QED BY <3>1, <3>2
    <2> HIDE DEF h
    <2>6. Folds(m + 1, h)
      BY <2>4, <2>5 DEF Folds
    <2> QED BY <2>6
  <1>3. n \in S
    <2> HIDE DEF S
    <2> QED BY <1>1, <1>2, SetInduction
  <1>4. \E g : Folds(n, g)
    BY <1>3
  <1> QED BY <1>4, Zenon DEF Folds

\* Putting sequences together, one after the other.
LEMMA Flattened ==
  ASSUME NEW D, NEW n \in Nat, n # 0, NEW ss \in [1..n -> Seq(D)]
  PROVE  \E w : /\ FlattenSeq(ss) = w[n] /\ w[1] = ss[1]
                /\ \A k \in 2..n : w[k] = w[k - 1] \o ss[k]
  <1> DEFINE Step(g, k) == IF k = 1 THEN ss[1] ELSE g[k - 1] \o ss[k]
             Upto(m, g) == g = [k \in 1..m |-> Step(g, k)]
             S == {m \in Nat : m # 0 => \E g : Upto(m, g)}
             it == CHOOSE g : g = [k \in 1..n |-> IF k = 1 THEN ss[k] ELSE g[k - 1] \o ss[k]]
  <1>1. FlattenSeq(ss) = it[n]
    <2>1. Len(ss) = n
      <3>1. ss \in Seq(Seq(D))
        OBVIOUS
      <3> QED BY <3>1, LenProperties
    <2> QED BY <2>1 DEF FlattenSeq
  <1>2. 0 \in S
    OBVIOUS
  <1>3. ASSUME NEW m \in Nat, m \in S PROVE m + 1 \in S
    <2> SUFFICES \E h : Upto(m + 1, h)
      <3> HIDE DEF Upto
      <3> QED OBVIOUS
    <2> DEFINE G(g) == m # 0 => Upto(m, g)
    <2>1. PICK g : G(g)
      <3> HIDE DEF Upto
      <3> QED BY <1>3
    <2> DEFINE h == [k \in 1..(m + 1) |-> IF k = m + 1 THEN Step(g, k) ELSE g[k]]
    <2>2. \A k \in 1..m : h[k] = g[k]
      <3> HIDE DEF Step
      <3> QED OBVIOUS
    <2>3. \A k \in 1..(m + 1) : Step(h, k) = Step(g, k)
      <3>1. ASSUME NEW k \in 1..(m + 1), k # 1 PROVE k - 1 \in 1..m
        BY <3>1
      <3> HIDE DEF h
      <3> QED BY <2>2, <3>1
    <2>4. \A k \in 1..m : g[k] = Step(g, k)
      <3> SUFFICES ASSUME NEW k \in 1..m PROVE g[k] = Step(g, k)
        OBVIOUS
      <3>1. m # 0
        OBVIOUS
      <3>2. Upto(m, g)
        BY <2>1, <3>1
      <3> HIDE DEF Step
      <3> QED BY <3>2
    <2>5. \A k \in 1..(m + 1) : (IF k = m + 1 THEN Step(g, k) ELSE g[k]) = Step(h, k)
      <3>1. \A k \in 1..(m + 1) : k = m + 1 \/ k \in 1..m
        OBVIOUS
      <3> HIDE DEF Step, h
      <3> QED BY <2>3, <2>4, <3>1
    <2>6. Upto(m + 1, h)
      <3> DEFINE u(k) == IF k = m + 1 THEN Step(g, k) ELSE g[k]
      <3>1. h = [k \in 1..(m + 1) |-> u(k)]
        OBVIOUS
      <3>2. \A k \in 1..(m + 1) : u(k) = Step(h, k)
        BY <2>5
      <3> HIDE DEF Step, h, u
      <3> QED BY <3>1, <3>2
    <2> HIDE DEF Upto
    <2> QED BY <2>6
  <1>4. \E g : Upto(n, g)
    <2> HIDE DEF S, Upto
    <2>1. Nat \subseteq S
      BY <1>2, <1>3, SetInduction
    <2> QED BY <2>1 DEF S
  <1>5. it = [k \in 1..n |-> IF k = 1 THEN ss[k] ELSE it[k - 1] \o ss[k]]
    <2>1. \E g : g = [k \in 1..n |-> IF k = 1 THEN ss[k] ELSE g[k - 1] \o ss[k]]
      <3>1. PICK g : Upto(n, g)
        <4> HIDE DEF Upto
        <4> QED BY <1>4
      <3>2. g = [k \in 1..n |-> IF k = 1 THEN ss[k] ELSE g[k - 1] \o ss[k]]
        BY <3>1
      <3> QED BY <3>2
    <2> QED BY <2>1
  <1> HIDE DEF it
  <1>6. it[1] = ss[1] /\ \A k \in 2..n : it[k] = it[k - 1] \o ss[k]
    <2>1. 1 \in 1..n /\ \A k \in 2..n : k \in 1..n /\ k # 1
      OBVIOUS
    <2> QED BY <1>5, <2>1
  <1> QED BY <1>1, <1>6

=============================================================================
