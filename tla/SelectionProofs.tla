--------------------------- MODULE SelectionProofs ----------------------------
(***************************************************************************)
(* Lemmas about selections: the k-th member of a finite set of numbers is  *)
(* well defined, members are counted in their order, and to select twice   *)
(* is to select once.                                                      *)
(***************************************************************************)
EXTENDS Selection, Functions, FiniteSetTheorems, TLAPS

\* The members counted for a rank are some of the set.
LEMMA RankType ==
  ASSUME NEW S, IsFiniteSet(S), S \subseteq Int, NEW x \in S
  PROVE  Rank(S, x) \in 1..Cardinality(S) /\ Cardinality(S) \in Nat
<1> DEFINE A == {y \in S : y <= x}
<1>1. x \in A
  OBVIOUS
<1>2. IsFiniteSet(A) /\ Cardinality(A) <= Cardinality(S)
  BY FS_Subset
<1> HIDE DEF A
<1>3. Cardinality(A) \in Nat /\ Cardinality(S) \in Nat /\ Cardinality(A) # 0
  BY <1>1, <1>2, FS_CardinalityType, FS_EmptySet
<1>4. Cardinality(A) \in 1..Cardinality(S)
  BY <1>2, <1>3
<1> QED BY <1>3, <1>4 DEF Rank, A

\* A greater member has a higher rank.
LEMMA RankOrder ==
  ASSUME NEW S, IsFiniteSet(S), S \subseteq Int, NEW x \in S, NEW y \in S, x < y
  PROVE  Rank(S, x) < Rank(S, y)
<1> DEFINE A == {z \in S : z <= x}
           B == {z \in S : z <= y}
<1>0. x \in Int /\ y \in Int /\ \A z \in S : z \in Int
  OBVIOUS
<1>1. A \subseteq B /\ y \in B /\ y \notin A
  <2>1. ASSUME NEW z \in S, z <= x PROVE z <= y
    BY <1>0, <2>1
  <2>2. y <= y /\ ~(y <= x)
    BY <1>0
  <2> QED BY <2>1, <2>2
<1>2. IsFiniteSet(B)
  BY FS_Subset
<1> HIDE DEF A, B
<1>3. Cardinality(A) <= Cardinality(B) /\ Cardinality(A) # Cardinality(B)
  BY <1>1, <1>2, FS_Subset
<1>4. IsFiniteSet(A)
  BY <1>1, <1>2, FS_Subset
<1>5. Cardinality(A) \in Nat /\ Cardinality(B) \in Nat
  BY <1>2, <1>4, FS_CardinalityType
<1> QED BY <1>3, <1>5 DEF Rank, A, B

\* Members of one rank are the same.
LEMMA RankOnce ==
  ASSUME NEW S, IsFiniteSet(S), S \subseteq Int, NEW x \in S, NEW y \in S, Rank(S, x) = Rank(S, y)
  PROVE  x = y
<1>0. Rank(S, x) \in 1..Cardinality(S) /\ Rank(S, y) \in 1..Cardinality(S)
  BY RankType
<1>1. Rank(S, x) \in Int /\ Rank(S, y) \in Int /\ x \in Int /\ y \in Int
  BY <1>0
<1>2. ~(x < y)
  <2>1. x < y => Rank(S, x) < Rank(S, y)
    BY RankOrder
  <2> QED BY <1>1, <2>1
<1>3. ~(y < x)
  <2>1. y < x => Rank(S, y) < Rank(S, x)
    BY RankOrder
  <2> QED BY <1>1, <2>1
<1> QED BY <1>1, <1>2, <1>3

\* There is one member of each rank.
LEMMA NthOf ==
  ASSUME NEW S, IsFiniteSet(S), S \subseteq Int, NEW k \in 1..Cardinality(S)
  PROVE  Nth(S, k) \in S /\ Rank(S, Nth(S, k)) = k
<1> DEFINE n == Cardinality(S)
           r == [x \in S |-> Rank(S, x)]
<1>1. n \in Nat /\ IsFiniteSet(1..n) /\ Cardinality(1..n) = n
  BY FS_CardinalityType, FS_Interval
<1>2. r \in [S -> 1..n]
  BY RankType
<1>3. r \in Injection(S, 1..n)
  BY <1>2, RankOnce DEF Injection, IsInjective
<1> HIDE DEF r
<1>4. r \in Surjection(S, 1..n)
  BY <1>1, <1>3, FS_Injection
<1>5. \E x \in S : r[x] = k
  BY <1>4 DEF Surjection
<1>6. \E x \in S : Rank(S, x) = k
  BY <1>5 DEF r
<1> QED BY <1>6 DEF Nth

\* A member is the one of its rank.
LEMMA NthRank ==
  ASSUME NEW S, IsFiniteSet(S), S \subseteq Int, NEW x \in S
  PROVE  Nth(S, Rank(S, x)) = x
<1>1. Rank(S, x) \in 1..Cardinality(S)
  BY RankType
<1>2. Nth(S, Rank(S, x)) \in S /\ Rank(S, Nth(S, Rank(S, x))) = Rank(S, x)
  BY <1>1, NthOf
<1> QED BY <1>2, RankOnce

\* Members are counted in their order.
LEMMA NthOrder ==
  ASSUME NEW S, IsFiniteSet(S), S \subseteq Int,
         NEW i \in 1..Cardinality(S), NEW j \in 1..Cardinality(S)
  PROVE  i < j <=> Nth(S, i) < Nth(S, j)
<1>1. /\ Nth(S, i) \in S /\ Rank(S, Nth(S, i)) = i
      /\ Nth(S, j) \in S /\ Rank(S, Nth(S, j)) = j
  BY NthOf
<1>2. Nth(S, i) \in Int /\ Nth(S, j) \in Int
  BY <1>1
<1>3. Nth(S, i) < Nth(S, j) => i < j
  BY <1>1, RankOrder
<1>4. Nth(S, j) < Nth(S, i) => j < i
  BY <1>1, RankOrder
<1>5. Cardinality(S) \in Nat
  BY FS_CardinalityType
<1> QED BY <1>1, <1>2, <1>3, <1>4, <1>5

\* e is n numbers in ascending order, and S is the set of them.
Ascends(n, e, S) ==
  /\ n \in Nat /\ e \in [1..n -> Int]
  /\ \A i, j \in 1..n : i < j => e[i] < e[j]
  /\ \A k \in 1..n : e[k] \in S
  /\ \A x \in S : \E k \in 1..n : e[k] = x

\* Numbers in ascending order are the members of their set as they are counted.
LEMMA Ascending ==
  ASSUME NEW n, NEW e, NEW S, Ascends(n, e, S)
  PROVE  /\ IsFiniteSet(S) /\ S \subseteq Int /\ Cardinality(S) = n
         /\ \A k \in 1..n : Nth(S, k) = e[k]
<1> USE DEF Ascends
<1>1. \A i, j \in 1..n : e[i] = e[j] => i = j
  <2> SUFFICES ASSUME NEW i \in 1..n, NEW j \in 1..n, e[i] = e[j] PROVE i = j
    OBVIOUS
  <2>1. e[i] \in Int /\ i \in Int /\ j \in Int
    OBVIOUS
  <2>2. ~(i < j) /\ ~(j < i)
    BY <2>1
  <2> QED BY <2>1, <2>2
<1>2. ASSUME NEW k \in 0..n, NEW T, T = {e[j] : j \in 1..k}
      PROVE  IsFiniteSet(T) /\ Cardinality(T) = k
  <2> DEFINE f == [j \in 1..k |-> e[j]]
  <2>1. 1..k \subseteq 1..n
    OBVIOUS
  <2>2. f \in Surjection(1..k, T) /\ f \in Injection(1..k, T)
    <3>1. f \in [1..k -> T] /\ \A t \in T : \E j \in 1..k : f[j] = t
      BY <1>2
    <3>2. \A i, j \in 1..k : f[i] = f[j] => i = j
      BY <1>1, <2>1
    <3> HIDE DEF f
    <3> QED BY <3>1, <3>2 DEF Surjection, Injection, IsInjective
  <2> HIDE DEF f
  <2>3. IsFiniteSet(1..k) /\ Cardinality(1..k) = k
    BY FS_Interval
  <2> QED BY <2>2, <2>3, FS_Surjection
<1>3. IsFiniteSet(S) /\ Cardinality(S) = n /\ S \subseteq Int
  <2>1. S = {e[j] : j \in 1..n} /\ n \in 0..n
    OBVIOUS
  <2> QED BY <1>2, <2>1
<1>4. ASSUME NEW k \in 1..n PROVE Rank(S, e[k]) = k
  <2>1. {y \in S : y <= e[k]} = {e[j] : j \in 1..k}
    <3>1. ASSUME NEW j \in 1..n PROVE e[j] <= e[k] <=> j \in 1..k
      <4>1. e[j] \in Int /\ e[k] \in Int /\ j \in Int /\ k \in Int
        OBVIOUS
      <4>2. j < k \/ j = k \/ k < j
        OBVIOUS
      <4> QED BY <4>1, <4>2
    <3>2. \A j \in 1..k : j \in 1..n
      OBVIOUS
    <3> QED BY <3>1, <3>2
  <2>2. k \in 0..n
    OBVIOUS
  <2> QED BY <1>2, <2>1, <2>2 DEF Rank
<1>5. ASSUME NEW k \in 1..n PROVE Nth(S, k) = e[k]
  <2>1. e[k] \in S
    OBVIOUS
  <2> QED BY <1>3, <1>4, <2>1, NthRank
<1> QED BY <1>3, <1>5

\* Of the numbers in I, counted in their order, those at the places K are the ones in J.
PlacesOf(I, J, K) ==
  /\ IsFiniteSet(I) /\ I \subseteq Int /\ J \subseteq I
  /\ K \subseteq 1..Cardinality(I)
  /\ \A k \in 1..Cardinality(I) : k \in K <=> Nth(I, k) \in J

\* To select of a selection is to select once.
LEMMA SelectedTwice ==
  ASSUME NEW s, NEW I, NEW J, NEW K, PlacesOf(I, J, K)
  PROVE  Selected(Selected(s, I), K) = Selected(s, J)
<1> DEFINE n == Cardinality(I)
           m == Cardinality(K)
           e == [k \in 1..m |-> Nth(I, Nth(K, k))]
<1> USE DEF PlacesOf
<1>1. n \in Nat /\ IsFiniteSet(1..n)
  BY FS_CardinalityType, FS_Interval
<1>2. K \subseteq 1..n /\ K \subseteq Int /\ IsFiniteSet(K) /\ m \in Nat
  <2>1. K \subseteq 1..n /\ K \subseteq Int
    OBVIOUS
  <2>2. IsFiniteSet(K)
    BY <1>1, <2>1, FS_Subset
  <2> QED BY <2>1, <2>2, FS_CardinalityType
<1>3. ASSUME NEW k \in 1..m PROVE Nth(K, k) \in K /\ e[k] = Nth(I, Nth(K, k)) /\ e[k] \in J
  BY <1>2, NthOf
<1>4. e \in [1..m -> Int]
  BY <1>3
<1>5. ASSUME NEW i \in 1..m, NEW j \in 1..m, i < j PROVE e[i] < e[j]
  <2>1. Nth(K, i) \in 1..n /\ Nth(K, j) \in 1..n /\ Nth(K, i) < Nth(K, j)
    BY <1>2, <1>3, <1>5, NthOrder
  <2> QED BY <1>3, <2>1, NthOrder
<1>6. (\A k \in 1..m : e[k] \in J) /\ \A x \in J : \E k \in 1..m : e[k] = x
  <2>1. ASSUME NEW x \in J PROVE \E k \in 1..m : e[k] = x
    <3>1. Rank(I, x) \in 1..n /\ Nth(I, Rank(I, x)) = x
      BY RankType, NthRank
    <3>2. Rank(I, x) \in K
      BY <3>1
    <3>3. /\ Rank(K, Rank(I, x)) \in 1..m
          /\ Nth(K, Rank(K, Rank(I, x))) = Rank(I, x)
      BY <1>2, <3>2, RankType, NthRank
    <3> QED BY <1>3, <3>1, <3>3
  <2> QED BY <1>3, <2>1
<1> HIDE DEF e
<1>7. Ascends(m, e, J)
  BY <1>2, <1>4, <1>5, <1>6 DEF Ascends
<1>8. Cardinality(J) = m /\ \A k \in 1..m : Nth(J, k) = e[k]
  BY <1>7, Ascending
<1> QED BY <1>2, <1>3, <1>8 DEF Selected, e
==============================================================================
