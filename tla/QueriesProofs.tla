------------------------------ MODULE QueriesProofs ------------------------------
(* On whatever rows there are: the tools answer what they were asked, the    *)
(* differences balance, and the figures agree.  The inductive invariant is   *)
(* that there is one row per id; the rest is counting.  A sum by a fold is   *)
(* got hold of through the least set it would be wrong for, a list in an     *)
(* order through the ranks of its members.                                   *)
EXTENDS Queries, Functions, NaturalsInduction, FiniteSetTheorems, SequenceTheorems, TLAPS

\* A set of numbers that is not empty has a least one.
LEMMA Least ==
    ASSUME NEW T, T \subseteq Nat, T # {}
    PROVE  \E x \in T : \A y \in T : x <= y
<1> DEFINE Less == {ss \in Nat \X Nat : ss[1] < ss[2]}
<1>1. IsWellFoundedOn(Less, Nat)
  <2>1. OpToRel(<, Nat) = Less
    BY DEF OpToRel, Less
  <2>2. QED
    BY <2>1, NatLessThanWellFounded
<1>2. PICK x \in T : \A y \in T : <<y, x>> \notin Less
  <2> HIDE DEF Less
  <2>1. QED
    BY <1>1, WFMin
<1>3. ASSUME NEW y \in T PROVE x <= y
  <2>1. <<y, x>> \in Nat \X Nat /\ <<y, x>>[1] = y /\ <<y, x>>[2] = x
    OBVIOUS
  <2>2. ~(y < x)
    BY <1>2, <2>1
  <2>3. QED
    BY <2>2
<1>4. QED
  BY <1>3

\* A set with an element more has one element more.
LEMMA OneMore ==
    ASSUME NEW S, IsFiniteSet(S), NEW T, NEW x, x \in S, T \subseteq S, x \notin T
    PROVE  IsFiniteSet(T) /\ Cardinality(T) < Cardinality(S) /\ Cardinality(T) \in Nat
<1>1. T \in SUBSET S /\ T # S
  OBVIOUS
<1>2. IsFiniteSet(T) /\ Cardinality(T) <= Cardinality(S)
      /\ (Cardinality(S) = Cardinality(T) => S = T)
  BY <1>1, FS_Subset
<1>3. Cardinality(S) \in Nat /\ Cardinality(T) \in Nat
  BY <1>2, FS_CardinalityType
<1>4. QED
  BY <1>1, <1>2, <1>3

\* Two disjoint parts add up to the whole.
LEMMA Parts ==
    ASSUME NEW S, IsFiniteSet(S), NEW T, NEW U, S = T \cup U, T \cap U = {}
    PROVE  /\ IsFiniteSet(T) /\ IsFiniteSet(U)
           /\ Cardinality(T) \in Nat /\ Cardinality(U) \in Nat
           /\ Cardinality(S) = Cardinality(T) + Cardinality(U)
<1>1. T \in SUBSET S /\ U \in SUBSET S
  OBVIOUS
<1>2. IsFiniteSet(T) /\ IsFiniteSet(U)
  BY <1>1, FS_Subset
<1>3. Cardinality(T) \in Nat /\ Cardinality(U) \in Nat
  BY <1>2, FS_CardinalityType
<1>4. Cardinality(T \cup U) = Cardinality(T) + Cardinality(U) - Cardinality(T \cap U)
  BY <1>2, FS_Union
<1>5. Cardinality(T \cap U) = 0
  BY FS_EmptySet
<1>6. QED
  BY <1>2, <1>3, <1>4, <1>5

-----------------------------------------------------------------------------
\* How a fold sums up: a first one is chosen and added to the sum of the rest.
First(T) == CHOOSE x \in T : TRUE
Sums(iter, f, S) ==
    iter = [T \in SUBSET S |->
              IF T = {} THEN 0 ELSE f[First(T)] + iter[T \ {First(T)}]]

\* Total (MapThenSumSet) is such a sum, once there is one.
LEMMA TotalShape ==
    ASSUME NEW f, \E iter : Sums(iter, f, DOMAIN f)
    PROVE  \E iter : Sums(iter, f, DOMAIN f) /\ Web!Total(f) = iter[DOMAIN f]
  BY Zenon DEF Sums, First, Web!Total, Web!MapThenSumSet, Web!MapThenFoldSet

\* What is counted by a key adds up to what there is.
LEMMA TotalIsCount ==
    ASSUME NEW D, IsFiniteSet(D), NEW K, IsFiniteSet(K), NEW key \in [D -> K],
           NEW f, f = [k \in K |-> Cardinality({d \in D : key[d] = k})]
    PROVE  Web!Total(f) = Cardinality(D)
<1> DEFINE Of(T) == {d \in D : key[d] \in T}
           g == [T \in SUBSET K |-> Cardinality(Of(T))]
<1>1. DOMAIN f = K
  OBVIOUS
<1>2. ASSUME NEW T \in SUBSET K, T # {}
      PROVE  /\ First(T) \in T /\ T \ {First(T)} \in SUBSET K
             /\ Cardinality(Of(T)) = f[First(T)] + Cardinality(Of(T \ {First(T)}))
  <2>1. First(T) \in T
    BY <1>2 DEF First
  <2>2. f[First(T)] = Cardinality({d \in D : key[d] = First(T)})
    BY <2>1
  <2>3. /\ Of(T) = {d \in D : key[d] = First(T)} \cup Of(T \ {First(T)})
        /\ {d \in D : key[d] = First(T)} \cap Of(T \ {First(T)}) = {}
    BY <2>1
  <2>4. IsFiniteSet(Of(T))
    <3>1. Of(T) \in SUBSET D
      OBVIOUS
    <3>2. QED
      BY <3>1, FS_Subset
  <2> HIDE DEF Of
  <2>5. Cardinality(Of(T)) = Cardinality({d \in D : key[d] = First(T)})
                               + Cardinality(Of(T \ {First(T)}))
    BY <2>3, <2>4, Parts
  <2>6. QED
    BY <2>1, <2>2, <2>5
<1>3. Cardinality(Of({})) = 0
  <2>1. Of({}) = {}
    OBVIOUS
  <2> HIDE DEF Of
  <2>2. QED
    BY <2>1, FS_EmptySet
<1>4. Sums(g, f, DOMAIN f)
  <2> HIDE DEF Of
  <2>1. ASSUME NEW T \in SUBSET K
        PROVE  g[T] = IF T = {} THEN 0 ELSE f[First(T)] + g[T \ {First(T)}]
    BY <1>2, <1>3, <2>1
  <2>2. g = [T \in SUBSET K |-> g[T]]
    OBVIOUS
  <2> HIDE DEF g
  <2>3. QED
    BY <1>1, <2>1, <2>2 DEF Sums
<1>5. PICK iter : Sums(iter, f, DOMAIN f) /\ Web!Total(f) = iter[DOMAIN f]
  BY <1>4, TotalShape
<1>6. ASSUME NEW T \in SUBSET K
      PROVE  iter[T] = IF T = {} THEN 0 ELSE f[First(T)] + iter[T \ {First(T)}]
  BY <1>1, <1>5 DEF Sums
<1> DEFINE Wrong == {n \in Nat : \E T \in SUBSET K : Cardinality(T) = n /\ iter[T] # Cardinality(Of(T))}
<1>7. Wrong = {}
  <2>1. SUFFICES ASSUME Wrong # {} PROVE FALSE
    OBVIOUS
  <2>2. PICK n \in Wrong : \A m \in Wrong : n <= m
    <3>1. Wrong \subseteq Nat
      OBVIOUS
    <3> HIDE DEF Wrong
    <3>2. QED
      BY <2>1, <3>1, Least
  <2>3. PICK T \in SUBSET K : Cardinality(T) = n /\ iter[T] # Cardinality(Of(T))
    OBVIOUS
  <2>4. T # {}
    BY <1>3, <1>6, <2>3
  <2>5. /\ First(T) \in T /\ T \ {First(T)} \in SUBSET K
        /\ Cardinality(Of(T)) = f[First(T)] + Cardinality(Of(T \ {First(T)}))
    BY <1>2, <2>4
  <2>6. Cardinality(T \ {First(T)}) \in Nat /\ Cardinality(T \ {First(T)}) < n
    <3>1. IsFiniteSet(T)
      BY FS_Subset
    <3>2. QED
      BY <2>3, <2>5, <3>1, OneMore
  <2>7. iter[T \ {First(T)}] = Cardinality(Of(T \ {First(T)}))
    <3>1. n \in Nat
      OBVIOUS
    <3>2. Cardinality(T \ {First(T)}) \notin Wrong
      <4> HIDE DEF Wrong
      <4>1. Wrong \subseteq Nat
        BY DEF Wrong
      <4>2. QED
        BY <2>2, <2>6, <3>1
    <3> HIDE DEF Of
    <3>3. QED
      BY <2>5, <2>6, <3>2
  <2> HIDE DEF Of
  <2>8. QED
    BY <1>6, <2>3, <2>4, <2>5, <2>7
<1>8. Cardinality(K) \in Nat /\ Of(K) = D
  BY FS_CardinalityType
<1>9. iter[K] = Cardinality(Of(K))
  <2> HIDE DEF Of
  <2>1. QED
    BY <1>7, <1>8
<1>10. QED
  BY <1>1, <1>5, <1>8, <1>9

\* The members of a finite set in an order of their keys.
IsSorted(s, S, key) ==
    /\ s \in [1..Cardinality(S) -> S]
    /\ IsInjective(s)
    /\ \A i, j \in DOMAIN s : i < j => key[s[i]] <= key[s[j]]

\* There is such a list: a member comes at the number of those before it.
LEMMA SortedExists ==
    ASSUME NEW S, IsFiniteSet(S), NEW key \in [S -> Int]
    PROVE  \E s : IsSorted(s, S, key)
<1> DEFINE n == Cardinality(S)
<1>1. n \in Nat /\ IsFiniteSet(1..n) /\ Cardinality(1..n) = n
  BY FS_CardinalityType, FS_Interval
<1>2. PICK idx : idx \in Bijection(S, 1..n)
  <2>1. ExistsBijection(S, 1..n)
    BY <1>1, FS_SameCardinalityBij
  <2>2. QED
    BY <2>1 DEF ExistsBijection
<1>3. /\ idx \in [S -> 1..n]
      /\ \A x, y \in S : idx[x] = idx[y] => x = y
  BY <1>2 DEF Bijection, Injection, IsInjective
<1> DEFINE Before(x, y) == \/ key[x] < key[y]
                           \/ key[x] = key[y] /\ idx[x] < idx[y]
           Below(y) == {x \in S : Before(x, y)}
           rank == [y \in S |-> Cardinality(Below(y)) + 1]
<1>4. ASSUME NEW x \in S, NEW y \in S, Before(x, y)
      PROVE  rank[x] < rank[y]
  <2>1. Below(x) \subseteq Below(y) /\ x \in Below(y) /\ x \notin Below(x)
    <3>1. key[x] \in Int /\ key[y] \in Int /\ idx[x] \in Int /\ idx[y] \in Int
      BY <1>1, <1>3
    <3>2. ASSUME NEW z \in S, Before(z, x) PROVE Before(z, y)
      <4>1. key[z] \in Int /\ idx[z] \in Int
        BY <1>1, <1>3
      <4>2. QED
        BY <1>4, <3>1, <3>2, <4>1
    <3>3. QED
      BY <1>4, <3>1, <3>2
  <2>2. IsFiniteSet(Below(y))
    <3>1. Below(y) \in SUBSET S
      OBVIOUS
    <3>2. QED
      BY <3>1, FS_Subset
  <2> HIDE DEF Below
  <2>3. Cardinality(Below(x)) < Cardinality(Below(y)) /\ Cardinality(Below(x)) \in Nat
    BY <2>1, <2>2, OneMore
  <2>4. Cardinality(Below(y)) \in Nat
    BY <2>2, FS_CardinalityType
  <2>5. QED
    BY <2>3, <2>4
<1>5. ASSUME NEW x \in S, NEW y \in S, x # y
      PROVE  Before(x, y) \/ Before(y, x)
  BY <1>1, <1>3, <1>5
<1>6. rank \in Injection(S, 1..n)
  <2>1. ASSUME NEW y \in S PROVE Cardinality(Below(y)) + 1 \in 1..n
    <3>1. Below(y) \subseteq S /\ y \notin Below(y)
      BY <1>1, <1>3
    <3> HIDE DEF Below
    <3>2. Cardinality(Below(y)) \in Nat /\ Cardinality(Below(y)) < n
      BY <3>1, OneMore
    <3>3. QED
      BY <1>1, <3>2
  <2>2. rank \in [S -> 1..n]
    <3> HIDE DEF Below, n
    <3>1. QED
      BY <2>1
  <2>3. ASSUME NEW x \in S, NEW y \in S, x # y PROVE rank[x] # rank[y]
    <3>1. rank[x] \in Int /\ rank[y] \in Int
      <4> HIDE DEF rank, n
      <4>1. QED
        BY <1>1, <2>2
    <3>2. rank[x] < rank[y] \/ rank[y] < rank[x]
      <4> HIDE DEF rank, Before
      <4>1. QED
        BY <1>4, <1>5, <2>3
    <3> HIDE DEF rank
    <3>3. QED
      BY <3>1, <3>2
  <2> HIDE DEF rank, n
  <2>4. QED
    BY <2>2, <2>3 DEF Injection, IsInjective
<1> HIDE DEF rank
<1>7. rank \in Surjection(S, 1..n)
  BY <1>1, <1>6, FS_Injection
<1>8. /\ \A x \in S : rank[x] \in 1..n
      /\ \A x, y \in S : rank[x] = rank[y] => x = y
      /\ \A i \in 1..n : \E x \in S : rank[x] = i
  <2> HIDE DEF n
  <2>1. QED
    BY <1>6, <1>7 DEF Injection, IsInjective, Surjection
<1> DEFINE s == [i \in 1..n |-> CHOOSE x \in S : rank[x] = i]
<1>9. ASSUME NEW i \in 1..n PROVE s[i] \in S /\ rank[s[i]] = i
  <2> HIDE DEF n
  <2>1. QED
    BY <1>8
<1>10. s \in [1..n -> S]
  <2> HIDE DEF n
  <2>1. QED
    BY <1>9
<1> HIDE DEF s
<1>11. IsInjective(s)
  <2> HIDE DEF n
  <2>1. QED
    BY <1>9, <1>10 DEF IsInjective
<1>12. ASSUME NEW i \in 1..n, NEW j \in 1..n, i < j
       PROVE  key[s[i]] <= key[s[j]]
  <2>1. s[i] \in S /\ s[j] \in S /\ rank[s[i]] = i /\ rank[s[j]] = j
    BY <1>9
  <2>2. ~Before(s[j], s[i])
    <3> HIDE DEF Before
    <3>1. QED
      BY <1>1, <1>4, <1>12, <2>1
  <2>3. key[s[i]] \in Int /\ key[s[j]] \in Int
    BY <2>1
  <2>4. QED
    BY <2>2, <2>3
<1>13. DOMAIN s = 1..n
  <2> HIDE DEF n
  <2>1. QED
    BY <1>10
<1>14. QED
  BY <1>10, <1>11, <1>12, <1>13 DEF IsSorted

\* Such a list has all of them.
LEMMA SortedHasAll ==
    ASSUME NEW S, IsFiniteSet(S), NEW s, NEW key, IsSorted(s, S, key)
    PROVE  {s[i] : i \in DOMAIN s} = S
<1> DEFINE n == Cardinality(S)
<1>1. n \in Nat /\ IsFiniteSet(1..n) /\ Cardinality(1..n) = n
  BY FS_CardinalityType, FS_Interval
<1> HIDE DEF n
<1>2. s \in Injection(1..n, S)
  BY DEF IsSorted, Injection, n
<1>3. s \in Surjection(1..n, S)
  BY <1>1, <1>2, FS_Injection DEF n
<1>4. QED
  BY <1>3 DEF Surjection

\* A finite set of numbers has a greatest.
LEMMA MaxExists ==
    ASSUME NEW S, IsFiniteSet(S), S # {}, S \subseteq Int
    PROVE  Web!Max(S) \in S
<1> DEFINE key == [x \in S |-> x]
           n == Cardinality(S)
<1>1. PICK s : IsSorted(s, S, key)
  BY SortedExists
<1>2. n \in Nat /\ n # 0
  BY FS_CardinalityType, FS_EmptySet
<1>3. s \in [1..n -> S] /\ {s[i] : i \in 1..n} = S
  <2>1. s \in [1..n -> S]
    BY <1>1 DEF IsSorted
  <2>2. {s[i] : i \in DOMAIN s} = S
    <3> HIDE DEF key
    <3>1. QED
      BY <1>1, SortedHasAll
  <2> HIDE DEF n
  <2>3. QED
    BY <2>1, <2>2
<1>4. ASSUME NEW y \in S PROVE s[n] >= y
  <2>1. PICK i \in 1..n : s[i] = y
    BY <1>3
  <2>2. n \in 1..n /\ s[n] \in S /\ (i = n \/ i < n)
    BY <1>2, <1>3
  <2> HIDE DEF n
  <2>3. i < n => key[s[i]] <= key[s[n]]
    BY <1>1, <1>3, <2>2 DEF IsSorted
  <2>4. s[n] \in Int /\ y \in Int /\ key[s[i]] = y /\ key[s[n]] = s[n]
    BY <2>1, <2>2
  <2>5. QED
    BY <2>1, <2>2, <2>3, <2>4
<1>5. s[n] \in S
  BY <1>2, <1>3
<1>6. QED
  BY <1>4, <1>5 DEF Web!Max

\* The modules of the queries count as this one does.
LEMMA SameCount ==
    \A S : /\ Web!Cardinality(S) = Cardinality(S)
           /\ Tools!Cardinality(S) = Cardinality(S)
           /\ Py!Cardinality(S) = Cardinality(S)
<1> TAKE S
<1>1. Web!Cardinality(S) = Cardinality(S)
  BY DEF Web!Cardinality, Cardinality
<1>2. Tools!Cardinality(S) = Cardinality(S)
  BY DEF Tools!Cardinality, Cardinality
<1>3. Py!Cardinality(S) = Cardinality(S)
  BY DEF Py!Cardinality, Cardinality
<1>4. QED
  BY <1>1, <1>2, <1>3

\* What Sorted gives is such a list: by the key ...
LEMMA SortedById ==
    ASSUME NEW S, IsFiniteSet(S), \A r \in S : r.id \in Int
    PROVE  /\ IsSorted(Tools!InOrder(S), S, [r \in S |-> r.id])
           /\ IsSorted(Py!InOrder(S), S, [r \in S |-> r.id])
<1> DEFINE key == [r \in S |-> r.id]
           IsOne(s) == /\ s \in [1..Cardinality(S) -> S]
                       /\ IsInjective(s)
                       /\ \A i, j \in DOMAIN s : i < j => s[i].id <= s[j].id
<1>1. ASSUME NEW s, s \in [1..Cardinality(S) -> S]
      PROVE  \A i, j \in DOMAIN s : key[s[i]] = s[i].id /\ key[s[j]] = s[j].id
  BY <1>1
<1>2. ASSUME NEW s PROVE IsSorted(s, S, key) <=> IsOne(s)
  BY <1>1 DEF IsSorted
<1>3. \E s : IsOne(s)
  BY <1>2, SortedExists
<1>4. IsOne(Tools!InOrder(S))
  BY <1>3, SameCount DEF Tools!InOrder, Tools!Sorted, Tools!IsInjective, IsInjective
<1>5. IsOne(Py!InOrder(S))
  BY <1>3, SameCount DEF Py!InOrder, Py!Sorted, Py!IsInjective, IsInjective
<1>6. QED
  BY <1>2, <1>4, <1>5

\* ... by the distance from a place ...
Distance(S, at) == [r \in S |-> Tools!haversineKm(at, r)]

\* A distance along an axis is a number, and the same both ways.
LEMMA DistIsNat ==
    ASSUME NEW a \in Int, NEW b \in Int
    PROVE  /\ Tools!Dist(a, b) \in Nat
           /\ Tools!Dist(a, b) = Tools!Dist(b, a)
  BY DEF Tools!Dist

\* The squared distance of a charger is an integer, the same on both servers.
LEMMA KmIsInt ==
    ASSUME NEW at \in Int \X Int, NEW r, r.pos \in Int \X Int
    PROVE  /\ Tools!haversineKm(at, r) \in Int
           /\ Py!haversineKm(at, r) = Tools!haversineKm(at, r)
<1>1. at[1] \in Int /\ at[2] \in Int /\ r.pos[1] \in Int /\ r.pos[2] \in Int
  OBVIOUS
<1>2. Tools!Dist(at[1], r.pos[1]) \in Nat /\ Tools!Dist(at[2], r.pos[2]) \in Nat
  BY <1>1, DistIsNat
<1>3. \A n \in Nat : n * n \in Int
  OBVIOUS
<1>4. Tools!haversineKm(at, r) \in Int
  BY <1>2, <1>3 DEF Tools!haversineKm
<1>5. \A n, m : Py!Dist(n, m) = Tools!Dist(n, m)
  BY DEF Py!Dist, Tools!Dist
<1>6. Py!haversineKm(at, r) = Tools!haversineKm(at, r)
  BY <1>5 DEF Py!haversineKm, Tools!haversineKm
<1>7. QED
  BY <1>4, <1>6

\* ... both servers of the same key.
LEMMA SortedByDistance ==
    ASSUME NEW S, IsFiniteSet(S), NEW at \in Int \X Int, \A r \in S : r.pos \in Int \X Int
    PROVE  /\ Distance(S, at) \in [S -> Int]
           /\ IsSorted(Tools!Sorted(S, LAMBDA r : Tools!haversineKm(at, r)), S, Distance(S, at))
           /\ IsSorted(Py!Sorted(S, LAMBDA r : Py!haversineKm(at, r)), S, Distance(S, at))
<1> DEFINE key == Distance(S, at)
           IsOne(s) == /\ s \in [1..Cardinality(S) -> S]
                       /\ IsInjective(s)
                       /\ \A i, j \in DOMAIN s : i < j =>
                            Tools!haversineKm(at, s[i]) <= Tools!haversineKm(at, s[j])
           IsOther(s) == /\ s \in [1..Cardinality(S) -> S]
                         /\ IsInjective(s)
                         /\ \A i, j \in DOMAIN s : i < j =>
                              Py!haversineKm(at, s[i]) <= Py!haversineKm(at, s[j])
<1>0. key \in [S -> Int]
  BY KmIsInt DEF Distance
<1>1. ASSUME NEW s, s \in [1..Cardinality(S) -> S]
      PROVE  \A i \in DOMAIN s : /\ key[s[i]] = Tools!haversineKm(at, s[i])
                                 /\ key[s[i]] = Py!haversineKm(at, s[i])
  BY <1>1, KmIsInt DEF Distance
<1> HIDE DEF key
<1>2. ASSUME NEW s PROVE (IsSorted(s, S, key) <=> IsOne(s)) /\ (IsOne(s) <=> IsOther(s))
  BY <1>1 DEF IsSorted
<1>3. \E s : IsOne(s)
  BY <1>0, <1>2, SortedExists
<1>4. IsOne(Tools!Sorted(S, LAMBDA r : Tools!haversineKm(at, r)))
  BY <1>3, SameCount DEF Tools!Sorted, Tools!IsInjective, IsInjective
<1>5. IsOther(Py!Sorted(S, LAMBDA r : Py!haversineKm(at, r)))
  <2>1. \E s : IsOther(s)
    BY <1>2, <1>3
  <2>2. QED
    BY <2>1, SameCount DEF Py!Sorted, Py!IsInjective, IsInjective
<1>6. QED
  BY <1>0, <1>2, <1>4, <1>5 DEF key

\* The first of a list, as many as allowed: nothing else is in it, all of them
\* are unless it is full, and what is left has no smaller key.
IsFirst(found, S, key, limit) ==
    LET in == {found[k] : k \in DOMAIN found}
    IN  /\ in \subseteq S
        /\ Len(found) = limit \/ in = S
        /\ Cardinality(S) <= limit => in = S
        /\ \A r \in in, x \in S \ in : key[r] <= key[x]

\* FirstOf of a sorted list is that, on both servers.
LEMMA FirstOfSorted ==
    ASSUME NEW S, IsFiniteSet(S), NEW s, NEW key, IsSorted(s, S, key), NEW limit \in Nat
    PROVE  /\ IsFirst(Tools!FirstOf(s, limit), S, key, limit)
           /\ Py!FirstOf(s, limit) = Tools!FirstOf(s, limit)
<1> DEFINE n == Cardinality(S)
           m == IF n < limit THEN n ELSE limit
           f == [i \in 1..m |-> s[i]]
<1>1. n \in Nat /\ m \in Nat /\ m <= n
  BY FS_CardinalityType
<1>2. s \in [1..n -> S] /\ {s[i] : i \in DOMAIN s} = S
  <2>1. s \in [1..n -> S]
    BY DEF IsSorted
  <2>2. QED
    BY <2>1, SortedHasAll
<1> HIDE DEF n
<1>3. s \in Seq(S) /\ Len(s) = n
  BY <1>1, <1>2
<1>4. SubSeq(s, 1, m) = f
  <2> HIDE DEF m
  <2>1. SubSeq(s, 1, m) \in Seq(S) /\ Len(SubSeq(s, 1, m)) = m
    BY <1>1, <1>3
  <2>2. \A i \in 1..m : SubSeq(s, 1, m)[i] = s[i]
    BY <1>1, <1>3
  <2>3. QED
    BY <2>1, <2>2
<1>5. Tools!FirstOf(s, limit) = f /\ Py!FirstOf(s, limit) = f
  BY <1>3, <1>4 DEF Tools!FirstOf, Py!FirstOf
<1>6. f \in Seq(S) /\ Len(f) = m /\ DOMAIN f = 1..m
  <2> HIDE DEF m
  <2>1. \A i \in 1..m : s[i] \in S
    BY <1>1, <1>2
  <2>2. QED
    BY <1>1, <2>1
<1> DEFINE in == {f[k] : k \in DOMAIN f}
<1>7. in \subseteq S
  <2>1. \A k \in 1..m : f[k] \in S
    <3> HIDE DEF m
    <3>1. QED
      BY <1>1, <1>2
  <2> HIDE DEF f, m
  <2>2. QED
    BY <1>6, <2>1
<1>8. Len(f) = limit \/ in = S
  <2>1. CASE m = n
    <3> HIDE DEF m
    <3>1. QED
      BY <1>2, <1>6, <2>1
  <2>2. CASE m = limit
    BY <1>6, <2>2
  <2>3. QED
    BY <2>1, <2>2
<1>9. Cardinality(S) <= limit => in = S
  <2>1. n <= limit => m = n
    BY <1>1
  <2> HIDE DEF m
  <2>2. QED
    BY <1>2, <1>6, <2>1 DEF n
<1>10. ASSUME NEW r \in in, NEW x \in S \ in PROVE key[r] <= key[x]
  <2>1. PICK i \in 1..m : r = s[i]
    OBVIOUS
  <2>2. PICK j \in 1..n : x = s[j]
    BY <1>2
  <2> HIDE DEF m
  <2>3. j \notin 1..m
    BY <1>6, <2>2
  <2>4. i < j /\ i \in DOMAIN s /\ j \in DOMAIN s
    BY <1>1, <1>2, <2>3
  <2>5. QED
    BY <2>1, <2>2, <2>4 DEF IsSorted
<1>11. IsFirst(f, S, key, limit)
  <2> HIDE DEF f
  <2>1. QED
    BY <1>7, <1>8, <1>9, <1>10 DEF IsFirst
<1>12. QED
  BY <1>5, <1>11

\* A store and its earlier snapshot: chargers there are, one row per id.
Inventory(R) ==
    /\ IsFiniteSet(R)
    /\ \A r \in R : r.id \in DOMAIN Chargers /\ r \in Chargers[r.id]
    /\ \A r, x \in R : r.id = x.id => r = x
IInv == Inventory(rows) /\ Inventory(old)

\* An upsert replaces the row of its id, so that there is one of each.
THEOREM InvCorrect == Spec => []IInv
<1>1. Init => IInv
  BY FS_EmptySet DEF Init, IInv, Inventory
<1>2. IInv /\ [Next]_vars => IInv'
  <2> SUFFICES ASSUME IInv, [Next]_vars PROVE IInv'
    OBVIOUS
  <2>1. CASE Publish
    BY <2>1 DEF Publish, IInv, Inventory
  <2>2. ASSUME NEW id \in DOMAIN Chargers, NEW r \in Chargers[id], Upsert(r) PROVE IInv'
    <3> DEFINE rest == {x \in rows : x.id # r.id}
    <3>1. r.id = id
      BY ChargersAssumption
    <3>2. rest \in SUBSET rows /\ rows' = rest \cup {r} /\ old' = old
      BY <2>2 DEF Upsert
    <3>3. IsFiniteSet(rows')
      <4>1. IsFiniteSet(rest)
        BY <3>2, FS_Subset DEF IInv, Inventory
      <4> HIDE DEF rest
      <4>2. QED
        BY <3>2, <4>1, FS_AddElement
    <3>4. QED
      BY <3>1, <3>2, <3>3 DEF IInv, Inventory
  <2>3. CASE UNCHANGED vars
    BY <2>3 DEF vars, IInv, Inventory
  <2>4. QED
    BY <2>1, <2>2, <2>3 DEF Next
<1>3. QED
  BY <1>1, <1>2, PTL DEF Spec

\* The rows are what the schema and the parsers admit.
LEMMA RowsAreChargers ==
    ASSUME NEW R, Inventory(R)
    PROVE  \A r \in R : r.id \in Int /\ IsCharger(r)
  BY ChargersAssumption DEF Inventory

\* What a query selects has one row per id too.
LEMMA PartIsInventory ==
    ASSUME NEW R, Inventory(R), NEW S, S \subseteq R
    PROVE  Inventory(S)
<1>1. IsFiniteSet(S)
  <2>1. S \in SUBSET R
    OBVIOUS
  <2>2. QED
    BY <2>1, FS_Subset DEF Inventory
<1>2. QED
  BY <1>1 DEF Inventory

-----------------------------------------------------------------------------
(* The tools                                                                 *)

\* What is within the radius is within the box.
LEMMA SquareBound ==
    ASSUME NEW a \in Nat, NEW b \in Nat, NEW c \in Nat, a * a + b * b <= c * c
    PROVE  a <= c /\ b <= c
<1>1. \A x, y \in Nat : x > y => x * x > y * y
  <2>1. ASSUME NEW x \in Nat, NEW y \in Nat, x > y PROVE x * x > y * y
    <3>1. PICK d \in Nat : x = y + d /\ d > 0
      <4>1. x - y \in Nat /\ x = y + (x - y) /\ x - y > 0
        BY <2>1
      <4>2. QED
        BY <4>1
    <3>2. x * x = y * y + 2 * (y * d) + d * d
      BY <3>1
    <3>3. y * d \in Nat /\ d * d \in Nat /\ y * y \in Nat /\ d * d > 0
      BY <3>1
    <3>4. QED
      BY <3>2, <3>3
  <2>2. QED
    BY <2>1
<1>2. a * a \in Nat /\ b * b \in Nat /\ c * c \in Nat
  OBVIOUS
<1>3. QED
  BY <1>1, <1>2

\* haversineKm of at most the radius is within the box that nearLatLng reads
\* (workers/src/inventory_store.ts).
LEMMA WantedInBox ==
    ASSUME NEW R, Inventory(R), NEW at \in Int \X Int, NEW radius \in Nat, NEW r \in R,
           r.pos # None, Tools!haversineKm(at, r) <= radius * radius
    PROVE  r \in Tools!Box(R, at, radius)
<1>1. r.pos \in Int \X Int
  BY RowsAreChargers DEF IsCharger
<1>2. at[1] \in Int /\ at[2] \in Int /\ r.pos[1] \in Int /\ r.pos[2] \in Int
  BY <1>1
<1> DEFINE a == Tools!Dist(at[1], r.pos[1])
           b == Tools!Dist(at[2], r.pos[2])
<1>3. a \in Nat /\ b \in Nat /\ a = Tools!Dist(r.pos[1], at[1]) /\ b = Tools!Dist(r.pos[2], at[2])
  BY <1>2, DistIsNat
<1>4. a * a + b * b <= radius * radius
  BY DEF Tools!haversineKm
<1> HIDE DEF a, b
<1>5. a <= radius /\ b <= radius
  BY <1>3, <1>4, SquareBound
<1>6. QED
  BY <1>3, <1>5 DEF Tools!Box

\* The first of what is wanted, sorted by distance, is the nearest.
LEMMA FirstAreNearest ==
    ASSUME NEW S, NEW wanted, S \subseteq wanted, NEW at, NEW found, NEW limit, NEW all,
           IsFirst(found, S, Distance(S, at), limit),
           all => S = wanted
    PROVE  Nearest(found, wanted, at, limit, all)
<1> DEFINE in == {found[k] : k \in DOMAIN found}
<1>1. /\ in \subseteq S
      /\ Len(found) = limit \/ in = S
      /\ \A r \in in, x \in S \ in : Distance(S, at)[r] <= Distance(S, at)[x]
  BY DEF IsFirst
<1> HIDE DEF in
<1>2. ASSUME all, NEW r \in in, NEW x \in wanted \ in
      PROVE  Tools!haversineKm(at, r) <= Tools!haversineKm(at, x)
  BY <1>1, <1>2 DEF Distance
<1>3. QED
  BY <1>1, <1>2 DEF Nearest, in

\* If the candidates are as many as the box has, they are the box.
LEMMA AllCandidates ==
    ASSUME Inventory(rows), NEW at, NEW radius, NEW limit \in Nat,
           NEW candidates \in Tools!nearLatLng(rows, at, radius, limit)
    PROVE  /\ candidates \subseteq Tools!Box(rows, at, radius)
           /\ Web!Count(Tools!Box(rows, at, radius)) <= limit =>
                candidates = Tools!Box(rows, at, radius)
<1> DEFINE box == Tools!Box(rows, at, radius)
<1>1. box \in SUBSET rows
  BY DEF Tools!Box
<1>2. IsFiniteSet(box) /\ Cardinality(box) \in Nat
  BY <1>1, FS_Subset, FS_CardinalityType DEF Inventory
<1> HIDE DEF box
<1>3. /\ candidates \in SUBSET box
      /\ Cardinality(candidates) = IF Cardinality(box) < limit THEN Cardinality(box) ELSE limit
  BY SameCount DEF Tools!nearLatLng, Tools!kSubset, box
<1>4. Cardinality(box) = Cardinality(candidates) => box = candidates
  BY <1>2, <1>3, FS_Subset
<1>5. QED
  BY <1>2, <1>3, <1>4, SameCount DEF Web!Count, box

\* Both searches near a place find the nearest, when the box was read whole
\* (workers/src/tools/inventory.ts, src/ev_mcp/tools).
LEMMA NearestFoundHolds == Inventory(rows) => NearestFound
<1> SUFFICES ASSUME Inventory(rows),
                    NEW at \in Places, NEW radius \in Radii, NEW limit \in Limits,
                    NEW only \in BOOLEAN,
                    NEW candidates \in Tools!nearLatLng(rows, at, radius, limit * Overfetch)
             PROVE  LET wanted == Tools!Wanted({r \in rows : r.pos # None}, at, radius, only)
                        all == Web!Count(Tools!Box(rows, at, radius)) <= limit * Overfetch
                    IN  /\ Nearest(Tools!findChargersNearby(candidates, at, radius, only, limit),
                                   wanted, at, limit, all)
                        /\ Nearest(Py!find_chargers_nearby(candidates, at, radius, {TRUE}, only, limit),
                                   {r \in wanted : r.dc}, at, limit, all)
  BY DEF NearestFound
<1> DEFINE wanted == Tools!Wanted({r \in rows : r.pos # None}, at, radius, only)
           all == Web!Count(Tools!Box(rows, at, radius)) <= limit * Overfetch
           S == Tools!Wanted(candidates, at, radius, only)
           D == {r \in S : r.dc}
<1>1. /\ at \in Int \X Int /\ radius \in Nat /\ limit \in Nat /\ Overfetch \in Nat
      /\ limit * Overfetch \in Nat
  BY AskedAssumption
<1>2. /\ candidates \subseteq Tools!Box(rows, at, radius)
      /\ all => candidates = Tools!Box(rows, at, radius)
  BY <1>1, AllCandidates
<1>3. candidates \subseteq {r \in rows : r.pos # None}
  BY <1>2 DEF Tools!Box
<1> HIDE DEF all
<1>4. S \subseteq wanted /\ D \subseteq {r \in wanted : r.dc}
  BY <1>3 DEF Tools!Wanted
<1>5. wanted \subseteq Tools!Box(rows, at, radius)
  BY <1>1, WantedInBox DEF Tools!Wanted
<1>6. all => S = wanted /\ D = {r \in wanted : r.dc}
  BY <1>2, <1>4, <1>5 DEF Tools!Wanted
<1>7. /\ S \subseteq rows /\ \A r \in S : r.pos # None
      /\ D \subseteq S
  BY <1>3 DEF Tools!Wanted
<1>8. \A r \in S : r.pos \in Int \X Int /\ r.dc \in BOOLEAN
  BY <1>7, RowsAreChargers DEF IsCharger
<1>9. IsFiniteSet(S) /\ IsFiniteSet(D)
  BY <1>7, PartIsInventory DEF Inventory
<1>10. {r \in candidates : /\ Py!Passes(r, {TRUE}, only)
                           /\ Py!haversineKm(at, r) <= radius * radius} = D
  <2>1. \A r \in candidates : r.pos \in Int \X Int /\ r.dc \in BOOLEAN
    BY <1>3, RowsAreChargers DEF IsCharger
  <2>2. \A r \in candidates : Py!haversineKm(at, r) = Tools!haversineKm(at, r)
    BY <1>1, <2>1, KmIsInt
  <2>3. QED
    BY <2>1, <2>2, NullAssumption DEF Py!Passes, Tools!Wanted
<1> HIDE DEF S, D, wanted
<1>11. Nearest(Tools!findChargersNearby(candidates, at, radius, only, limit),
               wanted, at, limit, all)
  <2>1. IsFirst(Tools!findChargersNearby(candidates, at, radius, only, limit),
                S, Distance(S, at), limit)
    BY <1>1, <1>8, <1>9, SortedByDistance, FirstOfSorted DEF Tools!findChargersNearby, S
  <2>2. QED
    BY <1>4, <1>6, <2>1, FirstAreNearest
<1>12. Nearest(Py!find_chargers_nearby(candidates, at, radius, {TRUE}, only, limit),
               {r \in wanted : r.dc}, at, limit, all)
  <2>1. \A r \in D : r.pos \in Int \X Int
    BY <1>7, <1>8
  <2>2. IsSorted(Py!Sorted(D, LAMBDA r : Py!haversineKm(at, r)), D, Distance(D, at))
    BY <1>1, <1>9, <2>1, SortedByDistance
  <2>3. Py!find_chargers_nearby(candidates, at, radius, {TRUE}, only, limit)
          = Py!FirstOf(Py!Sorted(D, LAMBDA r : Py!haversineKm(at, r)), limit)
    BY <1>10 DEF Py!find_chargers_nearby
  <2>4. IsFirst(Py!find_chargers_nearby(candidates, at, radius, {TRUE}, only, limit),
                D, Distance(D, at), limit)
    BY <1>1, <1>9, <2>2, <2>3, FirstOfSorted
  <2>5. QED
    BY <1>4, <1>6, <2>4, FirstAreNearest
<1>13. QED
  BY <1>11, <1>12 DEF wanted, all

\* The first rows in the order of the key.
LEMMA FirstByKey ==
    ASSUME NEW S, Inventory(S), NEW limit \in Nat
    PROVE  /\ Complete(Tools!FirstOf(Tools!InOrder(S), limit), S, limit)
           /\ Complete(Py!FirstOf(Py!InOrder(S), limit), S, limit)
           /\ Cardinality(S) <= limit => Py!ToSet(Py!FirstOf(Py!InOrder(S), limit)) = S
           /\ Py!ToSet(Py!FirstOf(Py!InOrder(S), limit)) \subseteq S
<1> DEFINE key == [r \in S |-> r.id]
<1>1. IsFiniteSet(S) /\ \A r \in S : r.id \in Int
  BY RowsAreChargers DEF Inventory
<1>2. IsSorted(Tools!InOrder(S), S, key) /\ IsSorted(Py!InOrder(S), S, key)
  BY <1>1, SortedById
<1> HIDE DEF key
<1>3. /\ IsFirst(Tools!FirstOf(Tools!InOrder(S), limit), S, key, limit)
      /\ IsFirst(Py!FirstOf(Py!InOrder(S), limit), S, key, limit)
  BY <1>1, <1>2, FirstOfSorted
<1>4. QED
  BY <1>3 DEF IsFirst, Complete, Py!ToSet

\* Both servers look up the same codes.
LEMMA SameCodes ==
    \A q : Py!resolveSido(q) = Tools!resolveSido(q) /\ Py!resolveSigungu(q) = Tools!resolveSigungu(q)
<1> TAKE q
<1>1. \A S : Py!Min(S) = Tools!Min(S)
  BY DEF Py!Min, Tools!Min
<1>2. \A k, table : Py!IsCode(k, table) = Tools!IsCode(k, table)
  BY DEF Py!IsCode, Tools!IsCode
<1>3. Py!resolveSido(q) = Tools!resolveSido(q)
  BY <1>1, <1>2 DEF Py!resolveSido, Tools!resolveSido, Py!FirstMatch, Tools!FirstMatch
<1>4. Py!resolveSigungu(q) = Tools!resolveSigungu(q)
  BY <1>1, <1>2, SameCount DEF Py!resolveSigungu, Tools!resolveSigungu
<1>5. QED
  BY <1>3, <1>4

\* What the Python server reads by a region is a number of rows.
LEMMA FetchLimitIsNat ==
    ASSUME NEW limit \in Nat
    PROVE  Py!fetch_limit(limit) \in Nat
<1>1. ASSUME NEW a \in Nat, NEW b \in Nat
      PROVE  Py!Max({a, b}) \in Nat /\ Py!Min({a, b}) \in Nat
  <2>1. \E x \in {a, b} : \A y \in {a, b} : x >= y
    OBVIOUS
  <2>2. \E x \in {a, b} : \A y \in {a, b} : x <= y
    OBVIOUS
  <2>3. Py!Max({a, b}) \in {a, b} /\ Py!Min({a, b}) \in {a, b}
    BY <2>1, <2>2 DEF Py!Max, Py!Min
  <2>4. QED
    BY <2>3
<1>2. limit * RegionFetch.times \in Nat /\ RegionFetch.least \in Nat /\ RegionFetch.most \in Nat
  BY AskedAssumption
<1>3. QED
  BY <1>1, <1>2 DEF Py!fetch_limit

\* A search by region reads first and filters then.
ReadAndFiltered(there, types, limit) ==
    LET read == Py!ToSet(Py!FirstOf(Py!InOrder(there), Py!fetch_limit(limit)))
    IN  Py!FirstOf(Py!InOrder({r \in read : Py!Passes(r, types, TRUE)}), limit)

\* It has all that pass when the region has no more than it reads.
LEMMA RegionComplete ==
    ASSUME NEW there, Inventory(there), NEW limit \in Nat, NEW types
    PROVE  LET found == ReadAndFiltered(there, types, limit)
               wanted == {r \in there : Py!Passes(r, types, TRUE)}
           IN  /\ {found[k] : k \in DOMAIN found} \subseteq wanted
               /\ Web!Count(there) <= Py!fetch_limit(limit) => Complete(found, wanted, limit)
<1> DEFINE found == ReadAndFiltered(there, types, limit)
           read == Py!ToSet(Py!FirstOf(Py!InOrder(there), Py!fetch_limit(limit)))
           kept == {r \in read : Py!Passes(r, types, TRUE)}
<1>1. read \subseteq there /\ (Cardinality(there) <= Py!fetch_limit(limit) => read = there)
  BY FirstByKey, FetchLimitIsNat
<1> HIDE DEF read
<1>2. Inventory(kept)
  BY <1>1, PartIsInventory
<1>3. Complete(found, kept, limit)
  BY <1>2, FirstByKey DEF read, ReadAndFiltered
<1> HIDE DEF found
<1>4. QED
  BY <1>1, <1>3, SameCount DEF Complete, Web!Count, found

\* Lists by operator or region have what was asked for and all of it up to the
\* limit (workers/src/tools/inventory.ts, src/ev_mcp/tools).
LEMMA ListsCompleteHolds == Inventory(rows) => ListsComplete
<1> SUFFICES ASSUME Inventory(rows), NEW limit \in Limits, NEW region \in Asked \cup {None}
             PROVE  LET z == Tools!resolveSido(region)
        IN  /\ \A operator \in Asked :
                 LET list == Tools!listChargersByOperator(rows, operator, region, limit)
                     b == Tools!resolveBusiId(operator)
                 IN  list # None =>
                       Complete(list, {r \in rows : /\ r.busi_id = b
                                                    /\ region # None => r.zcode = z}, limit)
            /\ \A district \in Asked \cup {None} :
                 LET zs == Tools!resolveSigungu(district)
                     there == {r \in rows : IF district = None THEN r.zcode = z
                                                              ELSE r.zscode = zs}
                     list == Tools!searchChargersByRegion(rows, region, district, limit)
                 IN  /\ list # None => Complete(list, there, limit)
                     /\ list # None => \A types \in {None, {TRUE}} :
                          LET found == Py!search_chargers_by_region(
                                           rows, region, district, types, TRUE, limit)
                              wanted == {r \in there : Py!Passes(r, types, TRUE)}
                          IN  /\ {found[k] : k \in DOMAIN found} \subseteq wanted
                              /\ Web!Count(there) <= Py!fetch_limit(limit) =>
                                   Complete(found, wanted, limit)
  BY DEF ListsComplete
<1> DEFINE z == Tools!resolveSido(region)
<1>0. limit \in Nat
  BY AskedAssumption
<1>1. ASSUME NEW S, S \subseteq rows
      PROVE  Inventory(S) /\ Complete(Tools!FirstOf(Tools!InOrder(S), limit), S, limit)
  BY <1>0, <1>1, PartIsInventory, FirstByKey
<1> HIDE DEF z
<1>2. ASSUME NEW operator \in Asked,
             Tools!listChargersByOperator(rows, operator, region, limit) # None
      PROVE  Complete(Tools!listChargersByOperator(rows, operator, region, limit),
                      {r \in rows : /\ r.busi_id = Tools!resolveBusiId(operator)
                                    /\ region # None => r.zcode = z}, limit)
  <2> DEFINE b == Tools!resolveBusiId(operator)
             all == {r \in rows : r.busi_id = b /\ (region # None => r.zcode = z)}
  <2> HIDE DEF b
  <2>1. Complete(Tools!FirstOf(Tools!InOrder(all), limit), all, limit)
    BY <1>1
  <2>2. CASE region = None
    <3>1. all = {r \in rows : r.busi_id = b}
      BY <2>2
    <3>2. Tools!listChargersByOperator(rows, operator, region, limit) = Tools!byBusiId(rows, b, limit)
      BY <1>2, <2>2 DEF Tools!listChargersByOperator, b
    <3> HIDE DEF all
    <3>3. QED
      BY <2>1, <3>1, <3>2 DEF Tools!byBusiId, all, b
  <2>3. CASE region # None
    <3>1. all = {r \in rows : r.busi_id = b /\ r.zcode = z}
      BY <2>3
    <3>2. Tools!listChargersByOperator(rows, operator, region, limit)
            = Tools!byBusiIdAndZcode(rows, b, z, limit)
      BY <1>2, <2>3 DEF Tools!listChargersByOperator, b, z
    <3> HIDE DEF all
    <3>3. QED
      BY <2>1, <3>1, <3>2 DEF Tools!byBusiIdAndZcode, all, b
  <2>4. QED
    BY <2>2, <2>3
<1>3. ASSUME NEW district \in Asked \cup {None},
             Tools!searchChargersByRegion(rows, region, district, limit) # None
      PROVE  LET zs == Tools!resolveSigungu(district)
                 there == {r \in rows : IF district = None THEN r.zcode = z ELSE r.zscode = zs}
             IN  /\ Complete(Tools!searchChargersByRegion(rows, region, district, limit), there, limit)
                 /\ \A types \in {None, {TRUE}} :
                      LET found == Py!search_chargers_by_region(
                                       rows, region, district, types, TRUE, limit)
                          wanted == {r \in there : Py!Passes(r, types, TRUE)}
                      IN  /\ {found[k] : k \in DOMAIN found} \subseteq wanted
                          /\ Web!Count(there) <= Py!fetch_limit(limit) =>
                               Complete(found, wanted, limit)
  <2> DEFINE zs == Tools!resolveSigungu(district)
             there == {r \in rows : IF district = None THEN r.zcode = z ELSE r.zscode = zs}
             Read(types) == ReadAndFiltered(there, types, limit)
  <2> HIDE DEF zs
  <2>1. z # None /\ (district # None => zs # None)
    BY <1>3 DEF Tools!searchChargersByRegion, z, zs
  <2>2. Tools!searchChargersByRegion(rows, region, district, limit)
          = Tools!FirstOf(Tools!InOrder(there), limit)
    <3>1. CASE district = None
      <4>1. there = {r \in rows : r.zcode = z}
        BY <3>1
      <4> HIDE DEF there
      <4>2. QED
        BY <2>1, <3>1, <4>1 DEF Tools!searchChargersByRegion, Tools!byZcode, z
    <3>2. CASE district # None
      <4>1. there = {r \in rows : r.zscode = zs}
        BY <3>2
      <4> HIDE DEF there
      <4>2. QED
        BY <2>1, <3>2, <4>1 DEF Tools!searchChargersByRegion, Tools!byZscode, z, zs
    <3>3. QED
      BY <3>1, <3>2
  <2>3. ASSUME NEW types
        PROVE  Py!search_chargers_by_region(rows, region, district, types, TRUE, limit) = Read(types)
    <3>1. CASE district = None
      <4>1. there = {r \in rows : r.zcode = z}
        BY <3>1
      <4> HIDE DEF there
      <4>2. QED
        BY <2>1, <3>1, <4>1, SameCodes DEF ReadAndFiltered, Py!search_chargers_by_region, Py!byZcode, z
    <3>2. CASE district # None
      <4>1. there = {r \in rows : r.zscode = zs}
        BY <3>2
      <4> HIDE DEF there
      <4>2. QED
        BY <2>1, <3>2, <4>1, SameCodes DEF ReadAndFiltered, Py!search_chargers_by_region, Py!byZscode, z, zs
    <3>3. QED
      BY <3>1, <3>2
  <2>4. there \subseteq rows
    OBVIOUS
  <2> HIDE DEF there
  <2>5. Inventory(there) /\ Complete(Tools!FirstOf(Tools!InOrder(there), limit), there, limit)
    BY <1>1, <2>4
  <2>6. ASSUME NEW types
        PROVE  LET found == Read(types)
                   wanted == {r \in there : Py!Passes(r, types, TRUE)}
               IN  /\ {found[k] : k \in DOMAIN found} \subseteq wanted
                   /\ Web!Count(there) <= Py!fetch_limit(limit) => Complete(found, wanted, limit)
    BY <1>0, <2>5, RegionComplete
  <2> HIDE DEF Read
  <2>7. QED
    BY <2>2, <2>3, <2>5, <2>6 DEF there, zs
<1>4. QED
  BY <1>2, <1>3 DEF z

\* Every row is among the details of its station (getStationDetails).
LEMMA DetailsFoundHolds == Inventory(rows) => DetailsFound
<1> SUFFICES ASSUME Inventory(rows), NEW r \in rows
             PROVE  \E k \in DOMAIN Tools!getStationDetails(rows, r.stat_id) :
                        Tools!getStationDetails(rows, r.stat_id)[k] = r
  BY DEF DetailsFound
<1> DEFINE S == {x \in rows : x.stat_id = r.stat_id}
<1>1. Inventory(S) /\ r \in S
  BY PartIsInventory
<1>2. IsFiniteSet(S) /\ \A x \in S : x.id \in Int
  BY <1>1, RowsAreChargers DEF Inventory
<1>3. Tools!getStationDetails(rows, r.stat_id) = Tools!InOrder(S)
  BY DEF Tools!getStationDetails, Tools!byStatId
<1> HIDE DEF S
<1>4. LET s == Tools!InOrder(S) IN {s[i] : i \in DOMAIN s} = S
  <2> DEFINE key == [x \in S |-> x.id]
  <2>1. IsSorted(Tools!InOrder(S), S, key)
    BY <1>2, SortedById
  <2> HIDE DEF key
  <2>2. QED
    BY <1>2, <2>1, SortedHasAll
<1>5. QED
  BY <1>1, <1>3, <1>4

\* ToolsAnswer holds in every state: the tools answer what they were asked, for
\* every place, radius, limit, operator and region (workers/src/tools, src/ev_mcp/tools).
THEOREM ToolsCorrect == Spec => []ToolsAnswer
<1>1. IInv => ToolsAnswer
  BY NearestFoundHolds, ListsCompleteHolds, DetailsFoundHolds DEF IInv, ToolsAnswer
<1>2. QED
  BY <1>1, InvCorrect, PTL

-----------------------------------------------------------------------------
(* The difference of two snapshots                                           *)
Ids(R) == {r.id : r \in R}

\* There is a row per id.
LEMMA IdsCount ==
    ASSUME NEW R, Inventory(R)
    PROVE  IsFiniteSet(Ids(R)) /\ Cardinality(Ids(R)) = Cardinality(R) /\ Cardinality(R) \in Nat
<1> DEFINE f == [r \in R |-> r.id]
<1>1. f \in Surjection(R, Ids(R))
  BY DEF Surjection, Ids
<1>2. f \in Injection(R, Ids(R))
  BY DEF Injection, IsInjective, Inventory, Ids
<1>3. IsFiniteSet(R)
  BY DEF Inventory
<1> HIDE DEF f
<1>4. QED
  BY <1>1, <1>2, <1>3, FS_Surjection, FS_CardinalityType

\* What came and what went is the change of the number.
LEMMA CameAndWent ==
    ASSUME NEW S, IsFiniteSet(S), NEW T, IsFiniteSet(T)
    PROVE  /\ Cardinality(T \ S) \in Nat /\ Cardinality(S \ T) \in Nat
           /\ Cardinality(T \ S) - Cardinality(S \ T) = Cardinality(T) - Cardinality(S)
<1>1. /\ IsFiniteSet(T \ S) /\ IsFiniteSet(S \ T) /\ IsFiniteSet(T \cap S)
      /\ Cardinality(T \ S) = Cardinality(T) - Cardinality(T \cap S)
      /\ Cardinality(S \ T) = Cardinality(S) - Cardinality(S \cap T)
  BY FS_Difference, FS_Intersection
<1>2. Cardinality(S \cap T) = Cardinality(T \cap S)
  <2>1. S \cap T = T \cap S
    OBVIOUS
  <2>2. QED
    BY <2>1
<1>3. /\ Cardinality(T \ S) \in Nat /\ Cardinality(S \ T) \in Nat /\ Cardinality(T \cap S) \in Nat
      /\ Cardinality(T) \in Nat /\ Cardinality(S) \in Nat
  BY <1>1, FS_CardinalityType
<1>4. QED
  BY <1>1, <1>2, <1>3

\* The rows that are not deleted have one per id too.
LEMMA LiveInventory ==
    ASSUME NEW R, Inventory(R)
    PROVE  Inventory(Web!Live(R)) /\ Py!Undeleted(R) = Web!Live(R)
<1>1. Web!Live(R) \subseteq R
  BY DEF Web!Live
<1>2. QED
  BY <1>1, PartIsInventory DEF Web!Live, Py!Undeleted

\* A difference with what came and what went exchanged.
LEMMA Mirrored ==
    ASSUME NEW p, NEW q, NEW c, NEW d, NEW e,
           d = [appeared |-> p, disappeared |-> q, stat_changed |-> c],
           e = [d EXCEPT !.appeared = q, !.disappeared = p]
    PROVE  e = [appeared |-> q, disappeared |-> p, stat_changed |-> c]
<1>1. DOMAIN e = {"appeared", "disappeared", "stat_changed"}
  OBVIOUS
<1>2. e.appeared = q /\ e.disappeared = p /\ e.stat_changed = c
  OBVIOUS
<1>3. e = [x \in {"appeared", "disappeared", "stat_changed"} |-> e[x]]
  BY <1>1
<1>4. QED
  BY <1>2, <1>3

\* The cards explain the change of the total, and mirror (web/trends.js).
LEMMA CardsBalance ==
    IInv => LET d == Web!qDiff(old, rows)
                back == Web!qDiff(rows, old)
            IN  /\ d.appeared - d.disappeared = Web!Q_TREND(rows).total - Web!Q_TREND(old).total
                /\ back = [d EXCEPT !.appeared = d.disappeared, !.disappeared = d.appeared]
<1> SUFFICES ASSUME IInv
             PROVE  LET d == Web!qDiff(old, rows)
                        back == Web!qDiff(rows, old)
                    IN  /\ d.appeared - d.disappeared
                             = Web!Q_TREND(rows).total - Web!Q_TREND(old).total
                        /\ back = [d EXCEPT !.appeared = d.disappeared,
                                            !.disappeared = d.appeared]
  OBVIOUS
<1> DEFINE f == Web!Live(old)
           t == Web!Live(rows)
           changed(x, y) == {r.id : r \in {a \in y : \E b \in x : b.id = a.id /\ b.stat # a.stat}}
           D(x, y) == [appeared |-> Cardinality(Ids(y) \ Ids(x)),
                       disappeared |-> Cardinality(Ids(x) \ Ids(y)),
                       stat_changed |-> Cardinality(changed(x, y))]
<1>1. Inventory(f) /\ Inventory(t)
  BY LiveInventory DEF IInv
<1>2. Web!qDiff(old, rows) = D(f, t) /\ Web!qDiff(rows, old) = D(t, f)
  BY SameCount DEF Web!qDiff, Ids
<1>3. Web!Q_TREND(rows).total = Cardinality(t) /\ Web!Q_TREND(old).total = Cardinality(f)
  BY SameCount DEF Web!Q_TREND, Web!Count
<1> HIDE DEF f, t
<1>4. Cardinality(Ids(t) \ Ids(f)) - Cardinality(Ids(f) \ Ids(t)) = Cardinality(t) - Cardinality(f)
  BY <1>1, IdsCount, CameAndWent
<1>5. changed(f, t) = changed(t, f)
  <2>1. ASSUME NEW x, NEW y, NEW i, i \in changed(x, y) PROVE i \in changed(y, x)
    <3>1. PICK a \in y : i = a.id /\ \E b \in x : b.id = a.id /\ b.stat # a.stat
      BY <2>1
    <3>2. PICK b \in x : b.id = a.id /\ b.stat # a.stat
      BY <3>1
    <3>3. i = b.id /\ a.id = b.id /\ a.stat # b.stat
      BY <3>1, <3>2
    <3>4. QED
      BY <3>3
  <2> HIDE DEF changed
  <2>2. QED
    BY <2>1
<1> DEFINE p == Cardinality(Ids(t) \ Ids(f))
           q == Cardinality(Ids(f) \ Ids(t))
           c == Cardinality(changed(f, t))
<1>6. /\ Web!qDiff(old, rows) = [appeared |-> p, disappeared |-> q, stat_changed |-> c]
      /\ Web!qDiff(rows, old) = [appeared |-> q, disappeared |-> p, stat_changed |-> c]
  <2> HIDE DEF changed
  <2>1. QED
    BY <1>2, <1>5
<1>7. p - q = Web!Q_TREND(rows).total - Web!Q_TREND(old).total
  BY <1>3, <1>4
<1> HIDE DEF p, q, c
<1> DEFINE d == [appeared |-> p, disappeared |-> q, stat_changed |-> c]
<1>8. d.appeared = p /\ d.disappeared = q
  OBVIOUS
<1>9. [appeared |-> q, disappeared |-> p, stat_changed |-> c]
        = [d EXCEPT !.appeared = q, !.disappeared = p]
  <2> DEFINE e == [d EXCEPT !.appeared = q, !.disappeared = p]
  <2>1. d = [appeared |-> p, disappeared |-> q, stat_changed |-> c]
    OBVIOUS
  <2>2. e = [d EXCEPT !.appeared = q, !.disappeared = p]
    OBVIOUS
  <2> HIDE DEF d, e
  <2>3. e = [appeared |-> q, disappeared |-> p, stat_changed |-> c]
    BY <2>1, <2>2, Mirrored, Zenon
  <2>4. QED
    BY <2>3 DEF e
<1>10. Web!qDiff(old, rows) = d
  BY <1>6
<1> HIDE DEF d
<1>11. QED
  BY <1>6, <1>7, <1>8, <1>9, <1>10

-----------------------------------------------------------------------------
(* The trend of the last two dates                                           *)

\* The dates of two snapshots, in their order.
LEMMA TwoDates ==
    ASSUME NEW S, S \subseteq {1, 2}
    PROVE  LET dates == Py!Sorted(S, LAMBDA d : d)
           IN  /\ dates \in Seq(S) /\ Len(dates) <= 2
               /\ Len(dates) = 2 <=> S = {1, 2}
               /\ S = {1, 2} => dates[1] = 1 /\ dates[2] = 2
<1> DEFINE key == [d \in S |-> d]
           dates == Py!Sorted(S, LAMBDA d : d)
           IsOne(s) == /\ s \in [1..Cardinality(S) -> S]
                       /\ IsInjective(s)
                       /\ \A i, j \in DOMAIN s : i < j => s[i] <= s[j]
<1>1. /\ IsFiniteSet({1, 2}) /\ Cardinality({1, 2}) = 2
  <2>1. {1, 2} = 1..2
    OBVIOUS
  <2>2. \A n \in Nat : IsFiniteSet(1..n) /\ Cardinality(1..n) = n
    BY FS_Interval
  <2>3. QED
    BY <2>1, <2>2
<1>2. /\ IsFiniteSet(S) /\ Cardinality(S) \in Nat /\ Cardinality(S) <= 2
      /\ Cardinality(S) = 2 <=> S = {1, 2}
  <2>1. S \in SUBSET {1, 2}
    OBVIOUS
  <2>2. QED
    BY <1>1, <2>1, FS_Subset, FS_CardinalityType
<1>3. ASSUME NEW s, s \in [1..Cardinality(S) -> S]
      PROVE  \A i \in DOMAIN s : key[s[i]] = s[i]
  BY <1>3
<1>4. \E s : IsSorted(s, S, key)
  <2>1. key \in [S -> Int]
    OBVIOUS
  <2> HIDE DEF key
  <2>2. QED
    BY <1>2, <2>1, SortedExists
<1> HIDE DEF key
<1>5. \E s : IsOne(s)
  <2>1. PICK s : IsSorted(s, S, key)
    BY <1>4
  <2>2. /\ s \in [1..Cardinality(S) -> S] /\ IsInjective(s)
        /\ \A i, j \in DOMAIN s : i < j => key[s[i]] <= key[s[j]]
    BY <2>1 DEF IsSorted
  <2>3. \A i \in DOMAIN s : key[s[i]] = s[i]
    BY <1>3, <2>2
  <2>4. IsOne(s)
    BY <2>2, <2>3
  <2> HIDE DEF IsOne
  <2>5. QED
    BY <2>4
<1>6. IsOne(dates)
  BY <1>5, SameCount DEF Py!Sorted, Py!IsInjective, IsInjective
<1> HIDE DEF dates
<1>7. dates \in Seq(S) /\ Len(dates) = Cardinality(S)
  BY <1>2, <1>6
<1>8. ASSUME S = {1, 2} PROVE dates[1] = 1 /\ dates[2] = 2
  <2>1. DOMAIN dates = 1..2 /\ dates[1] \in {1, 2} /\ dates[2] \in {1, 2}
    BY <1>2, <1>6, <1>8
  <2>2. 1 \in DOMAIN dates /\ 2 \in DOMAIN dates
    BY <2>1
  <2>3. dates[1] # dates[2] /\ dates[1] <= dates[2]
    BY <1>6, <2>2 DEF IsInjective
  <2>4. QED
    BY <2>1, <2>3
<1>9. QED
  BY <1>2, <1>7, <1>8 DEF dates

\* snapshot_diff of the last two dates explains the last step of inventory_trend
\* (src/ev_mcp/tools).
LEMMA TrendExplainedHolds == IInv => TrendExplained
<1> SUFFICES ASSUME IInv PROVE TrendExplained
  OBVIOUS
<1> DEFINE v_all == <<old, rows>>
           S == {d \in DOMAIN v_all : v_all[d] # {}}
           U == {d \in DOMAIN v_all : Py!Undeleted(v_all[d]) # {}}
           seen == Py!Sorted(S, LAMBDA d : d)
           dates == Py!Sorted(U, LAMBDA d : d)
           trend == Py!inventory_trend(v_all, 2)
           total(k) == Cardinality(Py!Undeleted(v_all[dates[k]]))
<1>1. /\ S \subseteq {1, 2} /\ U \subseteq S /\ v_all[1] = old /\ v_all[2] = rows
      /\ DOMAIN v_all = {1, 2}
  BY DEF Py!Undeleted
<1>2. dates = Py!Dated(v_all, LAMBDA R : Py!Undeleted(R) # {})
  BY DEF Py!Dated
<1>3. seen = Py!Dated(v_all, LAMBDA R : R # {})
  BY DEF Py!Dated
<1> HIDE DEF seen, dates, S, U
<1>4. /\ dates \in Seq(U) /\ Len(dates) <= 2
      /\ Len(dates) = 2 <=> U = {1, 2}
      /\ U = {1, 2} => dates[1] = 1 /\ dates[2] = 2
  <2>1. U \subseteq {1, 2}
    BY <1>1
  <2>2. QED
    BY <2>1, TwoDates DEF dates
<1>5. SubSeq(dates, Py!Max({1, Len(dates) - 2 + 1}), Len(dates)) = dates
  <2>1. Len(dates) \in Nat /\ Len(dates) - 2 + 1 <= 1 /\ Len(dates) - 2 + 1 \in Int
    BY <1>4
  <2>2. Py!Max({1, Len(dates) - 2 + 1}) = 1
    <3>1. \A x \in {1, Len(dates) - 2 + 1} :
             (\A y \in {1, Len(dates) - 2 + 1} : x >= y) <=> x = 1
      BY <2>1
    <3>2. QED
      BY <3>1 DEF Py!Max
  <2>3. SubSeq(dates, 1, Len(dates)) = dates
    <3>1. /\ SubSeq(dates, 1, Len(dates)) \in Seq(U)
          /\ Len(SubSeq(dates, 1, Len(dates))) = Len(dates)
          /\ \A k \in 1..Len(dates) : SubSeq(dates, 1, Len(dates))[k] = dates[k]
      BY <1>4, <2>1, SubSeqProperties
    <3>2. QED
      BY <1>4, <2>1, <3>1, SeqEqual
  <2>4. QED
    BY <2>2, <2>3
<1>6. trend = [k \in DOMAIN dates |->
                [snapshot_date  |-> dates[k],
                 total_chargers |-> total(k),
                 dc_count       |-> Cardinality({r \in Py!Undeleted(v_all[dates[k]]) : r.dc}),
                 delta_total    |-> IF k = 1 THEN None ELSE total(k) - total(k - 1)]]
  <2> HIDE DEF v_all
  <2>1. QED
    BY <1>2, <1>5, SameCount DEF Py!inventory_trend
<1>7. \A k \in DOMAIN trend :
         /\ trend[k].total_chargers = Web!Q_TREND(v_all[trend[k].snapshot_date]).total
         /\ trend[k].dc_count = Web!Q_TREND(v_all[trend[k].snapshot_date]).dc
  <2> HIDE DEF v_all, trend
  <2>1. \A R : Py!Undeleted(R) = Web!Live(R)
    BY DEF Py!Undeleted, Web!Live
  <2>2. QED
    BY <1>6, <2>1, SameCount DEF Web!Q_TREND, Web!Count
<1>8. ASSUME Len(trend) = 2
      PROVE  LET diff == Py!snapshot_diff(v_all, None, None)
             IN  diff # None /\ diff.net_change = trend[2].delta_total
  <2>1. Len(dates) = 2 /\ DOMAIN dates = {1, 2}
    <3> HIDE DEF v_all, trend
    <3>1. DOMAIN trend = DOMAIN dates /\ DOMAIN dates = 1..Len(dates) /\ Len(dates) \in Nat
      BY <1>4, <1>6
    <3>2. trend = [k \in 1..Len(dates) |-> trend[k]]
      BY <1>6, <3>1
    <3>3. Len(trend) = Len(dates)
      <4> DEFINE n == Len(dates)
                 E(k) == trend[k]
      <4>1. n \in Nat /\ trend = [k \in 1..n |-> E(k)]
        BY <3>1, <3>2
      <4> HIDE DEF n, E
      <4>2. Len([k \in 1..n |-> E(k)]) = n
        BY <4>1
      <4>3. QED
        BY <4>1, <4>2 DEF n
    <3>4. QED
      BY <1>8, <3>1, <3>3
  <2>2. U = {1, 2} /\ S = {1, 2} /\ dates[1] = 1 /\ dates[2] = 2
    BY <1>1, <1>4, <2>1
  <2>3. Len(seen) = 2 /\ seen[1] = 1 /\ seen[2] = 2 /\ seen \in Seq({1, 2})
    BY <2>2, TwoDates DEF seen
  <2> DEFINE f == Web!Live(old)
             t == Web!Live(rows)
             diff == Py!snapshot_diff(v_all, None, None)
  <2>4. Inventory(f) /\ Inventory(t) /\ Py!Undeleted(v_all[1]) = f /\ Py!Undeleted(v_all[2]) = t
    BY <1>1, LiveInventory DEF IInv
  <2>5. Py!ToSet(seen) = {1, 2}
    <3>1. DOMAIN seen = 1..2
      BY <2>3
    <3>2. QED
      BY <2>3, <3>1 DEF Py!ToSet
  <2> DEFINE changed == Cardinality({r \in t : \E x \in f : x.id = r.id /\ x.stat # r.stat})
             a == Cardinality(Ids(t) \ Ids(f))
             b == Cardinality(Ids(f) \ Ids(t))
  <2>6. diff = [appeared |-> a, disappeared |-> b, stat_changed |-> changed, net_change |-> a - b]
    <3> HIDE DEF v_all, f, t
    <3>1. /\ Py!Undeleted(v_all[seen[Len(seen) - 1]]) = f
          /\ Py!Undeleted(v_all[seen[Len(seen)]]) = t
      BY <2>3, <2>4
    <3>2. /\ ~(Len(seen) < 2)
          /\ {seen[Len(seen) - 1], seen[Len(seen)]} \subseteq Py!ToSet(seen)
      BY <2>3, <2>5
    <3>3. /\ Py!Cardinality(Ids(t) \ Ids(f)) = a
          /\ Py!Cardinality(Ids(f) \ Ids(t)) = b
          /\ Py!Cardinality({r \in t : \E x \in f : x.id = r.id /\ x.stat # r.stat}) = changed
      BY SameCount
    <3> HIDE DEF a, b, changed
    <3>4. QED
      BY <1>3, <3>1, <3>2, <3>3 DEF Py!snapshot_diff, Ids
  <2>7. a \in Nat /\ b \in Nat /\ a - b = Cardinality(t) - Cardinality(f)
    BY <2>4, IdsCount, CameAndWent
  <2>8. changed \in Nat
    <3>1. {r \in t : \E x \in f : x.id = r.id /\ x.stat # r.stat} \subseteq t
      OBVIOUS
    <3>2. QED
      BY <2>4, <3>1, PartIsInventory, IdsCount
  <2> HIDE DEF a, b, changed, diff, f, t, v_all, trend
  <2>9. diff # None
    BY <2>6, <2>7, <2>8, NullAssumption
  <2>10. trend[2].delta_total = Cardinality(t) - Cardinality(f)
    BY <1>6, <2>1, <2>2, <2>4
  <2>11. QED
    BY <2>6, <2>7, <2>9, <2>10 DEF diff
<1>9. QED
  BY <1>7, <1>8 DEF TrendExplained

\* DiffBalances holds in every state: the difference of two snapshots explains
\* the change of the totals, on the page and in the tools (web/trends.js).
THEOREM DiffCorrect == Spec => []DiffBalances
<1>1. IInv => DiffBalances
  BY CardsBalance, TrendExplainedHolds DEF DiffBalances
<1>2. QED
  BY <1>1, InvCorrect, PTL

-----------------------------------------------------------------------------
(* The figures                                                               *)

\* A figure that counts the rows of D by a key adds up to their number.
Counts(f, D, key) ==
    f = [k \in {key[d] : d \in D} |-> Cardinality({d \in D : key[d] = k})]

\* ... whatever the key, as every row has one.
LEMMA CountsAddUp ==
    ASSUME NEW R, Inventory(R), NEW D, D \subseteq R, NEW key, DOMAIN key = D,
           key = [d \in D |-> key[d]], NEW f, Counts(f, D, key)
    PROVE  Web!Total(f) = Cardinality(D) /\ Cardinality(D) \in Nat
<1> DEFINE K == {key[d] : d \in D}
<1>1. IsFiniteSet(D)
  BY PartIsInventory DEF Inventory
<1>2. key \in Surjection(D, K)
  BY DEF Surjection
<1>3. key \in [D -> K]
  OBVIOUS
<1>4. f = [k \in K |-> Cardinality({d \in D : key[d] = k})]
  BY DEF Counts
<1> HIDE DEF K
<1>5. IsFiniteSet(K)
  BY <1>1, <1>2, FS_Surjection
<1>6. QED
  BY <1>1, <1>3, <1>4, <1>5, TotalIsCount, FS_CardinalityType

\* The bars of the national page add up to its KPI (web/app.js).
LEMMA NationalHolds == Inventory(rows) => NationalAddsUp
<1> SUFFICES ASSUME Inventory(rows), NEW z
             PROVE  LET kept == Web!sidoSql(rows, z)
                    IN  /\ Web!Total(Web!NationalOutput(kept)) = Web!NationalKpi(kept).total
                        /\ z # None /\ kept # {} => Web!SidoDc(rows)[z] = Web!NationalKpi(kept)
  BY DEF NationalAddsUp
<1> DEFINE kept == Web!sidoSql(rows, z)
           key == [r \in kept |-> IF Web!TryCast(r.output) = None THEN 0
                                  ELSE Web!Bucket(r.output, <<7, 14, 30, 50, 100, 200>>)]
<1>1. kept \subseteq rows
  BY DEF Web!sidoSql
<1>2. Counts(Web!NationalOutput(kept), kept, key)
  <2> HIDE DEF kept
  <2>1. QED
    BY SameCount DEF Counts, Web!NationalOutput, Web!CountBy, Web!Count
<1>3. Web!NationalKpi(kept).total = Cardinality(kept)
  BY SameCount DEF Web!NationalKpi, Web!Count
<1>4. Web!Total(Web!NationalOutput(kept)) = Cardinality(kept)
  <2>1. DOMAIN key = kept /\ key = [r \in kept |-> key[r]]
    OBVIOUS
  <2> HIDE DEF kept, key
  <2>2. QED
    BY <1>1, <1>2, <2>1, CountsAddUp
<1>5. ASSUME z # None, kept # {} PROVE Web!SidoDc(rows)[z] = Web!NationalKpi(kept)
  <2> DEFINE live == {r \in rows : ~r.deleted}
  <2>1. kept = {r \in live : r.zcode = z} /\ {r \in kept : r.dc} = {r \in live : r.zcode = z /\ r.dc}
    BY <1>5 DEF Web!sidoSql
  <2>2. z \in {r.zcode : r \in live}
    BY <1>5, <2>1
  <2>3. Web!SidoDc(rows)[z] = [total |-> Web!Count({r \in live : r.zcode = z}),
                               dc |-> Web!Count({r \in live : r.zcode = z /\ r.dc})]
    BY <2>2 DEF Web!SidoDc
  <2>4. QED
    BY <2>1, <2>3 DEF Web!NationalKpi
<1>6. QED
  BY <1>3, <1>4, <1>5

\* A distance falls into one bar of the spacing chart (web/highway/route.js).
LEMMA OneBucketEach ==
    ASSUME NEW km2 \in Nat
    PROVE  \E k \in 1..6 : \A j \in 1..6 : Web!inBucket(km2, j) <=> j = k
<1>1. /\ Web!inBucket(km2, 1) <=> km2 >= 0 /\ km2 <= 100
      /\ Web!inBucket(km2, 2) <=> km2 > 100 /\ km2 <= 400
      /\ Web!inBucket(km2, 3) <=> km2 > 400 /\ km2 <= 1600
      /\ Web!inBucket(km2, 4) <=> km2 > 1600 /\ km2 <= 3600
      /\ Web!inBucket(km2, 5) <=> km2 > 3600 /\ km2 <= 10000
      /\ Web!inBucket(km2, 6) <=> km2 > 10000
  BY DEF Web!inBucket, Web!SpacingBounds
<1>2. \A j \in 1..6 : j = 1 \/ j = 2 \/ j = 3 \/ j = 4 \/ j = 5 \/ j = 6
  OBVIOUS
<1>3. CASE km2 <= 100
  BY <1>1, <1>2, <1>3
<1>4. CASE km2 > 100 /\ km2 <= 400
  BY <1>1, <1>2, <1>4
<1>5. CASE km2 > 400 /\ km2 <= 1600
  BY <1>1, <1>2, <1>5
<1>6. CASE km2 > 1600 /\ km2 <= 3600
  BY <1>1, <1>2, <1>6
<1>7. CASE km2 > 3600 /\ km2 <= 10000
  BY <1>1, <1>2, <1>7
<1>8. CASE km2 > 10000
  BY <1>1, <1>2, <1>8
<1>9. QED
  BY <1>3, <1>4, <1>5, <1>6, <1>7, <1>8

\* The bars of the spacing chart add up to the pairs of neighbours.
LEMMA SpacingAddsUp ==
    ASSUME NEW n \in Nat, NEW distances, distances \in [1..n -> Nat]
    PROVE  Web!Total(Web!renderSpacing(distances)) = n
<1> DEFINE key == [i \in 1..n |-> CHOOSE k \in 1..6 : Web!inBucket(distances[i], k)]
<1>1. ASSUME NEW i \in 1..n
      PROVE  key[i] \in 1..6 /\ \A k \in 1..6 : Web!inBucket(distances[i], k) <=> k = key[i]
  <2>1. PICK k \in 1..6 : \A j \in 1..6 : Web!inBucket(distances[i], j) <=> j = k
    BY OneBucketEach
  <2>2. QED
    BY <2>1
<1>2. key \in [1..n -> 1..6] /\ IsFiniteSet(1..n) /\ Cardinality(1..n) = n /\ IsFiniteSet(1..6)
  <2>1. \A m \in Nat : IsFiniteSet(1..m) /\ Cardinality(1..m) = m
    BY FS_Interval
  <2>2. QED
    BY <1>1, <2>1
<1> HIDE DEF key
<1>3. \A k \in 1..6 : {i \in DOMAIN distances : Web!inBucket(distances[i], k)} = {i \in 1..n : key[i] = k}
  BY <1>1
<1>4. Web!renderSpacing(distances) = [k \in 1..6 |-> Cardinality({i \in 1..n : key[i] = k})]
  BY <1>3, SameCount DEF Web!renderSpacing
<1> DEFINE D == 1..n
           K == 1..6
           f == Web!renderSpacing(distances)
<1>5. /\ IsFiniteSet(D) /\ Cardinality(D) = n /\ IsFiniteSet(K) /\ key \in [D -> K]
      /\ f = [k \in K |-> Cardinality({i \in D : key[i] = k})]
  BY <1>2, <1>4
<1> HIDE DEF D, K, f
<1>6. Web!Total(f) = Cardinality(D)
  BY <1>5, TotalIsCount
<1>7. QED
  BY <1>5, <1>6 DEF f

\* The squared distance of two stations is a number.
LEMMA KmIsNat ==
    ASSUME NEW p \in Int \X Int, NEW q \in Int \X Int
    PROVE  Web!KmSquared(p, q) \in Nat
<1>1. ASSUME NEW x \in Int PROVE x * x \in Nat
  <2>1. CASE x >= 0
    <3>1. x \in Nat
      BY <2>1
    <3>2. \A y \in Nat : y * y \in Nat
      OBVIOUS
    <3>3. QED
      BY <3>1, <3>2
  <2>2. CASE x < 0
    <3>1. -x \in Nat /\ x * x = (-x) * (-x)
      BY <2>2
    <3>2. \A y \in Nat : y * y \in Nat
      OBVIOUS
    <3>3. QED
      BY <3>1, <3>2
  <2>3. QED
    BY <2>1, <2>2
<1>2. p[1] - q[1] \in Int /\ p[2] - q[2] \in Int
  OBVIOUS
<1>3. \A x, y \in Nat : x + y \in Nat
  OBVIOUS
<1> DEFINE a == p[1] - q[1]
           b == p[2] - q[2]
<1>4. Web!KmSquared(p, q) = a * a + b * b
  BY DEF Web!KmSquared
<1>5. a \in Int /\ b \in Int
  BY <1>2
<1> HIDE DEF a, b
<1>6. QED
  BY <1>1, <1>3, <1>4, <1>5

\* The chargers of a motorway, and its stations.
RouteChargers(R, hw) == {r \in Web!HW_FILTER(R) : Web!Like(r, hw)}
Station(r) == [stat_id |-> r.stat_id, pos |-> r.pos]
RouteStations(R, hw) == {Station(r) : r \in {x \in Web!HW_FILTER(R) : Web!Like(x, hw) /\ x.pos # None}}

\* qStations has these stations, each with its position.
LEMMA StationsOfRoute ==
    ASSUME Inventory(rows), NEW hw
    PROVE  /\ DOMAIN Web!qStations(rows, hw) = RouteStations(rows, hw)
           /\ IsFiniteSet(RouteStations(rows, hw))
           /\ \A s \in RouteStations(rows, hw) : s.pos \in Int \X Int
<1> DEFINE X == {x \in Web!HW_FILTER(rows) : Web!Like(x, hw) /\ x.pos # None}
           key == [r \in X |-> Station(r)]
<1>1. DOMAIN Web!qStations(rows, hw) = RouteStations(rows, hw)
  BY DEF Web!qStations, Web!CountBy, RouteStations, Station
<1>2. X \subseteq rows /\ IsFiniteSet(X)
  <2>1. X \subseteq rows
    BY DEF Web!HW_FILTER
  <2> HIDE DEF X
  <2>2. QED
    BY <2>1, PartIsInventory DEF Inventory
<1>3. key \in Surjection(X, RouteStations(rows, hw))
  <2>1. RouteStations(rows, hw) = {Station(r) : r \in X}
    BY DEF RouteStations
  <2> HIDE DEF X
  <2>2. QED
    BY <2>1 DEF Surjection
<1>4. IsFiniteSet(RouteStations(rows, hw))
  <2> HIDE DEF X, key
  <2>1. QED
    BY <1>2, <1>3, FS_Surjection
<1>5. ASSUME NEW s \in RouteStations(rows, hw) PROVE s.pos \in Int \X Int
  <2>1. PICK r \in X : s = Station(r)
    BY DEF RouteStations
  <2>2. r \in rows /\ r.pos # None /\ s.pos = r.pos
    BY <1>2, <2>1 DEF Station
  <2>3. QED
    BY <2>2, RowsAreChargers DEF IsCharger
<1>6. QED
  BY <1>1, <1>4, <1>5

\* Stations in the order of the corridor have one distance less than they are.
LEMMA Neighbours ==
    ASSUME NEW S, IsFiniteSet(S), S # {}, \A s \in S : s.pos \in Int \X Int
    PROVE  Web!computeAdjacentDistances(Web!sortStationsByCorridor(S))
             \in [1..(Cardinality(S) - 1) -> Nat]
<1> DEFINE Spread(n) == Web!Max({s.pos[n] : s \in S}) - Web!Min({s.pos[n] : s \in S})
           axis == IF Spread(1) >= Spread(2) THEN 1 ELSE 2
           key == [s \in S |-> s.pos[axis]]
           sorted == Web!sortStationsByCorridor(S)
           IsOne(s) == /\ s \in [1..Cardinality(S) -> S]
                       /\ IsInjective(s)
                       /\ \A i, j \in DOMAIN s : i < j => s[i].pos[axis] <= s[j].pos[axis]
<1>1. axis \in {1, 2} /\ sorted = Web!Sorted(S, LAMBDA s : s.pos[axis])
  BY DEF Web!sortStationsByCorridor
<1> HIDE DEF axis, sorted
<1>2. key \in [S -> Int]
  BY <1>1
<1>3. \E s : IsOne(s)
  <2>1. PICK s : IsSorted(s, S, key)
    <3> HIDE DEF key
    <3>1. QED
      BY <1>2, SortedExists
  <2>2. s \in [1..Cardinality(S) -> S]
    BY <2>1 DEF IsSorted
  <2>3. \A i \in DOMAIN s : key[s[i]] = s[i].pos[axis]
    BY <2>2
  <2> HIDE DEF key
  <2>4. IsOne(s)
    BY <2>1, <2>3 DEF IsSorted
  <2> HIDE DEF IsOne
  <2>5. QED
    BY <2>4
<1>4. IsOne(sorted)
  <2>1. Web!Cardinality(S) = Cardinality(S)
    BY SameCount
  <2> DEFINE X == [1..Cardinality(S) -> S]
             Fits(s) == /\ \A a, b \in DOMAIN s : s[a] = s[b] => a = b
                        /\ \A i, j \in DOMAIN s : i < j => s[i].pos[axis] <= s[j].pos[axis]
  <2>2. sorted = CHOOSE s \in X : Fits(s)
    BY <1>1, <2>1, Zenon DEF Web!Sorted, Web!IsInjective
  <2>3. ASSUME NEW s PROVE IsOne(s) <=> s \in X /\ Fits(s)
    BY DEF IsInjective
  <2>4. \E s \in X : Fits(s)
    <3> HIDE DEF IsOne, X, Fits
    <3>1. QED
      BY <1>3, <2>3
  <2>5. sorted \in X /\ Fits(sorted)
    <3> HIDE DEF X, Fits
    <3>1. QED
      BY <2>2, <2>4
  <2>6. QED
    <3> HIDE DEF IsOne, X, Fits
    <3>1. QED
      BY <2>3, <2>5
<1> DEFINE n == Cardinality(S)
<1>5. n \in Nat /\ n > 0
  BY FS_CardinalityType, FS_EmptySet
<1>6. sorted \in [1..n -> S]
  BY <1>4
<1> HIDE DEF n
<1>7. Len(sorted) = n
  BY <1>5, <1>6
<1>8. ASSUME NEW i \in 1..(n - 1)
      PROVE  Web!KmSquared(sorted[i].pos, sorted[i + 1].pos) \in Nat
  <2>1. i \in 1..n /\ i + 1 \in 1..n
    BY <1>5
  <2>2. sorted[i].pos \in Int \X Int /\ sorted[i + 1].pos \in Int \X Int
    BY <1>6, <2>1
  <2>3. QED
    BY <2>2, KmIsNat
<1>9. QED
  BY <1>7, <1>8 DEF Web!computeAdjacentDistances, sorted, n

\* The charts of a route add up, and the lists and the map agree with them.
LEMMA RouteHolds == Inventory(rows) => RouteAddsUp
<1> SUFFICES ASSUME Inventory(rows), NEW hw \in Named
             PROVE  LET stations == DOMAIN Web!qStations(rows, hw)
                        listed == Web!HighwayList(rows, MinChargers)
                        spacing == Web!renderSpacing(
                            Web!computeAdjacentDistances(Web!sortStationsByCorridor(stations)))
                    IN  /\ stations # {} =>
                             Web!Total(spacing) = Web!Count(stations) - 1
                        /\ hw \in DOMAIN listed =>
                             listed[hw] <= Web!Total(Web!qOpsThisRoute(rows, hw))
                        /\ {s.stat_id : s \in Web!SelectHighway(Web!MapStations(rows), hw)}
                             \subseteq {s.stat_id : s \in stations}
  BY DEF RouteAddsUp
<1> DEFINE S == RouteStations(rows, hw)
           listed == Web!HighwayList(rows, MinChargers)
<1>1. DOMAIN Web!qStations(rows, hw) = S /\ IsFiniteSet(S) /\ \A s \in S : s.pos \in Int \X Int
  BY StationsOfRoute
<1>2. ASSUME S # {}
      PROVE  Web!Total(Web!renderSpacing(Web!computeAdjacentDistances(
                 Web!sortStationsByCorridor(S)))) = Web!Count(S) - 1
  <2> HIDE DEF S
  <2>1. Cardinality(S) \in Nat /\ Cardinality(S) # 0
    BY <1>1, <1>2, FS_CardinalityType, FS_EmptySet
  <2>2. Web!computeAdjacentDistances(Web!sortStationsByCorridor(S)) \in [1..(Cardinality(S) - 1) -> Nat]
    BY <1>1, <1>2, Neighbours
  <2>3. Cardinality(S) - 1 \in Nat
    BY <2>1
  <2>4. QED
    BY <2>2, <2>3, SpacingAddsUp, SameCount DEF Web!Count
<1>3. ASSUME NEW r \in rows, Web!Extracted(r) # None PROVE Web!Like(r, Web!Extracted(r))
  <2>1. DOMAIN r.addr = 1..Len(r.addr) /\ \A k \in DOMAIN r.addr : r.addr[k] # None
    BY RowsAreChargers DEF IsCharger
  <2>2. r.addr # <<>> /\ Web!Extracted(r) = r.addr[1]
    BY <1>3 DEF Web!Extracted
  <2>3. 1 \in DOMAIN r.addr
    BY <2>1, <2>2
  <2>4. QED
    BY <2>2, <2>3 DEF Web!Like, Web!ToSet
<1>4. hw # None
  <2>1. PICK r \in rows : hw \in {r.addr[k] : k \in DOMAIN r.addr}
    BY DEF Named
  <2>2. PICK k \in DOMAIN r.addr : hw = r.addr[k]
    BY <2>1
  <2>3. QED
    BY <2>2, RowsAreChargers DEF IsCharger
<1>5. ASSUME hw \in DOMAIN listed
      PROVE  listed[hw] <= Web!Total(Web!qOpsThisRoute(rows, hw))
  <2> DEFINE D == RouteChargers(rows, hw)
             E == {r \in Web!HW_FILTER(rows) : Web!Extracted(r) = hw}
             key == [r \in D |-> r.busi_id]
  <2>1. D \subseteq rows /\ E \subseteq D
    BY <1>3, <1>4 DEF RouteChargers, Web!HW_FILTER
  <2>2. Counts(Web!qOpsThisRoute(rows, hw), D, key)
    BY SameCount DEF Counts, Web!qOpsThisRoute, Web!CountBy, Web!Count, RouteChargers
  <2>3. DOMAIN key = D /\ key = [r \in D |-> key[r]]
    OBVIOUS
  <2> HIDE DEF key, D
  <2>4. Web!Total(Web!qOpsThisRoute(rows, hw)) = Cardinality(D) /\ Cardinality(D) \in Nat
    BY <2>1, <2>2, <2>3, CountsAddUp
  <2>5. listed[hw] = Cardinality(E)
    <3>1. {r \in {x \in Web!HW_FILTER(rows) : Web!Extracted(x) # None} : Web!Extracted(r) = hw} = E
      BY <1>4
    <3>2. QED
      BY <1>5, <3>1, SameCount DEF Web!HighwayList, Web!CountBy, Web!Count
  <2>6. IsFiniteSet(D) /\ E \in SUBSET D
    BY <2>1, PartIsInventory DEF Inventory
  <2> HIDE DEF E
  <2>7. QED
    BY <2>4, <2>5, <2>6, FS_Subset
<1>6. ASSUME NEW s \in Web!SelectHighway(Web!MapStations(rows), hw)
      PROVE  s.stat_id \in {x.stat_id : x \in S}
  <2>1. PICK r \in Web!HW_FILTER(rows) :
           r.pos # None /\ s = [stat_id |-> r.stat_id, highway |-> Web!Extracted(r)]
    BY DEF Web!SelectHighway, Web!MapStations
  <2>2. Web!Extracted(r) = hw
    BY <2>1 DEF Web!SelectHighway
  <2>3. r \in rows
    BY DEF Web!HW_FILTER
  <2>4. Web!Like(r, hw)
    BY <1>3, <1>4, <2>2, <2>3
  <2>5. Station(r) \in S
    BY <2>1, <2>4 DEF RouteStations
  <2>6. Station(r).stat_id = s.stat_id
    BY <2>1 DEF Station
  <2>7. QED
    BY <2>5, <2>6
<1> HIDE DEF S
<1>7. QED
  BY <1>1, <1>2, <1>5, <1>6

\* The part of a figure that is of an entity counts the rows of that entity.
LEMMA EntityCounts ==
    ASSUME NEW R, Inventory(R), NEW D, D \subseteq R, NEW key, DOMAIN key = D,
           key = [d \in D |-> key[d]], NEW f, Counts(f, D, key), NEW e
    PROVE  Web!Total(Web!OfEntity(f, e)) = Cardinality({d \in D : key[d][1] = e})
<1> DEFINE De == {d \in D : key[d][1] = e}
           keyE == [d \in De |-> key[d]]
           g == Web!OfEntity(f, e)
<1>1. De \subseteq R /\ DOMAIN keyE = De /\ keyE = [d \in De |-> keyE[d]]
  OBVIOUS
<1>2. g = [k \in {p \in DOMAIN f : p[1] = e} |-> f[k]]
  BY DEF Web!OfEntity
<1>3. {p \in DOMAIN f : p[1] = e} = {keyE[d] : d \in De}
  BY DEF Counts
<1>4. ASSUME NEW k \in {keyE[d] : d \in De}
      PROVE  f[k] = Cardinality({d \in De : keyE[d] = k})
  <2>1. PICK x \in De : k = keyE[x]
    OBVIOUS
  <2>2. k[1] = e /\ k \in {key[d] : d \in D}
    BY <2>1
  <2>3. {d \in D : key[d] = k} = {d \in De : keyE[d] = k}
    BY <2>2
  <2>4. f[k] = Cardinality({d \in D : key[d] = k})
    BY <2>2 DEF Counts
  <2>5. QED
    BY <2>3, <2>4
<1>5. Counts(g, De, keyE)
  <2> DEFINE X == {keyE[d] : d \in De}
  <2>1. g = [k \in X |-> f[k]]
    BY <1>2, <1>3
  <2>2. \A k \in X : f[k] = Cardinality({d \in De : keyE[d] = k})
    BY <1>4
  <2> HIDE DEF De, keyE, g, X
  <2>3. g = [k \in X |-> Cardinality({d \in De : keyE[d] = k})]
    BY <2>1, <2>2
  <2>4. QED
    BY <2>3 DEF Counts, X
<1> HIDE DEF De, keyE, g
<1>6. QED
  BY <1>1, <1>5, CountsAddUp DEF g, De

\* Of two motorways a row is of the first that its address names (web/highway/compare.js).
LEMMA EntityOfTwo ==
    ASSUME NEW h1, NEW h2, NEW r
    PROVE  Web!EntityOf(r, <<h1, h2>>) =
               IF Web!Like(r, h1) THEN h1 ELSE IF Web!Like(r, h2) THEN h2 ELSE None
<1> DEFINE ids == <<h1, h2>>
           named == {k \in DOMAIN ids : Web!Like(r, ids[k])}
<1>1. DOMAIN ids = {1, 2} /\ ids[1] = h1 /\ ids[2] = h2
  OBVIOUS
<1> HIDE DEF ids
<1>2. Web!EntityOf(r, ids) = IF named = {} THEN None ELSE ids[Web!Min(named)]
  BY DEF Web!EntityOf
<1>3. named \subseteq {1, 2} /\ (1 \in named <=> Web!Like(r, h1)) /\ (2 \in named <=> Web!Like(r, h2))
  BY <1>1
<1> HIDE DEF named
<1>4. CASE 1 \in named
  <2>1. Web!Min(named) = 1
    <3>1. \A x \in named : (\A y \in named : x <= y) <=> x = 1
      BY <1>3, <1>4
    <3>2. Web!Min(named) = CHOOSE x \in named : \A y \in named : x <= y
      BY DEF Web!Min
    <3>3. QED
      BY <3>1, <3>2, <1>4
  <2>2. QED
    BY <1>1, <1>2, <1>3, <1>4, <2>1 DEF ids
<1>5. CASE 1 \notin named /\ 2 \in named
  <2>1. Web!Min(named) = 2
    <3>1. \A x \in named : (\A y \in named : x <= y) <=> x = 2
      BY <1>3, <1>5
    <3>2. Web!Min(named) = CHOOSE x \in named : \A y \in named : x <= y
      BY DEF Web!Min
    <3>3. QED
      BY <3>1, <3>2, <1>5
  <2>2. QED
    BY <1>1, <1>2, <1>3, <1>5, <2>1 DEF ids
<1>6. CASE named = {}
  BY <1>2, <1>3, <1>6 DEF ids
<1>7. QED
  BY <1>3, <1>4, <1>5, <1>6

\* The compared motorways share the rows: each is counted once.
LEMMA CompareHolds == Inventory(rows) => CompareAddsUp
<1> SUFFICES ASSUME Inventory(rows), NEW h1 \in Named, NEW h2 \in Named
             PROVE  LET kpis == Web!qHwKpis(rows, <<h1, h2>>)
                        ops == Web!qHwOps(rows, <<h1, h2>>)
                        kw == Web!qOutputDist(rows, <<h1, h2>>)
                    IN  /\ Web!Total(kpis) =
                             Web!Count({r \in OnHighways : Web!Like(r, h1) \/ Web!Like(r, h2)})
                        /\ \A e \in DOMAIN kpis :
                             /\ Web!Total(Web!OfEntity(ops, e)) = kpis[e]
                             /\ Web!Total(Web!OfEntity(kw, e)) <= kpis[e]
  BY DEF CompareAddsUp
<1> DEFINE ids == <<h1, h2>>
           D == Web!Compared(rows, ids)
           K == {r \in D : r.output # None}
           key == [r \in D |-> Web!EntityOf(r, ids)]
           opKey == [r \in D |-> <<Web!EntityOf(r, ids), r.busi_id>>]
           kwKey == [r \in K |-> <<Web!EntityOf(r, ids), Web!HighwayBucket(r)>>]
           kpis == Web!qHwKpis(rows, ids)
           ops == Web!qHwOps(rows, ids)
           kw == Web!qOutputDist(rows, ids)
<1>1. h1 # None /\ h2 # None
  <2>1. ASSUME NEW h \in Named PROVE h # None
    <3>1. PICK r \in rows : h \in {r.addr[k] : k \in DOMAIN r.addr}
      BY DEF Named
    <3>2. PICK k \in DOMAIN r.addr : h = r.addr[k]
      BY <3>1
    <3>3. QED
      BY <3>2, RowsAreChargers DEF IsCharger
  <2>2. QED
    BY <2>1
<1>2. D = {r \in OnHighways : Web!Like(r, h1) \/ Web!Like(r, h2)}
  BY <1>1, EntityOfTwo DEF Web!Compared, OnHighways
<1>3. D \subseteq rows /\ K \subseteq rows
  BY DEF Web!Compared, Web!HW_FILTER
<1> HIDE DEF ids, D
<1>4. Counts(kpis, D, key)
  BY SameCount DEF Counts, Web!qHwKpis, Web!CountBy, Web!Count, D
<1>5. Counts(ops, D, opKey)
  BY SameCount DEF Counts, Web!qHwOps, Web!CountBy, Web!Count, D
<1>6. Counts(kw, K, kwKey)
  BY SameCount DEF Counts, Web!qOutputDist, Web!CountBy, Web!Count, D
<1>7. /\ DOMAIN key = D /\ key = [r \in D |-> key[r]]
      /\ DOMAIN opKey = D /\ opKey = [r \in D |-> opKey[r]]
      /\ DOMAIN kwKey = K /\ kwKey = [r \in K |-> kwKey[r]]
  OBVIOUS
<1>8. /\ \A r \in D : opKey[r][1] = key[r]
      /\ K \subseteq D
      /\ \A r \in K : kwKey[r][1] = key[r]
  OBVIOUS
<1> HIDE DEF K, key, opKey, kwKey, kpis, ops, kw
<1>9. Web!Total(kpis) = Cardinality(D)
  BY <1>3, <1>4, <1>7, CountsAddUp
<1>10. ASSUME NEW e \in DOMAIN kpis
       PROVE  Web!Total(Web!OfEntity(ops, e)) = kpis[e] /\ Web!Total(Web!OfEntity(kw, e)) <= kpis[e]
  <2> DEFINE De == {d \in D : key[d] = e}
             Ke == {d \in K : kwKey[d][1] = e}
  <2>1. kpis[e] = Cardinality(De)
    BY <1>4 DEF Counts
  <2>2. Web!Total(Web!OfEntity(ops, e)) = Cardinality({d \in D : opKey[d][1] = e})
    BY <1>3, <1>5, <1>7, EntityCounts
  <2>3. Web!Total(Web!OfEntity(kw, e)) = Cardinality(Ke)
    BY <1>3, <1>6, <1>7, EntityCounts
  <2>4. {d \in D : opKey[d][1] = e} = De /\ Ke \in SUBSET De /\ De \subseteq rows
    BY <1>3, <1>8
  <2> HIDE DEF De, Ke
  <2>5. IsFiniteSet(De)
    BY <2>4, PartIsInventory DEF Inventory
  <2>6. Cardinality(Ke) <= Cardinality(De)
    BY <2>4, <2>5, FS_Subset
  <2>7. QED
    BY <2>1, <2>2, <2>3, <2>4, <2>6
<1>11. Web!Count({r \in OnHighways : Web!Like(r, h1) \/ Web!Like(r, h2)}) = Cardinality(D)
  BY <1>2, SameCount DEF Web!Count
<1>12. QED
  BY <1>9, <1>10, <1>11 DEF kpis, ops, kw, ids

\* Pairs are as many as stations if no station has two operators (web/highway/operators.js).
LEMMA MonopolyHolds == Inventory(rows) => MonopolyAddsUp
<1> SUFFICES ASSUME Inventory(rows) PROVE MonopolyAddsUp
  OBVIOUS
<1> DEFINE H == Web!HW_FILTER(rows)
           sb == {<<r.stat_id, r.busi_id>> : r \in H}
           stations == {p[1] : p \in sb}
           pair == [r \in H |-> <<r.stat_id, r.busi_id>>]
           station == [p \in sb |-> p[1]]
<1>1. Web!Q_MONOPOLY(rows).pairs = Cardinality(sb)
      /\ Web!Q_MONOPOLY(rows).total_stations = Cardinality(stations)
  BY SameCount DEF Web!Q_MONOPOLY
<1>2. IsFiniteSet(H)
  <2>1. H \subseteq rows
    BY DEF Web!HW_FILTER
  <2> HIDE DEF H
  <2>2. QED
    BY <2>1, PartIsInventory DEF Inventory
<1> HIDE DEF H
<1>3. pair \in Surjection(H, sb)
  BY DEF Surjection
<1>4. IsFiniteSet(sb)
  <2> HIDE DEF sb, pair
  <2>1. QED
    BY <1>2, <1>3, FS_Surjection
<1>5. station \in Surjection(sb, stations)
  <2> HIDE DEF sb
  <2>1. QED
    BY DEF Surjection
<1>6. Cardinality(stations) = Cardinality(sb) <=> station \in Injection(sb, stations)
  <2> HIDE DEF sb, stations, station
  <2>1. QED
    BY <1>4, <1>5, FS_Surjection
<1>7. station \in Injection(sb, stations) <=> \A p, q \in sb : p[1] = q[1] => p = q
  <2>1. station \in [sb -> stations] /\ \A p \in sb : station[p] = p[1]
    OBVIOUS
  <2> HIDE DEF sb, stations, station
  <2>2. QED
    BY <2>1 DEF Injection, IsInjective
<1>8. (\A p, q \in sb : p[1] = q[1] => p = q)
        <=> (\A r, s \in H : r.stat_id = s.stat_id => r.busi_id = s.busi_id)
  <2>1. ASSUME NEW r \in H, NEW s \in H
        PROVE  /\ <<r.stat_id, r.busi_id>> \in sb /\ <<s.stat_id, s.busi_id>> \in sb
               /\ <<r.stat_id, r.busi_id>> = <<s.stat_id, s.busi_id>>
                    <=> r.stat_id = s.stat_id /\ r.busi_id = s.busi_id
    OBVIOUS
  <2>2. ASSUME \A p, q \in sb : p[1] = q[1] => p = q, NEW r \in H, NEW s \in H,
               r.stat_id = s.stat_id
        PROVE  r.busi_id = s.busi_id
    <3> DEFINE p == <<r.stat_id, r.busi_id>>
               q == <<s.stat_id, s.busi_id>>
    <3>1. p \in sb /\ q \in sb
      BY <2>1
    <3>2. p[1] = q[1] /\ p[2] = r.busi_id /\ q[2] = s.busi_id
      BY <2>2
    <3> HIDE DEF p, q, sb
    <3>3. QED
      BY <2>2, <3>1, <3>2
  <2>3. ASSUME \A r, s \in H : r.stat_id = s.stat_id => r.busi_id = s.busi_id,
               NEW p \in sb, NEW q \in sb, p[1] = q[1]
        PROVE  p = q
    <3>1. PICK r \in H : p = <<r.stat_id, r.busi_id>>
      OBVIOUS
    <3>2. PICK s \in H : q = <<s.stat_id, s.busi_id>>
      OBVIOUS
    <3>3. r.stat_id = s.stat_id
      BY <2>3, <3>1, <3>2
    <3>4. QED
      BY <2>3, <3>1, <3>2, <3>3
  <2> HIDE DEF sb
  <2>4. QED
    BY <2>2, <2>3
<1> HIDE DEF sb, stations, station, pair
<1>9. QED
  BY <1>1, <1>6, <1>7, <1>8 DEF MonopolyAddsUp, OnHighways, H

\* If a charger has an age then the latest update is a time (web/highway/activity.js).
LEMMA NowIsTime ==
    ASSUME Inventory(rows), NEW r \in Web!Aged(rows)
    PROVE  Web!NowTs(rows) \in Int /\ r.last_tsdt \in Int
<1> DEFINE H == Web!HW_FILTER(rows)
           all == {x.stat_upd_dt : x \in H}
           stamps == all \ {None}
           stamp == [x \in H |-> x.stat_upd_dt]
<1>1. H \subseteq rows /\ r \in H /\ r.last_tsdt # None /\ Web!NowTs(rows) # None
  BY DEF Web!Aged, Web!HW_FILTER
<1>2. Web!NowTs(rows) = IF stamps = {} THEN None ELSE Web!Max(stamps)
  BY DEF Web!NowTs
<1> HIDE DEF H
<1>3. IsFiniteSet(H)
  BY <1>1, PartIsInventory DEF Inventory
<1>4. stamp \in Surjection(H, all)
  BY DEF Surjection
<1>5. stamps \subseteq Int /\ r.last_tsdt \in Int
  BY <1>1, RowsAreChargers DEF IsCharger
<1>6. IsFiniteSet(stamps)
  <2>1. stamps \in SUBSET all
    OBVIOUS
  <2> HIDE DEF all, stamps, stamp
  <2>2. QED
    BY <1>3, <1>4, <2>1, FS_Surjection, FS_Subset
<1> HIDE DEF stamps
<1>7. QED
  BY <1>1, <1>2, <1>5, <1>6, MaxExists

\* Hours to midnights: more than sixty days are more than 60 * 24 hours, and
\* those are at least sixty days.
LEMMA HoursAndDays ==
    ASSUME NEW now \in Int, NEW last \in Int
    PROVE  LET days == (now \div 24) - (last \div 24)
           IN  /\ days \in Int
               /\ days > 60 => now - last > 60 * 24
               /\ now - last > 60 * 24 => days >= 60
<1> DEFINE q1 == now \div 24
           q2 == last \div 24
<1>1. q1 \in Int /\ q2 \in Int /\ 24 * q1 <= now /\ now < 24 * q1 + 24
      /\ 24 * q2 <= last /\ last < 24 * q2 + 24
  OBVIOUS
<1> HIDE DEF q1, q2
<1>2. q1 - q2 > 60 => now - last > 60 * 24
  BY <1>1
<1>3. now - last > 60 * 24 => q1 - q2 >= 60
  BY <1>1
<1>4. QED
  BY <1>1, <1>2, <1>3 DEF q1, q2

\* The dormant bars miss the sixtieth day only, and no ranking exceeds the KPI.
LEMMA DormantHolds == Inventory(rows) => DormantAddsUp
<1> SUFFICES ASSUME Inventory(rows) PROVE DormantAddsUp
  OBVIOUS
<1> DEFINE Over == Web!Overdue(rows)
           D == {r \in Web!Aged(rows) : Web!DaysSince(rows, r) > 60}
           E == {r \in Over : Web!DaysSince(rows, r) = 60}
           F == {r \in Over : Web!Extracted(r) # None}
           Bar(r) == Web!Bucket(Web!DaysSince(rows, r), <<90, 180, 365>>)
           barKey == [r \in D |-> Bar(r)]
           hwKey == [r \in F |-> Web!Extracted(r)]
           bars == Web!DormantBuckets(rows)
           ranking == Web!DormantByHighway(rows)
<1>1. Web!Aged(rows) \subseteq rows
  BY DEF Web!Aged, Web!HW_FILTER
<1>2. \A r \in Over : r \in Web!Aged(rows)
  BY DEF Web!Overdue
<1>3. ASSUME NEW r \in Web!Aged(rows)
      PROVE  /\ Web!DaysSince(rows, r) \in Int
             /\ Web!DaysSince(rows, r) > 60 => r \in Over
             /\ r \in Over => Web!DaysSince(rows, r) >= 60
  <2> DEFINE now == Web!NowTs(rows)
  <2>1. now \in Int /\ r.last_tsdt \in Int
    BY NowIsTime
  <2>2. r \in Over <=> now - r.last_tsdt > 60 * 24
    BY DEF Web!Overdue
  <2>3. Web!DaysSince(rows, r) = (now \div 24) - (r.last_tsdt \div 24)
    BY DEF Web!DaysSince
  <2> HIDE DEF now, Over
  <2>4. QED
    BY <2>1, <2>2, <2>3, HoursAndDays
<1>4. Counts(bars, D, barKey)
  <2>1. bars = [k \in {Bar(r) : r \in D} |-> Web!Count({r \in D : Bar(r) = k})]
    BY Zenon DEF Web!DormantBuckets, Web!CountBy
  <2> HIDE DEF Bar, D
  <2>2. /\ {Bar(r) : r \in D} = {barKey[r] : r \in D}
        /\ \A k : {r \in D : Bar(r) = k} = {r \in D : barKey[r] = k}
    OBVIOUS
  <2> HIDE DEF barKey, bars
  <2>3. QED
    BY <2>1, <2>2, SameCount DEF Counts, Web!Count
<1>5. Counts(ranking, F, hwKey)
  BY SameCount DEF Counts, Web!DormantByHighway, Web!CountBy, Web!Count
<1>6. /\ DOMAIN barKey = D /\ barKey = [r \in D |-> barKey[r]]
      /\ DOMAIN hwKey = F /\ hwKey = [r \in F |-> hwKey[r]]
  OBVIOUS
<1>7. D \subseteq rows /\ F \subseteq rows /\ Over \subseteq rows /\ F \in SUBSET Over
  BY <1>1, <1>2
<1>8. Over = D \cup E /\ D \cap E = {}
  <2> HIDE DEF Over
  <2>1. ASSUME NEW r \in Over PROVE r \in D \/ r \in E
    BY <1>2, <1>3
  <2>2. \A r \in D : r \in Over /\ r \notin E
    BY <1>3
  <2>3. QED
    BY <2>1, <2>2
<1> HIDE DEF Over, D, E, F, Bar, barKey, hwKey, bars, ranking
<1>9. Web!Total(bars) = Cardinality(D) /\ Web!Total(ranking) = Cardinality(F)
  BY <1>4, <1>5, <1>6, <1>7, CountsAddUp
<1>10. IsFiniteSet(Over)
  BY <1>7, PartIsInventory DEF Inventory
<1>11. /\ Cardinality(Over) = Cardinality(D) + Cardinality(E)
       /\ Cardinality(D) \in Nat /\ Cardinality(E) \in Nat
  <2>1. \A S, T, U : IsFiniteSet(S) /\ S = T \cup U /\ T \cap U = {} =>
            /\ Cardinality(T) \in Nat /\ Cardinality(U) \in Nat
            /\ Cardinality(S) = Cardinality(T) + Cardinality(U)
    BY Parts
  <2>2. QED
    BY <1>8, <1>10, <2>1
<1>12. Cardinality(F) <= Cardinality(Over)
  BY <1>7, <1>10, FS_Subset
<1>13. Web!DormantKpi(rows) = Cardinality(Over) /\ Web!Count(E) = Cardinality(E)
  BY SameCount DEF Web!DormantKpi, Web!Count, Over
<1>14. Cardinality(D) <= Cardinality(Over) /\ Cardinality(Over) - Cardinality(D) = Cardinality(E)
  BY <1>11
<1>15. QED
  BY <1>9, <1>12, <1>13, <1>14 DEF DormantAddsUp, bars, ranking, E, Over

-----------------------------------------------------------------------------
\* Provinces count as the national page does, and districts within them (regional_density).
LEMMA DensityHolds == Inventory(rows) => DensityAddsUp
<1> SUFFICES ASSUME Inventory(rows) PROVE DensityAddsUp
  OBVIOUS
<1> DEFINE live == {r \in rows : ~r.deleted}
           bars == Web!SidoDc(rows)
           sido == Py!regional_density(rows, "sido")
           sigungu == Py!regional_density(rows, "sigungu")
           D == {r \in live : r.zscode # None}
           key == [r \in D |-> <<r.zcode, r.zscode>>]
           counts == [k \in DOMAIN sigungu |-> sigungu[k].total_chargers]
<1>1. live \subseteq rows /\ D \subseteq live /\ Web!Live(rows) = live
      /\ Py!Undeleted(rows) = live
  BY DEF Web!Live, Py!Undeleted
<1>2. bars = [z \in {r.zcode : r \in live} |->
                 [total |-> Cardinality({r \in live : r.zcode = z}),
                  dc |-> Cardinality({r \in live : r.zcode = z /\ r.dc})]]
  BY SameCount DEF Web!SidoDc, Web!Count
<1> HIDE DEF live
<1>3. sido = [k \in {<<r.zcode, None>> : r \in live} |->
                 [total_chargers |-> Cardinality({r \in live : <<r.zcode, None>> = k}),
                  dc_charger_count |-> Cardinality({r \in live : <<r.zcode, None>> = k /\ r.dc})]]
  BY <1>1, SameCount DEF Py!regional_density, Py!Density
<1>4. sigungu = [k \in {<<r.zcode, r.zscode>> : r \in D} |->
                    [total_chargers |-> Cardinality({r \in D : <<r.zcode, r.zscode>> = k}),
                     dc_charger_count |-> Cardinality({r \in D : <<r.zcode, r.zscode>> = k /\ r.dc})]]
  BY <1>1, SameCount DEF Py!regional_density, Py!Density
<1> HIDE DEF bars, sido, sigungu
<1>5. {k[1] : k \in DOMAIN sido} = DOMAIN bars
  <2>1. DOMAIN bars = {r.zcode : r \in live} /\ DOMAIN sido = {<<r.zcode, None>> : r \in live}
    BY <1>2, <1>3
  <2>2. \A r \in live : <<r.zcode, None>>[1] = r.zcode
    OBVIOUS
  <2>3. ASSUME NEW z \in {k[1] : k \in DOMAIN sido} PROVE z \in DOMAIN bars
    <3>1. PICK r \in live : z = <<r.zcode, None>>[1]
      BY <2>1
    <3>2. QED
      BY <2>1, <2>2, <3>1
  <2>4. ASSUME NEW z \in DOMAIN bars PROVE z \in {k[1] : k \in DOMAIN sido}
    <3>1. PICK r \in live : z = r.zcode
      BY <2>1
    <3>2. <<r.zcode, None>> \in DOMAIN sido /\ z = <<r.zcode, None>>[1]
      BY <2>1, <3>1
    <3>3. QED
      BY <3>2
  <2>5. QED
    BY <2>3, <2>4
<1>6. ASSUME NEW z \in DOMAIN bars
      PROVE  /\ sido[<<z, None>>].total_chargers = bars[z].total
             /\ sido[<<z, None>>].dc_charger_count = bars[z].dc
             /\ bars[z].total = Cardinality({r \in live : r.zcode = z})
  <2>1. <<z, None>> \in {<<r.zcode, None>> : r \in live}
    BY <1>2
  <2>2. \A r \in live : <<r.zcode, None>> = <<z, None>> <=> r.zcode = z
    OBVIOUS
  <2>3. /\ {r \in live : <<r.zcode, None>> = <<z, None>>} = {r \in live : r.zcode = z}
        /\ {r \in live : <<r.zcode, None>> = <<z, None>> /\ r.dc} = {r \in live : r.zcode = z /\ r.dc}
    BY <2>2
  <2>4. sido[<<z, None>>] =
            [total_chargers |-> Cardinality({r \in live : <<r.zcode, None>> = <<z, None>>}),
             dc_charger_count |-> Cardinality({r \in live : <<r.zcode, None>> = <<z, None>> /\ r.dc})]
    BY <1>3, <2>1
  <2>5. bars[z] = [total |-> Cardinality({r \in live : r.zcode = z}),
                   dc |-> Cardinality({r \in live : r.zcode = z /\ r.dc})]
    BY <1>2
  <2>6. QED
    BY <2>3, <2>4, <2>5
<1>7. Counts(counts, D, key)
  <2>1. DOMAIN sigungu = {key[d] : d \in D}
    BY <1>4
  <2>2. ASSUME NEW k \in DOMAIN sigungu
        PROVE  sigungu[k].total_chargers = Cardinality({d \in D : key[d] = k})
    <3>1. {r \in D : <<r.zcode, r.zscode>> = k} = {d \in D : key[d] = k}
      OBVIOUS
    <3>2. sigungu[k].total_chargers = Cardinality({r \in D : <<r.zcode, r.zscode>> = k})
      BY <1>4
    <3>3. QED
      BY <3>1, <3>2
  <2> HIDE DEF key, D
  <2>3. QED
    BY <2>1, <2>2 DEF Counts
<1>8. ASSUME NEW z \in DOMAIN bars
      PROVE  Web!Total([k \in {p \in DOMAIN sigungu : p[1] = z} |-> sigungu[k].total_chargers])
               + Web!Count({r \in live : r.zcode = z /\ r.zscode = None}) = bars[z].total
  <2> DEFINE Here == {r \in live : r.zcode = z}
             Given == {d \in D : key[d][1] = z}
             Without == {r \in live : r.zcode = z /\ r.zscode = None}
  <2>1. [k \in {p \in DOMAIN sigungu : p[1] = z} |-> sigungu[k].total_chargers]
          = Web!OfEntity(counts, z)
    BY DEF Web!OfEntity
  <2>2. Here = Given \cup Without /\ Given \cap Without = {} /\ Here \subseteq rows
    BY <1>1
  <2>3. DOMAIN key = D /\ key = [d \in D |-> key[d]] /\ D \subseteq rows
    BY <1>1
  <2> HIDE DEF key, D, counts
  <2>4. Web!Total(Web!OfEntity(counts, z)) = Cardinality(Given)
    BY <1>7, <2>3, EntityCounts
  <2>5. IsFiniteSet(Here)
    <3> HIDE DEF Here
    <3>1. QED
      BY <2>2, PartIsInventory DEF Inventory
  <2>6. bars[z].total = Cardinality(Here)
    BY <1>6
  <2> HIDE DEF Here, Given, Without
  <2>7. Cardinality(Here) = Cardinality(Given) + Cardinality(Without)
    BY <2>2, <2>5, Parts
  <2>8. Web!Count(Without) = Cardinality(Without)
    BY SameCount DEF Web!Count
  <2>9. QED
    BY <2>1, <2>4, <2>6, <2>7, <2>8 DEF Without
<1> HIDE DEF D, key, counts
<1>9. QED
  BY <1>1, <1>5, <1>6, <1>8 DEF DensityAddsUp, bars, sido, sigungu

\* The operators, each with all its chargers whatever their status.
LEMMA HealthShape ==
    ASSUME Inventory(rows), NEW min
    PROVE  LET live == Web!Live(rows)
               Of(b, stats) == Cardinality({r \in live : r.busi_id = b /\ r.stat \in stats})
               health == Py!analyze_operator_health(rows, min)
           IN  /\ DOMAIN health = {r.busi_id : r \in {x \in live :
                      Cardinality({r \in live : r.busi_id = x.busi_id}) >= min}}
               /\ \A b \in DOMAIN health :
                    /\ health[b].total_chargers = Cardinality({r \in live : r.busi_id = b})
                    /\ health[b].available_now = Of(b, {"2"})
                    /\ health[b].downtime_count = Of(b, {"1", "4", "5"})
                    /\ health[b].unmonitored_count = Of(b, {"9"})
<1> DEFINE live == Web!Live(rows)
           all == {r.stat : r \in rows}
           health == Py!analyze_operator_health(rows, min)
           Mine(b) == {r \in live : r.busi_id = b}
           With(b, stats) == {r \in live : r.busi_id = b /\ r.stat \in stats}
<1>1. live \subseteq rows /\ Py!Undeleted(rows) = live
  BY DEF Web!Live, Py!Undeleted
<1>2. health = [b \in {r.busi_id : r \in {x \in live : Cardinality(With(x.busi_id, all)) >= min}} |->
          [total_chargers |-> Cardinality(With(b, all)),
           available_now |-> Cardinality(With(b, {"2"})),
           downtime_count |-> Cardinality(With(b, {"1", "4", "5"})),
           unmonitored_count |-> Cardinality(With(b, {"9"}))]]
  BY <1>1, SameCount DEF Py!analyze_operator_health, Py!Downtime
<1> HIDE DEF live
<1>3. \A b : With(b, all) = Mine(b)
  BY <1>1
<1> HIDE DEF all, health, With
<1>4. health = [b \in {r.busi_id : r \in {x \in live : Cardinality(Mine(x.busi_id)) >= min}} |->
          [total_chargers |-> Cardinality(Mine(b)),
           available_now |-> Cardinality(With(b, {"2"})),
           downtime_count |-> Cardinality(With(b, {"1", "4", "5"})),
           unmonitored_count |-> Cardinality(With(b, {"9"}))]]
  BY <1>2, <1>3
<1> HIDE DEF Mine
<1>5. /\ DOMAIN health = {r.busi_id : r \in {x \in live : Cardinality(Mine(x.busi_id)) >= min}}
      /\ \A b \in DOMAIN health :
           /\ health[b].total_chargers = Cardinality(Mine(b))
           /\ health[b].available_now = Cardinality(With(b, {"2"}))
           /\ health[b].downtime_count = Cardinality(With(b, {"1", "4", "5"}))
           /\ health[b].unmonitored_count = Cardinality(With(b, {"9"}))
  BY <1>4
<1>6. QED
  BY <1>5 DEF health, live, Mine, With

\* Every status is one of the four kinds the figures tell apart.
LEMMA HealthParts ==
    ASSUME NEW S, Inventory(S)
    PROVE  LET Of(stats) == Cardinality({r \in S : r.stat \in stats})
           IN  Of({"2"}) + Of({"1", "4", "5"}) + Of({"9"}) + Of({"0", "3", "6"}) = Cardinality(S)
<1> DEFINE With(stats) == {r \in S : r.stat \in stats}
           A == With({"2"})
           B == With({"1", "4", "5"})
           C == With({"9"})
           E == With({"0", "3", "6"})
           X == A \cup B
           Y == C \cup E
<1>1. \A S1, T, U : IsFiniteSet(S1) /\ S1 = T \cup U /\ T \cap U = {} =>
          /\ IsFiniteSet(T) /\ IsFiniteSet(U)
          /\ Cardinality(T) \in Nat /\ Cardinality(U) \in Nat
          /\ Cardinality(S1) = Cardinality(T) + Cardinality(U)
  BY Parts
<1>2. \A r \in S : r.stat \in {"0", "1", "2", "3", "4", "5", "6", "9"}
  BY RowsAreChargers DEF IsCharger, CHARGER_STATUS_CODES
<1>3. S = X \cup Y /\ X \cap Y = {} /\ A \cap B = {} /\ C \cap E = {}
  BY <1>2
<1>4. IsFiniteSet(S)
  BY DEF Inventory
<1> HIDE DEF A, B, C, E
<1>5. Cardinality(X) = Cardinality(A) + Cardinality(B)
  <2>1. IsFiniteSet(X)
    BY <1>1, <1>3, <1>4
  <2>2. QED
    BY <1>1, <1>3, <2>1
<1>6. Cardinality(Y) = Cardinality(C) + Cardinality(E)
  <2>1. IsFiniteSet(Y)
    BY <1>1, <1>3, <1>4
  <2>2. QED
    BY <1>1, <1>3, <2>1
<1>7. Cardinality(S) = Cardinality(X) + Cardinality(Y)
  BY <1>1, <1>3, <1>4
<1>8. /\ Cardinality(A) \in Nat /\ Cardinality(B) \in Nat
      /\ Cardinality(C) \in Nat /\ Cardinality(E) \in Nat
  <2>1. A \in SUBSET S /\ B \in SUBSET S /\ C \in SUBSET S /\ E \in SUBSET S
    BY <1>3
  <2>2. QED
    BY <1>4, <2>1, FS_Subset, FS_CardinalityType
<1> HIDE DEF X, Y
<1>9. Cardinality(A) + Cardinality(B) + Cardinality(C) + Cardinality(E) = Cardinality(S)
  BY <1>5, <1>6, <1>7, <1>8
<1>10. QED
  BY <1>9 DEF A, B, C, E

\* The operators share the chargers, and every status is counted once.
LEMMA HealthHolds == Inventory(rows) => HealthAddsUp
<1> SUFFICES ASSUME Inventory(rows) PROVE HealthAddsUp
  OBVIOUS
<1> DEFINE live == Web!Live(rows)
           Mine(b) == {r \in live : r.busi_id = b}
           With(b, stats) == {r \in live : r.busi_id = b /\ r.stat \in stats}
           health == Py!analyze_operator_health(rows, 1)
           large == Py!analyze_operator_health(rows, MinChargers)
           key == [r \in live |-> r.busi_id]
           counts == [b \in DOMAIN health |-> health[b].total_chargers]
<1>1. live \subseteq rows /\ live = Web!sidoSql(rows, None)
  BY DEF Web!Live, Web!sidoSql
<1>2. Web!NationalKpi(Web!sidoSql(rows, None)).total = Cardinality(live)
  BY <1>1, SameCount DEF Web!NationalKpi, Web!Count
<1>3. /\ DOMAIN health = {r.busi_id : r \in {x \in live : Cardinality(Mine(x.busi_id)) >= 1}}
      /\ \A b \in DOMAIN health :
           /\ health[b].total_chargers = Cardinality(Mine(b))
           /\ health[b].available_now = Cardinality(With(b, {"2"}))
           /\ health[b].downtime_count = Cardinality(With(b, {"1", "4", "5"}))
           /\ health[b].unmonitored_count = Cardinality(With(b, {"9"}))
  BY HealthShape
<1>4. DOMAIN large = {r.busi_id : r \in {x \in live : Cardinality(Mine(x.busi_id)) >= MinChargers}}
  BY HealthShape
<1>5. \A b : Mine(b) \subseteq rows
  BY <1>1
<1> HIDE DEF live, health, large
<1>6. ASSUME NEW r \in live PROVE Cardinality(Mine(r.busi_id)) >= 1
  <2>1. r \in Mine(r.busi_id)
    OBVIOUS
  <2>2. IsFiniteSet(Mine(r.busi_id))
    BY <1>5, PartIsInventory DEF Inventory
  <2> HIDE DEF Mine
  <2>3. Cardinality(Mine(r.busi_id)) \in Nat /\ Cardinality(Mine(r.busi_id)) # 0
    BY <2>1, <2>2, FS_CardinalityType, FS_EmptySet
  <2>4. QED
    BY <2>3
<1>7. DOMAIN health = {r.busi_id : r \in live}
  <2> HIDE DEF Mine
  <2>1. {x \in live : Cardinality(Mine(x.busi_id)) >= 1} = live
    BY <1>6
  <2>2. QED
    BY <1>3, <2>1
<1>8. Web!Total(counts) = Cardinality(live)
  <2>1. DOMAIN key = live /\ key = [r \in live |-> key[r]]
    OBVIOUS
  <2>2. DOMAIN health = {key[r] : r \in live}
    BY <1>7
  <2>3. \A b : Mine(b) = {r \in live : key[r] = b}
    OBVIOUS
  <2> HIDE DEF key, Mine
  <2>4. counts = [b \in {key[r] : r \in live} |-> Cardinality({r \in live : key[r] = b})]
    BY <1>3, <2>2, <2>3
  <2> HIDE DEF counts
  <2>5. Counts(counts, live, key)
    BY <2>4 DEF Counts
  <2>6. QED
    BY <1>1, <2>1, <2>5, CountsAddUp
<1>9. ASSUME NEW b \in DOMAIN health
      PROVE  health[b].available_now + health[b].downtime_count
                 + health[b].unmonitored_count
                 + Web!Count({r \in live : r.busi_id = b /\ r.stat \in {"0", "3", "6"}})
               = health[b].total_chargers
  <2> DEFINE Of(stats) == {r \in Mine(b) : r.stat \in stats}
  <2>1. Inventory(Mine(b))
    BY <1>5, PartIsInventory
  <2>2. \A stats : With(b, stats) = Of(stats)
    OBVIOUS
  <2>3. Cardinality(Of({"2"})) + Cardinality(Of({"1", "4", "5"})) + Cardinality(Of({"9"}))
          + Cardinality(Of({"0", "3", "6"})) = Cardinality(Mine(b))
    <3> HIDE DEF Mine
    <3>1. QED
      BY <2>1, HealthParts
  <2>4. Web!Count(With(b, {"0", "3", "6"})) = Cardinality(With(b, {"0", "3", "6"}))
    BY SameCount DEF Web!Count
  <2>5. /\ health[b].total_chargers = Cardinality(Mine(b))
        /\ health[b].available_now = Cardinality(With(b, {"2"}))
        /\ health[b].downtime_count = Cardinality(With(b, {"1", "4", "5"}))
        /\ health[b].unmonitored_count = Cardinality(With(b, {"9"}))
    <3> HIDE DEF Mine, With
    <3>1. QED
      BY <1>3
  <2>6. /\ With(b, {"2"}) = Of({"2"}) /\ With(b, {"9"}) = Of({"9"})
        /\ With(b, {"1", "4", "5"}) = Of({"1", "4", "5"})
        /\ With(b, {"0", "3", "6"}) = Of({"0", "3", "6"})
    BY <2>2
  <2> HIDE DEF Of, With, Mine
  <2>7. health[b].available_now + health[b].downtime_count + health[b].unmonitored_count
          + Web!Count(With(b, {"0", "3", "6"})) = health[b].total_chargers
    BY <2>3, <2>4, <2>5, <2>6
  <2>8. QED
    BY <2>7 DEF With
<1>10. ASSUME NEW b \in DOMAIN large PROVE health[b].total_chargers >= MinChargers
  <2>1. PICK r \in live : b = r.busi_id /\ Cardinality(Mine(r.busi_id)) >= MinChargers
    <3> HIDE DEF Mine
    <3>1. QED
      BY <1>4
  <2>2. b \in DOMAIN health
    BY <1>7, <2>1
  <2> HIDE DEF Mine
  <2>3. QED
    BY <1>3, <2>1, <2>2
<1> HIDE DEF key, Mine, With
<1>11. QED
  BY <1>2, <1>8, <1>9, <1>10 DEF HealthAddsUp, health, large, live, counts

\* FiguresAgree holds in every state: the figures are counts of one set of
\* rows with one row per id, each by a key of its own (web/app.js,
\* web/highway, src/ev_mcp/tools).
THEOREM FiguresCorrect == Spec => []FiguresAgree
<1>1. IInv => FiguresAgree
  BY NationalHolds, RouteHolds, CompareHolds, MonopolyHolds, DormantHolds, DensityHolds,
     HealthHolds DEF IInv, FiguresAgree
<1>2. QED
  BY <1>1, InvCorrect, PTL
================================================================================
