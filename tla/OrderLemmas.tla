----------------------------- MODULE OrderLemmas -----------------------------
(* Facts about finite sets in an order, for the proofs of several parts: the  *)
(* least number of a set, the ranks of the elements, the first so many, and   *)
(* what someone ends up with who goes through the set once.                   *)
EXTENDS Integers, FiniteSets, FiniteSetTheorems, WellFoundedInduction, TLAPS

(* A set of numbers that is not empty has a least element.                    *)
LEMMA LeastOf ==
  ASSUME NEW T \in SUBSET Nat, T # {}
  PROVE  \E x \in T : \A y \in T : x <= y
<1>1. IsWellFoundedOn(OpToRel(<, Nat), Nat)
  BY NatLessThanWellFounded
<1>2. PICK x \in T : \A y \in T : ~ (<<y, x>> \in OpToRel(<, Nat))
  BY <1>1, WFMin
<1>3. \A y \in T : ~(y < x)
  BY <1>2 DEF OpToRel
<1>4. \A y \in T : y \in Nat
  OBVIOUS
<1> QED
  BY <1>3, <1>4

(* A set of numbers up to n that is not empty has a greatest element.         *)
LEMMA GreatestOf ==
  ASSUME NEW n \in Nat, NEW T \in SUBSET (0 .. n), T # {}
  PROVE  \E x \in T : \A y \in T : y <= x
<1> DEFINE U == {n - t : t \in T}
<1>1. \A t \in T : t \in 0 .. n
  OBVIOUS
<1>2. U \in SUBSET Nat /\ U # {}
  <2>1. \A t \in T : n - t \in Nat
    BY <1>1
  <2> QED
    BY <2>1
<1> HIDE DEF U
<1>3. PICK x \in U : \A y \in U : x <= y
  BY <1>2, LeastOf
<1>4. n - x \in T
  BY <1>1 DEF U
<1>5. ASSUME NEW t \in T PROVE t <= n - x
  <2>1. x \in Nat /\ t \in 0 .. n /\ n - t \in U
    BY <1>1, <1>2 DEF U
  <2> QED
    BY <1>3, <2>1
<1> QED
  BY <1>4, <1>5

(* What holds of 0, and of m + 1 whenever of m, holds of every number: as a   *)
(* set, since a proof here cannot quantify over what is to be proved.         *)
LEMMA AllNumbers ==
  ASSUME NEW G \in SUBSET Nat, 0 \in G, \A m \in G : m + 1 \in G
  PROVE  \A m \in Nat : m \in G
<1> DEFINE T == Nat \ G
<1> SUFFICES ASSUME T # {} PROVE FALSE
  OBVIOUS
<1>1. PICK m \in T : \A y \in T : m <= y
  BY LeastOf
<1>2. m \in Nat /\ m # 0 /\ m \notin G
  OBVIOUS
<1>3. m - 1 \in Nat /\ ~ (m <= m - 1)
  BY <1>2
<1>4. m - 1 \in G
  BY <1>1, <1>3
<1> QED
  BY <1>2, <1>3, <1>4

(* The numbers up to n are n.                                                 *)
LEMMA UpTo ==
  ASSUME NEW n \in Nat
  PROVE  /\ IsFiniteSet(1 .. n) /\ Cardinality(1 .. n) = n
         /\ IsFiniteSet(0 .. n - 1) /\ Cardinality(0 .. n - 1) = n
<1>1. 0 \in Int /\ 1 \in Int /\ n \in Int /\ n - 1 \in Int
  OBVIOUS
<1>2. /\ (IF 1 > n THEN 0 ELSE n - 1 + 1) = n
      /\ (IF 0 > n - 1 THEN 0 ELSE (n - 1) - 0 + 1) = n
  OBVIOUS
<1>3. IsFiniteSet(1 .. n) /\ Cardinality(1 .. n) = n
  BY <1>1, <1>2, FS_Interval
<1>4. IsFiniteSet(0 .. n - 1) /\ Cardinality(0 .. n - 1) = n
  BY <1>1, <1>2, FS_Interval
<1> QED
  BY <1>3, <1>4

------------------------------------------------------------------------------
(* A strict total order on Y; the elements before k; those with fewer than n  *)
(* before them.                                                               *)
Orders(R, Y) ==
  /\ \A j \in Y : <<j, j>> \notin R
  /\ \A i, j, k \in Y : <<i, j>> \in R /\ <<j, k>> \in R => <<i, k>> \in R
  /\ \A j, k \in Y : j = k \/ <<j, k>> \in R \/ <<k, j>> \in R

Under(Y, R, k) == {j \in Y : <<j, k>> \in R}

Lowest(Y, R, n) == {k \in Y : Cardinality(Under(Y, R, k)) < n}

(* There is for every rank one element of this rank, and the ranks are in the *)
(* order of the elements.                                                     *)
LEMMA Ranks ==
  ASSUME NEW Y, IsFiniteSet(Y), NEW R, Orders(R, Y)
  PROVE  /\ \A k \in Y : Cardinality(Under(Y, R, k)) \in 0 .. Cardinality(Y) - 1
         /\ \A m \in 0 .. Cardinality(Y) - 1 : \E k \in Y : Cardinality(Under(Y, R, k)) = m
         /\ \A j, k \in Y :
              Cardinality(Under(Y, R, j)) < Cardinality(Under(Y, R, k)) <=> <<j, k>> \in R
<1> DEFINE rank(k) == Cardinality(Under(Y, R, k))
           n == Cardinality(Y)
           f == [k \in Y |-> rank(k)]
<1>1. n \in Nat
  BY FS_CardinalityType
<1>2. \A k \in Y : Under(Y, R, k) \in SUBSET Y /\ k \notin Under(Y, R, k)
  BY DEF Orders, Under
<1>3. \A k \in Y : IsFiniteSet(Under(Y, R, k)) /\ rank(k) \in Nat /\ rank(k) < n
  <2> SUFFICES ASSUME NEW k \in Y
               PROVE  IsFiniteSet(Under(Y, R, k)) /\ rank(k) \in Nat /\ rank(k) < n
    OBVIOUS
  <2>1. Under(Y, R, k) \in SUBSET Y /\ Under(Y, R, k) # Y
    BY <1>2
  <2>2. /\ IsFiniteSet(Under(Y, R, k)) /\ rank(k) <= n
        /\ n = rank(k) => Y = Under(Y, R, k)
    BY <2>1, FS_Subset
  <2>3. rank(k) \in Nat
    BY <2>2, FS_CardinalityType
  <2> QED
    BY <1>1, <2>1, <2>2, <2>3
<1>4. ASSUME NEW j \in Y, NEW k \in Y, <<j, k>> \in R PROVE rank(j) < rank(k)
  <2>1. Under(Y, R, j) \in SUBSET Under(Y, R, k) /\ Under(Y, R, j) # Under(Y, R, k)
    BY <1>4 DEF Orders, Under
  <2>2. IsFiniteSet(Under(Y, R, k))
    BY <1>3
  <2>3. rank(j) <= rank(k) /\ (rank(k) = rank(j) => Under(Y, R, k) = Under(Y, R, j))
    BY <2>1, <2>2, FS_Subset
  <2> QED
    BY <1>3, <2>1, <2>3
<1> HIDE DEF rank
<1>5. ASSUME NEW j \in Y, NEW k \in Y, rank(j) < rank(k) PROVE <<j, k>> \in R
  <2>1. ASSUME <<k, j>> \in R PROVE FALSE
    <3>1. rank(k) < rank(j)
      BY <1>4, <2>1
    <3> QED
      BY <1>3, <1>5, <3>1
  <2>2. j # k
    BY <1>3, <1>5
  <2> QED
    BY <2>1, <2>2 DEF Orders
<1>6. f \in [Y -> 0 .. n - 1]
  BY <1>1, <1>3
<1>7. \A j, k \in Y : f[j] = f[k] => j = k
  <2> SUFFICES ASSUME NEW j \in Y, NEW k \in Y, f[j] = f[k], j # k PROVE FALSE
    OBVIOUS
  <2>1. rank(j) = rank(k)
    OBVIOUS
  <2>2. rank(j) < rank(k) \/ rank(k) < rank(j)
    BY <1>4 DEF Orders
  <2> QED
    BY <1>3, <2>1, <2>2
<1>8. f \in Injection(Y, 0 .. n - 1)
  BY <1>6, <1>7 DEF Injection, IsInjective
<1>9. IsFiniteSet(0 .. n - 1) /\ Cardinality(0 .. n - 1) = n
  BY <1>1, UpTo
<1>10. f \in Surjection(Y, 0 .. n - 1)
  BY <1>8, <1>9, FS_Injection
<1>11. ASSUME NEW m \in 0 .. n - 1 PROVE \E k \in Y : rank(k) = m
  BY <1>10 DEF Surjection
<1>12. \A k \in Y : rank(k) \in 0 .. n - 1
  BY <1>1, <1>3
<1> QED
  BY <1>4, <1>5, <1>11, <1>12 DEF rank

(* A part of the set is in the same order.                                    *)
LEMMA OrdersPart ==
  ASSUME NEW Y, NEW R, Orders(R, Y), NEW S \in SUBSET Y
  PROVE  Orders(R, S)
BY DEF Orders

(* One element comes first, and in the opposite order last.                   *)
LEMMA FirstAndLast ==
  ASSUME NEW Y, IsFiniteSet(Y), Y # {}, NEW R, Orders(R, Y)
  PROVE  /\ \E k \in Y : Under(Y, R, k) = {} /\ \A j \in Y : j = k \/ <<k, j>> \in R
         /\ \E k \in Y : \A j \in Y : j = k \/ <<j, k>> \in R
<1>1. Cardinality(Y) \in Nat /\ Cardinality(Y) # 0
  BY FS_CardinalityType, FS_EmptySet
<1>2. /\ 0 \in 0 .. Cardinality(Y) - 1 /\ Cardinality(Y) - 1 \in 0 .. Cardinality(Y) - 1
  BY <1>1
<1>3. PICK k \in Y : Cardinality(Under(Y, R, k)) = 0
  BY <1>2, Ranks
<1>4. Under(Y, R, k) \in SUBSET Y
  BY DEF Under
<1>5. IsFiniteSet(Under(Y, R, k))
  BY <1>4, FS_Subset
<1>6. Under(Y, R, k) = {}
  BY <1>3, <1>5, FS_EmptySet
<1>7. \A j \in Y : j = k \/ <<k, j>> \in R
  BY <1>6 DEF Orders, Under
<1>8. PICK l \in Y : Cardinality(Under(Y, R, l)) = Cardinality(Y) - 1
  BY <1>2, Ranks
<1>9. \A j \in Y : j = l \/ <<j, l>> \in R
  <2> SUFFICES ASSUME NEW j \in Y, j # l, <<j, l>> \notin R PROVE FALSE
    OBVIOUS
  <2>1. <<l, j>> \in R
    BY DEF Orders
  <2>2. Cardinality(Under(Y, R, l)) < Cardinality(Under(Y, R, j))
    BY <2>1, Ranks
  <2>3. Cardinality(Under(Y, R, j)) \in 0 .. Cardinality(Y) - 1
    BY Ranks
  <2> QED
    BY <1>1, <1>8, <2>2, <2>3
<1> QED
  BY <1>6, <1>7, <1>9

(* The first n of a set: n of them unless there are fewer, and every other    *)
(* one comes after them.                                                      *)
LEMMA LowestFacts ==
  ASSUME NEW Y, IsFiniteSet(Y), NEW R, Orders(R, Y), NEW n \in Nat
  PROVE  /\ Lowest(Y, R, n) \in SUBSET Y
         /\ \A a \in Lowest(Y, R, n), b \in Y \ Lowest(Y, R, n) : <<a, b>> \in R
         /\ Lowest(Y, R, n) = Y \/ Cardinality(Lowest(Y, R, n)) = n
<1> DEFINE rank(k) == Cardinality(Under(Y, R, k))
           L == Lowest(Y, R, n)
           f == [k \in L |-> rank(k)]
<1>1. /\ \A k \in Y : rank(k) \in 0 .. Cardinality(Y) - 1
      /\ \A m \in 0 .. Cardinality(Y) - 1 : \E k \in Y : rank(k) = m
      /\ \A j, k \in Y : rank(j) < rank(k) <=> <<j, k>> \in R
  BY Ranks
<1>2. \A k : k \in L <=> k \in Y /\ rank(k) < n
  BY DEF Lowest
<1>3. Cardinality(Y) \in Nat
  BY FS_CardinalityType
<1> HIDE DEF rank, L
<1>4. \A a \in L, b \in Y \ L : <<a, b>> \in R
  <2> SUFFICES ASSUME NEW a \in L, NEW b \in Y \ L PROVE <<a, b>> \in R
    OBVIOUS
  <2>1. rank(a) \in Nat /\ rank(b) \in Nat /\ rank(a) < n /\ ~ (rank(b) < n)
    BY <1>1, <1>2
  <2>2. rank(a) < rank(b)
    BY <2>1
  <2> QED
    BY <1>1, <1>2, <2>2
<1>5. ASSUME L # Y PROVE Cardinality(L) = n
  <2>1. PICK b \in Y : b \notin L
    BY <1>2, <1>5
  <2>2. n <= Cardinality(Y) - 1
    BY <1>1, <1>2, <1>3, <2>1
  <2>3. f \in [L -> 0 .. n - 1]
    BY <1>1, <1>2
  <2>4. \A j, k \in L : f[j] = f[k] => j = k
    <3> SUFFICES ASSUME NEW j \in L, NEW k \in L, rank(j) = rank(k), j # k PROVE FALSE
      OBVIOUS
    <3>1. rank(j) < rank(k) \/ rank(k) < rank(j)
      BY <1>1, <1>2 DEF Orders
    <3> QED
      BY <1>1, <1>2, <3>1
  <2>5. \A m \in 0 .. n - 1 : \E k \in L : f[k] = m
    <3> SUFFICES ASSUME NEW m \in 0 .. n - 1 PROVE \E k \in L : rank(k) = m
      OBVIOUS
    <3>1. m \in 0 .. Cardinality(Y) - 1 /\ m < n
      BY <1>3, <2>2
    <3> QED
      BY <1>1, <1>2, <3>1
  <2>6. f \in Bijection(L, 0 .. n - 1)
    BY <2>3, <2>4, <2>5 DEF Bijection, Injection, Surjection, IsInjective
  <2>7. IsFiniteSet(L)
    BY <1>2, FS_Subset
  <2>8. Cardinality(0 .. n - 1) = n
    BY UpTo
  <2>9. ExistsBijection(L, 0 .. n - 1)
    BY <2>6 DEF ExistsBijection
  <2> QED
    BY <2>7, <2>8, <2>9, FS_Bijection
<1>6. L \in SUBSET Y
  BY <1>2
<1> QED
  BY <1>4, <1>5, <1>6 DEF L

------------------------------------------------------------------------------
(* Whoever goes through the set in its order and takes an element according   *)
(* to those taken before it has a certain part of it in the end. Ok holds the *)
(* pairs of what was taken before and an element which is then taken.         *)
Taken(K, Y, R, Ok) == \A k \in Y : k \in K <=> <<Under(K, R, k), k>> \in Ok

LEMMA TakenExists ==
  ASSUME NEW Y, IsFiniteSet(Y), NEW R, Orders(R, Y), NEW Ok
  PROVE  \E K \in SUBSET Y : Taken(K, Y, R, Ok)
<1> DEFINE rank(k) == Cardinality(Under(Y, R, k))
           Upto(m) == {k \in Y : rank(k) < m}
           G == {m \in Nat : \E K \in SUBSET Upto(m) : Taken(K, Upto(m), R, Ok)}
<1>1. /\ \A k \in Y : rank(k) \in 0 .. Cardinality(Y) - 1
      /\ \A j, k \in Y : rank(j) < rank(k) <=> <<j, k>> \in R
  BY Ranks
<1>2. Cardinality(Y) \in Nat
  BY FS_CardinalityType
<1> HIDE DEF rank
<1>3. 0 \in G
  <2>1. Upto(0) = {}
    BY <1>1
  <2> QED
    BY <2>1 DEF Taken
<1>4. ASSUME NEW m \in G PROVE m + 1 \in G
  <2>1. m \in Nat
    OBVIOUS
  <2>2. PICK K \in SUBSET Upto(m) : Taken(K, Upto(m), R, Ok)
    OBVIOUS
  <2>3. CASE \E e \in Y : rank(e) = m
    <3>1. PICK e \in Y : rank(e) = m
      BY <2>3
    <3> DEFINE L == IF <<Under(K, R, e), e>> \in Ok THEN K \union {e} ELSE K
    <3>2. \A k : k \in Upto(m + 1) <=> k \in Upto(m) \/ k = e
      <4> SUFFICES ASSUME NEW k \in Y PROVE rank(k) < m + 1 <=> rank(k) < m \/ k = e
        BY <3>1, <2>1
      <4>1. rank(k) \in Nat /\ (rank(k) = m => ~ (rank(k) < rank(e)) /\ ~ (rank(e) < rank(k)))
        BY <1>1, <2>1, <3>1
      <4>2. rank(k) = m => k = e
        BY <1>1, <3>1, <4>1 DEF Orders
      <4> QED
        BY <2>1, <3>1, <4>1, <4>2
    <3>3. e \notin Upto(m) /\ e \notin K
      BY <2>1, <2>2, <3>1
    <3>4. ASSUME NEW k \in Upto(m + 1) PROVE <<e, k>> \notin R
      <4>1. k \in Y /\ rank(k) \in Nat /\ rank(k) < m + 1
        BY <1>1
      <4>2. ~ (rank(e) < rank(k))
        BY <2>1, <3>1, <4>1
      <4> QED
        BY <1>1, <3>1, <4>1, <4>2
    <3>5. ASSUME NEW k \in Upto(m + 1) PROVE Under(L, R, k) = Under(K, R, k)
      BY <3>4 DEF Under
    <3>6. ASSUME NEW k \in Upto(m + 1) PROVE k \in L <=> <<Under(K, R, k), k>> \in Ok
      BY <2>2, <3>2, <3>3 DEF Taken
    <3>7. L \in SUBSET Upto(m + 1)
      BY <2>2, <3>2
    <3> HIDE DEF L, Upto
    <3>8. Taken(L, Upto(m + 1), R, Ok)
      BY <3>5, <3>6 DEF Taken
    <3> QED
      BY <2>1, <3>7, <3>8
  <2>4. CASE ~ \E e \in Y : rank(e) = m
    <3>1. Upto(m + 1) = Upto(m)
      BY <1>1, <2>1, <2>4
    <3> HIDE DEF Upto
    <3> QED
      BY <2>1, <2>2, <3>1
  <2> QED
    BY <2>3, <2>4
<1>5. Cardinality(Y) \in G
  <2>1. G \in SUBSET Nat
    OBVIOUS
  <2> HIDE DEF G
  <2> QED
    BY <1>2, <1>3, <1>4, <2>1, AllNumbers
<1>6. Upto(Cardinality(Y)) = Y
  BY <1>1, <1>2
<1> QED
  BY <1>5, <1>6

(* Whoever goes on from x with H has a history of any length.                 *)
History(f, n, X, x, H) ==
  /\ f \in [0 .. n -> X] /\ f[0] = x
  /\ \A k \in 1 .. n : f[k] = H[f[k - 1]]

LEMMA HistoryExists ==
  ASSUME NEW X, NEW x \in X, NEW H \in [X -> X], NEW n \in Nat
  PROVE  \E f : History(f, n, X, x, H)
<1> DEFINE G == {m \in Nat : \E f : History(f, m, X, x, H)}
<1>1. 0 \in G
  <2> DEFINE f == [k \in 0 .. 0 |-> x]
  <2>1. History(f, 0, X, x, H)
    BY DEF History
  <2> QED
    BY <2>1
<1>2. ASSUME NEW m \in G PROVE m + 1 \in G
  <2>1. m \in Nat
    OBVIOUS
  <2>2. PICK f : History(f, m, X, x, H)
    OBVIOUS
  <2> DEFINE g == [k \in 0 .. m + 1 |-> IF k = m + 1 THEN H[f[m]] ELSE f[k]]
  <2>3. m \in 0 .. m /\ f[m] \in X /\ H[f[m]] \in X
    BY <2>1, <2>2 DEF History
  <2>4. g \in [0 .. m + 1 -> X] /\ g[0] = x
    BY <2>1, <2>2, <2>3 DEF History
  <2>5. ASSUME NEW k \in 1 .. m + 1 PROVE g[k] = H[g[k - 1]]
    <3>1. CASE k = m + 1
      BY <2>1, <3>1
    <3>2. CASE k # m + 1
      <4>1. k \in 1 .. m /\ k \in 0 .. m + 1 /\ k - 1 \in 0 .. m + 1 /\ k - 1 # m + 1
        BY <2>1, <3>2
      <4> QED
        BY <2>2, <3>2, <4>1 DEF History
    <3> QED
      BY <3>1, <3>2
  <2>6. m + 1 \in Nat
    BY <2>1
  <2> HIDE DEF g
  <2>7. History(g, m + 1, X, x, H)
    BY <2>4, <2>5 DEF History
  <2> QED
    BY <2>6, <2>7
<1>3. G \in SUBSET Nat
  OBVIOUS
<1> HIDE DEF G
<1>4. n \in G
  BY <1>1, <1>2, <1>3, AllNumbers
<1> QED
  BY <1>4 DEF G
=============================================================================
