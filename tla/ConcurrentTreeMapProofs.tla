----------------------- MODULE ConcurrentTreeMapProofs -----------------------
(***************************************************************************)
(* The proof that concurrentTreeMap is atomic, for any number of           *)
(* goroutines, keys, calls and callbacks.  Three things make it so: who    *)
(* writes is alone inside (LockHeld, ReadersAreOut), so what a callback    *)
(* was told is still true when it answers (CallbackIsFresh), and what it   *)
(* decides concerns only the entries it was told of (CallbackIsLocal).     *)
(***************************************************************************)
EXTENDS ConcurrentTreeMap, FiniteSetTheorems, WellFoundedInduction, TLAPS

USE KeyAssumption, ProcAssumption, StartAssumption, MenuAssumption

-----------------------------------------------------------------------------
(* A non-empty set of naturals has a least element, one below a bound a    *)
(* greatest one.                                                           *)

Below == {ss \in Nat \X Nat : ss[1] < ss[2]}

LEMMA BelowIsWellFounded == IsWellFoundedOn(Below, Nat)
BY NatLessThanWellFounded DEF OpToRel, Below

LEMMA NotBelow ==
    ASSUME NEW i \in Nat, NEW j \in Nat, <<i, j>> \notin Below
    PROVE  j <= i
<1>1. <<i, j>>[1] = i /\ <<i, j>>[2] = j
  OBVIOUS
<1> QED
  BY <1>1 DEF Below

LEMMA LeastExists ==
    ASSUME NEW S \in SUBSET Nat, S # {}
    PROVE  \E m \in S : \A k \in S : m <= k
<1>1. PICK m \in S : \A k \in S : <<k, m>> \notin Below
  BY BelowIsWellFounded, WFMin
<1>2. \A k \in S : m <= k
  BY <1>1, NotBelow
<1> QED
  BY <1>1, <1>2

LEMMA GreatestExists ==
    ASSUME NEW n \in Nat, NEW S \in SUBSET (1 .. n), S # {}
    PROVE  \E m \in S : \A k \in S : k <= m
<1> DEFINE D == {n - k : k \in S}
<1>1. D \in SUBSET Nat /\ D # {}
  <2>1. \A k \in S : k \in 1 .. n /\ n - k \in Nat
    OBVIOUS
  <2>2. PICK k \in S : TRUE
    OBVIOUS
  <2>3. n - k \in D
    OBVIOUS
  <2> QED
    BY <2>1, <2>3
<1>2. PICK d \in D : \A e \in D : d <= e
  BY <1>1, LeastExists
<1>3. PICK m \in S : d = n - m
  BY <1>2
<1>4. \A k \in S : k <= m
  <2> TAKE k \in S
  <2>1. n - m <= n - k
    BY <1>2, <1>3
  <2> QED
    BY <2>1
<1> QED
  BY <1>3, <1>4

-----------------------------------------------------------------------------
(* A binary search of the sorted keys, and the list of keys it searches.   *)

\* The ranges a binary search may look at, and what it answers for each.
Ranges(n) == (0 .. n) \X (-1 .. n - 1)
Halves(f, keys, key) ==
    f = [r \in Ranges(Len(keys)) |->
           LET lo == r[1]
               hi == r[2]
               mid == (lo + hi) \div 2
           IN  IF lo > hi THEN <<>>
               ELSE IF keys[mid + 1] = key THEN <<mid>>
               ELSE IF keys[mid + 1] < key THEN f[<<mid + 1, hi>>] ELSE f[<<lo, mid - 1>>]]

\* The middle of a range divides it.
LEMMA Middle ==
    ASSUME NEW n \in Nat, NEW lo \in 0 .. n, NEW hi \in -1 .. n - 1, lo <= hi
    PROVE  LET mid == (lo + hi) \div 2
           IN  /\ mid \in 0 .. n - 1 /\ lo <= mid /\ mid <= hi
               /\ <<mid + 1, hi>> \in Ranges(n) /\ <<lo, mid - 1>> \in Ranges(n)
<1> DEFINE mid == (lo + hi) \div 2
<1>1. mid \in Int /\ lo <= mid /\ mid <= hi
  OBVIOUS
<1> HIDE DEF mid
<1>2. mid \in 0 .. n - 1 /\ mid + 1 \in 0 .. n /\ mid - 1 \in -1 .. n - 1
  BY <1>1
<1> QED
  BY <1>1, <1>2 DEF mid, Ranges

\* One function at most says what the search finds in each range.
LEMMA HalvesUnique ==
    ASSUME NEW keys \in Seq(Int), NEW key \in Int, NEW f, NEW g,
           Halves(f, keys, key), Halves(g, keys, key)
    PROVE  f = g
<1> DEFINE n == Len(keys)
           D == Ranges(n)
           T == {m \in Nat : \E lo \in 0 .. n, hi \in -1 .. n - 1 :
                               m = hi - lo + n + 1 /\ f[<<lo, hi>>] # g[<<lo, hi>>]}
<1>1. n \in Nat
  OBVIOUS
<1>2. f = [r \in D |-> f[r]] /\ g = [r \in D |-> g[r]]
  BY DEF Halves
<1>3. SUFFICES ASSUME f # g PROVE FALSE
  OBVIOUS
<1>4. PICK r \in D : f[r] # g[r]
  BY <1>2, <1>3
<1>5. PICK a \in 0 .. n, b \in -1 .. n - 1 : r = <<a, b>>
  BY DEF Ranges
<1>6. b - a + n + 1 \in T /\ T \subseteq Nat
  <2>1. b - a + n + 1 \in Nat
    BY <1>1
  <2>2. f[<<a, b>>] # g[<<a, b>>]
    BY <1>4, <1>5
  <2> QED
    BY <2>1, <2>2
<1> HIDE DEF T
<1>7. PICK m \in T : \A k \in T : m <= k
  BY <1>6, LeastExists
<1>8. PICK lo \in 0 .. n, hi \in -1 .. n - 1 :
        m = hi - lo + n + 1 /\ f[<<lo, hi>>] # g[<<lo, hi>>]
  BY <1>7 DEF T
<1> DEFINE mid == (lo + hi) \div 2
           e == <<lo, hi>>
<1>9. e \in D /\ e[1] = lo /\ e[2] = hi
  BY DEF Ranges
<1>10. f[e] = IF lo > hi THEN <<>>
              ELSE IF keys[mid + 1] = key THEN <<mid>>
              ELSE IF keys[mid + 1] < key THEN f[<<mid + 1, hi>>] ELSE f[<<lo, mid - 1>>]
  BY <1>9 DEF Halves
<1>11. g[e] = IF lo > hi THEN <<>>
              ELSE IF keys[mid + 1] = key THEN <<mid>>
              ELSE IF keys[mid + 1] < key THEN g[<<mid + 1, hi>>] ELSE g[<<lo, mid - 1>>]
  BY <1>9 DEF Halves
<1>12. lo <= hi
  BY <1>8, <1>10, <1>11
<1>13. /\ mid \in Int /\ lo <= mid /\ mid <= hi
       /\ mid + 1 \in 0 .. n /\ mid - 1 \in -1 .. n - 1
  BY <1>1, <1>12, Middle, SMTT(60) DEF Ranges
<1>14. /\ lo \in Int /\ 0 <= lo /\ hi \in Int /\ hi <= n - 1 /\ n \in Int
       /\ mid \in Int /\ lo <= mid /\ mid <= hi /\ m = hi - lo + n + 1
  BY <1>1, <1>8, <1>13
<1> HIDE DEF mid, e, n, D
<1>15. f[<<mid + 1, hi>>] = g[<<mid + 1, hi>>]
  <2>1. hi - (mid + 1) + n + 1 \in Nat /\ hi - (mid + 1) + n + 1 < m
    BY <1>14
  <2>2. ASSUME hi - (mid + 1) + n + 1 \in T PROVE FALSE
    BY <1>6, <1>7, <2>1, <2>2
  <2> QED
    BY <1>13, <2>1, <2>2 DEF T
<1>16. f[<<lo, mid - 1>>] = g[<<lo, mid - 1>>]
  <2>1. mid - 1 - lo + n + 1 \in Nat /\ mid - 1 - lo + n + 1 < m
    BY <1>14
  <2>2. ASSUME mid - 1 - lo + n + 1 \in T PROVE FALSE
    BY <1>6, <1>7, <2>1, <2>2
  <2> QED
    BY <1>13, <2>1, <2>2 DEF T
<1> QED
  BY <1>8, <1>10, <1>11, <1>15, <1>16 DEF e

\* A binary search in ascending keys finds a key where it is, and no other.
LEMMA SearchFinds ==
    ASSUME NEW keys \in Seq(Int), NEW key \in Int,
           \A i, j \in DOMAIN keys : i < j => keys[i] < keys[j]
    PROVE  /\ \A i \in DOMAIN keys : keys[i] = key => Search(keys, key) = <<i - 1>>
           /\ (\A i \in DOMAIN keys : keys[i] # key) => Search(keys, key) = <<>>
<1> DEFINE n == Len(keys)
<1>1. n \in Nat /\ DOMAIN keys = 1 .. n /\ \A i \in 1 .. n : keys[i] \in Int
  OBVIOUS
<1>2. PICK w \in Int : \/ w \in 0 .. n - 1 /\ keys[w + 1] = key
                       \/ w = -1 /\ \A i \in 1 .. n : keys[i] # key
  <2>1. CASE \E i \in 1 .. n : keys[i] = key
    <3>1. PICK i \in 1 .. n : keys[i] = key
      BY <2>1
    <3>2. i - 1 \in 0 .. n - 1 /\ (i - 1) + 1 = i /\ i - 1 \in Int
      BY <1>1
    <3>3. keys[(i - 1) + 1] = key
      BY <3>1, <3>2
    <3> HIDE DEF n
    <3> QED
      BY <3>2, <3>3
  <2> QED
    BY <2>1, SMTT(60)
<1>3. \A i \in 1 .. n : keys[i] = key => w = i - 1
  <2> TAKE i \in 1 .. n
  <2> HAVE keys[i] = key
  <2>1. w \in 0 .. n - 1 /\ keys[w + 1] = key /\ w + 1 \in 1 .. n
    BY <1>1, <1>2
  <2>2. ~(w + 1 < i) /\ ~(i < w + 1)
    BY <1>1, <2>1
  <2> QED
    BY <1>1, <2>1, <2>2
<1> DEFINE g == [r \in Ranges(n) |-> IF r[1] <= w /\ w <= r[2] THEN <<w>> ELSE <<>>]
<1>4. Halves(g, keys, key)
  <2>1. ASSUME NEW r \in Ranges(n)
        PROVE  LET lo == r[1]
                   hi == r[2]
                   mid == (lo + hi) \div 2
               IN  g[r] = IF lo > hi THEN <<>>
                          ELSE IF keys[mid + 1] = key THEN <<mid>>
                          ELSE IF keys[mid + 1] < key THEN g[<<mid + 1, hi>>] ELSE g[<<lo, mid - 1>>]
    <3>1. PICK lo \in 0 .. n, hi \in -1 .. n - 1 : r = <<lo, hi>>
      BY DEF Ranges
    <3> DEFINE mid == (lo + hi) \div 2
    <3>2. r[1] = lo /\ r[2] = hi /\ g[r] = IF lo <= w /\ w <= hi THEN <<w>> ELSE <<>>
      BY <3>1
    <3>3. CASE lo > hi
      BY <1>1, <3>2, <3>3
    <3>4. CASE lo <= hi
      <4>1. /\ mid \in 0 .. n - 1 /\ lo <= mid /\ mid <= hi
            /\ <<mid + 1, hi>> \in Ranges(n) /\ <<lo, mid - 1>> \in Ranges(n)
        BY <1>1, <3>4, Middle
      <4> HIDE DEF mid
      <4>2. mid + 1 \in 1 .. n /\ keys[mid + 1] \in Int
        BY <1>1, <4>1
      <4>3. /\ g[<<mid + 1, hi>>] = IF mid + 1 <= w /\ w <= hi THEN <<w>> ELSE <<>>
            /\ g[<<lo, mid - 1>>] = IF lo <= w /\ w <= mid - 1 THEN <<w>> ELSE <<>>
        BY <4>1
      <4> HIDE DEF g, n
      <4>4. CASE keys[mid + 1] = key
        <5>1. w = mid
          BY <1>3, <4>1, <4>2, <4>4
        <5> QED
          BY <3>2, <3>4, <4>1, <4>4, <5>1 DEF mid
      <4>5. CASE keys[mid + 1] < key
        <5>1. lo <= w => mid + 1 <= w
          <6> SUFFICES ASSUME lo <= w, w <= mid PROVE FALSE
            BY <4>1
          <6>1. w + 1 \in 1 .. n /\ keys[w + 1] = key
            BY <1>1, <1>2
          <6>2. w # mid
            BY <4>2, <4>5, <6>1
          <6>3. w + 1 < mid + 1
            BY <4>1, <6>2
          <6>4. keys[w + 1] < keys[mid + 1]
            BY <1>1, <4>2, <6>1, <6>3
          <6> QED
            BY <4>2, <4>5, <6>1, <6>4
        <5>2. mid + 1 <= w => lo <= w
          BY <4>1
        <5>3. ~(keys[mid + 1] = key)
          BY <4>2, <4>5
        <5> QED
          BY <3>2, <3>4, <4>1, <4>3, <4>5, <5>1, <5>2, <5>3, SMTT(60) DEF mid
      <4>6. CASE keys[mid + 1] > key
        <5>1. w <= hi => w <= mid - 1 \/ w < lo
          <6> SUFFICES ASSUME w <= hi, mid <= w PROVE FALSE
            BY <4>1
          <6>1. w + 1 \in 1 .. n /\ keys[w + 1] = key
            BY <1>1, <1>2, <4>1
          <6>2. w # mid
            BY <4>2, <4>6, <6>1
          <6>3. mid + 1 < w + 1
            BY <4>1, <6>2
          <6>4. keys[mid + 1] < keys[w + 1]
            BY <1>1, <4>2, <6>1, <6>3
          <6> QED
            BY <4>2, <4>6, <6>1, <6>4
        <5>2. w <= mid - 1 => w <= hi
          BY <4>1
        <5>3. ~(keys[mid + 1] = key) /\ ~(keys[mid + 1] < key)
          BY <4>2, <4>6
        <5> QED
          BY <3>2, <3>4, <4>1, <4>3, <4>6, <5>1, <5>2, <5>3 DEF mid
      <4> QED
        BY <4>2, <4>4, <4>5, <4>6
    <3> HIDE DEF g
    <3> QED
      BY <3>3, <3>4
  <2>2. g = [r \in Ranges(n) |-> g[r]]
    OBVIOUS
  <2> HIDE DEF g
  <2> QED
    BY <2>1, <2>2, ZenonT(60) DEF Halves
<1>5. Search(keys, key) = (CHOOSE f : Halves(f, keys, key))[<<0, n - 1>>]
  BY DEF Search, Halves, Ranges
<1>6. Halves(CHOOSE f : Halves(f, keys, key), keys, key)
  BY <1>4
<1>7. Search(keys, key) = g[<<0, n - 1>>]
  BY <1>4, <1>5, <1>6, HalvesUnique
<1>8. Search(keys, key) = IF 0 <= w /\ w <= n - 1 THEN <<w>> ELSE <<>>
  <2>1. <<0, n - 1>> \in Ranges(n)
    BY <1>1 DEF Ranges
  <2> QED
    BY <1>7, <2>1
<1> HIDE DEF g, n
<1> QED
  BY <1>1, <1>2, <1>3, <1>8

\* The place of k among the members of S.
Smaller(S, k) == {j \in S : j < k}

\* Places are distinct, and fill 0 .. n - 1.
LEMMA PlacesFill ==
    ASSUME NEW S \in SUBSET Int, IsFiniteSet(S)
    PROVE  /\ Cardinality(S) \in Nat
           /\ \A k \in S : Cardinality(Smaller(S, k)) \in 0 .. Cardinality(S) - 1
           /\ \A a, b \in S : a < b => Cardinality(Smaller(S, a)) < Cardinality(Smaller(S, b))
           /\ \A m \in 0 .. Cardinality(S) - 1 : \E k \in S : Cardinality(Smaller(S, k)) = m
<1> DEFINE n == Cardinality(S)
           place == [k \in S |-> Cardinality(Smaller(S, k))]
<1>1. n \in Nat
  BY FS_CardinalityType
<1>2. \A k \in S : IsFiniteSet(Smaller(S, k)) /\ Cardinality(Smaller(S, k)) \in Nat
  <2> TAKE k \in S
  <2>1. Smaller(S, k) \in SUBSET S
    BY DEF Smaller
  <2>2. IsFiniteSet(Smaller(S, k))
    BY <2>1, FS_Subset
  <2> QED
    BY <2>2, FS_CardinalityType
<1>3. ASSUME NEW a \in S, NEW T \in SUBSET S, Smaller(S, a) \cup {a} \subseteq T
      PROVE  Cardinality(Smaller(S, a)) < Cardinality(T)
  <2>1. a \notin Smaller(S, a)
    BY DEF Smaller
  <2>2. Cardinality(Smaller(S, a) \cup {a}) = Cardinality(Smaller(S, a)) + 1
    BY <1>2, <2>1, FS_AddElement
  <2>3. IsFiniteSet(T)
    BY FS_Subset
  <2>4. Cardinality(Smaller(S, a) \cup {a}) <= Cardinality(T) /\ Cardinality(T) \in Nat
    BY <1>3, <2>3, FS_Subset, FS_CardinalityType
  <2> QED
    BY <1>2, <2>2, <2>4
<1>4. \A k \in S : Cardinality(Smaller(S, k)) \in 0 .. n - 1
  <2> TAKE k \in S
  <2>1. Smaller(S, k) \cup {k} \subseteq S
    BY DEF Smaller
  <2>2. Cardinality(Smaller(S, k)) < n
    BY <1>3, <2>1
  <2> QED
    BY <1>1, <1>2, <2>2
<1>5. ASSUME NEW a \in S, NEW b \in S, a < b
      PROVE  Cardinality(Smaller(S, a)) < Cardinality(Smaller(S, b))
  <2>1. Smaller(S, a) \cup {a} \subseteq Smaller(S, b) /\ Smaller(S, b) \in SUBSET S
    <3>1. \A j \in S : j < a => j < b
      BY <1>5
    <3> QED
      BY <1>5, <3>1 DEF Smaller
  <2> QED
    BY <1>3, <2>1
<1>6. place \in Injection(S, 0 .. n - 1)
  <2>1. place \in [S -> 0 .. n - 1]
    BY <1>4
  <2>2. ASSUME NEW a \in S, NEW b \in S, place[a] = place[b] PROVE a = b
    <3>1. ~(a < b) /\ ~(b < a)
      BY <1>2, <1>5, <2>2
    <3> QED
      BY <3>1
  <2> HIDE DEF place
  <2> QED
    BY <2>1, <2>2 DEF Injection, IsInjective
<1>7. IsFiniteSet(0 .. n - 1) /\ Cardinality(0 .. n - 1) = n
  <2>1. IsFiniteSet(0 .. n - 1) /\ Cardinality(0 .. n - 1) = IF 0 > n - 1 THEN 0 ELSE n - 1 - 0 + 1
    BY <1>1, FS_Interval, SMTT(60)
  <2> QED
    BY <1>1, <2>1
<1>8. place \in Surjection(S, 0 .. n - 1)
  <2> HIDE DEF place
  <2> QED
    BY <1>6, <1>7, FS_Injection
<1>9. ASSUME NEW m \in 0 .. n - 1 PROVE \E k \in S : Cardinality(Smaller(S, k)) = m
  <2>1. PICK k \in S : place[k] = m
    BY <1>8 DEF Surjection
  <2> QED
    BY <2>1
<1> QED
  BY <1>1, <1>4, <1>5, <1>9

\* Listed: q holds the members of S in ascending order.
Listed(q, S) ==
    /\ q \in [1 .. Cardinality(S) -> S]
    /\ \A i, j \in DOMAIN q : i < j => q[i] < q[j]

\* A finite set of keys has such a list.
LEMMA ListExists ==
    ASSUME NEW S \in SUBSET Int, IsFiniteSet(S)
    PROVE  \E q \in [1 .. Cardinality(S) -> S] : Listed(q, S)
<1> DEFINE n == Cardinality(S)
           q == [i \in 1 .. n |-> CHOOSE k \in S : Cardinality(Smaller(S, k)) = i - 1]
<1>1. n \in Nat
  BY PlacesFill
<1>2. \A i \in 1 .. n : q[i] \in S /\ Cardinality(Smaller(S, q[i])) = i - 1
  <2> TAKE i \in 1 .. n
  <2>1. i - 1 \in 0 .. n - 1
    BY <1>1
  <2>2. \E k \in S : Cardinality(Smaller(S, k)) = i - 1
    BY <2>1, PlacesFill
  <2> QED
    BY <2>2
<1>3. q \in [1 .. n -> S]
  BY <1>2
<1>4. ASSUME NEW i \in 1 .. n, NEW j \in 1 .. n, i < j PROVE q[i] < q[j]
  <2>1. q[i] \in S /\ q[j] \in S /\ q[i] \in Int /\ q[j] \in Int
    BY <1>2
  <2>2. /\ Cardinality(Smaller(S, q[i])) = i - 1
        /\ Cardinality(Smaller(S, q[j])) = j - 1
    BY <1>2
  <2> HIDE DEF q
  <2>3. q[i] # q[j]
    BY <1>1, <1>4, <2>2
  <2>4. ~(q[j] < q[i])
    BY <1>1, <1>4, <2>1, <2>2, PlacesFill
  <2> QED
    BY <2>1, <2>3, <2>4
<1> HIDE DEF q
<1> QED
  BY <1>3, <1>4 DEF Listed

\* It holds every key, and before each of them all smaller ones.
LEMMA ListPlaces ==
    ASSUME NEW S \in SUBSET Int, IsFiniteSet(S), NEW q, Listed(q, S)
    PROVE  /\ \A k \in S : \E i \in DOMAIN q : q[i] = k
           /\ \A i \in DOMAIN q : Cardinality(Smaller(S, q[i])) = i - 1
<1> DEFINE n == Cardinality(S)
<1>1. n \in Nat /\ q \in [1 .. n -> S] /\ DOMAIN q = 1 .. n
      /\ \A i, j \in 1 .. n : i < j => q[i] < q[j]
  BY PlacesFill DEF Listed
<1>2. \A i \in 1 .. n : q[i] \in S /\ q[i] \in Int
  BY <1>1
<1>3. IsFiniteSet(1 .. n) /\ Cardinality(1 .. n) = n
  <2>1. IsFiniteSet(1 .. n) /\ Cardinality(1 .. n) = IF 1 > n THEN 0 ELSE n - 1 + 1
    BY <1>1, FS_Interval, SMTT(60)
  <2> QED
    BY <1>1, <2>1
<1>4. q \in Injection(1 .. n, S)
  <2>1. ASSUME NEW i \in 1 .. n, NEW j \in 1 .. n, q[i] = q[j] PROVE i = j
    <3>1. ~(i < j) /\ ~(j < i)
      BY <1>1, <1>2, <2>1
    <3> QED
      BY <3>1
  <2> QED
    BY <1>1, <2>1 DEF Injection, IsInjective
<1>5. q \in Surjection(1 .. n, S)
  BY <1>3, <1>4, FS_Injection
<1>6. \A k \in S : \E i \in 1 .. n : q[i] = k
  BY <1>5 DEF Surjection
<1>7. ASSUME NEW i \in 1 .. n PROVE Cardinality(Smaller(S, q[i])) = i - 1
  <2> DEFINE A == 1 .. i - 1
             r == [m \in A |-> q[m]]
             B == Smaller(S, q[i])
  <2>1. IsFiniteSet(A) /\ Cardinality(A) = i - 1
    <3>1. IsFiniteSet(A) /\ Cardinality(A) = IF 1 > i - 1 THEN 0 ELSE (i - 1) - 1 + 1
      BY FS_Interval
    <3> QED
      BY <3>1
  <2>2. \A m \in A : m \in 1 .. n /\ m < i
    BY <1>1
  <2>3. r \in [A -> B]
    BY <1>1, <1>2, <2>2 DEF Smaller
  <2>4. \A k \in B : \E m \in A : r[m] = k
    <3> TAKE k \in B
    <3>1. PICK m \in 1 .. n : q[m] = k
      BY <1>6 DEF Smaller
    <3>2. q[m] < q[i] /\ q[m] \in Int /\ q[i] \in Int
      BY <1>2, <3>1 DEF Smaller
    <3>3. m < i
      BY <1>1, <3>2
    <3>4. m \in A
      BY <1>1, <3>3
    <3> QED
      BY <3>1, <3>4
  <2>5. \A m, l \in A : r[m] = r[l] => m = l
    BY <1>4, <2>2 DEF Injection, IsInjective
  <2> HIDE DEF r, B
  <2>6. r \in Bijection(A, B)
    BY <2>3, <2>4, <2>5 DEF Bijection, Injection, Surjection, IsInjective
  <2>7. ExistsBijection(A, B)
    BY <2>6 DEF ExistsBijection
  <2>8. Cardinality(B) = Cardinality(A)
    BY <2>1, <2>7, FS_Bijection
  <2> QED
    BY <2>1, <2>8 DEF B
<1> QED
  BY <1>1, <1>6, <1>7

\* The keys of a content, in order.
LEMMA KeysInOrder ==
    ASSUME NEW s \in Contents
    PROVE  /\ Stored(s) \in SUBSET Int /\ Stored(s) \subseteq Keys /\ IsFiniteSet(Stored(s))
           /\ Listed(KeySeq(s), Stored(s))
<1>1. Stored(s) \in SUBSET Int /\ Stored(s) \in SUBSET Keys
  BY DEF Stored, Contents
<1>2. IsFiniteSet(Stored(s))
  BY <1>1, FS_Subset
<1>3. \E q \in [1 .. Cardinality(Stored(s)) -> Stored(s)] : Listed(q, Stored(s))
  BY <1>1, <1>2, ListExists
<1>4. Listed(KeySeq(s), Stored(s))
  BY <1>3 DEF KeySeq, Listed
<1> QED
  BY <1>1, <1>2, <1>4

\* Entries are entries of the map.
LEMMA EntriesType ==
    ASSUME NEW s \in Contents
    PROVE  Entries(s) \in Seq(Keys \X Values)
<1> DEFINE n == Cardinality(Stored(s))
           e == [i \in 1 .. n |-> <<KeySeq(s)[i], s[KeySeq(s)[i]]>>]
<1>1. n \in Nat /\ KeySeq(s) \in [1 .. n -> Stored(s)]
  BY KeysInOrder, FS_CardinalityType DEF Listed
<1>2. \A k \in Stored(s) : k \in Keys /\ s[k] \in Values
  BY DEF Stored, Contents
<1>3. e \in [1 .. n -> Keys \X Values]
  BY <1>1, <1>2
<1>4. Entries(s) = e
  BY <1>1 DEF Entries
<1> HIDE DEF e
<1> QED
  BY <1>1, <1>3, <1>4

\* RankOfKey finds what is stored at its position.
LEMMA RankFinds ==
    ASSUME NEW s \in Contents, NEW k \in Keys
    PROVE  Search(KeySeq(s), k) =
             IF k \in Stored(s) THEN <<Cardinality({j \in Stored(s) : j < k})>> ELSE <<>>
<1> DEFINE S == Stored(s)
           q == KeySeq(s)
           n == Cardinality(S)
<1>1. S \in SUBSET Int /\ IsFiniteSet(S) /\ Listed(q, S) /\ n \in Nat /\ k \in Int
  BY KeysInOrder, FS_CardinalityType
<1>2. q \in [1 .. n -> S] /\ q \in [1 .. n -> Int] /\ DOMAIN q = 1 .. n
  BY <1>1 DEF Listed
<1>3. q \in Seq(Int) /\ \A i, j \in DOMAIN q : i < j => q[i] < q[j]
  BY <1>1, <1>2 DEF Listed
<1>4. /\ \A i \in DOMAIN q : q[i] = k => Search(q, k) = <<i - 1>>
      /\ (\A i \in DOMAIN q : q[i] # k) => Search(q, k) = <<>>
  BY <1>1, <1>3, SearchFinds
<1>5. CASE k \in S
  <2>1. PICK i \in DOMAIN q : q[i] = k
    BY <1>1, <1>5, ListPlaces
  <2>2. Cardinality(Smaller(S, k)) = i - 1
    BY <1>1, <2>1, ListPlaces
  <2> QED
    BY <1>4, <1>5, <2>1, <2>2 DEF Smaller
<1>6. CASE k \notin S
  <2>1. \A i \in DOMAIN q : q[i] # k
    BY <1>2, <1>6
  <2> QED
    BY <1>4, <1>6, <2>1
<1> QED
  BY <1>5, <1>6

-----------------------------------------------------------------------------
(* What a critical section leaves behind.                                  *)

LEMMA FinalType ==
    ASSUME NEW q \in Requests, NEW k \in Touched(q)
    PROVE  Final(q, k) \in Values
<1> DEFINE S == {i \in DOMAIN q.puts : q.puts[i][1] = k}
<1>1. q.puts \in Seq(Keys \X Values)
  BY DEF Requests
<1>2. S \in SUBSET (1 .. Len(q.puts)) /\ S # {} /\ Len(q.puts) \in Nat
  BY <1>1 DEF Touched
<1>3. \E i \in S : \A j \in S : j <= i
  BY <1>2, GreatestExists
<1> DEFINE P(i) == q.puts[i][1] = k /\ \A j \in DOMAIN q.puts : q.puts[j][1] = k => j <= i
<1>4. \E i \in DOMAIN q.puts : P(i)
  BY <1>3
<1> DEFINE last == CHOOSE i \in DOMAIN q.puts : P(i)
<1>5. last \in DOMAIN q.puts
  BY <1>4
<1> HIDE DEF last
<1>6. q.puts[last] \in Keys \X Values
  <2>1. DOMAIN q.puts = 1 .. Len(q.puts)
    BY <1>1
  <2> QED
    BY <1>1, <1>5, <2>1
<1>7. q.puts[last][2] \in Values
  BY <1>6
<1> QED
  BY <1>7 DEF Final, last

LEMMA DoesFields == \A s, r : Does(s, r).s = s /\ Does(s, r).ret = r
BY DEF Does

\* One key gets a new value, or some keys get theirs.
LEMMA PointUpdate ==
    ASSUME NEW s \in Contents, NEW k, NEW v \in Values \cup {none}
    PROVE  [s EXCEPT ![k] = v] \in Contents
BY DEF Contents

LEMMA OutcomeType ==
    ASSUME NEW q \in Requests, q.kind \notin Composite, NEW s \in Contents
    PROVE  Outcome(q, s).s \in Contents
<1> DEFINE Opts == Values \cup {none}
<1>1. /\ q.key \in Keys /\ q.val \in Values /\ q.fn \in [Opts -> Opts]
      /\ q.kind \in Kinds
  BY DEF Requests
<1>2. s[q.key] \in Opts /\ DOMAIN s = Keys /\ \A k \in Keys : s[k] \in Opts
  BY <1>1 DEF Contents
<1>3. q.fn[none] \in Opts /\ \A k \in Keys : q.fn[s[k]] \in Opts
  BY <1>1, <1>2
<1> DEFINE To(v) == [s EXCEPT ![q.key] = v]
<1>points. /\ s \in Contents
      /\ To(q.val) \in Contents /\ To(none) \in Contents
      /\ To(q.fn[none]) \in Contents /\ To(q.fn[s[q.key]]) \in Contents
  BY <1>1, <1>2, <1>3, PointUpdate
<1>4. CASE q.kind = "put"
  BY <1>4, <1>points, DoesFields DEF Outcome, Put
<1>5. CASE q.kind = "putIfAbsent"
  <2>1. Outcome(q, s) = PutIfAbsent(q, s)
    BY <1>5 DEF Outcome
  <2> QED
    BY <2>1, <1>points, DoesFields DEF PutIfAbsent
<1>6. CASE q.kind = "putSeq"
  <2>1. Outcome(q, s).s = [k \in DOMAIN s |-> IF k \in Touched(q) THEN Final(q, k) ELSE s[k]]
    BY <1>6, DoesFields DEF Outcome, PutSeq
  <2> QED
    BY <2>1, <1>2, FinalType DEF Contents
<1>7. CASE q.kind = "replaceEntries"
  <2>1. Outcome(q, s).s = [k \in DOMAIN s |-> IF k \in Touched(q) THEN Final(q, k) ELSE none]
    BY <1>7, DoesFields DEF Outcome, ReplaceEntries
  <2> QED
    BY <2>1, <1>2, FinalType DEF Contents
<1>8. CASE q.kind = "remove"
  <2>1. Outcome(q, s) = Remove(q, s)
    BY <1>8 DEF Outcome
  <2> QED
    BY <2>1, <1>points, DoesFields DEF Remove
<1>9. CASE q.kind = "removeIf"
  <2>1. Outcome(q, s) = RemoveIf(q, s)
    BY <1>9 DEF Outcome
  <2> QED
    BY <2>1, <1>points, DoesFields DEF RemoveIf
<1>10. CASE q.kind = "removeAll"
  <2>1. Outcome(q, s).s = [k \in DOMAIN s |-> IF k \in q.keys THEN none ELSE s[k]]
    BY <1>10, DoesFields DEF Outcome, RemoveAll
  <2> QED
    BY <2>1, <1>2 DEF Contents
<1>11. CASE q.kind = "compute"
  <2>1. Outcome(q, s) = Compute(q, s)
    BY <1>11 DEF Outcome
  <2> QED
    BY <2>1, <1>points, DoesFields DEF Compute
<1>12. CASE q.kind = "computeIfAbsent"
  <2>1. Outcome(q, s) = ComputeIfAbsent(q, s)
    BY <1>12 DEF Outcome
  <2> QED
    BY <2>1, <1>points, DoesFields DEF ComputeIfAbsent
<1>13. CASE q.kind = "computeIfPresent"
  <2>1. Outcome(q, s) = ComputeIfPresent(q, s)
    BY <1>13 DEF Outcome
  <2> QED
    BY <2>1, <1>points, DoesFields DEF ComputeIfPresent, Compute
<1>14. CASE q.kind = "merge"
  <2>1. Outcome(q, s) = Merge(q, s)
    BY <1>14 DEF Outcome
  <2> QED
    BY <2>1, <1>points, DoesFields DEF Merge, Compute
<1>15. CASE q.kind = "replace"
  <2>1. Outcome(q, s) = Replace(q, s)
    BY <1>15 DEF Outcome
  <2> QED
    BY <2>1, <1>points, DoesFields DEF Replace, Put
<1>14a. CASE q.kind = "replaceIf"
  <2>1. Outcome(q, s) = ReplaceIf(q, s)
    BY <1>14a DEF Outcome
  <2> QED
    BY <2>1, <1>points, DoesFields DEF ReplaceIf
<1>17. CASE q.kind = "replaceAll"
  <2>1. Outcome(q, s).s = [k \in DOMAIN s |-> IF s[k] = none THEN none ELSE q.fn[s[k]]]
    BY <1>17, DoesFields DEF Outcome, ReplaceAll
  <2> QED
    BY <2>1, <1>2, <1>3 DEF Contents
<1>18. CASE q.kind = "clear"
  <2>1. Outcome(q, s).s = [k \in DOMAIN s |-> none]
    BY <1>18, DoesFields DEF Outcome, Clear
  <2> QED
    BY <2>1 DEF Contents
<1>19. CASE q.kind = "popFirst"
  <2>1. Outcome(q, s).s = [k \in DOMAIN s |-> IF k \in Smallest(Stored(s)) THEN none ELSE s[k]]
    BY <1>19, DoesFields DEF Outcome, PopFirst
  <2> QED
    BY <2>1, <1>2 DEF Contents
<1>20. CASE q.kind = "popLast"
  <2>1. Outcome(q, s).s = [k \in DOMAIN s |-> IF k \in Largest(Stored(s)) THEN none ELSE s[k]]
    BY <1>20, DoesFields, SMTT(60) DEF Outcome, PopLast
  <2> QED
    BY <2>1, <1>2 DEF Contents
<1>21. CASE q.kind \in Readers
  BY <1>21, DoesFields
     DEF Readers, Outcome, Get, First, LastOf, Floor, Ceiling, Lower, Higher, Rank, Scan
<1> QED
  BY <1>1, <1>4, <1>5, <1>6, <1>7, <1>8, <1>9, <1>10, <1>11, <1>12, <1>13, <1>14, <1>15,
     <1>14a, <1>17, <1>18, <1>19, <1>20, <1>21 DEF Kinds, Guarded, Plain, Composite

\* What a callback decides concerns the entries it was told of only.
Concerned(q, s) == IF q.kind = "replaceAll" THEN Stored(s) ELSE {q.key}

LEMMA CallbackIsLocal ==
    ASSUME NEW q \in Requests, NEW s \in Contents, Asks(q, s)
    PROVE  [k \in Keys |-> IF k \in Concerned(q, s) THEN Outcome(q, s).s[k] ELSE s[k]]
             = Outcome(q, s).s
<1>1. q.kind \in Guarded /\ q.key \in Keys /\ DOMAIN s = Keys
  BY DEF Asks, Requests, Guarded, Contents
<1>2. Outcome(q, s).s \in Contents
  BY <1>1, OutcomeType DEF Guarded, Composite
<1>3. ASSUME NEW k \in Keys, k \notin Concerned(q, s)
      PROVE  Outcome(q, s).s[k] = s[k]
  <2>1. CASE q.kind = "replaceAll"
    <3>1. Outcome(q, s).s = [j \in DOMAIN s |-> IF s[j] = none THEN none ELSE q.fn[s[j]]]
      BY <2>1, DoesFields DEF Outcome, ReplaceAll
    <3> QED
      BY <1>1, <1>3, <2>1, <3>1 DEF Concerned, Stored
  <2> DEFINE To(v) == [s EXCEPT ![q.key] = v]
  <2> DEFINE Changed == {s, To(q.val), To(none), To(q.fn[none]), To(q.fn[s[q.key]])}
  <2>2. q.kind # "replaceAll" => \A t \in Changed : t[k] = s[k]
    BY <1>1, <1>3 DEF Concerned
  <2>3. CASE q.kind = "compute"
    <3>1. Outcome(q, s) = Compute(q, s)
      BY <2>3 DEF Outcome
    <3>2. Outcome(q, s).s \in Changed
      BY <2>3, <3>1, DoesFields DEF Compute
    <3> QED
      BY <2>2, <2>3, <3>2
  <2>4. CASE q.kind = "computeIfAbsent"
    <3>1. Outcome(q, s) = ComputeIfAbsent(q, s)
      BY <2>4 DEF Outcome
    <3>2. Outcome(q, s).s \in Changed
      BY <2>4, <3>1, DoesFields DEF ComputeIfAbsent
    <3> QED
      BY <2>2, <2>4, <3>2
  <2>5. CASE q.kind = "computeIfPresent"
    <3>1. Outcome(q, s) = ComputeIfPresent(q, s)
      BY <2>5 DEF Outcome
    <3>2. Outcome(q, s).s \in Changed
      BY <2>5, <3>1, DoesFields DEF ComputeIfPresent, Compute
    <3> QED
      BY <2>2, <2>5, <3>2
  <2>6. CASE q.kind = "merge"
    <3>1. Outcome(q, s) = Merge(q, s)
      BY <2>6 DEF Outcome
    <3>2. Outcome(q, s).s \in Changed
      BY <2>6, <3>1, DoesFields DEF Merge, Compute
    <3> QED
      BY <2>2, <2>6, <3>2
  <2>7. CASE q.kind = "removeIf"
    <3>1. Outcome(q, s) = RemoveIf(q, s)
      BY <2>7 DEF Outcome
    <3>2. Outcome(q, s).s \in Changed
      BY <2>7, <3>1, DoesFields DEF RemoveIf
    <3> QED
      BY <2>2, <2>7, <3>2
  <2>8. CASE q.kind = "replaceIf"
    <3>1. Outcome(q, s) = ReplaceIf(q, s)
      BY <2>8 DEF Outcome
    <3>2. Outcome(q, s).s \in Changed
      BY <2>8, <3>1, DoesFields DEF ReplaceIf
    <3> QED
      BY <2>2, <2>8, <3>2
  <2> QED
    BY <1>1, <2>1, <2>3, <2>4, <2>5, <2>6, <2>7, <2>8 DEF Guarded
<1>4. DOMAIN Outcome(q, s).s = Keys /\ Outcome(q, s).s = [k \in Keys |-> Outcome(q, s).s[k]]
  BY <1>2 DEF Contents
<1> QED
  BY <1>3, <1>4

-----------------------------------------------------------------------------
(* The inductive invariant.  TypeOK says who holds the lock but not that a *)
(* writer got in after the last reader left, nor which lock a goroutine is *)
(* waiting for.                                                            *)

\* Who waits for the read lock, and who for the write lock.
RightLock ==
    \A p \in Procs : /\ pc[p] = "rlock" => sub[p].kind \in Readers
                     /\ pc[p] \in {"lock", "drain"} => sub[p].kind \notin Readers

InsideACall ==
    /\ DOMAIN ret = Procs
    /\ \A p \in Procs : pc[p] # "idle" =>
         sub[p] \in Requests /\ sub[p].kind \notin Composite /\ call[p] \in Requests

ReadersAreOut == \A p \in Procs : Writing(p) => mu.readers = {}

CallbackIsFresh == \A p \in Procs : pc[p] = "callback" => heard[p] = tm /\ Asks(sub[p], tm)

IInv == TypeOK /\ RightLock /\ InsideACall /\ ReadersAreOut /\ CallbackIsFresh

Types ==
    /\ tm \in Contents
    /\ mu \in Locks(Procs)
    /\ pc \in [Procs -> {"idle", "rlock", "lock", "drain", "body", "callback", "unlock",
                         "between", "return"}]
    /\ call \in [Procs -> Requests \cup {none}]
    /\ sub \in [Procs -> Requests \cup {none}]
    /\ todo \in [Procs -> SUBSET Requests]
    /\ heard \in [Procs -> Contents]

LEMMA InitInvariant == Init => IInv
<1> SUFFICES ASSUME Init PROVE IInv
  OBVIOUS
<1>1. Types
  BY DEF Init, Types, Locks, Unlocked, Contents
<1>2. /\ \A p \in Procs : pc[p] = "idle" /\ ~Inside(p) /\ ~Writing(p)
      /\ mu.readers = {} /\ mu.writer = none
  BY DEF Init, Inside, Writing, Unlocked
<1>3. TypeOK
  BY <1>1, <1>2 DEF TypeOK, Types
<1> QED
  BY <1>2, <1>3 DEF IInv, RightLock, InsideACall, ReadersAreOut, CallbackIsFresh, Init

\* Who writes is alone inside.
LEMMA Alone ==
    ASSUME IInv, NEW p \in Procs, NEW q \in Procs, Writing(p), Inside(q)
    PROVE  p = q
<1>1. mu.writer = p /\ mu.readers = {}
  BY DEF IInv, TypeOK, ReadersAreOut
<1>2. Writing(q)
  BY <1>1 DEF IInv, TypeOK
<1> QED
  BY <1>1, <1>2 DEF IInv, TypeOK

LEMMA CallbackWrites ==
    ASSUME IInv, NEW p \in Procs, pc[p] = "callback"
    PROVE  Writing(p)
BY DEF IInv, CallbackIsFresh, Asks, Writing, Inside, Guarded, Readers

-----------------------------------------------------------------------------
(* Types.                                                                  *)

LEMMA BeginTypes ==
    ASSUME IInv, NEW p \in Procs, NEW q \in Requests, Begin(p, q)
    PROVE  /\ sub' \in [Procs -> Requests \cup {none}] /\ sub'[p] = q
           /\ pc' = [pc EXCEPT ![p] = IF q.kind \in Readers THEN "rlock" ELSE "lock"]
           /\ pc'[p] = IF q.kind \in Readers THEN "rlock" ELSE "lock"
           /\ pc' \in [Procs -> {"idle", "rlock", "lock", "drain", "body", "callback", "unlock",
                                 "between", "return"}]
BY DEF IInv, TypeOK, Begin, Goto

LEMMA Rekind ==
    ASSUME NEW q \in Requests, NEW k \in Kinds
    PROVE  [q EXCEPT !.kind = k] \in Requests /\ [q EXCEPT !.kind = k].kind = k
BY DEF Requests

LEMMA StepTypes == IInv /\ [Next]_vars => Types'
<1> SUFFICES ASSUME IInv, [Next]_vars PROVE Types'
  OBVIOUS
<1> USE DEF Types
<1>t. Types
  BY DEF IInv, TypeOK
<1>1. CASE UNCHANGED vars \/ Terminated
  BY <1>1, <1>t DEF vars, shared, Terminated
<1>2. ASSUME NEW p \in Procs, Call(p) PROVE Types'
  <2>1. PICK q \in todo[p] :
          /\ todo' = [todo EXCEPT ![p] = @ \ {q}]
          /\ call' = [call EXCEPT ![p] = q]
          /\ Begin(p, IF q.kind \in Composite THEN [q EXCEPT !.kind = "scan"] ELSE q)
    BY <1>2 DEF Call
  <2>2. q \in Requests
    BY <1>t, <2>1
  <2>3. (IF q.kind \in Composite THEN [q EXCEPT !.kind = "scan"] ELSE q) \in Requests
    BY <2>2, Rekind DEF Kinds, Readers
  <2>4. sub' \in [Procs -> Requests \cup {none}]
    BY <2>1, <2>3, BeginTypes
  <2>5. pc' \in [Procs -> {"idle", "rlock", "lock", "drain", "body", "callback", "unlock",
                           "between", "return"}]
    BY <2>1, <2>3, BeginTypes
  <2>6. UNCHANGED <<tm, mu, heard>>
    BY <1>2 DEF Call, shared
  <2> QED
    BY <1>t, <2>1, <2>2, <2>4, <2>5, <2>6
<1>3. ASSUME NEW p \in Procs, RLock(p) \/ Lock(p) \/ Drain(p) PROVE Types'
  BY <1>3, <1>t DEF RLock, Lock, Drain, Goto, shared, Locks, RLocked, Announced
<1>4. ASSUME NEW p \in Procs, Body(p) PROVE Types'
  <2>1. sub[p] \in Requests /\ sub[p].kind \notin Composite
    BY <1>4 DEF Body, IInv, InsideACall
  <2>2. tm' \in Contents
    BY <1>4, <1>t, <2>1, OutcomeType DEF Body
  <2> QED
    BY <1>4, <1>t, <2>2 DEF Body, Goto
<1>5. ASSUME NEW p \in Procs, Ask(p) \/ Panic(p) \/ Leave(p) PROVE Types'
  BY <1>5, <1>t DEF Ask, Panic, Leave, Goto, shared
<1>6. ASSUME NEW p \in Procs, Answer(p) PROVE Types'
  <2>1. sub[p] \in Requests /\ sub[p].kind \notin Composite /\ heard[p] \in Contents
    BY <1>6, <1>t DEF Answer, IInv, InsideACall
  <2>2. Outcome(sub[p], heard[p]).s \in Contents
    BY <2>1, OutcomeType
  <2>3. tm' \in Contents
    BY <1>6, <1>t, <2>2 DEF Answer, Contents
  <2> QED
    BY <1>6, <1>t, <2>3 DEF Answer, Goto
<1>7. ASSUME NEW p \in Procs, Unlock(p) PROVE Types'
  BY <1>7, <1>t DEF Unlock, Goto, Locks, RUnlocked, Released
<1>8. ASSUME NEW p \in Procs, Apply(p) PROVE Types'
  <2>1. call[p] \in Requests /\ heard[p] \in Contents
    BY <1>8, <1>t DEF Apply, IInv, InsideACall
  <2> DEFINE q == IF call[p].kind = "removeFunc"
                  THEN [call[p] EXCEPT !.kind = "removeAll", !.keys = Accepted(p)]
                  ELSE [call[p] EXCEPT !.kind = "putSeq", !.puts = Entries(heard[p])]
  <2>2. Begin(p, q) /\ UNCHANGED <<tm, mu, call, todo, heard>>
    BY <1>8 DEF Apply, shared
  <2>3. q \in Requests
    BY <2>1, EntriesType, ZenonT(60) DEF Requests, Accepted, Kinds, Plain
  <2> HIDE DEF q
  <2>4. sub' \in [Procs -> Requests \cup {none}]
    BY <2>2, <2>3, BeginTypes
  <2>5. pc' \in [Procs -> {"idle", "rlock", "lock", "drain", "body", "callback", "unlock",
                           "between", "return"}]
    BY <2>2, <2>3, BeginTypes
  <2> QED
    BY <1>t, <2>2, <2>4, <2>5
<1>9. ASSUME NEW p \in Procs, NothingToRemove(p) \/ Return(p) PROVE Types'
  BY <1>9, <1>t DEF NothingToRemove, Return, Done, Goto, shared
<1> QED
  BY <1>1, <1>2, <1>3, <1>4, <1>5, <1>6, <1>7, <1>8, <1>9 DEF Next, Step

-----------------------------------------------------------------------------
(* The lock.                                                               *)

LockHeld ==
    /\ mu.readers = {p \in Procs : Inside(p) /\ ~Writing(p)}
    /\ \A p \in Procs : mu.writer = p <=> (Writing(p) \/ pc[p] = "drain")

\* A step of p leaves the others where they are.
OthersStay(p) == \A q \in Procs \ {p} : pc'[q] = pc[q] /\ sub'[q] = sub[q]

LEMMA SameSection ==
    ASSUME IInv, NEW p \in Procs, OthersStay(p), mu' = mu,
           Inside(p)' <=> Inside(p), Writing(p)' <=> Writing(p),
           pc'[p] = "drain" <=> pc[p] = "drain"
    PROVE  LockHeld' /\ ReadersAreOut'
<1>1. \A q \in Procs : /\ Inside(q)' <=> Inside(q)
                       /\ Writing(q)' <=> Writing(q)
                       /\ pc'[q] = "drain" <=> pc[q] = "drain"
  BY DEF OthersStay, Inside, Writing
<1>2. LockHeld /\ ReadersAreOut
  BY DEF IInv, TypeOK, LockHeld
<1> QED
  BY <1>1, <1>2 DEF LockHeld, ReadersAreOut

LEMMA StepLock == IInv /\ [Next]_vars => LockHeld' /\ ReadersAreOut'
<1> SUFFICES ASSUME IInv, [Next]_vars PROVE LockHeld' /\ ReadersAreOut'
  OBVIOUS
<1>t. Types /\ LockHeld /\ ReadersAreOut /\ RightLock
  BY DEF IInv, TypeOK, Types, LockHeld
<1>1. CASE UNCHANGED vars \/ Terminated
  BY <1>1, <1>t DEF vars, shared, Terminated, LockHeld, ReadersAreOut, Inside, Writing
<1>2. ASSUME NEW p \in Procs, NEW q, Begin(p, q), pc[p] \in {"idle", "between"}, mu' = mu
      PROVE  LockHeld' /\ ReadersAreOut'
  <2>1. OthersStay(p) /\ pc'[p] \in {"rlock", "lock"}
    BY <1>2, <1>t DEF OthersStay, Begin, Goto, Types
  <2> QED
    BY <1>2, <2>1, SameSection DEF Inside, Writing
<1>3. ASSUME NEW p \in Procs, Call(p) \/ Apply(p) PROVE LockHeld' /\ ReadersAreOut'
  BY <1>2, <1>3 DEF Call, Apply, shared
<1>4. ASSUME NEW p \in Procs, Body(p) \/ Ask(p) \/ Answer(p) \/ Panic(p)
      PROVE  LockHeld' /\ ReadersAreOut'
  <2>1. OthersStay(p) /\ pc[p] \in {"body", "callback"} /\ pc'[p] \in {"callback", "unlock"}
        /\ UNCHANGED <<mu, sub>>
    BY <1>4, <1>t DEF OthersStay, Body, Ask, Answer, Panic, Goto, Types, shared
  <2> QED
    BY <2>1, SameSection DEF Inside, Writing
<1>5. ASSUME NEW p \in Procs, Leave(p) \/ NothingToRemove(p) \/ Return(p)
      PROVE  LockHeld' /\ ReadersAreOut'
  <2>1. OthersStay(p) /\ pc[p] \in {"between", "return"} /\ pc'[p] \in {"idle", "return"}
        /\ mu' = mu
    BY <1>5, <1>t DEF OthersStay, Leave, NothingToRemove, Return, Done, Goto, Types, shared
  <2> QED
    BY <2>1, SameSection DEF Inside, Writing
<1>6. ASSUME NEW p \in Procs, RLock(p) PROVE LockHeld' /\ ReadersAreOut'
  <2>1. /\ OthersStay(p) /\ pc[p] = "rlock" /\ pc'[p] = "body" /\ sub' = sub
        /\ sub[p].kind \in Readers
        /\ mu.writer = none /\ mu'.writer = mu.writer /\ mu'.readers = mu.readers \cup {p}
    BY <1>6, <1>t DEF OthersStay, RLock, Goto, Types, RightLock, MayRLock, RLocked, Locks
  <2>2. \A q \in Procs : q # p => (Inside(q)' <=> Inside(q)) /\ (Writing(q)' <=> Writing(q))
    BY <2>1 DEF OthersStay, Inside, Writing
  <2>3. Inside(p)' /\ ~Writing(p)' /\ \A q \in Procs : ~Writing(q) /\ pc[q] # "drain"
    BY <2>1, <1>t DEF Inside, Writing, LockHeld
  <2>4. \A q \in Procs : ~Writing(q)' /\ pc'[q] # "drain"
    BY <2>1, <2>2, <2>3 DEF OthersStay
  <2> QED
    BY <1>t, <2>1, <2>2, <2>3, <2>4 DEF LockHeld, ReadersAreOut
<1>7. ASSUME NEW p \in Procs, Lock(p) PROVE LockHeld' /\ ReadersAreOut'
  <2>1. /\ OthersStay(p) /\ pc[p] = "lock" /\ pc'[p] = "drain"
        /\ mu.writer = none /\ mu'.writer = p /\ mu'.readers = mu.readers
    BY <1>7, <1>t DEF OthersStay, Lock, Goto, Types, MayAnnounce, Announced, Locks
  <2>2. \A q \in Procs : (Inside(q)' <=> Inside(q)) /\ (Writing(q)' <=> Writing(q))
    BY <2>1 DEF OthersStay, Inside, Writing
  <2>3. \A q \in Procs : ~Writing(q) /\ pc[q] # "drain"
    BY <2>1, <1>t DEF LockHeld
  <2>4. \A q \in Procs \ {p} : pc'[q] # "drain"
    BY <2>1, <2>3 DEF OthersStay
  <2> QED
    BY <1>t, <2>1, <2>2, <2>3, <2>4 DEF LockHeld, ReadersAreOut
<1>8. ASSUME NEW p \in Procs, Drain(p) PROVE LockHeld' /\ ReadersAreOut'
  <2>1. /\ OthersStay(p) /\ pc[p] = "drain" /\ pc'[p] = "body" /\ sub' = sub
        /\ sub[p].kind \notin Readers /\ mu' = mu /\ mu.writer = p /\ mu.readers = {}
    BY <1>8, <1>t DEF OthersStay, Drain, Goto, Types, RightLock, Granted, shared
  <2>2. \A q \in Procs : q # p => /\ Inside(q)' <=> Inside(q)
                                  /\ Writing(q)' <=> Writing(q)
                                  /\ pc'[q] = "drain" <=> pc[q] = "drain"
    BY <2>1 DEF OthersStay, Inside, Writing
  <2>3. Inside(p)' /\ Writing(p)' /\ ~Inside(p)
    BY <2>1 DEF Inside, Writing
  <2> QED
    BY <1>t, <2>1, <2>2, <2>3 DEF LockHeld, ReadersAreOut
<1>9. ASSUME NEW p \in Procs, Unlock(p) PROVE LockHeld' /\ ReadersAreOut'
  <2>1. /\ OthersStay(p) /\ pc[p] = "unlock" /\ pc'[p] \in {"between", "return"} /\ sub' = sub
    BY <1>9, <1>t DEF OthersStay, Unlock, Goto, Types
  <2>2. \A q \in Procs : q # p => /\ Inside(q)' <=> Inside(q)
                                  /\ Writing(q)' <=> Writing(q)
                                  /\ pc'[q] = "drain" <=> pc[q] = "drain"
    BY <2>1 DEF OthersStay, Inside, Writing
  <2>3. Inside(p) /\ ~Inside(p)' /\ ~Writing(p)' /\ pc'[p] # "drain"
    BY <2>1 DEF Inside, Writing
  <2>4. CASE sub[p].kind \in Readers
    <3>1. ~Writing(p) /\ mu'.readers = mu.readers \ {p} /\ mu'.writer = mu.writer
      BY <1>9, <1>t, <2>4 DEF Unlock, Types, RUnlocked, Locks, Writing
    <3>2. mu.writer # p
      BY <1>t, <2>1, <3>1 DEF LockHeld
    <3> QED
      BY <1>t, <2>2, <2>3, <3>1, <3>2 DEF LockHeld, ReadersAreOut
  <2>5. CASE sub[p].kind \notin Readers
    <3>1. Writing(p) /\ mu'.readers = mu.readers /\ mu'.writer = none
      BY <1>9, <1>t, <2>3, <2>5 DEF Unlock, Types, Released, Locks, Writing
    <3>2. mu.writer = p /\ mu.readers = {}
      BY <1>t, <3>1 DEF LockHeld, ReadersAreOut
    <3>3. \A q \in Procs : q # p => ~Writing(q) /\ pc[q] # "drain"
      BY <1>t, <3>2 DEF LockHeld
    <3> QED
      BY <1>t, <2>2, <2>3, <3>1, <3>2, <3>3 DEF LockHeld, ReadersAreOut
  <2> QED
    BY <2>4, <2>5
<1> QED
  BY <1>1, <1>3, <1>4, <1>5, <1>6, <1>7, <1>8, <1>9 DEF Next, Step

-----------------------------------------------------------------------------
(* The calls and their callbacks.                                          *)

CallPart == RightLock /\ InsideACall

LEMMA BeginCall ==
    ASSUME IInv, NEW p \in Procs, NEW q \in Requests, q.kind \notin Composite, Begin(p, q),
           call'[p] \in Requests, \A r \in Procs \ {p} : call'[r] = call[r], DOMAIN ret' = Procs
    PROVE  CallPart'
<1>1. /\ sub'[p] = q
      /\ pc'[p] = IF q.kind \in Readers THEN "rlock" ELSE "lock"
      /\ OthersStay(p)
  BY DEF IInv, TypeOK, Begin, Goto, OthersStay
<1>2. RightLock'
  BY <1>1 DEF IInv, RightLock, OthersStay
<1>3. InsideACall'
  BY <1>1 DEF IInv, InsideACall, OthersStay
<1> QED
  BY <1>2, <1>3 DEF CallPart

LEMMA StepCall == IInv /\ [Next]_vars => CallPart'
<1> SUFFICES ASSUME IInv, [Next]_vars PROVE CallPart'
  OBVIOUS
<1>t. Types /\ RightLock /\ InsideACall
  BY DEF IInv, TypeOK, Types
<1>1. CASE UNCHANGED vars \/ Terminated
  BY <1>1, <1>t DEF vars, shared, Terminated, CallPart, RightLock, InsideACall
<1>2. ASSUME NEW p \in Procs, Call(p) PROVE CallPart'
  <2>1. PICK q \in todo[p] :
          /\ call' = [call EXCEPT ![p] = q]
          /\ Begin(p, IF q.kind \in Composite THEN [q EXCEPT !.kind = "scan"] ELSE q)
    BY <1>2 DEF Call
  <2>2. q \in Requests
    BY <1>t, <2>1 DEF Types
  <2>3. /\ (IF q.kind \in Composite THEN [q EXCEPT !.kind = "scan"] ELSE q) \in Requests
        /\ (IF q.kind \in Composite THEN [q EXCEPT !.kind = "scan"] ELSE q).kind \notin Composite
    BY <2>2, Rekind DEF Kinds, Readers, Composite
  <2>4. DOMAIN ret' = Procs /\ call'[p] = q /\ \A r \in Procs \ {p} : call'[r] = call[r]
    BY <1>2, <1>t, <2>1 DEF Call, InsideACall, Types
  <2> QED
    BY <2>1, <2>2, <2>3, <2>4, BeginCall
<1>3. ASSUME NEW p \in Procs, Apply(p) PROVE CallPart'
  <2>1. call[p] \in Requests /\ heard[p] \in Contents
    BY <1>3, <1>t DEF Apply, InsideACall, Types
  <2> DEFINE q == IF call[p].kind = "removeFunc"
                  THEN [call[p] EXCEPT !.kind = "removeAll", !.keys = Accepted(p)]
                  ELSE [call[p] EXCEPT !.kind = "putSeq", !.puts = Entries(heard[p])]
  <2>2. Begin(p, q) /\ call' = call
    BY <1>3, SMTT(60) DEF Apply
  <2>3. q \in Requests /\ q.kind \notin Composite
    BY <2>1, EntriesType, ZenonT(60) DEF Requests, Accepted, Kinds, Plain, Composite
  <2> HIDE DEF q
  <2>4. DOMAIN ret' = Procs
    BY <1>3, <1>t DEF Apply, InsideACall
  <2> QED
    BY <2>1, <2>2, <2>3, <2>4, BeginCall
<1>4. ASSUME NEW p \in Procs, \/ RLock(p) \/ Lock(p) \/ Drain(p) \/ Body(p) \/ Ask(p)
                              \/ Answer(p) \/ Panic(p) \/ Unlock(p) \/ Leave(p)
      PROVE  CallPart'
  <2>1. /\ pc[p] # "idle" /\ pc'[p] \notin {"idle", "rlock", "lock"}
        /\ pc'[p] = "drain" => pc[p] = "lock"
        /\ \A q \in Procs \ {p} : pc'[q] = pc[q]
        /\ UNCHANGED <<sub, call>> /\ DOMAIN ret' = Procs
    BY <1>4, <1>t DEF RLock, Lock, Drain, Body, Ask, Answer, Panic, Unlock, Leave, Goto,
                      Types, InsideACall, shared
  <2>2. RightLock'
    BY <1>t, <2>1 DEF RightLock
  <2>3. InsideACall'
    BY <1>t, <2>1 DEF InsideACall
  <2> QED
    BY <2>2, <2>3 DEF CallPart
<1>5. ASSUME NEW p \in Procs, NothingToRemove(p) \/ Return(p) PROVE CallPart'
  <2>1. /\ pc'[p] = "idle" /\ OthersStay(p) /\ DOMAIN ret' = Procs
        /\ \A q \in Procs \ {p} : call'[q] = call[q]
    BY <1>5, <1>t DEF NothingToRemove, Return, Done, Goto, OthersStay, Types, InsideACall
  <2>2. RightLock'
    BY <1>t, <2>1 DEF RightLock, OthersStay
  <2>3. InsideACall'
    BY <1>t, <2>1 DEF InsideACall, OthersStay
  <2> QED
    BY <2>2, <2>3 DEF CallPart
<1> QED
  BY <1>1, <1>2, <1>3, <1>4, <1>5 DEF Next, Step

LEMMA StepCallback == IInv /\ [Next]_vars => CallbackIsFresh'
<1> SUFFICES ASSUME IInv, [Next]_vars, NEW q \in Procs, pc'[q] = "callback"
             PROVE  heard'[q] = tm' /\ Asks(sub'[q], tm')
  BY DEF CallbackIsFresh
<1>t. Types /\ CallbackIsFresh
  BY DEF IInv, TypeOK, Types
<1>1. CASE UNCHANGED vars \/ Terminated
  BY <1>1, <1>t DEF vars, shared, Terminated, CallbackIsFresh
<1>2. ASSUME NEW p \in Procs, Ask(p) PROVE heard'[q] = tm' /\ Asks(sub'[q], tm')
  BY <1>2, <1>t DEF Ask, Goto, Types, CallbackIsFresh, shared
<1>3. ASSUME NEW p \in Procs, Body(p) \/ Answer(p)
      PROVE  heard'[q] = tm' /\ Asks(sub'[q], tm')
  <2>1. q # p /\ pc[q] = "callback" /\ Inside(p)
    BY <1>3, <1>t DEF Body, Answer, Goto, Types, Inside
  <2>2. Writing(q)
    BY <2>1, CallbackWrites
  <2> QED
    BY <2>1, <2>2, Alone
<1>4. ASSUME NEW p \in Procs, Call(p) \/ Apply(p)
      PROVE  heard'[q] = tm' /\ Asks(sub'[q], tm')
  <2>1. PICK r : Begin(p, r) /\ UNCHANGED <<tm, heard>>
    BY <1>4 DEF Call, Apply, shared
  <2>2. q # p /\ pc[q] = "callback" /\ sub'[q] = sub[q]
    BY <2>1, <1>t DEF Begin, Goto, Types
  <2> QED
    BY <1>t, <2>1, <2>2 DEF CallbackIsFresh
<1>5. ASSUME NEW p \in Procs, \/ RLock(p) \/ Lock(p) \/ Drain(p) \/ Panic(p) \/ Unlock(p)
                              \/ Leave(p) \/ NothingToRemove(p) \/ Return(p)
      PROVE  heard'[q] = tm' /\ Asks(sub'[q], tm')
  <2>1. /\ q # p /\ pc[q] = "callback" /\ sub'[q] = sub[q]
        /\ UNCHANGED <<tm, heard>>
    BY <1>5, <1>t DEF RLock, Lock, Drain, Panic, Unlock, Leave, NothingToRemove, Return, Done,
                      Goto, Types, shared
  <2> QED
    BY <1>t, <2>1 DEF CallbackIsFresh
<1> QED
  BY <1>1, <1>2, <1>3, <1>4, <1>5 DEF Next, Step

-----------------------------------------------------------------------------
LEMMA Invariance == Spec => []IInv
<1>1. IInv /\ [Next]_vars => IInv'
  <2> SUFFICES ASSUME IInv, [Next]_vars PROVE IInv'
    OBVIOUS
  <2>1. Types' /\ LockHeld' /\ ReadersAreOut' /\ CallPart' /\ CallbackIsFresh'
    BY StepTypes, StepLock, StepCall, StepCallback
  <2>2. TypeOK'
    BY <2>1 DEF TypeOK, Types, LockHeld
  <2> QED
    BY <2>1, <2>2 DEF IInv, CallPart
<1> QED
  BY <1>1, InitInvariant, PTL DEF Spec

(* concurrent_treemap.go: every goroutine that is inside holds the lock it *)
(* took, and nobody else holds it.                                         *)
THEOREM TreeMapTypes == Spec => []TypeOK
<1>1. IInv => TypeOK
  BY DEF IInv
<1> QED
  BY <1>1, Invariance, PTL

(* treemap.go:24, "Not concurrent-safe": no goroutine is inside the tree   *)
(* together with a writer, for any number of goroutines and callbacks.     *)
THEOREM TreeMapWriterIsAlone == Spec => []WriterIsAlone
<1>1. IInv => WriterIsAlone
  BY Alone DEF WriterIsAlone
<1> QED
  BY <1>1, Invariance, PTL

(* concurrent_treemap.go:18: a callback under the lock is told of the      *)
(* entries as they are when it answers.                                    *)
THEOREM TreeMapCallbackIsUpToDate == Spec => []CallbackIsUpToDate
<1>1. IInv => CallbackIsUpToDate
  <2> SUFFICES ASSUME IInv, NEW p \in Procs, pc[p] = "callback"
               PROVE  heard[p] = tm /\ mu.writer = p /\ mu.readers = {}
    BY DEF CallbackIsUpToDate
  <2>1. Writing(p)
    BY CallbackWrites
  <2> QED
    BY <2>1 DEF IInv, TypeOK, ReadersAreOut, CallbackIsFresh
<1> QED
  BY <1>1, Invariance, PTL

\* RankOfKey answers the number of smaller keys for every key that is stored,
\* and finds no other, whatever the map holds.
THEOREM TreeMapRankIsPosition == Spec => []RankIsPosition
<1>1. IInv => RankIsPosition
  BY RankFinds DEF IInv, TypeOK, RankIsPosition
<1> QED
  BY <1>1, Invariance, PTL

-----------------------------------------------------------------------------
(* Every step is a step of the atomic object, or none.                     *)

Stage == [p \in Procs |-> Moment(p)]
Asked == [p \in Procs |-> IF Moment(p) = "idle" THEN none ELSE sub[p]]
Answered == [p \in Procs |-> IF Moment(p) = "closed" THEN ret[p] ELSE none]

OthersKeep(p) ==
    \A q \in Procs \ {p} : /\ pc'[q] = pc[q] /\ call'[q] = call[q]
                           /\ sub'[q] = sub[q] /\ ret'[q] = ret[q]

LEMMA OthersUnmoved ==
    ASSUME NEW p \in Procs, OthersKeep(p)
    PROVE  \A q \in Procs \ {p} :
              Stage'[q] = Stage[q] /\ Asked'[q] = Asked[q] /\ Answered'[q] = Answered[q]
<1> TAKE q \in Procs \ {p}
<1>1. Moment(q)' = Moment(q)
  BY DEF OthersKeep, Moment
<1> QED
  BY <1>1 DEF OthersKeep, Stage, Asked, Answered

LEMMA Stutter ==
    ASSUME NEW p \in Procs, OthersKeep(p), tm' = tm, Moment(p)' = Moment(p),
           Moment(p) # "idle" => sub'[p] = sub[p], Moment(p) = "closed" => ret'[p] = ret[p]
    PROVE  UNCHANGED Atomic!vars
<1>1. Stage'[p] = Stage[p] /\ Asked'[p] = Asked[p] /\ Answered'[p] = Answered[p]
  BY DEF Stage, Asked, Answered
<1>2. \A q \in Procs : Stage'[q] = Stage[q] /\ Asked'[q] = Asked[q] /\ Answered'[q] = Answered[q]
  BY <1>1, OthersUnmoved
<1>3. Stage' = Stage /\ Asked' = Asked /\ Answered' = Answered
  BY <1>2 DEF Stage, Asked, Answered
<1> QED
  BY <1>3 DEF Atomic!vars, Stage, Asked, Answered

LEMMA Invoked ==
    ASSUME NEW p \in Procs, OthersKeep(p), tm' = tm,
           Moment(p) = "idle", Moment(p)' = "open", sub'[p] \in Requests
    PROVE  Atomic!Invoke(p)
<1>1. Stage[p] = "idle" /\ Stage'[p] = "open" /\ Asked'[p] = sub'[p] /\ Answered'[p] = Answered[p]
  BY DEF Stage, Asked, Answered
<1>2. Stage' = [Stage EXCEPT ![p] = "open"]
  BY <1>1, OthersUnmoved DEF Stage
<1>3. Asked' = [Asked EXCEPT ![p] = Asked'[p]]
  BY <1>1, OthersUnmoved DEF Asked
<1>4. Answered' = Answered
  BY <1>1, OthersUnmoved DEF Answered
<1> QED
  BY <1>1, <1>2, <1>3, <1>4 DEF Atomic!Invoke, Stage, Asked, Answered

LEMMA Effected ==
    ASSUME NEW p \in Procs, OthersKeep(p),
           Moment(p) = "open", Moment(p)' = "closed", sub'[p] = sub[p],
           NEW e \in EffectsOrPanic(sub[p], tm), tm' = e.s, ret'[p] = e.ret
    PROVE  Atomic!TakeEffect(p)
<1>1. /\ Stage[p] = "open" /\ Stage'[p] = "closed" /\ Asked'[p] = Asked[p]
      /\ Asked[p] = sub[p] /\ Answered'[p] = e.ret
  BY DEF Stage, Asked, Answered
<1>2. Stage' = [Stage EXCEPT ![p] = "closed"]
  BY <1>1, OthersUnmoved DEF Stage
<1>3. Asked' = Asked
  BY <1>1, OthersUnmoved DEF Asked
<1>4. Answered' = [Answered EXCEPT ![p] = e.ret]
  BY <1>1, OthersUnmoved DEF Answered
<1>5. e \in EffectsOrPanic(Asked[p], tm)
  BY <1>1
<1> QED
  BY <1>1, <1>2, <1>3, <1>4, <1>5 DEF Atomic!TakeEffect, Stage, Asked, Answered

LEMMA Returned ==
    ASSUME NEW p \in Procs, OthersKeep(p), tm' = tm,
           Moment(p) = "closed", Moment(p)' = "idle"
    PROVE  Atomic!Return(p)
<1>1. /\ Stage[p] = "closed" /\ Stage'[p] = "idle" /\ Asked'[p] = none /\ Answered'[p] = none
  BY DEF Stage, Asked, Answered
<1>2. Stage' = [Stage EXCEPT ![p] = "idle"]
  BY <1>1, OthersUnmoved DEF Stage
<1>3. Asked' = [Asked EXCEPT ![p] = none]
  BY <1>1, OthersUnmoved DEF Asked
<1>4. Answered' = [Answered EXCEPT ![p] = none]
  BY <1>1, OthersUnmoved DEF Answered
<1> QED
  BY <1>1, <1>2, <1>3, <1>4 DEF Atomic!Return, Stage, Asked, Answered

LEMMA InitIsAtomic == Init => Atomic!Init
<1> SUFFICES ASSUME Init PROVE Atomic!Init
  OBVIOUS
<1>1. \A p \in Procs : Moment(p) = "idle"
  BY DEF Init, Moment
<1> QED
  BY <1>1 DEF Init, Atomic!Init

LEMMA StepIsAtomic == IInv /\ [Next]_vars => [Atomic!Next]_Atomic!vars
<1> SUFFICES ASSUME IInv, [Next]_vars PROVE Atomic!Next \/ UNCHANGED Atomic!vars
  OBVIOUS
<1>t. Types /\ InsideACall /\ CallbackIsFresh
  BY DEF IInv, TypeOK, Types
<1>1. CASE UNCHANGED vars \/ Terminated
  BY <1>1 DEF vars, shared, Terminated, Atomic!vars, Moment
<1>2. ASSUME NEW p \in Procs, Call(p) PROVE Atomic!Invoke(p)
  <2>1. PICK q \in todo[p] :
          /\ call' = [call EXCEPT ![p] = q]
          /\ Begin(p, IF q.kind \in Composite THEN [q EXCEPT !.kind = "scan"] ELSE q)
    BY <1>2 DEF Call
  <2>2. q \in Requests
    BY <1>t, <2>1 DEF Types
  <2>3. (IF q.kind \in Composite THEN [q EXCEPT !.kind = "scan"] ELSE q) \in Requests
    BY <2>2, Rekind DEF Kinds, Readers
  <2>4. sub'[p] \in Requests /\ pc'[p] \in {"rlock", "lock"}
    BY <2>1, <2>3, BeginTypes
  <2>5. pc[p] = "idle" /\ OthersKeep(p) /\ tm' = tm
    BY <1>2, <1>t, <2>1 DEF Call, Begin, Goto, OthersKeep, Types, shared
  <2> QED
    BY <2>4, <2>5, Invoked DEF Moment
<1>3. ASSUME NEW p \in Procs, RLock(p) \/ Lock(p) \/ Drain(p) \/ Ask(p)
      PROVE  UNCHANGED Atomic!vars
  <2>1. /\ pc[p] \in {"rlock", "lock", "drain", "body"} /\ pc'[p] \in {"drain", "body", "callback"}
        /\ OthersKeep(p) /\ tm' = tm /\ sub' = sub
    BY <1>3, <1>t DEF RLock, Lock, Drain, Ask, Goto, OthersKeep, Types, shared
  <2> QED
    BY <2>1, Stutter DEF Moment
<1>4. ASSUME NEW p \in Procs, Body(p) PROVE Atomic!TakeEffect(p)
  <2> DEFINE e == Outcome(sub[p], tm)
  <2>1. /\ pc[p] = "body" /\ pc'[p] = "unlock" /\ OthersKeep(p)
        /\ tm' = e.s /\ ret'[p] = e.ret /\ sub' = sub
    BY <1>4, <1>t DEF Body, Goto, OthersKeep, Types, InsideACall
  <2>2. e \in EffectsOrPanic(sub[p], tm)
    BY DEF EffectsOrPanic
  <2> HIDE DEF e
  <2> QED
    BY <2>1, <2>2, Effected DEF Moment
<1>5. ASSUME NEW p \in Procs, Answer(p) PROVE Atomic!TakeEffect(p)
  <2> DEFINE e == Outcome(sub[p], tm)
  <2>1. /\ pc[p] = "callback" /\ pc'[p] = "unlock" /\ OthersKeep(p)
        /\ heard[p] = tm /\ Asks(sub[p], tm) /\ sub[p] \in Requests /\ sub' = sub
    BY <1>5, <1>t DEF Answer, Goto, OthersKeep, Types, InsideACall, CallbackIsFresh
  <2>2. ret'[p] = e.ret
    BY <1>5, <1>t, <2>1 DEF Answer, InsideACall
  <2>3. tm' = e.s
    <3>1. tm' = [k \in Keys |-> IF k \in Concerned(sub[p], tm) THEN e.s[k] ELSE tm[k]]
      BY <1>5, <2>1 DEF Answer, Told, Concerned
    <3> QED
      BY <1>t, <2>1, <3>1, CallbackIsLocal DEF Types
  <2>4. e \in EffectsOrPanic(sub[p], tm)
    BY DEF EffectsOrPanic
  <2> HIDE DEF e
  <2> QED
    BY <2>1, <2>2, <2>3, <2>4, Effected DEF Moment
<1>6. ASSUME NEW p \in Procs, Panic(p) PROVE Atomic!TakeEffect(p)
  <2> DEFINE e == Does(tm, <<none>>)
  <2>1. /\ pc[p] = "callback" /\ pc'[p] = "unlock" /\ OthersKeep(p)
        /\ Asks(sub[p], tm) /\ sub' = sub /\ tm' = tm /\ ret'[p] = <<none>>
    BY <1>6, <1>t DEF Panic, Goto, OthersKeep, Types, InsideACall, CallbackIsFresh, shared
  <2>2. tm' = e.s /\ ret'[p] = e.ret
    BY <2>1 DEF Does
  <2>3. e \in EffectsOrPanic(sub[p], tm)
    BY <2>1 DEF EffectsOrPanic
  <2> HIDE DEF e
  <2> QED
    BY <2>1, <2>2, <2>3, Effected DEF Moment
<1>7. ASSUME NEW p \in Procs, Unlock(p) PROVE Atomic!Next \/ UNCHANGED Atomic!vars
  <2>1. /\ pc[p] = "unlock" /\ pc'[p] \in {"between", "return"} /\ OthersKeep(p)
        /\ UNCHANGED <<tm, sub, call, ret>>
    BY <1>7, <1>t DEF Unlock, Goto, OthersKeep, Types
  <2>2. CASE pc'[p] = "between" /\ call[p].kind \in Composite
    <3>1. Moment(p) = "closed" /\ Moment(p)' = "idle"
      BY <2>1, <2>2 DEF Moment
    <3> QED
      BY <2>1, <3>1, Returned DEF Atomic!Next
  <2>3. CASE ~(pc'[p] = "between" /\ call[p].kind \in Composite)
    <3>1. Moment(p) = "closed" /\ Moment(p)' = "closed"
      BY <2>1, <2>3 DEF Moment
    <3> QED
      BY <2>1, <3>1, Stutter
  <2> QED
    BY <2>2, <2>3
<1>8. ASSUME NEW p \in Procs, Leave(p) PROVE UNCHANGED Atomic!vars
  <2>1. /\ pc[p] = "between" /\ call[p].kind \notin Composite /\ pc'[p] = "return"
        /\ OthersKeep(p) /\ UNCHANGED <<tm, sub, call, ret>>
    BY <1>8, <1>t DEF Leave, Goto, OthersKeep, Types, shared
  <2> QED
    BY <2>1, Stutter DEF Moment
<1>9. ASSUME NEW p \in Procs, Apply(p) PROVE Atomic!Invoke(p)
  <2>1. call[p] \in Requests /\ heard[p] \in Contents
    BY <1>9, <1>t DEF Apply, InsideACall, Types
  <2> DEFINE q == IF call[p].kind = "removeFunc"
                  THEN [call[p] EXCEPT !.kind = "removeAll", !.keys = Accepted(p)]
                  ELSE [call[p] EXCEPT !.kind = "putSeq", !.puts = Entries(heard[p])]
  <2>2. Begin(p, q)
    BY <1>9 DEF Apply
  <2>3. q \in Requests
    BY <2>1, EntriesType DEF Requests, Accepted, Kinds, Plain
  <2> HIDE DEF q
  <2>4. sub'[p] \in Requests /\ pc'[p] \in {"rlock", "lock"}
    BY <2>2, <2>3, BeginTypes
  <2>5. pc[p] = "between" /\ call[p].kind \in Composite /\ OthersKeep(p) /\ tm' = tm
    BY <1>9, <1>t, <2>2 DEF Apply, Begin, Goto, OthersKeep, Types, InsideACall, shared
  <2> QED
    BY <2>4, <2>5, Invoked DEF Moment
<1>10. ASSUME NEW p \in Procs, NothingToRemove(p) PROVE UNCHANGED Atomic!vars
  <2>1. /\ pc[p] = "between" /\ call[p].kind \in Composite /\ pc'[p] = "idle"
        /\ OthersKeep(p) /\ tm' = tm
    BY <1>10, <1>t DEF NothingToRemove, Done, Goto, OthersKeep, Types, InsideACall, shared, Composite
  <2> QED
    BY <2>1, Stutter DEF Moment
<1>11. ASSUME NEW p \in Procs, Return(p) PROVE Atomic!Return(p)
  <2>1. pc[p] = "return" /\ pc'[p] = "idle" /\ OthersKeep(p) /\ tm' = tm
    BY <1>11, <1>t DEF Return, Done, Goto, OthersKeep, Types, InsideACall, shared
  <2> QED
    BY <2>1, Returned DEF Moment
<1> QED
  BY <1>1, <1>2, <1>3, <1>4, <1>5, <1>6, <1>7, <1>8, <1>9, <1>10, <1>11
     DEF Next, Step, Atomic!Next

(* Every critical section of concurrentTreeMap takes effect in one instant *)
(* on the whole map and returns what it found then, for any number of      *)
(* goroutines, keys, calls and callbacks.                                  *)
THEOREM TreeMapIsAtomic == Spec => EveryCallIsAtomic
<1>1. Init => Atomic!Init
  BY InitIsAtomic
<1>2. IInv /\ [Next]_vars => [Atomic!Next]_Atomic!vars
  BY StepIsAtomic
<1> QED
  BY <1>1, <1>2, Invariance, PTL DEF Spec, EveryCallIsAtomic, Atomic!Spec
=============================================================================
