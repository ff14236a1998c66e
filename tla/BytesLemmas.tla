---------------------------- MODULE BytesLemmas -----------------------------
(***************************************************************************)
(* Facts about the operators of Bytes and Ep that the proofs of other      *)
(* modules cite.                                                           *)
(***************************************************************************)
EXTENDS Ep, TLAPS, FiniteSetTheorems, SequenceTheorems, WellFoundedInduction

\* A non-empty set of naturals has a least element (the code's loops that walk
\* forward and stop at the first offset).
LEMMA MinExists ==
    ASSUME NEW S \in SUBSET Nat, S # {}
    PROVE  Min(S) \in S /\ \A y \in S : Min(S) <= y
<1>. DEFINE R == OpToRel(<, Nat)
<1>1. \A x, y \in Nat : y < x => <<y, x>> \in R
  BY DEF OpToRel
<1>2. IsWellFoundedOn(R, Nat)
  BY NatLessThanWellFounded
<1>. HIDE DEF R
<1>3. PICK x \in S : \A y \in S : ~ (<<y, x>> \in R)
  BY <1>2, WFMin
<1>4. \A y \in S : ~ (y < x)
  BY <1>1, <1>3, Zenon
<1>5. \A y \in S : x <= y
  BY ONLY <1>4, S \in SUBSET Nat, x \in S
<1>. QED  BY <1>5 DEF Min

LEMMA MinIs ==
    ASSUME NEW S \in SUBSET Nat, NEW x \in S, \A y \in S : x <= y
    PROVE  Min(S) = x
<1>1. Min(S) \in S /\ \A y \in S : Min(S) <= y
  BY MinExists
<1>2. Min(S) <= x /\ x <= Min(S) /\ Min(S) \in Nat
  BY <1>1
<1>. QED  BY <1>2

\* A non-empty set of offsets within a bound has a greatest element (the loops
\* that walk back from an end).
LEMMA MaxExists ==
    ASSUME NEW n \in Nat, NEW S \in SUBSET (0..n), S # {}
    PROVE  Max(S) \in S /\ \A y \in S : y <= Max(S)
<1>. DEFINE T == {n - x : x \in S}
<1>1. T \in SUBSET Nat /\ T # {}
  <2>1. \A x \in S : n - x \in Nat
    OBVIOUS
  <2>2. PICK x \in S : TRUE
    OBVIOUS
  <2>. QED  BY <2>1, <2>2
<1>2. Min(T) \in T /\ \A y \in T : Min(T) <= y
  BY <1>1, MinExists
<1>3. PICK x \in S : Min(T) = n - x
  BY <1>2
<1>4. \A y \in S : x >= y
  <2>. SUFFICES ASSUME NEW y \in S PROVE x >= y
    OBVIOUS
  <2>1. n - x <= n - y
    BY <1>2, <1>3
  <2>. QED  BY <2>1
<1>. HIDE DEF T
<1>. QED  BY <1>4 DEF Max

\* ZeroRun(b, floor, at) is an offset of [floor, at], and no byte between it and
\* `at` is other than zero.
LEMMA ZeroRunRange ==
    ASSUME NEW b, NEW floor \in Nat, NEW at \in Nat, floor <= at
    PROVE  /\ ZeroRun(b, floor, at) \in floor..at
           /\ \A i \in ZeroRun(b, floor, at)..(at - 1) : At(b, i) = 0
<1>. DEFINE S == {floor} \cup {i + 1 : i \in {j \in floor..(at - 1) : At(b, j) # 0}}
<1>1. S \in SUBSET (0..at) /\ S # {} /\ S \subseteq floor..at
  OBVIOUS
<1>2. Max(S) \in S /\ \A y \in S : y <= Max(S)
  BY <1>1, MaxExists
<1>3. ZeroRun(b, floor, at) = Max(S)
  BY DEF ZeroRun
<1>4. ASSUME NEW i \in Max(S)..(at - 1), At(b, i) # 0
      PROVE  FALSE
  <2>1. Max(S) \in floor..at
    BY <1>1, <1>2
  <2>2. i \in floor..(at - 1)
    BY <2>1
  <2>3. i + 1 \in S
    BY <2>2, <1>4
  <2>. QED  BY <2>3, <1>2, <2>1
<1>. QED  BY <1>1, <1>2, <1>3, <1>4

\* A run of zeroes that begins past its floor begins behind a byte that is not
\* zero.
LEMMA ZeroRunStops ==
    ASSUME NEW b, NEW floor \in Nat, NEW at \in Nat, floor < ZeroRun(b, floor, at),
           floor <= at
    PROVE  At(b, ZeroRun(b, floor, at) - 1) # 0
<1>. DEFINE S == {floor} \cup {i + 1 : i \in {j \in floor..(at - 1) : At(b, j) # 0}}
<1>1. S \in SUBSET (0..at) /\ S # {}
  OBVIOUS
<1>2. Max(S) \in S
  BY <1>1, MaxExists
<1>3. ZeroRun(b, floor, at) = Max(S)
  BY DEF ZeroRun
<1>4. Max(S) # floor
  BY <1>3
<1>5. PICK i \in {j \in floor..(at - 1) : At(b, j) # 0} : Max(S) = i + 1
  <2>. DEFINE m == Max(S)
  <2>1. m \in S /\ m # floor
    BY <1>2, <1>4
  <2>. HIDE DEF m
  <2>2. \E i \in {j \in floor..(at - 1) : At(b, j) # 0} : m = i + 1
    BY <2>1
  <2>. QED  BY <2>2 DEF m
<1>. QED  BY <1>3, <1>5

\* A run of zeroes begins at the one offset that has no other byte behind it and
\* no zero before it.
LEMMA ZeroRunIs ==
    ASSUME NEW b, NEW floor \in Nat, NEW at \in Nat, NEW from \in floor..at,
           \A i \in from..(at - 1) : At(b, i) = 0,
           floor < from => At(b, from - 1) # 0
    PROVE  ZeroRun(b, floor, at) = from
<1>. DEFINE z == ZeroRun(b, floor, at)
<1>1. /\ z \in floor..at /\ \A i \in z..(at - 1) : At(b, i) = 0
      /\ floor < z => At(b, z - 1) # 0
  BY ZeroRunRange, ZeroRunStops
<1>. HIDE DEF z
<1>2. ~(z < from)
  <2>. SUFFICES ASSUME z < from PROVE FALSE
    OBVIOUS
  <2>1. from - 1 \in z..(at - 1) /\ floor < from
    BY <1>1
  <2>. QED  BY <1>1, <2>1
<1>3. ~(from < z)
  <2>. SUFFICES ASSUME from < z PROVE FALSE
    OBVIOUS
  <2>1. z - 1 \in from..(at - 1) /\ floor < z
    BY <1>1
  <2>. QED  BY <1>1, <2>1
<1>. QED  BY <1>1, <1>2, <1>3 DEF z

\* It does not depend on what stands at its end or after it.
LEMMA ZeroRunSame ==
    ASSUME NEW b, NEW d, NEW at \in Nat, \A i \in 0..(at - 1) : At(b, i) = At(d, i)
    PROVE  ZeroRun(d, 0, at) = ZeroRun(b, 0, at)
<1>. DEFINE z == ZeroRun(b, 0, at)
<1>1. /\ z \in 0..at /\ \A i \in z..(at - 1) : At(b, i) = 0
      /\ 0 < z => At(b, z - 1) # 0
  BY ZeroRunRange, ZeroRunStops
<1>. HIDE DEF z
<1>2. /\ \A i \in z..(at - 1) : At(d, i) = 0
      /\ 0 < z => At(d, z - 1) # 0
  <2>1. \A i \in z..(at - 1) : i \in 0..(at - 1)
    BY <1>1
  <2>2. 0 < z => z - 1 \in 0..(at - 1)
    BY <1>1
  <2>. QED  BY <1>1, <2>1, <2>2
<1>3. ZeroRun(d, 0, at) = z
  BY <1>1, <1>2, ZeroRunIs
<1>. QED  BY <1>3 DEF z

\* One more byte makes the run longer by one or ends it.
LEMMA ZeroRunNext ==
    ASSUME NEW b, NEW at \in Nat
    PROVE  ZeroRun(b, 0, at + 1) = IF At(b, at) = 0 THEN ZeroRun(b, 0, at) ELSE at + 1
<1>. DEFINE z == ZeroRun(b, 0, at)
<1>1. /\ z \in 0..at /\ \A i \in z..(at - 1) : At(b, i) = 0
      /\ 0 < z => At(b, z - 1) # 0
  BY ZeroRunRange, ZeroRunStops
<1>. HIDE DEF z
<1>2. CASE At(b, at) = 0
  <2>1. \A i \in z..((at + 1) - 1) : At(b, i) = 0
    <3>. SUFFICES ASSUME NEW i \in z..((at + 1) - 1) PROVE At(b, i) = 0
      OBVIOUS
    <3>1. i = at \/ i \in z..(at - 1)
      BY <1>1
    <3>. QED  BY <1>1, <1>2, <3>1
  <2>2. at + 1 \in Nat /\ z \in 0..(at + 1)
    BY <1>1
  <2>3. ZeroRun(b, 0, at + 1) = z
    BY <1>1, <2>1, <2>2, ZeroRunIs
  <2>. QED  BY <1>2, <2>3 DEF z
<1>3. CASE At(b, at) # 0
  <2>1. /\ at + 1 \in Nat /\ at + 1 \in 0..(at + 1) /\ (at + 1) - 1 = at
        /\ \A i \in (at + 1)..((at + 1) - 1) : At(b, i) = 0
    OBVIOUS
  <2>2. ZeroRun(b, 0, at + 1) = at + 1
    BY <1>3, <2>1, ZeroRunIs
  <2>. QED  BY <1>3, <2>2
<1>. QED  BY <1>2, <1>3

\* A run of two zeroes or more, looked at from its end.
LEMMA ZeroRunTwo ==
    ASSUME NEW b, NEW at \in Nat
    PROVE  /\ ZeroRun(b, 0, at) \in 0..at
           /\ at - ZeroRun(b, 0, at) >= 2
                  <=> at >= 2 /\ At(b, at - 2) = 0 /\ At(b, at - 1) = 0
<1>. DEFINE z == ZeroRun(b, 0, at)
<1>1. /\ z \in 0..at /\ \A i \in z..(at - 1) : At(b, i) = 0
      /\ 0 < z => At(b, z - 1) # 0
  BY ZeroRunRange, ZeroRunStops
<1>. HIDE DEF z
<1>2. at - z >= 2 => at >= 2 /\ At(b, at - 2) = 0 /\ At(b, at - 1) = 0
  <2>. SUFFICES ASSUME at - z >= 2 PROVE at >= 2 /\ At(b, at - 2) = 0 /\ At(b, at - 1) = 0
    OBVIOUS
  <2>1. at - 2 \in z..(at - 1) /\ at - 1 \in z..(at - 1) /\ at >= 2
    BY <1>1
  <2>. QED  BY <1>1, <2>1
<1>3. at >= 2 /\ At(b, at - 2) = 0 /\ At(b, at - 1) = 0 => at - z >= 2
  <2>. SUFFICES ASSUME at >= 2, At(b, at - 2) = 0, At(b, at - 1) = 0, at - z < 2 PROVE FALSE
    BY <1>1
  <2>1. z = at \/ z = at - 1
    BY <1>1
  <2>2. 0 < z /\ (z - 1 = at - 1 \/ z - 1 = at - 2)
    BY <1>1, <2>1
  <2>. QED  BY <1>1, <2>2
<1>. QED  BY <1>1, <1>2, <1>3 DEF z

\* What is below a member of a finite set of offsets is finite as well,
\* and nothing is below the least.
LEMMA BelowFinite ==
    ASSUME NEW S, IsFiniteSet(S), NEW x
    PROVE  IsFiniteSet(Below(S, x)) /\ Cardinality(Below(S, x)) \in Nat
<1>1. Below(S, x) \in SUBSET S
  BY DEF Below
<1>. QED  BY <1>1, FS_Subset, FS_CardinalityType

LEMMA BelowMin ==
    ASSUME NEW S \in SUBSET Nat, S # {}
    PROVE  Cardinality(Below(S, Min(S))) = 0
<1>. DEFINE m == Min(S)
<1>1. m \in S /\ \A y \in S : m <= y
  BY MinExists
<1>. HIDE DEF m
<1>2. \A y \in S : ~(y < m)
  BY <1>1
<1>3. Below(S, Min(S)) = {}
  BY <1>2, Zenon DEF Below, m
<1>. QED  BY <1>3, FS_EmptySet

\* If x is not the greatest member, there is one with one more below it.
LEMMA BelowNext ==
    ASSUME NEW S \in SUBSET Nat, IsFiniteSet(S), NEW x \in S,
           Cardinality(Below(S, x)) + 1 < Cardinality(S)
    PROVE  \E z \in S : Cardinality(Below(S, z)) = Cardinality(Below(S, x)) + 1
<1>. DEFINE B == Below(S, x)
            U == B \cup {x}
            T == {y \in S : x < y}
<1>1. IsFiniteSet(B) /\ Cardinality(B) \in Nat /\ Cardinality(S) \in Nat
  BY BelowFinite, FS_CardinalityType
<1>2. x \notin B
  BY DEF Below
<1>3. Cardinality(U) = Cardinality(B) + 1
  BY <1>1, <1>2, FS_AddElement
<1>4. \A y \in S : y \in B \/ y = x \/ y \in T
  BY DEF Below
<1>5. B \subseteq S
  BY DEF Below
<1>6. T # {}
  <2>1. SUFFICES ASSUME T = {} PROVE FALSE
    OBVIOUS
  <2>2. S = U
    <3>. HIDE DEF B, T
    <3>. QED  BY <2>1, <1>4, <1>5
  <2>3. Cardinality(S) = Cardinality(B) + 1
    BY <2>2, <1>3
  <2>. QED  BY <2>3, <1>1
<1>7. T \in SUBSET Nat
  OBVIOUS
<1>. DEFINE z == Min(T)
<1>8. z \in T /\ \A y \in T : z <= y
  <2>. HIDE DEF T
  <2>. QED  BY <1>6, <1>7, MinExists
<1>9. z \in S /\ x < z /\ z \in Nat /\ x \in Nat
  BY <1>8
<1>10. Below(S, z) = U
  <2>. HIDE DEF z
  <2>1. ASSUME NEW y \in Below(S, z) PROVE y \in U
    <3>1. y \in S /\ y < z
      BY DEF Below
    <3>2. y \notin T
      BY <3>1, <1>8, <1>9
    <3>. QED  BY <3>1, <3>2, <1>4
  <2>2. ASSUME NEW y \in U PROVE y \in Below(S, z)
    <3>1. y \in S /\ y <= x
      BY DEF Below
    <3>2. y < z
      BY <3>1, <1>9
    <3>. QED  BY <3>1, <3>2 DEF Below
  <2>. HIDE DEF U
  <2>. QED  BY <2>1, <2>2
<1>. QED  BY <1>9, <1>10, <1>3

\* Every rank below the number of members is held by a member: the least rank
\* that were not would be that of the least member or of the one after.
LEMMA RankExists ==
    ASSUME NEW S \in SUBSET Nat, IsFiniteSet(S), NEW k \in 1..Cardinality(S)
    PROVE  \E x \in S : Cardinality(Below(S, x)) = k - 1
<1>. DEFINE Bad == {n \in 1..Cardinality(S) : \A x \in S : Cardinality(Below(S, x)) # n - 1}
<1>1. Cardinality(S) \in Nat
  BY FS_CardinalityType
<1>2. SUFFICES ASSUME Bad # {} PROVE FALSE
  BY <1>2, Zenon
<1>3. Bad \in SUBSET Nat
  BY <1>1
<1>. DEFINE n == Min(Bad)
<1>4. n \in Bad /\ \A m \in Bad : n <= m
  <2>. HIDE DEF Bad
  <2>. QED  BY <1>2, <1>3, MinExists
<1>. HIDE DEF n
<1>5. n \in 1..Cardinality(S) /\ \A x \in S : Cardinality(Below(S, x)) # n - 1
  BY <1>4
<1>6. CASE n = 1
  <2>1. S # {}
    BY <1>1, <1>5, FS_EmptySet
  <2>2. Min(S) \in S
    BY <2>1, MinExists
  <2>3. Cardinality(Below(S, Min(S))) = n - 1
    BY <2>1, <1>6, BelowMin
  <2>. QED  BY <2>2, <2>3, <1>5
<1>7. CASE n # 1
  <2>1. n - 1 \in 1..Cardinality(S)
    BY <1>1, <1>5, <1>7
  <2>2. n - 1 \notin Bad
    BY <1>4, <1>5
  <2>3. PICK x \in S : Cardinality(Below(S, x)) = (n - 1) - 1
    BY <2>1, <2>2, Zenon
  <2>4. Cardinality(Below(S, x)) + 1 = n - 1 /\ n - 1 < Cardinality(S)
    BY <2>3, <1>1, <1>5
  <2>5. \E z \in S : Cardinality(Below(S, z)) = Cardinality(Below(S, x)) + 1
    BY <2>4, BelowNext
  <2>. QED  BY <2>4, <2>5, <1>5
<1>. QED  BY <1>6, <1>7

\* Ascending lists the members of a finite set of offsets, all of them, each
\* before the greater ones.
LEMMA AscendingProperties ==
    ASSUME NEW S \in SUBSET Nat, IsFiniteSet(S)
    PROVE  /\ Ascending(S) \in Seq(S)
           /\ Len(Ascending(S)) = Cardinality(S) /\ Cardinality(S) \in Nat
           /\ \A i, j \in 1..Cardinality(S) : i < j => Ascending(S)[i] < Ascending(S)[j]
<1>. DEFINE n == Cardinality(S)
            s == Ascending(S)
<1>1. n \in Nat
  BY FS_CardinalityType
<1>2. \A k \in 1..n : s[k] \in S /\ Cardinality(Below(S, s[k])) = k - 1
  BY RankExists DEF Ascending
<1>3. s \in [1..n -> S]
  BY <1>2 DEF Ascending
<1>4. s \in Seq(S) /\ Len(s) = n
  BY <1>1, <1>3
<1>5. ASSUME NEW i \in 1..n, NEW j \in 1..n, i < j
      PROVE  s[i] < s[j]
  <2>. DEFINE x == s[i]
              y == s[j]
  <2>1. x \in S /\ Cardinality(Below(S, x)) = i - 1
    BY <1>2
  <2>2. y \in S /\ Cardinality(Below(S, y)) = j - 1
    BY <1>2
  <2>. HIDE DEF x, y
  <2>3. ASSUME y <= x PROVE FALSE
    <3>1. \A z \in S : z < y => z < x
      BY <2>1, <2>2, <2>3
    <3>2. Below(S, y) \in SUBSET Below(S, x)
      BY <3>1, Zenon DEF Below
    <3>3. Cardinality(Below(S, y)) <= Cardinality(Below(S, x))
      BY <3>2, BelowFinite, FS_Subset
    <3>. QED  BY <3>3, <2>1, <2>2, <1>1, <1>5
  <2>4. x < y
    BY <2>1, <2>2, <2>3
  <2>. QED  BY <2>4 DEF x, y
<1>. QED  BY <1>1, <1>4, <1>5

\* No member is left out.
LEMMA AscendingOnto ==
    ASSUME NEW S \in SUBSET Nat, IsFiniteSet(S)
    PROVE  /\ \A k \in 1..Cardinality(S) : Ascending(S)[k] \in S
           /\ \A x \in S : \E k \in 1..Cardinality(S) : Ascending(S)[k] = x
<1>. DEFINE n == Cardinality(S)
            f == Ascending(S)
<1>1. /\ f \in Seq(S) /\ Len(f) = n /\ n \in Nat
      /\ \A i, j \in 1..n : i < j => f[i] < f[j]
  BY AscendingProperties
<1>. HIDE DEF f, n
<1>2. f \in [1..n -> S] /\ \A i \in 1..n : f[i] \in S
  BY <1>1, LenProperties
<1>3. \A i, j \in 1..n : f[i] = f[j] => i = j
  <2>. SUFFICES ASSUME NEW i \in 1..n, NEW j \in 1..n, f[i] = f[j] PROVE i = j
    OBVIOUS
  <2>1. f[i] \in Nat /\ f[j] \in Nat
    BY <1>2
  <2>2. ~(i < j) /\ ~(j < i)
    BY <1>1, <2>1
  <2>. QED  BY <2>2
<1>4. f \in Injection(1..n, S)
  BY <1>2, <1>3 DEF Injection, IsInjective
<1>5. Cardinality(1..n) = n
  BY <1>1, FS_Interval
<1>6. f \in Surjection(1..n, S)
  BY <1>4, <1>5, FS_Injection DEF n
<1>. QED  BY <1>2, <1>6 DEF Surjection, f, n

\* And nothing else lists them so.
LEMMA AscendingUnique ==
    ASSUME NEW n \in Nat, NEW f \in [1..n -> Nat],
           \A i, j \in 1..n : i < j => f[i] < f[j],
           NEW S, \A x : x \in S <=> \E i \in 1..n : x = f[i]
    PROVE  /\ S \in SUBSET Nat /\ IsFiniteSet(S) /\ Cardinality(S) = n
           /\ Ascending(S) = f
<1>1. \A i, j \in 1..n : f[i] = f[j] => i = j
  <2>. SUFFICES ASSUME NEW i \in 1..n, NEW j \in 1..n, f[i] = f[j] PROVE i = j
    OBVIOUS
  <2>1. f[i] \in Nat /\ f[j] \in Nat
    OBVIOUS
  <2>2. ~(i < j) /\ ~(j < i)
    BY <2>1
  <2>. QED  BY <2>2
<1>2. ASSUME NEW k \in 0..n, NEW T, \A x : x \in T <=> \E i \in 1..k : x = f[i]
      PROVE  IsFiniteSet(T) /\ Cardinality(T) = k
  <2>. DEFINE g == [i \in 1..k |-> f[i]]
  <2>1. 1..k \subseteq 1..n
    OBVIOUS
  <2>2. g \in Surjection(1..k, T)
    BY <1>2 DEF Surjection
  <2>3. g \in Injection(1..k, T)
    <3>1. g \in [1..k -> T]
      BY <1>2
    <3>. QED  BY <1>1, <2>1, <3>1 DEF Injection, IsInjective
  <2>4. IsFiniteSet(1..k) /\ Cardinality(1..k) = k
    BY FS_Interval
  <2>. HIDE DEF g
  <2>. QED  BY <2>2, <2>3, <2>4, FS_Surjection
<1>3. IsFiniteSet(S) /\ Cardinality(S) = n
  BY <1>2
<1>4. S \in SUBSET Nat
  OBVIOUS
<1>5. ASSUME NEW k \in 1..n PROVE Cardinality(Below(S, f[k])) = k - 1
  <2>1. ASSUME NEW x PROVE x \in Below(S, f[k]) <=> \E i \in 1..(k - 1) : x = f[i]
    <3>1. ASSUME NEW i \in 1..n, f[i] < f[k] PROVE i \in 1..(k - 1)
      <4>1. f[i] \in Nat /\ f[k] \in Nat
        OBVIOUS
      <4>2. ~(k < i) /\ i # k
        BY <3>1, <4>1
      <4>. QED  BY <4>2
    <3>2. \A i \in 1..(k - 1) : i \in 1..n /\ f[i] < f[k]
      OBVIOUS
    <3>. QED  BY <3>1, <3>2 DEF Below
  <2>2. k - 1 \in 0..n
    OBVIOUS
  <2>. QED  BY <1>2, <2>1, <2>2
<1>6. ASSUME NEW k \in 1..n
      PROVE  (CHOOSE x \in S : Cardinality(Below(S, x)) = k - 1) = f[k]
  <2>1. \A x \in S : Cardinality(Below(S, x)) = k - 1 => x = f[k]
    <3>. SUFFICES ASSUME NEW i \in 1..n, Cardinality(Below(S, f[i])) = k - 1
                  PROVE  f[i] = f[k]
      OBVIOUS
    <3>1. i - 1 = k - 1
      BY <1>5
    <3>. QED  BY <3>1
  <2>2. f[k] \in S /\ Cardinality(Below(S, f[k])) = k - 1
    BY <1>5
  <2>. QED  BY <2>1, <2>2
<1>7. Ascending(S) = [k \in 1..n |-> f[k]]
  BY <1>3, <1>6 DEF Ascending
<1>8. Ascending(S) = f
  BY <1>7
<1>. QED  BY <1>3, <1>4, <1>8

\* &b[lo..hi]
LEMMA SliceProperties ==
    ASSUME NEW b \in Seq(Byte), NEW hi \in 0..Len(b), NEW lo \in 0..hi
    PROVE  /\ Slice(b, lo, hi) \in Seq(Byte) /\ Len(Slice(b, lo, hi)) = hi - lo
           /\ \A i \in 0..(hi - lo - 1) : At(Slice(b, lo, hi), i) = At(b, lo + i)
<1>1. Len(b) \in Nat /\ \A i \in (lo + 1)..hi : b[i] \in Byte
  BY LenProperties, ElementOfSeq
<1>. DEFINE m == lo + 1
            s == SubSeq(b, m, hi)
<1>2. m \in Int /\ hi \in Int /\ \A i \in m..hi : b[i] \in Byte
  BY <1>1
<1>. HIDE DEF m
<1>3. /\ s \in Seq(Byte) /\ Len(s) = IF m <= hi THEN hi - m + 1 ELSE 0
      /\ \A i \in 1..(hi - m + 1) : s[i] = b[m + i - 1]
  BY <1>2, SubSeqProperties
<1>. HIDE DEF s
<1>4. Len(s) = hi - lo /\ \A i \in 0..(hi - lo - 1) : s[i + 1] = b[lo + i + 1]
  <2>1. ASSUME NEW i \in 0..(hi - lo - 1) PROVE s[i + 1] = b[lo + i + 1]
    <3>1. i + 1 \in 1..(hi - m + 1) /\ m + (i + 1) - 1 = lo + i + 1
      BY DEF m
    <3>. QED  BY <1>3, <3>1
  <2>. QED  BY <1>3, <2>1 DEF m
<1>. QED  BY <1>3, <1>4 DEF Slice, At, s, m

LEMMA ByteAt ==
    ASSUME NEW b \in Seq(Byte), NEW i \in 0..(Len(b) - 1)
    PROVE  At(b, i) \in Byte
<1>1. Len(b) \in Nat
  BY LenProperties
<1>2. i + 1 \in 1..Len(b)
  BY <1>1
<1>. QED  BY <1>2, ElementOfSeq DEF At

\* Two slices that hold the same bytes are the same.
LEMMA SliceAlike ==
    ASSUME NEW b \in Seq(Byte), NEW d \in Seq(Byte),
           NEW hi \in 0..Len(b), NEW lo \in 0..hi, NEW end \in 0..Len(d), NEW from \in 0..end,
           hi - lo = end - from,
           \A i \in 0..(hi - lo - 1) : At(b, lo + i) = At(d, from + i)
    PROVE  Slice(b, lo, hi) = Slice(d, from, end)
<1>. DEFINE s == Slice(b, lo, hi)
            t == Slice(d, from, end)
<1>1. /\ s \in Seq(Byte) /\ Len(s) = hi - lo
      /\ \A i \in 0..(hi - lo - 1) : At(s, i) = At(b, lo + i)
  BY SliceProperties
<1>2. /\ t \in Seq(Byte) /\ Len(t) = hi - lo
      /\ \A i \in 0..(hi - lo - 1) : At(t, i) = At(d, from + i)
  BY SliceProperties
<1>. HIDE DEF s, t
<1>3. ASSUME NEW k \in 1..(hi - lo) PROVE s[k] = t[k]
  <2>1. k - 1 \in 0..(hi - lo - 1) /\ (k - 1) + 1 = k
    OBVIOUS
  <2>2. At(s, k - 1) = At(t, k - 1)
    BY <1>1, <1>2, <2>1
  <2>. QED  BY <2>1, <2>2 DEF At
<1>4. s = t
  BY <1>1, <1>2, <1>3, SeqEqual
<1>. QED  BY <1>4 DEF s, t

\* What is left of bytes m to n of s when the first k of them are drained.
LEMMA DrainedSubSeq ==
    ASSUME NEW S, NEW s \in Seq(S),
           NEW m \in 1..(Len(s) + 1), NEW n \in (m - 1)..Len(s),
           NEW k \in 0..(n - m + 1)
    PROVE  /\ SubSeq(s, m, n) \in Seq(S) /\ Len(SubSeq(s, m, n)) = n - m + 1
           /\ DropFront(SubSeq(s, m, n), k) = SubSeq(s, m + k, n)
<1>. DEFINE t == SubSeq(s, m, n)
<1>1. Len(s) \in Nat
  BY LenProperties
<1>2. \A i \in m..n : s[i] \in S
  BY <1>1, ElementOfSeq
<1>3. t \in Seq(S) /\ Len(t) = n - m + 1
  BY <1>1, <1>2, SubSeqProperties
<1>4. CASE k = n - m + 1
  <2>1. SubSeq(t, k + 1, Len(t)) = << >>
    BY <1>1, <1>3, <1>4, SubSeqEmpty
  <2>2. SubSeq(s, m + k, n) = << >>
    BY <1>1, <1>4, SubSeqEmpty
  <2>. QED  BY <1>3, <2>1, <2>2 DEF DropFront
<1>5. CASE k < n - m + 1
  <2>. DEFINE p == k + 1
              q == n - m + 1
  <2>1. p \in 1..(n - m + 1) /\ q \in 1..(n - m + 1) /\ m \in 1..Len(s) /\ n \in 1..Len(s)
    BY <1>1, <1>5
  <2>. HIDE DEF p, q
  <2>2. SubSeq(t, p, q) = SubSeq(s, m + p - 1, m + q - 1)
    BY <2>1, <1>3, SubSeqOfSubSeq
  <2>3. m + p - 1 = m + k /\ m + q - 1 = n
    BY <1>1, <1>5 DEF p, q
  <2>. QED  BY <1>3, <2>2, <2>3 DEF DropFront, p, q
<1>. QED  BY <1>1, <1>4, <1>5, <1>3

\* Induction over offsets, for a set of those that are good: upwards, and
\* upwards from all those below.
LEMMA Upwards ==
    ASSUME NEW a \in Nat, NEW z \in Nat, NEW Good,
           a \in Good, \A k \in a..(z - 1) : k \in Good => k + 1 \in Good
    PROVE  \A k \in a..z : k \in Good
<1>. DEFINE Bad == {k \in a..z : k \notin Good}
<1>1. SUFFICES ASSUME Bad # {} PROVE FALSE
  BY <1>1
<1>2. Bad \in SUBSET Nat
  OBVIOUS
<1>3. PICK m \in Bad : \A k \in Bad : m <= k
  BY <1>1, <1>2, MinExists
<1>4. m \in a..z /\ m \notin Good /\ m # a
  BY <1>3
<1>5. m - 1 \in a..(z - 1) /\ m - 1 \notin Bad
  BY <1>3, <1>4
<1>6. m - 1 \in Good
  BY <1>5
<1>7. (m - 1) + 1 = m
  BY <1>4
<1>. QED  BY <1>4, <1>5, <1>6, <1>7

LEMMA UpwardsFromBelow ==
    ASSUME NEW z \in Nat, NEW Good,
           \A k \in 0..z : (\A j \in 0..(k - 1) : j \in Good) => k \in Good
    PROVE  \A k \in 0..z : k \in Good
<1>. DEFINE Bad == {k \in 0..z : k \notin Good}
<1>1. SUFFICES ASSUME Bad # {} PROVE FALSE
  BY <1>1
<1>2. Bad \in SUBSET Nat
  OBVIOUS
<1>3. PICK m \in Bad : \A k \in Bad : m <= k
  BY <1>1, <1>2, MinExists
<1>4. \A j \in 0..(m - 1) : j \in Good
  BY <1>3
<1>. QED  BY <1>3, <1>4

\* How FlattenSeq joins the first i of some sequences.
Joins(f, s, T) ==
    /\ f \in [1..Len(s) -> Seq(T)]
    /\ \A i \in 1..Len(s) : f[i] = IF i = 1 THEN s[i] ELSE f[i - 1] \o s[i]

\* Its recursive function exists: one for n + 1 sequences is made of one for n.
LEMMA JoinsExists ==
    ASSUME NEW T, NEW s \in Seq(Seq(T))
    PROVE  \E f : Joins(f, s, T)
<1>. DEFINE Is(n, f) == /\ f \in [1..n -> Seq(T)]
                       /\ \A i \in 1..n : f[i] = IF i = 1 THEN s[i] ELSE f[i - 1] \o s[i]
            Good == {n \in 0..Len(s) : \E f : Is(n, f)}
<1>1. Len(s) \in Nat
  BY LenProperties
<1>2. \A i \in 1..Len(s) : s[i] \in Seq(T)
  BY ElementOfSeq
<1>3. 0 \in Good
  <2>1. Is(0, [i \in 1..0 |-> << >>])
    OBVIOUS
  <2>2. 0 \in 0..Len(s)
    BY <1>1
  <2>. HIDE DEF Is
  <2>. QED  BY <2>1, <2>2
<1>4. ASSUME NEW m \in 0..(Len(s) - 1), m \in Good
      PROVE  m + 1 \in Good
  <2>. DEFINE n == m + 1
  <2>1. n \in 1..Len(s) /\ n - 1 = m /\ n \in 0..Len(s)
    BY <1>1
  <2>. HIDE DEF n
  <2>2. PICK f : Is(n - 1, f)
    BY <1>4, <2>1
  <2>. DEFINE g == [i \in 1..n |-> IF i < n THEN f[i] ELSE IF i = 1 THEN s[i] ELSE f[n - 1] \o s[n]]
  <2>3. f \in [1..(n - 1) -> Seq(T)]
    BY <2>2
  <2>4. \A i \in 1..n : g[i] \in Seq(T)
    <3>. SUFFICES ASSUME NEW i \in 1..n PROVE g[i] \in Seq(T)
      OBVIOUS
    <3>1. CASE i < n
      BY <2>1, <2>3, <3>1
    <3>2. CASE i = n /\ n > 1
      <4>1. f[n - 1] \in Seq(T) /\ s[n] \in Seq(T)
        BY <1>2, <2>1, <2>3, <3>2
      <4>2. f[n - 1] \o s[n] \in Seq(T)
        BY <4>1, ConcatProperties
      <4>. QED  BY <3>2, <4>2
    <3>3. CASE i = n /\ n = 1
      BY <1>2, <2>1, <2>3, <3>3
    <3>. QED  BY <2>1, <2>3, <3>1, <3>2, <3>3
  <2>5. g \in [1..n -> Seq(T)]
    BY <2>4
  <2>6. \A i \in 1..n : g[i] = IF i = 1 THEN s[i] ELSE g[i - 1] \o s[i]
    <3>. SUFFICES ASSUME NEW i \in 1..n
                  PROVE  g[i] = IF i = 1 THEN s[i] ELSE g[i - 1] \o s[i]
      OBVIOUS
    <3>1. CASE i < n
      <4>1. i \in 1..(n - 1) /\ (i > 1 => i - 1 \in 1..n /\ i - 1 < n)
        BY <2>1, <2>3, <3>1
      <4>2. f[i] = IF i = 1 THEN s[i] ELSE f[i - 1] \o s[i]
        BY <2>2, <4>1
      <4>3. g[i] = f[i] /\ (i > 1 => g[i - 1] = f[i - 1])
        BY <3>1, <4>1
      <4>. QED  BY <4>1, <4>2, <4>3
    <3>2. CASE i = n
      <4>1. n > 1 => n - 1 \in 1..n /\ n - 1 < n
        BY <2>1
      <4>2. n > 1 => g[n - 1] = f[n - 1]
        BY <4>1
      <4>. QED  BY <2>1, <2>3, <3>2, <4>2
    <3>. QED  BY <2>1, <2>3, <3>1, <3>2
  <2>7. Is(n, g)
    BY <2>5, <2>6
  <2>. QED  BY <2>1, <2>7 DEF n
<1>5. Len(s) \in Good
  <2>1. \A k \in 0..(Len(s) - 1) : k \in Good => k + 1 \in Good
    BY <1>4
  <2>. HIDE DEF Good
  <2>2. \A k \in 0..Len(s) : k \in Good
    BY <1>1, <1>3, <2>1, Upwards
  <2>. QED  BY <1>1, <2>2
<1>. QED  BY <1>5 DEF Joins

\* FlattenSeq is the last of its joins.
LEMMA FlattenJoins ==
    ASSUME NEW T, NEW s \in Seq(Seq(T)), s # << >>
    PROVE  \E f : Joins(f, s, T) /\ FlattenSeq(s) = f[Len(s)]
<1>. DEFINE P(f) == f = [i \in 1..Len(s) |-> IF i = 1 THEN s[i] ELSE f[i - 1] \o s[i]]
            g == CHOOSE f : P(f)
<1>1. Len(s) \in Nat /\ Len(s) # 0
  BY LenProperties, EmptySeq
<1>2. PICK f : Joins(f, s, T)
  BY JoinsExists
<1>3. P(f)
  BY <1>2 DEF Joins
<1>4. P(g)
  BY <1>3
<1>5. FlattenSeq(s) = g[Len(s)]
  BY <1>1 DEF FlattenSeq
<1>. HIDE DEF g
<1>6. \A i \in 1..Len(s) : g[i] = f[i]
  <2>. DEFINE Good == {i \in 1..Len(s) : g[i] = f[i]}
  <2>1. ASSUME NEW i \in 1..Len(s), i > 1 => g[i - 1] = f[i - 1]
        PROVE  g[i] = f[i]
    <3>1. g[i] = IF i = 1 THEN s[i] ELSE g[i - 1] \o s[i]
      BY <1>4
    <3>2. f[i] = IF i = 1 THEN s[i] ELSE f[i - 1] \o s[i]
      BY <1>2 DEF Joins
    <3>. QED  BY <2>1, <3>1, <3>2
  <2>2. 1 \in Good
    BY <1>1, <2>1
  <2>3. \A i \in 1..(Len(s) - 1) : i \in Good => i + 1 \in Good
    <3>. SUFFICES ASSUME NEW i \in 1..(Len(s) - 1), g[i] = f[i] PROVE g[i + 1] = f[i + 1]
      BY <1>1
    <3>1. i + 1 \in 1..Len(s) /\ (i + 1) - 1 = i
      BY <1>1
    <3>. QED  BY <2>1, <3>1
  <2>. HIDE DEF Good
  <2>4. \A i \in 1..Len(s) : i \in Good
    BY <1>1, <2>2, <2>3, Upwards
  <2>. QED  BY <2>4 DEF Good
<1>. QED  BY <1>1, <1>2, <1>5, <1>6

\* FlattenSeq of sequences one longer ends with the last of them.
LEMMA FlattenAppend ==
    ASSUME NEW T, NEW s \in Seq(Seq(T)), NEW e \in Seq(T)
    PROVE  /\ FlattenSeq(s) \in Seq(T)
           /\ FlattenSeq(Append(s, e)) = FlattenSeq(s) \o e
<1>. DEFINE t == Append(s, e)
            n == Len(s)
<1>1. /\ n \in Nat /\ t \in Seq(Seq(T)) /\ Len(t) = n + 1 /\ t[n + 1] = e
      /\ \A i \in 1..n : t[i] = s[i]
  BY LenProperties, AppendProperties
<1>. HIDE DEF t
<1>2. t # << >>
  <2>1. Len(<< >>) = 0
    BY EmptySeq
  <2>. QED  BY <1>1, <2>1
<1>3. PICK g : Joins(g, t, T) /\ FlattenSeq(t) = g[Len(t)]
  BY <1>1, <1>2, FlattenJoins
<1>6. \A i \in 1..(n + 1) : g[i] = IF i = 1 THEN t[i] ELSE g[i - 1] \o t[i]
  BY <1>1, <1>3 DEF Joins
<1>4. CASE s = << >>
  <2>1. FlattenSeq(s) = << >> /\ n = 0
    BY <1>4, EmptySeq DEF FlattenSeq
  <2>2. FlattenSeq(t) = e
    BY <1>1, <1>3, <2>1 DEF Joins
  <2>3. << >> \o e = e /\ << >> \in Seq(T)
    BY ConcatEmptySeq, EmptySeq
  <2>. QED  BY <2>1, <2>2, <2>3 DEF t
<1>5. CASE s # << >>
  <2>1. PICK f : Joins(f, s, T) /\ FlattenSeq(s) = f[n]
    BY <1>5, FlattenJoins
  <2>2. n \in 1..n /\ n > 0
    BY <1>1, <1>5, EmptySeq
  <2>3. \A i \in 1..n : f[i] = g[i]
    <3>. DEFINE Good == {i \in 1..n : f[i] = g[i]}
    <3>1. ASSUME NEW i \in 1..n, i > 1 => f[i - 1] = g[i - 1]
          PROVE  f[i] = g[i]
      <4>1. f[i] = IF i = 1 THEN s[i] ELSE f[i - 1] \o s[i]
        BY <2>1 DEF Joins
      <4>2. g[i] = IF i = 1 THEN t[i] ELSE g[i - 1] \o t[i]
        BY <1>1, <1>6
      <4>. QED  BY <1>1, <3>1, <4>1, <4>2
    <3>2. 1 \in Good
      BY <1>1, <2>2, <3>1
    <3>3. \A i \in 1..(n - 1) : i \in Good => i + 1 \in Good
      <4>. SUFFICES ASSUME NEW i \in 1..(n - 1), f[i] = g[i] PROVE f[i + 1] = g[i + 1]
        BY <1>1
      <4>1. i + 1 \in 1..n /\ (i + 1) - 1 = i
        BY <1>1
      <4>. QED  BY <3>1, <4>1
    <3>. HIDE DEF Good
    <3>4. \A i \in 1..n : i \in Good
      BY <1>1, <3>2, <3>3, Upwards
    <3>. QED  BY <3>4 DEF Good
  <2>4. g[n + 1] = g[n] \o e
    <3>1. n + 1 \in 1..(n + 1) /\ n + 1 # 1 /\ (n + 1) - 1 = n
      BY <1>1, <2>2
    <3>. QED  BY <1>1, <1>6, <3>1
  <2>5. f[n] = g[n] /\ f[n] \in Seq(T)
    BY <2>1, <2>2, <2>3 DEF Joins
  <2>. QED  BY <1>1, <1>3, <2>1, <2>4, <2>5 DEF t
<1>. QED  BY <1>4, <1>5

\* FlattenSeq of sequences is one of their kind.
LEMMA FlattenType ==
    ASSUME NEW T, NEW s \in Seq(Seq(T))
    PROVE  FlattenSeq(s) \in Seq(T)
<1>1. << >> \in Seq(T)
  BY EmptySeq
<1>. QED  BY <1>1, FlattenAppend

\* What is left when the trailing bits are gone.
LEMMA StripType ==
    ASSUME NEW b \in Seq(Byte)
    PROVE  StripTrailingBits(b) \in Seq(Byte)
<1>. DEFINE end == ZeroRun(b, 0, Len(b))
<1>1. Len(b) \in Nat
  BY LenProperties
<1>2. end \in 0..Len(b)
  BY <1>1, ZeroRunRange
<1>3. StripTrailingBits(b) = IF end > 0 /\ At(b, end - 1) = 128 THEN Slice(b, 0, end - 1)
                                                           ELSE Slice(b, 0, end)
  BY DEF StripTrailingBits
<1>. HIDE DEF end
<1>4. \A hi \in 0..Len(b) : Slice(b, 0, hi) \in Seq(Byte)
  BY SliceProperties
<1>5. end > 0 => end - 1 \in 0..Len(b)
  BY <1>1, <1>2
<1>. QED  BY <1>2, <1>3, <1>4, <1>5

-----------------------------------------------------------------------------
(*****************************************************************************)
(* FlattenSeq, place by place.                                              *)
(*****************************************************************************)

\* Where each of some sequences begins when they are put one after another, and
\* that they have been.
Places(o, s) ==
    /\ o \in [1..(Len(s) + 1) -> Nat]
    /\ o[1] = 0
    /\ \A j \in 1..Len(s) : o[j + 1] = o[j] + Len(s[j])

Laid(w, o, s) ==
    /\ Len(w) = o[Len(s) + 1]
    /\ \A j \in 1..Len(s) : \A i \in 1..Len(s[j]) : w[o[j] + i] = s[j][i]

LEMMA PlacesAscend ==
    ASSUME NEW T, NEW s \in Seq(Seq(T)), NEW o, Places(o, s)
    PROVE  \A i, j \in 1..(Len(s) + 1) : i <= j => o[i] <= o[j]
<1>. DEFINE n == Len(s)
<1>1. n \in Nat
  BY LenProperties
<1>2. \A j \in 1..n : o[j] \in Nat /\ o[j + 1] \in Nat /\ o[j] <= o[j + 1]
  <2>. SUFFICES ASSUME NEW j \in 1..n PROVE o[j] \in Nat /\ o[j + 1] \in Nat /\ o[j] <= o[j + 1]
    OBVIOUS
  <2>1. j \in 1..(n + 1) /\ j + 1 \in 1..(n + 1)
    BY <1>1
  <2>2. o[j] \in Nat /\ o[j + 1] \in Nat /\ o[j + 1] = o[j] + Len(s[j])
    BY <2>1 DEF Places
  <2>3. Len(s[j]) \in Nat
    BY ElementOfSeq, LenProperties
  <2>. QED  BY <2>2, <2>3
<1>. SUFFICES ASSUME NEW i \in 1..(n + 1) PROVE \A j \in i..(n + 1) : o[i] <= o[j]
  BY <1>1
<1>. DEFINE Good == {j \in i..(n + 1) : o[i] <= o[j]}
<1>3. o[i] \in Nat
  BY DEF Places
<1>4. i \in Good
  BY <1>1, <1>3
<1>5. \A j \in i..n : j \in Good => j + 1 \in Good
  <2>. SUFFICES ASSUME NEW j \in i..n, o[i] <= o[j] PROVE o[i] <= o[j + 1]
    BY <1>1
  <2>1. o[j] \in Nat /\ o[j + 1] \in Nat /\ o[j] <= o[j + 1]
    BY <1>1, <1>2
  <2>. QED  BY <1>3, <2>1
<1>. HIDE DEF Good
<1>6. \A j \in i..(n + 1) : j \in Good
  <2>1. i \in Nat /\ n + 1 \in Nat /\ (n + 1) - 1 = n
    BY <1>1
  <2>2. \A j \in i..((n + 1) - 1) : j \in Good => j + 1 \in Good
    BY <1>5, <2>1
  <2>. QED  BY <1>4, <2>1, <2>2, Upwards
<1>. QED  BY <1>6 DEF Good

\* Each of them lies inside the whole.
LEMMA PlaceInside ==
    ASSUME NEW T, NEW s \in Seq(Seq(T)), NEW o, Places(o, s), NEW j \in 1..Len(s)
    PROVE  /\ o[j] \in Nat /\ Len(s[j]) \in Nat /\ o[j + 1] = o[j] + Len(s[j])
           /\ o[j + 1] <= o[Len(s) + 1] /\ o[Len(s) + 1] \in Nat
<1>1. Len(s) \in Nat /\ Len(s[j]) \in Nat
  BY ElementOfSeq, LenProperties
<1>2. j \in 1..(Len(s) + 1) /\ j + 1 \in 1..(Len(s) + 1) /\ Len(s) + 1 \in 1..(Len(s) + 1)
      /\ j + 1 <= Len(s) + 1
  BY <1>1
<1>3. o[j + 1] <= o[Len(s) + 1]
  BY <1>2, PlacesAscend
<1>. QED  BY <1>1, <1>2, <1>3 DEF Places

LEMMA LaidAppend ==
    ASSUME NEW T, NEW s \in Seq(Seq(T)), NEW e \in Seq(T), NEW w \in Seq(T),
           NEW o, Places(o, s), Laid(w, o, s)
    PROVE  \E p : Places(p, Append(s, e)) /\ Laid(w \o e, p, Append(s, e))
<1>. DEFINE k == Len(s)
            m == k + 1
            t == Append(s, e)
            v == w \o e
            p == [j \in 1..(m + 1) |-> IF j = m + 1 THEN Len(v) ELSE o[j]]
<1>1. /\ k \in Nat /\ t \in Seq(Seq(T)) /\ Len(t) = m /\ t[m] = e
      /\ \A j \in 1..k : t[j] = s[j]
  BY LenProperties, AppendProperties
<1>2. /\ Len(w) \in Nat /\ Len(e) \in Nat /\ Len(v) = Len(w) + Len(e) /\ Len(v) \in Nat
      /\ \A i \in 1..(Len(w) + Len(e)) : v[i] = IF i <= Len(w) THEN w[i] ELSE e[i - Len(w)]
  BY LenProperties, ConcatProperties
<1>. HIDE DEF t, v
<1>3. o[m] = Len(w) /\ \A j \in 1..m : o[j] \in Nat
  BY <1>1 DEF Laid, Places
<1>4. /\ \A j \in 1..m : p[j] = o[j]
      /\ p[m + 1] = Len(v) /\ p[1] = 0 /\ p \in [1..(m + 1) -> Nat]
  <2>1. \A j \in 1..m : p[j] = o[j] /\ j \in 1..(m + 1)
    BY <1>1
  <2>2. p[m + 1] = Len(v)
    BY <1>1
  <2>3. 1 \in 1..m /\ \A j \in 1..(m + 1) : j = m + 1 \/ j \in 1..m
    BY <1>1
  <2>4. p[1] = 0
    BY <2>1, <2>3 DEF Places
  <2>. QED  BY <1>2, <1>3, <2>1, <2>2, <2>3, <2>4
<1>. HIDE DEF p
<1>5. ASSUME NEW j \in 1..m PROVE p[j + 1] = p[j] + Len(t[j])
  <2>1. CASE j = m
    BY <1>1, <1>2, <1>3, <1>4, <2>1
  <2>2. CASE j # m
    <3>1. j \in 1..k /\ j + 1 \in 1..m
      BY <1>1, <2>2
    <3>. QED  BY <1>1, <1>4, <3>1 DEF Places
  <2>. QED  BY <2>1, <2>2
<1>6. ASSUME NEW j \in 1..m, NEW i \in 1..Len(t[j]) PROVE v[p[j] + i] = t[j][i]
  <2>1. CASE j = m
    <3>1. p[j] = Len(w) /\ i \in 1..Len(e)
      BY <1>1, <1>3, <1>4, <2>1
    <3>2. Len(w) + i \in 1..(Len(w) + Len(e)) /\ ~(Len(w) + i <= Len(w)) /\ (Len(w) + i) - Len(w) = i
      BY <1>2, <3>1
    <3>. QED  BY <1>1, <1>2, <2>1, <3>1, <3>2
  <2>2. CASE j # m
    <3>1. j \in 1..k /\ p[j] = o[j] /\ t[j] = s[j] /\ i \in 1..Len(s[j])
      BY <1>1, <1>4, <2>2
    <3>2. o[j] + i \in 1..Len(w)
      <4>1. /\ o[j] \in Nat /\ Len(s[j]) \in Nat
            /\ o[j] + Len(s[j]) <= o[m]
        BY <3>1, PlaceInside
      <4>2. o[j] + Len(s[j]) <= Len(w)
        BY <1>3, <4>1
      <4>. DEFINE a == o[j]
                  c == Len(s[j])
                  l == Len(w)
      <4>3. i \in 1..c /\ a \in Nat /\ c \in Nat /\ a + c <= l /\ l \in Nat
        BY <1>2, <3>1, <4>1, <4>2
      <4>. HIDE DEF a, c, l
      <4>4. a + i \in 1..l
        BY <4>3
      <4>. QED  BY <4>4 DEF a, l
    <3>3. w[o[j] + i] = s[j][i]
      BY <3>1 DEF Laid
    <3>4. o[j] + i \in 1..(Len(w) + Len(e)) /\ o[j] + i <= Len(w)
      BY <1>2, <3>2
    <3>. QED  BY <1>2, <3>1, <3>3, <3>4
  <2>. QED  BY <2>1, <2>2
<1>7. Places(p, t)
  BY <1>1, <1>4, <1>5 DEF Places
<1>8. Laid(v, p, t)
  BY <1>1, <1>4, <1>6 DEF Laid
<1>. QED  BY <1>7, <1>8 DEF t, v

\* What FlattenSeq returns, place by place.
LEMMA FlattenPlaces ==
    ASSUME NEW T, NEW s \in Seq(Seq(T))
    PROVE  \E o : Places(o, s) /\ Laid(FlattenSeq(s), o, s)
<1>. DEFINE n == Len(s)
            first(k) == SubSeq(s, 1, k)
            Good == {k \in 0..n : \E o : /\ Places(o, first(k))
                                         /\ Laid(FlattenSeq(first(k)), o, first(k))}
<1>1. n \in Nat
  BY LenProperties
<1>2. \A k \in 0..n : first(k) \in Seq(Seq(T))
  <2>1. \A k \in 1..n : s[k] \in Seq(T)
    BY ElementOfSeq
  <2>. QED  BY <1>1, <2>1, SubSeqProperties
<1>3. 0 \in Good
  <2>. DEFINE o == [i \in 1..1 |-> 0]
  <2>1. first(0) = << >>
    BY SubSeqEmpty
  <2>2. FlattenSeq(<< >>) = << >> /\ Len(<< >>) = 0
    BY EmptySeq DEF FlattenSeq
  <2>3. o \in [1..1 -> Nat] /\ o[1] = 0
    OBVIOUS
  <2>. HIDE DEF o
  <2>4. Places(o, << >>) /\ Laid(<< >>, o, << >>)
    BY <2>2, <2>3 DEF Places, Laid
  <2>. HIDE DEF first
  <2>5. FlattenSeq(first(0)) = << >>
    BY <2>1, <2>2
  <2>6. Places(o, first(0)) /\ Laid(FlattenSeq(first(0)), o, first(0))
    BY <2>1, <2>4, <2>5
  <2>7. 0 \in 0..n
    BY <1>1
  <2>. QED  BY <2>6, <2>7
<1>4. ASSUME NEW k \in 0..(n - 1), k \in Good
      PROVE  k + 1 \in Good
  <2>1. k \in 0..n /\ k + 1 \in 0..n /\ k + 1 \in 1..n /\ (k + 1) - 1 = k /\ 1 \in 1..(k + 1)
    BY <1>1
  <2>2. first(k) \in Seq(Seq(T)) /\ s[k + 1] \in Seq(T)
    BY <1>2, <2>1, ElementOfSeq
  <2>3. first(k + 1) = Append(first(k), s[k + 1])
    BY <2>1, SubSeqRecursiveSecond
  <2>4. /\ FlattenSeq(first(k)) \in Seq(T)
        /\ FlattenSeq(first(k + 1)) = FlattenSeq(first(k)) \o s[k + 1]
    BY <2>2, <2>3, FlattenAppend
  <2>5. PICK o : Places(o, first(k)) /\ Laid(FlattenSeq(first(k)), o, first(k))
    BY <1>4
  <2>. HIDE DEF first
  <2>6. \E p : /\ Places(p, Append(first(k), s[k + 1]))
               /\ Laid(FlattenSeq(first(k)) \o s[k + 1], p, Append(first(k), s[k + 1]))
    BY <2>2, <2>4, <2>5, LaidAppend
  <2>. QED  BY <2>1, <2>3, <2>4, <2>6
<1>5. n \in Good
  <2>1. \A k \in 0..(n - 1) : k \in Good => k + 1 \in Good
    BY <1>4
  <2>. HIDE DEF Good
  <2>2. \A k \in 0..n : k \in Good
    BY <1>1, <1>3, <2>1, Upwards
  <2>. QED  BY <1>1, <2>2
<1>6. SubSeq(s, 1, n) = s
  BY SubSeqFull
<1>. QED  BY <1>5, <1>6

\* FlattenSeq goes on where it stands: behind s it puts the members of t one
\* after another.
LEMMA FlattenOn ==
    ASSUME NEW T, NEW s \in Seq(Seq(T)), NEW t \in Seq(Seq(T)),
           NEW r \in [0..Len(t) -> Seq(T)], r[0] = FlattenSeq(s),
           \A k \in 0..(Len(t) - 1) : r[k + 1] = r[k] \o t[k + 1]
    PROVE  FlattenSeq(s \o t) = r[Len(t)]
<1>. DEFINE n == Len(t)
            first(k) == SubSeq(t, 1, k)
            Good == {k \in 0..n : FlattenSeq(s \o first(k)) = r[k]}
<1>1. n \in Nat /\ 0 \in 0..n /\ n \in 0..n
  BY LenProperties
<1>2. first(0) = << >> /\ first(n) = t /\ s \o << >> = s
  BY SubSeqEmpty, SubSeqFull, ConcatEmptySeq
<1>3. ASSUME NEW k \in 0..(n - 1)
      PROVE  /\ s \o first(k) \in Seq(Seq(T)) /\ t[k + 1] \in Seq(T)
             /\ s \o first(k + 1) = Append(s \o first(k), t[k + 1])
  <2>1. k + 1 \in 1..n /\ (k + 1) - 1 = k /\ 1 \in 1..n /\ \A i \in 1..k : i \in 1..n
    BY <1>1
  <2>2. t[k + 1] \in Seq(T) /\ \A i \in 1..k : t[i] \in Seq(T)
    BY <2>1, ElementOfSeq
  <2>3. first(k) \in Seq(Seq(T))
    BY <1>1, <2>2, SubSeqProperties
  <2>4. first(k + 1) = first(k) \o <<t[k + 1]>>
    <3>1. SubSeq(t, 1, k + 1) = SubSeq(t, 1, (k + 1) - 1) \o <<t[k + 1]>>
      BY <2>1, SubSeqRecursiveSecond
    <3>. QED  BY <2>1, <3>1
  <2>. DEFINE u == first(k)
              e == t[k + 1]
              v == <<e>>
  <2>5. u \in Seq(Seq(T)) /\ e \in Seq(T) /\ v \in Seq(Seq(T))
    BY <2>2, <2>3
  <2>6. s \o u \in Seq(Seq(T))
    BY <2>5, ConcatProperties
  <2>. HIDE DEF first, u, v
  <2>7. s \o (u \o v) = (s \o u) \o v
    <3>. DEFINE S == Seq(T)
    <3>1. s \in Seq(S) /\ u \in Seq(S) /\ v \in Seq(S)
      BY <2>5
    <3>. HIDE DEF e, S
    <3>2. (s \o u) \o v = s \o (u \o v)
      BY <3>1, ConcatAssociative, SMTT(60)
    <3>. QED  BY <3>2
  <2>8. (s \o u) \o v = Append(s \o u, e)
    BY <2>5, <2>6, AppendIsConcat DEF v
  <2>9. first(k + 1) = u \o v
    BY <2>4 DEF u, v
  <2>. QED  BY <2>5, <2>6, <2>7, <2>8, <2>9 DEF u
<1>. HIDE DEF first
<1>4. 0 \in Good
  BY <1>1, <1>2
<1>5. ASSUME NEW k \in 0..(n - 1), k \in Good PROVE k + 1 \in Good
  <2>. DEFINE u == s \o first(k)
              e == t[k + 1]
  <2>1. u \in Seq(Seq(T)) /\ e \in Seq(T) /\ s \o first(k + 1) = Append(u, e)
    BY <1>3
  <2>2. FlattenSeq(u) = r[k] /\ r[k + 1] = r[k] \o e
    BY <1>5
  <2>. HIDE DEF u, e
  <2>3. FlattenSeq(Append(u, e)) = FlattenSeq(u) \o e
    BY <2>1, FlattenAppend
  <2>4. FlattenSeq(s \o first(k + 1)) = r[k + 1]
    BY <2>1, <2>2, <2>3, Zenon
  <2>. QED  BY <1>1, <2>4
<1>6. n \in Good
  <2>1. \A k \in 0..(n - 1) : k \in Good => k + 1 \in Good
    BY <1>5
  <2>. HIDE DEF Good
  <2>2. \A k \in 0..n : k \in Good
    BY <1>1, <1>4, <2>1, Upwards
  <2>. QED  BY <1>1, <2>2
<1>. QED  BY <1>2, <1>6

LEMMA FlattenIs ==
    ASSUME NEW T, NEW t \in Seq(Seq(T)),
           NEW r \in [0..Len(t) -> Seq(T)], r[0] = << >>,
           \A k \in 0..(Len(t) - 1) : r[k + 1] = r[k] \o t[k + 1]
    PROVE  FlattenSeq(t) = r[Len(t)]
<1>1. << >> \in Seq(Seq(T)) /\ FlattenSeq(<< >>) = << >>
  BY EmptySeq DEF FlattenSeq
<1>2. FlattenSeq(<< >> \o t) = r[Len(t)]
  <2>. DEFINE s == << >>
  <2>1. s \in Seq(Seq(T)) /\ r[0] = FlattenSeq(s)
    BY <1>1
  <2>. HIDE DEF s
  <2>2. FlattenSeq(s \o t) = r[Len(t)]
    BY <2>1, FlattenOn
  <2>. QED  BY <2>2 DEF s
<1>. QED  BY <1>2, ConcatEmptySeq

\* One for each member of a sequence, or none.
LEMMA FlattenSingles ==
    ASSUME NEW T, NEW s \in Seq(T), NEW t \in Seq(Seq(T)), Len(t) = Len(s),
           \A k \in 1..Len(s) : t[k] = <<s[k]>>
    PROVE  FlattenSeq(t) = s
<1>. DEFINE n == Len(s)
            r == [k \in 0..n |-> SubSeq(s, 1, k)]
<1>1. n \in Nat /\ \A k \in 1..n : s[k] \in T
  BY LenProperties, ElementOfSeq
<1>2. r[0] = << >> /\ r[n] = s
  BY <1>1, SubSeqEmpty, SubSeqFull
<1>3. r \in [0..n -> Seq(T)]
  <2>1. ASSUME NEW k \in 0..n PROVE SubSeq(s, 1, k) \in Seq(T)
    <3>1. \A i \in 1..k : s[i] \in T
      BY <1>1
    <3>. QED  BY <1>1, <3>1, SubSeqProperties
  <2>. QED  BY <2>1
<1>4. ASSUME NEW k \in 0..(n - 1) PROVE r[k + 1] = r[k] \o t[k + 1]
  <2>1. k + 1 \in 1..n /\ k + 1 \in 0..n /\ k \in 0..n /\ 1 \in 1..n /\ (k + 1) - 1 = k
    BY <1>1
  <2>2. SubSeq(s, 1, k + 1) = SubSeq(s, 1, (k + 1) - 1) \o <<s[k + 1]>>
    BY <2>1, SubSeqRecursiveSecond
  <2>. QED  BY <2>1, <2>2
<1>. HIDE DEF r
<1>5. FlattenSeq(t) = r[Len(t)]
  BY <1>2, <1>3, <1>4, FlattenIs
<1>. QED  BY <1>2, <1>5

LEMMA FlattenEmpties ==
    ASSUME NEW T, NEW t \in Seq(Seq(T)), \A k \in 1..Len(t) : t[k] = << >>
    PROVE  FlattenSeq(t) = << >>
<1>. DEFINE n == Len(t)
            r == [k \in 0..n |-> << >>]
<1>1. n \in Nat /\ << >> \in Seq(T) /\ << >> \o << >> = << >>
  <2>1. << >> \in Seq(T)
    OBVIOUS
  <2>. QED  BY <2>1, LenProperties, ConcatEmptySeq
<1>2. r \in [0..n -> Seq(T)] /\ r[0] = << >> /\ r[n] = << >>
  BY <1>1
<1>3. ASSUME NEW k \in 0..(n - 1) PROVE r[k + 1] = r[k] \o t[k + 1]
  <2>1. k \in 0..n /\ k + 1 \in 0..n /\ k + 1 \in 1..n
    BY <1>1
  <2>2. r[k + 1] = << >> /\ r[k] = << >> /\ t[k + 1] = << >>
    BY <2>1
  <2>. QED  BY <1>1, <2>2
<1>. HIDE DEF r
<1>4. FlattenSeq(t) = r[Len(t)]
  BY <1>2, <1>3, FlattenIs
<1>. QED  BY <1>2, <1>4

\* Two lists of sequences, one behind the other.
LEMMA FlattenConcat ==
    ASSUME NEW T, NEW s \in Seq(Seq(T)), NEW t \in Seq(Seq(T))
    PROVE  FlattenSeq(s \o t) = FlattenSeq(s) \o FlattenSeq(t)
<1>. DEFINE n == Len(t)
            F == FlattenSeq(s)
            f(k) == FlattenSeq(SubSeq(t, 1, k))
            r == [k \in 0..n |-> F \o f(k)]
<1>1. n \in Nat /\ F \in Seq(T) /\ \A k \in 1..n : t[k] \in Seq(T)
  BY LenProperties, ElementOfSeq, FlattenType
<1>2. ASSUME NEW k \in 0..n
      PROVE  SubSeq(t, 1, k) \in Seq(Seq(T)) /\ f(k) \in Seq(T) /\ F \o f(k) \in Seq(T)
  <2>1. \A i \in 1..k : t[i] \in Seq(T)
    BY <1>1
  <2>2. SubSeq(t, 1, k) \in Seq(Seq(T))
    BY <1>1, <2>1, SubSeqProperties
  <2>3. f(k) \in Seq(T)
    BY <2>2, FlattenType
  <2>. QED  BY <1>1, <2>2, <2>3, ConcatProperties
<1>3. f(0) = << >> /\ f(n) = FlattenSeq(t) /\ F \o << >> = F
  <2>1. SubSeq(t, 1, 0) = << >> /\ FlattenSeq(<< >>) = << >>
    BY SubSeqEmpty DEF FlattenSeq
  <2>. QED  BY <1>1, <2>1, SubSeqFull, ConcatEmptySeq
<1>4. ASSUME NEW k \in 0..(n - 1) PROVE F \o f(k + 1) = (F \o f(k)) \o t[k + 1]
  <2>1. k \in 0..n /\ k + 1 \in 1..n /\ 1 \in 1..n /\ (k + 1) - 1 = k
    BY <1>1
  <2>. DEFINE u == SubSeq(t, 1, k)
              e == t[k + 1]
  <2>2. u \in Seq(Seq(T)) /\ e \in Seq(T) /\ FlattenSeq(u) \in Seq(T)
    BY <1>1, <1>2, <2>1
  <2>3. SubSeq(t, 1, k + 1) = SubSeq(t, 1, (k + 1) - 1) \o <<t[k + 1]>>
    BY <2>1, SubSeqRecursiveSecond
  <2>4. SubSeq(t, 1, k + 1) = u \o <<e>>
    BY <2>1, <2>3
  <2>. HIDE DEF u, e
  <2>5. u \o <<e>> = Append(u, e)
    BY <2>2, AppendIsConcat
  <2>6. FlattenSeq(Append(u, e)) = FlattenSeq(u) \o e
    BY <2>2, FlattenAppend
  <2>. DEFINE w == FlattenSeq(u)
  <2>. HIDE DEF F
  <2>8. w \in Seq(T) /\ F \in Seq(T)
    BY <1>1, <2>2
  <2>. HIDE DEF w
  <2>7. (F \o w) \o e = F \o (w \o e)
    BY <2>2, <2>8, ConcatAssociative, SMTT(60)
  <2>. QED  BY <2>4, <2>5, <2>6, <2>7 DEF w, u, e
<1>5. /\ r \in [0..n -> Seq(T)] /\ r[0] = F /\ r[n] = F \o FlattenSeq(t)
      /\ \A k \in 0..(n - 1) : r[k + 1] = r[k] \o t[k + 1]
  <2>. HIDE DEF f, F
  <2>1. 0 \in 0..n /\ n \in 0..n /\ \A k \in 0..(n - 1) : k \in 0..n /\ k + 1 \in 0..n
    BY <1>1
  <2>. QED  BY <1>2, <1>3, <1>4, <2>1
<1>. HIDE DEF r, f
<1>6. FlattenSeq(s \o t) = r[Len(t)]
  BY <1>5, FlattenOn
<1>. QED  BY <1>5, <1>6

-----------------------------------------------------------------------------
\* Emulation prevention of whole byte strings, and of one byte more.

\* Bytes up to `at` of a string one longer.
LEMMA OneMore ==
    ASSUME NEW s \in Seq(Byte), NEW byte \in Byte
    PROVE  /\ Append(s, byte) \in Seq(Byte) /\ Len(Append(s, byte)) = Len(s) + 1
           /\ Len(s) \in Nat /\ At(Append(s, byte), Len(s)) = byte
           /\ \A i \in 0..(Len(s) - 1) : At(Append(s, byte), i) = At(s, i)
           /\ \A i \in 0..Len(s) : ZeroRun(Append(s, byte), 0, i) = ZeroRun(s, 0, i)
<1>. DEFINE t == Append(s, byte)
<1>1. /\ Len(s) \in Nat /\ t \in Seq(Byte) /\ Len(t) = Len(s) + 1 /\ t[Len(s) + 1] = byte
      /\ \A i \in 1..Len(s) : t[i] = s[i]
  BY LenProperties, AppendProperties
<1>. HIDE DEF t
<1>2. \A i \in 0..(Len(s) - 1) : At(t, i) = At(s, i)
  <2>1. \A i \in 0..(Len(s) - 1) : i + 1 \in 1..Len(s)
    BY <1>1
  <2>. QED  BY <1>1, <2>1 DEF At
<1>3. ASSUME NEW i \in 0..Len(s) PROVE ZeroRun(t, 0, i) = ZeroRun(s, 0, i)
  <2>1. \A j \in 0..(i - 1) : At(s, j) = At(t, j)
    BY <1>1, <1>2
  <2>. QED  BY <1>1, <2>1, ZeroRunSame
<1>. QED  BY <1>1, <1>2, <1>3 DEF t, At

\* What a byte of the rbsp becomes on the wire.
Written(rbsp_, i) ==
    IF NeedsEscape(rbsp_, i - 1) THEN <<3, rbsp_[i]>> ELSE <<rbsp_[i]>>

LEMMA InsertAppend ==
    ASSUME NEW s \in Seq(Byte), NEW byte \in Byte
    PROVE  LET zeros == Len(s) - ZeroRun(s, 0, Len(s))
           IN  InsertEmulationPrevention(Append(s, byte)) =
                   InsertEmulationPrevention(s) \o
                       (IF byte <= 3 /\ zeros >= 2 /\ zeros % 2 = 0 THEN <<3, byte>> ELSE <<byte>>)
<1>. DEFINE t == Append(s, byte)
            n == Len(s)
            before == [k \in 1..n |-> Written(s, k)]
            after  == [k \in 1..(n + 1) |-> Written(t, k)]
            last   == Written(t, n + 1)
<1>1. /\ t \in Seq(Byte) /\ Len(t) = n + 1 /\ n \in Nat /\ At(t, n) = byte
      /\ \A i \in 0..(n - 1) : At(t, i) = At(s, i)
      /\ \A i \in 0..n : ZeroRun(t, 0, i) = ZeroRun(s, 0, i)
  BY OneMore
<1>2. \A b \in Seq(Byte), k \in Nat : k \in 1..Len(b) => Written(b, k) \in Seq(Byte)
  <2>. SUFFICES ASSUME NEW b \in Seq(Byte), NEW k \in 1..Len(b)
                PROVE  Written(b, k) \in Seq(Byte)
    OBVIOUS
  <2>1. b[k] \in Byte /\ 3 \in Byte
    BY ElementOfSeq DEF Byte
  <2>2. <<3, b[k]>> \in Seq(Byte) /\ <<b[k]>> \in Seq(Byte)
    BY <2>1
  <2>. QED  BY <2>2 DEF Written
<1>. HIDE DEF t
<1>3. before \in Seq(Seq(Byte)) /\ Len(before) = n /\ last \in Seq(Byte)
  <2>1. \A k \in 1..n : Written(s, k) \in Seq(Byte)
    BY <1>1, <1>2
  <2>2. before \in [1..n -> Seq(Byte)]
    BY <2>1
  <2>3. n + 1 \in 1..Len(t) /\ n + 1 \in Nat
    BY <1>1
  <2>4. last \in Seq(Byte)
    BY <1>1, <1>2, <2>3
  <2>5. before \in Seq(Seq(Byte)) /\ Len(before) = n
    <3>. HIDE DEF before
    <3>. QED  BY <1>1, <2>2, SeqDef, LenProperties
  <2>. QED  BY <2>4, <2>5
<1>4. ASSUME NEW k \in 1..n PROVE Written(t, k) = Written(s, k)
  <2>1. k - 1 \in 0..(n - 1) /\ k - 1 \in 0..n /\ (k - 1) + 1 = k
    BY <1>1
  <2>2. At(t, k - 1) = At(s, k - 1) /\ ZeroRun(t, 0, k - 1) = ZeroRun(s, 0, k - 1)
    BY <1>1, <2>1
  <2>3. t[k] = s[k]
    BY <2>1, <2>2 DEF At
  <2>. QED  BY <2>2, <2>3 DEF Written, NeedsEscape
<1>. HIDE DEF last
<1>5. after = Append(before, last)
  <2>1. /\ Len(Append(before, last)) = n + 1 /\ Append(before, last)[n + 1] = last
        /\ \A k \in 1..n : Append(before, last)[k] = before[k]
        /\ Append(before, last) \in Seq(Seq(Byte))
    <3>. HIDE DEF before
    <3>. QED  BY <1>3, AppendProperties
  <2>2. Append(before, last) = [k \in 1..(n + 1) |-> Append(before, last)[k]]
    <3>. DEFINE a == Append(before, last)
    <3>1. a \in Seq(Seq(Byte)) /\ Len(a) = n + 1
      BY <2>1
    <3>. HIDE DEF a
    <3>2. a = [k \in 1..Len(a) |-> a[k]]
      BY <3>1
    <3>. QED  BY <3>1, <3>2 DEF a
  <2>3. \A k \in 1..(n + 1) : after[k] = Append(before, last)[k]
    <3>. SUFFICES ASSUME NEW k \in 1..(n + 1) PROVE Written(t, k) = Append(before, last)[k]
      OBVIOUS
    <3>1. k \in 1..n \/ k = n + 1
      BY <1>1
    <3>2. CASE k \in 1..n
      BY <1>4, <2>1, <3>2
    <3>3. CASE k = n + 1
      BY <2>1, <3>3 DEF last
    <3>. QED  BY <3>1, <3>2, <3>3
  <2>. QED  BY <2>2, <2>3
<1>6. FlattenSeq(after) = FlattenSeq(before) \o last
  <2>. HIDE DEF before, after
  <2>. QED  BY <1>3, <1>5, FlattenAppend
<1>7. InsertEmulationPrevention(s) = FlattenSeq(before)
  BY DEF InsertEmulationPrevention, Written
<1>8. InsertEmulationPrevention(t) = FlattenSeq(after)
  BY <1>1 DEF InsertEmulationPrevention, Written
<1>9. last = IF byte <= 3 /\ n - ZeroRun(s, 0, n) >= 2 /\ (n - ZeroRun(s, 0, n)) % 2 = 0
             THEN <<3, byte>> ELSE <<byte>>
  <2>1. t[n + 1] = byte /\ (n + 1) - 1 = n /\ n \in 0..n
    BY <1>1 DEF At
  <2>2. ZeroRun(t, 0, n) = ZeroRun(s, 0, n)
    BY <1>1, <2>1
  <2>. QED  BY <1>1, <2>1, <2>2 DEF last, Written, NeedsEscape
<1>. HIDE DEF before, after
<1>. QED  BY <1>6, <1>7, <1>8, <1>9 DEF t

\* Whether the reader drops a byte is decided by the run of zeroes before it.
LEMMA EscapeIsRun ==
    ASSUME NEW w \in Seq(Byte), NEW i \in 0..(Len(w) - 1)
    PROVE  IsEscape(w, i) <=> i - ZeroRun(w, 0, i) >= 2 /\ At(w, i) = 3
<1>1. i \in Nat /\ Len(w) \in Nat
  BY LenProperties
<1>2. i - ZeroRun(w, 0, i) >= 2 <=> i >= 2 /\ At(w, i - 2) = 0 /\ At(w, i - 1) = 0
  BY <1>1, ZeroRunTwo
<1>3. CASE i < 2
  BY <1>2, <1>3 DEF IsEscape
<1>4. CASE i >= 2
  <2>. DEFINE b == Slice(w, i - 2, i + 1)
  <2>1. (i - 2) + 1 \in 1..Len(w) /\ i + 1 \in 1..Len(w) /\ (i - 2) + 1 = i - 1
    BY <1>1, <1>4
  <2>2. \A j \in (i - 1)..(i + 1) : w[j] \in Byte
    <3>1. \A j \in (i - 1)..(i + 1) : j \in 1..Len(w)
      BY <2>1
    <3>. QED  BY <3>1, ElementOfSeq
  <2>3. /\ b \in Seq(Byte) /\ Len(b) = 3
        /\ b[1] = w[i - 1] /\ b[2] = w[i] /\ b[3] = w[i + 1]
    <3>1. b = SubSeq(w, i - 1, i + 1)
      BY <2>1 DEF Slice
    <3>2. /\ SubSeq(w, i - 1, i + 1) \in Seq(Byte)
          /\ Len(SubSeq(w, i - 1, i + 1)) = (i + 1) - (i - 1) + 1
          /\ \A j \in 1..((i + 1) - (i - 1) + 1) :
                 SubSeq(w, i - 1, i + 1)[j] = w[(i - 1) + j - 1]
      <4>. DEFINE m == i - 1
                  n == i + 1
      <4>1. m \in 1..(Len(w) + 1) /\ n \in (m - 1)..Len(w)
        BY <1>1, <1>4
      <4>2. \A j \in m..n : w[j] \in Byte
        BY <2>2
      <4>3. /\ Len(SubSeq(w, m, n)) = n - m + 1
            /\ \A j \in 1..(n - m + 1) : SubSeq(w, m, n)[j] = w[m + j - 1]
        <5>. HIDE DEF m, n
        <5>. QED  BY <4>1, <4>2, SubSeqProperties
      <4>. QED  BY <4>1, <4>2, <4>3, SubSeqProperties
    <3>3. /\ (i + 1) - (i - 1) + 1 = 3 /\ 1 \in 1..3 /\ 2 \in 1..3 /\ 3 \in 1..3
          /\ (i - 1) + 1 - 1 = i - 1 /\ (i - 1) + 2 - 1 = i /\ (i - 1) + 3 - 1 = i + 1
      BY <1>1
    <3>. HIDE DEF b
    <3>. QED  BY <3>1, <3>2, <3>3
  <2>. HIDE DEF b
  <2>4. b = <<0, 0, 3>> <=> b[1] = 0 /\ b[2] = 0 /\ b[3] = 3
    <3>1. ASSUME b[1] = 0, b[2] = 0, b[3] = 3 PROVE b = <<0, 0, 3>>
      <4>1. b = [j \in 1..3 |-> b[j]]
        BY <2>3
      <4>2. \A j \in 1..3 : j = 1 \/ j = 2 \/ j = 3
        OBVIOUS
      <4>3. <<0, 0, 3>> = [j \in 1..3 |-> <<0, 0, 3>>[j]]
        OBVIOUS
      <4>4. \A j \in 1..3 : b[j] = <<0, 0, 3>>[j]
        BY <3>1, <4>2
      <4>. QED  BY <4>1, <4>3, <4>4
    <3>2. ASSUME b = <<0, 0, 3>> PROVE b[1] = 0 /\ b[2] = 0 /\ b[3] = 3
      BY <3>2
    <3>. QED  BY <3>1, <3>2
  <2>5. /\ At(w, i - 2) = w[i - 1] /\ At(w, i - 1) = w[i] /\ At(w, i) = w[i + 1]
    <3>1. (i - 2) + 1 = i - 1 /\ (i - 1) + 1 = i
      BY <1>1
    <3>. QED  BY <3>1 DEF At
  <2>6. IsEscape(w, i) <=> b = <<0, 0, 3>>
    BY <1>4 DEF IsEscape, b
  <2>. QED  BY <1>2, <1>4, <2>3, <2>4, <2>5, <2>6
<1>. QED  BY <1>1, <1>3, <1>4

LEMMA RemoveAppend ==
    ASSUME NEW s \in Seq(Byte), NEW byte \in Byte
    PROVE  RemoveEmulationPrevention(Append(s, byte)) =
               IF Len(s) - ZeroRun(s, 0, Len(s)) >= 2 /\ byte = 3
               THEN RemoveEmulationPrevention(s)
               ELSE Append(RemoveEmulationPrevention(s), byte)
<1>. DEFINE t == Append(s, byte)
            n == Len(s)
            Ks == {i \in 0..(n - 1) : ~IsEscape(s, i)}
            Kt == {i \in 0..n : ~IsEscape(t, i)}
            kept == Ascending(Ks)
            m == Cardinality(Ks)
<1>1. /\ t \in Seq(Byte) /\ Len(t) = n + 1 /\ n \in Nat /\ At(t, n) = byte
      /\ \A i \in 0..(n - 1) : At(t, i) = At(s, i)
      /\ \A i \in 0..n : ZeroRun(t, 0, i) = ZeroRun(s, 0, i)
  BY OneMore
<1>. HIDE DEF t
<1>2. \A i \in 0..(n - 1) : IsEscape(t, i) <=> IsEscape(s, i)
  <2>. SUFFICES ASSUME NEW i \in 0..(n - 1) PROVE IsEscape(t, i) <=> IsEscape(s, i)
    OBVIOUS
  <2>1. i \in 0..(Len(t) - 1) /\ i \in 0..n
    BY <1>1
  <2>2. IsEscape(t, i) <=> i - ZeroRun(t, 0, i) >= 2 /\ At(t, i) = 3
    BY <1>1, <2>1, EscapeIsRun
  <2>3. IsEscape(s, i) <=> i - ZeroRun(s, 0, i) >= 2 /\ At(s, i) = 3
    BY <1>1, EscapeIsRun
  <2>. QED  BY <1>1, <2>1, <2>2, <2>3
<1>3. IsEscape(t, n) <=> n - ZeroRun(s, 0, n) >= 2 /\ byte = 3
  <2>1. n \in 0..(Len(t) - 1) /\ n \in 0..n
    BY <1>1
  <2>2. IsEscape(t, n) <=> n - ZeroRun(t, 0, n) >= 2 /\ At(t, n) = 3
    BY <1>1, <2>1, EscapeIsRun
  <2>. QED  BY <1>1, <2>1, <2>2
<1>4. Ks \in SUBSET Nat /\ IsFiniteSet(Ks) /\ n \notin Ks
  <2>1. Ks \in SUBSET (0..(n - 1)) /\ IsFiniteSet(0..(n - 1))
    <3>1. 0 \in Int /\ n - 1 \in Int
      BY <1>1
    <3>2. IsFiniteSet(0..(n - 1))
      BY <3>1, FS_Interval
    <3>. QED  BY <3>2
  <2>2. IsFiniteSet(Ks)
    BY <2>1, FS_Subset
  <2>. QED  BY <1>1, <2>1, <2>2
<1>5. /\ kept \in [1..m -> Nat] /\ Len(kept) = m /\ m \in Nat
      /\ \A k \in 1..m : kept[k] \in Ks
      /\ \A i, j \in 1..m : i < j => kept[i] < kept[j]
      /\ \A x \in Ks : \E k \in 1..m : kept[k] = x
  <2>. HIDE DEF Ks
  <2>1. /\ kept \in Seq(Ks) /\ Len(kept) = m /\ m \in Nat
        /\ \A i, j \in 1..m : i < j => kept[i] < kept[j]
    BY <1>4, AscendingProperties
  <2>2. /\ \A k \in 1..m : kept[k] \in Ks
        /\ \A x \in Ks : \E k \in 1..m : kept[k] = x
    BY <1>4, AscendingOnto
  <2>3. kept \in [1..m -> Nat]
    <3>. HIDE DEF kept, m
    <3>1. kept \in [1..m -> Ks]
      BY <2>1, LenProperties
    <3>. QED  BY <1>4, <3>1
  <2>. QED  BY <2>1, <2>2, <2>3
<1>6. RemoveEmulationPrevention(s) = [k \in 1..m |-> At(s, kept[k])]
  BY <1>5 DEF RemoveEmulationPrevention
<1>7. RemoveEmulationPrevention(t) = [k \in 1..Len(Ascending(Kt)) |-> At(t, Ascending(Kt)[k])]
  <2>1. 0..(Len(t) - 1) = 0..n
    BY <1>1
  <2>. QED  BY <2>1 DEF RemoveEmulationPrevention
<1>8. \A k \in 1..m : kept[k] \in 0..(n - 1) /\ At(t, kept[k]) = At(s, kept[k])
  <2>. SUFFICES ASSUME NEW k \in 1..m PROVE kept[k] \in 0..(n - 1) /\ At(t, kept[k]) = At(s, kept[k])
    OBVIOUS
  <2>1. kept[k] \in Ks
    BY <1>5
  <2>2. kept[k] \in 0..(n - 1)
    BY <2>1
  <2>. QED  BY <1>1, <2>2
<1>9. CASE IsEscape(t, n)
  <2>1. Kt = Ks
    <3>1. \A i : i \in 0..n <=> i \in 0..(n - 1) \/ i = n
      BY <1>1
    <3>. QED  BY <1>2, <1>9, <3>1
  <2>2. RemoveEmulationPrevention(t) = [k \in 1..m |-> At(t, kept[k])]
    BY <1>5, <1>7, <2>1
  <2>. HIDE DEF kept, m, Ks, Kt
  <2>3. RemoveEmulationPrevention(t) = RemoveEmulationPrevention(s)
    BY <1>6, <1>8, <2>2
  <2>. QED  BY <1>3, <1>9, <2>3 DEF t
<1>10. CASE ~IsEscape(t, n)
  <2>. DEFINE f == [k \in 1..(m + 1) |-> IF k <= m THEN kept[k] ELSE n]
  <2>1. \A x : x \in Kt <=> x \in Ks \/ x = n
    <3>1. \A i : i \in 0..n <=> i \in 0..(n - 1) \/ i = n
      BY <1>1
    <3>. QED  BY <1>2, <1>10, <3>1
  <2>. HIDE DEF kept, m, Ks, Kt
  <2>2. f \in [1..(m + 1) -> Nat] /\ m + 1 \in Nat
    <3>1. \A k \in 1..(m + 1) : (IF k <= m THEN kept[k] ELSE n) \in Nat
      <4>. SUFFICES ASSUME NEW k \in 1..(m + 1) PROVE (IF k <= m THEN kept[k] ELSE n) \in Nat
        OBVIOUS
      <4>1. k <= m => k \in 1..m
        BY <1>5
      <4>. QED  BY <1>1, <1>5, <4>1
    <3>. QED  BY <1>5, <3>1
  <2>3. \A i, j \in 1..(m + 1) : i < j => f[i] < f[j]
    <3>. SUFFICES ASSUME NEW i \in 1..(m + 1), NEW j \in 1..(m + 1), i < j PROVE f[i] < f[j]
      OBVIOUS
    <3>1. i \in 1..m /\ f[i] = kept[i] /\ f[i] \in 0..(n - 1)
      BY <1>5, <1>8
    <3>2. CASE j \in 1..m
      <4>1. f[j] = kept[j] /\ kept[i] < kept[j]
        BY <1>5, <3>1, <3>2
      <4>. QED  BY <3>1, <4>1
    <3>3. CASE j = m + 1
      <4>1. f[j] = n
        BY <1>5, <3>3
      <4>. QED  BY <1>1, <3>1, <4>1
    <3>. QED  BY <1>5, <3>2, <3>3
  <2>4. \A x : x \in Kt <=> \E k \in 1..(m + 1) : x = f[k]
    <3>1. m + 1 \in 1..(m + 1) /\ f[m + 1] = n
      BY <1>5
    <3>2. \A k \in 1..m : k \in 1..(m + 1) /\ f[k] = kept[k]
      BY <1>5
    <3>3. \A k \in 1..(m + 1) : k \in 1..m \/ k = m + 1
      BY <1>5
    <3>4. ASSUME NEW x \in Ks PROVE \E k \in 1..(m + 1) : x = f[k]
      <4>1. PICK k \in 1..m : kept[k] = x
        BY <1>5
      <4>. QED  BY <3>2, <4>1
    <3>5. ASSUME NEW k \in 1..(m + 1) PROVE f[k] \in Kt
      <4>1. CASE k \in 1..m
        BY <1>5, <2>1, <3>2, <4>1
      <4>2. CASE k = m + 1
        BY <2>1, <3>1, <4>2
      <4>. QED  BY <3>3, <4>1, <4>2
    <3>. HIDE DEF f
    <3>. QED  BY <2>1, <3>1, <3>4, <3>5
  <2>5. Ascending(Kt) = f
    <3>. HIDE DEF f
    <3>. QED  BY <2>2, <2>3, <2>4, AscendingUnique
  <2>6. Len(f) = m + 1
    <3>1. f \in Seq(Nat) /\ DOMAIN f = 1..(m + 1)
      <4>1. DOMAIN f = 1..(m + 1)
        OBVIOUS
      <4>. HIDE DEF f
      <4>. QED  BY <2>2, <4>1, SeqDef
    <3>. HIDE DEF f
    <3>. QED  BY <1>5, <2>2, <3>1, LenProperties
  <2>. DEFINE r == RemoveEmulationPrevention(s)
              v == RemoveEmulationPrevention(t)
  <2>7. v = [k \in 1..(m + 1) |-> At(t, f[k])]
    BY <1>7, <2>5, <2>6
  <2>8. r \in Seq(Byte) /\ Len(r) = m
    <3>1. \A k \in 1..m : At(s, kept[k]) \in Byte
      <4>. SUFFICES ASSUME NEW k \in 1..m PROVE At(s, kept[k]) \in Byte
        OBVIOUS
      <4>1. kept[k] + 1 \in 1..Len(s)
        BY <1>1, <1>8
      <4>. QED  BY <4>1, ElementOfSeq DEF At
    <3>2. r \in [1..m -> Byte]
      BY <1>6, <3>1
    <3>. HIDE DEF r
    <3>3. r \in Seq(Byte)
      BY <1>5, <3>2, SeqDef
    <3>. QED  BY <1>5, <3>2, <3>3, LenProperties
  <2>9. v = Append(r, byte)
    <3>1. \A k \in 1..m : v[k] = r[k]
      <4>. SUFFICES ASSUME NEW k \in 1..m PROVE v[k] = r[k]
        OBVIOUS
      <4>1. k \in 1..(m + 1) /\ f[k] = kept[k]
        BY <1>5
      <4>. HIDE DEF f
      <4>2. v[k] = At(t, kept[k])
        BY <2>7, <4>1
      <4>3. r[k] = At(s, kept[k])
        BY <1>6
      <4>. QED  BY <1>8, <4>2, <4>3
    <3>2. v[m + 1] = byte
      <4>1. m + 1 \in 1..(m + 1) /\ f[m + 1] = n
        BY <1>5
      <4>. HIDE DEF f
      <4>. QED  BY <1>1, <2>7, <4>1
    <3>3. DOMAIN v = 1..(m + 1) /\ v = [k \in 1..(m + 1) |-> v[k]]
      <4>. HIDE DEF f
      <4>. QED  BY <2>7
    <3>. HIDE DEF r, v
    <3>. DEFINE a == Append(r, byte)
    <3>4. /\ a \in Seq(Byte) /\ Len(a) = m + 1 /\ a[m + 1] = byte
          /\ \A k \in 1..m : a[k] = r[k]
      BY <2>8, AppendProperties
    <3>. HIDE DEF a
    <3>5. a = [k \in 1..(m + 1) |-> a[k]]
      BY <3>4
    <3>6. \A k \in 1..(m + 1) : a[k] = v[k]
      <4>1. \A k \in 1..(m + 1) : k \in 1..m \/ k = m + 1
        BY <1>5
      <4>. QED  BY <3>1, <3>2, <3>4, <4>1
    <3>. QED  BY <3>3, <3>5, <3>6 DEF a
  <2>. QED  BY <1>3, <1>10, <2>9 DEF t
<1>. QED  BY <1>9, <1>10

\* How many zeroes a byte string ends in.
ZeroesAtEnd(b) == Len(b) - ZeroRun(b, 0, Len(b))

LEMMA ZeroesAppend ==
    ASSUME NEW s \in Seq(Byte), NEW byte \in Byte
    PROVE  /\ ZeroesAtEnd(Append(s, byte)) = IF byte = 0 THEN ZeroesAtEnd(s) + 1 ELSE 0
           /\ ZeroesAtEnd(s) \in Nat
<1>. DEFINE t == Append(s, byte)
            n == Len(s)
<1>1. /\ Len(t) = n + 1 /\ n \in Nat /\ At(t, n) = byte
      /\ ZeroRun(t, 0, n) = ZeroRun(s, 0, n)
  <2>1. Len(s) \in Nat
    BY LenProperties
  <2>2. Len(s) \in 0..Len(s)
    BY <2>1
  <2>. QED  BY <2>2, OneMore
<1>2. ZeroRun(s, 0, n) \in 0..n
  BY <1>1, ZeroRunRange
<1>. HIDE DEF t, n
<1>3. ZeroRun(t, 0, n + 1) = IF At(t, n) = 0 THEN ZeroRun(t, 0, n) ELSE n + 1
  BY <1>1, ZeroRunNext
<1>. QED  BY <1>1, <1>2, <1>3 DEF ZeroesAtEnd, t, n

\* What is left when the emulation prevention bytes are gone.
LEMMA RemoveType ==
    ASSUME NEW wire \in Seq(Byte)
    PROVE  RemoveEmulationPrevention(wire) \in Seq(Byte)
<1>. DEFINE S == {i \in 0..(Len(wire) - 1) : ~IsEscape(wire, i)}
            kept == Ascending(S)
<1>1. Len(wire) \in Nat
  BY LenProperties
<1>2. S \in SUBSET Nat /\ IsFiniteSet(S)
  <2>1. IsFiniteSet(0..(Len(wire) - 1))
    BY <1>1, FS_Interval
  <2>. QED  BY <2>1, FS_Subset
<1>3. kept \in Seq(S)
  BY <1>2, AscendingProperties
<1>4. RemoveEmulationPrevention(wire) = [k \in 1..Len(kept) |-> At(wire, kept[k])]
  BY DEF RemoveEmulationPrevention
<1>5. \A i \in S : i \in 0..(Len(wire) - 1)
  OBVIOUS
<1>. HIDE DEF kept, S
<1>6. ASSUME NEW k \in 1..Len(kept) PROVE At(wire, kept[k]) \in Byte
  <2>1. kept[k] \in 0..(Len(wire) - 1)
    BY <1>3, <1>5, ElementOfSeq
  <2>. QED  BY <2>1, ByteAt
<1>7. Len(kept) \in Nat
  BY <1>3, LenProperties
<1>. QED  BY <1>4, <1>6, <1>7, IsASeq

\* What insert_emulation_prevention writes of an rbsp: bytes that are read back, with
\* no start code among them; the first is the rbsp's first and the last its last,
\* and the zeroes at the end are those a round of the loop counts.
Escapes(wire, rbsp) ==
    /\ wire \in Seq(Byte) /\ Len(wire) >= Len(rbsp)
    /\ RemoveEmulationPrevention(wire) = rbsp
    /\ \A i \in 1..(Len(wire) - 2) : wire[i] = 0 /\ wire[i + 1] = 0 => wire[i + 2] > 2
    /\ Len(rbsp) > 0 => wire[1] = rbsp[1] /\ wire[Len(wire)] = rbsp[Len(rbsp)]
    /\ ZeroesAtEnd(wire) >= 2 <=> ZeroesAtEnd(rbsp) >= 2 /\ ZeroesAtEnd(rbsp) % 2 = 0
    /\ ZeroesAtEnd(wire) = 0 <=> ZeroesAtEnd(rbsp) = 0
    /\ ZeroesAtEnd(wire) <= 2

LEMMA RemoveNothing == RemoveEmulationPrevention(<< >>) = << >>
<1>. DEFINE S == {i \in 0..(Len(<< >>) - 1) : ~IsEscape(<< >>, i)}
            f == [k \in 1..0 |-> 0]
<1>1. S = {}
  OBVIOUS
<1>2. Cardinality(S) = 0 /\ Ascending(S) = f
  <2>1. 0 \in Nat /\ f \in [1..0 -> Nat] /\ \A i, j \in 1..0 : i < j => f[i] < f[j]
    OBVIOUS
  <2>2. \A x : x \in S <=> \E i \in 1..0 : x = f[i]
    BY <1>1
  <2>. HIDE DEF f, S
  <2>. QED  BY <2>1, <2>2, AscendingUnique
<1>3. Ascending(S) = << >>
  BY <1>2
<1>4. RemoveEmulationPrevention(<< >>) = [k \in 1..Len(Ascending(S)) |-> At(<< >>, Ascending(S)[k])]
  BY DEF RemoveEmulationPrevention
<1>. HIDE DEF S
<1>5. 1..0 = {} /\ Len(<< >>) = 0
  OBVIOUS
<1>. QED  BY <1>3, <1>4, <1>5

LEMMA InsertNothing == InsertEmulationPrevention(<< >>) = << >>
<1>. DEFINE parts == [k \in 1..Len(<< >>) |-> Written(<< >>, k)]
<1>1. parts = << >>
  OBVIOUS
<1>2. << >> \in Seq(Byte) /\ << >> \in Seq(Seq(Byte))
  OBVIOUS
<1>3. FlattenSeq(parts) = << >>
  <2>1. \A k \in 1..Len(<< >>) : << >>[k] = << >>
    OBVIOUS
  <2>. HIDE DEF parts
  <2>. QED  BY <1>1, <1>2, <2>1, FlattenEmpties
<1>. QED  BY <1>3 DEF InsertEmulationPrevention, Written

\* A byte more on the wire that is not dropped.
LEMMA EscapesKept ==
    ASSUME NEW wire \in Seq(Byte), NEW byte \in Byte,
           ~(ZeroesAtEnd(wire) >= 2 /\ byte <= 3)
    PROVE  /\ RemoveEmulationPrevention(Append(wire, byte))
                  = Append(RemoveEmulationPrevention(wire), byte)
           /\ (\A i \in 1..(Len(wire) - 2) : wire[i] = 0 /\ wire[i + 1] = 0 => wire[i + 2] > 2)
                => \A i \in 1..(Len(Append(wire, byte)) - 2) :
                      Append(wire, byte)[i] = 0 /\ Append(wire, byte)[i + 1] = 0
                          => Append(wire, byte)[i + 2] > 2
<1>. DEFINE n == Len(wire)
            w == Append(wire, byte)
<1>1. RemoveEmulationPrevention(w) = Append(RemoveEmulationPrevention(wire), byte)
  <2>1. ~(n - ZeroRun(wire, 0, n) >= 2 /\ byte = 3)
    BY DEF ZeroesAtEnd
  <2>. QED  BY <2>1, RemoveAppend
<1>2. /\ n \in Nat /\ w \in Seq(Byte) /\ Len(w) = n + 1 /\ w[n + 1] = byte
      /\ \A i \in 1..n : w[i] = wire[i]
  BY LenProperties, AppendProperties
<1>3. n >= 2 /\ wire[n - 1] = 0 /\ wire[n] = 0 => ZeroesAtEnd(wire) >= 2
  <2>1. n - ZeroRun(wire, 0, n) >= 2 <=> n >= 2 /\ At(wire, n - 2) = 0 /\ At(wire, n - 1) = 0
    BY <1>2, ZeroRunTwo
  <2>2. (n - 2) + 1 = n - 1 /\ (n - 1) + 1 = n
    BY <1>2
  <2>. QED  BY <2>1, <2>2 DEF ZeroesAtEnd, At
<1>4. byte \in Int
  BY DEF Byte
<1>. HIDE DEF w, n
<1>5. ASSUME \A i \in 1..(n - 2) : wire[i] = 0 /\ wire[i + 1] = 0 => wire[i + 2] > 2,
             NEW i \in 1..(Len(w) - 2), w[i] = 0, w[i + 1] = 0
      PROVE  w[i + 2] > 2
  <2>1. i \in 1..n /\ i + 1 \in 1..n
    BY <1>2
  <2>2. wire[i] = 0 /\ wire[i + 1] = 0
    BY <1>2, <1>5, <2>1
  <2>3. CASE i + 2 = n + 1
    <3>1. i = n - 1 /\ i + 1 = n /\ n >= 2
      BY <1>2, <2>3
    <3>2. ZeroesAtEnd(wire) >= 2
      BY <1>3, <2>2, <3>1
    <3>3. byte > 2
      BY <1>4, <3>2
    <3>. QED  BY <1>2, <2>3, <3>3
  <2>4. CASE i + 2 # n + 1
    <3>1. i \in 1..(n - 2) /\ i + 2 \in 1..n
      BY <1>2, <2>4
    <3>. QED  BY <1>2, <1>5, <2>2, <3>1
  <2>. QED  BY <2>3, <2>4
<1>. QED  BY <1>1, <1>5 DEF w, n

\* A round of the loop.
LEMMA EscapesMore ==
    ASSUME NEW s \in Seq(Byte), NEW byte \in Byte, Escapes(InsertEmulationPrevention(s), s)
    PROVE  Escapes(InsertEmulationPrevention(Append(s, byte)), Append(s, byte))
<1>. DEFINE w == InsertEmulationPrevention(s)
            z == ZeroesAtEnd(s)
            t == Append(s, byte)
            v == InsertEmulationPrevention(t)
<1>1. /\ Len(s) \in Nat /\ t \in Seq(Byte) /\ Len(t) = Len(s) + 1 /\ t[Len(t)] = byte
      /\ (Len(s) > 0 => t[1] = s[1]) /\ (Len(s) = 0 => t[1] = byte)
  <2>1. /\ Len(s) \in Nat /\ t \in Seq(Byte) /\ Len(t) = Len(s) + 1 /\ t[Len(s) + 1] = byte
        /\ \A i \in 1..Len(s) : t[i] = s[i]
    BY LenProperties, AppendProperties
  <2>. HIDE DEF t
  <2>. QED  BY <2>1
<1>2. /\ w \in Seq(Byte) /\ Len(w) >= Len(s) /\ RemoveEmulationPrevention(w) = s
      /\ \A i \in 1..(Len(w) - 2) : w[i] = 0 /\ w[i + 1] = 0 => w[i + 2] > 2
      /\ Len(s) > 0 => w[1] = s[1] /\ w[Len(w)] = s[Len(s)]
      /\ ZeroesAtEnd(w) >= 2 <=> z >= 2 /\ z % 2 = 0
      /\ ZeroesAtEnd(w) = 0 <=> z = 0
      /\ ZeroesAtEnd(w) <= 2
  BY DEF Escapes
<1>3. z \in Nat /\ ZeroesAtEnd(t) = (IF byte = 0 THEN z + 1 ELSE 0) /\ ZeroesAtEnd(w) \in Nat
  BY <1>2, ZeroesAppend
<1>4. v = w \o (IF byte <= 3 /\ z >= 2 /\ z % 2 = 0 THEN <<3, byte>> ELSE <<byte>>)
  BY InsertAppend DEF ZeroesAtEnd
<1>5. byte \in Int /\ byte >= 0 /\ 3 \in Byte /\ 3 # 0
  BY DEF Byte
<1>6. /\ Len(w) \in Nat /\ Append(w, 3) \in Seq(Byte) /\ Len(Append(w, 3)) = Len(w) + 1
      /\ Append(w, byte) \in Seq(Byte) /\ Len(Append(w, byte)) = Len(w) + 1
      /\ Append(w, byte)[Len(w) + 1] = byte
      /\ \A i \in 1..Len(w) : Append(w, byte)[i] = w[i] /\ Append(w, 3)[i] = w[i]
  BY <1>2, <1>5, LenProperties, AppendProperties
<1>7. /\ w \o <<byte>> = Append(w, byte)
      /\ w \o <<3, byte>> = Append(Append(w, 3), byte)
  BY <1>2, <1>5
<1>. HIDE DEF w, z, t, v
<1>8. Len(s) = 0 => Len(w) = 0
  <2>1. ASSUME Len(s) = 0 PROVE w = << >>
    <3>1. s = << >>
      BY <2>1, EmptySeq
    <3>. QED  BY <3>1, InsertNothing DEF w
  <2>. QED  BY <2>1
<1>9. CASE ~(byte <= 3 /\ z >= 2 /\ z % 2 = 0)
  <2>1. v = Append(w, byte)
    BY <1>4, <1>7, <1>9
  <2>2. ~(ZeroesAtEnd(w) >= 2 /\ byte <= 3)
    BY <1>2, <1>9
  <2>3. /\ RemoveEmulationPrevention(v) = t
        /\ \A i \in 1..(Len(v) - 2) : v[i] = 0 /\ v[i + 1] = 0 => v[i + 2] > 2
    BY <1>2, <2>1, <2>2, EscapesKept DEF t
  <2>4. ZeroesAtEnd(v) = IF byte = 0 THEN ZeroesAtEnd(w) + 1 ELSE 0
    BY <1>2, <2>1, ZeroesAppend
  <2>5. /\ ZeroesAtEnd(v) >= 2 <=> ZeroesAtEnd(t) >= 2 /\ ZeroesAtEnd(t) % 2 = 0
        /\ ZeroesAtEnd(v) = 0 <=> ZeroesAtEnd(t) = 0
        /\ ZeroesAtEnd(v) <= 2
    <3>. DEFINE x == ZeroesAtEnd(w)
                y == ZeroesAtEnd(v)
                u == ZeroesAtEnd(t)
    <3>1. /\ x \in Nat /\ z \in Nat /\ byte \in Int
          /\ x >= 2 <=> z >= 2 /\ z % 2 = 0
          /\ x = 0 <=> z = 0
          /\ x <= 2 /\ ~(x >= 2 /\ byte <= 3)
          /\ y = (IF byte = 0 THEN x + 1 ELSE 0) /\ u = (IF byte = 0 THEN z + 1 ELSE 0)
      BY <1>2, <1>3, <1>5, <2>2, <2>4
    <3>. HIDE DEF x, y, u
    <3>2. CASE byte # 0
      <4>1. y = 0 /\ u = 0
        BY <3>1, <3>2
      <4>. QED  BY <4>1 DEF y, u
    <3>3. CASE byte = 0
      <4>1. x < 2 /\ y = x + 1 /\ u = z + 1
        BY <3>1, <3>3
      <4>2. CASE x = 0
        <5>1. z = 0 /\ y = 1 /\ u = 1
          BY <3>1, <4>1, <4>2
        <5>. QED  BY <5>1 DEF y, u
      <4>3. CASE x = 1
        <5>1. y = 2 /\ z >= 1 /\ ~(z >= 2 /\ z % 2 = 0)
          BY <3>1, <4>1, <4>3
        <5>2. u >= 2 /\ u % 2 = 0
          BY <3>1, <4>1, <5>1
        <5>. QED  BY <5>1, <5>2 DEF y, u
      <4>. QED  BY <3>1, <4>1, <4>2, <4>3
    <3>. QED  BY <3>2, <3>3
  <2>6. v \in Seq(Byte) /\ Len(v) >= Len(t) /\ Len(v) = Len(w) + 1
    BY <1>1, <1>2, <1>6, <2>1
  <2>7. v[1] = t[1] /\ v[Len(v)] = byte
    <3>1. v[Len(w) + 1] = byte /\ \A i \in 1..Len(w) : v[i] = w[i]
      BY <1>6, <2>1
    <3>2. CASE Len(s) = 0
      BY <1>1, <1>8, <2>6, <3>1, <3>2
    <3>3. CASE Len(s) # 0
      <4>1. 1 \in 1..Len(w) /\ Len(s) > 0
        BY <1>1, <1>2, <1>6, <3>3
      <4>. QED  BY <1>1, <1>2, <2>6, <3>1, <4>1
    <3>. QED  BY <3>2, <3>3
  <2>8. Escapes(v, t)
    BY <1>1, <2>3, <2>5, <2>6, <2>7 DEF Escapes
  <2>. QED  BY <2>8 DEF v, t
<1>10. CASE byte <= 3 /\ z >= 2 /\ z % 2 = 0
  <2>. DEFINE u == Append(w, 3)
  <2>1. v = Append(u, byte)
    BY <1>4, <1>7, <1>10
  <2>2. ZeroesAtEnd(w) >= 2 /\ ZeroesAtEnd(u) = 0 /\ u \in Seq(Byte)
    BY <1>2, <1>5, <1>6, <1>10, ZeroesAppend
  <2>3. RemoveEmulationPrevention(u) = s
    <3>1. Len(w) - ZeroRun(w, 0, Len(w)) >= 2
      BY <2>2 DEF ZeroesAtEnd
    <3>. QED  BY <1>2, <1>5, <3>1, RemoveAppend
  <2>4. \A i \in 1..(Len(u) - 2) : u[i] = 0 /\ u[i + 1] = 0 => u[i + 2] > 2
    <3>. SUFFICES ASSUME NEW i \in 1..(Len(u) - 2), u[i] = 0, u[i + 1] = 0 PROVE u[i + 2] > 2
      OBVIOUS
    <3>1. Len(u) = Len(w) + 1 /\ u[Len(w) + 1] = 3 /\ \A j \in 1..Len(w) : u[j] = w[j]
      BY <1>2, <1>5, <1>6, AppendProperties
    <3>. HIDE DEF u
    <3>2. CASE i + 2 = Len(w) + 1
      BY <3>1, <3>2
    <3>3. CASE i + 2 # Len(w) + 1
      <4>1. i \in 1..(Len(w) - 2) /\ i \in 1..Len(w) /\ i + 1 \in 1..Len(w) /\ i + 2 \in 1..Len(w)
        BY <1>6, <3>1, <3>3
      <4>. QED  BY <1>2, <3>1, <4>1
    <3>. QED  BY <3>2, <3>3
  <2>. HIDE DEF u
  <2>5. /\ RemoveEmulationPrevention(v) = t
        /\ \A i \in 1..(Len(v) - 2) : v[i] = 0 /\ v[i + 1] = 0 => v[i + 2] > 2
    <3>1. ~(ZeroesAtEnd(u) >= 2 /\ byte <= 3)
      BY <2>2
    <3>. QED  BY <2>1, <2>2, <2>3, <2>4, <3>1, EscapesKept DEF t
  <2>6. ZeroesAtEnd(v) = IF byte = 0 THEN 1 ELSE 0
    <3>1. ZeroesAtEnd(v) = IF byte = 0 THEN ZeroesAtEnd(u) + 1 ELSE 0
      BY <2>1, <2>2, ZeroesAppend
    <3>. QED  BY <2>2, <3>1
  <2>7. /\ ZeroesAtEnd(v) >= 2 <=> ZeroesAtEnd(t) >= 2 /\ ZeroesAtEnd(t) % 2 = 0
        /\ ZeroesAtEnd(v) = 0 <=> ZeroesAtEnd(t) = 0
        /\ ZeroesAtEnd(v) <= 2
    <3>. DEFINE y == ZeroesAtEnd(t)
                x == ZeroesAtEnd(v)
    <3>1. /\ z \in Nat /\ z >= 2 /\ z % 2 = 0 /\ y = (IF byte = 0 THEN z + 1 ELSE 0)
          /\ x = (IF byte = 0 THEN 1 ELSE 0)
      BY <1>3, <1>10, <2>6
    <3>. HIDE DEF x, y
    <3>2. /\ x >= 2 <=> y >= 2 /\ y % 2 = 0
          /\ x = 0 <=> y = 0
          /\ x <= 2
      BY <3>1
    <3>. QED  BY <3>2 DEF x, y
  <2>8. /\ v \in Seq(Byte) /\ Len(v) = Len(w) + 2 /\ v[Len(w) + 2] = byte
        /\ \A i \in 1..Len(w) : v[i] = w[i]
    <3>1. Len(u) = Len(w) + 1 /\ u \in Seq(Byte) /\ \A i \in 1..Len(w) : u[i] = w[i]
      BY <1>6 DEF u
    <3>2. /\ v \in Seq(Byte) /\ Len(v) = Len(u) + 1 /\ v[Len(u) + 1] = byte
          /\ \A i \in 1..Len(u) : v[i] = u[i]
      BY <2>1, <3>1, AppendProperties
    <3>3. (Len(w) + 1) + 1 = Len(w) + 2 /\ \A i \in 1..Len(w) : i \in 1..(Len(w) + 1)
      BY <1>6
    <3>. QED  BY <3>1, <3>2, <3>3
  <2>9. v[1] = t[1] /\ v[Len(v)] = byte /\ Len(v) >= Len(t)
    <3>1. Len(s) # 0
      <4>1. ASSUME Len(s) = 0 PROVE FALSE
        <5>1. s = << >>
          BY <4>1, EmptySeq
        <5>2. z = 0
          BY <4>1, ZeroRunRange DEF z, ZeroesAtEnd
        <5>. QED  BY <1>10, <5>2
      <4>. QED  BY <4>1
    <3>2. 1 \in 1..Len(w) /\ Len(s) > 0
      BY <1>1, <1>2, <1>6, <3>1
    <3>. QED  BY <1>1, <1>2, <1>6, <2>8, <3>2
  <2>10. Escapes(v, t)
    BY <1>1, <2>5, <2>7, <2>8, <2>9 DEF Escapes
  <2>. QED  BY <2>10 DEF v, t
<1>. QED  BY <1>9, <1>10

\* What is written is read back, whatever the rbsp.
LEMMA EscapesAll ==
    ASSUME NEW s \in Seq(Byte)
    PROVE  Escapes(InsertEmulationPrevention(s), s)
<1>. DEFINE n == Len(s)
            p(k) == SubSeq(s, 1, k)
            Good == {k \in 0..n : Escapes(InsertEmulationPrevention(p(k)), p(k))}
<1>1. n \in Nat /\ 0 \in Nat
  BY LenProperties
<1>2. 0 \in Good
  <2>1. p(0) = << >>
    OBVIOUS
  <2>2. << >> \in Seq(Byte) /\ Len(<< >>) = 0
    OBVIOUS
  <2>3. ZeroesAtEnd(<< >>) = 0
    <3>1. ZeroRun(<< >>, 0, 0) \in 0..0
      BY ZeroRunRange
    <3>. QED  BY <2>2, <3>1 DEF ZeroesAtEnd
  <2>4. Escapes(<< >>, << >>)
    BY <2>2, <2>3, RemoveNothing DEF Escapes
  <2>. HIDE DEF p
  <2>5. Escapes(InsertEmulationPrevention(p(0)), p(0))
    BY <2>1, <2>4, InsertNothing
  <2>6. 0 \in 0..n
    BY <1>1
  <2>. QED  BY <2>5, <2>6
<1>3. ASSUME NEW k \in 0..(n - 1), k \in Good PROVE k + 1 \in Good
  <2>1. k + 1 \in 1..n /\ k + 1 \in 0..n /\ k \in 0..n
    BY <1>1
  <2>2. s[k + 1] \in Byte
    BY <2>1, ElementOfSeq
  <2>3. p(k) \in Seq(Byte) /\ p(k + 1) = Append(p(k), s[k + 1])
    BY <1>1, <2>1, <2>2
  <2>4. Escapes(InsertEmulationPrevention(p(k)), p(k))
    BY <1>3
  <2>. HIDE DEF p
  <2>5. Escapes(InsertEmulationPrevention(p(k + 1)), p(k + 1))
    BY <2>2, <2>3, <2>4, EscapesMore
  <2>. QED  BY <2>1, <2>5
<1>4. \A k \in 0..n : k \in Good
  <2>. HIDE DEF Good
  <2>. QED  BY <1>1, <1>2, <1>3, Upwards
<1>5. n \in Good
  BY <1>1, <1>4
<1>6. p(n) = s
  BY <1>1
<1>7. Escapes(InsertEmulationPrevention(p(n)), p(n))
  BY <1>5
<1>. HIDE DEF p
<1>. QED  BY <1>6, <1>7

-----------------------------------------------------------------------------
(*****************************************************************************)
(* A list that is another after a third, and what each member of a list       *)
(* gives, one after the other.                                                *)
(*****************************************************************************)

\* One list behind another, element by element.
Adjoined(w, s, t) ==
    /\ Len(w) = Len(s) + Len(t)
    /\ \A k \in 1..Len(s) : w[k] = s[k]
    /\ \A k \in 1..Len(t) : w[Len(s) + k] = t[k]

LEMMA AdjoinedIs ==
    ASSUME NEW T, NEW s \in Seq(T), NEW t \in Seq(T), NEW w \in Seq(T), Adjoined(w, s, t)
    PROVE  w = s \o t
<1>. DEFINE m == Len(s)
            n == Len(t)
            u == s \o t
<1>1. /\ u \in Seq(T) /\ Len(u) = m + n /\ m \in Nat /\ n \in Nat
      /\ \A i \in 1..(m + n) : u[i] = IF i <= m THEN s[i] ELSE t[i - m]
  BY ConcatProperties, LenProperties
<1>2. /\ Len(w) = m + n
      /\ \A k \in 1..m : w[k] = s[k]
      /\ \A k \in 1..n : w[m + k] = t[k]
  BY DEF Adjoined
<1>. HIDE DEF u, m, n
<1>3. ASSUME NEW i \in 1..(m + n) PROVE w[i] = u[i]
  <2>1. u[i] = IF i <= m THEN s[i] ELSE t[i - m]
    BY <1>1
  <2>2. CASE i <= m
    <3>1. i \in 1..m
      BY <1>1, <2>2
    <3>. QED  BY <1>2, <2>1, <2>2, <3>1
  <2>3. CASE ~(i <= m)
    <3>1. i - m \in 1..n /\ m + (i - m) = i
      BY <1>1, <2>3
    <3>2. w[m + (i - m)] = t[i - m]
      BY <1>2, <3>1
    <3>. QED  BY <2>1, <2>3, <3>1, <3>2
  <2>. QED  BY <2>2, <2>3
<1>4. w = u
  BY <1>1, <1>2, <1>3, SeqEqual
<1>. QED  BY <1>4 DEF u

\* What each member of a list gives, one after another: give is a function on
\* what the members may be.
Gathered(give, s) == FlattenSeq([k \in 1..Len(s) |-> give[s[k]]])

\* The functions Gathered is asked of, by a name.
Gives(give, S, T) == give \in [S -> Seq(T)]

LEMMA GatherJoins ==
    ASSUME NEW S, NEW T, NEW give, Gives(give, S, T), NEW s \in Seq(S), NEW t \in Seq(S)
    PROVE  /\ Gathered(give, s) \in Seq(T)
           /\ Gathered(give, s \o t) = Gathered(give, s) \o Gathered(give, t)
<1>. DEFINE P(list) == [k \in 1..Len(list) |-> give[list[k]]]
            u == s \o t
            m == Len(s)
            n == Len(t)
<1>0. give \in [S -> Seq(T)]
  BY DEF Gives
<1>1. /\ m \in Nat /\ n \in Nat /\ u \in Seq(S) /\ Len(u) = m + n
      /\ \A i \in 1..(m + n) : u[i] = IF i <= m THEN s[i] ELSE t[i - m]
  BY LenProperties, ConcatProperties
<1>2. ASSUME NEW r \in Seq(S)
      PROVE  P(r) \in Seq(Seq(T)) /\ Len(P(r)) = Len(r)
  <2>1. Len(r) \in Nat /\ \A k \in 1..Len(r) : r[k] \in S
    BY LenProperties, ElementOfSeq
  <2>2. \A k \in 1..Len(r) : give[r[k]] \in Seq(T)
    BY <1>0, <2>1
  <2>. DEFINE Q == Seq(T)
  <2>3. \A k \in 1..Len(r) : give[r[k]] \in Q
    BY <2>2
  <2>. HIDE DEF Q
  <2>4. P(r) \in Seq(Q) /\ Len(P(r)) = Len(r)
    BY <2>1, <2>3, IsASeq
  <2>. QED  BY <2>2, <2>4 DEF Q
<1>. DEFINE p == P(s)
            q == P(t)
            r == P(u)
<1>. HIDE DEF u
<1>3. p \in Seq(Seq(T)) /\ q \in Seq(Seq(T)) /\ Len(p) = m /\ Len(q) = n
  BY <1>2
<1>4. r \in Seq(Seq(T)) /\ Len(r) = m + n
  BY <1>1, <1>2
<1>5. \A k \in 1..m : r[k] = p[k]
  <2>1. \A k \in 1..m : k \in 1..(m + n) /\ u[k] = s[k]
    BY <1>1
  <2>. QED  BY <1>1, <2>1
<1>6. \A k \in 1..n : r[m + k] = q[k]
  <2>1. \A k \in 1..n : m + k \in 1..(m + n) /\ u[m + k] = t[k]
    <3>. TAKE k \in 1..n
    <3>1. m + k \in 1..(m + n) /\ ~(m + k <= m) /\ (m + k) - m = k
      BY <1>1
    <3>. QED  BY <1>1, <3>1
  <2>. QED  BY <1>1, <2>1
<1>. DEFINE Q == Seq(T)
<1>. HIDE DEF p, q, r, m, n, Q
<1>. HIDE DEF P
<1>7. r = p \o q
  <2>1. p \in Seq(Q) /\ q \in Seq(Q) /\ r \in Seq(Q)
    BY <1>3, <1>4 DEF Q
  <2>2. Adjoined(r, p, q)
    BY <1>3, <1>4, <1>5, <1>6 DEF Adjoined
  <2>. QED  BY <2>1, <2>2, AdjoinedIs, Zenon
<1>8. FlattenSeq(r) = FlattenSeq(p) \o FlattenSeq(q) /\ FlattenSeq(p) \in Seq(T)
  BY <1>3, <1>7, FlattenConcat, FlattenType
<1>. QED  BY <1>8 DEF p, q, r, u, P, Gathered

LEMMA GatherConcat ==
    ASSUME NEW S, NEW T, NEW give \in [S -> Seq(T)], NEW s \in Seq(S), NEW t \in Seq(S)
    PROVE  /\ Gathered(give, s) \in Seq(T)
           /\ Gathered(give, s \o t) = Gathered(give, s) \o Gathered(give, t)
<1>1. Gives(give, S, T)
  BY DEF Gives
<1>. QED  BY <1>1, GatherJoins

\* What is gathered from lists of units.
LEMMA GatherUnits ==
    \A give \in [Seq(Byte) -> Seq(Seq(Byte))], s, t \in Seq(Seq(Byte)) :
        Gathered(give, s \o t) = Gathered(give, s) \o Gathered(give, t)
<1>1. ASSUME NEW give \in [Seq(Byte) -> Seq(Seq(Byte))],
             NEW s \in Seq(Seq(Byte)), NEW t \in Seq(Seq(Byte))
      PROVE  Gathered(give, s \o t) = Gathered(give, s) \o Gathered(give, t)
  <2>. DEFINE S == Seq(Byte)
              T == Seq(Byte)
  <2>1. Gives(give, S, T) /\ s \in Seq(S) /\ t \in Seq(S)
    BY DEF Gives
  <2>. HIDE DEF S, T
  <2>. QED  BY <2>1, GatherJoins
<1>. QED  BY <1>1

LEMMA GatherOne ==
    ASSUME NEW S, NEW T, NEW give \in [S -> Seq(T)], NEW x \in S
    PROVE  Gathered(give, <<x>>) = give[x] /\ Gathered(give, << >>) = << >>
<1>. DEFINE g == give[x]
            p == <<g>>
<1>1. g \in Seq(T)
  OBVIOUS
<1>2. [k \in 1..Len(<<x>>) |-> give[<<x>>[k]]] = p
  OBVIOUS
<1>3. [k \in 1..Len(<< >>) |-> give[<< >>[k]]] = << >>
  OBVIOUS
<1>. HIDE DEF g
<1>4. FlattenSeq(<< >>) = << >>
  <2>1. << >> \in Seq(Seq(T)) /\ \A k \in 1..Len(<< >>) : << >>[k] = << >>
    OBVIOUS
  <2>. QED  BY <2>1, FlattenEmpties
<1>5. FlattenSeq(p) = g
  <2>1. << >> \in Seq(Seq(T)) /\ p = Append(<< >>, g)
    BY <1>1
  <2>2. FlattenSeq(p) = << >> \o g
    BY <1>1, <1>4, <2>1, FlattenAppend
  <2>. QED  BY <1>1, <2>2, ConcatEmptySeq
<1>. QED  BY <1>2, <1>3, <1>4, <1>5 DEF g, Gathered

LEMMA GatherNothing ==
    ASSUME NEW S, NEW T, NEW give \in [S -> Seq(T)], NEW s \in Seq(S),
           \A k \in 1..Len(s) : give[s[k]] = << >>
    PROVE  Gathered(give, s) = << >>
<1>. DEFINE p == [k \in 1..Len(s) |-> give[s[k]]]
            Q == Seq(T)
<1>1. Len(s) \in Nat /\ << >> \in Q
  BY LenProperties
<1>2. \A k \in 1..Len(s) : give[s[k]] \in Q
  BY <1>1
<1>. HIDE DEF Q
<1>3. p \in Seq(Q) /\ Len(p) = Len(s)
  BY <1>1, <1>2, IsASeq
<1>4. \A k \in 1..Len(p) : p[k] = << >>
  BY <1>1, <1>3
<1>. HIDE DEF p
<1>5. FlattenSeq(p) = << >>
  BY <1>3, <1>4, FlattenEmpties DEF Q
<1>. QED  BY <1>5 DEF p, Gathered
=============================================================================
