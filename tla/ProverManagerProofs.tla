------------------------ MODULE ProverManagerProofs ------------------------
(***************************************************************************)
(* Theorems about module ProverManager, for every number of buckets and    *)
(* threads, every ratio of their lengths and every set of requests: the    *)
(* types, that no segment is lost or proved twice, that what is announced  *)
(* as provable is covered by finished segments, and the wake-ups.          *)
(*                                                                         *)
(* Lengths, Reach and Gather are defined by recursion over the buckets.    *)
(* What holds of them for every number of buckets is shown by least        *)
(* counterexample, from the well-foundedness of < on Nat (LeastNat): a     *)
(* function that is defined downwards exists (Downward), and what every    *)
(* step of the definition preserves holds of all its values                *)
(* (DownwardValues).                                                       *)
(***************************************************************************)
EXTENDS ProverManager, FiniteSetTheorems, SequenceTheorems, WellFoundedInduction, TLAPS

LEMMA LeastNat ==
  ASSUME NEW S, S \subseteq Nat, S # {}
  PROVE  \E n \in S : \A m \in S : n <= m
<1>1. PICK n \in S : \A m \in S : ~(<<m, n>> \in OpToRel(<, Nat))
  BY NatLessThanWellFounded, WFMin, Zenon
<1>2. \A m \in S : ~(m < n)
  BY <1>1 DEF OpToRel
<1> QED BY <1>2

\* f is defined downwards from n to lo
Descends(f, lo, n, F, z) ==
  /\ f = [i \in lo .. n |-> f[i]]
  /\ \A i \in lo .. n : f[i] = IF i = n THEN z ELSE F[<<i, f[i + 1]>>]

\* A function defined downwards from n exists
LEMMA DescendOne ==
  ASSUME NEW n \in Nat, NEW F, NEW z, NEW lo \in 0 .. n - 1,
         NEW f, Descends(f, lo + 1, n, F, z)
  PROVE  \E g : Descends(g, lo, n, F, z)
<1> DEFINE g == [i \in lo .. n |-> IF i = lo THEN F[<<i, f[i + 1]>>] ELSE f[i]]
<1>1. \A i \in lo + 1 .. n : g[i] = f[i]
  OBVIOUS
<1>2. ASSUME NEW i \in lo .. n PROVE g[i] = IF i = n THEN z ELSE F[<<i, g[i + 1]>>]
  <2>1. CASE i = lo
    <3>1. i # n /\ i + 1 \in lo + 1 .. n
      BY <2>1
    <3>2. g[i] = F[<<i, f[i + 1]>>] /\ g[i + 1] = f[i + 1]
      BY <2>1, <3>1, <1>1
    <3> QED BY <3>1, <3>2
  <2>2. CASE i # lo
    <3>1. i \in lo + 1 .. n
      BY <2>2
    <3>2. f[i] = IF i = n THEN z ELSE F[<<i, f[i + 1]>>]
      BY <3>1 DEF Descends
    <3>3. i # n => i + 1 \in lo + 1 .. n
      BY <3>1
    <3>4. i # n => g[i + 1] = f[i + 1]
      BY <3>3, <1>1
    <3>5. g[i] = f[i]
      BY <3>1, <1>1
    <3> HIDE DEF g
    <3> QED BY <3>2, <3>4, <3>5
  <2> QED BY <2>1, <2>2
<1>3. g = [i \in lo .. n |-> g[i]]
  OBVIOUS
<1> HIDE DEF g
<1> QED BY <1>2, <1>3 DEF Descends

LEMMA Downward ==
  ASSUME NEW n \in Nat, NEW F, NEW z
  PROVE  \E f : Descends(f, 0, n, F, z)
<1> DEFINE Bad == {k \in Nat : k <= n /\ ~ \E f : Descends(f, n - k, n, F, z)}
<1>1. SUFFICES ASSUME Bad # {} PROVE FALSE
  <2>1. n \in Nat /\ n <= n /\ n - n = 0
    OBVIOUS
  <2> QED BY <1>1, <2>1
<1>2. PICK k \in Bad : \A j \in Bad : k <= j
  <2>1. Bad \subseteq Nat
    OBVIOUS
  <2> HIDE DEF Bad
  <2> QED BY <1>1, <2>1, LeastNat
<1>3. CASE k = 0
  <2> DEFINE f == [i \in n .. n |-> z]
  <2>1. Descends(f, n - 0, n, F, z)
    BY DEF Descends
  <2>2. ~ \E h : Descends(h, n - k, n, F, z)
    BY <1>2
  <2> QED BY <1>3, <2>1, <2>2
<1>4. CASE k # 0
  <2>1. k - 1 \in Nat /\ k - 1 <= n /\ ~(k <= k - 1)
    BY <1>2, <1>4
  <2>2. PICK f : Descends(f, n - (k - 1), n, F, z)
    BY <2>1, <1>2
  <2>3. n - k \in 0 .. n - 1 /\ n - k + 1 = n - (k - 1)
    BY <1>2, <1>4
  <2>4. \E g : Descends(g, n - k, n, F, z)
    BY <2>2, <2>3, DescendOne
  <2> QED BY <1>2, <2>4
<1> QED BY <1>3, <1>4

\* what each step preserves holds of all its values
LEMMA DownwardValues ==
  ASSUME NEW n \in Nat, NEW F, NEW z, NEW f, NEW V,
         Descends(f, 0, n, F, z),
         z \in V[n],
         \A i \in 0 .. n - 1 : \A v \in V[i + 1] : F[<<i, v>>] \in V[i]
  PROVE  \A i \in 0 .. n : f[i] \in V[i]
<1> DEFINE Bad == {k \in Nat : k <= n /\ f[n - k] \notin V[n - k]}
<1>1. SUFFICES ASSUME Bad # {} PROVE FALSE
  <2>1. \A i \in 0 .. n : n - i \in Nat /\ n - i <= n /\ n - (n - i) = i
    OBVIOUS
  <2> QED BY <1>1, <2>1
<1>2. PICK k \in Bad : \A j \in Bad : k <= j
  <2>1. Bad \subseteq Nat
    OBVIOUS
  <2> HIDE DEF Bad
  <2> QED BY <1>1, <2>1, LeastNat
<1>3. CASE k = 0
  <2>1. n - k = n /\ n \in 0 .. n
    BY <1>3
  <2> QED BY <1>2, <2>1 DEF Descends
<1>4. CASE k # 0
  <2>1. k - 1 \in Nat /\ k - 1 <= n /\ ~(k <= k - 1)
    BY <1>2, <1>4
  <2>2. f[n - (k - 1)] \in V[n - (k - 1)]
    BY <2>1, <1>2
  <2>3. n - k \in 0 .. n - 1 /\ n - k \in 0 .. n /\ n - k # n /\ n - k + 1 = n - (k - 1)
    BY <1>2, <1>4
  <2>4. f[n - k] = F[<<n - k, f[n - k + 1]>>]
    BY <2>3 DEF Descends
  <2> QED BY <1>2, <2>2, <2>3, <2>4
<1> QED BY <1>3, <1>4
-----------------------------------------------------------------------------
(* The lengths of the segments.                                            *)

LEMMA DivMod ==
  ASSUME NEW L \in Nat \ {0}, NEW v \in Nat
  PROVE  /\ v \div L \in Nat /\ v % L \in 0 .. L - 1
         /\ v = (v \div L) * L + (v % L)
OBVIOUS

LEMMA IsMultiple ==
  ASSUME NEW L \in Nat \ {0}, NEW s \in Nat, s % L = 0
  PROVE  s \div L \in Nat /\ s = (s \div L) * L
BY DivMod

LEMMA Multiple ==
  ASSUME NEW L \in Nat \ {0}, NEW q \in Nat
  PROVE  q * L \in Nat /\ (q * L) % L = 0 /\ (q * L) \div L = q
OBVIOUS

LEMMA MultipleOrder ==
  ASSUME NEW L \in Nat \ {0}, NEW a \in Nat, NEW b \in Nat, a < b
  PROVE  a * L + L <= b * L
OBVIOUS

\* A multiple of L ends before v just when it ends before the last multiple.
LEMMA EndsBefore ==
  ASSUME NEW L \in Nat \ {0}, NEW s \in Nat, s % L = 0, NEW v \in Nat
  PROVE  s + L <= v <=> s + L <= (v \div L) * L
<1> DEFINE a == s \div L
           b == v \div L
<1>1. a \in Nat /\ b \in Nat /\ s = a * L
  BY DivMod
<1>2. b * L <= v /\ v < b * L + L
  BY DivMod
<1>3. CASE a < b
  BY <1>1, <1>2, <1>3, MultipleOrder
<1>4. CASE ~(a < b)
  <2>1. b * L <= a * L
    <3>1. CASE a = b
      BY <1>1, <3>1
    <3>2. CASE b < a
      BY <1>1, <3>2, MultipleOrder
    <3> QED BY <1>1, <1>4, <3>1, <3>2
  <2> HIDE DEF a, b
  <2> QED BY <1>1, <1>2, <2>1
<1> QED BY <1>3, <1>4

\* Two multiples of L are L apart.
LEMMA Apart ==
  ASSUME NEW L \in Nat \ {0}, NEW s \in Nat, s % L = 0, NEW t \in Nat, t % L = 0
  PROVE  s >= t <=> ~(s + L <= t)
<1> DEFINE a == s \div L
           b == t \div L
<1>1. a \in Nat /\ b \in Nat /\ s = a * L /\ t = b * L
  BY DivMod
<1> HIDE DEF a, b
<1>2. CASE a < b
  BY <1>1, <1>2, MultipleOrder
<1>3. CASE b < a
  BY <1>1, <1>3, MultipleOrder
<1>4. CASE a = b
  BY <1>1, <1>4
<1> QED BY <1>1, <1>2, <1>3, <1>4

LEMMA Lengthen ==
  ASSUME NEW r \in Nat \ {0}, NEW l \in Nat \ {0}
  PROVE  r * l \in Nat \ {0}
OBVIOUS

\* The lengths are what their definition says.
LEMMA LengthsEquation ==
  Lengths = [i \in BucketIds |-> IF i = 0 THEN 1 ELSE Ratio * Lengths[i - 1]]
<1> USE ManagerAssumption
<1> DEFINE n == Buckets - 1
           F == [p \in Nat \X Nat |-> Ratio * p[2]]
           V == [i \in Nat |-> Nat \ {0}]
<1>1. n \in Nat /\ BucketIds = 0 .. n
  BY DEF BucketIds
<1> HIDE DEF n
<1>2. PICK f : Descends(f, 0, n, F, 1)
  BY <1>1, Downward
<1>3. \A i \in 0 .. n : f[i] \in V[i]
  <2>1. 1 \in V[n]
    BY <1>1
  <2>2. \A i \in 0 .. n - 1 : \A v \in V[i + 1] : F[<<i, v>>] \in V[i]
    BY <1>1, Lengthen
  <2> HIDE DEF F, V
  <2> QED BY <1>1, <1>2, <2>1, <2>2, DownwardValues
<1> DEFINE g == [i \in BucketIds |-> f[n - i]]
<1>4. g = [i \in BucketIds |-> IF i = 0 THEN 1 ELSE Ratio * g[i - 1]]
  <2>1. ASSUME NEW i \in BucketIds PROVE g[i] = IF i = 0 THEN 1 ELSE Ratio * g[i - 1]
    <3>1. n - i \in 0 .. n /\ (n - i = n <=> i = 0)
      BY <1>1
    <3>2. g[i] = IF i = 0 THEN 1 ELSE F[<<n - i, f[n - i + 1]>>]
      BY <1>2, <3>1 DEF Descends
    <3>3. ASSUME i # 0 PROVE g[i] = Ratio * g[i - 1]
      <4>1. n - i + 1 \in 0 .. n /\ i - 1 \in BucketIds /\ n - (i - 1) = n - i + 1 /\ n - i \in Nat
        BY <1>1, <3>3
      <4>2. f[n - i + 1] \in Nat
        BY <1>3, <4>1
      <4>3. F[<<n - i, f[n - i + 1]>>] = Ratio * f[n - i + 1]
        BY <4>1, <4>2
      <4>4. g[i - 1] = f[n - i + 1]
        BY <4>1
      <4> HIDE DEF g, F
      <4> QED BY <3>2, <3>3, <4>3, <4>4
    <3> HIDE DEF g, F
    <3> QED BY <3>2, <3>3
  <2> QED BY <2>1
<1> HIDE DEF g
<1> QED BY <1>4 DEF Lengths

LEMMA LengthType ==
  ASSUME NEW i \in BucketIds
  PROVE  Length(i) \in Nat \ {0}
<1> USE ManagerAssumption
<1> DEFINE Bad == {k \in BucketIds : Lengths[k] \notin Nat \ {0}}
<1>1. SUFFICES ASSUME Bad # {} PROVE FALSE
  BY DEF Length
<1>2. PICK k \in Bad : \A j \in Bad : k <= j
  <2>1. Bad \subseteq Nat
    BY DEF BucketIds
  <2> HIDE DEF Bad
  <2> QED BY <1>1, <2>1, LeastNat
<1>3. CASE k = 0
  BY <1>2, <1>3, LengthsEquation
<1>4. CASE k # 0
  <2>1. k - 1 \in BucketIds /\ ~(k <= k - 1)
    BY <1>2, <1>4 DEF BucketIds
  <2>2. Lengths[k - 1] \in Nat \ {0}
    BY <1>2, <2>1
  <2>3. Lengths[k] = Ratio * Lengths[k - 1]
    BY <1>2, <1>4, LengthsEquation
  <2> QED BY <1>2, <2>2, <2>3, Lengthen
<1> QED BY <1>3, <1>4

LEMMA SegmentShape ==
  ASSUME NEW g \in Segments
  PROVE  /\ g = <<g[1], g[2]>> /\ g[1] \in BucketIds /\ g[2] \in 0 .. MaxUnits - 1
         /\ Length(g[1]) \in Nat \ {0}
         /\ g[2] % Length(g[1]) = 0
         /\ End(g) \in 1 .. MaxUnits
<1>1. g \in BucketIds \X (0 .. MaxUnits - 1)
  BY DEF Segments
<1>2. g[2] % Length(g[1]) = 0 /\ g[2] + Length(g[1]) <= MaxUnits
  BY DEF Segments, End
<1> QED BY <1>1, <1>2, LengthType, ManagerAssumption DEF End

-----------------------------------------------------------------------------
(* What can be proved: Reach.                                              *)

LEMMA MostIn ==
  ASSUME NEW n \in Nat, NEW S, S \subseteq 0 .. n, S # {}
  PROVE  Most(S) \in S
<1> DEFINE D == {k \in Nat : n - k \in S}
<1>1. PICK k \in D : \A j \in D : k <= j
  <2>1. PICK q : q \in S
    OBVIOUS
  <2>2. n - q \in D
    BY <2>1
  <2>3. D \subseteq Nat
    OBVIOUS
  <2> HIDE DEF D
  <2> QED BY <2>2, <2>3, LeastNat
<1>2. \A q \in S : q <= n - k
  <2>1. \A q \in S : n - q \in D /\ q \in 0 .. n
    OBVIOUS
  <2> QED BY <1>1, <2>1
<1>3. n - k \in S
  BY <1>1
<1> QED BY <1>2, <1>3 DEF Most

\* The units from 0 to u are covered by segments of d.
Covered(u, d) == \A w \in 0 .. u - 1 : \E g \in d : g[2] <= w /\ w < End(g)

\* What the loop over the buckets knows: a number of segments within the
\* limit, and units that are covered.
Counted(d) == {v \in [units : 0 .. MaxUnits, blobs : 0 .. MaxBlobs] : Covered(v.units, d)}

LEMMA ExtendCounts ==
  ASSUME NEW d \in SUBSET Segments, NEW i \in BucketIds, NEW above \in Counted(d)
  PROVE  Extend(d, i, above) \in Counted(d)
<1> USE ManagerAssumption
<1> DEFINE L == Length(i)
           u == above.units
           run == {n \in 0 .. MaxBlobs - above.blobs : \A m \in 0 .. n - 1 : <<i, u + m * L>> \in d}
           n == Most(run)
<1>1. L \in Nat \ {0}
  BY LengthType
<1>2. u \in 0 .. MaxUnits /\ above.blobs \in 0 .. MaxBlobs /\ Covered(u, d)
  BY DEF Counted
<1> HIDE DEF L, u
<1>3. n \in run
  <2>1. run \subseteq 0 .. MaxBlobs /\ 0 \in run
    BY <1>2
  <2> HIDE DEF run
  <2> QED BY <2>1, MostIn
<1>4. n \in 0 .. MaxBlobs - above.blobs /\ \A m \in 0 .. n - 1 : <<i, u + m * L>> \in d
  BY <1>3
<1> HIDE DEF n, run
<1>5. n \in Nat /\ u \in Nat /\ n * L \in Nat /\ u + n * L \in Nat
  BY <1>1, <1>2, <1>4
<1>6. u + n * L <= MaxUnits
  <2>1. CASE n = 0
    BY <1>1, <1>2, <2>1
  <2>2. CASE n # 0
    <3>1. n - 1 \in 0 .. n - 1 /\ (n - 1) * L + L = n * L /\ (n - 1) * L \in Nat
      BY <1>1, <1>5, <2>2
    <3>2. <<i, u + (n - 1) * L>> \in Segments
      BY <1>4, <3>1
    <3>3. u + (n - 1) * L + L <= MaxUnits
      BY <3>2, SegmentShape DEF End, L
    <3> QED BY <1>1, <1>5, <3>1, <3>3
  <2> QED BY <2>1, <2>2
<1>7. ASSUME NEW w \in 0 .. (u + n * L) - 1 PROVE \E g \in d : g[2] <= w /\ w < End(g)
  <2>1. w \in Nat /\ w < u + n * L
    BY <1>5
  <2>2. CASE w < u
    BY <1>2, <1>5, <2>1, <2>2 DEF Covered
  <2>3. CASE w >= u
    <3> DEFINE m == (w - u) \div L
    <3>1. w - u \in Nat /\ w - u < n * L
      BY <1>5, <2>1, <2>3
    <3>2. m \in Nat /\ (w - u) % L \in 0 .. L - 1 /\ w - u = m * L + ((w - u) % L)
      BY <1>1, <3>1, DivMod
    <3> HIDE DEF m
    <3>3. m * L \in Nat /\ m * L <= w - u /\ w - u < m * L + L
      BY <1>1, <3>1, <3>2
    <3>4. m < n
      <4>1. CASE n < m
        BY <1>1, <1>5, <3>1, <3>2, <3>3, <4>1, MultipleOrder
      <4>2. CASE n = m
        BY <1>5, <3>1, <3>3, <4>2
      <4> QED BY <1>5, <3>2, <4>1, <4>2
    <3>5. <<i, u + m * L>> \in d
      BY <1>4, <1>5, <3>2, <3>4
    <3>6. u + m * L <= w /\ w < u + m * L + L
      BY <1>1, <1>5, <2>1, <3>1, <3>3
    <3> QED BY <3>5, <3>6 DEF End, L
  <2> QED BY <1>5, <2>1, <2>2, <2>3
<1>8. above.blobs + n \in 0 .. MaxBlobs
  BY <1>2, <1>4
<1>9. Extend(d, i, above) = [units |-> u + n * L, blobs |-> above.blobs + n]
  BY DEF Extend, u, L, n, run
<1>10. Covered(u + n * L, d)
  BY <1>7 DEF Covered
<1> QED BY <1>5, <1>6, <1>8, <1>9, <1>10 DEF Counted

LEMMA ReachCovered ==
  ASSUME NEW d \in SUBSET Segments
  PROVE  Reach(d) \in 0 .. MaxUnits /\ Covered(Reach(d), d)
<1> USE ManagerAssumption
<1> DEFINE z == [units |-> 0, blobs |-> 0]
           F == [p \in BucketIds \X Counted(d) |-> Extend(d, p[1], p[2])]
           V == [i \in 0 .. Buckets |-> Counted(d)]
           Solves(f) == f = [i \in 0 .. Buckets |-> IF i = Buckets THEN z ELSE Extend(d, i, f[i + 1])]
<1>1. z \in Counted(d)
  BY DEF Counted, Covered
<1>2. \A i \in 0 .. Buckets - 1 : \A v \in Counted(d) : F[<<i, v>>] = Extend(d, i, v) /\ F[<<i, v>>] \in Counted(d)
  BY ExtendCounts DEF BucketIds
<1> HIDE DEF z, F
<1>3. \A i \in 0 .. Buckets : V[i] = Counted(d)
  OBVIOUS
<1> HIDE DEF V
<1>4. z \in V[Buckets] /\ \A i \in 0 .. Buckets - 1 : \A v \in V[i + 1] : F[<<i, v>>] \in V[i]
  <2>1. \A i \in 0 .. Buckets - 1 : V[i] = Counted(d) /\ V[i + 1] = Counted(d)
    BY <1>3
  <2> QED BY <1>1, <1>2, <1>3, <2>1
<1>5. PICK f : Descends(f, 0, Buckets, F, z)
  BY Downward
<1>6. \A i \in 0 .. Buckets : f[i] \in Counted(d)
  <2>1. \A i \in 0 .. Buckets : f[i] \in V[i]
    BY <1>4, <1>5, DownwardValues
  <2> QED BY <1>3, <2>1
<1>7. Solves(f)
  <2>1. ASSUME NEW i \in 0 .. Buckets PROVE f[i] = IF i = Buckets THEN z ELSE Extend(d, i, f[i + 1])
    <3>1. f[i] = IF i = Buckets THEN z ELSE F[<<i, f[i + 1]>>]
      BY <1>5 DEF Descends
    <3>2. i # Buckets => i \in 0 .. Buckets - 1 /\ i + 1 \in 0 .. Buckets
      OBVIOUS
    <3> QED BY <1>2, <1>6, <3>1, <3>2
  <2>2. f = [i \in 0 .. Buckets |-> f[i]]
    BY <1>5 DEF Descends
  <2> QED BY <2>1, <2>2
<1>8. ASSUME NEW h, Solves(h) PROVE h[0] \in Counted(d)
  <2>1. \A i \in 0 .. Buckets : h[i] = IF i = Buckets THEN z ELSE Extend(d, i, h[i + 1])
    BY <1>8
  <2> DEFINE Bad == {k \in Nat : k <= Buckets /\ h[Buckets - k] \notin Counted(d)}
  <2>2. ASSUME Bad # {} PROVE FALSE
    <3>1. PICK k \in Bad : \A j \in Bad : k <= j
      <4>1. Bad \subseteq Nat
        OBVIOUS
      <4> HIDE DEF Bad
      <4> QED BY <2>2, <4>1, LeastNat
    <3>2. CASE k = 0
      BY <1>1, <2>1, <3>1, <3>2
    <3>3. CASE k # 0
      <4>1. k - 1 \in Nat /\ k - 1 <= Buckets /\ ~(k <= k - 1)
        BY <3>1, <3>3
      <4>2. h[Buckets - (k - 1)] \in Counted(d)
        BY <3>1, <4>1
      <4>3. Buckets - k \in BucketIds /\ Buckets - k \in 0 .. Buckets /\ Buckets - k # Buckets
            /\ Buckets - k + 1 = Buckets - (k - 1)
        BY <3>1, <3>3 DEF BucketIds
      <4>4. h[Buckets - k] = Extend(d, Buckets - k, h[Buckets - k + 1])
        BY <2>1, <4>3
      <4> QED BY <3>1, <4>2, <4>3, <4>4, ExtendCounts
    <3> QED BY <3>2, <3>3
  <2>3. Buckets \in Nat /\ Buckets <= Buckets /\ Buckets - Buckets = 0
    OBVIOUS
  <2> QED BY <2>2, <2>3
<1>9. Reach(d) = (CHOOSE h : Solves(h))[0].units
  BY DEF Reach, z
<1> HIDE DEF Solves
<1>10. Solves(CHOOSE h : Solves(h))
  BY <1>7
<1>11. (CHOOSE h : Solves(h))[0] \in Counted(d)
  BY <1>8, <1>10
<1> QED BY <1>9, <1>11 DEF Counted

-----------------------------------------------------------------------------
(* What a proof consists of: Gather.                                       *)

LEMMA PlaceBound ==
  ASSUME NEW g \in Segments
  PROVE  g[2] \div Length(g[1]) \in 0 .. MaxUnits
<1> DEFINE L == Length(g[1])
           a == g[2] \div L
<1>1. g[2] \in Nat /\ g[2] <= MaxUnits /\ L \in Nat \ {0} /\ g[2] % L = 0
  BY SegmentShape, ManagerAssumption
<1> HIDE DEF L
<1>2. a \in Nat /\ g[2] = a * L
  BY <1>1, IsMultiple
<1> HIDE DEF a
<1>3. a <= a * L
  BY <1>1, <1>2
<1>4. a * L \in Nat
  BY <1>1, <1>2
<1>5. a <= MaxUnits
  BY <1>1, <1>2, <1>3, <1>4, ManagerAssumption
<1> QED BY <1>2, <1>5, ManagerAssumption DEF a, L

\* Every place of done_segments[i] is at or before a finished segment.
LEMMA PlaceBefore ==
  ASSUME NEW d \in SUBSET Segments, NEW i \in BucketIds, NEW q \in Nat, q < Size(d, i)
  PROVE  \E g \in d : g[1] = i /\ q <= g[2] \div Length(i)
<1> DEFINE places == {g[2] \div Length(i) : g \in {h \in d : h[1] = i}}
<1>1. places # {} /\ Size(d, i) = Most(places) + 1
  BY DEF Size
<1>2. places \subseteq 0 .. MaxUnits
  <2>1. ASSUME NEW g \in d, g[1] = i PROVE g[2] \div Length(i) \in 0 .. MaxUnits
    BY <2>1, PlaceBound
  <2> QED BY <2>1
<1>3. Most(places) \in places
  <2> HIDE DEF places
  <2> QED BY <1>1, <1>2, MostIn, ManagerAssumption
<1>4. PICK g \in d : g[1] = i /\ Most(places) = g[2] \div Length(i)
  BY <1>3
<1>5. Most(places) \in Nat
  BY <1>2, <1>3
<1> HIDE DEF places
<1> QED BY <1>1, <1>4, <1>5

\* What done_segments[i] has at one of its indices is a place of a segment.
LEMMA PlaceIsSegment ==
  ASSUME done \subseteq Segments, NEW i \in BucketIds, NEW q \in Nat, q < Size(done, i)
  PROVE  /\ <<i, q * Length(i)>> \in Segments
         /\ Place(<<i, q * Length(i)>>)
<1> DEFINE L == Length(i)
<1>1. L \in Nat \ {0} /\ MaxUnits \in Nat
  BY LengthType, ManagerAssumption
<1>2. PICK h \in done : h[1] = i /\ q <= h[2] \div L
  BY PlaceBefore
<1>3. h = <<i, h[2]>> /\ h[2] \in 0 .. MaxUnits - 1 /\ h[2] % L = 0 /\ h[2] + L <= MaxUnits
  BY <1>2, SegmentShape DEF End
<1> DEFINE a == h[2] \div L
<1>4. a \in Nat /\ h[2] = a * L
  <2>1. h[2] \in Nat /\ h[2] % L = 0
    BY <1>1, <1>3
  <2> HIDE DEF L
  <2> QED BY <1>1, <2>1, IsMultiple
<1>5. q <= a
  BY <1>2
<1> HIDE DEF L, a
<1>6. q * L \in Nat /\ (q * L) % L = 0
  BY <1>1, Multiple
<1>7. q * L <= a * L /\ (q < a => q * L < a * L)
  <2>1. CASE q = a
    BY <1>6, <2>1
  <2>2. CASE q < a
    BY <1>1, <1>4, <1>6, <2>2, MultipleOrder
  <2> QED BY <1>4, <1>5, <2>1, <2>2
<1>8. <<i, q * L>> \in Segments
  BY <1>1, <1>3, <1>4, <1>6, <1>7 DEF Segments, End, L
<1>9. q * L <= h[2]
  BY <1>4, <1>7
<1> QED BY <1>2, <1>8, <1>9 DEF Place, L

\* Places of segments that follow one another from 0, and end at a multiple of
\* the length of bucket i, no later than unit b.
AllPlaced(list) == \A m \in 1 .. Len(list) : Place(list[m])
Chains(i, b) ==
  {list \in Seq(Segments) : /\ Chained(list) /\ Proved(list) <= b
                            /\ IF i = Buckets THEN list = <<>> ELSE Proved(list) % Length(i) = 0
                            /\ AllPlaced(list)}

LEMMA ProvedType ==
  ASSUME NEW list \in Seq(Segments)
  PROVE  Proved(list) \in 0 .. MaxUnits
<1>1. CASE list = <<>>
  BY <1>1, ManagerAssumption DEF Proved
<1>2. CASE list # <<>>
  <2>1. Len(list) \in 1 .. Len(list)
    BY <1>2, EmptySeq
  <2>2. list[Len(list)] \in Segments
    BY <2>1, ElementOfSeq
  <2>3. End(list[Len(list)]) \in 1 .. MaxUnits
    BY <2>2, SegmentShape, Zenon
  <2> QED BY <1>2, <2>3, ManagerAssumption DEF Proved
<1> QED BY <1>1, <1>2

\* The next longer segments end at multiples of this length too.
LEMMA Divides ==
  ASSUME NEW i \in BucketIds, NEW b, NEW list \in Chains(i + 1, b)
  PROVE  Proved(list) % Length(i) = 0
<1> USE ManagerAssumption
<1> DEFINE L == Length(i)
<1>1. L \in Nat \ {0} /\ Proved(list) \in Nat
  BY LengthType, ProvedType DEF Chains
<1>2. CASE i + 1 = Buckets
  <2>1. Proved(list) = 0 * L
    BY <1>1, <1>2 DEF Chains, Proved
  <2>2. (0 * L) % L = 0
    BY <1>1, Multiple
  <2> QED BY <2>1, <2>2
<1>3. CASE i + 1 # Buckets
  <2>1. i + 1 \in BucketIds /\ i + 1 # 0 /\ (i + 1) - 1 = i /\ i \in Nat
    BY <1>3 DEF BucketIds
  <2>2. Length(i + 1) = Ratio * L
    BY <2>1, LengthsEquation DEF Length
  <2>3. Proved(list) % (Ratio * L) = 0 /\ Ratio * L \in Nat \ {0}
    BY <1>3, <2>1, <2>2, LengthType DEF Chains
  <2> DEFINE a == Proved(list) \div (Ratio * L)
  <2>4. a \in Nat /\ Proved(list) = a * (Ratio * L)
    <3> HIDE DEF L
    <3>1. Ratio * L \in Nat \ {0}
      BY <2>3
    <3> QED BY <1>1, <2>3, <3>1, IsMultiple
  <2> HIDE DEF a, L
  <2>5. a * (Ratio * L) = (a * Ratio) * L /\ a * Ratio \in Nat
    BY <1>1, <2>4
  <2>6. ((a * Ratio) * L) % L = 0
    BY <1>1, <2>5, Multiple
  <2> QED BY <2>4, <2>5, <2>6 DEF L
<1> QED BY <1>2, <1>3

LEMMA FromUnitShape ==
  ASSUME NEW i, NEW unit, NEW places \in Int, NEW S,
         \A m \in 1 .. places : <<i, unit + (m - 1) * Length(i)>> \in S
  PROVE  LET list == FromUnit(i, unit, places)
         IN  /\ list \in Seq(S)
             /\ Len(list) = IF places > 0 THEN places ELSE 0
             /\ \A m \in 1 .. places : list[m] = <<i, unit + (m - 1) * Length(i)>>
<1> DEFINE n == IF places > 0 THEN places ELSE 0
           list == FromUnit(i, unit, places)
<1>1. n \in Nat /\ 1 .. n = 1 .. places
  OBVIOUS
<1>2. list = [m \in 1 .. n |-> <<i, unit + (m - 1) * Length(i)>>]
  BY DEF FromUnit
<1> HIDE DEF n, list
<1>3. list \in [1 .. n -> S]
  BY <1>1, <1>2
<1>4. list \in Seq(S)
  BY <1>1, <1>3, SeqDef
<1>5. Len(list) = n
  <2>1. Len(list) \in Nat /\ 1 .. Len(list) = 1 .. n
    BY <1>3, <1>4, LenProperties
  <2> QED BY <1>1, <2>1
<1>6. \A m \in 1 .. places : list[m] = <<i, unit + (m - 1) * Length(i)>>
  BY <1>1, <1>2
<1> QED BY <1>4, <1>5, <1>6 DEF n, list

LEMMA SizeType ==
  ASSUME NEW d \in SUBSET Segments, NEW i \in BucketIds
  PROVE  Size(d, i) \in Nat
<1> DEFINE places == {g[2] \div Length(i) : g \in {h \in d : h[1] = i}}
<1>1. places \subseteq 0 .. MaxUnits
  <2>1. ASSUME NEW g \in d, g[1] = i PROVE g[2] \div Length(i) \in 0 .. MaxUnits
    BY <2>1, PlaceBound
  <2> QED BY <2>1
<1>2. Size(d, i) = IF places = {} THEN 0 ELSE Most(places) + 1
  BY DEF Size
<1> HIDE DEF places
<1>3. places # {} => Most(places) \in places
  BY <1>1, MostIn, ManagerAssumption
<1>4. CASE places = {}
  BY <1>2, <1>4
<1>5. CASE places # {}
  <2>1. places \subseteq Nat
    BY <1>1, ManagerAssumption
  <2>2. Most(places) \in Nat
    BY <1>3, <1>5, <2>1, Zenon
  <2> QED BY <1>2, <1>5, <2>2
<1> QED BY <1>4, <1>5

LEMMA TakeChains ==
  ASSUME done \subseteq Segments, NEW i \in BucketIds, NEW b \in Nat, NEW list \in Chains(i + 1, b)
  PROVE  Take(i, b, list) \in Chains(i, b)
<1> USE ManagerAssumption
<1> DEFINE L == Length(i)
           from == Proved(list)
           q == from \div L
           places == Size(done, i) - from \div L
           fit == (b - from) \div L
           n == IF places < fit THEN places ELSE fit
           more == FromUnit(i, from, n)
           new == list \o more
<1>1. L \in Nat \ {0} /\ from \in Nat /\ from % L = 0 /\ from <= b
  BY LengthType, ProvedType, Divides DEF Chains
<1>2. /\ list \in Seq(Segments) /\ Chained(list) /\ Len(list) \in Nat
      /\ AllPlaced(list)
  BY LenProperties DEF Chains
<1>3. i # Buckets /\ i \in Nat
  BY DEF BucketIds
<1>4. Take(i, b, list) = new
  BY DEF Take
<1> HIDE DEF L, from
<1>5. q \in Nat /\ from = q * L
  BY <1>1, IsMultiple
<1>6. Size(done, i) \in Nat /\ fit \in Nat /\ fit * L <= b - from
  <2>1. b - from \in Nat
    BY <1>1
  <2>2. fit \in Nat /\ (b - from) % L \in 0 .. L - 1 /\ b - from = fit * L + ((b - from) % L)
    BY <1>1, <2>1, DivMod
  <2>3. fit * L \in Nat
    BY <1>1, <2>2, Multiple
  <2> HIDE DEF fit
  <2> QED BY <1>1, <2>1, <2>2, <2>3, SizeType
<1>7. n \in Int /\ \A m \in 1 .. n : q + (m - 1) \in Nat /\ q + (m - 1) < Size(done, i)
  <2> HIDE DEF q, fit
  <2> QED BY <1>5, <1>6 DEF q
<1>8. n > 0 => from + (n - 1) * L + L <= b
  <2>1. n <= fit
    <3> HIDE DEF q, fit
    <3> QED BY <1>6, <1>7
  <2> HIDE DEF n, fit
  <2>2. ASSUME n > 0 PROVE from + (n - 1) * L + L <= b
    <3>1. n \in Nat
      BY <1>7, <2>2
    <3>2. n * L <= fit * L
      <4>1. CASE n = fit
        BY <1>1, <1>6, <4>1
      <4>2. CASE n < fit
        BY <1>1, <1>6, <3>1, <4>2, MultipleOrder
      <4> QED BY <1>6, <2>1, <3>1, <4>1, <4>2
    <3>3. (n - 1) * L + L = n * L /\ n * L \in Nat /\ (n - 1) * L \in Int
      BY <1>1, <3>1
    <3>4. fit * L \in Nat
      BY <1>1, <1>6, Multiple
    <3> QED BY <1>1, <1>6, <3>2, <3>3, <3>4
  <2> QED BY <2>2
<1> HIDE DEF q, n, more, new, fit
<1>9. \A m \in 1 .. n : from + (m - 1) * L = (q + (m - 1)) * L
  BY <1>1, <1>5, <1>7
<1>10. ASSUME NEW m \in 1 .. n
      PROVE  <<i, from + (m - 1) * L>> \in Segments /\ Place(<<i, from + (m - 1) * L>>)
  BY <1>7, <1>9, PlaceIsSegment DEF L
<1>11. /\ more \in Seq(Segments)
       /\ Len(more) = IF n > 0 THEN n ELSE 0
       /\ \A m \in 1 .. n : more[m] = <<i, from + (m - 1) * L>>
  BY <1>7, <1>10, FromUnitShape DEF more, L
<1>12. /\ new \in Seq(Segments)
       /\ Len(new) = Len(list) + Len(more)
       /\ \A m \in 1 .. Len(list) + Len(more) : new[m] = IF m <= Len(list) THEN list[m] ELSE more[m - Len(list)]
  <2>1. list \in Seq(Segments) /\ more \in Seq(Segments)
    BY <1>2, <1>11
  <2> QED BY <2>1, ConcatProperties, Zenon DEF new
<1>13. ASSUME n <= 0 PROVE new \in Chains(i, b)
  <2>1. Len(more) = 0
    BY <1>7, <1>11, <1>13
  <2>2. new = list
    <3>1. Len(new) = Len(list) /\ \A m \in 1 .. Len(new) : new[m] = list[m]
      BY <1>2, <1>12, <2>1
    <3>2. new \in Seq(Segments) /\ list \in Seq(Segments)
      BY <1>2, <1>12
    <3> QED BY <3>1, <3>2, SeqEqual, Zenon
  <2> QED BY <1>1, <1>2, <1>3, <2>2 DEF Chains, from, L
<1>14. ASSUME n > 0 PROVE new \in Chains(i, b)
  <2>1. Len(more) = n /\ n \in Nat \ {0}
    BY <1>7, <1>11, <1>14
  <2>2. \A m \in 1 .. Len(list) : new[m] = list[m]
    BY <1>2, <1>12, <2>1
  <2>3. \A m \in 1 .. n : new[Len(list) + m] = <<i, from + (m - 1) * L>>
    <3>1. ASSUME NEW m \in 1 .. n PROVE new[Len(list) + m] = more[m]
      <4>1. Len(list) + m \in 1 .. Len(list) + Len(more) /\ ~(Len(list) + m <= Len(list)) /\ Len(list) + m - Len(list) = m
        BY <1>2, <2>1
      <4> QED BY <1>12, <4>1
    <3> QED BY <1>11, <3>1
  <2>4. Len(new) = Len(list) + n /\ new # <<>>
    BY <1>2, <1>12, <2>1, EmptySeq
  <2>5. Proved(new) % L = 0 /\ Proved(new) <= b
    <3>1. new[Len(new)] = <<i, from + (n - 1) * L>>
      <4>1. n \in 1 .. n
        BY <2>1
      <4> QED BY <2>3, <2>4, <4>1
    <3>2. Proved(new) = from + (n - 1) * L + L
      BY <2>4, <3>1 DEF Proved, End, L
    <3>3. from + (n - 1) * L + L = (q + n) * L /\ q + n \in Nat
      BY <1>1, <1>5, <2>1
    <3> QED BY <1>1, <1>14, <1>8, <3>2, <3>3, Multiple
  <2>6. new[1][2] = 0
    <3>1. CASE list = <<>>
      <4>1. Len(list) = 0 /\ from = 0
        BY <3>1, EmptySeq DEF from, Proved
      <4>2. 1 \in 1 .. n /\ Len(list) + 1 = 1
        BY <2>1, <4>1
      <4>3. new[1] = <<i, from + (1 - 1) * L>>
        BY <2>3, <4>2
      <4>4. from + (1 - 1) * L = from
        BY <1>1
      <4> QED BY <4>1, <4>3, <4>4
    <3>2. CASE list # <<>>
      <4>1. 1 \in 1 .. Len(list)
        BY <1>2, <3>2, EmptySeq
      <4> QED BY <1>2, <2>2, <3>2, <4>1 DEF Chained
    <3> QED BY <3>1, <3>2
  <2>7. ASSUME NEW m \in 1 .. Len(new) - 1 PROVE new[m + 1][2] = End(new[m])
    <3>1. CASE m < Len(list)
      <4>1. m \in 1 .. Len(list) - 1 /\ m \in 1 .. Len(list) /\ m + 1 \in 1 .. Len(list)
        BY <1>2, <2>4, <3>1
      <4> QED BY <1>2, <2>2, <4>1 DEF Chained
    <3>2. CASE m = Len(list)
      <4>1. m \in 1 .. Len(list) /\ list # <<>>
        BY <1>2, <3>2, EmptySeq
      <4>2. End(new[m]) = from
        BY <2>2, <3>2, <4>1 DEF from, Proved
      <4>3. 1 \in 1 .. n /\ m + 1 = Len(list) + 1
        BY <2>1, <3>2
      <4>4. new[m + 1] = <<i, from + (1 - 1) * L>>
        BY <2>3, <4>3
      <4>5. from + (1 - 1) * L = from
        BY <1>1
      <4> QED BY <4>2, <4>4, <4>5
    <3>3. CASE m > Len(list)
      <4> DEFINE k == m - Len(list)
      <4>1. k \in 1 .. n /\ k + 1 \in 1 .. n /\ m = Len(list) + k /\ m + 1 = Len(list) + (k + 1)
        BY <1>2, <2>1, <2>4, <3>3
      <4> HIDE DEF k
      <4>2. new[m] = <<i, from + (k - 1) * L>> /\ new[m + 1] = <<i, from + ((k + 1) - 1) * L>>
        BY <2>3, <4>1
      <4>3. End(new[m]) = from + (k - 1) * L + L
        BY <4>2 DEF End, L
      <4>4. from + (k - 1) * L + L = from + ((k + 1) - 1) * L
        BY <1>1, <4>1
      <4> QED BY <4>2, <4>3, <4>4
    <3> QED BY <1>2, <2>1, <2>4, <3>1, <3>2, <3>3
  <2>8. ASSUME NEW m \in 1 .. Len(new) PROVE Place(new[m])
    <3>1. CASE m <= Len(list)
      <4>1. m \in 1 .. Len(list)
        BY <1>2, <3>1
      <4> QED BY <1>2, <2>2, <2>8, <4>1 DEF AllPlaced
    <3>2. CASE m > Len(list)
      <4> DEFINE k == m - Len(list)
      <4>1. k \in 1 .. n /\ m = Len(list) + k
        BY <1>2, <2>1, <2>4, <3>2
      <4> QED BY <1>10, <2>3, <2>8, <4>1
    <3> QED BY <1>2, <2>1, <2>4, <3>1, <3>2
  <2> QED BY <1>3, <1>12, <2>5, <2>6, <2>7, <2>8 DEF Chains, Chained, AllPlaced, L
<1> QED BY <1>4, <1>7, <1>13, <1>14

LEMMA GatherChains ==
  ASSUME done \subseteq Segments, NEW b \in Nat
  PROVE  Gather(b) \in Chains(0, b)
<1> USE ManagerAssumption
<1> DEFINE F == [p \in BucketIds \X Seq(Segments) |-> Take(p[1], b, p[2])]
           V == [i \in 0 .. Buckets |-> Chains(i, b)]
           Solves(f) == f = [i \in 0 .. Buckets |-> IF i = Buckets THEN <<>> ELSE Take(i, b, f[i + 1])]
<1>1. <<>> \in Chains(Buckets, b)
  BY EmptySeq DEF Chains, Chained, AllPlaced, Proved
<1>2. \A i \in 0 .. Buckets - 1 : \A v \in Chains(i + 1, b) :
        F[<<i, v>>] = Take(i, b, v) /\ Take(i, b, v) \in Chains(i, b)
  <2>1. ASSUME NEW i \in 0 .. Buckets - 1, NEW v \in Chains(i + 1, b)
        PROVE  F[<<i, v>>] = Take(i, b, v) /\ Take(i, b, v) \in Chains(i, b)
    <3>1. i \in BucketIds /\ v \in Seq(Segments)
      BY DEF BucketIds, Chains
    <3> QED BY <3>1, TakeChains
  <2> QED BY <2>1
<1> HIDE DEF F
<1>3. \A i \in 0 .. Buckets : V[i] = Chains(i, b)
  OBVIOUS
<1> HIDE DEF V
<1>4. <<>> \in V[Buckets] /\ \A i \in 0 .. Buckets - 1 : \A v \in V[i + 1] : F[<<i, v>>] \in V[i]
  <2>1. \A i \in 0 .. Buckets - 1 : V[i] = Chains(i, b) /\ V[i + 1] = Chains(i + 1, b)
    BY <1>3
  <2>2. <<>> \in V[Buckets]
    BY <1>1, <1>3
  <2>3. ASSUME NEW i \in 0 .. Buckets - 1, NEW v \in V[i + 1] PROVE F[<<i, v>>] \in V[i]
    BY <1>2, <2>1, <2>3
  <2> QED BY <2>2, <2>3
<1>5. PICK f : Descends(f, 0, Buckets, F, <<>>)
  BY Downward
<1>6. \A i \in 0 .. Buckets : f[i] \in Chains(i, b)
  <2>1. \A i \in 0 .. Buckets : f[i] \in V[i]
    BY <1>4, <1>5, DownwardValues
  <2> QED BY <1>3, <2>1
<1>7. Solves(f)
  <2>1. ASSUME NEW i \in 0 .. Buckets PROVE f[i] = IF i = Buckets THEN <<>> ELSE Take(i, b, f[i + 1])
    <3>1. f[i] = IF i = Buckets THEN <<>> ELSE F[<<i, f[i + 1]>>]
      BY <1>5 DEF Descends
    <3>2. i # Buckets => i \in 0 .. Buckets - 1 /\ i + 1 \in 0 .. Buckets
      OBVIOUS
    <3> QED BY <1>2, <1>6, <3>1, <3>2
  <2>2. f = [i \in 0 .. Buckets |-> f[i]]
    BY <1>5 DEF Descends
  <2> QED BY <2>1, <2>2
<1>8. ASSUME NEW h, Solves(h) PROVE h[0] \in Chains(0, b)
  <2>1. \A i \in 0 .. Buckets : h[i] = IF i = Buckets THEN <<>> ELSE Take(i, b, h[i + 1])
    BY <1>8
  <2> DEFINE Bad == {k \in Nat : k <= Buckets /\ h[Buckets - k] \notin Chains(Buckets - k, b)}
  <2>2. ASSUME Bad # {} PROVE FALSE
    <3>1. PICK k \in Bad : \A j \in Bad : k <= j
      <4>1. Bad \subseteq Nat
        OBVIOUS
      <4> HIDE DEF Bad
      <4> QED BY <2>2, <4>1, LeastNat
    <3>2. CASE k = 0
      BY <1>1, <2>1, <3>1, <3>2
    <3>3. CASE k # 0
      <4>1. k - 1 \in Nat /\ k - 1 <= Buckets /\ ~(k <= k - 1)
        BY <3>1, <3>3
      <4>2. h[Buckets - (k - 1)] \in Chains(Buckets - (k - 1), b)
        BY <3>1, <4>1
      <4>3. Buckets - k \in 0 .. Buckets - 1 /\ Buckets - k \in 0 .. Buckets /\ Buckets - k # Buckets
            /\ (Buckets - k) + 1 = Buckets - (k - 1)
        BY <3>1, <3>3
      <4>4. h[Buckets - k] = Take(Buckets - k, b, h[(Buckets - k) + 1])
        BY <2>1, <4>3
      <4> QED BY <1>2, <3>1, <4>2, <4>3, <4>4
    <3> QED BY <3>2, <3>3
  <2>3. Buckets \in Nat /\ Buckets <= Buckets /\ Buckets - Buckets = 0
    OBVIOUS
  <2> QED BY <2>2, <2>3
<1>9. Gather(b) = (CHOOSE h : Solves(h))[0]
  BY DEF Gather
<1> HIDE DEF Solves
<1>10. Solves(CHOOSE h : Solves(h))
  BY <1>7
<1> QED BY <1>8, <1>9, <1>10

-----------------------------------------------------------------------------
(* The best and the worst of some segments, and the next request.          *)

LEMMA BestOf ==
  ASSUME NEW S \in SUBSET Segments, S # {}
  PROVE  \E g \in S : \A h \in S : ~IsWorseThan(g, h)
<1>1. \A g \in S : g[1] \in Nat /\ g[2] \in Nat
  BY SegmentShape DEF BucketIds
<1> DEFINE B == {g[1] : g \in S}
<1>2. PICK i \in B : \A j \in B : i <= j
  <2>1. B \subseteq Nat /\ B # {}
    BY <1>1
  <2> HIDE DEF B
  <2> QED BY <2>1, LeastNat
<1> DEFINE T == {g[2] : g \in {h \in S : h[1] = i}}
<1>3. PICK s \in T : \A t \in T : s <= t
  <2>1. T \subseteq Nat /\ T # {}
    BY <1>1, <1>2
  <2> HIDE DEF T
  <2> QED BY <2>1, LeastNat
<1>4. PICK g \in S : g[1] = i /\ g[2] = s
  BY <1>3
<1>5. ASSUME NEW h \in S PROVE ~IsWorseThan(g, h)
  <2>1. i <= h[1]
    BY <1>2
  <2>2. h[1] = i => s <= h[2]
    BY <1>3
  <2> QED BY <1>1, <1>4, <2>1, <2>2 DEF IsWorseThan
<1> QED BY <1>5

LEMMA WorstOf ==
  ASSUME NEW S \in SUBSET Segments, S # {}
  PROVE  \E g \in S : \A h \in S : ~IsWorseThan(h, g)
<1> USE ManagerAssumption
<1>1. \A g \in S : g[1] \in 0 .. Buckets /\ g[2] \in 0 .. MaxUnits
  BY SegmentShape DEF BucketIds
<1> DEFINE B == {Buckets - g[1] : g \in S}
<1>2. PICK i \in B : \A j \in B : i <= j
  <2>1. B \subseteq Nat /\ B # {}
    BY <1>1
  <2> HIDE DEF B
  <2> QED BY <2>1, LeastNat
<1> DEFINE T == {MaxUnits - g[2] : g \in {h \in S : Buckets - h[1] = i}}
<1>3. PICK s \in T : \A t \in T : s <= t
  <2>1. T \subseteq Nat /\ T # {}
    BY <1>1, <1>2
  <2> HIDE DEF T
  <2> QED BY <2>1, LeastNat
<1>4. PICK g \in S : Buckets - g[1] = i /\ MaxUnits - g[2] = s
  BY <1>3
<1>5. ASSUME NEW h \in S PROVE ~IsWorseThan(h, g)
  <2>1. i <= Buckets - h[1]
    BY <1>2
  <2>2. Buckets - h[1] = i => s <= MaxUnits - h[2]
    BY <1>3
  <2> QED BY <1>1, <1>4, <2>1, <2>2 DEF IsWorseThan
<1> QED BY <1>5

LEMMA BestType ==
  ASSUME Candidates \subseteq Segments, Candidates # {}
  PROVE  Best \in Candidates /\ \A h \in Candidates : ~IsWorseThan(Best, h)
<1>1. \E g \in Candidates : \A h \in Candidates : ~IsWorseThan(g, h)
  BY BestOf
<1> QED BY <1>1 DEF Best

LEMMA WorstType ==
  ASSUME Running \subseteq Segments, Running # {}
  PROVE  Worst \in Running /\ \A h \in Running : ~IsWorseThan(h, Worst)
<1>1. \E g \in Running : \A h \in Running : ~IsWorseThan(h, g)
  BY WorstOf
<1> QED BY <1>1 DEF Worst

LEMMA NextRequestType ==
  ASSUME pending_iters \subseteq Requests, pending_iters # {}
  PROVE  NextRequest \in pending_iters /\ \A q \in pending_iters : NextRequest <= q
<1>1. \E r \in pending_iters : \A q \in pending_iters : r <= q
  BY LeastNat, ManagerAssumption
<1> QED BY <1>1 DEF NextRequest

-----------------------------------------------------------------------------
(* The types and the order of a stop.                                      *)

\* Provers are stopped by the session, after it joined the event loop, which
\* only ends because of a stop.
Control ==
  /\ session = "read" => ~stopped
  /\ session \in {"read", "joinLoop"} => killed = {}
  /\ session \notin {"read", "joinLoop"} => main = "exit"
  /\ main = "exit" => stopped

\* Until a stop the running provers are counted while some are started, and
\* fill no more than the slots.
Slots ==
  /\ main = "schedule" /\ ~stopped => active = Cardinality(provers \ paused)
  /\ ~stopped => Cardinality(provers \ paused) <= Threads

TypeInv == TypeOK /\ Control /\ Slots

\* What has been appended is where the event loop last looked, at the latest,
\* and at a multiple of the length.
Counters ==
  /\ vdf_iteration <= iterations
  /\ \A i \in BucketIds : last_appended[i] % Length(i) = 0 /\ last_appended[i] <= vdf_iteration

\* The first part of SegmentsConserved.
Conserved ==
  \A g \in Segments :
    /\ End(g) <= last_appended[g[1]] <=> g \in pending \cup provers \cup done
    /\ g \in pending => g \notin provers \cup done
    /\ thread[g] # "none" <=> g \in provers \cup done
    /\ g \in done => thread[g] \in {"finished", "event", "exit"}

LEMMA SegmentsFinite ==
  ASSUME NEW S \in SUBSET Segments
  PROVE  IsFiniteSet(S) /\ Cardinality(S) \in Nat
<1>1. IsFiniteSet(BucketIds) /\ IsFiniteSet(0 .. MaxUnits - 1)
  BY FS_Interval, ManagerAssumption DEF BucketIds
<1>2. IsFiniteSet(BucketIds \X (0 .. MaxUnits - 1))
  BY <1>1, FS_Product
<1>3. S \in SUBSET (BucketIds \X (0 .. MaxUnits - 1))
  BY DEF Segments
<1>4. IsFiniteSet(S)
  BY <1>2, <1>3, FS_Subset
<1> QED BY <1>4, FS_CardinalityType

LEMMA RunningNotEmpty ==
  ASSUME TypeInv, main = "schedule", ~stopped, ~(active < Threads)
  PROVE  Worst \in Running /\ \A h \in Running : ~IsWorseThan(h, Worst)
<1>1. Running \subseteq Segments
  BY DEF TypeInv, TypeOK, Running
<1>2. Running # {}
  <2>1. active = Cardinality(Running)
    BY DEF TypeInv, Slots, Running
  <2>2. Cardinality(Running) # 0
    BY <2>1, ManagerAssumption DEF TypeInv, TypeOK
  <2> QED BY <2>2, FS_EmptySet
<1> QED BY <1>1, <1>2, WorstType

\* The slots stay as they are when no prover is started, paused or resumed.
LEMMA SlotsStay ==
  ASSUME Slots, provers' \ paused' = provers \ paused, active' = active,
         stopped => stopped', main' = "schedule" /\ ~stopped' => main = "schedule"
  PROVE  Slots'
BY DEF Slots

LEMMA BaseType ==
  ASSUME NEW r \in Requests
  PROVE  r \in Nat /\ Base(r) \in Nat
BY ManagerAssumption DEF Base

LEMMA TypeInit == Init => TypeInv
<1> SUFFICES ASSUME Init PROVE TypeInv
  OBVIOUS
<1> USE ManagerAssumption
<1>1. last_appended \in [BucketIds -> 0 .. MaxUnits] /\ 0 \in 0 .. MaxUnits
  BY DEF Init
<1>2. segs \in [Requests -> Seq(Segments)]
  BY EmptySeq DEF Init
<1>3. Slots
  BY FS_EmptySet DEF Init, Slots
<1> QED BY <1>1, <1>2, <1>3 DEF Init, TypeInv, TypeOK, Control, Ended

LEMMA TypeNext == TypeInv /\ [Next]_vars => TypeOK' /\ Control'
<1> SUFFICES ASSUME TypeInv, [Next]_vars PROVE TypeOK' /\ Control'
  OBVIOUS
<1> USE ManagerAssumption
<1>1. CASE VdfTick
  BY <1>1 DEF TypeInv, TypeOK, Control, VdfTick, loopVars, proverVars, proofVars, reqVars
<1>2. CASE VdfExit
  BY <1>2 DEF TypeInv, TypeOK, Control, VdfExit, loopVars, proverVars, proofVars, reqVars
<1>3. CASE \E g \in Segments : ProverThread(g)
  <2>1. PICK g \in Segments : ProverThread(g)
    BY <1>3
  <2>2. CASE LastStep(g)
    BY <2>2 DEF TypeInv, TypeOK, Control, LastStep, vdfVars, loopVars, proofVars, reqVars
  <2>3. CASE Abandon(g)
    BY <2>3 DEF TypeInv, TypeOK, Control, Abandon, vdfVars, loopVars, proofVars, reqVars
  <2>4. CASE Finish(g)
    BY <2>4 DEF TypeInv, TypeOK, Control, Finish, vdfVars, loopVars, proofVars, reqVars
  <2>5. CASE Announce(g)
    BY <2>5 DEF TypeInv, TypeOK, Control, Announce, vdfVars, loopVars, proofVars, reqVars
  <2>6. CASE FullyFinish(g)
    BY <2>6 DEF TypeInv, TypeOK, Control, FullyFinish, vdfVars, loopVars, proofVars, reqVars
  <2> QED BY <2>1, <2>2, <2>3, <2>4, <2>5, <2>6 DEF ProverThread
<1>4. CASE WaitEvent
  BY <1>4 DEF TypeInv, TypeOK, Control, WaitEvent, vdfVars, proverVars, proofVars, reqVars
<1>5. CASE NotifySegment
  BY <1>5 DEF TypeInv, TypeOK, Control, NotifySegment, WakeSegment, vdfVars, proverVars, proofVars, Ended
<1>6. CASE Harvest
  <2>1. done' \in SUBSET Segments /\ provers' \subseteq Segments /\ paused' \subseteq provers'
    BY <1>6 DEF TypeInv, TypeOK, Harvest, Finished
  <2>2. killed' \subseteq provers'
    BY <1>6 DEF TypeInv, TypeOK, Control, Harvest
  <2>3. max_proving' \in 0 .. MaxUnits
    <3>1. Reach(done') \in 0 .. MaxUnits
      BY <2>1, ReachCovered
    <3> QED BY <1>6, <3>1 DEF TypeInv, TypeOK, Harvest
  <2>4. req' \in [Requests -> Ended \cup {"register", "registerLast", "testSegment", "blockSegment", "sleepSegment",
                   "partial", "loop", "testProof", "blockProof", "sleepProof", "retry", "build"}]
    BY <1>6 DEF TypeInv, TypeOK, Harvest, WakeProof, Ended
  <2> QED BY <1>6, <2>1, <2>2, <2>3, <2>4 DEF TypeInv, TypeOK, Control, Harvest, vdfVars
<1>7. CASE AppendSegments
  <2>1. CASE stopped
    BY <1>7, <2>1 DEF TypeInv, TypeOK, Control, AppendSegments, vdfVars, proverVars, proofVars, reqVars
  <2>2. CASE ~stopped
    <3>1. pending' \subseteq Segments
      BY <1>7, <2>2 DEF TypeInv, TypeOK, AppendSegments
    <3>2. last_appended' \in [BucketIds -> 0 .. MaxUnits]
      <4>1. ASSUME NEW i \in BucketIds PROVE (vdf_iteration \div Length(i)) * Length(i) \in 0 .. MaxUnits
        <5> DEFINE L == Length(i)
        <5>1. L \in Nat \ {0} /\ vdf_iteration \in 0 .. MaxUnits /\ vdf_iteration \in Nat
          BY LengthType DEF TypeInv, TypeOK
        <5> HIDE DEF L
        <5>2. vdf_iteration \div L \in Nat /\ vdf_iteration % L \in 0 .. L - 1
              /\ vdf_iteration = (vdf_iteration \div L) * L + (vdf_iteration % L)
          BY <5>1, DivMod
        <5>3. (vdf_iteration \div L) * L \in Nat
          BY <5>1, <5>2, Multiple
        <5>4. (vdf_iteration \div L) * L \in 0 .. MaxUnits
          BY <5>1, <5>2, <5>3
        <5> QED BY <5>4 DEF L
      <4> QED BY <1>7, <2>2, <4>1 DEF AppendSegments
    <3>3. active' \in Nat
      <4>1. Cardinality(provers \ paused) \in Nat
        BY SegmentsFinite DEF TypeInv, TypeOK
      <4> QED BY <1>7, <2>2, <4>1 DEF AppendSegments
    <3> QED BY <1>7, <2>2, <3>1, <3>2, <3>3
            DEF TypeInv, TypeOK, Control, AppendSegments, vdfVars, proverVars, proofVars, reqVars
  <2> QED BY <2>1, <2>2
<1>8. CASE Schedule
  <2>1. Candidates \subseteq Segments
    BY DEF TypeInv, TypeOK, Candidates
  <2>2. ASSUME NEW best \in Candidates, NEW preempted, preempted \subseteq Running, Spawn(best, preempted)
        PROVE  /\ provers' \subseteq Segments /\ paused' \subseteq provers' /\ killed \subseteq provers'
               /\ pending' \subseteq Segments
               /\ thread' \in [Segments -> {"none", "run", "last", "finished", "event", "exit"}]
    BY <2>1, <2>2 DEF TypeInv, TypeOK, Spawn, Running
  <2>3. CASE ~stopped /\ Candidates # {} /\ active < Threads
    <3>1. Best \in Candidates
      BY <2>1, <2>3, BestType
    <3>2. Spawn(Best, {}) /\ active' = active + 1 /\ UNCHANGED main
      BY <1>8, <2>3 DEF Schedule
    <3>3. /\ provers' \subseteq Segments /\ paused' \subseteq provers' /\ killed \subseteq provers'
          /\ pending' \subseteq Segments
          /\ thread' \in [Segments -> {"none", "run", "last", "finished", "event", "exit"}]
      BY <2>2, <3>1, <3>2
    <3> QED BY <1>8, <3>2, <3>3 DEF TypeInv, TypeOK, Control, Schedule, vdfVars, proofVars, reqVars
  <2>4. CASE ~stopped /\ Candidates # {} /\ ~(active < Threads) /\ IsWorseThan(Worst, Best)
    <3>1. Best \in Candidates
      BY <2>1, <2>4, BestType
    <3>2. Worst \in Running
      BY <1>8, <2>4, RunningNotEmpty DEF Schedule
    <3>3. Spawn(Best, {Worst}) /\ UNCHANGED <<main, active>>
      BY <1>8, <2>4 DEF Schedule
    <3>4. /\ provers' \subseteq Segments /\ paused' \subseteq provers' /\ killed \subseteq provers'
          /\ pending' \subseteq Segments
          /\ thread' \in [Segments -> {"none", "run", "last", "finished", "event", "exit"}]
      BY <2>2, <3>1, <3>2, <3>3
    <3> QED BY <1>8, <3>3, <3>4 DEF TypeInv, TypeOK, Control, Schedule, vdfVars, proofVars, reqVars
  <2>5. CASE UNCHANGED <<active, pending, provers, paused, thread>> /\ main' = IF stopped THEN "exit" ELSE "wait"
    BY <1>8, <2>5 DEF TypeInv, TypeOK, Control, Schedule, vdfVars, proofVars, reqVars
  <2> QED BY <1>8, <2>3, <2>4, <2>5 DEF Schedule

<1>9. CASE \E r \in Requests : RequestThread(r) \/ Receive(r)
  <2>1. PICK r \in Requests : RequestThread(r) \/ Receive(r)
    BY <1>9
  <2>2. CASE Register(r)
    BY <2>2 DEF TypeInv, TypeOK, Control, Register, Goto, vdfVars, loopVars, proverVars, Ended
  <2>3. CASE RegisterLast(r)
    BY <2>3 DEF TypeInv, TypeOK, Control, RegisterLast, Goto, vdfVars, loopVars, proverVars, Ended
  <2>4. CASE TestSegment(r)
    BY <2>4 DEF TypeInv, TypeOK, Control, TestSegment, Goto, vdfVars, loopVars, proverVars, Ended
  <2>5. CASE Sleep(r)
    BY <2>5 DEF TypeInv, TypeOK, Control, Sleep, OnlyReq, Goto, vdfVars, loopVars, proverVars, proofVars, Ended
  <2>6. CASE ProvePartial(r)
    BY <2>6 DEF TypeInv, TypeOK, Control, ProvePartial, OnlyReq, Goto, vdfVars, loopVars, proverVars, proofVars, Ended
  <2>7. CASE TestLoop(r)
    BY <2>7 DEF TypeInv, TypeOK, Control, TestLoop, OnlyReq, Goto, vdfVars, loopVars, proverVars, proofVars, Ended
  <2>8. CASE TestProof(r)
    <3>1. Gather(Base(r)) \in Seq(Segments)
      BY BaseType, GatherChains DEF TypeInv, TypeOK, Chains
    <3>2. segs' \in [Requests -> Seq(Segments)]
      BY <2>8, <3>1 DEF TypeInv, TypeOK, TestProof
    <3>3. pending_iters' \subseteq Requests
      BY <2>8 DEF TypeInv, TypeOK, TestProof
    <3>4. \E pc \in {"dropped", "retry", "build", "blockProof", "sleepProof"} : Goto(r, pc)
      BY <2>8 DEF TestProof
    <3>5. req' \in [Requests -> Ended \cup {"register", "registerLast", "testSegment", "blockSegment", "sleepSegment",
                     "partial", "loop", "testProof", "blockProof", "sleepProof", "retry", "build"}]
      BY <3>4 DEF TypeInv, TypeOK, Goto, Ended
    <3> QED BY <2>8, <3>2, <3>3, <3>5 DEF TypeInv, TypeOK, Control, TestProof, vdfVars, loopVars, proverVars
  <2>9. CASE Retry(r)
    BY <2>9 DEF TypeInv, TypeOK, Control, Retry, Goto, vdfVars, loopVars, proverVars, Ended
  <2>10. CASE Build(r)
    BY <2>10 DEF TypeInv, TypeOK, Control, Build, OnlyReq, Goto, vdfVars, loopVars, proverVars, proofVars, Ended
  <2>11. CASE Receive(r)
    BY <2>11 DEF TypeInv, TypeOK, Control, Receive, OnlyReq, Goto, vdfVars, loopVars, proverVars, proofVars, Ended
  <2> QED BY <2>1, <2>2, <2>3, <2>4, <2>5, <2>6, <2>7, <2>8, <2>9, <2>10, <2>11 DEF RequestThread
<1>10. CASE Stop
  BY <1>10 DEF TypeInv, TypeOK, Control, Stop, vdfVars, loopVars, proverVars, proofVars, reqVars
<1>11. CASE Finishing
  <2>1. CASE JoinLoop
    BY <2>1 DEF TypeInv, TypeOK, Control, JoinLoop, vdfVars, loopVars, proverVars, proofVars, reqVars
  <2>2. CASE NotifyStopped
    BY <2>2 DEF TypeInv, TypeOK, Control, NotifyStopped, Woken, vdfVars, loopVars, proverVars, proofVars, Ended
  <2>3. CASE JoinVdf
    BY <2>3 DEF TypeInv, TypeOK, Control, JoinVdf, vdfVars, loopVars, proverVars, proofVars, reqVars
  <2>4. CASE JoinRequests
    BY <2>4 DEF TypeInv, TypeOK, Control, JoinRequests, vdfVars, loopVars, proverVars, proofVars, reqVars
  <2>5. CASE \E g \in Segments : StopProver(g)
    BY <2>5 DEF TypeInv, TypeOK, Control, StopProver, vdfVars, loopVars, proofVars, reqVars
  <2> QED BY <1>11, <2>1, <2>2, <2>3, <2>4, <2>5 DEF Finishing
<1>12. CASE Over \/ UNCHANGED vars
  <2>1. UNCHANGED vars
    BY <1>12 DEF Over
  <2> QED BY <2>1 DEF TypeInv, TypeOK, Control, vars, vdfVars, loopVars, proverVars, proofVars, reqVars
<1> QED
  BY <1>1, <1>2, <1>3, <1>4, <1>5, <1>6, <1>7, <1>8, <1>9, <1>10, <1>11, <1>12 DEF Next, EventLoop

\* Starting or resuming a prover adds one to those that run; the preempted one
\* makes room for it.
LEMMA SpawnSlots ==
  ASSUME TypeInv, NEW best \in Candidates, Conserved,
         NEW preempted, preempted = {} \/ (\E g \in Running : preempted = {g}),
         Spawn(best, preempted)
  PROVE  Cardinality(provers' \ paused') =
           IF preempted = {} THEN Cardinality(Running) + 1 ELSE Cardinality(Running)
<1>1. Running \in SUBSET Segments /\ IsFiniteSet(Running) /\ Cardinality(Running) \in Nat
  BY SegmentsFinite DEF TypeInv, TypeOK, Running
<1>2. best \notin Running /\ best \in Segments
  BY DEF Candidates, Running, Conserved, TypeInv, TypeOK
<1>3. provers' \ paused' = (Running \cup {best}) \ preempted
  BY <1>2 DEF Spawn, Running
<1>4. IsFiniteSet(Running \cup {best}) /\ Cardinality(Running \cup {best}) = Cardinality(Running) + 1
  BY <1>1, <1>2, FS_AddElement
<1>5. CASE preempted = {}
  <2>1. provers' \ paused' = Running \cup {best}
    BY <1>3, <1>5
  <2> QED BY <1>4, <1>5, <2>1
<1>6. CASE preempted # {}
  <2>1. PICK g \in Running : preempted = {g}
    BY <1>6
  <2>2. Cardinality((Running \cup {best}) \ {g}) = Cardinality(Running \cup {best}) - 1
    BY <1>4, <2>1, FS_RemoveElement
  <2>3. provers' \ paused' = (Running \cup {best}) \ {g}
    BY <1>3, <2>1
  <2> DEFINE n == Cardinality(Running)
             k == Cardinality(Running \cup {best})
  <2>4. k - 1 = n
    <3>1. n \in Nat /\ k = n + 1
      BY <1>1, <1>4
    <3> HIDE DEF n, k
    <3> QED BY <3>1
  <2>5. Cardinality(provers' \ paused') = Cardinality(Running)
    BY <2>2, <2>3, <2>4, Zenon
  <2> QED BY <1>6, <2>5
<1> QED BY <1>5, <1>6

LEMMA SlotsNext == TypeInv /\ Conserved /\ [Next]_vars => Slots'
<1> SUFFICES ASSUME TypeInv, Conserved, [Next]_vars PROVE Slots'
  OBVIOUS
<1> USE ManagerAssumption
<1>0. Slots
  BY DEF TypeInv
<1>1. CASE VdfTick \/ VdfExit
  <2>1. UNCHANGED <<provers, paused, active, main, stopped>>
    BY <1>1 DEF VdfTick, VdfExit, loopVars, proverVars
  <2> QED BY <1>0, <2>1, SlotsStay
<1>2. CASE \E g \in Segments : ProverThread(g)
  <2>1. UNCHANGED <<provers, paused, active, main, stopped>>
    BY <1>2 DEF ProverThread, LastStep, Abandon, Finish, Announce, FullyFinish, loopVars
  <2> QED BY <1>0, <2>1, SlotsStay
<1>3. CASE WaitEvent \/ NotifySegment
  <2>1. UNCHANGED <<provers, paused, active, stopped>> /\ main' # "schedule"
    BY <1>3 DEF WaitEvent, NotifySegment, proverVars
  <2> QED BY <1>0, <2>1, SlotsStay
<1>4. CASE Harvest
  <2>1. /\ main' = "append" /\ stopped' = stopped
        /\ provers' \ paused' \subseteq provers \ paused
    BY <1>4 DEF Harvest
  <2>2. IsFiniteSet(provers \ paused) /\ Cardinality(provers \ paused) \in Nat
    BY SegmentsFinite DEF TypeInv, TypeOK
  <2>3. Cardinality(provers' \ paused') <= Cardinality(provers \ paused) /\ Cardinality(provers' \ paused') \in Nat
    BY <2>1, <2>2, FS_Subset, FS_CardinalityType
  <2> QED BY <1>0, <2>1, <2>2, <2>3 DEF Slots
<1>5. CASE AppendSegments
  <2>1. UNCHANGED <<provers, paused, stopped>>
    BY <1>5 DEF AppendSegments, proverVars
  <2>2. ~stopped => active' = Cardinality(provers \ paused)
    BY <1>5 DEF AppendSegments
  <2> QED BY <1>0, <2>1, <2>2 DEF Slots
<1>6. CASE Schedule
  <2>1. Candidates \subseteq Segments /\ main = "schedule" /\ stopped' = stopped
    BY <1>6 DEF Schedule, Candidates, TypeInv, TypeOK
  <2>2. Cardinality(Running) \in Nat
    BY SegmentsFinite DEF TypeInv, TypeOK, Running
  <2>3. CASE ~stopped /\ Candidates # {} /\ active < Threads
    <3>1. Best \in Candidates
      BY <2>1, <2>3, BestType
    <3>2. Spawn(Best, {}) /\ active' = active + 1
      BY <1>6, <2>3 DEF Schedule
    <3>3. Cardinality(provers' \ paused') = Cardinality(Running) + 1
      BY <3>1, <3>2, SpawnSlots
    <3>4. active = Cardinality(Running)
      BY <1>0, <2>1, <2>3 DEF Slots, Running
    <3> QED BY <2>2, <2>3, <3>2, <3>3, <3>4 DEF Slots
  <2>4. CASE ~stopped /\ Candidates # {} /\ ~(active < Threads) /\ IsWorseThan(Worst, Best)
    <3>1. Best \in Candidates
      BY <2>1, <2>4, BestType
    <3>2. Worst \in Running
      BY <2>1, <2>4, RunningNotEmpty
    <3>3. Spawn(Best, {Worst}) /\ active' = active /\ main' = main
      BY <1>6, <2>4 DEF Schedule
    <3>4. Cardinality(provers' \ paused') = Cardinality(Running)
      BY <3>1, <3>2, <3>3, SpawnSlots
    <3> QED BY <1>0, <2>1, <3>3, <3>4 DEF Slots, Running
  <2>5. CASE UNCHANGED <<active, pending, provers, paused, thread>> /\ main' = IF stopped THEN "exit" ELSE "wait"
    <3>1. main' # "schedule"
      BY <2>5
    <3> QED BY <1>0, <2>1, <2>5, <3>1, SlotsStay
  <2> QED BY <1>6, <2>3, <2>4, <2>5 DEF Schedule
<1>7. CASE \E r \in Requests : RequestThread(r) \/ Receive(r)
  <2>1. UNCHANGED <<provers, paused, active, main, stopped>>
    BY <1>7 DEF RequestThread, Receive, Register, RegisterLast, TestSegment, Sleep, ProvePartial, TestLoop, TestProof,
                Retry, Build, OnlyReq, loopVars, proverVars
  <2> QED BY <1>0, <2>1, SlotsStay
<1>8. CASE Stop
  BY <1>0, <1>8 DEF Stop, Slots
<1>9. CASE Finishing
  <2>1. CASE \E g \in Segments : StopProver(g)
    <3>1. stopped' = stopped /\ stopped
      BY <2>1 DEF StopProver, TypeInv, Control
    <3> QED BY <3>1 DEF Slots
  <2>2. CASE JoinLoop \/ NotifyStopped \/ JoinVdf \/ JoinRequests
    <3>1. UNCHANGED <<provers, paused, active, main, stopped>>
      BY <2>2 DEF JoinLoop, NotifyStopped, JoinVdf, JoinRequests, loopVars, proverVars
    <3> QED BY <1>0, <3>1, SlotsStay
  <2> QED BY <1>9, <2>1, <2>2 DEF Finishing
<1>10. CASE Over \/ UNCHANGED vars
  <2>1. UNCHANGED <<provers, paused, active, main, stopped>>
    BY <1>10 DEF Over, vars, loopVars, proverVars
  <2> QED BY <1>0, <2>1, SlotsStay
<1> QED BY <1>1, <1>2, <1>3, <1>4, <1>5, <1>6, <1>7, <1>8, <1>9, <1>10 DEF Next, EventLoop

-----------------------------------------------------------------------------
(* No segment is lost or proved twice.                                     *)

LEMMA ConservedStays ==
  ASSUME Conserved, UNCHANGED <<last_appended, pending, provers, done, thread>>
  PROVE  Conserved'
BY DEF Conserved

\* What the event loop appended are the segments before last_appended.
LEMMA Appended ==
  ASSUME TypeInv, Counters, NEW g \in Segments, NEW i, i = g[1]
  PROVE  /\ g[2] >= last_appended[i] <=> ~(End(g) <= last_appended[i])
         /\ End(g) <= vdf_iteration <=> End(g) <= (vdf_iteration \div Length(i)) * Length(i)
         /\ End(g) <= last_appended[i] => End(g) <= vdf_iteration
<1> DEFINE L == Length(i)
<1>1. i \in BucketIds /\ L \in Nat \ {0} /\ g[2] \in Nat /\ g[2] % L = 0 /\ End(g) = g[2] + L
  BY SegmentShape, ManagerAssumption DEF End
<1>2. last_appended[i] \in Nat /\ last_appended[i] % L = 0 /\ last_appended[i] <= vdf_iteration /\ vdf_iteration \in Nat
  BY <1>1, ManagerAssumption DEF TypeInv, TypeOK, Counters
<1> HIDE DEF L
<1>3. g[2] >= last_appended[i] <=> ~(g[2] + L <= last_appended[i])
  BY <1>1, <1>2, Apart
<1>4. g[2] + L <= vdf_iteration <=> g[2] + L <= (vdf_iteration \div L) * L
  BY <1>1, <1>2, EndsBefore
<1>5. g[2] + L <= last_appended[i] => g[2] + L <= vdf_iteration
  BY <1>1, <1>2
<1> QED BY <1>1, <1>3, <1>4, <1>5 DEF L

LEMMA CountersNext == TypeInv /\ Counters /\ [Next]_vars => Counters'
<1> SUFFICES ASSUME TypeInv, Counters, [Next]_vars PROVE Counters'
  OBVIOUS
<1> USE ManagerAssumption
<1>1. CASE UNCHANGED <<last_appended, vdf_iteration, iterations>>
  BY <1>1 DEF Counters
<1>2. CASE VdfTick
  BY <1>2 DEF Counters, VdfTick, loopVars, TypeInv, TypeOK
<1>3. CASE WaitEvent
  <2>1. UNCHANGED <<last_appended, iterations>> /\ vdf_iteration' \in {vdf_iteration, iterations}
    BY <1>3 DEF WaitEvent, vdfVars
  <2>2. \A i \in BucketIds : last_appended[i] \in Nat
    BY DEF TypeInv, TypeOK
  <2> QED BY <2>1, <2>2 DEF Counters, TypeInv, TypeOK
<1>4. CASE AppendSegments
  <2>1. CASE stopped
    BY <1>1, <1>4, <2>1 DEF AppendSegments, vdfVars
  <2>2. CASE ~stopped
    <3>1. ASSUME NEW i \in BucketIds
          PROVE  last_appended'[i] % Length(i) = 0 /\ last_appended'[i] <= vdf_iteration
      <4> DEFINE L == Length(i)
      <4>1. last_appended'[i] = (vdf_iteration \div L) * L
        BY <1>4, <2>2 DEF AppendSegments
      <4>2. L \in Nat \ {0} /\ vdf_iteration \in Nat
        BY LengthType DEF TypeInv, TypeOK
      <4> HIDE DEF L
      <4>3. vdf_iteration \div L \in Nat /\ vdf_iteration % L \in 0 .. L - 1
            /\ vdf_iteration = (vdf_iteration \div L) * L + (vdf_iteration % L)
        BY <4>2, DivMod
      <4>4. (vdf_iteration \div L) * L \in Nat /\ ((vdf_iteration \div L) * L) % L = 0
        BY <4>2, <4>3, Multiple
      <4>5. (vdf_iteration \div L) * L <= vdf_iteration
        BY <4>2, <4>3, <4>4
      <4> QED BY <4>1, <4>4, <4>5 DEF L
    <3>2. UNCHANGED <<vdf_iteration, iterations>>
      BY <1>4 DEF AppendSegments, vdfVars
    <3> QED BY <3>1, <3>2 DEF Counters
  <2> QED BY <2>1, <2>2
<1>5. CASE VdfExit \/ (\E g \in Segments : ProverThread(g)) \/ NotifySegment \/ Harvest \/ Schedule
  BY <1>1, <1>5 DEF VdfExit, ProverThread, LastStep, Abandon, Finish, Announce, FullyFinish, NotifySegment, Harvest,
                    Schedule, vdfVars, loopVars
<1>6. CASE \E r \in Requests : RequestThread(r) \/ Receive(r)
  BY <1>1, <1>6 DEF RequestThread, Receive, Register, RegisterLast, TestSegment, Sleep, ProvePartial, TestLoop,
                    TestProof, Retry, Build, OnlyReq, vdfVars, loopVars
<1>7. CASE Stop \/ Finishing \/ Over \/ UNCHANGED vars
  BY <1>1, <1>7 DEF Stop, Finishing, JoinLoop, NotifyStopped, JoinVdf, JoinRequests, StopProver, Over, vars, vdfVars,
                    loopVars
<1> QED BY <1>2, <1>3, <1>4, <1>5, <1>6, <1>7 DEF Next, EventLoop

LEMMA ConservedNext == TypeInv /\ Counters /\ Conserved /\ [Next]_vars => Conserved'
<1> SUFFICES ASSUME TypeInv, Counters, Conserved, [Next]_vars PROVE Conserved'
  OBVIOUS
<1> USE ManagerAssumption
<1>1. CASE VdfTick \/ VdfExit \/ WaitEvent \/ NotifySegment
  BY <1>1, ConservedStays DEF VdfTick, VdfExit, WaitEvent, NotifySegment, loopVars, proverVars, proofVars
<1>2. CASE \E g \in Segments : ProverThread(g)
  <2>1. PICK g \in Segments : ProverThread(g)
    BY <1>2
  <2>2. UNCHANGED <<last_appended, pending, provers, done>>
    BY <2>1 DEF ProverThread, LastStep, Abandon, Finish, Announce, FullyFinish, loopVars, proofVars
  <2>3. \E pc \in {"last", "finished", "event", "exit"} :
          /\ thread' = [thread EXCEPT ![g] = pc] /\ thread[g] # "none"
          /\ g \in done => pc \in {"finished", "event", "exit"}
    BY <2>1 DEF ProverThread, LastStep, Abandon, Finish, Announce, FullyFinish, Conserved
  <2> QED BY <2>2, <2>3 DEF Conserved, TypeInv, TypeOK
<1>3. CASE Harvest
  <2>1. UNCHANGED <<last_appended, pending, thread>> /\ done' = done \cup Finished
        /\ provers' \subseteq provers /\ provers \subseteq provers' \cup Finished
    BY <1>3 DEF Harvest
  <2>2. killed = {}
    BY <1>3 DEF Harvest, TypeInv, Control
  <2>3. \A g \in Finished : g \in provers /\ thread[g] \in {"finished", "event", "exit"}
    BY <2>2 DEF Finished, IsFinished
  <2> QED BY <2>1, <2>3 DEF Conserved
<1>4. CASE AppendSegments
  <2>1. CASE stopped
    BY <1>4, <2>1, ConservedStays DEF AppendSegments, proverVars, proofVars
  <2>2. CASE ~stopped
    <3>1. UNCHANGED <<provers, done, thread>>
      BY <1>4 DEF AppendSegments, proverVars, proofVars
    <3>2. pending' = pending \cup {g \in Segments : g[2] >= last_appended[g[1]] /\ End(g) <= vdf_iteration}
      BY <1>4, <2>2 DEF AppendSegments
    <3>3. ASSUME NEW g \in Segments
          PROVE  /\ End(g) <= last_appended'[g[1]] <=> g \in pending' \cup provers \cup done
                 /\ g \in pending' => g \notin provers \cup done
      <4>1. last_appended'[g[1]] = (vdf_iteration \div Length(g[1])) * Length(g[1])
        BY <1>4, <2>2, SegmentShape DEF AppendSegments
      <4>2. /\ g[2] >= last_appended[g[1]] <=> ~(End(g) <= last_appended[g[1]])
            /\ End(g) <= vdf_iteration <=> End(g) <= last_appended'[g[1]]
            /\ End(g) <= last_appended[g[1]] => End(g) <= vdf_iteration
        BY <4>1, Appended
      <4>3. /\ End(g) <= last_appended[g[1]] <=> g \in pending \cup provers \cup done
            /\ g \in pending => g \notin provers \cup done
        BY DEF Conserved
      <4> QED BY <3>2, <4>2, <4>3
    <3> QED BY <3>1, <3>3 DEF Conserved
  <2> QED BY <2>1, <2>2
<1>5. CASE Schedule
  <2>1. UNCHANGED <<last_appended, done>> /\ Candidates \subseteq Segments
    BY <1>5 DEF Schedule, proofVars, Candidates, TypeInv, TypeOK
  <2>2. ASSUME NEW best \in Candidates, NEW preempted, Spawn(best, preempted) PROVE Conserved'
    <3>1. best \in Segments
      BY <2>1
    <3>2. ASSUME NEW g \in Segments
          PROVE  /\ g \in pending' \cup provers' \cup done <=> g \in pending \cup provers \cup done
                 /\ g \in pending' => g \notin provers' \cup done
                 /\ thread'[g] # "none" <=> g \in provers' \cup done
                 /\ g \in done => thread'[g] \in {"finished", "event", "exit"}
      <4>1. CASE best \in provers
        BY <2>2, <3>1, <3>2, <4>1 DEF Spawn, Conserved, Candidates
      <4>2. CASE best \notin provers
        <5>1. best \in pending /\ best \notin done
          BY <2>2, <3>1, <4>2 DEF Candidates, Conserved
        <5>2. thread' = [thread EXCEPT ![best] = "run"]
          BY <2>2, <4>2 DEF Spawn
        <5>3. thread'[g] = IF g = best THEN "run" ELSE thread[g]
          BY <3>1, <5>2 DEF TypeInv, TypeOK
        <5> QED BY <2>2, <3>1, <3>2, <5>1, <5>3 DEF Spawn, Conserved
      <4> QED BY <4>1, <4>2
    <3> QED BY <2>1, <3>2 DEF Conserved
  <2>3. CASE Candidates # {} /\ ((Spawn(Best, {}) \/ Spawn(Best, {Worst})))
    BY <2>1, <2>2, <2>3, BestType
  <2>4. CASE UNCHANGED <<pending, provers, thread>>
    BY <2>1, <2>4, ConservedStays
  <2> QED BY <1>5, <2>3, <2>4 DEF Schedule
<1>6. CASE \E r \in Requests : RequestThread(r) \/ Receive(r)
  BY <1>6, ConservedStays DEF RequestThread, Receive, Register, RegisterLast, TestSegment, Sleep, ProvePartial, TestLoop,
                              TestProof, Retry, Build, OnlyReq, loopVars, proverVars, proofVars
<1>7. CASE Stop \/ Finishing \/ Over \/ UNCHANGED vars
  BY <1>7, ConservedStays DEF Stop, Finishing, JoinLoop, NotifyStopped, JoinVdf, JoinRequests, StopProver, Over, vars,
                              loopVars, proverVars, proofVars
<1> QED BY <1>1, <1>2, <1>3, <1>4, <1>5, <1>6, <1>7 DEF Next, EventLoop

\* The inductive invariant of the event loop.
Inv == TypeInv /\ Counters /\ Conserved

LEMMA InvInit == Init => Inv
<1> SUFFICES ASSUME Init PROVE Inv
  OBVIOUS
<1>1. Counters
  <2>1. \A i \in BucketIds : 0 % Length(i) = 0
    <3>1. ASSUME NEW i \in BucketIds PROVE 0 % Length(i) = 0
      <4> DEFINE L == Length(i)
      <4>1. L \in Nat \ {0}
        BY LengthType
      <4> HIDE DEF L
      <4>2. 0 * L = 0
        BY <4>1
      <4> QED BY <4>1, <4>2, Multiple DEF L
    <3> QED BY <3>1
  <2> QED BY <2>1 DEF Init, Counters
<1>2. Conserved
  BY SegmentShape, ManagerAssumption DEF Init, Conserved
<1> QED BY <1>1, <1>2, TypeInit DEF Inv

LEMMA InvNext == Inv /\ [Next]_vars => Inv'
BY TypeNext, SlotsNext, CountersNext, ConservedNext DEF Inv, TypeInv

LEMMA InvHolds == Spec => []Inv
<1>1. Init => Inv
  BY InvInit
<1>2. Inv /\ [Next]_vars => Inv'
  BY InvNext
<1> QED BY <1>1, <1>2, PTL DEF Spec

\* Every variable has its type whatever provers, event loop, requests and
\* session do; that max_proving_iteration and the segments of a proof stay
\* within what is counted rests on the recursions of Reach and Gather.
THEOREM TypeCorrect == Spec => []TypeOK
<1>1. Inv => TypeOK
  BY DEF Inv, TypeInv
<1> QED BY <1>1, InvHolds, PTL

\* RunEventLoop loses no segment and proves none twice, for every number of
\* proving threads, and until a stop no more than those run.
THEOREM SegmentsAreConserved == Spec => []SegmentsConserved
<1>1. Inv => SegmentsConserved
  BY DEF Inv, TypeInv, Slots, Conserved, SegmentsConserved
<1> QED BY <1>1, InvHolds, PTL

-----------------------------------------------------------------------------
(* What is announced as provable.                                          *)

LEMMA CoveredNext == Inv /\ MaxProvingCovered /\ [Next]_vars => MaxProvingCovered'
<1> SUFFICES ASSUME Inv, MaxProvingCovered, [Next]_vars PROVE MaxProvingCovered'
  OBVIOUS
<1>1. CASE Harvest
  <2>1. done \subseteq done' /\ done' \in SUBSET Segments
    BY <1>1 DEF Harvest, Finished, Inv, TypeInv, TypeOK
  <2>2. max_proving' = max_proving \/ max_proving' = Reach(done')
    BY <1>1 DEF Harvest
  <2>3. CASE max_proving' = max_proving
    BY <2>1, <2>3 DEF MaxProvingCovered
  <2>4. CASE max_proving' = Reach(done')
    BY <2>1, <2>4, ReachCovered DEF MaxProvingCovered, Covered
  <2> QED BY <2>2, <2>3, <2>4
<1>2. CASE UNCHANGED <<max_proving, done>>
  BY <1>2 DEF MaxProvingCovered
<1>3. ~Harvest => UNCHANGED <<max_proving, done>>
  BY DEF Next, EventLoop, VdfTick, VdfExit, ProverThread, LastStep, Abandon, Finish, Announce, FullyFinish, WaitEvent,
         NotifySegment, AppendSegments, Schedule, RequestThread, Receive, Register, RegisterLast, TestSegment, Sleep,
         ProvePartial, TestLoop, TestProof, Retry, Build, OnlyReq, Stop, Finishing, JoinLoop, NotifyStopped, JoinVdf,
         JoinRequests, StopProver, Over, vars, proofVars
<1> QED BY <1>1, <1>2, <1>3

\* Finished segments cover every iteration up to max_proving_iteration, in
\* whatever order the provers finish (RunEventLoop).
THEOREM AnnouncedIsCovered == Spec => []MaxProvingCovered
<1>1. Init => MaxProvingCovered
  BY DEF Init, MaxProvingCovered
<1>2. Inv /\ MaxProvingCovered /\ [Next]_vars => MaxProvingCovered'
  BY CoveredNext
<1> QED BY <1>1, <1>2, InvHolds, PTL DEF Spec

-----------------------------------------------------------------------------
(* The wake-ups.                                                           *)

Registered == {"registerLast", "testSegment", "blockSegment", "sleepSegment", "partial", "loop", "testProof",
               "blockProof", "sleepProof"}

\* A request that waits for its segments is among those the event loop looks
\* at, and they could not be proved when it last looked.
WaitsForProof ==
  \A r \in Requests :
    /\ req[r] \in Registered => r \in pending_iters
    /\ req[r] \in {"blockProof", "sleepProof"} => max_proving < Base(r)

\* A request that waits for the VDF is among those the event loop looks at, and
\* if the VDF has arrived the event loop is about to say so; unless another
\* request of the same segment has come past its wait and erased the element.
WaitsForVdf ==
  \A r \in Requests :
    /\ req[r] \in {"testSegment", "blockSegment", "sleepSegment"} => Base(r) \in pending_last \/ Overtaken(r)
    /\ req[r] \in {"blockSegment", "sleepSegment"} => vdf_iteration < Base(r) \/ main = "segment" \/ Overtaken(r)

LEMMA WaitsForProofNext == Inv /\ WaitsForProof /\ [Next]_vars => WaitsForProof'
<1> SUFFICES ASSUME Inv, WaitsForProof, [Next]_vars PROVE WaitsForProof'
  OBVIOUS
<1>0. DOMAIN req = Requests /\ pending_iters \subseteq Requests
  BY DEF Inv, TypeInv, TypeOK
<1>1. CASE UNCHANGED <<req, pending_iters, max_proving>>
  BY <1>1 DEF WaitsForProof
<1>2. CASE VdfTick \/ VdfExit \/ (\E g \in Segments : ProverThread(g)) \/ WaitEvent \/ AppendSegments \/ Schedule
  BY <1>1, <1>2 DEF VdfTick, VdfExit, ProverThread, LastStep, Abandon, Finish, Announce, FullyFinish, WaitEvent,
                    AppendSegments, Schedule, proofVars, reqVars
<1>3. CASE NotifySegment
  BY <1>3 DEF NotifySegment, WakeSegment, proofVars, WaitsForProof, Registered
<1>4. CASE Harvest
  <2> DEFINE small == (\E g \in Finished : g[1] = 0) /\ pending_iters # {}
             wake == small /\ max_proving' >= Base(NextRequest)
  <2>1. /\ ProofFree /\ pending_iters' = pending_iters
        /\ req' = [r \in Requests |-> IF wake /\ req[r] = "sleepProof" THEN "testProof" ELSE req[r]]
        /\ max_proving' = max_proving \/ small
    BY <1>4 DEF Harvest, WakeProof
  <2>2. max_proving' \in Int
    BY InvNext DEF Inv, TypeInv, TypeOK
  <2> HIDE DEF small, wake
  <2>3. ASSUME NEW r \in Requests PROVE req'[r] \in Registered => r \in pending_iters'
    BY <1>0, <2>1 DEF WaitsForProof, Registered
  <2>4. ASSUME NEW r \in Requests, req'[r] \in {"blockProof", "sleepProof"} PROVE max_proving' < Base(r)
    <3>1. req[r] = "sleepProof" /\ ~wake
      BY <2>1, <2>4 DEF ProofFree
    <3>2. r \in pending_iters /\ max_proving < Base(r)
      BY <3>1 DEF WaitsForProof, Registered
    <3>3. CASE max_proving' = max_proving
      BY <3>2, <3>3
    <3>4. CASE small
      <4>1. ~(max_proving' >= Base(NextRequest))
        BY <3>1, <3>4 DEF wake
      <4>2. NextRequest \in Requests /\ NextRequest <= r
        BY <1>0, <3>2, NextRequestType
      <4>3. Base(NextRequest) <= Base(r) /\ Base(NextRequest) \in Int /\ Base(r) \in Int
        BY <4>2, ManagerAssumption DEF Base
      <4> QED BY <2>2, <4>1, <4>3
    <3> QED BY <2>1, <3>3, <3>4
  <2> QED BY <2>3, <2>4 DEF WaitsForProof
<1>5. CASE \E r \in Requests : RequestThread(r) \/ Receive(r)
  <2>1. PICK r \in Requests : RequestThread(r) \/ Receive(r)
    BY <1>5
  <2>2. UNCHANGED max_proving
    BY <2>1 DEF RequestThread, Receive, Register, RegisterLast, TestSegment, Sleep, ProvePartial, TestLoop, TestProof,
                Retry, Build, OnlyReq, proofVars
  <2>3. ASSUME NEW q \in Requests, q # r
        PROVE  req'[q] = req[q] /\ (q \in pending_iters' <=> q \in pending_iters)
    BY <1>0, <2>1, <2>3
       DEF RequestThread, Receive, Register, RegisterLast, TestSegment, Sleep, ProvePartial, TestLoop, TestProof,
           Retry, Build, OnlyReq, Goto, proofVars
  <2>4. req'[r] \in Registered => r \in pending_iters'
    <3>1. CASE Register(r) \/ Retry(r)
      BY <3>1 DEF Register, Retry
    <3>2. CASE TestProof(r)
      BY <1>0, <3>2 DEF TestProof, Goto, WaitsForProof, Registered
    <3>3. CASE RegisterLast(r) \/ TestSegment(r) \/ Sleep(r) \/ ProvePartial(r) \/ TestLoop(r)
      <4>1. req[r] \in Registered /\ pending_iters' = pending_iters
        BY <3>3 DEF RegisterLast, TestSegment, Sleep, ProvePartial, TestLoop, OnlyReq, proofVars, Registered
      <4> QED BY <4>1 DEF WaitsForProof
    <3>4. CASE Build(r) \/ Receive(r)
      BY <1>0, <3>4 DEF Build, Receive, Goto, Registered
    <3> QED BY <2>1, <3>1, <3>2, <3>3, <3>4 DEF RequestThread
  <2>5. req'[r] \in {"blockProof", "sleepProof"} => max_proving < Base(r)
    <3>1. CASE TestProof(r)
      <4>1. ~(max_proving >= Base(r)) \/ req'[r] \notin {"blockProof", "sleepProof"}
        BY <1>0, <3>1 DEF TestProof, Goto
      <4> QED BY <4>1, BaseType DEF Inv, TypeInv, TypeOK
    <3>2. CASE Sleep(r)
      BY <1>0, <3>2 DEF Sleep, Goto, WaitsForProof
    <3>3. CASE ~TestProof(r) /\ ~Sleep(r)
      BY <1>0, <2>1, <3>3 DEF RequestThread, Receive, Register, RegisterLast, TestSegment, ProvePartial, TestLoop,
                              Retry, Build, Goto
    <3> QED BY <3>1, <3>2, <3>3
  <2> QED BY <2>2, <2>3, <2>4, <2>5 DEF WaitsForProof
<1>6. CASE NotifyStopped
  BY <1>6 DEF NotifyStopped, Woken, proofVars, WaitsForProof, Registered
<1>7. CASE Stop \/ JoinLoop \/ JoinVdf \/ JoinRequests \/ (\E g \in Segments : StopProver(g)) \/ Over \/ UNCHANGED vars
  BY <1>1, <1>7 DEF Stop, JoinLoop, JoinVdf, JoinRequests, StopProver, Over, vars, proofVars, reqVars
<1> QED BY <1>2, <1>3, <1>4, <1>5, <1>6, <1>7 DEF Next, EventLoop, Finishing

\* A request that has come past the wait for the VDF does not come back to it.
LEMMA OvertakenStays ==
  ASSUME Inv, [Next]_vars, NEW r \in Requests, Overtaken(r)
  PROVE  Overtaken(r)'
<1> DEFINE Past(q) == req[q] \notin BeforeSegment
<1>0. DOMAIN req = Requests
  BY DEF Inv, TypeInv, TypeOK
<1>1. CASE UNCHANGED req
  BY <1>1 DEF Overtaken
<1>2. CASE NotifySegment \/ Harvest \/ NotifyStopped
  <2>1. \A q \in Requests : req'[q] = req[q] \/ req[q] = "sleepSegment" \/ req'[q] = "testProof"
    BY <1>2 DEF NotifySegment, WakeSegment, Harvest, WakeProof, NotifyStopped, Woken
  <2>2. \A q \in Requests : Past(q) => Past(q)'
    BY <2>1 DEF BeforeSegment
  <2> QED BY <2>2 DEF Overtaken
<1>3. CASE \E q \in Requests : RequestThread(q) \/ Receive(q)
  <2>1. PICK q \in Requests : RequestThread(q) \/ Receive(q)
    BY <1>3
  <2>2. \A p \in Requests : p # q => req'[p] = req[p]
    BY <1>0, <2>1 DEF RequestThread, Receive, Register, RegisterLast, TestSegment, Sleep, ProvePartial, TestLoop,
                      TestProof, Retry, Build, Goto
  <2>3. Past(q) => Past(q)'
    BY <1>0, <2>1 DEF BeforeSegment, RequestThread, Receive, Register, RegisterLast, TestSegment, Sleep, ProvePartial,
                      TestLoop, TestProof, Retry, Build, Goto
  <2> QED BY <2>2, <2>3 DEF Overtaken
<1>4. CASE VdfTick \/ VdfExit \/ (\E g \in Segments : ProverThread(g)) \/ WaitEvent \/ AppendSegments \/ Schedule
  BY <1>1, <1>4 DEF VdfTick, VdfExit, ProverThread, LastStep, Abandon, Finish, Announce, FullyFinish, WaitEvent,
                    AppendSegments, Schedule, reqVars
<1>5. CASE Stop \/ JoinLoop \/ JoinVdf \/ JoinRequests \/ (\E g \in Segments : StopProver(g)) \/ Over \/ UNCHANGED vars
  BY <1>1, <1>5 DEF Stop, JoinLoop, JoinVdf, JoinRequests, StopProver, Over, vars, reqVars
<1> QED BY <1>2, <1>3, <1>4, <1>5 DEF Next, EventLoop, Finishing

LEMMA WaitsForVdfNext == Inv /\ WaitsForVdf /\ [Next]_vars => WaitsForVdf'
<1> SUFFICES ASSUME Inv, WaitsForVdf, [Next]_vars PROVE WaitsForVdf'
  OBVIOUS
<1>0. DOMAIN req = Requests /\ \A r \in Requests : Overtaken(r) => Overtaken(r)'
  BY OvertakenStays DEF Inv, TypeInv, TypeOK
<1>1. CASE UNCHANGED <<req, pending_last, vdf_iteration>> /\ (main = "segment" => main' = "segment")
  BY <1>0, <1>1 DEF WaitsForVdf
<1>2. CASE VdfTick \/ VdfExit \/ (\E g \in Segments : ProverThread(g)) \/ AppendSegments \/ Schedule
  BY <1>1, <1>2 DEF VdfTick, VdfExit, ProverThread, LastStep, Abandon, Finish, Announce, FullyFinish,
                    AppendSegments, Schedule, proofVars, reqVars, loopVars
<1>3. CASE WaitEvent
  BY <1>0, <1>3 DEF WaitEvent, proofVars, reqVars, WaitsForVdf
<1>4. CASE NotifySegment
  <2> DEFINE wake == \E b \in pending_last : b <= vdf_iteration
  <2>1. /\ LastSegmentFree /\ UNCHANGED <<pending_last, vdf_iteration>>
        /\ req' = [r \in Requests |-> IF wake /\ req[r] = "sleepSegment" THEN "testSegment" ELSE req[r]]
    BY <1>4 DEF NotifySegment, WakeSegment, proofVars
  <2> HIDE DEF wake
  <2>2. ASSUME NEW r \in Requests, req'[r] \in {"blockSegment", "sleepSegment"}
        PROVE  vdf_iteration < Base(r) \/ Overtaken(r)
    <3>1. req[r] = "sleepSegment" /\ ~wake
      BY <2>1, <2>2 DEF LastSegmentFree
    <3>2. Base(r) \in pending_last \/ Overtaken(r)
      BY <3>1 DEF WaitsForVdf
    <3>3. ~(Base(r) <= vdf_iteration) \/ Overtaken(r)
      BY <3>1, <3>2 DEF wake
    <3> QED BY <3>3, BaseType, ManagerAssumption DEF Inv, TypeInv, TypeOK
  <2>3. ASSUME NEW r \in Requests, req'[r] \in {"testSegment", "blockSegment", "sleepSegment"}
        PROVE  Base(r) \in pending_last \/ Overtaken(r)
    BY <2>1, <2>3 DEF WaitsForVdf
  <2> QED BY <1>0, <2>1, <2>2, <2>3 DEF WaitsForVdf
<1>5. CASE Harvest
  <2>1. \A r \in Requests : req'[r] # req[r] => req'[r] = "testProof"
    BY <1>5 DEF Harvest, WakeProof
  <2>2. UNCHANGED <<pending_last, vdf_iteration>> /\ main # "segment"
    BY <1>5 DEF Harvest
  <2> QED BY <1>0, <2>1, <2>2 DEF WaitsForVdf
<1>6. CASE \E r \in Requests : RequestThread(r) \/ Receive(r)
  <2>1. PICK r \in Requests : RequestThread(r) \/ Receive(r)
    BY <1>6
  <2>2. UNCHANGED <<main, vdf_iteration>>
    BY <2>1 DEF RequestThread, Receive, Register, RegisterLast, TestSegment, Sleep, ProvePartial, TestLoop, TestProof,
                Retry, Build, OnlyReq, loopVars
  <2>3. ASSUME NEW q \in Requests, q # r
        PROVE  req'[q] = req[q] /\ (Base(q) \in pending_last => Base(q) \in pending_last' \/ Overtaken(q)')
    <3>1. req'[q] = req[q]
      BY <1>0, <2>1, <2>3
         DEF RequestThread, Receive, Register, RegisterLast, TestSegment, Sleep, ProvePartial, TestLoop, TestProof,
             Retry, Build, OnlyReq, Goto
    <3>2. CASE TestSegment(r) /\ Base(q) = Base(r) /\ pending_last' # pending_last
      <4>1. req'[r] = "partial"
        BY <1>0, <3>2 DEF TestSegment, Goto
      <4> QED BY <2>3, <3>1, <3>2, <4>1 DEF Overtaken, BeforeSegment
    <3>3. CASE ~(TestSegment(r) /\ Base(q) = Base(r)) \/ pending_last' = pending_last
      <4>1. Base(q) \in pending_last => Base(q) \in pending_last'
        BY <2>1, <3>3 DEF RequestThread, Receive, Register, RegisterLast, TestSegment, Sleep, ProvePartial, TestLoop,
                          TestProof, Retry, Build, OnlyReq, proofVars
      <4> QED BY <3>1, <4>1
    <3> QED BY <3>2, <3>3
  <2>4. /\ req'[r] \in {"testSegment", "blockSegment", "sleepSegment"} => Base(r) \in pending_last' \/ Overtaken(r)
        /\ req'[r] \in {"blockSegment", "sleepSegment"} => vdf_iteration < Base(r) \/ main = "segment" \/ Overtaken(r)
    <3>1. CASE RegisterLast(r)
      BY <1>0, <3>1 DEF RegisterLast, Goto
    <3>2. CASE TestSegment(r)
      <4>1. vdf_iteration >= Base(r) => req'[r] \notin {"testSegment", "blockSegment", "sleepSegment"}
        BY <1>0, <3>2 DEF TestSegment, Goto
      <4>2. vdf_iteration \in Int /\ Base(r) \in Int
        BY BaseType DEF Inv, TypeInv, TypeOK
      <4>3. ~(vdf_iteration >= Base(r)) => pending_last' = pending_last
        BY <3>2 DEF TestSegment
      <4>4. Base(r) \in pending_last \/ Overtaken(r)
        BY <3>2 DEF TestSegment, WaitsForVdf
      <4> QED BY <4>1, <4>2, <4>3, <4>4
    <3>3. CASE Sleep(r)
      BY <1>0, <3>3 DEF Sleep, Goto, OnlyReq, proofVars, WaitsForVdf
    <3>4. CASE ~RegisterLast(r) /\ ~TestSegment(r) /\ ~Sleep(r)
      BY <1>0, <2>1, <3>4 DEF RequestThread, Receive, Register, ProvePartial, TestLoop, TestProof, Retry, Build, Goto
    <3> QED BY <3>1, <3>2, <3>3, <3>4
  <2> QED BY <1>0, <2>2, <2>3, <2>4 DEF WaitsForVdf
<1>7. CASE NotifyStopped
  BY <1>0, <1>7 DEF NotifyStopped, Woken, proofVars, loopVars, WaitsForVdf
<1>8. CASE Stop \/ JoinLoop \/ JoinVdf \/ JoinRequests \/ (\E g \in Segments : StopProver(g)) \/ Over \/ UNCHANGED vars
  BY <1>1, <1>8 DEF Stop, JoinLoop, JoinVdf, JoinRequests, StopProver, Over, vars, proofVars, reqVars, loopVars
<1> QED BY <1>2, <1>3, <1>4, <1>5, <1>6, <1>7, <1>8 DEF Next, EventLoop, Finishing

\* The second part of NoMissedWakeup, for all requests: nobody sleeps through
\* the announcement that its segments can be proved, because the event loop
\* compares it with the smallest pending request and wakes all (line 622).
THEOREM NobodySleepsProvable ==
  Spec => [](\A r \in Requests : req[r] = "sleepProof" => max_proving < Base(r))
<1>1. Init => WaitsForProof
  BY DEF Init, WaitsForProof, Registered
<1>2. Inv /\ WaitsForProof /\ [Next]_vars => WaitsForProof'
  BY WaitsForProofNext
<1>3. WaitsForProof => \A r \in Requests : req[r] = "sleepProof" => max_proving < Base(r)
  BY DEF WaitsForProof
<1> QED BY <1>1, <1>2, <1>3, InvHolds, PTL DEF Spec

\* While the event loop sleeps no request sleeps through what it waits for, for
\* all requests, also those of one segment: there the set pending_iters_last_sg
\* has one element for both, and what can keep the second one asleep is the
\* first one's erasing it (line 417), and nothing else.
THEOREM WakeupsReach == Spec => []NoMissedWakeup
<1>1. Init => WaitsForProof /\ WaitsForVdf
  BY DEF Init, WaitsForProof, WaitsForVdf, Registered
<1>2. Inv /\ WaitsForProof /\ [Next]_vars => WaitsForProof'
  BY WaitsForProofNext
<1>3. Inv /\ WaitsForVdf /\ [Next]_vars => WaitsForVdf'
  BY WaitsForVdfNext
<1>4. WaitsForProof /\ WaitsForVdf => NoMissedWakeup
  BY DEF WaitsForProof, WaitsForVdf, NoMissedWakeup
<1> QED BY <1>1, <1>2, <1>3, <1>4, InvHolds, PTL DEF Spec

-----------------------------------------------------------------------------
(* What is sent.                                                           *)

\* The segments of a proof that is built or sent are few enough, have places in
\* done_segments and follow one another from 0 to the last checkpoint; Prove leaves its loop without segments only when the
\* session has stopped, and then the proof is dropped.
Whole(list, b) == Len(list) <= MaxBlobs /\ Chained(list) /\ Proved(list) = b /\ AllPlaced(list)
Assembled ==
  \A r \in Requests :
    req[r] \in {"build", "written"} => Whole(segs[r], Base(r)) \/ (req[r] = "build" /\ stopped)

\* Finished segments stay finished.
LEMMA DoneGrows == [Next]_vars => done \subseteq done'
<1> SUFFICES ASSUME [Next]_vars PROVE done \subseteq done'
  OBVIOUS
<1>1. CASE \E r \in Requests : RequestThread(r) \/ Receive(r)
  BY <1>1 DEF RequestThread, Receive, Register, RegisterLast, TestSegment, Sleep, ProvePartial, TestLoop, TestProof,
              Retry, Build, OnlyReq, proofVars
<1>2. CASE EventLoop
  BY <1>2 DEF EventLoop, WaitEvent, NotifySegment, Harvest, AppendSegments, Schedule, proofVars
<1>3. CASE VdfTick \/ VdfExit \/ (\E g \in Segments : ProverThread(g)) \/ Stop \/ Finishing \/ Over \/ UNCHANGED vars
  BY <1>3 DEF VdfTick, VdfExit, ProverThread, LastStep, Abandon, Finish, Announce, FullyFinish, Stop, Finishing,
              JoinLoop, NotifyStopped, JoinVdf, JoinRequests, StopProver, Over, vars, proofVars
<1> QED BY <1>1, <1>2, <1>3 DEF Next

\* So what a request has taken keeps its places.
LEMMA WholeStays ==
  ASSUME done \subseteq done', NEW r \in Requests, segs'[r] = segs[r], Whole(segs[r], Base(r))
  PROVE  Whole(segs[r], Base(r))'
<1>1. \A m \in 1 .. Len(segs[r]) : \E h \in done : h[1] = segs[r][m][1] /\ segs[r][m][2] <= h[2]
  BY DEF Whole, AllPlaced, Place
<1>2. Len(segs[r]) <= MaxBlobs /\ Chained(segs[r]) /\ Proved(segs[r]) = Base(r)
  BY DEF Whole
<1>3. \A m \in 1 .. Len(segs[r]) : \E h \in done' : h[1] = segs[r][m][1] /\ segs[r][m][2] <= h[2]
  BY <1>1
<1> QED BY <1>2, <1>3 DEF Whole, AllPlaced, Place, Chained, Proved

LEMMA AssembledNext == Inv /\ Assembled /\ [Next]_vars => Assembled'
<1> SUFFICES ASSUME Inv, Assembled, [Next]_vars PROVE Assembled'
  OBVIOUS
<1>0. /\ DOMAIN req = Requests /\ DOMAIN segs = Requests /\ done \subseteq Segments
      /\ stopped => stopped'
      /\ \A r \in Requests : segs'[r] = segs[r] /\ Whole(segs[r], Base(r)) => Whole(segs[r], Base(r))'
  <2>1. DOMAIN req = Requests /\ DOMAIN segs = Requests /\ done \subseteq Segments
    BY DEF Inv, TypeInv, TypeOK
  <2>2. stopped => stopped'
    BY DEF Next, EventLoop, VdfTick, VdfExit, ProverThread, LastStep, Abandon, Finish, Announce, FullyFinish, WaitEvent,
           NotifySegment, Harvest, AppendSegments, Schedule, RequestThread, Receive, Register, RegisterLast,
           TestSegment, Sleep, ProvePartial, TestLoop, TestProof, Retry, Build, OnlyReq, Stop, Finishing, JoinLoop,
           NotifyStopped, JoinVdf, JoinRequests, StopProver, Over, vars
  <2> QED BY <2>1, <2>2, DoneGrows, WholeStays
<1>1. CASE UNCHANGED segs /\ \A r \in Requests : req'[r] \in {"build", "written"} => req'[r] = req[r]
  BY <1>0, <1>1 DEF Assembled
<1>2. CASE VdfTick \/ VdfExit \/ (\E g \in Segments : ProverThread(g)) \/ WaitEvent \/ AppendSegments \/ Schedule
  BY <1>1, <1>2 DEF VdfTick, VdfExit, ProverThread, LastStep, Abandon, Finish, Announce, FullyFinish, WaitEvent,
                    AppendSegments, Schedule, reqVars
<1>3. CASE NotifySegment \/ Harvest \/ NotifyStopped
  BY <1>1, <1>3 DEF NotifySegment, WakeSegment, Harvest, WakeProof, NotifyStopped, Woken
<1>4. CASE \E r \in Requests : RequestThread(r) \/ Receive(r)
  <2>1. PICK r \in Requests : RequestThread(r) \/ Receive(r)
    BY <1>4
  <2>2. CASE TestProof(r)
    <3>1. ASSUME NEW q \in Requests, q # r PROVE req'[q] = req[q] /\ segs'[q] = segs[q]
      BY <1>0, <2>2, <3>1 DEF TestProof, Goto
    <3>2. ASSUME req'[r] \in {"build", "written"} PROVE Whole(segs[r], Base(r))'
      <4> DEFINE list == Gather(Base(r))
      <4>1. ~(Len(list) > MaxBlobs \/ Proved(list) < Base(r)) /\ segs'[r] = list /\ done' = done
        BY <1>0, <2>2, <3>2 DEF TestProof, Goto
      <4>2. list \in Chains(0, Base(r))
        BY <1>0, BaseType, GatherChains
      <4> HIDE DEF list
      <4>3. Chained(list) /\ Proved(list) <= Base(r) /\ list \in Seq(Segments) /\ AllPlaced(list)
        BY <4>2 DEF Chains
      <4>4. Proved(list) \in Int /\ Base(r) \in Int
        BY <4>3, BaseType, ProvedType, ManagerAssumption
      <4>5. Len(list) \in Int /\ MaxBlobs \in Int
        BY <4>3, LenProperties, ManagerAssumption
      <4>6. Len(list) <= MaxBlobs /\ Proved(list) = Base(r)
        BY <4>1, <4>3, <4>4, <4>5
      <4> QED BY <4>1, <4>3, <4>6 DEF Whole, AllPlaced, Place, Chained, Proved
    <3> QED BY <1>0, <3>1, <3>2 DEF Assembled
  <2>3. CASE TestLoop(r)
    <3>1. ASSUME NEW q \in Requests, q # r PROVE req'[q] = req[q]
      BY <1>0, <2>3, <3>1 DEF TestLoop, Goto
    <3>2. UNCHANGED <<segs, stopped>> /\ (req'[r] \in {"build", "written"} => stopped /\ req'[r] = "build")
      BY <1>0, <2>3 DEF TestLoop, Goto, OnlyReq
    <3> QED BY <1>0, <3>1, <3>2 DEF Assembled
  <2>4. CASE Build(r)
    <3>1. ASSUME NEW q \in Requests, q # r PROVE req'[q] = req[q]
      BY <1>0, <2>4, <3>1 DEF Build, Goto
    <3>2. UNCHANGED <<segs, stopped>> /\ (req'[r] \in {"build", "written"} => req'[r] = "written" /\ ~stopped)
      BY <1>0, <2>4 DEF Build, Goto, OnlyReq
    <3>3. req[r] = "build"
      BY <2>4 DEF Build
    <3> QED BY <1>0, <3>1, <3>2, <3>3 DEF Assembled
  <2>5. CASE ~TestProof(r) /\ ~TestLoop(r) /\ ~Build(r)
    <3>1. UNCHANGED segs /\ \A q \in Requests : req'[q] \in {"build", "written"} => req'[q] = req[q]
      BY <1>0, <2>1, <2>5 DEF RequestThread, Receive, Register, RegisterLast, TestSegment, Sleep, ProvePartial, Retry,
                              OnlyReq, Goto
    <3> QED BY <1>1, <3>1
  <2> QED BY <2>2, <2>3, <2>4, <2>5
<1>5. CASE Stop \/ JoinLoop \/ JoinVdf \/ JoinRequests \/ (\E g \in Segments : StopProver(g)) \/ Over \/ UNCHANGED vars
  BY <1>1, <1>5 DEF Stop, JoinLoop, JoinVdf, JoinRequests, StopProver, Over, vars, reqVars
<1> QED BY <1>2, <1>3, <1>4, <1>5 DEF Next, EventLoop, Finishing

\* A segment with a place in done_segments was appended, so if it has not
\* finished it is pending or has a prover: nothing was lost on the way.
LEMMA PlaceIsOwed ==
  ASSUME Inv, NEW g \in Segments, Place(g)
  PROVE  g \in pending \cup provers \cup done
<1>1. PICK h \in done : h[1] = g[1] /\ g[2] <= h[2]
  BY DEF Place
<1>2. h \in Segments /\ End(h) <= last_appended[h[1]]
  BY <1>1 DEF Inv, TypeInv, TypeOK, Conserved
<1>3. End(g) <= End(h)
  BY <1>1, <1>2, SegmentShape, ManagerAssumption DEF End
<1>4. End(g) \in Int /\ End(h) \in Int /\ last_appended[h[1]] \in Int
  BY <1>2, SegmentShape, ManagerAssumption DEF Inv, TypeInv, TypeOK
<1>5. End(g) <= last_appended[g[1]]
  BY <1>1, <1>2, <1>3, <1>4
<1> QED BY <1>5 DEF Inv, Conserved

\* For every number of proving threads and whatever finishes in whatever order
\* while Prove waits and gathers: what is sent has no more segments than a proof
\* may have, they follow one another from 0 to the last checkpoint before the
\* iteration, and each has finished or is still owed by the event loop.  That
\* all of them have finished is false (line 466).
THEOREM SentProofsFollow == Spec => []ProofsFollow
<1>1. Init => Assembled
  BY DEF Init, Assembled
<1>2. Inv /\ Assembled /\ [Next]_vars => Assembled'
  BY AssembledNext
<1>3. Inv /\ Assembled => ProofsFollow
  <2>1. ASSUME Inv, Assembled, NEW r \in Requests, req[r] = "written",
               NEW m \in 1 .. Len(segs[r])
        PROVE  Place(segs[r][m]) /\ segs[r][m] \in pending \cup provers \cup done
    <3>1. Place(segs[r][m])
      BY <2>1 DEF Assembled, Whole, AllPlaced
    <3>2. segs[r] \in Seq(Segments)
      BY <2>1 DEF Inv, TypeInv, TypeOK
    <3>3. segs[r][m] \in Segments
      BY <3>2, ElementOfSeq
    <3> QED BY <2>1, <3>1, <3>3, PlaceIsOwed
  <2> QED BY <2>1 DEF Assembled, Whole, ProofsFollow
<1> QED BY <1>1, <1>2, <1>3, InvHolds, PTL DEF Spec

=============================================================================
