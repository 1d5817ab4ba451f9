-------------------------- MODULE InductionProofs --------------------------
(***************************************************************************)
(* What every proof by induction here rests on: least and greatest         *)
(* elements of sets of numbers, and the existence of the functions that    *)
(* the models define by recursion.                                         *)
(***************************************************************************)
EXTENDS Integers, Sequences, SequencesExt, FiniteSetsExt, FiniteSetTheorems, TLAPS

(***************************************************************************)
(* Induction by a least or a greatest element                              *)
(***************************************************************************)
LEMMA LeastNatural ==
  ASSUME NEW S, S \subseteq Nat, S # {}
  PROVE  \E m \in S : \A k \in S : m <= k
<1>1. PICK m \in S : \A k \in S : <<k, m>> \notin OpToRel(<, Nat)
  BY WFMin, NatLessThanWellFounded, Zenon
<1>2. \A k \in S : ~(k < m)
  BY <1>1, Zenon DEF OpToRel
<1>. QED
  BY <1>2

LEMMA GreatestBelow ==
  ASSUME NEW S, S \subseteq Nat, S # {}, NEW b \in Nat, \A k \in S : k <= b
  PROVE  \E m \in S : \A k \in S : k <= m
<1>. DEFINE T == {b - k : k \in S}
<1>1. T \subseteq Nat /\ T # {}
  <2>1. \A k \in S : b - k \in Nat
    OBVIOUS
  <2>. QED
    BY <2>1, Zenon
<1>. HIDE DEF T
<1>2. PICK d \in T : \A k \in T : d <= k
  BY <1>1, LeastNatural
<1>. USE DEF T
<1>3. PICK m \in S : d = b - m
  OBVIOUS
<1>4. \A k \in S : b - k \in T
  OBVIOUS
<1>. HIDE DEF T
<1>5. \A k \in S : k <= m
  BY <1>2, <1>3, <1>4
<1>. QED
  BY <1>5

\* The greatest number of a set.
LEMMA MaxBelow ==
  ASSUME NEW S, NEW n \in Nat, S \subseteq 0..n, S # {}
  PROVE  Max(S) \in S /\ \A m \in S : m <= Max(S)
<1>1. S \subseteq Nat /\ \A k \in S : k <= n
  OBVIOUS
<1>2. PICK m \in S : \A k \in S : k <= m
  BY <1>1, GreatestBelow
<1>3. \A x \in S : \A k \in S : k <= x => x >= k
  BY <1>1
<1>4. \E x \in S : \A k \in S : x >= k
  BY <1>2, <1>3
<1>5. Max(S) \in S /\ \A k \in S : Max(S) >= k
  BY <1>4, Zenon DEF Max
<1>. QED
  BY <1>1, <1>5

LEMMA MaxOf ==
  ASSUME NEW S, NEW n \in Nat, S \subseteq 1..n, S # {}
  PROVE  Max(S) \in S /\ \A m \in S : m <= Max(S)
<1>1. S \subseteq 0..n
  OBVIOUS
<1>. QED
  BY <1>1, MaxBelow

\* The least number of a set.
LEMMA MinOf ==
  ASSUME NEW S, S \subseteq Nat, S # {}
  PROVE  /\ Min(S) \in S /\ \A m \in S : Min(S) <= m
         /\ \A k \in S : (\A m \in S : k <= m) => Min(S) = k
<1>1. PICK k \in S : \A m \in S : k <= m
  BY LeastNatural
<1>2. Min(S) = CHOOSE x \in S : \A y \in S : x <= y
  BY DEF Min
<1>3. Min(S) \in S /\ \A m \in S : Min(S) <= m
  BY <1>1, <1>2
<1>4. ASSUME NEW j \in S, \A m \in S : j <= m PROVE Min(S) = j
  <2>1. j \in Nat /\ Min(S) \in Nat /\ j <= Min(S) /\ Min(S) <= j
    BY <1>3, <1>4
  <2>. HIDE DEF Min
  <2>. QED
    BY <2>1
<1>. QED
  BY <1>3, <1>4

(***************************************************************************)
(* Functions defined by recursion along an interval                        *)
(***************************************************************************)
\* f goes from a, in steps of S.
Follows(f, lo, hi, a, S) ==
  f = [k \in lo..hi |-> IF k = lo THEN a ELSE S[<<k, f[k-1]>>]]

LEMMA RecursionExists ==
  ASSUME NEW V, NEW a \in V, NEW lo \in Nat, NEW hi \in Nat, lo <= hi,
         NEW S \in [Nat \X V -> V]
  PROVE  \E f \in [lo..hi -> V] : Follows(f, lo, hi, a, S)
<1>. DEFINE P(h) == \E f \in [lo..h -> V] : Follows(f, lo, h, a, S)
            Bad  == {h \in lo..hi : ~P(h)}
<1>1. SUFFICES Bad = {}
  <2>1. hi \in lo..hi
    OBVIOUS
  <2>2. P(hi)
    <3>. HIDE DEF P
    <3>. QED
      BY <2>1
  <2>. QED
    BY <2>2
<1>2. SUFFICES ASSUME Bad # {} PROVE FALSE
  OBVIOUS
<1>3. PICK h \in Bad : \A k \in Bad : h <= k
  <2>1. Bad \subseteq Nat
    OBVIOUS
  <2>. HIDE DEF Bad
  <2>. QED
    BY <1>2, <2>1, LeastNatural
<1>4. h \in lo..hi /\ ~P(h)
  BY <1>3
<1>5. h # lo
  <2>1. SUFFICES ASSUME h = lo PROVE P(h)
    BY <1>4
  <2>2. [k \in lo..lo |-> a] \in [lo..lo -> V] /\ Follows([k \in lo..lo |-> a], lo, lo, a, S)
    BY DEF Follows
  <2>. QED
    BY <2>1, <2>2
<1>6. h - 1 \in lo..hi /\ h - 1 \in Nat /\ h \in Nat
  BY <1>4, <1>5
<1>7. P(h - 1)
  <2>1. h - 1 \notin Bad
    <3>. HIDE DEF Bad
    <3>. QED
      BY <1>3, <1>6
  <2>. QED
    BY <1>6, <2>1
<1>8. PICK f \in [lo..(h - 1) -> V] : Follows(f, lo, h - 1, a, S)
  BY <1>7
<1>. DEFINE g == [k \in lo..h |-> IF k = h THEN S[<<h, f[h - 1]>>] ELSE f[k]]
<1>9. g \in [lo..h -> V]
  BY <1>4, <1>5, <1>6
<1>10. \A k \in lo..(h - 1) : f[k] = IF k = lo THEN a ELSE S[<<k, f[k-1]>>]
  BY <1>8, Zenon DEF Follows
<1>11. \A k \in lo..h : g[k] = IF k = lo THEN a ELSE S[<<k, g[k-1]>>]
  <2>. TAKE k \in lo..h
  <2>1. CASE k = h
    BY <1>4, <1>5, <1>6, <2>1
  <2>2. CASE k # h
    <3>1. k \in lo..(h - 1) /\ (k # lo => k - 1 \in lo..h /\ k - 1 # h)
      BY <1>4, <1>5, <1>6, <2>2
    <3>2. g[k] = f[k] /\ (k # lo => g[k-1] = f[k-1])
      BY <2>2, <3>1
    <3>. QED
      BY <1>10, <3>1, <3>2
  <2>. QED
    BY <2>1, <2>2
<1>12. Follows(g, lo, h, a, S)
  <2>1. g = [k \in lo..h |-> g[k]]
    OBVIOUS
  <2>. HIDE DEF g
  <2>. QED
    BY <1>11, <2>1, Zenon DEF Follows
<1>13. P(h)
  <2>. HIDE DEF g
  <2>. QED
    BY <1>9, <1>12
<1>. QED
  BY <1>4, <1>13

\* What the function is up to a point does not depend on where it ends.
LEMMA RecursionAgrees ==
  ASSUME NEW V, NEW a \in V, NEW lo \in Nat, NEW hi \in Nat, NEW to \in Nat, lo <= hi, hi <= to,
         NEW S \in [Nat \X V -> V], NEW f, NEW g,
         Follows(f, lo, hi, a, S), Follows(g, lo, to, a, S)
  PROVE  \A k \in lo..hi : f[k] = g[k] /\ f[k] \in V
<1>. DEFINE Bad == {k \in lo..hi : ~(f[k] = g[k] /\ f[k] \in V)}
<1>1. SUFFICES ASSUME Bad # {} PROVE FALSE
  OBVIOUS
<1>2. PICK m \in Bad : \A k \in Bad : m <= k
  <2>1. Bad \subseteq Nat
    OBVIOUS
  <2>. HIDE DEF Bad
  <2>. QED
    BY <1>1, <2>1, LeastNatural
<1>3. m \in lo..hi /\ ~(f[m] = g[m] /\ f[m] \in V)
  BY <1>2
<1>4. /\ \A k \in lo..hi : f[k] = IF k = lo THEN a ELSE S[<<k, f[k-1]>>]
      /\ \A k \in lo..to : g[k] = IF k = lo THEN a ELSE S[<<k, g[k-1]>>]
  BY Zenon DEF Follows
<1>5. m \in lo..to /\ m \in Nat
  BY <1>3
<1>6. m # lo
  BY <1>3, <1>4, <1>5
<1>7. m - 1 \in lo..hi /\ m - 1 < m
  BY <1>3, <1>6
<1>8. m - 1 \notin Bad
  <2>. HIDE DEF Bad
  <2>. QED
    BY <1>2, <1>5, <1>7
<1>9. f[m - 1] = g[m - 1] /\ f[m - 1] \in V
  BY <1>7, <1>8
<1>10. f[m] = S[<<m, f[m-1]>>] /\ g[m] = S[<<m, g[m-1]>>]
  BY <1>3, <1>4, <1>5, <1>6, Zenon
<1>11. S[<<m, f[m-1]>>] \in V
  BY <1>5, <1>9
<1>. QED
  BY <1>3, <1>9, <1>10, <1>11

LEMMA FlattenTyped ==
  ASSUME NEW V, NEW s \in Seq(Seq(V))
  PROVE  FlattenSeq(s) \in Seq(V)
<1>. DEFINE len    == Len(s)
            T      == Seq(V)
            S      == [p \in Nat \X T |-> IF p[1] \in 1..len THEN p[2] \o s[p[1]] ELSE p[2]]
            Def(f) == f = [i \in 1..Len(s) |-> IF i = 1 THEN s[i] ELSE f[i-1] \o s[i]]
            flat   == CHOOSE f : Def(f)
<1>1. FlattenSeq(s) = IF Len(s) = 0 THEN s ELSE flat[Len(s)]
  BY Zenon DEF FlattenSeq
<1>2. CASE Len(s) = 0
  BY <1>1, <1>2
<1>3. CASE Len(s) # 0
  <2>1. len \in Nat /\ 1 \in Nat /\ 1 <= len /\ \A i \in 1..len : s[i] \in T
    BY <1>3
  <2>2. \A i \in 1..len : \A v \in T : v \o s[i] \in T
    BY <2>1
  <2>. HIDE DEF flat, T, len
  <2>3. S \in [Nat \X T -> T] /\ \A i \in 1..len : \A v \in T : S[<<i, v>>] = v \o s[i]
    <3>1. \A i \in 1..len : i \in Nat
      BY <2>1
    <3>. QED
      BY <2>2, <3>1
  <2>. DEFINE base == s[1]
  <2>4. base \in T
    BY <2>1
  <2>. HIDE DEF S, base
  <2>5. PICK f \in [1..len -> T] : Follows(f, 1, len, base, S)
    BY <2>1, <2>3, <2>4, RecursionExists
  <2>6. \A i \in 1..len : f[i] = IF i = 1 THEN base ELSE S[<<i, f[i-1]>>]
    BY <2>5, Zenon DEF Follows
  <2>7. \A i \in 1..len : f[i] = IF i = 1 THEN s[i] ELSE f[i-1] \o s[i]
    <3>. TAKE i \in 1..len
    <3>1. CASE i = 1
      BY <2>6, <3>1 DEF base
    <3>2. CASE i # 1
      <4>1. i - 1 \in 1..len
        BY <2>1, <3>2
      <4>. QED
        BY <2>3, <2>6, <3>2, <4>1
    <3>. QED
      BY <3>1, <3>2
  <2>8. Def(f)
    <3>1. f = [i \in 1..len |-> f[i]]
      OBVIOUS
    <3>. QED
      BY <2>7, <3>1, Zenon DEF len
  <2>9. Def(flat)
    <3>. HIDE DEF Def
    <3>. QED
      BY <2>8 DEF flat
  <2>10. \A i \in 1..len : flat[i] = IF i = 1 THEN s[i] ELSE flat[i-1] \o s[i]
    BY <2>9, Zenon DEF len
  <2>. DEFINE Bad == {i \in 1..len : flat[i] \notin T}
  <2>11. SUFFICES ASSUME Bad # {} PROVE FALSE
    <3>1. len \in 1..len
      BY <2>1
    <3>2. Bad = {} => flat[len] \in T
      BY <3>1
    <3>. QED
      BY <1>1, <1>3, <3>2 DEF len, T
  <2>12. PICK m \in Bad : \A k \in Bad : m <= k
    <3>1. Bad \subseteq Nat
      BY <2>1
    <3>. HIDE DEF Bad
    <3>. QED
      BY <2>11, <3>1, LeastNatural
  <2>13. m \in 1..len /\ flat[m] \notin T /\ m # 1
    BY <2>1, <2>10, <2>12
  <2>14. m - 1 \in 1..len /\ m - 1 \notin Bad
    <3>1. m - 1 \in 1..len /\ ~(m <= m - 1)
      BY <2>1, <2>13
    <3>. HIDE DEF Bad
    <3>. QED
      BY <2>12, <3>1
  <2>15. flat[m] = flat[m-1] \o s[m] /\ flat[m-1] \in T
    BY <2>10, <2>13, <2>14
  <2>. QED
    BY <2>2, <2>13, <2>15
<1>. QED
  BY <1>2, <1>3

\* H makes an answer at x of the answers at what ranks below x.
LooksDown(X, V, rank, H) ==
  \A x \in X : \A g, h \in [X -> V] :
    (\A y \in X : rank[y] < rank[x] => g[y] = h[y]) => H[<<x, g>>] = H[<<x, h>>]

\* f gives the answers of H.
Solves(f, X, H) == \A x \in X : f[x] = H[<<x, f>>]

LEMMA RankedRecursion ==
  ASSUME NEW X, NEW V, NEW base \in V, NEW rank \in [X -> Nat], NEW bound \in Nat,
         \A x \in X : rank[x] <= bound,
         NEW H \in [X \X [X -> V] -> V], LooksDown(X, V, rank, H)
  PROVE  \E f \in [X -> V] : Solves(f, X, H)
<1>. DEFINE W == [X -> V]
            a == [x \in X |-> base]
            S == [p \in Nat \X W |-> [x \in X |-> H[<<x, p[2]>>]]]
            top == bound + 2
<1>1. a \in W /\ S \in [Nat \X W -> W] /\ 0 \in Nat /\ top \in Nat /\ 0 <= top
  OBVIOUS
<1>2. \A n \in Nat : \A g \in W : \A x \in X : S[<<n, g>>][x] = H[<<x, g>>]
  OBVIOUS
<1>. HIDE DEF W, a, S, top
<1>3. PICK F \in [0..top -> W] : Follows(F, 0, top, a, S)
  BY <1>1, RecursionExists
<1>4. \A n \in 0..top : n # 0 => F[n] = S[<<n, F[n-1]>>]
  BY <1>3, Zenon DEF Follows
<1>5. \A n \in 0..(bound + 1) : \A x \in X : F[n + 1][x] = H[<<x, F[n]>>] /\ F[n] \in W /\ F[n + 1] \in W
  <2>. TAKE n \in 0..(bound + 1)
  <2>. TAKE x \in X
  <2>1. n \in 0..top /\ n + 1 \in 0..top /\ n + 1 # 0 /\ (n + 1) - 1 = n /\ n + 1 \in Nat
    BY DEF top
  <2>2. F[n + 1] = S[<<n + 1, F[n]>>]
    BY <1>4, <2>1
  <2>3. F[n] \in W /\ F[n + 1] \in W
    BY <1>3, <2>1
  <2>4. S[<<n + 1, F[n]>>][x] = H[<<x, F[n]>>]
    BY <1>2, <2>1, <2>3
  <2>. QED
    BY <2>2, <2>3, <2>4
<1>. DEFINE Settled(n) == \A x \in X : rank[x] < n => F[n][x] = F[n + 1][x]
            Bad == {n \in 0..(bound + 1) : ~Settled(n)}
<1>6. Bad = {}
  <2>1. SUFFICES ASSUME Bad # {} PROVE FALSE
    OBVIOUS
  <2>2. PICK n \in Bad : \A k \in Bad : n <= k
    <3>1. Bad \subseteq Nat
      OBVIOUS
    <3>. HIDE DEF Bad
    <3>. QED
      BY <2>1, <3>1, LeastNatural
  <2>3. n \in 0..(bound + 1) /\ ~Settled(n)
    BY <2>2
  <2>4. PICK x \in X : rank[x] < n /\ F[n][x] # F[n + 1][x]
    BY <2>3
  <2>5. rank[x] \in Nat /\ n # 0 /\ n - 1 \in 0..(bound + 1) /\ (n - 1) + 1 = n /\ ~(n <= n - 1)
    BY <2>3, <2>4
  <2>6. Settled(n - 1)
    <3>1. n - 1 \notin Bad
      <4>. HIDE DEF Bad
      <4>. QED
        BY <2>2, <2>5
    <3>. HIDE DEF Settled
    <3>. QED
      BY <2>5, <3>1
  <2>7. \A y \in X : rank[y] < rank[x] => F[n - 1][y] = F[n][y]
    <3>. TAKE y \in X
    <3>1. rank[y] \in Nat /\ (rank[y] < rank[x] => rank[y] < n - 1)
      BY <2>3, <2>4, <2>5
    <3>. QED
      BY <2>5, <2>6, <3>1
  <2>8. F[n][x] = H[<<x, F[n - 1]>>] /\ F[n + 1][x] = H[<<x, F[n]>>] /\ F[n - 1] \in W /\ F[n] \in W
    BY <1>5, <2>3, <2>5
  <2>. QED
    BY <2>4, <2>7, <2>8 DEF W, LooksDown
<1>7. \A x \in X : F[bound + 1][x] = H[<<x, F[bound + 1]>>]
  <2>1. bound + 1 \in 0..(bound + 1) /\ bound + 1 \in Nat
    OBVIOUS
  <2>2. Settled(bound + 1)
    <3>. HIDE DEF Settled
    <3>. QED
      BY <1>6, <2>1
  <2>. TAKE x \in X
  <2>3. rank[x] < bound + 1
    OBVIOUS
  <2>. QED
    BY <1>5, <2>1, <2>2, <2>3
<1>8. F[bound + 1] \in W
  <2>1. bound + 1 \in 0..top
    BY DEF top
  <2>. QED
    BY <2>1
<1>. QED
  BY <1>7, <1>8 DEF W, Solves

\* H makes an answer at i of the answers after i.
LooksAhead(lo, hi, V, H) ==
  \A i \in lo..hi : \A g, h \in [lo..hi -> V] :
    (\A j \in lo..hi : i < j => g[j] = h[j]) => H[<<i, g>>] = H[<<i, h>>]

LEMMA LookAhead ==
  ASSUME NEW lo \in Nat, NEW hi \in Nat, NEW V, NEW base \in V,
         NEW H \in [(lo..hi) \X [lo..hi -> V] -> V], LooksAhead(lo, hi, V, H)
  PROVE  \E f \in [lo..hi -> V] : Solves(f, lo..hi, H)
<1>. DEFINE rank == [i \in lo..hi |-> hi - i]
<1>1. /\ rank \in [lo..hi -> Nat]
      /\ \A i \in lo..hi : rank[i] <= hi
      /\ \A i, j \in lo..hi : i < j => rank[j] < rank[i]
  OBVIOUS
<1>. HIDE DEF rank
<1>2. LooksDown(lo..hi, V, rank, H)
  <2>1. ASSUME NEW i \in lo..hi, NEW g \in [lo..hi -> V], NEW h \in [lo..hi -> V],
               \A j \in lo..hi : rank[j] < rank[i] => g[j] = h[j]
        PROVE  H[<<i, g>>] = H[<<i, h>>]
    <3>1. \A j \in lo..hi : i < j => g[j] = h[j]
      BY <1>1, <2>1
    <3>. QED
      BY <3>1 DEF LooksAhead
  <2>. QED
    BY <2>1 DEF LooksDown
<1>. QED
  BY <1>1, <1>2, RankedRecursion

\* What holds at i when it holds after i holds along the interval.
LEMMA DownwardInduction ==
  ASSUME NEW lo \in Nat, NEW hi \in Nat, NEW G,
         \A i \in lo..hi : (\A j \in lo..hi : i < j => j \in G) => i \in G
  PROVE  \A i \in lo..hi : i \in G
<1>. DEFINE Bad == {i \in lo..hi : i \notin G}
<1>1. SUFFICES ASSUME Bad # {} PROVE FALSE
  OBVIOUS
<1>2. PICK m \in Bad : \A k \in Bad : k <= m
  <2>1. Bad \subseteq Nat /\ \A k \in Bad : k <= hi
    OBVIOUS
  <2>. HIDE DEF Bad
  <2>. QED
    BY <1>1, <2>1, GreatestBelow
<1>3. \A j \in lo..hi : m < j => j \in G
  <2>. TAKE j \in lo..hi
  <2>1. j \in Bad => ~(m < j)
    BY <1>2
  <2>. QED
    BY <2>1
<1>. QED
  BY <1>2, <1>3

\* H makes an answer at i of the answers before i.
LooksBack(hi, V, H) ==
  \A i \in 0..hi : \A g, h \in [0..hi -> V] :
    (\A j \in 0..hi : j < i => g[j] = h[j]) => H[<<i, g>>] = H[<<i, h>>]

LEMMA LookBack ==
  ASSUME NEW hi \in Nat, NEW V, NEW base \in V,
         NEW H \in [(0..hi) \X [0..hi -> V] -> V], LooksBack(hi, V, H)
  PROVE  \E f \in [0..hi -> V] : Solves(f, 0..hi, H)
<1>. DEFINE rank == [i \in 0..hi |-> i]
<1>1. /\ rank \in [0..hi -> Nat]
      /\ \A i \in 0..hi : rank[i] <= hi
      /\ \A i, j \in 0..hi : j < i => rank[j] < rank[i]
  OBVIOUS
<1>. HIDE DEF rank
<1>2. LooksDown(0..hi, V, rank, H)
  <2>1. ASSUME NEW i \in 0..hi, NEW g \in [0..hi -> V], NEW h \in [0..hi -> V],
               \A j \in 0..hi : rank[j] < rank[i] => g[j] = h[j]
        PROVE  H[<<i, g>>] = H[<<i, h>>]
    <3>1. \A j \in 0..hi : j < i => g[j] = h[j]
      BY <1>1, <2>1
    <3>. QED
      BY <3>1 DEF LooksBack
  <2>. QED
    BY <2>1 DEF LooksDown
<1>. QED
  BY <1>1, <1>2, RankedRecursion

\* What holds at i when it holds before i holds along the interval.
LEMMA UpwardInduction ==
  ASSUME NEW hi \in Nat, NEW G,
         \A i \in 0..hi : (\A j \in 0..hi : j < i => j \in G) => i \in G
  PROVE  \A i \in 0..hi : i \in G
<1>. DEFINE Bad == {i \in 0..hi : i \notin G}
<1>1. SUFFICES ASSUME Bad # {} PROVE FALSE
  OBVIOUS
<1>2. PICK m \in Bad : \A k \in Bad : m <= k
  <2>1. Bad \subseteq Nat
    OBVIOUS
  <2>. HIDE DEF Bad
  <2>. QED
    BY <1>1, <2>1, LeastNatural
<1>3. \A j \in 0..hi : j < m => j \in G
  <2>. TAKE j \in 0..hi
  <2>1. j \in Bad => ~(j < m)
    BY <1>2
  <2>. QED
    BY <2>1
<1>. QED
  BY <1>2, <1>3
=============================================================================
