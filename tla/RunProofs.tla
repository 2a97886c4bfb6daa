----------------------------- MODULE RunProofs -----------------------------
(* Proofs about a run and what it concludes: what a run has saved when it    *)
(* says it is complete (ScanRun), the order of versions and the advisories   *)
(* matched to an identity (ScanRun), and the graph of a project (GraphBuild).*)
EXTENDS TaskProofs, ScanRun, GraphBuild

-----------------------------------------------------------------------------
(* Ranks in an order.                                                        *)

RankIn(S, R, x) == Cardinality({y \in S : <<y, x>> \in R})

\* In a linear order there is one member of each rank, and ranks grow with it.
LEMMA RanksAre ==
  ASSUME NEW S, IsFiniteSet(S), NEW R, Linear(S, R)
  PROVE  /\ Cardinality(S) \in Nat
         /\ \A x \in S : RankIn(S, R, x) \in Nat /\ RankIn(S, R, x) + 1 \in 1 .. Cardinality(S)
         /\ \A x, y \in S : <<x, y>> \in R => RankIn(S, R, x) < RankIn(S, R, y)
         /\ \A k \in 1 .. Cardinality(S) : \E x \in S : RankIn(S, R, x) = k - 1
<1> DEFINE n == Cardinality(S)
           Below(x) == {y \in S : <<y, x>> \in R}
           rank == [x \in S |-> RankIn(S, R, x) + 1]
<1>0. \A x : RankIn(S, R, x) = Cardinality(Below(x))
  BY DEF RankIn
<1>1. n \in Nat
  BY FS_CardinalityType
<1>2. ASSUME NEW x \in S
      PROVE  /\ IsFiniteSet(Below(x)) /\ Cardinality(Below(x)) \in Nat
             /\ Cardinality(Below(x)) + 1 \in 1 .. n
  <2>1. Below(x) \in SUBSET S /\ x \notin Below(x)
    BY DEF Linear
  <2>2. IsFiniteSet(Below(x)) /\ Cardinality(Below(x)) <= n /\ (n = Cardinality(Below(x)) => S = Below(x))
    BY <2>1, FS_Subset
  <2>3. Cardinality(Below(x)) \in Nat
    BY <2>2, FS_CardinalityType
  <2>4. S # Below(x)
    BY <2>1
  <2> HIDE DEF n, Below
  <2> QED
    BY <1>1, <2>2, <2>3, <2>4
<1>3. ASSUME NEW x \in S, NEW y \in S, <<x, y>> \in R PROVE Cardinality(Below(x)) < Cardinality(Below(y))
  <2>1. Below(x) \in SUBSET Below(y)
    BY <1>3 DEF Linear
  <2>2. x \in Below(y) /\ x \notin Below(x)
    BY <1>3 DEF Linear
  <2>3. IsFiniteSet(Below(y)) /\ Cardinality(Below(x)) \in Nat /\ Cardinality(Below(y)) \in Nat
    BY <1>2
  <2> HIDE DEF Below
  <2>4. Cardinality(Below(x)) <= Cardinality(Below(y)) /\ (Cardinality(Below(y)) = Cardinality(Below(x)) => Below(y) = Below(x))
    BY <2>1, <2>3, FS_Subset
  <2> QED
    BY <2>2, <2>3, <2>4
<1> HIDE DEF Below
<1>4. rank \in [S -> 1 .. n]
  <2> HIDE DEF n
  <2> QED
    BY <1>0, <1>2
<1>5. \A x, y \in S : rank[x] = rank[y] => x = y
  <2>1. ASSUME NEW x \in S, NEW y \in S, x # y PROVE rank[x] # rank[y]
    <3>1. <<x, y>> \in R \/ <<y, x>> \in R
      BY <2>1 DEF Linear
    <3>2. rank[x] = Cardinality(Below(x)) + 1 /\ rank[y] = Cardinality(Below(y)) + 1
      BY <1>0
    <3>3. Cardinality(Below(x)) \in Nat /\ Cardinality(Below(y)) \in Nat
      BY <1>2
    <3> HIDE DEF rank
    <3> QED
      BY <1>3, <3>1, <3>2, <3>3
  <2> HIDE DEF rank
  <2> QED
    BY <2>1
<1> HIDE DEF rank
<1>6. rank \in Injection(S, 1 .. n)
  BY <1>4, <1>5 DEF Injection, IsInjective
<1>7. IsFiniteSet(1 .. n) /\ Cardinality(1 .. n) = n
  <2>1. n \in Int
    BY <1>1
  <2>2. IsFiniteSet(1 .. n) /\ Cardinality(1 .. n) = IF 1 > n THEN 0 ELSE n - 1 + 1
    BY <2>1, FS_Interval
  <2> HIDE DEF n
  <2> QED
    BY <1>1, <2>2
<1>8. rank \in Surjection(S, 1 .. n)
  BY <1>6, <1>7, FS_Injection
<1>9. ASSUME NEW k \in 1 .. n PROVE \E x \in S : RankIn(S, R, x) = k - 1
  <2>1. PICK x \in S : rank[x] = k
    BY <1>8 DEF Surjection
  <2>2. rank[x] = RankIn(S, R, x) + 1 /\ RankIn(S, R, x) \in Nat
    BY <1>0, <1>2 DEF rank
  <2> HIDE DEF n
  <2> QED
    BY <2>1, <2>2
<1>10. \A x \in S : RankIn(S, R, x) \in Nat /\ RankIn(S, R, x) + 1 \in 1 .. n
  BY <1>0, <1>2
<1>11. \A x, y \in S : <<x, y>> \in R => RankIn(S, R, x) < RankIn(S, R, y)
  BY <1>0, <1>3
<1> QED
  BY <1>1, <1>9, <1>10, <1>11

-----------------------------------------------------------------------------
(* Sequences put one behind the other.                                       *)

\* Putting sequences one behind the other, one at a time.
FlatUp(h, s) ==
  /\ h[1] = s[1] /\ FlattenSeq(s) = h[Len(s)]
  /\ \A i \in 1 .. Len(s) : i # 1 => h[i] = h[i - 1] \o s[i]

LEMMA FlatUnfolds ==
  ASSUME NEW R, NEW s \in Seq(Seq(R)), s # <<>>
  PROVE  \E h : FlatUp(h, s)
<1> DEFINE n == Len(s)
           m == n - 1
           S == Seq(R)
           step == [kv \in (1 .. m) \X S |-> kv[2] \o s[kv[1] + 1]]
           Fit(f) == f = [i \in 1 .. n |-> IF i = 1 THEN s[i] ELSE f[i - 1] \o s[i]]
<1>1. n \in Nat /\ DOMAIN s = 1 .. n /\ \A i \in 1 .. n : s[i] \in Seq(R)
  OBVIOUS
<1>2. \A a \in S, i \in 1 .. n : a \o s[i] \in S
  <2> HIDE DEF n
  <2> QED
    BY <1>1
<1>3. n # 0
  OBVIOUS
<1>4. m \in Nat /\ n = m + 1 /\ s[1] \in S
  <2>1. m \in Nat /\ n = m + 1 /\ 1 \in 1 .. n
    BY <1>1, <1>3
  <2> HIDE DEF n, m
  <2>2. <<>> \o s[1] \in S /\ s[1] \in Seq(R)
    BY <1>1, <1>2, <2>1
  <2>3. \A e \in Seq(R) : <<>> \o e = e
    OBVIOUS
  <2> QED
    BY <2>1, <2>2, <2>3
<1>5. step \in [(1 .. m) \X S -> S] /\ \A k \in 1 .. m, v \in S : step[<<k, v>>] = v \o s[k + 1]
  <2>1. \A k \in 1 .. m : k + 1 \in 1 .. n
    BY <1>4
  <2> HIDE DEF n, m, S
  <2>2. \A kv \in (1 .. m) \X S : kv[1] \in 1 .. m /\ kv[2] \in S
    OBVIOUS
  <2>3. \A kv \in (1 .. m) \X S : kv[2] \o s[kv[1] + 1] \in S
    BY <1>2, <2>1, <2>2
  <2> QED
    BY <2>3
<1> HIDE DEF n, m, S, step
<1>6. PICK f : Unfolds(f, m, S, s[1], step)
  BY <1>4, <1>5, Recursion
<1> DEFINE g == [i \in 1 .. n |-> f[i - 1]]
<1>7. Fit(g)
  <2> SUFFICES ASSUME NEW i \in 1 .. n PROVE g[i] = IF i = 1 THEN s[i] ELSE g[i - 1] \o s[i]
    OBVIOUS
  <2>1. CASE i = 1
    BY <1>6, <2>1 DEF Unfolds
  <2>2. CASE i # 1
    <3>1. i - 1 \in 1 .. m /\ i - 1 \in 1 .. n /\ (i - 1) + 1 = i /\ (i - 1) - 1 \in 0 .. m
      BY <1>1, <1>4, <2>2
    <3>2. f[i - 1] = step[<<i - 1, f[(i - 1) - 1]>>] /\ f[(i - 1) - 1] \in S
      BY <1>6, <3>1 DEF Unfolds
    <3>3. f[i - 1] = f[(i - 1) - 1] \o s[i]
      BY <1>5, <3>1, <3>2
    <3> QED
      BY <2>2, <3>1, <3>3
  <2> QED
    BY <2>1, <2>2
<1> DEFINE h == CHOOSE f0 : Fit(f0)
<1> HIDE DEF g
<1>8. Fit(h)
  BY <1>7
<1>9. FlattenSeq(s) = h[n]
  BY <1>3 DEF FlattenSeq, n
<1> HIDE DEF h
<1>10. h[1] = s[1] /\ \A i \in 1 .. n : i # 1 => h[i] = h[i - 1] \o s[i]
  <2>1. h = [i \in 1 .. n |-> IF i = 1 THEN s[i] ELSE h[i - 1] \o s[i]]
    BY <1>8
  <2> HIDE DEF Fit
  <2>2. 1 \in 1 .. n
    BY <1>4
  <2> QED
    BY <2>1, <2>2
<1> HIDE DEF Fit
<1>11. FlatUp(h, s)
  BY <1>9, <1>10 DEF FlatUp, n
<1> QED
  BY <1>11

LEMMA FlatIsIn ==
  ASSUME NEW R, NEW s \in Seq(Seq(R)), NEW P, P \subseteq Seq(R), <<>> \in P,
         \A a \in P, i \in DOMAIN s : a \o s[i] \in P
  PROVE  FlattenSeq(s) \in P
<1>1. CASE s = <<>>
  <2>1. FlattenSeq(s) = s
    BY <1>1 DEF FlattenSeq
  <2> QED
    BY <1>1, <2>1
<1>2. CASE s # <<>>
  <2> DEFINE n == Len(s)
             m == n - 1
  <2>1. PICK h : FlatUp(h, s)
    BY <1>2, FlatUnfolds
  <2>2. n \in Nat /\ m \in Nat /\ n = m + 1 /\ DOMAIN s = 1 .. n /\ 1 \in 1 .. n
    BY <1>2
  <2>3. h[1] = s[1] /\ FlattenSeq(s) = h[n] /\ \A i \in 1 .. n : i # 1 => h[i] = h[i - 1] \o s[i]
    BY <2>1 DEF FlatUp
  <2> HIDE DEF n, m
  <2>4. s[1] \in P
    <3>1. 1 \in DOMAIN s /\ s[1] \in Seq(R)
      BY <2>2
    <3>2. <<>> \o s[1] \in P
      BY <3>1, Zenon
    <3>3. \A e \in Seq(R) : <<>> \o e = e
      OBVIOUS
    <3> QED
      BY <3>1, <3>2, <3>3
  <2> DEFINE T == {k \in Nat : k <= m => h[k + 1] \in P}
  <2>5. 0 \in T
    <3>1. 0 + 1 = 1 /\ 0 \in Nat
      OBVIOUS
    <3>2. h[0 + 1] \in P
      BY <2>3, <2>4, <3>1, Zenon
    <3> QED
      BY <3>1, <3>2
  <2>6. ASSUME NEW k \in Nat, k \in T PROVE k + 1 \in T
    <3> SUFFICES ASSUME k + 1 <= m PROVE h[(k + 1) + 1] \in P
      OBVIOUS
    <3>1. h[k + 1] \in P
      BY <2>2, <2>6
    <3>2. (k + 1) + 1 \in 1 .. n /\ (k + 1) + 1 # 1 /\ ((k + 1) + 1) - 1 = k + 1
      BY <2>2
    <3>3. h[(k + 1) + 1] = h[k + 1] \o s[(k + 1) + 1]
      BY <2>3, <3>2
    <3> QED
      BY <2>2, <3>1, <3>2, <3>3
  <2> HIDE DEF T
  <2>7. Nat \subseteq T
    BY <2>5, <2>6, SetInduction
  <2>8. h[m + 1] \in P
    <3>1. m \in T /\ m <= m
      BY <2>2, <2>7
    <3> QED
      BY <3>1 DEF T
  <2> QED
    BY <2>2, <2>3, <2>8
<1> QED
  BY <1>1, <1>2

LEMMA FlatIsSeq ==
  ASSUME NEW R, NEW s \in Seq(Seq(R))
  PROVE  FlattenSeq(s) \in Seq(R)
<1>1. \A a \in Seq(R), i \in DOMAIN s : a \o s[i] \in Seq(R)
  OBVIOUS
<1> DEFINE P == Seq(R)
<1>2. P \subseteq Seq(R) /\ <<>> \in P
  OBVIOUS
<1>3. \A a \in P, i \in DOMAIN s : a \o s[i] \in P
  BY <1>1
<1> HIDE DEF P
<1>4. FlattenSeq(s) \in P
  BY <1>2, <1>3, FlatIsIn
<1> QED
  BY <1>4 DEF P

\* What stands in one of them stands in the whole.
LEMMA FlatHolds ==
  ASSUME NEW R, NEW s \in Seq(Seq(R)), NEW k \in DOMAIN s, NEW x, x \in ToSet(s[k])
  PROVE  x \in ToSet(FlattenSeq(s))
<1> DEFINE n == Len(s)
           Has(t) == t \in Seq(R) /\ \E j \in DOMAIN t : t[j] = x
<1>1. PICK h : FlatUp(h, s)
  BY FlatUnfolds
<1>2. n \in Nat /\ DOMAIN s = 1 .. n /\ k \in 1 .. n /\ 1 \in 1 .. n
  OBVIOUS
<1>3. h[1] = s[1] /\ FlattenSeq(s) = h[n] /\ \A i \in 1 .. n : i # 1 => h[i] = h[i - 1] \o s[i]
  BY <1>1 DEF FlatUp
<1> HIDE DEF n
<1>4. \A i \in 1 .. n : s[i] \in Seq(R)
  BY <1>2
<1> DEFINE U == {i \in Nat : i + 1 <= n => h[i + 1] \in Seq(R)}
<1>5. \A i \in 1 .. n : h[i] \in Seq(R)
  <2>1. 0 \in U
    <3>1. 0 + 1 = 1 /\ 0 \in Nat /\ s[1] \in Seq(R)
      BY <1>2, <1>4
    <3> QED
      BY <1>3, <3>1
  <2>2. ASSUME NEW i \in Nat, i \in U PROVE i + 1 \in U
    <3> SUFFICES ASSUME (i + 1) + 1 <= n PROVE h[(i + 1) + 1] \in Seq(R)
      OBVIOUS
    <3>1. (i + 1) + 1 \in 1 .. n /\ (i + 1) + 1 # 1 /\ ((i + 1) + 1) - 1 = i + 1
      BY <1>2
    <3>2. h[i + 1] \in Seq(R) /\ s[(i + 1) + 1] \in Seq(R)
      BY <1>2, <1>4, <2>2, <3>1
    <3>3. h[(i + 1) + 1] = h[i + 1] \o s[(i + 1) + 1]
      BY <1>3, <3>1
    <3> QED
      BY <3>2, <3>3
  <2> HIDE DEF U
  <2>3. Nat \subseteq U
    BY <2>1, <2>2, SetInduction
  <2> SUFFICES ASSUME NEW i \in 1 .. n PROVE h[i] \in Seq(R)
    OBVIOUS
  <2>4. i - 1 \in Nat /\ (i - 1) + 1 = i /\ i <= n
    BY <1>2
  <2> QED
    BY <2>3, <2>4 DEF U
<1>6. Has(s[k])
  BY <1>2, <1>4 DEF ToSet
<1>7. ASSUME NEW a \in Seq(R), NEW b \in Seq(R), Has(b) PROVE Has(a \o b)
  <2>1. PICK j \in DOMAIN b : b[j] = x
    BY <1>7
  <2>2. Len(a) + j \in DOMAIN (a \o b) /\ (a \o b)[Len(a) + j] = x
    BY <2>1
  <2> QED
    BY <2>2
<1>8. ASSUME NEW a \in Seq(R), NEW b \in Seq(R), Has(a) PROVE Has(a \o b)
  <2>1. PICK j \in DOMAIN a : a[j] = x
    BY <1>8
  <2>2. j \in DOMAIN (a \o b) /\ (a \o b)[j] = x
    BY <2>1
  <2> QED
    BY <2>2
<1> HIDE DEF Has
<1>9. Has(h[k])
  <2>1. CASE k = 1
    BY <1>3, <1>6, <2>1
  <2>2. CASE k # 1
    <3>1. k - 1 \in 1 .. n
      BY <1>2, <2>2
    <3>2. h[k - 1] \in Seq(R) /\ s[k] \in Seq(R) /\ h[k] = h[k - 1] \o s[k]
      BY <1>2, <1>3, <1>4, <1>5, <2>2, <3>1
    <3> QED
      BY <1>6, <1>7, <3>2
  <2> QED
    BY <2>1, <2>2
<1> DEFINE T == {i \in Nat : k + i <= n => Has(h[k + i])}
<1>10. 0 \in T
  <2>1. k + 0 = k
    BY <1>2
  <2> QED
    BY <1>9, <2>1
<1>11. ASSUME NEW i \in Nat, i \in T PROVE i + 1 \in T
  <2> SUFFICES ASSUME k + (i + 1) <= n PROVE Has(h[k + (i + 1)])
    OBVIOUS
  <2>1. k + i \in 1 .. n /\ k + (i + 1) \in 1 .. n /\ k + (i + 1) # 1 /\ (k + (i + 1)) - 1 = k + i
    BY <1>2
  <2>2. Has(h[k + i])
    BY <1>11, <2>1
  <2>3. h[k + (i + 1)] = h[k + i] \o s[k + (i + 1)]
    BY <1>3, <2>1
  <2>4. h[k + i] \in Seq(R) /\ s[k + (i + 1)] \in Seq(R)
    BY <1>4, <1>5, <2>1
  <2> QED
    BY <1>8, <2>2, <2>3, <2>4
<1> HIDE DEF T
<1>12. Nat \subseteq T
  BY <1>10, <1>11, SetInduction
<1>13. Has(h[n])
  <2>1. n - k \in Nat /\ k + (n - k) = n /\ n <= n
    BY <1>2
  <2>2. n - k \in T
    BY <1>12, <2>1
  <2> QED
    BY <2>1, <2>2 DEF T
<1> QED
  BY <1>3, <1>13 DEF Has, ToSet

\* Sums along a sequence of records.
Sums(g, s) == g = [k \in 0 .. Len(s) |-> IF k = 0 THEN 0 ELSE g[k - 1] + s[k].size]

LEMMA SumsExist ==
  ASSUME NEW s \in Seq(Record)
  PROVE  \E g : /\ g \in [0 .. Len(s) -> Nat] /\ Bytes(s) = g[Len(s)] /\ g[0] = 0
                /\ \A k \in 1 .. Len(s) : g[k] = g[k - 1] + s[k].size
<1> DEFINE n == Len(s)
           step == [kv \in (1 .. n) \X Nat |-> kv[2] + s[kv[1]].size]
<1>1. n \in Nat /\ \A k \in 1 .. n : s[k].size \in Nat
  <2>1. n \in Nat /\ \A k \in 1 .. n : s[k] \in Record
    OBVIOUS
  <2>2. \A r \in Record : r.size \in Nat
    BY DEF Record
  <2> QED
    BY <2>1, <2>2
<1>2. step \in [(1 .. n) \X Nat -> Nat] /\ \A k \in 1 .. n, v \in Nat : step[<<k, v>>] = v + s[k].size
  <2> HIDE DEF n
  <2> QED
    BY <1>1
<1> HIDE DEF step
<1>3. PICK f : Unfolds(f, n, Nat, 0, step)
  <2> HIDE DEF n
  <2> QED
    BY <1>1, <1>2, Recursion
<1>4. Sums(f, s)
  <2> SUFFICES ASSUME NEW k \in 0 .. n PROVE f[k] = IF k = 0 THEN 0 ELSE f[k - 1] + s[k].size
    BY <1>3 DEF Unfolds, Sums
  <2>1. CASE k = 0
    BY <1>3, <2>1 DEF Unfolds
  <2>2. CASE k # 0
    <3>1. k \in 1 .. n /\ k - 1 \in 0 .. n
      BY <1>1, <2>2
    <3>2. f[k] = step[<<k, f[k - 1]>>] /\ f[k - 1] \in Nat
      BY <1>3, <3>1 DEF Unfolds
    <3> HIDE DEF n
    <3> QED
      BY <1>2, <2>2, <3>1, <3>2
  <2> QED
    BY <2>1, <2>2
<1> DEFINE g == CHOOSE h : Sums(h, s)
<1>5. Sums(g, s)
  BY <1>4
<1>6. Bytes(s) = g[n]
  BY DEF Bytes, Sums
<1> HIDE DEF g
<1>7. g[0] = 0 /\ \A k \in 1 .. n : g[k] = g[k - 1] + s[k].size
  <2>1. g = [k \in 0 .. n |-> IF k = 0 THEN 0 ELSE g[k - 1] + s[k].size]
    BY <1>5 DEF Sums
  <2> HIDE DEF n
  <2>2. 0 \in 0 .. n /\ \A k \in 1 .. n : k \in 0 .. n /\ k # 0
    BY <1>1
  <2> QED
    BY <2>1, <2>2
<1>8. \A k \in 0 .. n : g[k] \in Nat
  <2> DEFINE T == {k \in Nat : k <= n => g[k] \in Nat}
  <2>1. 0 \in T
    BY <1>7
  <2>2. ASSUME NEW k \in Nat, k \in T PROVE k + 1 \in T
    <3> SUFFICES ASSUME k + 1 <= n PROVE g[k + 1] \in Nat
      OBVIOUS
    <3>1. k + 1 \in 1 .. n /\ (k + 1) - 1 = k /\ g[k] \in Nat
      BY <1>1, <2>2
    <3>2. g[k + 1] = g[k] + s[k + 1].size /\ s[k + 1].size \in Nat
      <4> HIDE DEF n
      <4> QED
        BY <1>1, <1>7, <3>1
    <3> QED
      BY <3>1, <3>2
  <2> HIDE DEF T
  <2>3. Nat \subseteq T
    BY <2>1, <2>2, SetInduction
  <2> QED
    BY <1>1, <2>3 DEF T
<1>9. g \in [0 .. n -> Nat]
  BY <1>5, <1>8 DEF Sums
<1> QED
  BY <1>6, <1>7, <1>9

LEMMA BytesAre ==
  ASSUME NEW s \in Seq(Record), NEW r \in Record
  PROVE  Bytes(s) \in Nat /\ Bytes(Append(s, r)) = Bytes(s) + r.size
<1> DEFINE n == Len(s)
           t == Append(s, r)
<1>1. n \in Nat /\ t \in Seq(Record) /\ Len(t) = n + 1 /\ t[n + 1] = r /\ \A k \in 1 .. n : t[k] = s[k]
  OBVIOUS
<1> HIDE DEF t
<1>2. PICK g : /\ g \in [0 .. n -> Nat] /\ Bytes(s) = g[n] /\ g[0] = 0
               /\ \A k \in 1 .. n : g[k] = g[k - 1] + s[k].size
  BY SumsExist
<1>3. PICK h : /\ h \in [0 .. n + 1 -> Nat] /\ Bytes(t) = h[n + 1] /\ h[0] = 0
               /\ \A k \in 1 .. n + 1 : h[k] = h[k - 1] + t[k].size
  <2>1. \E h : /\ h \in [0 .. Len(t) -> Nat] /\ Bytes(t) = h[Len(t)] /\ h[0] = 0
               /\ \A k \in 1 .. Len(t) : h[k] = h[k - 1] + t[k].size
    BY <1>1, SumsExist
  <2> QED
    BY <1>1, <2>1
<1> HIDE DEF n
<1> DEFINE T == {k \in Nat : k <= n => g[k] = h[k]}
<1>4. 0 \in T
  BY <1>2, <1>3
<1>5. ASSUME NEW k \in Nat, k \in T PROVE k + 1 \in T
  <2> SUFFICES ASSUME k + 1 <= n PROVE g[k + 1] = h[k + 1]
    OBVIOUS
  <2>1. k + 1 \in 1 .. n /\ k + 1 \in 1 .. n + 1 /\ (k + 1) - 1 = k /\ g[k] = h[k]
    BY <1>1, <1>5
  <2> QED
    BY <1>1, <1>2, <1>3, <2>1
<1> HIDE DEF T
<1>6. Nat \subseteq T
  BY <1>4, <1>5, SetInduction
<1>7. g[n] = h[n]
  BY <1>1, <1>6 DEF T
<1>8. h[n + 1] = h[n] + r.size
  <2>1. n + 1 \in 1 .. n + 1 /\ (n + 1) - 1 = n
    BY <1>1
  <2> QED
    BY <1>1, <1>3, <2>1
<1>9. g[n] \in Nat
  BY <1>1, <1>2
<1> QED
  BY <1>2, <1>3, <1>7, <1>8, <1>9 DEF t

-----------------------------------------------------------------------------
(* The stream of a run.                                                      *)

\* There is a k-th id for every k up to their number.
LEMMA IdsHaveRanks ==
  ASSUME NEW ids \in SUBSET Nat, IsFiniteSet(ids), NEW k \in 1 .. Cardinality(ids)
  PROVE  IdAt(ids, k) \in ids
<1> DEFINE R == {p \in ids \X ids : p[1] < p[2]}
<1>1. \A i, j \in ids : <<i, j>> \in R <=> i < j
  OBVIOUS
<1>2. \A i \in ids : i \in Nat
  OBVIOUS
<1> HIDE DEF R
<1>3. Linear(ids, R)
  BY <1>1, <1>2 DEF Linear
<1>4. PICK x \in ids : RankIn(ids, R, x) = k - 1
  BY <1>3, RanksAre
<1>5. Cardinality({j \in ids : j < x}) = k - 1
  <2>1. {j \in ids : j < x} = {j \in ids : <<j, x>> \in R}
    BY <1>1
  <2> QED
    BY <1>4, <2>1 DEF RankIn
<1> QED
  BY <1>5 DEF IdAt

LEMMA TaskRecordsAreSeq ==
  ASSUME NEW w \in RunWorlds
  PROVE  TaskRecords(w.outputs) \in Seq(Record)
<1> DEFINE ids == DOMAIN w.outputs
           n == Cardinality(ids)
           rows == [k \in 1 .. n |-> w.outputs[IdAt(ids, k)]]
<1>1. ids \in SUBSET Nat /\ IsFiniteSet(ids) /\ \A id \in ids : w.outputs[id] \in Seq(Record)
  BY RunAssumption
<1>2. n \in Nat
  BY <1>1, FS_CardinalityType
<1>3. \A k \in 1 .. n : IdAt(ids, k) \in ids
  BY <1>1, IdsHaveRanks
<1>4. rows \in Seq(Seq(Record))
  <2> HIDE DEF n
  <2>1. \A k \in 1 .. n : w.outputs[IdAt(ids, k)] \in Seq(Record)
    BY <1>1, <1>3
  <2> HIDE DEF ids
  <2> QED
    BY <1>2, <2>1
<1> HIDE DEF rows
<1>5. FlattenSeq(rows) \in Seq(Record)
  BY <1>4, FlatIsSeq
<1> QED
  BY <1>5 DEF TaskRecords, rows

LEMMA RecIsRecord ==
  \A from \in {"scheduler", "graph", "scan", "coverage", "vulnerability", "attention", "change", "termination"} :
    Rec(from, 1) \in Record /\ Rec(from, 1).size = 1
BY DEF Rec, Record, RecordKinds

LEMMA StreamIsSeq ==
  ASSUME NEW w \in RunWorlds, NEW rows
  PROVE  StreamOf(w, rows) \in Seq(Record)
<1> DEFINE a == <<Rec("scheduler", 1)>>
           b == TaskRecords(w.outputs)
           c == <<Rec("graph", 1), Rec("scan", 1), Rec("coverage", 1)>>
           d == IF Vulnerabilities(w) = <<>> THEN <<>> ELSE <<Rec("vulnerability", 1)>>
           e == IF "attention" \in rows THEN <<Rec("attention", 1)>> ELSE <<>>
           f == IF "changes" \in rows THEN <<Rec("change", 1)>> ELSE <<>>
<1>1. a \in Seq(Record) /\ c \in Seq(Record)
  BY RecIsRecord
<1>2. b \in Seq(Record)
  BY TaskRecordsAreSeq
<1>3. d \in Seq(Record)
  <2>1. <<Rec("vulnerability", 1)>> \in Seq(Record)
    BY RecIsRecord
  <2> QED
    BY <2>1
<1>4. e \in Seq(Record) /\ f \in Seq(Record)
  <2>1. <<Rec("attention", 1)>> \in Seq(Record) /\ <<Rec("change", 1)>> \in Seq(Record)
    BY RecIsRecord
  <2> QED
    BY <2>1
<1>5. StreamOf(w, rows) = a \o b \o c \o d \o e \o f
  BY DEF StreamOf
<1> HIDE DEF a, b, c, d, e, f
<1> QED
  BY <1>1, <1>2, <1>3, <1>4, <1>5

LEMMA NoBytes == Bytes(<<>>) = 0
<1>1. <<>> \in Seq(Record) /\ Len(<<>>) = 0
  OBVIOUS
<1>2. PICK g : /\ g \in [0 .. Len(<<>>) -> Nat] /\ Bytes(<<>>) = g[Len(<<>>)] /\ g[0] = 0
               /\ \A k \in 1 .. Len(<<>>) : g[k] = g[k - 1] + (<<>>)[k].size
  BY <1>1, SumsExist
<1> QED
  BY <1>1, <1>2

\* The first records of a stream, and one more.
LEMMA PrefixGrows ==
  ASSUME NEW s \in Seq(Record)
  PROVE  /\ SubSeq(s, 1, 0) = <<>>
         /\ SubSeq(s, 1, Len(s)) = s
         /\ \A n \in 0 .. Len(s) : SubSeq(s, 1, n) \in Seq(Record) /\ Len(SubSeq(s, 1, n)) = n
         /\ \A n \in Nat : n < Len(s) => /\ s[n + 1] \in Record
                                         /\ SubSeq(s, 1, n + 1) = Append(SubSeq(s, 1, n), s[n + 1])
<1>1. SubSeq(s, 1, 0) = <<>>
  OBVIOUS
<1>2. SubSeq(s, 1, Len(s)) = s
  OBVIOUS
<1>3. \A n \in 0 .. Len(s) : SubSeq(s, 1, n) \in Seq(Record) /\ Len(SubSeq(s, 1, n)) = n
  OBVIOUS
<1>4. ASSUME NEW n \in Nat, n < Len(s) PROVE s[n + 1] \in Record
  BY <1>4
<1>5. ASSUME NEW n \in Nat, n < Len(s) PROVE SubSeq(s, 1, n + 1) = Append(SubSeq(s, 1, n), s[n + 1])
  BY <1>5
<1> QED
  BY <1>1, <1>2, <1>3, <1>4, <1>5

-----------------------------------------------------------------------------
(* What a run leaves behind.                                                 *)

\* The kinds of rows that are in the project when a stage begins.
Early == {"prepare", "scan", "import", "intelligence", "changes", "attention", "posture"}
Late == {"write", "finish", "checkpoint"}
RowsBefore(stage) ==
  IF stage \in Late THEN {"scan", "intelligence", "attention", "posture"}
  ELSE IF stage = "posture" THEN {"scan", "intelligence", "attention"}
  ELSE IF stage \in {"changes", "attention"} THEN {"scan", "intelligence"}
  ELSE IF stage = "intelligence" THEN {"scan"} ELSE {}

\* A stream that was cut: its first records, and the mark if it had room.
CutOff(out, stream) ==
  \E n \in 0 .. (Len(stream) - 1) : out \in {SubSeq(stream, 1, n), Append(SubSeq(stream, 1, n), Mark)}

StageInv ==
  /\ rworld \in RunWorlds /\ rstage \in Early \cup Late
  /\ rdb \subseteq {"scan", "intelligence", "changes", "attention", "posture"}
  /\ rend \in {"no", "done", "refused", "failed", "killed"} /\ rcut \in BOOLEAN
  /\ rworld.db => RowsBefore(rstage) \subseteq rdb
  /\ rsaved \/ rend = "done" => rstage = "checkpoint"
StreamInv ==
  /\ rout \in Seq(Record) /\ Bytes(rout) <= rworld.budget
  /\ rstage \in Early => rout = <<>>
  /\ rstage \in Early \cup {"write"} => ~rcut
  /\ ~rcut => Len(rout) <= Len(Stream) /\ rout = SubSeq(Stream, 1, Len(rout))
  /\ rcut => rterm # "completed" /\ CutOff(rout, Stream)
FileInv ==
  /\ rstage = "finish" => rcut \/ rout = Stream
  /\ rstage = "checkpoint" => /\ rworld.output = "none" \/ rcut \/ rout = Stream
                              /\ rworld.output = "file" => rfile = rout
  /\ rfile = OldFile \/ (rstage = "checkpoint" /\ rfile = rout /\ rworld.output = "file")
RunInv == StageInv /\ StreamInv /\ FileInv

LEMMA RunInvHolds == RunInit => RunInv
<1> SUFFICES ASSUME RunInit PROVE RunInv
  OBVIOUS
<1>1. StageInv
  BY DEF RunInit, StageInv, Early, Late, RowsBefore
<1>2. Stream \in Seq(Record) /\ rworld.budget \in Nat
  BY StreamIsSeq, RunAssumption DEF RunInit, Stream
<1>3. SubSeq(Stream, 1, 0) = <<>> /\ Len(<<>>) = 0 /\ Len(Stream) \in Nat /\ <<>> \in Seq(Record)
  BY <1>2, PrefixGrows
<1>4. StreamInv
  <2> HIDE DEF Stream
  <2> QED
    BY <1>2, <1>3, NoBytes DEF RunInit, StreamInv, Early
<1>5. FileInv
  BY DEF RunInit, FileInv
<1> QED
  BY <1>1, <1>4, <1>5 DEF RunInv

LEMMA StageInvKept == RunInv /\ [RunNext]_runvars => StageInv'
<1> SUFFICES ASSUME RunInv, [RunNext]_runvars PROVE StageInv'
  OBVIOUS
<1> USE DEF RunInv, StageInv, Early, Late, RowsBefore
<1>1. ASSUME Prepare PROVE StageInv'
  BY <1>1 DEF Prepare, AtStage
<1>2. ASSUME RunScheduler PROVE StageInv'
  BY <1>2 DEF RunScheduler, AtStage, AfterImport
<1>3. ASSUME ImportScan PROVE StageInv'
  BY <1>3 DEF ImportScan, Commits, AtStage
<1>4. ASSUME ImportIntelligence PROVE StageInv'
  BY <1>4 DEF ImportIntelligence, Commits, AtStage
<1>5. ASSUME RecordChanges PROVE StageInv'
  BY <1>5 DEF RecordChanges, Commits, AtStage
<1>6. ASSUME RecordAttention PROVE StageInv'
  BY <1>6 DEF RecordAttention, Commits, AtStage
<1>7. ASSUME StorePosture PROVE StageInv'
  BY <1>7 DEF StorePosture, Commits, AtStage, AfterImport
<1>8. ASSUME WriteRecord PROVE StageInv'
  BY <1>8 DEF WriteRecord, AtStage
<1>9. ASSUME StreamEnds PROVE StageInv'
  BY <1>9 DEF StreamEnds, AtStage
<1>10. ASSUME FinishOutput PROVE StageInv'
  BY <1>10 DEF FinishOutput, AtStage
<1>11. ASSUME SaveCheckpoint PROVE StageInv'
  BY <1>11 DEF SaveCheckpoint, AtStage
<1>12. ASSUME StageFails PROVE StageInv'
  BY <1>12 DEF StageFails
<1>13. CASE UNCHANGED runvars
  BY <1>13 DEF runvars
<1> QED
  BY <1>1, <1>2, <1>3, <1>4, <1>5, <1>6, <1>7, <1>8, <1>9, <1>10, <1>11, <1>12, <1>13 DEF RunNext, RunStages

\* The steps before the stream, which may change what it will hold.
EarlyStep == /\ rstage \in Early /\ rend = "no" /\ rworld' = rworld /\ rout' = rout /\ rcut' = rcut
             /\ rfile' = rfile /\ rstage' \in Early \cup {"write", "checkpoint"}
             /\ rstage' = "checkpoint" => rworld.output = "none"

LEMMA EarlySteps ==
  ASSUME RunInv,
         Prepare \/ RunScheduler \/ ImportScan \/ ImportIntelligence \/ RecordChanges \/ RecordAttention \/ StorePosture
  PROVE  EarlyStep
<1> USE DEF EarlyStep, Early, AtStage
<1>1. CASE Prepare
  BY <1>1 DEF Prepare
<1>2. CASE RunScheduler
  BY <1>2 DEF RunScheduler, AfterImport
<1>3. CASE ImportScan
  BY <1>3 DEF ImportScan, Commits
<1>4. CASE ImportIntelligence
  BY <1>4 DEF ImportIntelligence, Commits
<1>5. CASE RecordChanges
  BY <1>5 DEF RecordChanges, Commits
<1>6. CASE RecordAttention
  BY <1>6 DEF RecordAttention, Commits
<1>7. CASE StorePosture
  BY <1>7 DEF StorePosture, Commits, AfterImport
<1> QED
  BY <1>1, <1>2, <1>3, <1>4, <1>5, <1>6, <1>7

LEMMA EarlyKeeps ==
  ASSUME RunInv, EarlyStep
  PROVE  StreamInv' /\ FileInv'
<1>1. Stream' \in Seq(Record)
  BY StreamIsSeq DEF EarlyStep, RunInv, StageInv, Stream
<1>2. SubSeq(Stream', 1, 0) = <<>> /\ Len(<<>>) = 0 /\ Len(Stream') \in Nat /\ <<>> \in Seq(Record)
  BY <1>1, PrefixGrows
<1>3. rout' = <<>> /\ ~rcut'
  BY DEF EarlyStep, RunInv, StreamInv
<1>4. Bytes(rout)' <= rworld'.budget
  BY DEF EarlyStep, RunInv, StreamInv
<1>5. StreamInv'
  BY <1>1, <1>2, <1>3, <1>4 DEF StreamInv
<1>6. rfile' = OldFile
  BY DEF EarlyStep, RunInv, FileInv, Early
<1>7. FileInv'
  BY <1>6 DEF FileInv, EarlyStep, Early, OldFile
<1> QED
  BY <1>5, <1>7

LEMMA WriteKeeps ==
  ASSUME RunInv, WriteRecord
  PROVE  StreamInv' /\ FileInv'
<1> DEFINE record == Stream[Len(rout) + 1]
           n == Len(rout)
<1>1. Stream' = Stream /\ rworld' = rworld
  BY DEF WriteRecord, Stream
<1>2. Stream \in Seq(Record) /\ rworld.budget \in Nat
  BY StreamIsSeq, RunAssumption DEF RunInv, StageInv, Stream
<1> HIDE DEF Stream
<1>3. /\ rout \in Seq(Record) /\ Bytes(rout) <= rworld.budget /\ ~rcut /\ rstage = "write"
      /\ rout = SubSeq(Stream, 1, n) /\ n < Len(Stream) /\ n \in Nat /\ rfile = OldFile
  BY DEF RunInv, StreamInv, FileInv, WriteRecord, AtStage
<1>4. record \in Record /\ SubSeq(Stream, 1, n + 1) = Append(SubSeq(Stream, 1, n), record)
  BY <1>2, <1>3, PrefixGrows
<1>5. Mark \in Record
  BY RecIsRecord DEF Mark
<1>6. /\ Bytes(rout) \in Nat /\ Bytes(Append(rout, record)) = Bytes(rout) + record.size
      /\ Bytes(Append(rout, Mark)) = Bytes(rout) + Mark.size
  BY <1>3, <1>4, <1>5, BytesAre
<1>7. FileInv'
  BY <1>3 DEF FileInv, WriteRecord, OldFile
<1>8. CASE Bytes(rout) + record.size <= rworld.budget
  <2>1. rout' = Append(rout, record) /\ rcut' = rcut /\ rstage' = rstage
    BY <1>8 DEF WriteRecord
  <2>2. rout' \in Seq(Record) /\ Len(rout') = n + 1
    BY <1>3, <1>4, <2>1
  <2>3. Bytes(rout') <= rworld'.budget
    BY <1>1, <1>6, <1>8, <2>1
  <2>4. rout' = SubSeq(Stream, 1, n + 1)
    BY <1>3, <1>4, <2>1
  <2>5. n + 1 <= Len(Stream)
    BY <1>2, <1>3
  <2> HIDE DEF n
  <2> QED
    BY <1>1, <1>3, <1>7, <2>1, <2>2, <2>3, <2>4, <2>5 DEF StreamInv, Early
<1>9. CASE ~(Bytes(rout) + record.size <= rworld.budget)
  <2>1. /\ rout' = (IF Bytes(rout) + Mark.size <= rworld.budget THEN Append(rout, Mark) ELSE rout)
        /\ rcut' = TRUE /\ rstage' = "finish"
        /\ rterm' = IF rterm = "completed" THEN "output_budget" ELSE rterm
    BY <1>9 DEF WriteRecord
  <2>2. rout' \in Seq(Record)
    BY <1>3, <1>5, <2>1
  <2>3. Bytes(rout') <= rworld'.budget
    BY <1>1, <1>3, <1>6, <2>1
  <2>4. n \in 0 .. (Len(Stream) - 1)
    BY <1>2, <1>3
  <2>5. rout' \in {SubSeq(Stream, 1, n), Append(SubSeq(Stream, 1, n), Mark)}
    BY <1>3, <2>1
  <2> HIDE DEF n
  <2>6. CutOff(rout', Stream)
    BY <2>4, <2>5 DEF CutOff
  <2>7. rterm' # "completed"
    BY <2>1
  <2>8. StreamInv'
    BY <1>1, <2>1, <2>2, <2>3, <2>6, <2>7 DEF StreamInv, Early
  <2> QED
    BY <1>7, <2>8
<1> QED
  BY <1>8, <1>9

\* What comes after the stream leaves it as it is.
LEMMA LaterKeeps ==
  ASSUME RunInv, StreamEnds \/ FinishOutput \/ SaveCheckpoint \/ StageFails \/ UNCHANGED runvars
  PROVE  StreamInv' /\ FileInv'
<1>1. rworld' = rworld /\ rdb' = rdb /\ rout' = rout /\ rcut' = rcut /\ rterm' = rterm
  BY DEF StreamEnds, FinishOutput, SaveCheckpoint, StageFails, runvars
<1>2. Stream' = Stream
  BY <1>1 DEF Stream
<1>3. Stream \in Seq(Record)
  BY StreamIsSeq DEF RunInv, StageInv, Stream
<1> HIDE DEF Stream
<1>4. Bytes(rout)' = Bytes(rout)
  BY <1>1
<1>5. rstage' = rstage \/ (rstage = "write" /\ rstage' = "finish") \/ (rstage = "finish" /\ rstage' = "checkpoint")
  BY DEF StreamEnds, FinishOutput, SaveCheckpoint, StageFails, runvars, AtStage
<1>6. StreamInv'
  <2> HIDE DEF Bytes
  <2> QED
    BY <1>1, <1>2, <1>4, <1>5 DEF RunInv, StreamInv, Early
<1>7. CASE StreamEnds
  <2>1. rstage = "write" /\ rstage' = "finish" /\ rfile' = rfile /\ Len(rout) = Len(Stream)
    BY <1>7 DEF StreamEnds, AtStage
  <2>2. ~rcut /\ rout = SubSeq(Stream, 1, Len(rout)) /\ rfile = OldFile
    BY <2>1 DEF RunInv, StreamInv, FileInv
  <2>3. rout = Stream
    BY <1>3, <2>1, <2>2, PrefixGrows
  <2> QED
    BY <1>1, <1>2, <1>6, <2>1, <2>2, <2>3 DEF FileInv
<1>8. CASE FinishOutput
  BY <1>1, <1>2, <1>6, <1>8 DEF FinishOutput, AtStage, RunInv, FileInv
<1>9. CASE SaveCheckpoint \/ StageFails \/ UNCHANGED runvars
  <2>1. rstage' = rstage /\ rfile' = rfile
    BY <1>9 DEF SaveCheckpoint, StageFails, runvars
  <2> QED
    BY <1>1, <1>2, <1>6, <2>1 DEF RunInv, FileInv
<1> QED
  BY <1>7, <1>8, <1>9

LEMMA RunInvKept == RunInv /\ [RunNext]_runvars => RunInv'
<1> SUFFICES ASSUME RunInv, [RunNext]_runvars PROVE RunInv'
  OBVIOUS
<1>1. StageInv'
  BY StageInvKept
<1>2. StreamInv' /\ FileInv'
  <2>1. \/ Prepare \/ RunScheduler \/ ImportScan \/ ImportIntelligence \/ RecordChanges \/ RecordAttention \/ StorePosture
        \/ WriteRecord \/ StreamEnds \/ FinishOutput \/ SaveCheckpoint \/ StageFails \/ UNCHANGED runvars
    BY DEF RunNext, RunStages
  <2> QED
    BY <2>1, EarlySteps, EarlyKeeps, WriteKeeps, LaterKeeps
<1> QED
  BY <1>1, <1>2 DEF RunInv

\* The checkpoint is the last thing a run leaves: the project and the file are
\* in place before it. A run that reports completion has written its whole
\* stream, within the budget, and a file is the old one, the whole stream, or
\* the beginning of it under a termination that says so (execute_impl).
THEOREM RunIsSafe == RunSpec => [](RunTypeOK /\ CheckpointLast /\ WholeOrMarked)
<1>1. RunInv => RunTypeOK /\ CheckpointLast /\ WholeOrMarked
  <2> SUFFICES ASSUME RunInv PROVE RunTypeOK /\ CheckpointLast /\ WholeOrMarked
    OBVIOUS
  <2> HIDE DEF Stream, Bytes
  <2>1. RunTypeOK
    BY DEF RunInv, StageInv, StreamInv, RunTypeOK
  <2>2. CheckpointLast
    BY DEF RunInv, StageInv, FileInv, CheckpointLast, RowsBefore, Late
  <2>3. (rend = "done" /\ rterm = "completed" /\ rworld.output # "none") => rout = Stream
    BY DEF RunInv, StageInv, StreamInv, FileInv
  <2>4. rfile # OldFile =>
          \/ rfile = Stream
          \/ rcut /\ rterm # "completed" /\ CutOff(rfile, Stream)
    BY DEF RunInv, StreamInv, FileInv
  <2>5. WholeOrMarked
    BY <2>3, <2>4 DEF WholeOrMarked, CutOff
  <2> QED
    BY <2>1, <2>2, <2>5
<1> QED
  BY <1>1, RunInvHolds, RunInvKept, PTL DEF RunSpec

-----------------------------------------------------------------------------
(* The order of versions.                                                    *)

\* The first place where two versions are told apart, and what it decides.
Place == Nat \ {0}
SameAt(a, b, k) == PartAt(a, k) = PartAt(b, k)
FirstAt(a, b, k) == k \in Place /\ ~SameAt(a, b, k) /\ \A j \in 1 .. (k - 1) : SameAt(a, b, j)
Verdict(a, b, k) ==
  IF k > Len(a) \/ k > Len(b) \/ a[k][1] # b[k][1] THEN "unknown"
  ELSE IF a[k][2] < b[k][2] THEN "less" ELSE "greater"

LEMMA PartsAre ==
  /\ \A x \in VersionPart : x[2] \in Nat
  /\ \A x, y \in VersionPart : x[1] = y[1] /\ x[2] = y[2] => x = y
  /\ ZeroPart \in VersionPart /\ ZeroPart[2] = 0
BY DEF VersionPart, ZeroPart

LEMMA PartsOf ==
  ASSUME NEW a \in Seq(VersionPart)
  PROVE  /\ \A k \in Place : k <= Len(a) => PartAt(a, k) = a[k] /\ a[k] \in VersionPart
         /\ \A k \in Place : k > Len(a) => PartAt(a, k) = <<"n", 0>>
<1>1. Len(a) \in Nat /\ \A k \in 1 .. Len(a) : a[k] \in VersionPart
  OBVIOUS
<1> HIDE DEF VersionPart
<1>2. \A k \in Place : k <= Len(a) => k \in 1 .. Len(a)
  BY <1>1 DEF Place
<1>3. \A k \in Place : k > Len(a) => ~(k <= Len(a))
  BY <1>1 DEF Place
<1> QED
  BY <1>1, <1>2, <1>3 DEF PartAt, ZeroPart

LEMMA DiffersWhere ==
  ASSUME NEW a \in Seq(VersionPart), NEW b \in Seq(VersionPart)
  PROVE  Differs(a, b) = {k \in Place : ~SameAt(a, b, k)}
<1> DEFINE w == Max({Len(a), Len(b)})
<1>1. Len(a) \in Nat /\ Len(b) \in Nat
  OBVIOUS
<1>2. w \in Nat /\ Len(a) <= w /\ Len(b) <= w
  <2>1. w \in {Len(a), Len(b)} /\ \A x \in {Len(a), Len(b)} : w >= x
    BY <1>1 DEF Max
  <2> HIDE DEF w
  <2> QED
    BY <1>1, <2>1
<1> HIDE DEF w
<1>3. \A k \in Place : k \notin 1 .. w => SameAt(a, b, k)
  <2> SUFFICES ASSUME NEW k \in Place, k \notin 1 .. w PROVE SameAt(a, b, k)
    OBVIOUS
  <2>1. k > Len(a) /\ k > Len(b)
    BY <1>1, <1>2 DEF Place
  <2> QED
    BY <2>1, PartsOf DEF SameAt
<1>4. Differs(a, b) = {k \in 1 .. w : ~SameAt(a, b, k)}
  BY DEF Differs, SameAt, w
<1>5. \A k \in 1 .. w : k \in Place
  BY <1>2 DEF Place
<1> QED
  BY <1>3, <1>4, <1>5

LEMMA ComparedAlike ==
  ASSUME NEW a \in Seq(VersionPart), NEW b \in Seq(VersionPart), \A k \in Place : SameAt(a, b, k)
  PROVE  CompareVersions(a, b) = "equal"
<1>1. Differs(a, b) = {}
  BY DiffersWhere
<1> QED
  BY <1>1 DEF CompareVersions

LEMMA ComparedFirst ==
  ASSUME NEW a \in Seq(VersionPart), NEW b \in Seq(VersionPart), NEW k, FirstAt(a, b, k)
  PROVE  CompareVersions(a, b) = Verdict(a, b, k)
<1> DEFINE D == Differs(a, b)
           m == Min(D)
<1>1. D = {j \in Place : ~SameAt(a, b, j)}
  BY DiffersWhere
<1>2. k \in D /\ k \in Place /\ \A j \in D : j \in Place /\ k <= j
  <2>1. \A j \in D : ~(j \in 1 .. (k - 1)) /\ j \in Place
    BY <1>1 DEF FirstAt
  <2>2. k \in D /\ k \in Place
    BY <1>1 DEF FirstAt
  <2> HIDE DEF D
  <2> QED
    BY <2>1, <2>2 DEF Place
<1> HIDE DEF D
<1>3. m = k
  <2>1. m \in D /\ \A x \in D : m <= x
    BY <1>2 DEF Min
  <2> HIDE DEF m
  <2> QED
    BY <1>2, <2>1 DEF Place
<1>4. D # {}
  BY <1>2
<1> QED
  BY <1>3, <1>4 DEF CompareVersions, Verdict, D

LEMMA AlikeOrNot ==
  ASSUME NEW a \in Seq(VersionPart), NEW b \in Seq(VersionPart)
  PROVE  (\A k \in Place : SameAt(a, b, k)) \/ \E k : FirstAt(a, b, k)
<1> DEFINE D == {k \in Place : ~SameAt(a, b, k)}
<1> SUFFICES ASSUME D # {} PROVE \E k : FirstAt(a, b, k)
  OBVIOUS
<1>1. D \subseteq Nat
  BY DEF Place
<1>2. PICK k \in D : \A j \in D : k <= j
  <2> HIDE DEF D
  <2> QED
    BY <1>1, Smallest
<1>3. k \in Nat /\ k # 0
  BY DEF Place
<1>4. \A j \in 1 .. (k - 1) : j \in Place /\ j \notin D
  <2> HIDE DEF D
  <2>1. \A j \in 1 .. (k - 1) : j \in Place /\ ~(k <= j)
    BY <1>3 DEF Place
  <2> QED
    BY <1>2, <2>1
<1>5. FirstAt(a, b, k)
  BY <1>4 DEF FirstAt
<1> QED
  BY <1>5

\* What comparing tells of the two versions.
LEMMA NotAfterMeans ==
  ASSUME NEW a \in Seq(VersionPart), NEW b \in Seq(VersionPart), NotAfter(a, b)
  PROVE  \/ \A k \in Place : SameAt(a, b, k)
         \/ \E k : /\ FirstAt(a, b, k) /\ k <= Len(a) /\ k <= Len(b)
                   /\ a[k][1] = b[k][1] /\ a[k][2] < b[k][2]
<1>1. ASSUME NEW k, FirstAt(a, b, k) PROVE k <= Len(a) /\ k <= Len(b) /\ a[k][1] = b[k][1] /\ a[k][2] < b[k][2]
  <2>1. Verdict(a, b, k) \in {"less", "equal"}
    BY <1>1, ComparedFirst DEF NotAfter
  <2>2. ~(k > Len(a)) /\ ~(k > Len(b)) /\ a[k][1] = b[k][1] /\ a[k][2] < b[k][2]
    BY <2>1 DEF Verdict
  <2>3. k \in Nat /\ Len(a) \in Nat /\ Len(b) \in Nat
    BY <1>1 DEF FirstAt, Place
  <2> QED
    BY <2>2, <2>3
<1> QED
  BY <1>1, AlikeOrNot

\* The same of the parts at each place.
LEMMA StrictlyBefore ==
  ASSUME NEW a \in Seq(VersionPart), NEW b \in Seq(VersionPart), NotAfter(a, b)
  PROVE  \/ \A i \in Place : PartAt(a, i) = PartAt(b, i)
         \/ \E i \in Place :
              /\ PartAt(a, i) # PartAt(b, i) /\ \A j \in Place : j < i => PartAt(a, j) = PartAt(b, j)
              /\ PartAt(a, i)[1] = PartAt(b, i)[1] /\ PartAt(a, i)[2] < PartAt(b, i)[2]
              /\ PartAt(a, i)[2] \in Nat /\ PartAt(b, i)[2] \in Nat
<1>1. ASSUME NEW k, FirstAt(a, b, k), k <= Len(a), k <= Len(b), a[k][1] = b[k][1], a[k][2] < b[k][2]
      PROVE  /\ k \in Place /\ PartAt(a, k) # PartAt(b, k) /\ \A j \in Place : j < k => PartAt(a, j) = PartAt(b, j)
             /\ PartAt(a, k)[1] = PartAt(b, k)[1] /\ PartAt(a, k)[2] < PartAt(b, k)[2]
             /\ PartAt(a, k)[2] \in Nat /\ PartAt(b, k)[2] \in Nat
  <2>1. k \in Place /\ PartAt(a, k) # PartAt(b, k)
    BY <1>1 DEF FirstAt, SameAt
  <2>2. PartAt(a, k) = a[k] /\ PartAt(b, k) = b[k] /\ a[k] \in VersionPart /\ b[k] \in VersionPart
    BY <1>1, <2>1, PartsOf
  <2>3. \A j \in Place : j < k => PartAt(a, j) = PartAt(b, j)
    <3>1. \A j \in Place : j < k => j \in 1 .. (k - 1)
      BY <2>1 DEF Place
    <3> QED
      BY <1>1, <3>1 DEF FirstAt, SameAt
  <2>4. a[k][2] \in Nat /\ b[k][2] \in Nat
    BY <2>2, PartsAre
  <2> QED
    BY <1>1, <2>1, <2>2, <2>3, <2>4
<1>2. CASE \A i \in Place : SameAt(a, b, i)
  BY <1>2 DEF SameAt
<1> QED
  BY <1>1, <1>2, NotAfterMeans

LEMMA GreaterMeans ==
  ASSUME NEW a \in Seq(VersionPart), NEW c \in Seq(VersionPart), CompareVersions(a, c) = "greater"
  PROVE  \E k : /\ FirstAt(a, c, k) /\ k <= Len(a) /\ k <= Len(c)
                /\ a[k][1] = c[k][1] /\ a[k][2] > c[k][2]
<1>1. PICK k : FirstAt(a, c, k)
  BY AlikeOrNot, ComparedAlike
<1>2. Verdict(a, c, k) = "greater"
  BY <1>1, ComparedFirst
<1>3. k \in Place /\ k \in Nat /\ Len(a) \in Nat /\ Len(c) \in Nat
  BY <1>1 DEF FirstAt, Place
<1>4. k <= Len(a) /\ k <= Len(c) /\ a[k][1] = c[k][1] /\ ~(a[k][2] < c[k][2])
  BY <1>2, <1>3 DEF Verdict
<1>5. PartAt(a, k) = a[k] /\ PartAt(c, k) = c[k] /\ a[k] \in VersionPart /\ c[k] \in VersionPart
  BY <1>3, <1>4, PartsOf
<1>6. a[k] # c[k]
  BY <1>1, <1>5 DEF FirstAt, SameAt
<1>7. a[k][2] # c[k][2] /\ a[k][2] \in Nat /\ c[k][2] \in Nat
  BY <1>4, <1>5, <1>6, PartsAre
<1> QED
  BY <1>1, <1>4, <1>7

\* Turned round, the answer is turned round.
LEMMA ComparedBothWays ==
  ASSUME NEW a \in Seq(VersionPart), NEW b \in Seq(VersionPart)
  PROVE  CompareVersions(a, b) = Opposite(CompareVersions(b, a))
<1>1. CASE \A k \in Place : SameAt(a, b, k)
  <2>1. \A k \in Place : SameAt(b, a, k)
    BY <1>1 DEF SameAt
  <2>2. CompareVersions(a, b) = "equal" /\ CompareVersions(b, a) = "equal"
    BY <1>1, <2>1, ComparedAlike
  <2> QED
    BY <2>2 DEF Opposite
<1>2. ASSUME NEW k, FirstAt(a, b, k) PROVE CompareVersions(a, b) = Opposite(CompareVersions(b, a))
  <2>1. FirstAt(b, a, k)
    BY <1>2 DEF FirstAt, SameAt
  <2>2. CompareVersions(a, b) = Verdict(a, b, k) /\ CompareVersions(b, a) = Verdict(b, a, k)
    BY <1>2, <2>1, ComparedFirst
  <2>3. k \in Place /\ k \in Nat /\ Len(a) \in Nat /\ Len(b) \in Nat
    BY <1>2 DEF FirstAt, Place
  <2>4. CASE k > Len(a) \/ k > Len(b) \/ a[k][1] # b[k][1]
    <3>1. Verdict(a, b, k) = "unknown" /\ Verdict(b, a, k) = "unknown"
      BY <2>4 DEF Verdict
    <3> QED
      BY <2>2, <3>1 DEF Opposite
  <2>5. CASE ~(k > Len(a) \/ k > Len(b) \/ a[k][1] # b[k][1])
    <3>1. PartAt(a, k) = a[k] /\ PartAt(b, k) = b[k] /\ a[k] \in VersionPart /\ b[k] \in VersionPart
      BY <2>3, <2>5, PartsOf
    <3>2. a[k] # b[k]
      BY <1>2, <3>1 DEF FirstAt, SameAt
    <3>3. a[k][2] # b[k][2] /\ a[k][2] \in Nat /\ b[k][2] \in Nat
      BY <2>5, <3>1, <3>2, PartsAre
    <3>4. CASE a[k][2] < b[k][2]
      <4>1. Verdict(a, b, k) = "less" /\ ~(b[k][2] < a[k][2])
        BY <2>5, <3>3, <3>4 DEF Verdict
      <4>2. Verdict(b, a, k) = "greater"
        BY <2>5, <4>1 DEF Verdict
      <4> QED
        BY <2>2, <4>1, <4>2 DEF Opposite
    <3>5. CASE b[k][2] < a[k][2]
      <4>1. Verdict(b, a, k) = "less" /\ ~(a[k][2] < b[k][2])
        BY <2>5, <3>3, <3>5 DEF Verdict
      <4>2. Verdict(a, b, k) = "greater"
        BY <2>5, <4>1 DEF Verdict
      <4> QED
        BY <2>2, <4>1, <4>2 DEF Opposite
    <3> QED
      BY <3>3, <3>4, <3>5
  <2> QED
    BY <2>4, <2>5
<1> QED
  BY <1>1, <1>2, AlikeOrNot

\* No chain of known answers leads to the opposite one.
LEMMA ComparedInChains ==
  ASSUME NEW a \in Seq(VersionPart), NEW b \in Seq(VersionPart), NEW c \in Seq(VersionPart),
         NotAfter(a, b), NotAfter(b, c)
  PROVE  CompareVersions(a, c) # "greater"
<1> SUFFICES ASSUME CompareVersions(a, c) = "greater" PROVE FALSE
  OBVIOUS
<1> DEFINE A(k) == PartAt(a, k)
           B(k) == PartAt(b, k)
           C(k) == PartAt(c, k)
<1>1. PICK k : FirstAt(a, c, k) /\ k <= Len(a) /\ k <= Len(c) /\ a[k][1] = c[k][1] /\ a[k][2] > c[k][2]
  BY GreaterMeans
<1>2. k \in Place /\ k \in Nat /\ A(k) = a[k] /\ C(k) = c[k] /\ a[k] \in VersionPart /\ c[k] \in VersionPart
  BY <1>1, PartsOf DEF FirstAt, Place
<1>3. A(k) # C(k) /\ \A j \in Place : j < k => A(j) = C(j)
  BY <1>1, <1>2 DEF FirstAt, SameAt, Place
<1>4. A(k)[1] = C(k)[1] /\ A(k)[2] > C(k)[2] /\ A(k)[2] \in Nat /\ C(k)[2] \in Nat
  BY <1>1, <1>2, PartsAre
<1>5. \/ \A i \in Place : A(i) = B(i)
      \/ \E i \in Place : /\ A(i) # B(i) /\ \A j \in Place : j < i => A(j) = B(j)
                          /\ A(i)[1] = B(i)[1] /\ A(i)[2] < B(i)[2] /\ A(i)[2] \in Nat /\ B(i)[2] \in Nat
  BY StrictlyBefore
<1>6. \/ \A i \in Place : B(i) = C(i)
      \/ \E i \in Place : /\ B(i) # C(i) /\ \A j \in Place : j < i => B(j) = C(j)
                          /\ B(i)[1] = C(i)[1] /\ B(i)[2] < C(i)[2] /\ B(i)[2] \in Nat /\ C(i)[2] \in Nat
  BY StrictlyBefore
<1> HIDE DEF A, B, C
<1>7. CASE \A i \in Place : A(i) = B(i)
  <2>1. CASE \A i \in Place : B(i) = C(i)
    BY <1>2, <1>3, <1>7, <2>1
  <2>2. ASSUME NEW i \in Place, B(i) # C(i), \A j \in Place : j < i => B(j) = C(j),
               B(i)[2] < C(i)[2], B(i)[2] \in Nat, C(i)[2] \in Nat
        PROVE  FALSE
    <3>1. i = k
      <4>1. ~(i < k)
        BY <1>3, <1>7, <2>2
      <4>2. ~(k < i)
        BY <1>2, <1>3, <1>7, <2>2
      <4> QED
        BY <1>2, <4>1, <4>2 DEF Place
    <3>2. A(k)[2] < C(k)[2]
      BY <1>2, <1>7, <2>2, <3>1
    <3> QED
      BY <1>4, <3>2
  <2> QED
    BY <1>6, <2>1, <2>2
<1>8. ASSUME NEW i \in Place, A(i) # B(i), \A j \in Place : j < i => A(j) = B(j),
             A(i)[2] < B(i)[2], A(i)[2] \in Nat, B(i)[2] \in Nat
      PROVE  FALSE
  <2>0. i \in Nat
    BY DEF Place
  <2>1. CASE \A j \in Place : B(j) = C(j)
    <3>1. i = k
      <4>1. ~(i < k)
        BY <1>3, <1>8, <2>1
      <4>2. ~(k < i)
        BY <1>2, <1>3, <1>8, <2>1
      <4> QED
        BY <1>2, <2>0, <4>1, <4>2
    <3>2. A(k)[2] < C(k)[2]
      BY <1>8, <2>1, <3>1
    <3> QED
      BY <1>4, <3>2
  <2>2. ASSUME NEW m \in Place, B(m) # C(m), \A j \in Place : j < m => B(j) = C(j),
               B(m)[2] < C(m)[2], B(m)[2] \in Nat, C(m)[2] \in Nat
        PROVE  FALSE
    <3>0. m \in Nat
      BY DEF Place
    <3>1. CASE m < i
      <4>1. A(m) = B(m) /\ A(m) # C(m) /\ A(m)[2] < C(m)[2]
        BY <1>8, <2>2, <3>1
      <4>2. \A j \in Place : j < m => A(j) = C(j)
        <5>1. \A j \in Place : j < m => j < i
          BY <2>0, <3>0, <3>1 DEF Place
        <5> QED
          BY <1>8, <2>2, <5>1
      <4>3. m = k
        <5>1. ~(m < k) /\ ~(k < m)
          BY <1>2, <1>3, <4>1, <4>2
        <5> QED
          BY <1>2, <3>0, <5>1
      <4> QED
        BY <1>4, <4>1, <4>3
    <3>2. CASE i < m
      <4>1. B(i) = C(i) /\ A(i) # C(i) /\ A(i)[2] < C(i)[2]
        BY <1>8, <2>2, <3>2
      <4>2. \A j \in Place : j < i => A(j) = C(j)
        <5>1. \A j \in Place : j < i => j < m
          BY <2>0, <3>0, <3>2 DEF Place
        <5> QED
          BY <1>8, <2>2, <5>1
      <4>3. i = k
        <5>1. ~(i < k) /\ ~(k < i)
          BY <1>2, <1>3, <4>1, <4>2
        <5> QED
          BY <1>2, <2>0, <5>1
      <4> QED
        BY <1>4, <4>1, <4>3
    <3>3. CASE i = m
      <4>1. A(i)[2] < C(i)[2] /\ C(i)[2] \in Nat
        BY <1>8, <2>2, <3>3
      <4>2. A(i) # C(i)
        BY <1>8, <4>1
      <4>3. \A j \in Place : j < i => A(j) = C(j)
        BY <1>8, <2>2, <3>3
      <4>4. i = k
        <5>1. ~(i < k) /\ ~(k < i)
          BY <1>2, <1>3, <4>2, <4>3
        <5> QED
          BY <1>2, <2>0, <5>1
      <4> QED
        BY <1>4, <4>1, <4>4
    <3> QED
      BY <2>0, <3>0, <3>1, <3>2, <3>3
  <2> QED
    BY <1>6, <2>1, <2>2
<1> QED
  BY <1>5, <1>7, <1>8

LEMMA TrailingZero ==
  ASSUME NEW a \in Seq(VersionPart)
  PROVE  CompareVersions(a, Append(a, ZeroPart)) = "equal"
<1> DEFINE z == Append(a, ZeroPart)
<1>1. ZeroPart \in VersionPart
  BY PartsAre
<1>2. /\ z \in Seq(VersionPart) /\ Len(a) \in Nat /\ Len(z) = Len(a) + 1 /\ z[Len(a) + 1] = ZeroPart
      /\ \A k \in 1 .. Len(a) : z[k] = a[k]
  BY <1>1
<1> HIDE DEF z
<1>3. ASSUME NEW k \in Place PROVE SameAt(a, z, k)
  <2>1. CASE k <= Len(a)
    BY <1>2, <2>1 DEF SameAt, PartAt, Place
  <2>2. CASE k = Len(a) + 1
    BY <1>2, <2>2 DEF SameAt, PartAt, Place
  <2>3. CASE k > Len(a) + 1
    BY <1>2, <2>3 DEF SameAt, PartAt, Place
  <2> QED
    BY <1>2, <2>1, <2>2, <2>3 DEF Place
<1>4. CompareVersions(a, z) = "equal"
  BY <1>2, <1>3, ComparedAlike
<1> QED
  BY <1>4 DEF z

\* compare_versions never contradicts itself, whatever the versions: it is the
\* same from both sides, no chain of known answers leads to the opposite one,
\* and a trailing zero says nothing.
THEOREM VersionOrderIsSound == OrderConsistent
<1>1. \A a \in VersionsShort : a \in Seq(VersionPart)
  BY VulnAssumption
<1>2. \A a \in VersionsShort : CompareVersions(a, Append(a, ZeroPart)) = "equal"
  BY <1>1, TrailingZero
<1>3. \A a, b \in VersionsShort : CompareVersions(a, b) = Opposite(CompareVersions(b, a))
  BY <1>1, ComparedBothWays
<1>4. \A a, b, c \in VersionsShort : NotAfter(a, b) /\ NotAfter(b, c) => CompareVersions(a, c) # "greater"
  BY <1>1, ComparedInChains
<1> QED
  BY <1>2, <1>3, <1>4 DEF OrderConsistent

-----------------------------------------------------------------------------
(* What is said of an advisory.                                              *)

LEMMA LeastIs ==
  ASSUME NEW a \in Nat, NEW b \in Nat
  PROVE  LeastOf(a, b) \in Nat /\ LeastOf(a, b) <= a /\ LeastOf(a, b) <= b
<1> DEFINE m == Min({a, b})
<1>1. m \in {a, b} /\ \A x \in {a, b} : m <= x
  BY DEF Min
<1> HIDE DEF m
<1>2. m \in Nat /\ m <= a /\ m <= b
  BY <1>1
<1> QED
  BY <1>2 DEF LeastOf, m

Orders == {"equal", "less", "greater", "unknown"}

LEMMA ComparedTo == \A a, b : CompareVersions(a, b) \in Orders
BY DEF CompareVersions, Orders

LEMMA RequiresMeans ==
  ASSUME NEW op \in Operators, NEW order \in Orders
  PROVE  /\ Requires(op, order) \in {"yes", "no", "unknown"}
         /\ Requires(op, order) = "yes" <=> order \in AdmittedOrders[op]
         /\ Requires(op, order) = "no" <=> order \notin AdmittedOrders[op] \cup {"unknown"}
<1> USE DEF Requires, AdmittedOrders, Orders
<1>1. CASE op = "exact"
  BY <1>1
<1>2. CASE op = "less"
  BY <1>2
<1>3. CASE op = "atmost"
  BY <1>3
<1>4. CASE op = "greater"
  BY <1>4
<1>5. CASE op = "atleast"
  BY <1>5
<1> QED
  BY <1>1, <1>2, <1>3, <1>4, <1>5 DEF Operators

LEMMA BoundMeans ==
  ASSUME NEW bound, bound.op \in Operators, NEW version
  PROVE  LET answer == Requires(bound.op, CompareVersions(version, bound.version))
         IN  /\ answer \in {"yes", "no", "unknown"}
             /\ answer = "yes" => HoldsFor(bound, version)
             /\ answer = "no" <=> ShutsOut(bound, version)
<1>1. CompareVersions(version, bound.version) \in Orders
  BY ComparedTo
<1> QED
  BY <1>1, RequiresMeans DEF HoldsFor, ShutsOut

LEMMA ReqMeans ==
  ASSUME NEW req, \A bound \in req : bound.op \in Operators, NEW version
  PROVE  /\ EvaluateReq(req, version) \in {"yes", "no", "unknown"}
         /\ EvaluateReq(req, version) = "yes" => \A bound \in req : HoldsFor(bound, version)
         /\ EvaluateReq(req, version) = "no" <=> \E bound \in req : ShutsOut(bound, version)
<1> DEFINE Answer(bound) == Requires(bound.op, CompareVersions(version, bound.version))
<1>1. \A bound \in req : /\ Answer(bound) \in {"yes", "no", "unknown"}
                         /\ Answer(bound) = "yes" => HoldsFor(bound, version)
                         /\ Answer(bound) = "no" <=> ShutsOut(bound, version)
  BY BoundMeans
<1>2. EvaluateReq(req, version) = LET answers == {Answer(bound) : bound \in req}
                                  IN  IF "no" \in answers THEN "no" ELSE IF "unknown" \in answers THEN "unknown" ELSE "yes"
  BY DEF EvaluateReq
<1> HIDE DEF Answer
<1> QED
  BY <1>1, <1>2

\* What a candidate owes to its advisory.
Justified(m, advisory, identity) ==
  /\ m.exact /\ m.outcome = "matched" => \A b \in Bounds(advisory) : HoldsFor(b, identity.version)
  /\ identity.version \notin {NoVersion, <<>>} =>
       (m.outcome = "unaffected") = (\E b \in Bounds(advisory) : ShutsOut(b, identity.version))
  /\ m.confidence > 60 => m.exact /\ m.outcome = "matched" /\ Bounds(advisory) # {}
  /\ m.confidence > 70 => VendorAgrees(advisory, identity)

LEMMA MatchIsJustified ==
  ASSUME NEW advisory, AdvisoryOK(advisory), NEW identity,
         identity.confidence \in Nat, identity.versionConfidence \in Nat
  PROVE  LET m == MatchAdvisory(advisory, identity)
         IN  m.id = advisory.id /\ m.confidence \in Nat /\ Justified(m, advisory, identity)
<1> DEFINE m == MatchAdvisory(advisory, identity)
           v == identity.version
           affected == advisory.affected
           Answer(j) == EvaluateReq(affected[j], v)
           answers == {Answer(j) : j \in DOMAIN affected}
           low == LeastOf(identity.confidence, 40)
           product == LeastOf(identity.confidence, 45)
           outside == LeastOf(identity.confidence, 60)
           whole == LeastOf(LeastOf(identity.confidence, Max({identity.versionConfidence, 50})), 90)
           single == LeastOf(whole, 70)
           anyOut == \E b \in Bounds(advisory) : ShutsOut(b, v)
<1>1. /\ low \in Nat /\ low <= 40 /\ product \in Nat /\ product <= 45
      /\ outside \in Nat /\ outside <= 60
  BY LeastIs
<1>2. whole \in Nat /\ single \in Nat /\ single <= 70
  <2> DEFINE top == Max({identity.versionConfidence, 50})
  <2>1. top \in {identity.versionConfidence, 50}
    BY DEF Max
  <2>2. top \in Nat
    BY <2>1
  <2> HIDE DEF top
  <2>3. LeastOf(identity.confidence, top) \in Nat
    BY <2>2, LeastIs
  <2>4. whole \in Nat
    BY <2>3, LeastIs DEF top
  <2> HIDE DEF whole
  <2> QED
    BY <2>4, LeastIs
<1>3. \A j \in DOMAIN affected : affected[j] \in ToSet(affected)
  BY DEF ToSet
<1>4. \A j \in DOMAIN affected :
        /\ Answer(j) \in {"yes", "no", "unknown"}
        /\ Answer(j) = "yes" => \A bound \in affected[j] : HoldsFor(bound, v)
        /\ Answer(j) = "no" <=> \E bound \in affected[j] : ShutsOut(bound, v)
  <2>1. \A j \in DOMAIN affected : \A bound \in affected[j] : bound.op \in Operators
    BY <1>3 DEF AdvisoryOK
  <2> QED
    BY <2>1, ReqMeans
<1> HIDE DEF low, product, outside, whole, single, Answer
<1>5. "no" \in answers <=> anyOut
  BY <1>4 DEF Bounds
<1>6. ("no" \notin answers /\ "unknown" \notin answers) => \A b \in Bounds(advisory) : HoldsFor(b, v)
  BY <1>4 DEF Bounds
<1>7. affected # <<>> => Bounds(advisory) # {}
  <2> SUFFICES ASSUME affected # <<>> PROVE Bounds(advisory) # {}
    OBVIOUS
  <2>1. 1 \in DOMAIN affected
    BY DEF AdvisoryOK
  <2>2. affected[1] # {}
    BY <1>3, <2>1 DEF AdvisoryOK
  <2> QED
    BY <2>1, <2>2 DEF Bounds
<1>8. m = IF v = <<>> THEN Candidate(advisory, "unknown", low, FALSE)
          ELSE IF v = NoVersion \/ affected = <<>> THEN Candidate(advisory, "matched", product, FALSE)
          ELSE IF "no" \in answers THEN Candidate(advisory, "unaffected", outside, TRUE)
          ELSE IF "unknown" \in answers THEN Candidate(advisory, "unknown", low, FALSE)
          ELSE Candidate(advisory, "matched", IF VendorAgrees(advisory, identity) THEN whole ELSE single, TRUE)
  BY DEF MatchAdvisory, low, product, outside, whole, single, Answer
<1>9. affected = <<>> => Bounds(advisory) = {}
  BY DEF Bounds
<1> HIDE DEF m, answers
<1> DEFINE Says(outcome, confidence, exact) ==
             m.id = advisory.id /\ m.outcome = outcome /\ m.confidence = confidence /\ m.exact = exact
<1> HIDE DEF v, affected
<1>10. CASE v = <<>>
  <2>1. Says("unknown", low, FALSE)
    BY <1>8, <1>10 DEF Candidate
  <2> QED
    BY <1>1, <1>10, <2>1 DEF Justified, v, m
<1>11. CASE v # <<>> /\ (v = NoVersion \/ affected = <<>>)
  <2>1. Says("matched", product, FALSE)
    BY <1>8, <1>11 DEF Candidate
  <2>2. v \notin {NoVersion, <<>>} => ~anyOut
    BY <1>9, <1>11
  <2>3. m.confidence \in Nat /\ ~(m.confidence > 60) /\ ~(m.confidence > 70) /\ ~m.exact /\ m.outcome # "unaffected"
    BY <1>1, <2>1
  <2> QED
    BY <2>1, <2>2, <2>3 DEF Justified, v, m
<1>12. CASE v # <<>> /\ v # NoVersion /\ affected # <<>> /\ "no" \in answers
  <2>1. Says("unaffected", outside, TRUE)
    BY <1>8, <1>12 DEF Candidate
  <2>2. m.confidence \in Nat /\ ~(m.confidence > 60) /\ ~(m.confidence > 70) /\ m.outcome # "matched"
    BY <1>1, <2>1
  <2>3. (m.outcome = "unaffected") = anyOut
    BY <1>5, <1>12, <2>1
  <2> QED
    BY <2>1, <2>2, <2>3 DEF Justified, v, m
<1>13. CASE v # <<>> /\ v # NoVersion /\ affected # <<>> /\ "no" \notin answers /\ "unknown" \in answers
  <2>1. Says("unknown", low, FALSE)
    BY <1>8, <1>13 DEF Candidate
  <2>2. m.confidence \in Nat /\ ~(m.confidence > 60) /\ ~(m.confidence > 70) /\ m.outcome # "matched"
    BY <1>1, <2>1
  <2>3. (m.outcome = "unaffected") = anyOut
    BY <1>5, <1>13, <2>1
  <2> QED
    BY <2>1, <2>2, <2>3 DEF Justified, v, m
<1>14. CASE v # <<>> /\ v # NoVersion /\ affected # <<>> /\ "no" \notin answers /\ "unknown" \notin answers
  <2>1. Says("matched", IF VendorAgrees(advisory, identity) THEN whole ELSE single, TRUE)
    BY <1>8, <1>14 DEF Candidate
  <2>2. m.confidence \in Nat /\ (m.confidence > 70 => VendorAgrees(advisory, identity))
    BY <1>2, <2>1
  <2> QED
    BY <1>5, <1>6, <1>7, <1>14, <2>1, <2>2 DEF Justified, v, m
<1> QED
  BY <1>10, <1>11, <1>12, <1>13, <1>14

-----------------------------------------------------------------------------
(* The dataset and the query.                                                *)

AdvisoriesOf(w) == UNION {ToSet(file.advisories) : file \in ToSet(w.files)}
DatasetOK(dataset) ==
  /\ dataset \in Seq(AdvisoriesOf(vworld)) /\ Len(dataset) <= MaxAdvisories
  /\ \A i, k \in DOMAIN dataset : dataset[i].id = dataset[k].id => i = k

LEMMA MergedIsSeq ==
  ASSUME NEW w \in VulnWorlds
  PROVE  Merged(w.files) \in Seq(AdvisoriesOf(w)) /\ Len(Merged(w.files)) <= MaxAdvisories
<1> DEFINE R == AdvisoriesOf(w)
           parts == [k \in DOMAIN w.files |-> IF w.files[k].kind = "huge" THEN <<>> ELSE w.files[k].advisories]
           kept == FlattenSeq(parts)
           n == Min({MaxAdvisories, Len(kept)})
<1>1. w.files \in Seq(ToSet(w.files)) /\ \A file \in ToSet(w.files) : file.advisories \in Seq(ToSet(file.advisories))
  BY VulnAssumption
<1>2. \A file \in ToSet(w.files) : file.advisories \in Seq(R)
  <2> SUFFICES ASSUME NEW file \in ToSet(w.files) PROVE file.advisories \in Seq(R)
    OBVIOUS
  <2> DEFINE T == ToSet(file.advisories)
  <2>1. file.advisories \in Seq(T)
    BY <1>1
  <2>2. T \subseteq R
    BY DEF AdvisoriesOf
  <2> HIDE DEF T, R
  <2> QED
    BY <2>1, <2>2
<1>3. parts \in Seq(Seq(R))
  <2>1. \A k \in DOMAIN w.files : w.files[k] \in ToSet(w.files)
    BY DEF ToSet
  <2>2. \A k \in DOMAIN w.files : parts[k] \in Seq(R)
    BY <1>2, <2>1
  <2>3. PICK m \in Nat : DOMAIN w.files = 1 .. m
    BY <1>1
  <2> HIDE DEF R
  <2>4. DOMAIN parts = 1 .. m
    BY <2>3
  <2>5. parts = [k \in 1 .. m |-> parts[k]]
    BY <2>3
  <2> HIDE DEF parts
  <2> QED
    BY <2>2, <2>3, <2>5
<1> HIDE DEF parts, R
<1>4. kept \in Seq(R)
  BY <1>3, FlatIsSeq
<1> HIDE DEF kept
<1>5. Len(kept) \in Nat /\ MaxAdvisories \in Nat
  BY <1>4, VulnAssumption
<1>6. n \in Nat /\ n <= MaxAdvisories /\ n <= Len(kept)
  <2>1. n \in {MaxAdvisories, Len(kept)} /\ \A x \in {MaxAdvisories, Len(kept)} : n <= x
    BY <1>5 DEF Min
  <2> HIDE DEF n
  <2> QED
    BY <1>5, <2>1
<1> HIDE DEF n
<1>7. SubSeq(kept, 1, n) \in Seq(R) /\ Len(SubSeq(kept, 1, n)) = n
  BY <1>4, <1>6, PrefixGrows, <1>5
<1>8. Merged(w.files) = SubSeq(kept, 1, n)
  BY DEF Merged, kept, parts, n
<1> QED
  BY <1>6, <1>7, <1>8 DEF R

LEMMA EarliestFew ==
  ASSUME NEW n \in Nat, NEW places, places \subseteq 1 .. n, NEW room \in Nat
  PROVE  /\ Earliest(places, room) \subseteq places /\ IsFiniteSet(Earliest(places, room))
         /\ Cardinality(Earliest(places, room)) <= room
<1>1. Earliest(places, room) = Firsts(places, room)
  BY DEF Earliest, Firsts
<1>2. /\ IsFiniteSet(Firsts(places, room)) /\ Firsts(places, room) \subseteq places
      /\ Cardinality(Firsts(places, room)) <= room
  BY FirstsFew
<1> QED
  BY <1>1, <1>2

\* Candidates are told apart by the ids of their advisories.
LEMMA SortedAre ==
  ASSUME NEW C, IsFiniteSet(C), \A c \in C : c.id \in Nat /\ c.confidence \in Nat,
         \A c, d \in C : c.id = d.id => c = d
  PROVE  LET s == LikeliestFirst(C)
         IN  /\ s \in Seq(C) /\ Len(s) = Cardinality(C)
             /\ \A k \in DOMAIN s : s[k] \in C /\ \A j \in 1 .. (k - 1) : s[j].id # s[k].id /\ s[j].confidence >= s[k].confidence
<1> DEFINE R == {p \in C \X C : Likelier(p[1], p[2])}
           n == Cardinality(C)
           s == LikeliestFirst(C)
<1>1. \A c, d \in C : <<c, d>> \in R <=> Likelier(c, d)
  OBVIOUS
<1> HIDE DEF R
<1>2. Linear(C, R)
  <2>1. \A c \in C : <<c, c>> \notin R
    BY <1>1 DEF Likelier
  <2>2. \A c, d \in C : c = d \/ <<c, d>> \in R \/ <<d, c>> \in R
    <3> SUFFICES ASSUME NEW c \in C, NEW d \in C, c # d PROVE Likelier(c, d) \/ Likelier(d, c)
      BY <1>1
    <3>1. c.id # d.id /\ c.id \in Nat /\ d.id \in Nat /\ c.confidence \in Nat /\ d.confidence \in Nat
      OBVIOUS
    <3> QED
      BY <3>1 DEF Likelier
  <2>3. \A c, d, e \in C : Likelier(c, d) /\ Likelier(d, e) => Likelier(c, e)
    BY DEF Likelier
  <2> QED
    BY <1>1, <2>1, <2>2, <2>3 DEF Linear
<1>3. /\ n \in Nat
      /\ \A x, y \in C : <<x, y>> \in R => RankIn(C, R, x) < RankIn(C, R, y)
      /\ \A x \in C : RankIn(C, R, x) \in Nat
      /\ \A k \in 1 .. n : \E x \in C : RankIn(C, R, x) = k - 1
  BY <1>2, RanksAre
<1>4. \A c \in C : RankIn(C, R, c) = Cardinality({d \in C : Likelier(d, c)})
  <2> SUFFICES ASSUME NEW c \in C PROVE RankIn(C, R, c) = Cardinality({d \in C : Likelier(d, c)})
    OBVIOUS
  <2>1. {d \in C : Likelier(d, c)} = {d \in C : <<d, c>> \in R}
    BY <1>1
  <2> QED
    BY <2>1 DEF RankIn
<1>5. s = [k \in 1 .. n |-> CHOOSE c \in C : Cardinality({d \in C : Likelier(d, c)}) = k - 1]
  BY DEF LikeliestFirst
<1> HIDE DEF s, n
<1>6. \A k \in 1 .. n : s[k] \in C /\ RankIn(C, R, s[k]) = k - 1
  <2> SUFFICES ASSUME NEW k \in 1 .. n PROVE s[k] \in C /\ RankIn(C, R, s[k]) = k - 1
    OBVIOUS
  <2>1. \E c \in C : Cardinality({d \in C : Likelier(d, c)}) = k - 1
    BY <1>3, <1>4
  <2>2. s[k] = CHOOSE c \in C : Cardinality({d \in C : Likelier(d, c)}) = k - 1
    BY <1>5
  <2>3. s[k] \in C /\ Cardinality({d \in C : Likelier(d, s[k])}) = k - 1
    BY <2>1, <2>2
  <2> QED
    BY <1>4, <2>3
<1>7. s \in Seq(C) /\ Len(s) = n /\ DOMAIN s = 1 .. n
  <2>1. DOMAIN s = 1 .. n
    BY <1>5
  <2>2. s = [k \in 1 .. n |-> s[k]]
    <3> DEFINE at(k) == CHOOSE c \in C : Cardinality({d \in C : Likelier(d, c)}) = k - 1
    <3>1. s = [k \in 1 .. n |-> at(k)]
      BY <1>5
    <3> HIDE DEF at
    <3> QED
      BY <3>1
  <2>3. s \in [1 .. n -> C]
    BY <1>6, <2>2
  <2> QED
    BY <1>3, <2>1, <2>3
<1>8. ASSUME NEW k \in 1 .. n, NEW j \in 1 .. (k - 1) PROVE s[j].id # s[k].id /\ s[j].confidence >= s[k].confidence
  <2>1. j \in 1 .. n /\ j - 1 < k - 1
    BY <1>3
  <2>2. s[j] \in C /\ s[k] \in C /\ RankIn(C, R, s[j]) < RankIn(C, R, s[k])
    BY <1>6, <2>1
  <2>3. <<s[k], s[j]>> \notin R /\ s[j] # s[k]
    <3>1. RankIn(C, R, s[j]) \in Nat /\ RankIn(C, R, s[k]) \in Nat
      BY <1>3, <2>2
    <3> QED
      BY <1>3, <2>2, <3>1
  <2>4. Likelier(s[j], s[k])
    BY <1>1, <1>2, <2>2, <2>3 DEF Linear
  <2> QED
    BY <2>2, <2>3, <2>4 DEF Likelier
<1> QED
  BY <1>6, <1>7, <1>8 DEF s, n

LEMMA QueryIsJustified ==
  ASSUME vworld \in VulnWorlds, DatasetOK(vdataset), NEW m0, m0 = QueryDb(vworld.identity)
  PROVE  /\ Len(m0) \in Nat /\ Len(m0) <= MaxMatches
         /\ \A k \in DOMAIN m0 :
              /\ \E i \in DOMAIN vdataset :
                   /\ vdataset[i].id = m0[k].id /\ vdataset[i].product = vworld.identity.product
                   /\ Justified(m0[k], vdataset[i], vworld.identity)
              /\ \A j \in 1 .. (k - 1) : m0[j].id # m0[k].id /\ m0[j].confidence >= m0[k].confidence
<1> DEFINE identity == vworld.identity
           indexed == {k \in DOMAIN vdataset : vdataset[k].product = identity.product}
           looked == {k \in Earliest(indexed, MaxIndexed) : ~SomebodyElses(vdataset[k], identity)}
           kept == Earliest(looked, MaxMatches)
           C == {MatchAdvisory(vdataset[k], identity) : k \in kept}
<1>1. PICK n \in Nat : DOMAIN vdataset = 1 .. n
  BY DEF DatasetOK
<1>2. MaxIndexed \in Nat /\ MaxMatches \in Nat /\ identity.confidence \in Nat /\ identity.versionConfidence \in Nat
  BY VulnAssumption
<1>3. Earliest(indexed, MaxIndexed) \subseteq indexed
  <2>1. indexed \subseteq 1 .. n
    BY <1>1
  <2> HIDE DEF indexed
  <2> QED
    BY <1>2, <2>1, EarliestFew
<1>4. kept \subseteq indexed /\ IsFiniteSet(kept) /\ Cardinality(kept) <= MaxMatches
  <2>1. looked \subseteq 1 .. n
    BY <1>1, <1>3
  <2>2. looked \subseteq indexed
    BY <1>3
  <2> HIDE DEF looked, indexed
  <2> QED
    BY <1>2, <2>1, <2>2, EarliestFew
<1>5. \A k \in kept : k \in DOMAIN vdataset /\ vdataset[k].product = identity.product
  BY <1>4
<1>6. \A k \in DOMAIN vdataset : AdvisoryOK(vdataset[k])
  <2>1. \A k \in DOMAIN vdataset : vdataset[k] \in AdvisoriesOf(vworld)
    BY DEF DatasetOK
  <2> QED
    BY <2>1, VulnAssumption DEF AdvisoriesOf
<1> HIDE DEF kept
<1>7. \A k \in kept : LET m == MatchAdvisory(vdataset[k], identity)
                      IN  /\ m.id = vdataset[k].id /\ m.id \in Nat /\ m.confidence \in Nat
                          /\ Justified(m, vdataset[k], identity)
  <2>1. \A k \in kept : AdvisoryOK(vdataset[k]) /\ vdataset[k].id \in Nat
    BY <1>5, <1>6 DEF AdvisoryOK
  <2> QED
    BY <1>2, <2>1, MatchIsJustified
<1>8. IsFiniteSet(C) /\ Cardinality(C) <= Cardinality(kept) /\ Cardinality(kept) \in Nat
  <2> DEFINE f == [k \in kept |-> MatchAdvisory(vdataset[k], identity)]
  <2>1. f \in Surjection(kept, C)
    BY DEF Surjection
  <2> HIDE DEF f, C
  <2> QED
    BY <1>4, <2>1, FS_Surjection, FS_CardinalityType
<1>9. \A c \in C : c.id \in Nat /\ c.confidence \in Nat
  BY <1>7
<1>10. \A c, d \in C : c.id = d.id => c = d
  <2> SUFFICES ASSUME NEW i \in kept, NEW k \in kept,
                      MatchAdvisory(vdataset[i], identity).id = MatchAdvisory(vdataset[k], identity).id
               PROVE  i = k
    OBVIOUS
  <2>1. vdataset[i].id = vdataset[k].id
    BY <1>7
  <2> QED
    BY <1>5, <2>1 DEF DatasetOK
<1>11. m0 = LikeliestFirst(C)
  BY DEF QueryDb, kept
<1>12. \A c \in C : \E i \in DOMAIN vdataset :
         vdataset[i].id = c.id /\ vdataset[i].product = identity.product /\ Justified(c, vdataset[i], identity)
  BY <1>5, <1>7
<1> HIDE DEF C, identity
<1>13. /\ m0 \in Seq(C) /\ Len(m0) = Cardinality(C)
       /\ \A k \in DOMAIN m0 : m0[k] \in C /\ \A j \in 1 .. (k - 1) : m0[j].id # m0[k].id /\ m0[j].confidence >= m0[k].confidence
  BY <1>8, <1>9, <1>10, <1>11, SortedAre
<1>14. Cardinality(C) \in Nat
  BY <1>8, FS_CardinalityType
<1>15. Len(m0) \in Nat /\ Len(m0) <= MaxMatches
  BY <1>2, <1>4, <1>8, <1>13, <1>14
<1> QED
  BY <1>12, <1>13, <1>15 DEF identity

\* What the run holds at each stage.
VulnInv ==
  /\ vworld \in VulnWorlds /\ vstage \in {"load", "query", "done"}
  /\ DatasetOK(vdataset)
  /\ vstage # "done" => vmatches = NotAsked
  /\ vstage = "done" => vmatches = QueryDb(vworld.identity)

LEMMA NoDatasetOK == vworld \in VulnWorlds => DatasetOK(NoDataset)
<1>1. <<>> \in Seq(AdvisoriesOf(vworld)) /\ Len(<<>>) = 0 /\ DOMAIN <<>> = {}
  OBVIOUS
<1>2. MaxAdvisories \in Nat
  BY VulnAssumption
<1> QED
  BY <1>1, <1>2 DEF DatasetOK, NoDataset

LEMMA VulnInvInductive == (VulnInit => VulnInv) /\ (VulnInv /\ [VulnNext]_vulnvars => VulnInv')
<1>1. VulnInit => VulnInv
  BY NoDatasetOK DEF VulnInit, VulnInv
<1>2. ASSUME VulnInv, LoadVulnDb PROVE VulnInv'
  <2>1. vworld' = vworld /\ vmatches' = vmatches /\ vstage' = "query" /\ vstage = "load" /\ vworld \in VulnWorlds
    BY <1>2 DEF LoadVulnDb, VulnInv
  <2>2. DatasetOK(vdataset)'
    <3>1. CASE vdataset' = NoDataset
      <4>1. DatasetOK(NoDataset)
        BY <2>1, NoDatasetOK
      <4> QED
        BY <2>1, <3>1, <4>1 DEF DatasetOK
    <3>2. CASE vdataset' = Merged(vworld.files) /\ ValidDataset(Merged(vworld.files))
      <4>1. Merged(vworld.files) \in Seq(AdvisoriesOf(vworld)) /\ Len(Merged(vworld.files)) <= MaxAdvisories
        BY <2>1, MergedIsSeq
      <4>2. \A i, k \in DOMAIN Merged(vworld.files) : Merged(vworld.files)[i].id = Merged(vworld.files)[k].id => i = k
        BY <3>2 DEF ValidDataset
      <4> QED
        BY <2>1, <3>2, <4>1, <4>2 DEF DatasetOK
    <3> QED
      BY <1>2, <3>1, <3>2 DEF LoadVulnDb
  <2> QED
    BY <1>2, <2>1, <2>2 DEF VulnInv
<1>3. ASSUME VulnInv, Query PROVE VulnInv'
  <2>1. vworld' = vworld /\ vdataset' = vdataset /\ vmatches' = QueryDb(vworld.identity) /\ vstage' = "done"
    BY <1>3 DEF Query
  <2>2. QueryDb(vworld.identity)' = QueryDb(vworld.identity) /\ DatasetOK(vdataset)' = DatasetOK(vdataset)
    BY <2>1 DEF QueryDb, DatasetOK
  <2> QED
    BY <1>3, <2>1, <2>2 DEF VulnInv
<1>4. ASSUME VulnInv, UNCHANGED vulnvars PROVE VulnInv'
  <2>1. QueryDb(vworld.identity)' = QueryDb(vworld.identity) /\ DatasetOK(vdataset)' = DatasetOK(vdataset)
    BY <1>4 DEF QueryDb, DatasetOK, vulnvars
  <2> QED
    BY <1>4, <2>1 DEF VulnInv, vulnvars
<1> QED
  BY <1>1, <1>2, <1>3, <1>4 DEF VulnNext

\* The dataset and the matches keep to their bounds, the comparison of versions
\* never contradicts itself, and a candidate says of a version only what its
\* advisory's ranges say, with a confidence that fits (LocalVulnDb).
THEOREM MatchesAreJustified == VulnSpec => [](VulnTypeOK /\ VulnSound)
<1>1. VulnInv => VulnTypeOK
  <2> SUFFICES ASSUME VulnInv PROVE VulnTypeOK
    OBVIOUS
  <2> DEFINE top == Max({MaxMatches, 1})
  <2>1. MaxMatches \in Nat
    BY VulnAssumption
  <2>2. top \in Nat /\ MaxMatches <= top /\ 1 <= top
    <3>1. top \in {MaxMatches, 1} /\ \A x \in {MaxMatches, 1} : top >= x
      BY <2>1 DEF Max
    <3> HIDE DEF top
    <3> QED
      BY <2>1, <3>1
  <2> HIDE DEF top
  <2>3. Len(vmatches) <= top
    <3>1. CASE vstage = "done"
      <4>1. Len(vmatches) \in Nat /\ Len(vmatches) <= MaxMatches
        BY <3>1, QueryIsJustified DEF VulnInv
      <4> QED
        BY <2>1, <2>2, <4>1
    <3>2. CASE vstage # "done"
      <4>1. Len(vmatches) = 1
        BY <3>2 DEF VulnInv, NotAsked
      <4> QED
        BY <2>2, <4>1
    <3> QED
      BY <3>1, <3>2
  <2> QED
    BY <2>3 DEF VulnTypeOK, VulnInv, DatasetOK, top
<1>2. VulnInv => MatchesJustified
  <2> SUFFICES ASSUME VulnInv, vstage = "done", NEW k \in DOMAIN vmatches
               PROVE  LET m == vmatches[k] advisory == AdvisoryOf(m.id) version == vworld.identity.version
                      IN  /\ advisory.product = vworld.identity.product
                          /\ m.exact /\ m.outcome = "matched" => \A b \in Bounds(advisory) : HoldsFor(b, version)
                          /\ version \notin {NoVersion, <<>>} =>
                               (m.outcome = "unaffected") = (\E b \in Bounds(advisory) : ShutsOut(b, version))
                          /\ \A j \in 1..(k - 1) : vmatches[j].id # m.id
                          /\ m.confidence > 60 => m.exact /\ m.outcome = "matched" /\ Bounds(advisory) # {}
                          /\ m.confidence > 70 => VendorAgrees(advisory, vworld.identity)
                          /\ \A j \in 1..(k - 1) : vmatches[j].confidence >= m.confidence
    BY DEF MatchesJustified
  <2>1. /\ \E i \in DOMAIN vdataset :
             /\ vdataset[i].id = vmatches[k].id /\ vdataset[i].product = vworld.identity.product
             /\ Justified(vmatches[k], vdataset[i], vworld.identity)
        /\ \A j \in 1 .. (k - 1) : vmatches[j].id # vmatches[k].id /\ vmatches[j].confidence >= vmatches[k].confidence
    BY QueryIsJustified DEF VulnInv
  <2>2. PICK i \in DOMAIN vdataset :
          /\ vdataset[i].id = vmatches[k].id /\ vdataset[i].product = vworld.identity.product
          /\ Justified(vmatches[k], vdataset[i], vworld.identity)
    BY <2>1
  <2>3. AdvisoryOf(vmatches[k].id) = vdataset[i]
    <3>1. Range(vdataset) = {vdataset[j] : j \in DOMAIN vdataset}
      BY DEF Range
    <3>2. \A a \in Range(vdataset) : a.id = vdataset[i].id => a = vdataset[i]
      BY <3>1 DEF VulnInv, DatasetOK
    <3>3. vdataset[i] \in Range(vdataset)
      BY <3>1
    <3> QED
      BY <2>2, <3>2, <3>3 DEF AdvisoryOf
  <2> QED
    BY <2>1, <2>2, <2>3 DEF Justified
<1>3. VulnInv => VulnSound
  BY <1>2, VersionOrderIsSound DEF VulnSound
<1> QED
  BY <1>1, <1>3, VulnInvInductive, PTL DEF VulnSpec

-----------------------------------------------------------------------------
(* Sequences made of sets and of sequences.                                  *)

LEMMA SetInSeq ==
  ASSUME NEW S, IsFiniteSet(S)
  PROVE  SetToSeq(S) \in Seq(S) /\ ToSet(SetToSeq(S)) = S
<1> DEFINE n == Cardinality(S)
           Fits(f) == f \in [1 .. n -> S] /\ IsInjective(f)
           s == CHOOSE f : Fits(f)
<1>1. n \in Nat /\ ExistsBijection(1 .. n, S)
  BY FS_CardinalityType
<1>2. \E f : Fits(f)
  BY <1>1 DEF ExistsBijection, Bijection, Injection, IsInjective
<1>3. Fits(s)
  BY <1>2
<1>4. SetToSeq(S) = s
  BY DEF SetToSeq
<1> HIDE DEF s, n
<1>5. s \in Seq(S)
  BY <1>1, <1>3
<1>6. \A k \in DOMAIN s : s[k] \in S
  BY <1>3
<1>7. \A x \in S : \E k \in DOMAIN s : s[k] = x
  <2>1. IsFiniteSet(1 .. n) /\ Cardinality(1 .. n) = n
    <3>1. 1 \in Int /\ n \in Int
      BY <1>1
    <3>2. IsFiniteSet(1 .. n) /\ Cardinality(1 .. n) = IF 1 > n THEN 0 ELSE n - 1 + 1
      BY <3>1, FS_Interval
    <3> QED
      BY <1>1, <3>2
  <2>2. s \in Injection(1 .. n, S)
    BY <1>3 DEF Injection, IsInjective
  <2>3. Cardinality(1 .. n) = Cardinality(S)
    BY <2>1 DEF n
  <2>4. s \in Surjection(1 .. n, S)
    BY <2>2, <2>3, FS_Injection
  <2> QED
    BY <2>4 DEF Surjection
<1> QED
  BY <1>4, <1>5, <1>6, <1>7 DEF ToSet

LEMMA FlatElements ==
  ASSUME NEW s, NEW n \in Nat, DOMAIN s = 1 .. n, s = [k \in 1 .. n |-> s[k]],
         \A k \in 1 .. n : s[k] \in Seq(ToSet(s[k]))
  PROVE  FlattenSeq(s) \in Seq(UNION {ToSet(s[k]) : k \in 1 .. n})
<1> DEFINE R == UNION {ToSet(s[k]) : k \in 1 .. n}
<1>1. \A k \in 1 .. n : ToSet(s[k]) \subseteq R
  OBVIOUS
<1> HIDE DEF R
<1>2. \A k \in 1 .. n : s[k] \in Seq(R)
  <2> SUFFICES ASSUME NEW k \in 1 .. n PROVE s[k] \in Seq(R)
    OBVIOUS
  <2> DEFINE T == ToSet(s[k])
  <2>1. s[k] \in Seq(T) /\ T \subseteq R
    BY <1>1
  <2> HIDE DEF T
  <2> QED
    BY <2>1
<1>3. s \in Seq(Seq(R))
  BY <1>2
<1> QED
  BY <1>3, FlatIsSeq DEF R

LEMMA SeqElements ==
  ASSUME NEW R, NEW s \in Seq(R)
  PROVE  s \in Seq(ToSet(s)) /\ ToSet(s) \subseteq R
<1>1. PICK n \in Nat : s \in [1 .. n -> R]
  OBVIOUS
<1>2. \A k \in 1 .. n : s[k] \in ToSet(s)
  BY <1>1 DEF ToSet
<1>3. ToSet(s) \subseteq R
  BY <1>1 DEF ToSet
<1>4. s \in [1 .. n -> ToSet(s)]
  BY <1>1, <1>2
<1> HIDE DEF ToSet
<1> QED
  BY <1>3, <1>4

-----------------------------------------------------------------------------
(* The two operations of the graph.                                          *)

\* An edge, and what a name in a certificate and a resolution owe to the run.
EdgeShape(e) ==
  e = [from |-> e.from, to |-> e.to, relation |-> e.relation, confidence |-> e.confidence, scope |-> e.scope]
EdgeTold(w, e) ==
  /\ e.relation = "has_san" => e.scope = (IF e.to[2] \in w.scope THEN "in" ELSE "outside")
  /\ e.relation = "resolves_to" =>
       \E d \in w.events : d.kind = "dns" /\ d.name = e.from[2] /\ d.address = e.to[2]
  /\ e.relation = "resolves_to_endpoint" =>
       /\ e.from[3] = e.to[3]
       /\ e.from[2] = e.to[2] \/ \E d \in w.events : d.kind = "dns" /\ d.name = e.from[2] /\ d.address = e.to[2]
EdgeOK(w, e) == EdgeShape(e) /\ e.confidence \in 0 .. 95 /\ EdgeTold(w, e)
\* A port is at an address.
EntityOK(id) == KindOfEntity(id) = "port" => id = Port(id[2], id[3]) /\ id[2] # "none"
StepOK(w, step) ==
  (step.edge = <<>> /\ EntityOK(step.entity)) \/ (\E e : step.edge = <<e>> /\ EdgeOK(w, e))
StepsOK(w, steps) == steps \in Seq(ToSet(steps)) /\ \A step \in ToSet(steps) : StepOK(w, step)

GraphOK(w, g) ==
  /\ g = [entities |-> g.entities, edges |-> g.edges, truncated |-> g.truncated]
  /\ IsFiniteSet(g.entities) /\ Cardinality(g.entities) <= MaxEntities
  /\ \A id \in g.entities : EntityOK(id)
  /\ IsFiniteSet(g.edges) /\ Cardinality(g.edges) <= MaxEdges
  /\ \A e \in g.edges : EdgeOK(w, e) /\ e.from # e.to /\ {e.from, e.to} \subseteq g.entities
  /\ \A e, f \in g.edges : SameEdge(e, f) => e = f

\* What a graph knows is known to a later one.
Grows(g, h) ==
  /\ g.entities \subseteq h.entities
  /\ g.truncated => h.truncated
  /\ \A e \in g.edges : \E f \in h.edges : SameEdge(e, f) /\ e.confidence <= f.confidence
LEMMA EnsureKeeps ==
  ASSUME NEW w, NEW g, GraphOK(w, g), g.truncated \in BOOLEAN, NEW id, EntityOK(id)
  PROVE  LET h == EnsureEntity(g, id)
         IN  /\ GraphOK(w, h) /\ Grows(g, h) /\ h.truncated \in BOOLEAN /\ (~h.truncated => id \in h.entities)
             /\ h.entities \subseteq g.entities \cup {id}
<1> DEFINE h == EnsureEntity(g, id)
           c == Cardinality(g.entities)
           full == id \notin g.entities /\ c >= MaxEntities
<1>1. c \in Nat /\ MaxEntities \in Nat
  BY FS_CardinalityType, GraphAssumption DEF GraphOK
<1>2. g = [entities |-> g.entities, edges |-> g.edges, truncated |-> g.truncated]
  BY DEF GraphOK
<1>3. Grows(g, g)
  <2>1. \A e \in g.edges : SameEdge(e, e) /\ e.confidence <= e.confidence
    BY DEF GraphOK, EdgeOK, SameEdge
  <2> QED
    BY <2>1 DEF Grows
<1>4. CASE id \in g.entities
  <2>1. h = g
    BY <1>4 DEF EnsureEntity
  <2> QED
    BY <1>3, <1>4, <2>1
<1>5. CASE full
  <2>1. h = [entities |-> g.entities, edges |-> g.edges, truncated |-> TRUE]
    BY <1>2, <1>5 DEF EnsureEntity
  <2> HIDE DEF h
  <2>2. h.entities = g.entities /\ h.edges = g.edges /\ h.truncated = TRUE
    BY <2>1
  <2>3. GraphOK(w, h)
    BY <2>1, <2>2 DEF GraphOK
  <2>4. Grows(g, h)
    BY <1>3, <2>2 DEF Grows
  <2> QED
    BY <2>2, <2>3, <2>4 DEF h
<1>6. CASE id \notin g.entities /\ ~full
  <2>1. h = [entities |-> g.entities \cup {id}, edges |-> g.edges, truncated |-> g.truncated]
    BY <1>2, <1>6 DEF EnsureEntity
  <2> HIDE DEF h
  <2>2. h.entities = g.entities \cup {id} /\ h.edges = g.edges /\ h.truncated = g.truncated
    BY <2>1
  <2>3. IsFiniteSet(g.entities \cup {id}) /\ Cardinality(g.entities \cup {id}) = c + 1
    BY <1>6, FS_AddElement DEF GraphOK
  <2>4. c + 1 <= MaxEntities
    <3>1. ~(c >= MaxEntities)
      BY <1>6
    <3> HIDE DEF c
    <3> QED
      BY <1>1, <3>1
  <2>5. GraphOK(w, h)
    <3> HIDE DEF c, full
    <3> QED
      BY <2>1, <2>2, <2>3, <2>4 DEF GraphOK
  <2>6. Grows(g, h)
    BY <1>3, <2>2 DEF Grows
  <2> QED
    BY <2>2, <2>5, <2>6 DEF h
<1> QED
  BY <1>4, <1>5, <1>6

LEMMA EdgeRaised ==
  ASSUME NEW w, NEW old, EdgeOK(w, old), NEW c \in 0 .. 95
  PROVE  LET new == [old EXCEPT !.confidence = MaxOf(@, c)]
         IN  /\ EdgeOK(w, new) /\ SameEdge(old, new)
             /\ new.confidence \in Nat /\ old.confidence <= new.confidence /\ c <= new.confidence
<1> DEFINE top == MaxOf(old.confidence, c)
           new == [old EXCEPT !.confidence = MaxOf(@, c)]
<1>1. top \in 0 .. 95 /\ old.confidence <= top /\ c <= top
  BY DEF EdgeOK, MaxOf
<1>2. new = [from |-> old.from, to |-> old.to, relation |-> old.relation, confidence |-> top, scope |-> old.scope]
  <2> HIDE DEF MaxOf
  <2> QED
    BY DEF EdgeOK, EdgeShape
<1> HIDE DEF new, top
<1>3. /\ new.from = old.from /\ new.to = old.to /\ new.relation = old.relation /\ new.confidence = top
      /\ new.scope = old.scope
  BY <1>2
<1>4. EdgeOK(w, new)
  BY <1>1, <1>2, <1>3 DEF EdgeOK, EdgeShape, EdgeTold
<1>5. SameEdge(old, new)
  BY <1>3 DEF SameEdge
<1> QED
  BY <1>1, <1>3, <1>4, <1>5 DEF new

LEMMA AddKeeps ==
  ASSUME NEW w, NEW g, GraphOK(w, g), g.truncated \in BOOLEAN, NEW edge, EdgeOK(w, edge)
  PROVE  LET h == AddEdge(g, edge)
         IN  /\ GraphOK(w, h) /\ Grows(g, h) /\ h.truncated \in BOOLEAN /\ h.entities = g.entities
             /\ ~h.truncated /\ edge.from # edge.to /\ {edge.from, edge.to} \subseteq g.entities =>
                  \E e \in h.edges : SameEdge(e, edge) /\ e.confidence >= edge.confidence
<1> DEFINE h == AddEdge(g, edge)
           n == Cardinality(g.edges)
           known == {e \in g.edges : SameEdge(e, edge)}
           loose == edge.from = edge.to \/ ~({edge.from, edge.to} \subseteq g.entities)
<1>1. n \in Nat /\ MaxEdges \in Nat /\ n <= MaxEdges
  BY FS_CardinalityType, GraphAssumption DEF GraphOK
<1>2. g = [entities |-> g.entities, edges |-> g.edges, truncated |-> g.truncated]
  BY DEF GraphOK
<1>3. \A e \in g.edges : SameEdge(e, e) /\ e.confidence <= e.confidence
  BY DEF GraphOK, EdgeOK, SameEdge
<1>4. CASE loose
  <2>1. h = g
    BY <1>4 DEF AddEdge
  <2> QED
    BY <1>3, <1>4, <2>1 DEF Grows
<1>5. CASE ~loose /\ known # {}
  <2> DEFINE old == CHOOSE e \in known : TRUE
             new == [old EXCEPT !.confidence = MaxOf(@, edge.confidence)]
  <2>1. old \in g.edges /\ SameEdge(old, edge)
    BY <1>5
  <2>2. h = [entities |-> g.entities, edges |-> (g.edges \ {old}) \cup {new}, truncated |-> g.truncated]
    <3>1. h = [g EXCEPT !.edges = (@ \ {old}) \cup {new}]
      BY <1>5 DEF AddEdge
    <3> HIDE DEF h, old, new
    <3> QED
      BY <1>2, <3>1
  <2> HIDE DEF old
  <2>3. EdgeOK(w, old) /\ edge.confidence \in 0 .. 95
    BY <2>1 DEF GraphOK, EdgeOK
  <2>4. /\ EdgeOK(w, new) /\ SameEdge(old, new) /\ new.confidence \in Nat
        /\ old.confidence <= new.confidence /\ edge.confidence <= new.confidence
    BY <2>3, EdgeRaised
  <2> HIDE DEF h, new
  <2>5. /\ h.entities = g.entities /\ h.edges = (g.edges \ {old}) \cup {new} /\ h.truncated = g.truncated
    BY <2>2
  <2>6. IsFiniteSet(h.edges) /\ Cardinality(h.edges) <= n
    <3>1. IsFiniteSet(g.edges \ {old}) /\ Cardinality(g.edges \ {old}) = n - 1
      BY <2>1, FS_RemoveElement DEF GraphOK
    <3> DEFINE E == g.edges \ {old}
    <3> HIDE DEF E, n
    <3>2. IsFiniteSet(E \cup {new}) /\ Cardinality(E \cup {new}) \in {n - 1, n}
      <4>1. IsFiniteSet(E) /\ Cardinality(E) = n - 1
        BY <3>1 DEF E
      <4>2. IsFiniteSet(E \cup {new}) /\ Cardinality(E \cup {new}) = IF new \in E THEN Cardinality(E) ELSE Cardinality(E) + 1
        BY <4>1, FS_AddElement
      <4> QED
        BY <1>1, <4>1, <4>2
    <3> QED
      BY <1>1, <2>5, <3>2 DEF E
  <2>7. \A e \in h.edges : EdgeOK(w, e) /\ e.from # e.to /\ {e.from, e.to} \subseteq h.entities
    BY <2>1, <2>4, <2>5 DEF GraphOK, SameEdge
  <2>8. \A e, f \in h.edges : SameEdge(e, f) => e = f
    <3>1. \A e \in g.edges \ {old} : ~SameEdge(e, new) /\ ~SameEdge(new, e)
      BY <2>1, <2>4 DEF GraphOK, SameEdge
    <3> QED
      BY <2>5, <3>1 DEF GraphOK
  <2>9. GraphOK(w, h)
    <3>1. Cardinality(h.edges) <= MaxEdges /\ IsFiniteSet(h.edges)
      <4>1. Cardinality(h.edges) \in Nat
        BY <2>6, FS_CardinalityType
      <4> HIDE DEF n
      <4> QED
        BY <1>1, <2>6, <4>1
    <3>2. h = [entities |-> h.entities, edges |-> h.edges, truncated |-> h.truncated]
      BY <2>2
    <3> QED
      BY <2>5, <2>7, <2>8, <3>1, <3>2 DEF GraphOK
  <2>10. Grows(g, h)
    <3>1. \A e \in g.edges : \E f \in h.edges : SameEdge(e, f) /\ e.confidence <= f.confidence
      <4> SUFFICES ASSUME NEW e \in g.edges PROVE \E f \in h.edges : SameEdge(e, f) /\ e.confidence <= f.confidence
        OBVIOUS
      <4>1. CASE e = old
        BY <2>4, <2>5, <4>1
      <4>2. CASE e # old
        BY <1>3, <2>5, <4>2
      <4> QED
        BY <4>1, <4>2
    <3> QED
      BY <2>5, <3>1 DEF Grows
  <2>11. SameEdge(new, edge) /\ new.confidence >= edge.confidence /\ new \in h.edges
    <3>1. SameEdge(new, edge)
      BY <2>1, <2>4 DEF SameEdge
    <3>2. new.confidence >= edge.confidence
      BY <2>3, <2>4
    <3> QED
      BY <2>5, <3>1, <3>2
  <2> QED
    BY <2>5, <2>9, <2>10, <2>11 DEF h
<1>6. CASE ~loose /\ known = {} /\ n >= MaxEdges
  <2>1. h = [entities |-> g.entities, edges |-> g.edges, truncated |-> TRUE]
    BY <1>2, <1>6 DEF AddEdge
  <2> HIDE DEF h
  <2>2. h.entities = g.entities /\ h.edges = g.edges /\ h.truncated = TRUE
    BY <2>1
  <2>3. GraphOK(w, h)
    BY <2>1, <2>2 DEF GraphOK
  <2>4. Grows(g, h)
    BY <1>3, <2>2 DEF Grows
  <2> QED
    BY <2>2, <2>3, <2>4 DEF h
<1>7. CASE ~loose /\ known = {} /\ ~(n >= MaxEdges)
  <2> DEFINE new == [edge EXCEPT !.confidence = Min({@, 95})]
  <2>1. h = [entities |-> g.entities, edges |-> g.edges \cup {new}, truncated |-> g.truncated]
    <3>1. h = [g EXCEPT !.edges = @ \cup {new}]
      BY <1>7 DEF AddEdge
    <3> HIDE DEF h, new
    <3> QED
      BY <1>2, <3>1
  <2>2. new = edge
    <3> DEFINE m == Min({edge.confidence, 95})
    <3>1. edge.confidence \in 0 .. 95
      BY DEF EdgeOK
    <3>2. m \in {edge.confidence, 95} /\ \A x \in {edge.confidence, 95} : m <= x
      BY <3>1 DEF Min
    <3>3. new = [from |-> edge.from, to |-> edge.to, relation |-> edge.relation, confidence |-> m, scope |-> edge.scope]
      <4> HIDE DEF Min
      <4> QED
        BY DEF EdgeOK, EdgeShape
    <3> HIDE DEF m, new
    <3>4. m = edge.confidence
      BY <3>1, <3>2
    <3> QED
      BY <3>3, <3>4 DEF EdgeOK, EdgeShape
  <2> HIDE DEF h, new
  <2>3. h.entities = g.entities /\ h.edges = g.edges \cup {edge} /\ h.truncated = g.truncated
    BY <2>1, <2>2
  <2>4. edge \notin g.edges
    BY <1>3, <1>7 DEF SameEdge
  <2>5. IsFiniteSet(h.edges) /\ Cardinality(h.edges) <= MaxEdges
    <3>1. IsFiniteSet(g.edges \cup {edge}) /\ Cardinality(g.edges \cup {edge}) = n + 1
      BY <2>4, FS_AddElement DEF GraphOK
    <3>2. ~(n >= MaxEdges)
      BY <1>7
    <3> HIDE DEF n
    <3> QED
      BY <1>1, <2>3, <3>1, <3>2
  <2>6. \A e, f \in h.edges : SameEdge(e, f) => e = f
    <3>1. \A e \in g.edges : ~SameEdge(e, edge) /\ ~SameEdge(edge, e)
      BY <1>7 DEF SameEdge
    <3> QED
      BY <2>3, <3>1 DEF GraphOK
  <2>7. GraphOK(w, h)
    <3>1. h = [entities |-> h.entities, edges |-> h.edges, truncated |-> h.truncated]
      BY <2>1
    <3> QED
      BY <1>7, <2>3, <2>5, <2>6, <3>1 DEF GraphOK
  <2>8. Grows(g, h)
    BY <1>3, <2>3 DEF Grows
  <2>9. SameEdge(edge, edge) /\ edge.confidence >= edge.confidence
    BY DEF EdgeOK, SameEdge
  <2> QED
    BY <2>3, <2>7, <2>8, <2>9 DEF h
<1> QED
  BY <1>4, <1>5, <1>6, <1>7

-----------------------------------------------------------------------------
(* Steps performed one after the other.                                      *)

After(f, g, steps, m) == f = [k \in 0 .. m |-> IF k = 0 THEN g ELSE Apply(f[k - 1], steps[k])]

LEMMA AfterExists ==
  ASSUME NEW g, NEW n \in Nat, NEW steps
  PROVE  \E f : After(f, g, steps, n)
<1> DEFINE T == {m \in Nat : \E f : After(f, g, steps, m)}
<1>1. 0 \in T
  <2> DEFINE f == [k \in 0 .. 0 |-> g]
  <2>1. f = [k \in 0 .. 0 |-> IF k = 0 THEN g ELSE Apply(f[k - 1], steps[k])]
    OBVIOUS
  <2> HIDE DEF f
  <2>2. After(f, g, steps, 0)
    BY <2>1 DEF After
  <2> QED
    BY <2>2
<1>2. ASSUME NEW m \in Nat, m \in T PROVE m + 1 \in T
  <2>1. PICK f : After(f, g, steps, m)
    BY <1>2
  <2> DEFINE last == Apply(f[m], steps[m + 1])
             h == [k \in 0 .. m + 1 |-> IF k <= m THEN f[k] ELSE last]
  <2> HIDE DEF last
  <2>2. \A k \in 0 .. m : h[k] = f[k]
    OBVIOUS
  <2>3. h[m + 1] = last
    OBVIOUS
  <2>4. DOMAIN h = 0 .. m + 1 /\ h = [k \in 0 .. m + 1 |-> h[k]]
    OBVIOUS
  <2> HIDE DEF h
  <2>5. \A k \in 0 .. m : f[k] = IF k = 0 THEN g ELSE Apply(f[k - 1], steps[k])
    BY <2>1 DEF After
  <2>6. ASSUME NEW k \in 0 .. m + 1 PROVE h[k] = IF k = 0 THEN g ELSE Apply(h[k - 1], steps[k])
    <3>1. CASE k = 0
      BY <2>2, <2>5, <3>1
    <3>2. CASE k # 0 /\ k <= m
      <4>1. k \in 0 .. m /\ k - 1 \in 0 .. m
        BY <3>2
      <4> QED
        BY <2>2, <2>5, <3>2, <4>1
    <3>3. CASE k = m + 1
      <4>1. k - 1 = m /\ m \in 0 .. m /\ k # 0
        BY <3>3
      <4>2. h[k] = last /\ h[k - 1] = f[m]
        BY <2>2, <2>3, <3>3, <4>1
      <4> QED
        BY <3>3, <4>1, <4>2 DEF last
    <3> QED
      BY <3>1, <3>2, <3>3
  <2>7. [k \in 0 .. m + 1 |-> h[k]] = [k \in 0 .. m + 1 |-> IF k = 0 THEN g ELSE Apply(h[k - 1], steps[k])]
    BY <2>6
  <2>8. After(h, g, steps, m + 1)
    BY <2>4, <2>7 DEF After
  <2> QED
    BY <2>8
<1> HIDE DEF T
<1>3. Nat \subseteq T
  BY <1>1, <1>2, SetInduction
<1>4. n \in T
  BY <1>3
<1> QED
  BY <1>4 DEF T

LEMMA GraphGrows ==
  ASSUME NEW w, NEW f, NEW g, NEW h, GraphOK(w, f), GraphOK(w, g), GraphOK(w, h), Grows(f, g), Grows(g, h)
  PROVE  Grows(f, h)
<1>1. \A e \in f.edges : \E d \in h.edges : SameEdge(e, d) /\ e.confidence <= d.confidence
  <2> SUFFICES ASSUME NEW e \in f.edges
               PROVE  \E d \in h.edges : SameEdge(e, d) /\ e.confidence <= d.confidence
    OBVIOUS
  <2>1. PICK c \in g.edges : SameEdge(e, c) /\ e.confidence <= c.confidence
    BY DEF Grows
  <2>2. PICK d \in h.edges : SameEdge(c, d) /\ c.confidence <= d.confidence
    BY DEF Grows
  <2>3. e.confidence \in 0 .. 95 /\ c.confidence \in 0 .. 95 /\ d.confidence \in 0 .. 95
    BY DEF GraphOK, EdgeOK
  <2>4. e.confidence <= d.confidence
    <3> DEFINE x == e.confidence
               y == c.confidence
               z == d.confidence
    <3>1. x \in Nat /\ y \in Nat /\ z \in Nat /\ x <= y /\ y <= z
      BY <2>1, <2>2, <2>3
    <3> HIDE DEF x, y, z
    <3>2. x <= z
      BY <3>1
    <3> QED
      BY <3>2 DEF x, z
  <2> QED
    BY <2>1, <2>2, <2>4 DEF SameEdge
<1>2. f.entities \subseteq h.entities
  BY DEF Grows
<1>3. f.truncated => h.truncated
  BY DEF Grows
<1> QED
  BY <1>1, <1>2, <1>3 DEF Grows

\* What a step says, held by a graph: its entity, or its edge at least as sure.
Told(step, g) ==
  /\ step.edge = <<>> => step.entity \in g.entities
  /\ step.edge # <<>> /\ step.edge[1].from # step.edge[1].to =>
       \E e \in g.edges : SameEdge(e, step.edge[1]) /\ e.confidence >= step.edge[1].confidence

LEMMA ToldStays ==
  ASSUME NEW w, NEW g, NEW h, GraphOK(w, g), GraphOK(w, h), Grows(g, h),
         NEW step, StepOK(w, step), Told(step, g)
  PROVE  Told(step, h)
<1>1. CASE step.edge = <<>>
  <2>1. step.entity \in g.entities /\ g.entities \subseteq h.entities
    BY <1>1 DEF Told, Grows
  <2> QED
    BY <1>1, <2>1 DEF Told
<1>2. CASE step.edge # <<>> /\ step.edge[1].from # step.edge[1].to
  <2>1. PICK e \in g.edges : SameEdge(e, step.edge[1]) /\ e.confidence >= step.edge[1].confidence
    BY <1>2 DEF Told
  <2>2. PICK d \in h.edges : SameEdge(e, d) /\ e.confidence <= d.confidence
    BY DEF Grows
  <2>3. PICK c : step.edge = <<c>> /\ EdgeOK(w, c)
    BY <1>2 DEF StepOK
  <2>4. step.edge[1] = c /\ c.confidence \in 0 .. 95 /\ e.confidence \in 0 .. 95 /\ d.confidence \in 0 .. 95
    BY <2>3 DEF GraphOK, EdgeOK
  <2>5. d.confidence >= c.confidence
    <3> DEFINE x == e.confidence
               y == c.confidence
               z == d.confidence
    <3>1. x \in Nat /\ y \in Nat /\ z \in Nat /\ y <= x /\ x <= z
      BY <2>1, <2>2, <2>4
    <3> HIDE DEF x, y, z
    <3>2. z >= y
      BY <3>1
    <3> QED
      BY <3>2 DEF y, z
  <2>6. SameEdge(d, c)
    BY <2>1, <2>2, <2>4 DEF SameEdge
  <2> QED
    BY <1>2, <2>4, <2>5, <2>6 DEF Told
<1>3. CASE step.edge # <<>> /\ step.edge[1].from = step.edge[1].to
  BY <1>3 DEF Told
<1> QED
  BY <1>1, <1>2, <1>3

\* A step's edge joins entities that are there.
Joined(step, g) == step.edge # <<>> => {step.edge[1].from, step.edge[1].to} \subseteq g.entities

LEMMA ApplyKeeps ==
  ASSUME NEW w, NEW g, GraphOK(w, g), g.truncated \in BOOLEAN, NEW step, StepOK(w, step)
  PROVE  LET h == Apply(g, step)
         IN  /\ GraphOK(w, h) /\ Grows(g, h) /\ h.truncated \in BOOLEAN
             /\ ~h.truncated /\ Joined(step, g) => Told(step, h)
             /\ h.entities \subseteq g.entities \cup (IF step.edge = <<>> THEN {step.entity} ELSE {})
<1>1. CASE step.edge = <<>>
  <2>1. Apply(g, step) = EnsureEntity(g, step.entity)
    BY <1>1 DEF Apply
  <2> DEFINE h == EnsureEntity(g, step.entity)
  <2>2. /\ GraphOK(w, h) /\ Grows(g, h) /\ h.truncated \in BOOLEAN /\ (~h.truncated => step.entity \in h.entities)
        /\ h.entities \subseteq g.entities \cup {step.entity}
    <3>1. EntityOK(step.entity)
      BY <1>1 DEF StepOK
    <3> QED
      BY <3>1, EnsureKeeps
  <2> HIDE DEF h
  <2>3. ~h.truncated => Told(step, h)
    BY <1>1, <2>2 DEF Told
  <2> QED
    BY <1>1, <2>1, <2>2, <2>3 DEF h
<1>2. CASE step.edge # <<>>
  <2>1. PICK e : step.edge = <<e>> /\ EdgeOK(w, e)
    BY <1>2 DEF StepOK
  <2>2. step.edge[1] = e
    BY <2>1
  <2>3. Apply(g, step) = AddEdge(g, e)
    BY <1>2, <2>2 DEF Apply
  <2> DEFINE h == AddEdge(g, e)
  <2>4. /\ GraphOK(w, h) /\ Grows(g, h) /\ h.truncated \in BOOLEAN /\ h.entities = g.entities
        /\ ~h.truncated /\ e.from # e.to /\ {e.from, e.to} \subseteq g.entities =>
             \E d \in h.edges : SameEdge(d, e) /\ d.confidence >= e.confidence
    BY <2>1, AddKeeps
  <2> HIDE DEF h
  <2>5. ~h.truncated /\ Joined(step, g) => Told(step, h)
    BY <1>2, <2>2, <2>4 DEF Told, Joined
  <2> QED
    BY <2>3, <2>4, <2>5 DEF h
<1> QED
  BY <1>1, <1>2

\* Entities that some of the first steps name, and steps whose edges join only
\* entities known before or named by earlier steps.
NamedBy(steps, m) == {steps[j].entity : j \in {j \in 1 .. m : steps[j].edge = <<>>}}
Placed(known, steps) ==
  \A k \in DOMAIN steps : steps[k].edge # <<>> =>
    {steps[k].edge[1].from, steps[k].edge[1].to} \subseteq known \cup NamedBy(steps, k - 1)

LEMMA PerformKeeps ==
  ASSUME NEW w, NEW g, GraphOK(w, g), g.truncated \in BOOLEAN, NEW steps, StepsOK(w, steps)
  PROVE  LET h == Perform(g, steps)
         IN  /\ GraphOK(w, h) /\ Grows(g, h) /\ h.truncated \in BOOLEAN
             /\ h.entities \subseteq g.entities \cup NamedBy(steps, Len(steps))
             /\ ~h.truncated /\ Placed(g.entities, steps) => \A k \in DOMAIN steps : Told(steps[k], h)
<1> DEFINE n == Len(steps)
           f == CHOOSE f : After(f, g, steps, n)
           Good(h, m) == /\ GraphOK(w, h) /\ Grows(g, h) /\ h.truncated \in BOOLEAN
                         /\ h.entities \subseteq g.entities \cup NamedBy(steps, m)
                         /\ ~h.truncated /\ Placed(g.entities, steps) => \A k \in 1 .. m : Told(steps[k], h)
           T == {m \in Nat : m <= n => Good(f[m], m)}
<1>1. n \in Nat /\ DOMAIN steps = 1 .. n
  BY DEF StepsOK
<1>2. \A k \in 1 .. n : StepOK(w, steps[k])
  BY <1>1 DEF StepsOK, ToSet
<1>3. Perform(g, steps) = f[n]
  BY DEF Perform, After
<1> HIDE DEF n
<1>4. After(f, g, steps, n)
  BY <1>1, AfterExists
<1> HIDE DEF f
<1>5. f[0] = g /\ \A k \in 1 .. n : f[k] = Apply(f[k - 1], steps[k])
  <2>1. f = [k \in 0 .. n |-> IF k = 0 THEN g ELSE Apply(f[k - 1], steps[k])]
    BY <1>4 DEF After
  <2>2. 0 \in 0 .. n /\ \A k \in 1 .. n : k \in 0 .. n /\ k # 0
    BY <1>1
  <2> QED
    BY <2>1, <2>2
<1>6. 0 \in T
  <2>1. Grows(g, g)
    <3>1. \A e \in g.edges : SameEdge(e, e) /\ e.confidence <= e.confidence
      BY DEF GraphOK, EdgeOK, SameEdge
    <3> QED
      BY <3>1 DEF Grows
  <2> QED
    BY <1>5, <2>1
<1>7. ASSUME NEW m \in Nat, m \in T PROVE m + 1 \in T
  <2> SUFFICES ASSUME m + 1 <= n PROVE Good(f[m + 1], m + 1)
    OBVIOUS
  <2>1. m + 1 \in 1 .. n /\ (m + 1) - 1 = m
    BY <1>1
  <2> DEFINE before == f[m]
             step == steps[m + 1]
             h == Apply(before, step)
  <2>2. Good(before, m)
    BY <1>1, <1>7
  <2>3. f[m + 1] = h /\ StepOK(w, step)
    BY <1>2, <1>5, <2>1
  <2> HIDE DEF before, step
  <2>4. /\ GraphOK(w, h) /\ Grows(before, h) /\ h.truncated \in BOOLEAN
        /\ ~h.truncated /\ Joined(step, before) => Told(step, h)
        /\ h.entities \subseteq before.entities \cup (IF step.edge = <<>> THEN {step.entity} ELSE {})
    BY <2>2, <2>3, ApplyKeeps
  <2> HIDE DEF h
  <2>7. h.entities \subseteq g.entities \cup NamedBy(steps, m + 1)
    <3>1. NamedBy(steps, m) \subseteq NamedBy(steps, m + 1)
      <4>1. 1 .. m \subseteq 1 .. m + 1
        OBVIOUS
      <4> QED
        BY <4>1 DEF NamedBy
    <3>2. step.edge = <<>> => step.entity \in NamedBy(steps, m + 1)
      <4>1. m + 1 \in 1 .. m + 1
        OBVIOUS
      <4> QED
        BY <4>1 DEF NamedBy, step
    <3> QED
      BY <2>2, <2>4, <3>1, <3>2
  <2>5. Grows(g, h)
    BY <2>2, <2>4, GraphGrows
  <2>6. ASSUME ~h.truncated, Placed(g.entities, steps), NEW k \in 1 .. m + 1 PROVE Told(steps[k], h)
    <3>1. ~before.truncated
      BY <2>4, <2>6 DEF Grows
    <3>2. \A j \in 1 .. m : Told(steps[j], before)
      BY <2>2, <2>6, <3>1
    <3>3. CASE k \in 1 .. m
      <4>1. k \in 1 .. n
        BY <1>1, <2>1, <3>3
      <4>2. StepOK(w, steps[k]) /\ Told(steps[k], before)
        BY <1>2, <3>2, <3>3, <4>1
      <4> QED
        BY <2>2, <2>4, <4>2, ToldStays
    <3>4. CASE k = m + 1
      <4>1. NamedBy(steps, m) \subseteq before.entities
        BY <3>2 DEF NamedBy, Told
      <4>2. step.edge # <<>> => {step.edge[1].from, step.edge[1].to} \subseteq g.entities \cup NamedBy(steps, m)
        BY <1>1, <2>1, <2>6 DEF Placed, step
      <4>3. Joined(step, before)
        BY <2>2, <4>1, <4>2 DEF Joined, Grows
      <4>4. Told(step, h)
        BY <2>4, <2>6, <4>3
      <4> QED
        BY <3>4, <4>4 DEF step
    <3> QED
      BY <3>3, <3>4
  <2> QED
    BY <2>3, <2>4, <2>5, <2>6, <2>7
<1> HIDE DEF T
<1>8. Nat \subseteq T
  BY <1>6, <1>7, SetInduction
<1>9. n \in T /\ n <= n
  BY <1>1, <1>8
<1>10. Good(f[n], n)
  BY <1>9 DEF T
<1> QED
  BY <1>1, <1>3, <1>10

-----------------------------------------------------------------------------
(* Steps put together.                                                       *)

LEMMA PlacedTogether ==
  ASSUME NEW known, NEW R, NEW a \in Seq(R), NEW b \in Seq(R),
         Placed(known, a), Placed(known \cup NamedBy(a, Len(a)), b)
  PROVE  Placed(known, a \o b)
<1> DEFINE c == a \o b
           n == Len(a)
<1>1. n \in Nat /\ Len(b) \in Nat /\ DOMAIN a = 1 .. n /\ DOMAIN b = 1 .. Len(b) /\ DOMAIN c = 1 .. (n + Len(b))
  OBVIOUS
<1>2. /\ \A k \in 1 .. n : c[k] = a[k]
      /\ \A k \in 1 .. Len(b) : c[n + k] = b[k]
  OBVIOUS
<1> HIDE DEF c, n
<1>3. ASSUME NEW m \in 0 .. n PROVE NamedBy(c, m) = NamedBy(a, m)
  <2>1. \A j \in 1 .. m : j \in 1 .. n
    BY <1>1
  <2> QED
    BY <1>2, <2>1 DEF NamedBy
<1>4. ASSUME NEW m \in 0 .. Len(b) PROVE NamedBy(a, n) \cup NamedBy(b, m) \subseteq NamedBy(c, n + m)
  <2>1. \A j \in 1 .. n : j \in 1 .. (n + m) /\ c[j] = a[j]
    BY <1>1, <1>2
  <2>2. \A j \in 1 .. m : n + j \in 1 .. (n + m) /\ c[n + j] = b[j]
    BY <1>1, <1>2
  <2>3. NamedBy(a, n) \subseteq NamedBy(c, n + m)
    BY <2>1 DEF NamedBy
  <2>4. NamedBy(b, m) \subseteq NamedBy(c, n + m)
    BY <2>2 DEF NamedBy
  <2> QED
    BY <2>3, <2>4
<1>5. ASSUME NEW k \in DOMAIN c, c[k].edge # <<>>
      PROVE  {c[k].edge[1].from, c[k].edge[1].to} \subseteq known \cup NamedBy(c, k - 1)
  <2>1. CASE k \in 1 .. n
    <3>1. c[k] = a[k] /\ k - 1 \in 0 .. n /\ k \in DOMAIN a
      BY <1>1, <1>2, <2>1
    <3>2. NamedBy(c, k - 1) = NamedBy(a, k - 1)
      BY <1>3, <3>1
    <3> QED
      BY <1>5, <3>1, <3>2 DEF Placed
  <2>2. CASE k \notin 1 .. n
    <3>1. PICK j \in 1 .. Len(b) : k = n + j
      <4>1. k - n \in 1 .. Len(b) /\ k = n + (k - n)
        BY <1>1, <2>2
      <4> QED
        BY <4>1
    <3>2. c[k] = b[j] /\ j - 1 \in 0 .. Len(b) /\ k - 1 = n + (j - 1) /\ j \in DOMAIN b
      BY <1>1, <1>2, <3>1
    <3>3. NamedBy(a, n) \cup NamedBy(b, j - 1) \subseteq NamedBy(c, n + (j - 1))
      BY <1>4, <3>2
    <3>4. {b[j].edge[1].from, b[j].edge[1].to} \subseteq (known \cup NamedBy(a, n)) \cup NamedBy(b, j - 1)
      BY <1>5, <3>2 DEF Placed, n
    <3> QED
      BY <3>2, <3>3, <3>4
  <2> QED
    BY <2>1, <2>2
<1> QED
  BY <1>5 DEF Placed, c

LEMMA PlacedMore ==
  ASSUME NEW known, NEW more, known \subseteq more, NEW s, Placed(known, s)
  PROVE  Placed(more, s)
BY DEF Placed

LEMMA NoSteps ==
  ASSUME NEW w, NEW known
  PROVE  StepsOK(w, <<>>) /\ Placed(known, <<>>)
<1>1. ToSet(<<>>) = {} /\ <<>> \in Seq({})
  BY DEF ToSet
<1> QED
  BY <1>1 DEF StepsOK, Placed

LEMMA StepsTogether ==
  ASSUME NEW w, NEW a, NEW b, StepsOK(w, a), StepsOK(w, b)
  PROVE  StepsOK(w, a \o b)
<1> DEFINE A == ToSet(a)
           B == ToSet(b)
           R == A \cup B
<1>1. a \in Seq(A) /\ b \in Seq(B) /\ \A step \in R : StepOK(w, step)
  BY DEF StepsOK
<1> HIDE DEF A, B
<1>2. a \o b \in Seq(R)
  <2>1. a \in Seq(R) /\ b \in Seq(R)
    BY <1>1
  <2> HIDE DEF R
  <2> QED
    BY <2>1
<1> HIDE DEF R
<1>3. a \o b \in Seq(ToSet(a \o b)) /\ ToSet(a \o b) \subseteq R
  BY <1>2, SeqElements
<1> QED
  BY <1>1, <1>3 DEF StepsOK

LEMMA StepsIn ==
  ASSUME NEW w, NEW R, \A step \in R : StepOK(w, step), NEW s \in Seq(R)
  PROVE  StepsOK(w, s)
<1>1. s \in Seq(ToSet(s)) /\ ToSet(s) \subseteq R
  BY SeqElements
<1> QED
  BY <1>1 DEF StepsOK

LEMMA StepsFlat ==
  ASSUME NEW w, NEW s, NEW n \in Nat, DOMAIN s = 1 .. n, s = [k \in 1 .. n |-> s[k]],
         \A k \in 1 .. n : StepsOK(w, s[k])
  PROVE  StepsOK(w, FlattenSeq(s))
<1> DEFINE R == UNION {ToSet(s[k]) : k \in 1 .. n}
<1>1. \A k \in 1 .. n : s[k] \in Seq(ToSet(s[k]))
  BY DEF StepsOK
<1>2. FlattenSeq(s) \in Seq(R)
  BY <1>1, FlatElements
<1>3. \A step \in R : StepOK(w, step)
  BY DEF StepsOK
<1> HIDE DEF R
<1> QED
  BY <1>2, <1>3, StepsIn

LEMMA PlacedFlat ==
  ASSUME NEW w, NEW known, NEW s, NEW n \in Nat, DOMAIN s = 1 .. n, s = [k \in 1 .. n |-> s[k]],
         \A k \in 1 .. n : StepsOK(w, s[k]) /\ Placed(known, s[k])
  PROVE  Placed(known, FlattenSeq(s))
<1> DEFINE R == UNION {ToSet(s[k]) : k \in 1 .. n}
           P == {t \in Seq(R) : Placed(known, t)}
<1>1. \A k \in 1 .. n : s[k] \in Seq(R)
  <2> SUFFICES ASSUME NEW k \in 1 .. n PROVE s[k] \in Seq(R)
    OBVIOUS
  <2> DEFINE U == ToSet(s[k])
  <2>1. s[k] \in Seq(U) /\ U \subseteq R
    BY DEF StepsOK
  <2> HIDE DEF U, R
  <2> QED
    BY <2>1
<1> HIDE DEF R
<1>2. s \in Seq(Seq(R))
  BY <1>1
<1>3. <<>> \in P
  BY NoSteps
<1>4. ASSUME NEW a \in P, NEW i \in DOMAIN s PROVE a \o s[i] \in P
  <2>1. a \in Seq(R) /\ s[i] \in Seq(R) /\ Placed(known, a) /\ Placed(known, s[i])
    BY <1>1
  <2>2. Placed(known \cup NamedBy(a, Len(a)), s[i])
    BY <2>1, PlacedMore
  <2>3. Placed(known, a \o s[i])
    BY <2>1, <2>2, PlacedTogether
  <2> QED
    BY <2>1, <2>3
<1>5. P \subseteq Seq(R)
  OBVIOUS
<1> HIDE DEF P
<1>6. FlattenSeq(s) \in P
  BY <1>2, <1>3, <1>4, <1>5, FlatIsIn
<1> QED
  BY <1>6 DEF P

-----------------------------------------------------------------------------
(* What single steps say.                                                    *)

LEMMA EntityIs ==
  ASSUME NEW w, NEW id, EntityOK(id)
  PROVE  StepOK(w, Entity(id)) /\ Entity(id).edge = <<>> /\ Entity(id).entity = id
BY DEF Entity, StepOK

\* A step that puts in an edge between two entities.
EdgeStep(w, step, from, to) ==
  /\ StepOK(w, step) /\ step.edge # <<>>
  /\ step.edge[1].from = from /\ step.edge[1].to = to

LEMMA ToldEdgeIs ==
  ASSUME NEW w, NEW from, NEW to, NEW relation, NEW confidence \in 0 .. 95,
         EdgeTold(w, [from |-> from, to |-> to, relation |-> relation, confidence |-> confidence, scope |-> "none"])
  PROVE  EdgeStep(w, Edge(from, to, relation, confidence), from, to)
<1> DEFINE e == [from |-> from, to |-> to, relation |-> relation, confidence |-> confidence, scope |-> "none"]
           step == Edge(from, to, relation, confidence)
<1>1. step.edge = <<e>>
  BY DEF Edge
<1>2. EdgeOK(w, e)
  BY DEF EdgeOK, EdgeShape
<1>3. e.from = from /\ e.to = to
  OBVIOUS
<1> HIDE DEF e, step
<1>4. StepOK(w, step)
  BY <1>1, <1>2 DEF StepOK
<1>5. step.edge # <<>> /\ step.edge[1] = e
  BY <1>1
<1>6. EdgeStep(w, step, from, to)
  BY <1>3, <1>4, <1>5 DEF EdgeStep
<1> QED
  BY <1>6 DEF step

LEMMA EdgeIs ==
  ASSUME NEW w, NEW from, NEW to, NEW relation, NEW confidence \in 0 .. 95,
         relation # "has_san", relation # "resolves_to", relation # "resolves_to_endpoint"
  PROVE  EdgeStep(w, Edge(from, to, relation, confidence), from, to)
<1>1. EdgeTold(w, [from |-> from, to |-> to, relation |-> relation, confidence |-> confidence, scope |-> "none"])
  BY DEF EdgeTold
<1> QED
  BY <1>1, ToldEdgeIs

LEMMA SanIs ==
  ASSUME NEW w, NEW cert, NEW name
  PROVE  EdgeStep(w, Scoped(Edge(cert, Name(name), "has_san", 95), IF name \in w.scope THEN "in" ELSE "outside"),
                  cert, Name(name))
<1> DEFINE scope == IF name \in w.scope THEN "in" ELSE "outside"
           e == [from |-> cert, to |-> Name(name), relation |-> "has_san", confidence |-> 95, scope |-> scope]
           step == Scoped(Edge(cert, Name(name), "has_san", 95), scope)
<1>1. step.edge = <<e>>
  <2> HIDE DEF scope
  <2> QED
    BY DEF Edge, Scoped
<1>2. EdgeOK(w, e)
  <2>1. e.to[2] = name
    BY DEF Name
  <2> QED
    BY <2>1 DEF EdgeOK, EdgeShape, EdgeTold
<1>3. e.from = cert /\ e.to = Name(name)
  OBVIOUS
<1> HIDE DEF e, step
<1>4. StepOK(w, step)
  BY <1>1, <1>2 DEF StepOK
<1>5. step.edge # <<>> /\ step.edge[1] = e
  BY <1>1
<1>6. EdgeStep(w, step, cert, Name(name))
  BY <1>3, <1>4, <1>5 DEF EdgeStep
<1> QED
  BY <1>6 DEF step

\* Steps that name one or two entities and join them or what is known.
LEMMA OneIs ==
  ASSUME NEW w, NEW known, NEW id, EntityOK(id)
  PROVE  StepsOK(w, <<Entity(id)>>) /\ Placed(known, <<Entity(id)>>)
<1> DEFINE x == Entity(id)
           s == <<x>>
<1>1. StepOK(w, x) /\ x.edge = <<>>
  BY EntityIs
<1> HIDE DEF x
<1>2. s \in Seq({x})
  OBVIOUS
<1>3. StepsOK(w, s)
  <2> DEFINE R == {x}
  <2>1. s \in Seq(R) /\ \A step \in R : StepOK(w, step)
    BY <1>1, <1>2
  <2> HIDE DEF R, s
  <2> QED
    BY <2>1, StepsIn
<1>4. Placed(known, s)
  BY <1>1 DEF Placed
<1> QED
  BY <1>3, <1>4 DEF x

LEMMA TwoAre ==
  ASSUME NEW w, NEW known, NEW id, EntityOK(id), NEW step, NEW from, NEW to, EdgeStep(w, step, from, to),
         {from, to} \subseteq known \cup {id}
  PROVE  StepsOK(w, <<Entity(id), step>>) /\ Placed(known, <<Entity(id), step>>)
<1> DEFINE x == Entity(id)
           s == <<x, step>>
<1>0. /\ StepOK(w, step) /\ step.edge # <<>>
      /\ step.edge[1].from = from /\ step.edge[1].to = to
  BY DEF EdgeStep
<1>1. StepOK(w, x) /\ x.edge = <<>> /\ x.entity = id
  BY EntityIs
<1> HIDE DEF x
<1>2. StepsOK(w, s)
  <2> DEFINE R == {x, step}
  <2>1. s \in Seq(R) /\ \A t \in R : StepOK(w, t)
    BY <1>0, <1>1
  <2> HIDE DEF R, s
  <2> QED
    BY <2>1, StepsIn
<1>3. Placed(known, s)
  <2>1. DOMAIN s = {1, 2} /\ s[1] = x /\ s[2] = step
    OBVIOUS
  <2> HIDE DEF s
  <2>2. id \in NamedBy(s, 1)
    <3>1. 1 \in 1 .. 1 /\ s[1].edge = <<>> /\ s[1].entity = id
      BY <1>1, <2>1
    <3> QED
      BY <3>1 DEF NamedBy
  <2>3. ASSUME NEW k \in DOMAIN s, s[k].edge # <<>>
        PROVE  {s[k].edge[1].from, s[k].edge[1].to} \subseteq known \cup NamedBy(s, k - 1)
    <3>1. k = 2 /\ k - 1 = 1
      BY <1>1, <2>1, <2>3
    <3> QED
      BY <1>0, <2>1, <2>2, <3>1
  <2> QED
    BY <2>3 DEF Placed
<1> QED
  BY <1>2, <1>3 DEF x

LEMMA ThreeAre ==
  ASSUME NEW w, NEW known, NEW id, EntityOK(id), NEW other, EntityOK(other), NEW step, NEW from, NEW to, EdgeStep(w, step, from, to),
         {from, to} \subseteq {id, other}
  PROVE  LET s == <<Entity(id), Entity(other), step>>
         IN  StepsOK(w, s) /\ Placed(known, s) /\ Len(s) = 3 /\ {id, other} \subseteq NamedBy(s, Len(s))
<1> DEFINE x == Entity(id)
           y == Entity(other)
           s == <<x, y, step>>
<1>0. /\ StepOK(w, step) /\ step.edge # <<>>
      /\ step.edge[1].from = from /\ step.edge[1].to = to
  BY DEF EdgeStep
<1>1. StepOK(w, x) /\ x.edge = <<>> /\ x.entity = id
  BY EntityIs
<1>2. StepOK(w, y) /\ y.edge = <<>> /\ y.entity = other
  BY EntityIs
<1> HIDE DEF x, y
<1>3. StepsOK(w, s)
  <2> DEFINE R == {x, y, step}
  <2>1. s \in Seq(R) /\ \A t \in R : StepOK(w, t)
    BY <1>0, <1>1, <1>2
  <2> HIDE DEF R, s
  <2> QED
    BY <2>1, StepsIn
<1>4. DOMAIN s = {1, 2, 3} /\ Len(s) = 3 /\ s[1] = x /\ s[2] = y /\ s[3] = step
  OBVIOUS
<1> HIDE DEF s
<1>5. ASSUME NEW m \in {2, 3} PROVE {id, other} \subseteq NamedBy(s, m)
  <2>1. 1 \in 1 .. m /\ s[1].edge = <<>> /\ s[1].entity = id
    BY <1>1, <1>4
  <2>2. 2 \in 1 .. m /\ s[2].edge = <<>> /\ s[2].entity = other
    BY <1>2, <1>4
  <2> QED
    BY <2>1, <2>2 DEF NamedBy
<1>6. ASSUME NEW k \in DOMAIN s, s[k].edge # <<>>
      PROVE  {s[k].edge[1].from, s[k].edge[1].to} \subseteq known \cup NamedBy(s, k - 1)
  <2>1. k = 3 /\ k - 1 = 2
    BY <1>1, <1>2, <1>4, <1>6
  <2> QED
    BY <1>0, <1>4, <1>5, <2>1
<1>7. Placed(known, s)
  BY <1>6 DEF Placed
<1>8. {id, other} \subseteq NamedBy(s, Len(s))
  BY <1>4, <1>5
<1> QED
  BY <1>3, <1>4, <1>7, <1>8 DEF x, y, s

LEMMA StepsJoin ==
  ASSUME NEW w, NEW known, NEW named, NEW a, NEW b, StepsOK(w, a), StepsOK(w, b),
         Placed(known, a), named \subseteq NamedBy(a, Len(a)), Placed(known \cup named, b)
  PROVE  /\ StepsOK(w, a \o b) /\ Placed(known, a \o b)
         /\ named \subseteq NamedBy(a \o b, Len(a \o b))
<1>1. StepsOK(w, a \o b)
  BY StepsTogether
<1> DEFINE R == ToSet(a) \cup ToSet(b)
<1>2. a \in Seq(R) /\ b \in Seq(R)
  <2> DEFINE A == ToSet(a)
             B == ToSet(b)
  <2>1. a \in Seq(A) /\ b \in Seq(B) /\ A \subseteq R /\ B \subseteq R
    BY DEF StepsOK
  <2> HIDE DEF A, B, R
  <2> QED
    BY <2>1
<1> HIDE DEF R
<1>3. Placed(known \cup NamedBy(a, Len(a)), b)
  <2>1. known \cup named \subseteq known \cup NamedBy(a, Len(a))
    OBVIOUS
  <2> QED
    BY <2>1, PlacedMore
<1>4. Placed(known, a \o b)
  BY <1>2, <1>3, PlacedTogether
<1>5. NamedBy(a, Len(a)) \subseteq NamedBy(a \o b, Len(a \o b))
  <2>1. \A j \in 1 .. Len(a) : j \in 1 .. Len(a \o b) /\ (a \o b)[j] = a[j]
    BY <1>2
  <2> QED
    BY <2>1 DEF NamedBy
<1> QED
  BY <1>1, <1>4, <1>5

-----------------------------------------------------------------------------
(* What each event says.                                                     *)

EventOK(w, steps) == StepsOK(w, steps) /\ Placed({}, steps)

LEMMA EntitiesAre ==
  /\ \A x : EntityOK(Ip(x)) /\ EntityOK(Name(x)) /\ EntityOK(<<"key", x>>) /\ EntityOK(<<"cert", x>>)
  /\ \A x : EntityOK(<<"dns", x>>) /\ EntityOK(<<"tech", x>>) /\ EntityOK(<<"fp", x>>)
  /\ \A x, y : EntityOK(Endpoint(x, y)) /\ EntityOK(<<"os", x, y>>)
  /\ \A x, y : x # "none" => EntityOK(Port(x, y))
  /\ \A x, y, z : EntityOK(Service(x, y, z))
BY DEF EntityOK, KindOfEntity, Ip, Name, Endpoint, Port, Service

LEMMA PortEvent ==
  ASSUME NEW w, NEW e, e.at # "none"
  PROVE  EventOK(w, PortSteps(e))
<1> DEFINE a == Ip(e.at)
           b == Port(e.at, e.port)
           step == Edge(a, b, "listens_on", 90)
<1>1. PortSteps(e) = <<Entity(a), Entity(b), step>>
  BY DEF PortSteps
<1>3. EntityOK(a) /\ EntityOK(b)
  BY EntitiesAre
<1> HIDE DEF a, b
<1>2. EdgeStep(w, step, a, b)
  BY EdgeIs
<1> HIDE DEF step
<1>4. StepsOK(w, <<Entity(a), Entity(b), step>>) /\ Placed({}, <<Entity(a), Entity(b), step>>)
  BY <1>2, <1>3, ThreeAre
<1> QED
  BY <1>1, <1>4 DEF EventOK

LEMMA SshEvent ==
  ASSUME NEW w, NEW e, e.at # "none"
  PROVE  EventOK(w, SshSteps(e))
<1> DEFINE a == <<"key", e.key>>
           b == Port(e.at, e.port)
           step == Edge(b, a, "presents_ssh_host_key", 90)
<1>1. SshSteps(e) = <<Entity(a), Entity(b), step>>
  BY DEF SshSteps
<1>3. EntityOK(a) /\ EntityOK(b)
  BY EntitiesAre
<1> HIDE DEF a, b
<1>2. EdgeStep(w, step, b, a)
  BY EdgeIs
<1> HIDE DEF step
<1>4. StepsOK(w, <<Entity(a), Entity(b), step>>) /\ Placed({}, <<Entity(a), Entity(b), step>>)
  BY <1>2, <1>3, ThreeAre
<1> QED
  BY <1>1, <1>4 DEF EventOK

LEMMA DnsEvent ==
  ASSUME NEW w, NEW e \in w.events, e.kind = "dns"
  PROVE  EventOK(w, DnsSteps(e))
<1>1. CASE e.address # "none"
  <2> DEFINE a == Name(e.name)
             b == Ip(e.address)
             step == Edge(a, b, "resolves_to", 85)
  <2>1. DnsSteps(e) = <<Entity(a), Entity(b), step>>
    BY <1>1 DEF DnsSteps
  <2>2. a[2] = e.name /\ b[2] = e.address /\ EntityOK(a) /\ EntityOK(b)
    <3>1. a[2] = e.name /\ b[2] = e.address
      BY DEF Name, Ip
    <3> QED
      BY <3>1, EntitiesAre
  <2> HIDE DEF a, b
  <2>3. EdgeTold(w, [from |-> a, to |-> b, relation |-> "resolves_to", confidence |-> 85, scope |-> "none"])
    BY <2>2 DEF EdgeTold
  <2>4. EdgeStep(w, step, a, b)
    <3>1. 85 \in 0 .. 95
      OBVIOUS
    <3> QED
      BY <2>3, <3>1, ToldEdgeIs
  <2> HIDE DEF step
  <2>5. StepsOK(w, <<Entity(a), Entity(b), step>>) /\ Placed({}, <<Entity(a), Entity(b), step>>)
    BY <2>2, <2>4, ThreeAre
  <2> QED
    BY <2>1, <2>5 DEF EventOK
<1>2. CASE e.address = "none"
  <2> DEFINE a == Name(e.name)
             b == <<"dns", e.name>>
             step == Edge(a, b, "references", 80)
  <2>1. DnsSteps(e) = <<Entity(a), Entity(b), step>>
    BY <1>2 DEF DnsSteps
  <2>4. EntityOK(a) /\ EntityOK(b)
    BY EntitiesAre
  <2> HIDE DEF a, b
  <2>2. EdgeStep(w, step, a, b)
    <3>1. 80 \in 0 .. 95 /\ "references" # "has_san" /\ "references" # "resolves_to" /\ "references" # "resolves_to_endpoint"
      OBVIOUS
    <3> QED
      BY <3>1, EdgeIs
  <2> HIDE DEF step
  <2>3. StepsOK(w, <<Entity(a), Entity(b), step>>) /\ Placed({}, <<Entity(a), Entity(b), step>>)
    BY <2>2, <2>4, ThreeAre
  <2> QED
    BY <2>1, <2>3 DEF EventOK
<1> QED
  BY <1>1, <1>2

LEMMA EndpointEvent ==
  ASSUME NEW w, NEW e, e.relation \in {"none", "discovered_from", "redirects_to"}
  PROVE  EventOK(w, EndpointSteps(e))
<1> DEFINE a == Endpoint(e.host, e.port)
           b == Endpoint(e.other[1], e.other[2])
           step == Edge(a, b, e.relation, 90)
<1>1. CASE e.other = <<>>
  <2>1. EndpointSteps(e) = <<Entity(a)>>
    BY <1>1 DEF EndpointSteps
  <2>2. EntityOK(a)
    BY EntitiesAre
  <2> QED
    BY <2>1, <2>2, OneIs DEF EventOK
<1>2. CASE e.other # <<>>
  <2>1. EndpointSteps(e) = <<Entity(a), Entity(b), step>>
    BY <1>2 DEF EndpointSteps
  <2>4. EntityOK(a) /\ EntityOK(b)
    BY EntitiesAre
  <2> HIDE DEF a, b
  <2>2. EdgeStep(w, step, a, b)
    <3> DEFINE r == e.relation
    <3>1. r # "has_san" /\ r # "resolves_to" /\ r # "resolves_to_endpoint" /\ 90 \in 0 .. 95
      OBVIOUS
    <3> HIDE DEF r
    <3> DEFINE x == Edge(a, b, r, 90)
    <3>2. EdgeStep(w, x, a, b)
      BY <3>1, EdgeIs
    <3> QED
      BY <3>2 DEF r
  <2> HIDE DEF step
  <2>3. StepsOK(w, <<Entity(a), Entity(b), step>>) /\ Placed({}, <<Entity(a), Entity(b), step>>)
    BY <2>2, <2>4, ThreeAre
  <2> QED
    BY <2>1, <2>3 DEF EventOK
<1> QED
  BY <1>1, <1>2

LEMMA ServiceEvent ==
  ASSUME NEW w, NEW e, e.at # "none", e.confidence \in 0 .. 95
  PROVE  EventOK(w, ServiceSteps(e))
<1> DEFINE port == Port(e.at, e.port)
           service == Service(e.at, e.port, e.label)
           tech == <<"tech", e.product>>
           rule == <<"fp", e.rule>>
           c == e.confidence
           lower == Min({c, 90})
           runs == Edge(port, service, "runs_service", c)
           suggests == Edge(service, tech, "suggests", lower)
           identified == Edge(service, rule, "identified_by", c)
           first == <<Entity(port), Entity(service), runs>>
           product == IF e.product = "none" THEN <<>> ELSE <<Entity(tech), suggests>>
           last == <<Entity(rule), identified>>
<1>1. ServiceSteps(e) = (first \o product) \o last
  BY DEF ServiceSteps
<1>2. c \in 0 .. 95 /\ lower \in 0 .. 95
  <2>1. c \in 0 .. 95
    OBVIOUS
  <2> HIDE DEF c
  <2>2. lower \in {c, 90}
    BY <2>1 DEF Min
  <2> QED
    BY <2>1, <2>2
<1>11. EntityOK(port) /\ EntityOK(service) /\ EntityOK(tech) /\ EntityOK(rule)
  BY EntitiesAre
<1> HIDE DEF port, service, tech, rule, c, lower
<1>3. EdgeStep(w, runs, port, service)
  <2>1. "runs_service" # "has_san" /\ "runs_service" # "resolves_to" /\ "runs_service" # "resolves_to_endpoint"
    OBVIOUS
  <2> QED
    BY <1>2, <2>1, EdgeIs
<1>4. EdgeStep(w, suggests, service, tech)
  <2>1. "suggests" # "has_san" /\ "suggests" # "resolves_to" /\ "suggests" # "resolves_to_endpoint"
    OBVIOUS
  <2> QED
    BY <1>2, <2>1, EdgeIs
<1>5. EdgeStep(w, identified, service, rule)
  <2>1. "identified_by" # "has_san" /\ "identified_by" # "resolves_to" /\ "identified_by" # "resolves_to_endpoint"
    OBVIOUS
  <2> QED
    BY <1>2, <2>1, EdgeIs
<1> HIDE DEF runs, suggests, identified
<1>6. StepsOK(w, first) /\ Placed({}, first) /\ {port, service} \subseteq NamedBy(first, Len(first))
  BY <1>3, <1>11, ThreeAre
<1>7. StepsOK(w, product) /\ Placed({} \cup {port, service}, product)
  <2>1. CASE e.product = "none"
    BY <2>1, NoSteps
  <2>2. CASE e.product # "none"
    <3>1. StepsOK(w, <<Entity(tech), suggests>>) /\ Placed({} \cup {port, service}, <<Entity(tech), suggests>>)
      BY <1>4, <1>11, TwoAre
    <3> QED
      BY <2>2, <3>1
  <2> QED
    BY <2>1, <2>2
<1>8. StepsOK(w, last) /\ Placed({} \cup {port, service}, last)
  BY <1>5, <1>11, TwoAre
<1> HIDE DEF first, product, last
<1>9. /\ StepsOK(w, first \o product) /\ Placed({}, first \o product)
      /\ {port, service} \subseteq NamedBy(first \o product, Len(first \o product))
  BY <1>6, <1>7, StepsJoin
<1>10. StepsOK(w, (first \o product) \o last) /\ Placed({}, (first \o product) \o last)
  BY <1>8, <1>9, StepsJoin
<1> QED
  BY <1>1, <1>10 DEF EventOK

LEMMA TlsEvent ==
  ASSUME NEW w, NEW e, e.at # "none", e.sans \in Seq(ToSet(e.sans))
  PROVE  EventOK(w, TlsSteps(e, w.scope))
<1> DEFINE cert == <<"cert", e.cert>>
           port == Port(e.at, e.port)
           step == Edge(port, cert, "presents_certificate", 90)
           first == <<Entity(cert), Entity(port), step>>
           sans == e.sans
           San(name) == Scoped(Edge(cert, Name(name), "has_san", 95), IF name \in w.scope THEN "in" ELSE "outside")
           said == [k \in DOMAIN sans |-> <<Entity(Name(sans[k])), San(sans[k])>>]
<1>1. TlsSteps(e, w.scope) = first \o FlattenSeq(said)
  BY DEF TlsSteps, SanSteps
<1>2. PICK n \in Nat : DOMAIN sans = 1 .. n
  <2> HIDE DEF ToSet
  <2> QED
    OBVIOUS
<1>11. EntityOK(port) /\ EntityOK(cert)
  BY EntitiesAre
<1> HIDE DEF cert, port, sans
<1>3. EdgeStep(w, step, port, cert)
  BY EdgeIs
<1> HIDE DEF step
<1>4. StepsOK(w, first) /\ Placed({}, first) /\ {cert, port} \subseteq NamedBy(first, Len(first))
  BY <1>3, <1>11, ThreeAre
<1>5. ASSUME NEW name
      PROVE  LET s == <<Entity(Name(name)), San(name)>>
             IN  StepsOK(w, s) /\ Placed({} \cup {cert, port}, s)
  <2> DEFINE x == San(name)
  <2>1. EdgeStep(w, x, cert, Name(name))
    BY SanIs
  <2> HIDE DEF x
  <2>2. StepsOK(w, <<Entity(Name(name)), x>>) /\ Placed({} \cup {cert, port}, <<Entity(Name(name)), x>>)
    <3>1. EntityOK(Name(name))
      BY EntitiesAre
    <3> QED
      BY <2>1, <3>1, TwoAre
  <2> QED
    BY <2>2 DEF x
<1> HIDE DEF San
<1>6. DOMAIN said = 1 .. n /\ said = [k \in 1 .. n |-> said[k]]
  BY <1>2
<1>7. \A k \in 1 .. n : StepsOK(w, said[k]) /\ Placed({} \cup {cert, port}, said[k])
  BY <1>2, <1>5
<1> HIDE DEF said, first
<1>8. StepsOK(w, FlattenSeq(said))
  BY <1>6, <1>7, StepsFlat
<1>9. Placed({} \cup {cert, port}, FlattenSeq(said))
  BY <1>6, <1>7, PlacedFlat
<1>10. StepsOK(w, first \o FlattenSeq(said)) /\ Placed({}, first \o FlattenSeq(said))
  BY <1>4, <1>8, <1>9, StepsJoin
<1> QED
  BY <1>1, <1>10 DEF EventOK

LEMMA EventIsOK ==
  ASSUME gworld \in GraphWorlds, NEW event \in gworld.events
  PROVE  EventOK(gworld, StepsOf(event))
<1>1. ObservedEvent(event)
  BY GraphAssumption
<1>2. CASE event.kind = "port"
  <2>1. StepsOf(event) = PortSteps(event) /\ event.at # "none"
    BY <1>1, <1>2 DEF StepsOf, ObservedEvent
  <2> QED
    BY <2>1, PortEvent
<1>3. CASE event.kind = "service"
  <2>1. StepsOf(event) = ServiceSteps(event) /\ event.at # "none" /\ event.confidence \in 0 .. 95
    BY <1>1, <1>3 DEF StepsOf, ObservedEvent
  <2> QED
    BY <2>1, ServiceEvent
<1>4. CASE event.kind = "tls"
  <2>1. StepsOf(event) = TlsSteps(event, gworld.scope) /\ event.at # "none" /\ event.sans \in Seq(ToSet(event.sans))
    BY <1>1, <1>4 DEF StepsOf, ObservedEvent
  <2> QED
    BY <2>1, TlsEvent
<1>5. CASE event.kind = "ssh"
  <2>1. StepsOf(event) = SshSteps(event) /\ event.at # "none"
    BY <1>1, <1>5 DEF StepsOf, ObservedEvent
  <2> QED
    BY <2>1, SshEvent
<1>6. CASE event.kind = "dns"
  <2>1. StepsOf(event) = DnsSteps(event)
    BY <1>6 DEF StepsOf
  <2> QED
    BY <1>6, <2>1, DnsEvent
<1>7. CASE event.kind = "endpoint"
  <2>1. StepsOf(event) = EndpointSteps(event) /\ event.relation \in {"none", "discovered_from", "redirects_to"}
    BY <1>1, <1>7 DEF StepsOf, ObservedEvent
  <2> QED
    BY <2>1, EndpointEvent
<1> QED
  BY <1>1, <1>2, <1>3, <1>4, <1>5, <1>6, <1>7 DEF ObservedEvent

-----------------------------------------------------------------------------
(* The passes over the whole graph.                                          *)

LEMMA FlatToSet ==
  ASSUME NEW s, NEW n \in Nat, DOMAIN s = 1 .. n, s = [k \in 1 .. n |-> s[k]],
         \A k \in 1 .. n : s[k] \in Seq(ToSet(s[k]))
  PROVE  /\ FlattenSeq(s) \in Seq(ToSet(FlattenSeq(s)))
         /\ ToSet(FlattenSeq(s)) = UNION {ToSet(s[k]) : k \in 1 .. n}
<1> DEFINE R == UNION {ToSet(s[k]) : k \in 1 .. n}
           flat == FlattenSeq(s)
<1>1. flat \in Seq(R)
  BY FlatElements
<1>2. \A k \in 1 .. n : s[k] \in Seq(R)
  <2> SUFFICES ASSUME NEW k \in 1 .. n PROVE s[k] \in Seq(R)
    OBVIOUS
  <2> DEFINE U == ToSet(s[k])
  <2>1. s[k] \in Seq(U) /\ U \subseteq R
    OBVIOUS
  <2> HIDE DEF U, R
  <2> QED
    BY <2>1
<1>3. s \in Seq(Seq(R))
  <2> HIDE DEF R
  <2> QED
    BY <1>2
<1>4. R \subseteq ToSet(flat)
  <2> SUFFICES ASSUME NEW k \in 1 .. n, NEW x \in ToSet(s[k]) PROVE x \in ToSet(flat)
    OBVIOUS
  <2> HIDE DEF R, flat
  <2>1. x \in ToSet(FlattenSeq(s))
    BY <1>3, FlatHolds
  <2> QED
    BY <2>1 DEF flat
<1> HIDE DEF R, flat
<1>5. flat \in Seq(ToSet(flat)) /\ ToSet(flat) \subseteq R
  BY <1>1, SeqElements
<1> QED
  BY <1>4, <1>5 DEF R, flat

\* Steps that only join what is known.
Joining(w, g, steps) ==
  /\ steps \in Seq(ToSet(steps))
  /\ \A step \in ToSet(steps) : \E from, to \in g.entities : EdgeStep(w, step, from, to)

LEMMA JoiningIs ==
  ASSUME NEW w, NEW g, NEW steps, Joining(w, g, steps)
  PROVE  StepsOK(w, steps) /\ Placed(g.entities, steps) /\ NamedBy(steps, Len(steps)) = {}
<1>1. PICK n \in Nat : n = Len(steps) /\ DOMAIN steps = 1 .. n
  <2> DEFINE R == ToSet(steps)
  <2>1. steps \in Seq(R)
    BY DEF Joining
  <2> HIDE DEF R
  <2> QED
    BY <2>1
<1>2. \A k \in 1 .. n : steps[k] \in ToSet(steps)
  BY <1>1 DEF ToSet
<1>3. \A step \in ToSet(steps) : StepOK(w, step) /\ step.edge # <<>>
  BY DEF Joining, EdgeStep
<1>4. \A k \in 1 .. n : {steps[k].edge[1].from, steps[k].edge[1].to} \subseteq g.entities
  BY <1>2 DEF Joining, EdgeStep
<1>5. StepsOK(w, steps)
  BY <1>3 DEF StepsOK, Joining
<1>6. Placed(g.entities, steps)
  BY <1>1, <1>4 DEF Placed
<1>7. NamedBy(steps, Len(steps)) = {}
  BY <1>1, <1>2, <1>3 DEF NamedBy
<1> QED
  BY <1>5, <1>6, <1>7

LEMMA JoiningFlat ==
  ASSUME NEW w, NEW g, NEW s, NEW n \in Nat, DOMAIN s = 1 .. n, s = [k \in 1 .. n |-> s[k]],
         \A k \in 1 .. n : Joining(w, g, s[k])
  PROVE  Joining(w, g, FlattenSeq(s)) /\ \A k \in 1 .. n : ToSet(s[k]) \subseteq ToSet(FlattenSeq(s))
<1>1. \A k \in 1 .. n : s[k] \in Seq(ToSet(s[k]))
  BY DEF Joining
<1>2. /\ FlattenSeq(s) \in Seq(ToSet(FlattenSeq(s)))
      /\ ToSet(FlattenSeq(s)) = UNION {ToSet(s[k]) : k \in 1 .. n}
  BY <1>1, FlatToSet
<1>3. \A step \in ToSet(FlattenSeq(s)) : \E from, to \in g.entities : EdgeStep(w, step, from, to)
  BY <1>2 DEF Joining
<1>4. \A k \in 1 .. n : ToSet(s[k]) \subseteq ToSet(FlattenSeq(s))
  BY <1>2
<1> QED
  BY <1>2, <1>3, <1>4 DEF Joining

\* The edge that says a page is served by a port.
Serves(url, port) == Edge(url, port, "resolves_to_endpoint", 85)

LEMMA ServingIs ==
  ASSUME NEW w, NEW g, GraphOK(w, g), NEW url \in g.entities, NEW port \in PortsServing(g, url)
  PROVE  port \in g.entities /\ EdgeStep(w, Serves(url, port), url, port)
<1>1. port \in g.entities
  BY DEF PortsServing
<1>2. /\ url[3] = port[3]
      /\ url[2] = port[2] \/ \E d \in w.events : d.kind = "dns" /\ d.name = url[2] /\ d.address = port[2]
  <2>1. CASE port = Port(url[2], url[3])
    BY <2>1 DEF Port
  <2>2. CASE port # Port(url[2], url[3])
    <3>1. PICK ip \in ToOf(g, Name(url[2]), "resolves_to") : port = Port(ip[2], url[3])
      BY <2>2 DEF PortsServing
    <3>2. PICK e \in g.edges : e.from = Name(url[2]) /\ e.relation = "resolves_to" /\ e.to = ip
      BY <3>1 DEF ToOf
    <3>3. \E d \in w.events : d.kind = "dns" /\ d.name = e.from[2] /\ d.address = e.to[2]
      BY <3>2 DEF GraphOK, EdgeOK, EdgeTold
    <3>4. e.from[2] = url[2] /\ e.to[2] = port[2] /\ url[3] = port[3]
      BY <3>1, <3>2 DEF Port, Name
    <3> QED
      BY <3>3, <3>4
  <2> QED
    BY <2>1, <2>2
<1>3. EdgeTold(w, [from |-> url, to |-> port, relation |-> "resolves_to_endpoint", confidence |-> 85, scope |-> "none"])
  BY <1>2 DEF EdgeTold
<1>4. 85 \in 0 .. 95
  OBVIOUS
<1>5. EdgeStep(w, Edge(url, port, "resolves_to_endpoint", 85), url, port)
  BY <1>3, <1>4, ToldEdgeIs
<1> QED
  BY <1>1, <1>5 DEF Serves

LEMMA JoinIs ==
  ASSUME NEW w, NEW g, GraphOK(w, g), NEW url \in g.entities
  PROVE  /\ Joining(w, g, JoinSteps(g, url))
         /\ \A port \in PortsServing(g, url) : Serves(url, port) \in ToSet(JoinSteps(g, url))
<1> DEFINE ports == PortsServing(g, url)
           Served(port) == {Edge(url, s, "served_by", 85) : s \in ServicesOn(g, port)}
           Of(port) == <<Serves(url, port)>> \o SetToSeq(Served(port))
           all == {Of(port) : port \in ports}
           s == SetToSeq(all)
<1>1. JoinSteps(g, url) = FlattenSeq(s)
  BY DEF JoinSteps, Serves
<1>2. \A service \in g.entities : EdgeStep(w, Edge(url, service, "served_by", 85), url, service)
  <2> SUFFICES ASSUME NEW service \in g.entities
               PROVE  EdgeStep(w, Edge(url, service, "served_by", 85), url, service)
    OBVIOUS
  <2>1. 85 \in 0 .. 95 /\ "served_by" # "has_san" /\ "served_by" # "resolves_to" /\ "served_by" # "resolves_to_endpoint"
    OBVIOUS
  <2> QED
    BY <2>1, EdgeIs
<1>3. ASSUME NEW port \in ports
      PROVE  Joining(w, g, Of(port)) /\ Serves(url, port) \in ToSet(Of(port))
  <2> DEFINE x == Serves(url, port)
             S == Served(port)
             R == {x} \cup S
             t == SetToSeq(S)
  <2>1. IsFiniteSet(S)
    <3>1. ServicesOn(g, port) \subseteq g.entities
      BY DEF ServicesOn
    <3>2. IsFiniteSet(ServicesOn(g, port))
      BY <3>1, FS_Subset DEF GraphOK
    <3> DEFINE T == ServicesOn(g, port)
               f == [service \in T |-> Edge(url, service, "served_by", 85)]
    <3> HIDE DEF T
    <3>3. IsFiniteSet(T)
      BY <3>2 DEF T
    <3>4. f \in Surjection(T, {f[service] : service \in T})
      BY DEF Surjection
    <3>5. IsFiniteSet({f[service] : service \in T})
      BY <3>3, <3>4, FS_Surjection
    <3>6. {f[service] : service \in T} = {Edge(url, service, "served_by", 85) : service \in T}
      OBVIOUS
    <3> QED
      BY <3>5, <3>6 DEF T
  <2>2. t \in Seq(S)
    <3> HIDE DEF S
    <3> QED
      BY <2>1, SetInSeq
  <2>3. \A step \in R : \E from, to \in g.entities : EdgeStep(w, step, from, to)
    <3>1. port \in g.entities /\ EdgeStep(w, x, url, port)
      BY ServingIs
    <3>2. \A step \in S : \E service \in g.entities : EdgeStep(w, step, url, service)
      BY <1>2 DEF ServicesOn
    <3> HIDE DEF x, S
    <3> QED
      BY <3>1, <3>2
  <2> HIDE DEF x, S, t
  <2>4. <<x>> \o t \in Seq(R) /\ 1 \in DOMAIN (<<x>> \o t) /\ (<<x>> \o t)[1] = x
    <3>1. <<x>> \in Seq(R) /\ t \in Seq(R)
      BY <2>2
    <3> HIDE DEF R
    <3> QED
      BY <3>1
  <2> HIDE DEF R
  <2>5. <<x>> \o t \in Seq(ToSet(<<x>> \o t)) /\ ToSet(<<x>> \o t) \subseteq R
    BY <2>4, SeqElements
  <2>6. x \in ToSet(<<x>> \o t)
    BY <2>4 DEF ToSet
  <2>7. Joining(w, g, <<x>> \o t)
    BY <2>3, <2>5 DEF Joining
  <2> QED
    BY <2>6, <2>7 DEF x, t, S
<1> HIDE DEF Of
<1>4. IsFiniteSet(all)
  <2>1. ports \subseteq g.entities
    BY DEF PortsServing
  <2>2. IsFiniteSet(ports)
    BY <2>1, FS_Subset DEF GraphOK
  <2> DEFINE f == [port \in ports |-> Of(port)]
  <2> HIDE DEF ports
  <2>3. f \in Surjection(ports, {f[port] : port \in ports})
    BY DEF Surjection
  <2>4. IsFiniteSet({f[port] : port \in ports})
    BY <2>2, <2>3, FS_Surjection
  <2>5. {f[port] : port \in ports} = all
    OBVIOUS
  <2> QED
    BY <2>4, <2>5
<1> HIDE DEF ports
<1>5. \A t \in all : Joining(w, g, t)
  BY <1>3
<1>6. \A port \in ports : Of(port) \in all
  OBVIOUS
<1> HIDE DEF all
<1>7. s \in Seq(all) /\ ToSet(s) = all
  BY <1>4, SetInSeq
<1> HIDE DEF s
<1>8. PICK n \in Nat : DOMAIN s = 1 .. n /\ s = [k \in 1 .. n |-> s[k]] /\ \A k \in 1 .. n : s[k] \in all
  BY <1>7
<1>9. Joining(w, g, FlattenSeq(s)) /\ \A k \in 1 .. n : ToSet(s[k]) \subseteq ToSet(FlattenSeq(s))
  <2>1. \A k \in 1 .. n : Joining(w, g, s[k])
    BY <1>5, <1>8
  <2> QED
    BY <1>8, <2>1, JoiningFlat
<1>10. ASSUME NEW port \in ports PROVE Serves(url, port) \in ToSet(FlattenSeq(s))
  <2>1. PICK k \in 1 .. n : s[k] = Of(port)
    <3>1. Of(port) \in ToSet(s)
      BY <1>6, <1>7
    <3> QED
      BY <1>8, <3>1 DEF ToSet
  <2> QED
    BY <1>3, <1>9, <2>1
<1> QED
  BY <1>1, <1>9, <1>10 DEF ports

\* A page and a port that belong together.
Belong(w, u, p) ==
  /\ u[3] = p[3]
  /\ u[2] = p[2] \/ \E d \in w.events : d.kind = "dns" /\ d.name = u[2] /\ d.address = p[2]
EventTold(event, g) == \A k \in DOMAIN StepsOf(event) : Told(StepsOf(event)[k], g)
JoinsTold(w, g) ==
  \A u, p \in g.entities : KindOfEntity(u) = "endpoint" /\ KindOfEntity(p) = "port" /\ Belong(w, u, p) =>
    \E e \in g.edges : e.from = u /\ e.to = p /\ e.relation = "resolves_to_endpoint"

GraphInv ==
  /\ gworld \in GraphWorlds /\ gleft \subseteq gworld.events /\ gphase \in {"events", "joined", "done"}
  /\ GraphOK(gworld, ggraph) /\ ggraph.truncated \in BOOLEAN
  /\ ~ggraph.truncated => \A event \in gworld.events \ gleft : EventTold(event, ggraph)
  /\ gphase # "events" => gleft = {}
  /\ gphase # "events" /\ ~ggraph.truncated => JoinsTold(gworld, ggraph)

\* What was told stays told in a later graph.
LEMMA EventStays ==
  ASSUME gworld \in GraphWorlds, NEW g, NEW h, GraphOK(gworld, g), GraphOK(gworld, h), Grows(g, h),
         NEW event \in gworld.events, EventTold(event, g)
  PROVE  EventTold(event, h)
<1> DEFINE steps == StepsOf(event)
<1>1. \A k \in DOMAIN steps : StepOK(gworld, steps[k])
  BY EventIsOK DEF EventOK, StepsOK, ToSet
<1>2. \A k \in DOMAIN steps : Told(steps[k], g)
  BY DEF EventTold
<1> HIDE DEF steps
<1>3. \A k \in DOMAIN steps : Told(steps[k], h)
  BY <1>1, <1>2, ToldStays
<1> QED
  BY <1>3 DEF steps, EventTold

LEMMA JoinStays ==
  ASSUME NEW w, NEW g, NEW h, GraphOK(w, g), Grows(g, h), NEW u, NEW p,
         \E e \in g.edges : e.from = u /\ e.to = p /\ e.relation = "resolves_to_endpoint"
  PROVE  \E e \in h.edges : e.from = u /\ e.to = p /\ e.relation = "resolves_to_endpoint"
<1>1. PICK e \in g.edges : e.from = u /\ e.to = p /\ e.relation = "resolves_to_endpoint"
  OBVIOUS
<1>2. PICK f \in h.edges : SameEdge(e, f)
  BY DEF Grows
<1> QED
  BY <1>1, <1>2 DEF SameEdge

LEMMA GraphStarts ==
  ASSUME GraphInit
  PROVE  GraphInv
<1>1. /\ ggraph = [entities |-> {}, edges |-> {}, truncated |-> FALSE] /\ gphase = "events"
      /\ gworld \in GraphWorlds /\ gleft = gworld.events
  BY DEF GraphInit, EmptyGraph
<1>2. ggraph.entities = {} /\ ggraph.edges = {} /\ ggraph.truncated = FALSE
  BY <1>1
<1>3. IsFiniteSet({}) /\ Cardinality({}) = 0
  BY FS_EmptySet
<1>4. MaxEntities \in Nat /\ MaxEdges \in Nat
  BY GraphAssumption
<1>5. GraphOK(gworld, ggraph)
  BY <1>1, <1>2, <1>3, <1>4 DEF GraphOK
<1> QED
  BY <1>1, <1>2, <1>5 DEF GraphInv

LEMMA IngestKeeps ==
  ASSUME GraphInv, NEW event \in gworld.events, IngestEvent(event)
  PROVE  GraphInv'
<1> DEFINE steps == StepsOf(event)
           h == Perform(ggraph, steps)
<1>1. /\ ggraph' = h /\ gleft' = gleft \ {event} /\ gworld' = gworld /\ gphase' = gphase /\ gphase = "events"
      /\ event \in gleft
  BY DEF IngestEvent
<1>2. GraphOK(gworld, ggraph) /\ ggraph.truncated \in BOOLEAN /\ gworld \in GraphWorlds
  BY DEF GraphInv
<1>3. StepsOK(gworld, steps) /\ Placed({}, steps)
  BY <1>2, EventIsOK DEF EventOK
<1> HIDE DEF steps
<1>4. Placed(ggraph.entities, steps)
  BY <1>3, PlacedMore
<1>5. /\ GraphOK(gworld, h) /\ Grows(ggraph, h) /\ h.truncated \in BOOLEAN
      /\ ~h.truncated => \A k \in DOMAIN steps : Told(steps[k], h)
  BY <1>2, <1>3, <1>4, PerformKeeps
<1> HIDE DEF h
<1>6. ASSUME ~h.truncated, NEW other \in gworld.events \ (gleft \ {event}) PROVE EventTold(other, h)
  <2>1. CASE other = event
    BY <1>5, <1>6, <2>1 DEF EventTold, steps
  <2>2. CASE other # event
    <3>1. other \in gworld.events \ gleft /\ ~ggraph.truncated
      BY <1>5, <1>6, <2>2 DEF Grows
    <3>2. EventTold(other, ggraph)
      BY <3>1 DEF GraphInv
    <3> QED
      BY <1>2, <1>5, <3>1, <3>2, EventStays
  <2> QED
    BY <2>1, <2>2
<1>7. (~ggraph.truncated => \A other \in gworld.events \ gleft : EventTold(other, ggraph))'
  <2>1. \A other : EventTold(other, ggraph)' = EventTold(other, h)
    BY <1>1 DEF EventTold, StepsOf
  <2> QED
    BY <1>1, <1>6, <2>1
<1>8. GraphOK(gworld, ggraph)' /\ (ggraph.truncated \in BOOLEAN)'
  BY <1>1, <1>5
<1> QED
  BY <1>1, <1>7, <1>8 DEF GraphInv

LEMMA JoinKeeps ==
  ASSUME GraphInv, JoinEndpoints
  PROVE  GraphInv'
<1> DEFINE w == gworld
           g == ggraph
           ids == {id \in g.entities : KindOfEntity(id) = "endpoint"}
           urls == SetToSeq(ids)
           s == [k \in DOMAIN urls |-> JoinSteps(g, urls[k])]
           steps == FlattenSeq(s)
           h == Perform(g, steps)
<1>1. /\ ggraph' = h /\ gphase' = "joined" /\ gworld' = gworld /\ gleft' = gleft /\ gphase = "events" /\ gleft = {}
  BY DEF JoinEndpoints
<1>2. GraphOK(w, g) /\ g.truncated \in BOOLEAN /\ w \in GraphWorlds
  BY DEF GraphInv
<1>3. urls \in Seq(ids) /\ ToSet(urls) = ids
  <2>1. IsFiniteSet(ids)
    BY <1>2, FS_Subset DEF GraphOK
  <2> HIDE DEF ids
  <2> QED
    BY <2>1, SetInSeq
<1> HIDE DEF urls
<1>4. PICK n \in Nat : DOMAIN urls = 1 .. n /\ \A k \in 1 .. n : urls[k] \in ids
  <2> HIDE DEF ids
  <2> QED
    BY <1>3
<1>5. \A k \in 1 .. n : /\ Joining(w, g, s[k])
                        /\ \A port \in PortsServing(g, urls[k]) : Serves(urls[k], port) \in ToSet(s[k])
  <2> SUFFICES ASSUME NEW k \in 1 .. n
               PROVE  /\ Joining(w, g, s[k])
                      /\ \A port \in PortsServing(g, urls[k]) : Serves(urls[k], port) \in ToSet(s[k])
    OBVIOUS
  <2>1. urls[k] \in g.entities /\ s[k] = JoinSteps(g, urls[k])
    BY <1>4
  <2> HIDE DEF s, g, w
  <2> QED
    BY <1>2, <2>1, JoinIs
<1>6. DOMAIN s = 1 .. n /\ s = [k \in 1 .. n |-> s[k]]
  BY <1>4
<1> HIDE DEF s
<1>7. Joining(w, g, steps) /\ \A k \in 1 .. n : ToSet(s[k]) \subseteq ToSet(steps)
  BY <1>5, <1>6, JoiningFlat
<1> HIDE DEF steps
<1>8. StepsOK(w, steps) /\ Placed(g.entities, steps) /\ NamedBy(steps, Len(steps)) = {}
  BY <1>7, JoiningIs
<1>9. /\ GraphOK(w, h) /\ Grows(g, h) /\ h.truncated \in BOOLEAN /\ h.entities \subseteq g.entities
      /\ ~h.truncated => \A k \in DOMAIN steps : Told(steps[k], h)
  <2> HIDE DEF w, g
  <2> QED
    BY <1>2, <1>8, PerformKeeps
<1> HIDE DEF h
<1>10. ASSUME ~h.truncated, NEW event \in w.events PROVE EventTold(event, g) /\ EventTold(event, h)
  <2>1. ~g.truncated
    BY <1>9, <1>10 DEF Grows
  <2>2. EventTold(event, g)
    BY <1>1, <2>1 DEF GraphInv
  <2> QED
    BY <1>2, <1>9, <2>2, EventStays
<1>11. ASSUME ~h.truncated PROVE JoinsTold(w, h)
  <2> SUFFICES ASSUME NEW u \in h.entities, NEW p \in h.entities, KindOfEntity(u) = "endpoint",
                      KindOfEntity(p) = "port", Belong(w, u, p)
               PROVE  \E e \in h.edges : e.from = u /\ e.to = p /\ e.relation = "resolves_to_endpoint"
    BY DEF JoinsTold
  <2>1. u \in ids /\ p \in g.entities /\ p = Port(p[2], p[3]) /\ p[2] # "none"
    BY <1>2, <1>9 DEF GraphOK, EntityOK
  <2>2. p \in PortsServing(g, u)
    <3>1. CASE u[2] = p[2]
      <4>1. p = Port(u[2], u[3])
        BY <2>1, <3>1 DEF Belong
      <4> QED
        BY <2>1, <4>1 DEF PortsServing
    <3>2. CASE u[2] # p[2]
      <4>1. PICK d \in w.events : d.kind = "dns" /\ d.name = u[2] /\ d.address = p[2]
        BY <3>2 DEF Belong
      <4> DEFINE from == Name(d.name)
                 ip == Ip(d.address)
                 step == Edge(from, ip, "resolves_to", 85)
      <4>2. StepsOf(d) = <<Entity(from), Entity(ip), step>>
        BY <2>1, <4>1 DEF StepsOf, DnsSteps
      <4>3. from # ip /\ ip[2] = p[2] /\ from = Name(u[2])
        BY <4>1 DEF Name, Ip
      <4> HIDE DEF from, ip
      <4>4. step.edge # <<>> /\ step.edge[1].from = from /\ step.edge[1].to = ip /\ step.edge[1].relation = "resolves_to"
        BY DEF Edge
      <4> HIDE DEF step
      <4>5. Told(step, g)
        <5>1. 3 \in DOMAIN StepsOf(d) /\ StepsOf(d)[3] = step
          BY <4>2
        <5> QED
          BY <1>10, <1>11, <5>1 DEF EventTold
      <4>6. PICK e \in g.edges : SameEdge(e, step.edge[1])
        BY <4>3, <4>4, <4>5 DEF Told
      <4>7. ip \in ToOf(g, Name(u[2]), "resolves_to")
        BY <4>3, <4>4, <4>6 DEF ToOf, SameEdge
      <4>8. p = Port(ip[2], u[3])
        BY <2>1, <4>3 DEF Belong
      <4> QED
        BY <2>1, <4>7, <4>8 DEF PortsServing
    <3> QED
      BY <3>1, <3>2
  <2>3. PICK k \in 1 .. n : urls[k] = u
    <3>1. u \in ToSet(urls)
      BY <1>3, <2>1
    <3> QED
      BY <1>4, <3>1 DEF ToSet
  <2>4. Serves(u, p) \in ToSet(steps)
    BY <1>5, <1>7, <2>2, <2>3
  <2>5. PICK j \in DOMAIN steps : steps[j] = Serves(u, p)
    BY <2>4 DEF ToSet
  <2>6. Told(Serves(u, p), h)
    BY <1>9, <1>11, <2>5
  <2>7. LET step == Serves(u, p)
        IN  /\ step.edge # <<>> /\ step.edge[1].from = u /\ step.edge[1].to = p
            /\ step.edge[1].relation = "resolves_to_endpoint"
    BY DEF Serves, Edge
  <2>8. u # p
    <3>1. "endpoint" # "port"
      OBVIOUS
    <3> QED
      BY <3>1
  <2>9. PICK e \in h.edges : SameEdge(e, Serves(u, p).edge[1])
    BY <2>6, <2>7, <2>8 DEF Told
  <2> QED
    BY <2>7, <2>9 DEF SameEdge
<1>12. (~ggraph.truncated => \A event \in gworld.events \ gleft : EventTold(event, ggraph))'
  <2>1. \A event : EventTold(event, ggraph)' = EventTold(event, h)
    BY <1>1 DEF EventTold, StepsOf
  <2> QED
    BY <1>1, <1>10, <2>1
<1>13. GraphOK(gworld, ggraph)' /\ (ggraph.truncated \in BOOLEAN)'
  BY <1>1, <1>9
<1>14. (gphase # "events" /\ ~ggraph.truncated => JoinsTold(gworld, ggraph))'
  BY <1>1, <1>11
<1>15. (gleft \subseteq gworld.events)' /\ (gworld \in GraphWorlds)' /\ (gphase # "events" => gleft = {})'
  BY <1>1, <1>2
<1>16. (gphase \in {"events", "joined", "done"})'
  BY <1>1
<1> QED
  BY <1>12, <1>13, <1>14, <1>15, <1>16 DEF GraphInv

LEMMA ClassifyKeeps ==
  ASSUME GraphInv, ClassifyHosts
  PROVE  GraphInv'
<1> DEFINE w == gworld
           g == ggraph
           hosts == SetToSeq(DOMAIN gworld.families)
           s == [k \in DOMAIN hosts |-> ClassifySteps(hosts[k], gworld.families[hosts[k]])]
           steps == FlattenSeq(s)
           h == Perform(g, steps)
           NamesHost(step) == step.edge = <<>> => KindOfEntity(step.entity) \in {"os", "ip"}
<1>1. /\ ggraph' = h /\ gphase' = "done" /\ gworld' = gworld /\ gleft' = gleft /\ gphase = "joined"
  BY DEF ClassifyHosts
<1>2. GraphOK(w, g) /\ g.truncated \in BOOLEAN /\ w \in GraphWorlds /\ gleft = {}
  BY <1>1 DEF GraphInv
<1>3. PICK n \in Nat : DOMAIN hosts = 1 .. n
  <2> DEFINE D == DOMAIN gworld.families
  <2>1. IsFiniteSet(D)
    BY <1>2, GraphAssumption
  <2> HIDE DEF D
  <2>2. SetToSeq(D) \in Seq(D)
    BY <2>1, SetInSeq
  <2>3. \E n \in Nat : DOMAIN SetToSeq(D) = 1 .. n
    BY <2>2
  <2> QED
    BY <2>3 DEF D
<1> HIDE DEF hosts
<1>4. \A host, family : /\ StepsOK(w, ClassifySteps(host, family))
                        /\ \A step \in ToSet(ClassifySteps(host, family)) : NamesHost(step)
  <2> SUFFICES ASSUME NEW host, NEW family
               PROVE  /\ StepsOK(w, ClassifySteps(host, family))
                      /\ \A step \in ToSet(ClassifySteps(host, family)) : NamesHost(step)
    OBVIOUS
  <2> DEFINE os == <<"os", host, family>>
             ip == Ip(host)
             x == Entity(os)
             y == Edge(ip, os, "identified_by", 70)
             z == Entity(ip)
             R == {x, y, z}
  <2>1. ClassifySteps(host, family) = <<x, y, z>>
    BY DEF ClassifySteps
  <2>2. EntityOK(os) /\ EntityOK(ip)
    BY EntitiesAre
  <2>3. KindOfEntity(os) = "os" /\ KindOfEntity(ip) = "ip"
    BY DEF KindOfEntity, Ip
  <2> HIDE DEF os, ip
  <2>4. StepOK(w, x) /\ x.entity = os
    BY <2>2, EntityIs
  <2>5. StepOK(w, z) /\ z.entity = ip
    BY <2>2, EntityIs
  <2>6. EdgeStep(w, y, ip, os)
    <3>1. 70 \in 0 .. 95 /\ "identified_by" # "has_san" /\ "identified_by" # "resolves_to"
          /\ "identified_by" # "resolves_to_endpoint"
      OBVIOUS
    <3> QED
      BY <3>1, EdgeIs
  <2> HIDE DEF x, y, z
  <2>7. \A step \in R : StepOK(w, step) /\ NamesHost(step)
    BY <2>3, <2>4, <2>5, <2>6 DEF EdgeStep
  <2>8. <<x, y, z>> \in Seq(R)
    OBVIOUS
  <2> HIDE DEF R, Named
  <2>9. ToSet(<<x, y, z>>) \subseteq R
    BY <2>8, SeqElements
  <2> QED
    BY <2>1, <2>7, <2>8, <2>9, StepsIn
<1>5. DOMAIN s = 1 .. n /\ s = [k \in 1 .. n |-> s[k]]
  BY <1>3
<1>6. \A k \in 1 .. n : StepsOK(w, s[k]) /\ \A step \in ToSet(s[k]) : NamesHost(step)
  BY <1>3, <1>4
<1> HIDE DEF s
<1>7. StepsOK(w, steps)
  BY <1>5, <1>6, StepsFlat
<1>8. \A step \in ToSet(steps) : NamesHost(step)
  <2>1. \A k \in 1 .. n : s[k] \in Seq(ToSet(s[k]))
    BY <1>6 DEF StepsOK
  <2>2. ToSet(FlattenSeq(s)) = UNION {ToSet(s[k]) : k \in 1 .. n}
    BY <1>5, <2>1, FlatToSet
  <2> HIDE DEF Named
  <2> QED
    BY <1>6, <2>2
<1> HIDE DEF steps
<1>9. /\ GraphOK(w, h) /\ Grows(g, h) /\ h.truncated \in BOOLEAN
      /\ h.entities \subseteq g.entities \cup NamedBy(steps, Len(steps))
  <2> HIDE DEF w, g
  <2> QED
    BY <1>2, <1>7, PerformKeeps
<1> HIDE DEF h
<1>10. \A id \in h.entities : id \in g.entities \/ KindOfEntity(id) \in {"os", "ip"}
  <2>1. \A j \in 1 .. Len(steps) : steps[j] \in ToSet(steps)
    <3> DEFINE R == ToSet(steps)
    <3>1. steps \in Seq(R)
      BY <1>7 DEF StepsOK
    <3> HIDE DEF R
    <3>2. \A j \in 1 .. Len(steps) : steps[j] \in R
      BY <3>1
    <3> QED
      BY <3>2 DEF R
  <2>2. \A id \in NamedBy(steps, Len(steps)) : KindOfEntity(id) \in {"os", "ip"}
    BY <1>8, <2>1 DEF NamedBy
  <2> QED
    BY <1>9, <2>2
<1>11. ASSUME ~h.truncated, NEW event \in w.events PROVE EventTold(event, h)
  <2>1. ~g.truncated
    BY <1>9, <1>11 DEF Grows
  <2>2. EventTold(event, g)
    BY <1>2, <2>1 DEF GraphInv
  <2> QED
    BY <1>2, <1>9, <2>2, EventStays
<1>12. ASSUME ~h.truncated PROVE JoinsTold(w, h)
  <2> SUFFICES ASSUME NEW u \in h.entities, NEW p \in h.entities, KindOfEntity(u) = "endpoint",
                      KindOfEntity(p) = "port", Belong(w, u, p)
               PROVE  \E e \in h.edges : e.from = u /\ e.to = p /\ e.relation = "resolves_to_endpoint"
    BY DEF JoinsTold
  <2>1. u \in g.entities /\ p \in g.entities
    BY <1>10
  <2>2. ~g.truncated /\ gphase # "events"
    BY <1>1, <1>9, <1>12 DEF Grows
  <2>3. JoinsTold(w, g)
    BY <2>2 DEF GraphInv
  <2>4. \E e \in g.edges : e.from = u /\ e.to = p /\ e.relation = "resolves_to_endpoint"
    BY <2>1, <2>3 DEF JoinsTold
  <2> QED
    BY <1>2, <1>9, <2>4, JoinStays
<1>13. (~ggraph.truncated => \A event \in gworld.events \ gleft : EventTold(event, ggraph))'
  <2>1. \A event : EventTold(event, ggraph)' = EventTold(event, h)
    BY <1>1 DEF EventTold, StepsOf
  <2> QED
    BY <1>1, <1>11, <2>1
<1>14. GraphOK(gworld, ggraph)' /\ (ggraph.truncated \in BOOLEAN)'
  BY <1>1, <1>9
<1>15. (gphase # "events" /\ ~ggraph.truncated => JoinsTold(gworld, ggraph))'
  BY <1>1, <1>12
<1>16. (gleft \subseteq gworld.events)' /\ (gworld \in GraphWorlds)' /\ (gphase # "events" => gleft = {})'
  BY <1>1, <1>2
<1>17. (gphase \in {"events", "joined", "done"})'
  BY <1>1
<1> QED
  BY <1>13, <1>14, <1>15, <1>16, <1>17 DEF GraphInv

LEMMA GraphSteps ==
  ASSUME GraphInv, [GraphNext]_graphvars
  PROVE  GraphInv'
<1>1. CASE JoinEndpoints
  BY <1>1, JoinKeeps
<1>2. CASE ClassifyHosts
  BY <1>2, ClassifyKeeps
<1>3. ASSUME NEW event \in gworld.events, IngestEvent(event) PROVE GraphInv'
  BY <1>3, IngestKeeps
<1>4. CASE UNCHANGED graphvars
  <2>1. gworld' = gworld /\ gleft' = gleft /\ ggraph' = ggraph /\ gphase' = gphase
    BY <1>4 DEF graphvars
  <2>2. \A event : EventTold(event, ggraph)' = EventTold(event, ggraph)
    BY <2>1 DEF EventTold, StepsOf
  <2> QED
    BY <2>1, <2>2 DEF GraphInv
<1> QED
  BY <1>1, <1>2, <1>3, <1>4 DEF GraphNext

\* Ports of one address are the only machines that are proposed.
LEMMA SameAreOne ==
  ASSUME NEW g
  PROVE  \A c \in Clusters(g) : c.verdict = "same" =>
           \E ip \in c.members : KindOfEntity(ip) = "ip" /\ \A m \in c.members \ {ip} : KindOfEntity(m) = "port" /\ m[2] = ip[2]
<1> SUFFICES ASSUME NEW c \in Clusters(g), c.verdict = "same"
             PROVE  \E ip \in c.members : KindOfEntity(ip) = "ip" /\ \A m \in c.members \ {ip} : KindOfEntity(m) = "port" /\ m[2] = ip[2]
  OBVIOUS
<1> DEFINE ports == {id \in g.entities : KindOfEntity(id) = "port"}
           at(address) == {p \in ports : p[2] = address}
<1>1. PICK address : c = Cluster({Ip(address)} \cup at(address), "same")
  <2>1. \A members : Cluster(members, "related").verdict = "related"
    BY DEF Cluster
  <2>2. "same" # "related"
    OBVIOUS
  <2> HIDE DEF Cluster
  <2>3. \/ \E a : c = Cluster({Ip(a)} \cup at(a), "same")
        \/ \E members : c = Cluster(members, "related")
    BY DEF Clusters
  <2> QED
    BY <2>1, <2>2, <2>3
<1>2. c.members = {Ip(address)} \cup at(address)
  BY <1>1 DEF Cluster
<1>3. KindOfEntity(Ip(address)) = "ip" /\ Ip(address)[2] = address
  BY DEF KindOfEntity, Ip
<1>4. \A m \in c.members \ {Ip(address)} : KindOfEntity(m) = "port" /\ m[2] = Ip(address)[2]
  BY <1>2, <1>3
<1> QED
  BY <1>2, <1>3, <1>4

\* For every scan, whatever its tasks observed and in whatever order it is
\* told: the graph stays within its bounds, every edge joins two of its
\* entities, once for a relation and no surer than 95; unless the graph is
\* marked as cut, every entity and edge the events name is there and a page is
\* joined to exactly the observed ports that serve it; names that only a
\* certificate mentions are marked by the scope and resolved by DNS alone; and
\* only ports of one address are proposed as one machine.
THEOREM GraphIsExact ==
  GraphSpec => [](GraphTypeOK /\ EdgesWellFormed /\ NothingLostSilently /\ JoinsExact /\ ReuseNeverMerges /\ SansOnlyNoted)
<1> DEFINE Promised == GraphTypeOK /\ EdgesWellFormed /\ NothingLostSilently /\ JoinsExact /\ ReuseNeverMerges /\ SansOnlyNoted
<1>1. GraphInit => GraphInv
  BY GraphStarts
<1>2. GraphInv /\ [GraphNext]_graphvars => GraphInv'
  BY GraphSteps
<1>3. GraphInv => Promised
  <2> SUFFICES ASSUME GraphInv PROVE Promised
    OBVIOUS
  <2>1. GraphOK(gworld, ggraph) /\ gworld \in GraphWorlds
    BY DEF GraphInv
  <2>2. GraphTypeOK
    BY DEF GraphInv, GraphOK, GraphTypeOK
  <2>3. EdgesWellFormed
    BY <2>1 DEF GraphOK, EdgeOK, EdgesWellFormed
  <2>4. NothingLostSilently
    <3> SUFFICES ASSUME gphase # "events", ~ggraph.truncated, NEW event \in gworld.events, NEW k \in DOMAIN StepsOf(event)
                 PROVE  Told(StepsOf(event)[k], ggraph)
      BY DEF NothingLostSilently, Told
    <3>1. EventTold(event, ggraph)
      BY DEF GraphInv
    <3> QED
      BY <3>1 DEF EventTold
  <2>5. JoinsExact
    <3> SUFFICES ASSUME gphase # "events", ~ggraph.truncated, NEW u \in ggraph.entities, NEW p \in ggraph.entities,
                        KindOfEntity(u) = "endpoint", KindOfEntity(p) = "port"
                 PROVE  (\E e \in ggraph.edges : e.from = u /\ e.to = p /\ e.relation = "resolves_to_endpoint")
                          <=> Belong(gworld, u, p)
      BY DEF JoinsExact, Belong
    <3>1. ASSUME Belong(gworld, u, p)
          PROVE  \E e \in ggraph.edges : e.from = u /\ e.to = p /\ e.relation = "resolves_to_endpoint"
      BY <3>1 DEF GraphInv, JoinsTold
    <3>2. ASSUME NEW e \in ggraph.edges, e.from = u, e.to = p, e.relation = "resolves_to_endpoint"
          PROVE  Belong(gworld, u, p)
      BY <2>1, <3>2 DEF GraphOK, EdgeOK, EdgeTold, Belong
    <3> QED
      BY <3>1, <3>2
  <2>6. ReuseNeverMerges
    BY SameAreOne DEF ReuseNeverMerges
  <2>7. SansOnlyNoted
    <3>1. \A e \in ggraph.edges : EdgeTold(gworld, e)
      BY <2>1 DEF GraphOK, EdgeOK
    <3> QED
      BY <3>1 DEF EdgeTold, SansOnlyNoted
  <2> QED
    BY <2>2, <2>3, <2>4, <2>5, <2>6, <2>7
<1> HIDE DEF Promised
<1>4. GraphSpec => []Promised
  BY <1>1, <1>2, <1>3, PTL DEF GraphSpec
<1> QED
  BY <1>4 DEF Promised
=============================================================================
