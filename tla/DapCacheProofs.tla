--------------------------- MODULE DapCacheProofs ---------------------------
(* Theorems about DapCache for every set of variables, every size of them  *)
(* and every limit of the cache: a get reads what the server has or had,   *)
(* and never goes back; the DDS is attached to a response that exists; the *)
(* list keeps its limits and holds what was used last.                     *)
EXTENDS DapCache, DataFacts

Listed == {nodes[i] : i \in DOMAIN nodes}

(* What answers a get of v without a fetch.                                *)
Answers(v) ==
  IF v \in prefetch.vars THEN {prefetch}
  ELSE {n \in Listed : n.wholevariable /\ v \in n.vars}

Holds(n, v, k) == v \in DOMAIN n.data => n.data[v] = [e \in Cells[v] |-> k]

(* All that could answer a get of a variable has the whole variable, of    *)
(* one version that is not older than the last that was returned.          *)
Fresh ==
  \A v \in Vars : \E k \in seen[v] .. server :
    \A n \in Answers(v) : Holds(n, v, k)

(* The inductive invariant.  A closed connection has no cache: otherwise   *)
(* the prefetch of the next one would not be the only answer.              *)
IInv ==
  /\ \E T : nodes \in Seq(T)
  /\ server \in Nat /\ seen \in [Vars -> Nat]
  /\ ~controls.open => nodes = <<>> /\ prefetch = NoNode /\ attached = NoNode
  /\ Fresh
  /\ AttachedAlive

-----------------------------------------------------------------------------
(* The oldest nodes can always make room: removing all of them is enough.  *)
LEMMA RoomFound ==
  ASSUME \E T : nodes \in Seq(T), NEW node
  PROVE  Removed(node) \in 0 .. Len(nodes) /\ Room(Removed(node), node)
<1>1. Len(nodes) \in Nat
  BY LenProperties
<1>2. PICK S : S = {k \in 0 .. Len(nodes) : Room(k, node)}
  OBVIOUS
<1>3. Len(nodes) \in S
  <2>1. Count \in Nat
    BY DapCacheAssumption DEF Count
  <2>2. Len(nodes) - Len(nodes) <= Count
    BY <1>1, <2>1
  <2> QED
    BY <1>1, <1>2, <2>2 DEF Room
<1>4. S \subseteq Nat /\ S # {}
  BY <1>1, <1>2, <1>3
<1>5. PICK k \in S : \A j \in S : k <= j
  BY <1>4, LeastNatural
<1>6. k \in 0 .. Len(nodes) /\ Room(k, node)
  BY <1>2, <1>5
<1>7. ASSUME NEW j \in 0 .. k - 1
      PROVE  ~Room(j, node)
  <2>1. j \in 0 .. Len(nodes) /\ ~(k <= j)
    BY <1>1, <1>6
  <2> QED
    BY <1>2, <1>5, <2>1
<1> QED
  BY <1>6, <1>7 DEF Removed

(* Where there is a hit there is a latest one.                             *)
LEMMA LatestFound ==
  ASSUME \E T : nodes \in Seq(T), NEW v, Hits(v) # {}
  PROVE  Latest(Hits(v)) \in Hits(v)
<1>1. Len(nodes) \in Nat /\ DOMAIN nodes = 1 .. Len(nodes)
  BY LenProperties
<1>2. \A i \in Hits(v) : i \in Nat /\ Len(nodes) - i \in Nat
  BY <1>1 DEF Hits
<1>3. PICK S : S = {Len(nodes) - i : i \in Hits(v)}
  OBVIOUS
<1>4. S \subseteq Nat /\ S # {}
  BY <1>2, <1>3
<1>5. PICK k \in S : \A j \in S : k <= j
  BY <1>4, LeastNatural
<1>6. PICK i \in Hits(v) : k = Len(nodes) - i
  BY <1>3, <1>5
<1>7. \A j \in Hits(v) : j <= i
  <2> SUFFICES ASSUME NEW j \in Hits(v)
               PROVE  j <= i
    OBVIOUS
  <2>1. Len(nodes) - i <= Len(nodes) - j
    BY <1>3, <1>5, <1>6
  <2> QED
    BY <1>1, <1>2, <2>1
<1> QED
  BY <1>6, <1>7 DEF Latest

(* The fold that SumSize is, as a function of the set of positions.        *)
SizeFold(f, D, s) == f = [x \in SUBSET D |->
                            IF x = {} THEN 0
                            ELSE f[x \ {Max(x)}] + s[Max(x)].xdrsize]

(* The first n of r are those of s with the one at i moved to the end, or  *)
(* those after the first k with e added                                    *)
IsMoved(r, s, i, n) ==
  i \in 1 .. n /\ \A j \in 1 .. n : r[j] = IF j < i THEN s[j]
                           ELSE IF j < n THEN s[j + 1] ELSE s[i]
IsRest(r, l, s, n, k, e) ==
  k \in 0 .. n /\ l = n - k + 1 /\ r[l] = e /\ \A j \in 1 .. l - 1 : r[j] = s[k + j]

(* The sums of the first of n sizes                                        *)
PartialSums(sum, size, n) ==
  /\ n \in Nat /\ sum[0] = 0 /\ \A i \in 0 .. n : sum[i] \in Int
  /\ \A i \in 1 .. n : size[i] \in Nat /\ sum[i] = sum[i - 1] + size[i]

Sizes(s) == [i \in 1 .. Len(s) |-> s[i].xdrsize]
IsTotal(total, s) == PartialSums(total, Sizes(s), Len(s))

(* SumSize is the last of them.                                            *)
LEMMA SumSizeIs ==
  ASSUME NEW T, NEW s \in Seq(T), NEW total, IsTotal(total, s)
  PROVE  SumSize(s) = total[Len(s)]
<1> DEFINE n == Len(s)
           D == 1 .. n
<1>1. n \in Nat /\ DOMAIN s = D /\ IsFiniteSet(D) /\ D \subseteq Nat
  BY LenProperties, FS_Interval
<1>2. \A i \in Nat : i <= n /\ i # 0 => i \in D /\ 1 .. i \in SUBSET D
  BY <1>1
<1> HIDE DEF n
<1>3. \A x \in (SUBSET D) \ {{}} : Max(x) \in x /\ \A j \in x : j <= Max(x)
  <2> SUFFICES ASSUME NEW x \in SUBSET D, x # {}
               PROVE  \E k \in x : \A j \in x : k >= j
    BY <1>1 DEF Max
  <2>1. PICK S : S = {n - i : i \in x}
    OBVIOUS
  <2>2. \A i \in x : i \in Nat /\ n - i \in Nat
    BY <1>1
  <2>3. S \subseteq Nat /\ S # {}
    BY <2>1, <2>2
  <2>4. PICK m \in S : \A j \in S : m <= j
    BY <2>3, LeastNatural
  <2>5. PICK k \in x : m = n - k
    BY <2>1, <2>4
  <2>6. ASSUME NEW j \in x
        PROVE  k >= j
    <3>1. n - k <= n - j /\ j \in Nat /\ k \in Nat
      BY <2>1, <2>2, <2>4, <2>5
    <3> QED
      BY <1>1, <3>1
  <2> QED
    BY <2>6
<1>4. PICK pick : pick = [x \in (SUBSET D) \ {{}} |-> Max(x)]
  OBVIOUS
<1>5. PICK step : step = [p \in D \X Nat |-> p[2] + s[p[1]].xdrsize]
  OBVIOUS
<1>6. \A i \in D : s[i].xdrsize \in Nat
  BY DEF n, IsTotal, PartialSums, Sizes
<1>7. step \in [D \X Nat -> Nat] /\ \A i \in D, m \in Nat :
                                     step[<<i, m>>] = m + s[i].xdrsize
  BY <1>5, <1>6
<1>8. pick \in [(SUBSET D) \ {{}} -> D] /\ \A x \in (SUBSET D) \ {{}} : pick[x] \in x
  BY <1>3, <1>4
<1>9. PICK g : IsFold(g, D, Nat, 0, pick, step)
  <2>1. CanFold(D, Nat, 0, pick, step)
    BY <1>1, <1>7, <1>8 DEF CanFold
  <2> QED
    BY <2>1, FoldExists
<1>10. SizeFold(g, D, s)
  <2>1. ASSUME NEW x \in SUBSET D
        PROVE  g[x] = IF x = {} THEN 0
                      ELSE g[x \ {Max(x)}] + s[Max(x)].xdrsize
    <3>1. CASE x # {}
      <4>1. /\ Max(x) \in D /\ g[x \ {Max(x)}] \in Nat
            /\ g[x] = step[<<Max(x), g[x \ {Max(x)}]>>]
        BY <1>3, <1>4, <1>9, <3>1 DEF IsFold
      <4> QED
        BY <1>7, <3>1, <4>1
    <3> QED
      BY <1>9, <3>1 DEF IsFold
  <2> QED
    BY <1>9, <2>1 DEF SizeFold, IsFold
<1>11. PICK f : /\ f = CHOOSE h : SizeFold(h, D, s)
                /\ SizeFold(f, D, s)
  BY <1>10
<1>12. SumSize(s) = f[D]
  BY <1>1, <1>11 DEF SumSize, FoldLeft, MapThenFoldSet, SizeFold
<1>13. \A i \in Nat : i <= n => f[1 .. i] = total[i]
  <2>1. PICK R : R = {i \in Nat : i <= n => f[1 .. i] = total[i]}
    OBVIOUS
  <2>2. 0 \in R
    <3>1. 1 .. 0 = {}
      OBVIOUS
    <3> QED
      BY <1>11, <2>1, <3>1 DEF SizeFold, IsTotal, PartialSums
  <2>3. ASSUME NEW i \in Nat, i \in R
        PROVE  i + 1 \in R
    <3> SUFFICES ASSUME i + 1 <= n
                 PROVE  f[1 .. i + 1] = total[i + 1]
      BY <2>1
    <3>1. 1 .. i + 1 \in (SUBSET D) \ {{}} /\ i + 1 \in D
      <4>1. i + 1 \in 1 .. i + 1 /\ i + 1 \in Nat /\ i + 1 # 0
        OBVIOUS
      <4>2. 1 .. i + 1 \in SUBSET D /\ i + 1 \in D
        BY <1>2, <4>1
      <4> QED
        BY <4>1, <4>2
    <3>2. Max(1 .. i + 1) = i + 1
      <4>1. Max(1 .. i + 1) \in 1 .. i + 1 /\ i + 1 <= Max(1 .. i + 1)
        BY <1>3, <3>1
      <4> QED
        BY <4>1
    <3>3. (1 .. i + 1) \ {i + 1} = 1 .. i
      OBVIOUS
    <3>4. f[1 .. i + 1] = f[1 .. i] + s[i + 1].xdrsize
      <4>1. PICK x : x = 1 .. i + 1
        OBVIOUS
      <4>2. f[x] = f[x \ {Max(x)}] + s[Max(x)].xdrsize
        <5> HIDE DEF D
        <5> QED
          BY <1>11, <3>1, <4>1 DEF SizeFold
      <4> QED
        BY <3>2, <3>3, <4>1, <4>2
    <3>5. f[1 .. i] = total[i]
      BY <1>1, <2>1, <2>3
    <3>6. total[i + 1] = total[i] + s[i + 1].xdrsize
      BY <1>1, <3>1 DEF n, IsTotal, PartialSums, Sizes
    <3> QED
      BY <3>4, <3>5, <3>6
  <2> QED
    BY <2>1, <2>2, <2>3, EveryNatural
<1> QED
  BY <1>1, <1>12, <1>13 DEF n

(* There are such sums, and none is negative.                              *)
LEMMA SumsExist ==
  ASSUME NEW n \in Nat, NEW size, \A i \in 1 .. n : size[i] \in Nat
  PROVE  \E sum : PartialSums(sum, size, n) /\ sum[n] \in Nat
<1>1. PICK step : step = [p \in Nat \X Nat |->
                            IF p[1] < n THEN p[2] + size[p[1] + 1] ELSE 0]
  OBVIOUS
<1>2. ASSUME NEW i \in Nat, NEW m \in Nat
      PROVE  /\ step[<<i, m>>] = IF i < n THEN m + size[i + 1] ELSE 0
             /\ step[<<i, m>>] \in Nat
  BY <1>1
<1>3. step \in [Nat \X Nat -> Nat]
  BY <1>1, <1>2
<1>4. PICK f : IsIteration(f, Nat, 0, step)
  BY <1>3, Iteration
<1>5. \A i \in Nat : f[i] \in Nat
  BY <1>4 DEF IsIteration
<1>6. ASSUME NEW i \in 1 .. n
      PROVE  f[i] = f[i - 1] + size[i]
  <2>1. i - 1 \in Nat /\ i - 1 < n /\ i - 1 + 1 = i
    OBVIOUS
  <2>2. f[i - 1] \in Nat /\ f[i] = step[<<i - 1, f[i - 1]>>]
    BY <1>4, <2>1 DEF IsIteration
  <2> QED
    BY <1>2, <2>1, <2>2
<1> QED
  BY <1>4, <1>5, <1>6 DEF PartialSums, IsIteration

Sized(s) == \A i \in 1 .. Len(s) : s[i].xdrsize \in Nat

(* The same for the nodes of a list                                        *)
LEMMA TotalExists ==
  ASSUME NEW T, NEW s \in Seq(T), Sized(s)
  PROVE  \E total : IsTotal(total, s) /\ total[Len(s)] \in Nat
<1>1. Len(s) \in Nat
  BY LenProperties
<1>2. \A i \in 1 .. Len(s) : Sizes(s)[i] \in Nat
  BY DEF Sized, Sizes
<1> QED
  BY <1>1, <1>2, SumsExist DEF IsTotal

SumsTo(t, size, n, all) == PartialSums(t, size, n) /\ t[n] = all
RestSum(sum, n, k, x) == sum[n] - sum[k] + x

(* The sums when the first k are removed and x is added                    *)
LEMMA SumsOfRest ==
  ASSUME NEW n, NEW k, NEW size, NEW x, NEW l, NEW rest, NEW sum,
         x \in Nat, IsRest(rest, l, size, n, k, x), PartialSums(sum, size, n)
  PROVE  \E t : SumsTo(t, rest, l, RestSum(sum, n, k, x))
<1>1. \A i \in 0 .. n : sum[i] \in Int
  BY DEF PartialSums
<1>2. n \in Nat /\ \A i \in 1 .. n : size[i] \in Nat /\ sum[i] = sum[i - 1] + size[i]
  BY DEF PartialSums
<1>3. k \in 0 .. n
  BY DEF IsRest
<1>4. PICK m \in Nat : m = n - k /\ l = m + 1
  BY <1>2 DEF IsRest
<1>5. rest[m + 1] = x /\ \A i \in 1 .. m : rest[i] = size[k + i]
  BY <1>4 DEF IsRest
<1>6. PICK t : t = [i \in 0 .. m + 1 |-> IF i <= m THEN sum[k + i] - sum[k]
                                          ELSE sum[n] - sum[k] + x]
  OBVIOUS
<1>7. \A i \in 0 .. m : t[i] = sum[k + i] - sum[k] /\ t[i] \in Int
  BY <1>3, <1>1, <1>2, <1>4, <1>6
<1>8. t[m + 1] = sum[n] - sum[k] + x /\ t[m + 1] \in Int
  BY <1>3, <1>1, <1>2, <1>4, <1>6
<1>9. \A i \in 0 .. m + 1 : t[i] \in Int
  BY <1>4, <1>7, <1>8
<1>10. t[0] = 0
  <2>1. t[0] = sum[k + 0] - sum[k] /\ k + 0 = k /\ sum[k] \in Int
    BY <1>3, <1>1, <1>2, <1>4, <1>7
  <2> QED
    BY <2>1
<1>11. ASSUME NEW i \in 1 .. m + 1
      PROVE  t[i] = t[i - 1] + rest[i]
  <2>1. CASE i = m + 1
    <3>1. t[i - 1] = sum[n] - sum[k]
      BY <1>3, <1>2, <1>4, <1>7, <2>1
    <3>2. sum[n] \in Int /\ sum[k] \in Int
      BY <1>3, <1>1, <1>2
    <3> QED
      BY <1>5, <1>4, <1>8, <2>1, <3>1, <3>2
  <2>2. CASE i # m + 1
    <3>1. i \in 1 .. m /\ k + i \in 1 .. n /\ i - 1 \in 0 .. m
      BY <1>3, <1>2, <1>4, <2>2
    <3>2. sum[k + i] = sum[k + i - 1] + size[k + i] /\ rest[i] = size[k + i]
      <4>1. PICK j \in 1 .. n : j = k + i
        BY <3>1
      <4>2. sum[j] = sum[j - 1] + size[j]
        BY <1>2, <4>1
      <4> QED
        BY <1>5, <1>3, <1>2, <3>1, <4>1, <4>2
    <3>3. t[i] = sum[k + i] - sum[k] /\ t[i - 1] = sum[k + (i - 1)] - sum[k]
      BY <1>7, <3>1
    <3>4. k + i - 1 = k + (i - 1) /\ k + i - 1 \in 0 .. n
      BY <1>3, <1>2, <1>4, <3>1
    <3>5. sum[k + i - 1] \in Int /\ sum[k] \in Int /\ size[k + i] \in Nat
      BY <1>3, <1>1, <1>2, <3>1, <3>4
    <3> QED
      BY <3>2, <3>3, <3>4, <3>5
  <2> QED
    BY <2>1, <2>2
<1>12. PartialSums(t, rest, m + 1)
  <2>1. \A i \in 1 .. m + 1 : rest[i] \in Nat
    <3> SUFFICES ASSUME NEW i \in 1 .. m + 1
                 PROVE  rest[i] \in Nat
      OBVIOUS
    <3>1. CASE i = m + 1
      BY <1>5, <3>1
    <3>2. CASE i # m + 1
      <4>1. i \in 1 .. m /\ k + i \in 1 .. n
        BY <1>3, <1>2, <1>4, <3>2
      <4> QED
        BY <1>5, <1>2, <4>1
    <3> QED
      BY <3>1, <3>2
  <2> QED
    BY <1>4, <1>9, <1>10, <1>11, <2>1 DEF PartialSums
<1> QED
  BY <1>4, <1>8, <1>12 DEF RestSum, SumsTo

(* The sums when the one at i is moved to the end                          *)
LEMMA SumsOfMoved ==
  ASSUME NEW n, NEW i, NEW size, NEW moved, NEW sum,
         IsMoved(moved, size, i, n), PartialSums(sum, size, n)
  PROVE  \E t : PartialSums(t, moved, n) /\ t[n] = sum[n]
<1>1. \A j \in 0 .. n : sum[j] \in Int
  BY DEF PartialSums
<1>2. n \in Nat /\ \A j \in 1 .. n : size[j] \in Nat /\ sum[j] = sum[j - 1] + size[j]
  BY DEF PartialSums
<1>3. i \in 1 .. n
  BY DEF IsMoved
<1>4. \A j \in 1 .. n : moved[j] = IF j < i THEN size[j]
                                    ELSE IF j < n THEN size[j + 1] ELSE size[i]
  BY DEF IsMoved
<1>5. PICK t : t = [j \in 0 .. n |-> IF j < i \/ j = n THEN sum[j]
                                     ELSE sum[j + 1] - size[i]]
  OBVIOUS
<1>6. /\ \A j \in 0 .. n : j < i \/ j = n => t[j] = sum[j]
      /\ \A j \in 0 .. n : ~(j < i) /\ j # n => t[j] = sum[j + 1] - size[i]
  BY <1>5
<1>7. ASSUME NEW j \in 0 .. n
      PROVE  t[j] \in Int
  <2>1. CASE j < i \/ j = n
    BY <1>3, <1>1, <1>2, <1>6, <2>1
  <2>2. CASE ~(j < i) /\ j # n
    <3>1. t[j] = sum[j + 1] - size[i] /\ sum[j + 1] \in Int
      BY <1>3, <1>1, <1>2, <1>6, <2>2
    <3> QED
      BY <1>3, <1>2, <3>1
  <2> QED
    BY <2>1, <2>2
<1>8. \A j \in 1 .. n : moved[j] \in Nat
  BY <1>4, <1>3, <1>2
<1>9. t[0] = 0
  BY <1>3, <1>2, <1>6 DEF PartialSums
<1>10. ASSUME NEW j \in 1 .. n
      PROVE  t[j] = t[j - 1] + moved[j]
  <2>1. sum[j] = sum[j - 1] + size[j] /\ sum[j] \in Int /\ sum[j - 1] \in Int
    BY <1>1, <1>2
  <2>2. CASE j < i
    <3>1. t[j] = sum[j] /\ t[j - 1] = sum[j - 1] /\ moved[j] = size[j]
      BY <1>4, <1>3, <1>2, <1>6, <2>2
    <3> QED
      BY <2>1, <3>1
  <2>3. CASE ~(j < i) /\ j < n
    <3>1. /\ t[j] = sum[j + 1] - size[i] /\ moved[j] = size[j + 1]
          /\ sum[j + 1] = sum[j] + size[j + 1]
      BY <1>4, <1>3, <1>2, <1>6, <2>3
    <3>2. t[j - 1] = sum[j] - size[i]
      <4>1. CASE j = i
        BY <1>3, <1>2, <1>6, <2>1, <4>1
      <4>2. CASE j # i
        BY <1>3, <1>2, <1>6, <2>3, <4>2
      <4> QED
        BY <4>1, <4>2
    <3> QED
      BY <1>1, <1>2, <1>3, <2>1, <2>3, <3>1, <3>2
  <2>4. CASE j = n
    <3>1. t[j] = sum[j] /\ moved[j] = size[i]
      BY <1>4, <1>3, <1>2, <1>6, <2>4
    <3>2. t[j - 1] = sum[j] - size[i]
      <4>1. CASE j = i
        BY <1>3, <1>2, <1>6, <2>1, <4>1
      <4>2. CASE j # i
        BY <1>3, <1>2, <1>6, <2>4, <4>2
      <4> QED
        BY <4>1, <4>2
    <3> QED
      BY <1>1, <1>2, <1>3, <2>1, <3>1, <3>2
  <2> QED
    BY <1>2, <2>2, <2>3, <2>4
<1>11. PartialSums(t, moved, n)
  BY <1>2, <1>7, <1>8, <1>9, <1>10 DEF PartialSums
<1> QED
  BY <1>3, <1>2, <1>6, <1>11

(* The element at i moved to the end                                       *)
LEMMA MovedToEnd ==
  ASSUME NEW T, NEW s \in Seq(T), NEW i \in 1 .. Len(s), NEW r,
         r = Append(RemoveAt(s, i), s[i])
  PROVE  r \in Seq(T) /\ Len(r) = Len(s) /\ IsMoved(r, s, i, Len(s))
<1>1. /\ Len(s) \in Nat /\ i \in 1 .. Len(s) /\ DOMAIN s = 1 .. Len(s)
      /\ s[i] \in T
  BY LenProperties
<1>2. PICK a : a = SubSeq(s, 1, i - 1)
  OBVIOUS
<1>3. PICK b : b = SubSeq(s, i + 1, Len(s))
  OBVIOUS
<1>4. /\ a \in Seq(T) /\ Len(a) = i - 1
      /\ \A j \in 1 .. i - 1 : a[j] = s[j]
  <2>1. \A j \in 1 .. i - 1 : s[j] \in T
    BY <1>1, ElementOfSeq
  <2> QED
    BY <1>1, <1>2, <2>1, SubSeqProperties
<1>5. /\ b \in Seq(T) /\ Len(b) = Len(s) - i
      /\ \A j \in 1 .. Len(s) - i : b[j] = s[j + i]
  <2>1. \A j \in i + 1 .. Len(s) : s[j] \in T
    BY <1>1, ElementOfSeq
  <2>2. /\ b \in Seq(T)
        /\ Len(b) = IF i + 1 <= Len(s) THEN Len(s) - (i + 1) + 1 ELSE 0
        /\ \A j \in 1 .. Len(s) - (i + 1) + 1 : b[j] = s[i + 1 + j - 1]
    BY <1>1, <1>3, <2>1, SubSeqProperties
  <2>3. Len(b) = Len(s) - i
    <3>1. PICK n \in Nat : n = Len(s) /\ i \in 1 .. n
      BY <1>1
    <3>2. Len(b) = IF i + 1 <= n THEN n - (i + 1) + 1 ELSE 0
      BY <2>2, <3>1
    <3>3. Len(b) = n - i
      BY <3>1, <3>2
    <3> QED
      BY <3>1, <3>3
  <2>4. ASSUME NEW j \in 1 .. Len(s) - i
        PROVE  b[j] = s[j + i]
    <3>1. j \in 1 .. Len(s) - (i + 1) + 1 /\ i + 1 + j - 1 = j + i
      BY <1>1
    <3>2. b[j] = s[i + 1 + j - 1]
      BY <2>2, <3>1
    <3> QED
      BY <3>1, <3>2
  <2> QED
    BY <2>2, <2>3, <2>4
<1>6. PICK c : c = a \o b
  OBVIOUS
<1>7. /\ c \in Seq(T) /\ Len(c) = Len(s) - 1
      /\ \A j \in 1 .. Len(s) - 1 : c[j] = IF j < i THEN s[j] ELSE s[j + 1]
  <2>1. /\ c \in Seq(T) /\ Len(c) = Len(a) + Len(b)
        /\ \A j \in 1 .. Len(a) + Len(b) :
             c[j] = IF j <= Len(a) THEN a[j] ELSE b[j - Len(a)]
    BY <1>4, <1>5, <1>6, ConcatProperties
  <2>2. Len(a) + Len(b) = Len(s) - 1 /\ Len(a) = i - 1
    BY <1>1, <1>4, <1>5
  <2>3. /\ c \in Seq(T) /\ Len(c) = Len(s) - 1
        /\ \A j \in 1 .. Len(s) - 1 :
             c[j] = IF j <= i - 1 THEN a[j] ELSE b[j - (i - 1)]
    BY <2>1, <2>2
  <2>4. ASSUME NEW j \in 1 .. Len(s) - 1
        PROVE  c[j] = IF j < i THEN s[j] ELSE s[j + 1]
    <3>1. CASE j < i
      BY <1>1, <1>4, <2>3, <3>1
    <3>2. CASE ~(j < i)
      <4>1. j - (i - 1) \in 1 .. Len(s) - i /\ j - (i - 1) + i = j + 1
        BY <1>1, <3>2
      <4>2. c[j] = b[j - (i - 1)] /\ b[j - (i - 1)] = s[j - (i - 1) + i]
        BY <1>1, <1>5, <2>3, <3>2, <4>1
      <4> QED
        BY <3>2, <4>1, <4>2
    <3> QED
      BY <3>1, <3>2
  <2> QED
    BY <2>3, <2>4
<1>8. r = Append(c, s[i])
  BY <1>2, <1>3, <1>6 DEF RemoveAt
<1>9. /\ r \in Seq(T) /\ Len(r) = Len(c) + 1
      /\ \A j \in 1 .. Len(c) : r[j] = c[j]
      /\ r[Len(c) + 1] = s[i]
  <2>1. c \in Seq(T) /\ s[i] \in T
    BY <1>1, <1>7
  <2> QED
    BY <1>8, <2>1, AppendProperties
<1> QED
  BY <1>1, <1>7, <1>9 DEF IsMoved

(* The first k elements removed and one more added                         *)
LEMMA DroppedAndAdded ==
  ASSUME NEW T, NEW s \in Seq(T), NEW k \in 0 .. Len(s), NEW e \in T, NEW r,
         r = Append(SubSeq(s, k + 1, Len(s)), e)
  PROVE  \E l \in Nat : /\ r \in Seq(T) /\ Len(r) = l
                       /\ IsRest(r, l, s, Len(s), k, e)
<1>1. Len(s) \in Nat
  BY LenProperties
<1>2. PICK c : c = SubSeq(s, k + 1, Len(s))
  OBVIOUS
<1>3. /\ c \in Seq(T) /\ Len(c) = Len(s) - k
      /\ \A j \in 1 .. Len(s) - k : c[j] = s[k + j]
  <2>1. \A j \in k + 1 .. Len(s) : s[j] \in T
    BY <1>1, ElementOfSeq
  <2>2. /\ c \in Seq(T) /\ Len(c) = IF k + 1 <= Len(s) THEN Len(s) - (k + 1) + 1 ELSE 0
        /\ \A j \in 1 .. Len(s) - (k + 1) + 1 : c[j] = s[k + 1 + j - 1]
    BY <1>1, <1>2, <2>1, SubSeqProperties
  <2> QED
    BY <1>1, <2>2
<1>4. r = Append(c, e)
  BY <1>2
<1>5. /\ r \in Seq(T) /\ Len(r) = Len(c) + 1
      /\ \A j \in 1 .. Len(c) : r[j] = c[j]
      /\ r[Len(c) + 1] = e
  BY <1>1, <1>3, <1>4, AppendProperties
<1>6. PICK l \in Nat : l - 1 = Len(s) - k /\ l = Len(s) - k + 1
  BY <1>1
<1>7. Len(c) = l - 1 /\ r[l] = e /\ Len(r) = l
  BY <1>3, <1>5, <1>6
<1>8. \A j \in 1 .. l - 1 : r[j] = s[k + j]
  BY <1>3, <1>5, <1>6, <1>7
<1> QED
  BY <1>5, <1>6, <1>7, <1>8 DEF IsRest

(* The size of what is removed, of the list after an insertion, and after  *)
(* a hit                                                                   *)
LEMMA SizeOfFirst ==
  ASSUME NEW T, NEW s \in Seq(T), NEW k \in 0 .. Len(s), NEW total,
         IsTotal(total, s)
  PROVE  SumSize(SubSeq(s, 1, k)) = total[k]
<1>1. Len(s) \in Nat
  BY LenProperties
<1>2. PICK c : c = SubSeq(s, 1, k)
  OBVIOUS
<1>3. c \in Seq(T) /\ Len(c) = k /\ \A j \in 1 .. k : c[j] = s[j]
  <2>1. \A j \in 1 .. k : s[j] \in T
    BY <1>1, ElementOfSeq
  <2> QED
    BY <1>1, <1>2, <2>1, SubSeqProperties
<1>4. \A j \in 1 .. k : Sizes(c)[j] = Sizes(s)[j]
  BY <1>1, <1>3 DEF Sizes
<1>5. PartialSums(total, Sizes(s), k)
  BY <1>1 DEF IsTotal, PartialSums
<1>6. IsTotal(total, c)
  BY <1>3, <1>4, <1>5 DEF IsTotal, PartialSums
<1>7. SumSize(c) = total[k]
  BY <1>3, <1>6, SumSizeIs
<1> QED
  BY <1>2, <1>7

LEMMA SizeOfInserted ==
  ASSUME NEW T, NEW s \in Seq(T), NEW k \in 0 .. Len(s), NEW e \in T, NEW r,
         NEW total, IsTotal(total, s), e.xdrsize \in Nat,
         r = Append(SubSeq(s, k + 1, Len(s)), e)
  PROVE  SumSize(r) = RestSum(total, Len(s), k, e.xdrsize)
<1>1. PICK n \in Nat : n = Len(s)
  BY LenProperties
<1>2. k \in 0 .. n
  BY <1>1
<1>3. PICK l \in Nat : /\ r \in Seq(T) /\ Len(r) = l
                      /\ IsRest(r, l, s, Len(s), k, e)
  BY DroppedAndAdded
<1>4. PICK x \in Nat : x = e.xdrsize
  OBVIOUS
<1>5. l = n - k + 1 /\ r[l] = e /\ \A j \in 1 .. l - 1 : r[j] = s[k + j]
  BY <1>1, <1>3 DEF IsRest
<1>6. PICK size : size = Sizes(s) /\ PartialSums(total, size, n)
  BY <1>1 DEF IsTotal
<1>7. PICK rest : rest = Sizes(r)
  OBVIOUS
<1>8. IsRest(rest, l, size, n, k, x)
  <2>1. ASSUME NEW j \in 1 .. l - 1
        PROVE  rest[j] = size[k + j]
    <3>1. k + j \in 1 .. n /\ j \in 1 .. l
      BY <1>1, <1>2, <1>3, <1>5
    <3>2. r[j] = s[k + j]
      BY <1>5
    <3> QED
      BY <1>1, <1>3, <1>6, <1>7, <3>1, <3>2 DEF Sizes
  <2>2. l \in 1 .. l /\ r[l] = e
    <3>1. l >= 1
      BY <1>1, <1>2, <1>5
    <3> QED
      BY <1>3, <1>5, <3>1
  <2>3. rest[l] = x
    BY <1>3, <1>4, <1>7, <2>2 DEF Sizes
  <2> QED
    BY <1>2, <1>5, <2>1, <2>3 DEF IsRest
<1>9. PICK t : SumsTo(t, rest, l, RestSum(total, n, k, x))
  <2>1. x \in Nat /\ PartialSums(total, size, n)
    BY <1>4, <1>6
  <2> QED
    BY <1>8, <2>1, SumsOfRest, Zenon
<1>10. SumSize(r) = t[l]
  BY <1>3, <1>7, <1>9, SumSizeIs DEF IsTotal, SumsTo
<1> QED
  BY <1>1, <1>4, <1>9, <1>10 DEF RestSum, SumsTo

LEMMA SizeOfMoved ==
  ASSUME NEW T, NEW s \in Seq(T), NEW i \in 1 .. Len(s), NEW r, NEW total,
         IsTotal(total, s), r = Append(RemoveAt(s, i), s[i])
  PROVE  SumSize(r) = total[Len(s)]
<1>1. PICK n \in Nat : n = Len(s)
  BY LenProperties
<1>2. r \in Seq(T) /\ Len(r) = n /\ IsMoved(r, s, i, n)
  BY <1>1, MovedToEnd
<1>3. PICK size : size = Sizes(s) /\ PartialSums(total, size, n)
  BY <1>1 DEF IsTotal
<1>4. PICK moved : moved = Sizes(r)
  OBVIOUS
<1>5. ASSUME NEW j \in 1 .. n
      PROVE  moved[j] = IF j < i THEN size[j]
                        ELSE IF j < n THEN size[j + 1] ELSE size[i]
  <2>1. moved[j] = r[j].xdrsize
    BY <1>2, <1>4 DEF Sizes
  <2>2. \A m \in 1 .. n : size[m] = s[m].xdrsize
    BY <1>1, <1>3 DEF Sizes
  <2>3. i \in 1 .. n
    BY <1>1
  <2>4. CASE j < i
    BY <1>2, <2>1, <2>2, <2>4 DEF IsMoved
  <2>5. CASE ~(j < i) /\ j < n
    <3>1. j + 1 \in 1 .. n /\ r[j] = s[j + 1]
      BY <1>1, <1>2, <2>5 DEF IsMoved
    <3> QED
      BY <2>1, <2>2, <2>5, <3>1
  <2>6. CASE ~(j < i) /\ ~(j < n)
    BY <1>2, <2>1, <2>2, <2>3, <2>6 DEF IsMoved
  <2> QED
    BY <2>4, <2>5, <2>6
<1>6. IsMoved(moved, size, i, n)
  BY <1>2, <1>5 DEF IsMoved
<1>7. PICK t : PartialSums(t, moved, n) /\ t[n] = total[n]
  BY <1>3, <1>6, SumsOfMoved
<1>8. SumSize(r) = t[n]
  BY <1>2, <1>4, <1>7, SumSizeIs DEF IsTotal
<1> QED
  BY <1>1, <1>7, <1>8

-----------------------------------------------------------------------------
(* The list and the history of its use                                     *)

IsTail(s, t) ==
  /\ Len(s) <= Len(t)
  /\ \A j \in 1 .. Len(s) : s[j] = t[Len(t) - Len(s) + j]

LEMMA SuffixIsTail ==
  ASSUME NEW T, NEW s \in Seq(T), NEW t \in Seq(T)
  PROVE  IsSuffix(s, t) <=> IsTail(s, t)
<1>1. PICK m \in Nat : m = Len(s)
  BY LenProperties
<1>2. PICK n \in Nat : n = Len(t)
  BY LenProperties
<1>3. PICK r : r = Reverse(s)
  OBVIOUS
<1>4. PICK q : q = Reverse(t)
  OBVIOUS
<1>5. /\ r = [j \in 1 .. m |-> s[(m - j) + 1]]
      /\ q = [j \in 1 .. n |-> t[(n - j) + 1]]
  BY <1>1, <1>2, <1>3, <1>4 DEF Reverse
<1>6. \A j \in 1 .. m : s[(m - j) + 1] \in T
  <2>1. \A j \in 1 .. m : (m - j) + 1 \in 1 .. m
    OBVIOUS
  <2> QED
    BY <1>1, <2>1, ElementOfSeq
<1>7. \A j \in 1 .. n : t[(n - j) + 1] \in T
  <2>1. \A j \in 1 .. n : (n - j) + 1 \in 1 .. n
    OBVIOUS
  <2> QED
    BY <1>2, <2>1, ElementOfSeq
<1>8. r \in Seq(T) /\ q \in Seq(T)
  BY <1>5, <1>6, <1>7, IsASeq
<1>9. Len(r) = m /\ Len(q) = n
  BY <1>5, <1>8, LenProperties
<1>10. IsSuffix(s, t) <=> m <= n /\ SubSeq(r, 1, m) = SubSeq(q, 1, m)
  BY <1>3, <1>4, <1>9 DEF IsSuffix, IsPrefix
<1>11. ASSUME m <= n
       PROVE  SubSeq(r, 1, m) = SubSeq(q, 1, m)
                <=> \A j \in 1 .. m : r[j] = q[j]
  <2>1. PICK a : a = SubSeq(r, 1, m)
    OBVIOUS
  <2>2. PICK b : b = SubSeq(q, 1, m)
    OBVIOUS
  <2>3. (\A j \in 1 .. m : r[j] \in T) /\ (\A j \in 1 .. m : q[j] \in T)
    BY <1>5, <1>6, <1>7, <1>11
  <2>4. a \in Seq(T) /\ Len(a) = m /\ \A j \in 1 .. m : a[j] = r[j]
    BY <2>1, <2>3, SubSeqProperties
  <2>5. b \in Seq(T) /\ Len(b) = m /\ \A j \in 1 .. m : b[j] = q[j]
    BY <2>2, <2>3, SubSeqProperties
  <2>6. (\A j \in 1 .. m : a[j] = b[j]) => a = b
    BY <2>4, <2>5, SeqEqual
  <2> QED
    BY <2>1, <2>2, <2>4, <2>5, <2>6
<1>12. ASSUME m <= n
       PROVE  (\A j \in 1 .. m : r[j] = q[j])
                <=> \A j \in 1 .. m : s[j] = t[n - m + j]
  <2>1. ASSUME \A j \in 1 .. m : r[j] = q[j], NEW j \in 1 .. m
        PROVE  s[j] = t[n - m + j]
    <3>1. PICK i \in 1 .. m : i = (m - j) + 1
      OBVIOUS
    <3>2. r[i] = s[(m - i) + 1] /\ q[i] = t[(n - i) + 1]
      BY <1>5, <1>12, <3>1
    <3>3. (m - i) + 1 = j /\ (n - i) + 1 = n - m + j
      BY <3>1
    <3> QED
      BY <2>1, <3>2, <3>3
  <2>2. ASSUME \A j \in 1 .. m : s[j] = t[n - m + j], NEW j \in 1 .. m
        PROVE  r[j] = q[j]
    <3>1. PICK i \in 1 .. m : i = (m - j) + 1
      OBVIOUS
    <3>2. r[j] = s[i] /\ q[j] = t[(n - j) + 1]
      BY <1>5, <1>12, <3>1
    <3>3. (n - j) + 1 = n - m + i
      BY <3>1
    <3> QED
      BY <2>2, <3>2, <3>3
  <2> QED
    BY <2>1, <2>2
<1> QED
  BY <1>1, <1>2, <1>10, <1>11, <1>12 DEF IsTail

(* Kept leaves what fits; it is a tail of what there was.                  *)
LEMMA KeptIsTail ==
  ASSUME NEW T, NEW s \in Seq(T)
  PROVE  /\ Kept(s) \in Seq(T) /\ IsTail(Kept(s), s)
         /\ Len(Kept(s)) = IF Len(s) > cachecount + 1 THEN cachecount + 1
                           ELSE Len(s)
<1>1. PICK n \in Nat : n = Len(s)
  BY LenProperties
<1>2. PICK k \in Nat : k = cachecount + 1
  BY DapCacheAssumption
<1>3. PICK a \in Nat : a = IF n > k THEN n - cachecount ELSE 1
  <2>1. cachecount \in Nat
    BY DapCacheAssumption
  <2>2. n > k => n - cachecount \in Nat
    BY <1>1, <1>2, <2>1
  <2> QED
    BY <2>2
<1>4. Kept(s) = SubSeq(s, a, n)
  BY <1>1, <1>2, <1>3 DEF Kept
<1>5. a >= 1 /\ n - a + 1 = IF n > k THEN k ELSE n
  BY <1>1, <1>2, <1>3, DapCacheAssumption
<1>6. \A j \in a .. n : s[j] \in T
  BY <1>1, <1>3, <1>5, ElementOfSeq
<1>7. /\ Kept(s) \in Seq(T)
      /\ Len(Kept(s)) = IF a <= n THEN n - a + 1 ELSE 0
      /\ \A j \in 1 .. n - a + 1 : Kept(s)[j] = s[a + j - 1]
  BY <1>3, <1>4, <1>6, SubSeqProperties
<1>8. Len(Kept(s)) = n - a + 1
  BY <1>1, <1>2, <1>3, <1>5, <1>7
<1>9. PICK m \in Nat : m = n - a + 1 /\ m <= n
  BY <1>1, <1>2, <1>5
<1>10. \A j \in 1 .. m : Kept(s)[j] = s[n - m + j]
  <2>1. ASSUME NEW j \in 1 .. m
        PROVE  a + j - 1 = n - m + j
    BY <1>1, <1>3, <1>9
  <2> QED
    BY <1>7, <1>9, <2>1
<1> QED
  BY <1>1, <1>2, <1>5, <1>7, <1>8, <1>9, <1>10 DEF IsTail

(* A hit reorders the list and loses nothing of what it returns.           *)
LEMMA TouchListed ==
  ASSUME \E T : nodes \in Seq(T), NEW i \in DOMAIN nodes, Touch(i)
  PROVE  /\ \E T : nodes' \in Seq(T)
         /\ Listed' \subseteq Listed /\ nodes[i] \in Listed'
<1>1. PICK T : nodes \in Seq(T)
  OBVIOUS
<1>2. /\ Len(nodes) \in Nat /\ i \in 1 .. Len(nodes)
      /\ DOMAIN nodes = 1 .. Len(nodes)
  BY <1>1, LenProperties
<1>3. nodes \in Seq(Listed) /\ nodes[i] \in Listed
  BY <1>1, <1>2, LenProperties, IsASeq DEF Listed
<1> DEFINE before == SubSeq(nodes, 1, i - 1)
           after  == SubSeq(nodes, i + 1, Len(nodes))
<1>4. before \in Seq(Listed) /\ after \in Seq(Listed)
  BY <1>2, <1>3, SubSeqProperties
<1>5. before \o after \in Seq(Listed)
  BY <1>4, ConcatProperties
<1>6. nodes' = Append(before \o after, nodes[i])
  BY DEF Touch, RemoveAt
<1> HIDE DEF before, after
<1>7. /\ nodes' \in Seq(Listed)
      /\ Len(nodes') = Len(before \o after) + 1
      /\ nodes'[Len(before \o after) + 1] = nodes[i]
      /\ DOMAIN nodes' = 1 .. Len(nodes')
  BY <1>3, <1>5, <1>6, AppendProperties, LenProperties
<1>8. Len(nodes') \in DOMAIN nodes' /\ nodes'[Len(nodes')] = nodes[i]
  BY <1>5, <1>7, LenProperties
<1>9. \A j \in DOMAIN nodes' : nodes'[j] \in Listed
  BY <1>7, ElementOfSeq
<1> QED
  BY <1>7, <1>8, <1>9 DEF Listed

(* A fetch adds its node to what is left of the list.                      *)
LEMMA InsertListed ==
  ASSUME \E T : nodes \in Seq(T), NEW node, Insert(node)
  PROVE  /\ \E T : nodes' \in Seq(T)
         /\ Listed' \subseteq Listed \cup {node} /\ node \in Listed'
<1>1. PICK T : nodes \in Seq(T)
  OBVIOUS
<1>2. Len(nodes) \in Nat /\ DOMAIN nodes = 1 .. Len(nodes)
  BY <1>1, LenProperties
<1>3. nodes \in Seq(Listed)
  BY <1>1, <1>2, LenProperties, IsASeq DEF Listed
<1>4. PICK k \in 0 .. Len(nodes) : k = Removed(node)
  BY RoomFound
<1> DEFINE left == SubSeq(nodes, k + 1, Len(nodes))
<1>5. left \in Seq(Listed)
  BY <1>2, <1>3, <1>4, SubSeqProperties
<1>6. nodes' = Append(left, node)
  BY <1>4 DEF Insert
<1> HIDE DEF left
<1>7. left \in Seq(Listed \cup {node}) /\ Len(left) \in Nat
  BY <1>5, SeqMonotonic, LenProperties
<1>8. /\ nodes' \in Seq(Listed \cup {node})
      /\ Len(nodes') = Len(left) + 1
      /\ nodes'[Len(left) + 1] = node
      /\ DOMAIN nodes' = 1 .. Len(nodes')
  BY <1>6, <1>7, AppendProperties, LenProperties
<1>9. Len(nodes') \in DOMAIN nodes' /\ nodes'[Len(nodes')] = node
  BY <1>7, <1>8
<1>10. \A j \in DOMAIN nodes' : nodes'[j] \in Listed \cup {node}
  BY <1>8, ElementOfSeq
<1> QED
  BY <1>8, <1>9, <1>10 DEF Listed

-----------------------------------------------------------------------------
(* Reading what a node has is a read that DapReads allows.                 *)
LEMMA WalkReads ==
  ASSUME NEW node, NEW v \in Vars, NEW cells \in SUBSET Cells[v],
         NEW k \in seen[v] .. server, NEW all,
         cells # {}, cells \subseteq all,
         v \in DOMAIN node.data => node.data[v] = [e \in all |-> k],
         Walk(node, v, cells)
  PROVE  /\ Reads!Read(v, cells) \/ Reads!Fail
         /\ \/ UNCHANGED seen
            \/ v \in DOMAIN node.data /\ seen' = [seen EXCEPT ![v] = k]
         /\ attached' = node /\ UNCHANGED <<controls, prefetch, server>>
<1>1. attached' = node /\ UNCHANGED <<controls, prefetch, server>>
  BY DEF Walk
<1>2. CASE v \in DOMAIN node.data
  <2> DEFINE data == node.data[v]
  <2>1. data = [e \in all |-> k] /\ DOMAIN data = all
    BY <1>2
  <2>2. \A e \in DOMAIN data : data[e] = k
    BY <2>1
  <2>3. data[CHOOSE e \in DOMAIN data : TRUE] = k
    BY <2>1, <2>2
  <2>4. seen' = [seen EXCEPT ![v] = k]
    BY <1>2, <2>3 DEF Walk
  <2>5. [e \in cells |-> IF e \in DOMAIN data THEN data[e] ELSE Failed]
          = [c \in cells |-> k]
    BY <2>1, <2>2
  <2>6. answer' = [var |-> v, data |-> [c \in cells |-> k]]
    BY <1>2, <2>5 DEF Walk
  <2>7. Reads!Read(v, cells)
    BY <1>1, <2>4, <2>6 DEF Reads!Read
  <2> QED
    BY <1>1, <1>2, <2>4, <2>7
<1>3. CASE v \notin DOMAIN node.data
  <2>1. answer' = Failed /\ UNCHANGED seen
    BY <1>3 DEF Walk
  <2> QED
    BY <1>1, <2>1 DEF Reads!Fail
<1> QED
  BY <1>2, <1>3

(* What a server sends has one version; what was asked for as a whole is   *)
(* there as a whole, whether the server took the constraint or not.        *)
LEMMA Answered ==
  ASSUME NEW c, NEW cells, NEW kind, NEW v,
         v \in DOMAIN Response(c, cells, kind)
  PROVE  \E all \in {Cells[v], cells[v]} :
           /\ Response(c, cells, kind)[v] = [e \in all |-> server]
           /\ c.unconstrainable => all = Cells[v]
           /\ ~c.unconstrainable => all = cells[v]
<1> DEFINE sent == IF kind = "unfit" THEN <<>>
                   ELSE IF c.unconstrainable THEN Cells ELSE cells
<1>1. Response(c, cells, kind) = [u \in DOMAIN sent |-> [e \in sent[u] |-> server]]
  BY DEF Response
<1>2. v \in DOMAIN sent /\ Response(c, cells, kind)[v] = [e \in sent[v] |-> server]
  BY <1>1
<1>3. kind # "unfit"
  BY <1>2
<1> QED
  BY <1>2, <1>3

(* A prefetch has the whole of its variables, as the server has them now.  *)
LEMMA PrefetchHolds ==
  ASSUME NEW c, NEW kind, NEW v
  PROVE  /\ PrefetchNode(c, kind).vars = Prefetchable(c)
         /\ v \in Prefetchable(c) => Holds(PrefetchNode(c, kind), v, server)
<1> DEFINE P == Prefetchable(c)
           r == Response(c, Whole(P), kind)
<1>1. PrefetchNode(c, kind).vars = P /\ PrefetchNode(c, kind).data = r
  BY DEF PrefetchNode, Node
<1>2. ASSUME v \in P, v \in DOMAIN r
      PROVE  r[v] = [e \in Cells[v] |-> server]
  <2>1. Whole(P)[v] = Cells[v]
    BY <1>2 DEF Whole
  <2> QED
    BY <1>2, <2>1, Answered
<1> QED
  BY <1>1, <1>2 DEF Holds

-----------------------------------------------------------------------------
(* The steps: each keeps the invariant, and is a step of DapReads or none. *)
LEMMA InitStep == Init => IInv /\ Reads!Init
<1> SUFFICES ASSUME Init
             PROVE  IInv /\ Reads!Init
  OBVIOUS
<1>1. /\ nodes = <<>> /\ prefetch = NoNode /\ attached = NoNode
      /\ server = 0 /\ seen = [v \in Vars |-> 0]
  BY DEF Init
<1>2. Listed = {} /\ \A v : Answers(v) = {}
  BY <1>1 DEF Listed, Answers, NoNode
<1>3. Fresh
  BY <1>1, <1>2 DEF Fresh
<1>4. nodes \in Seq({})
  BY <1>1, EmptySeq
<1> QED
  BY <1>1, <1>3, <1>4 DEF IInv, AttachedAlive, Init, Reads!Init

LEMMA ChangeStep ==
  ASSUME IInv, Change
  PROVE  IInv' /\ Reads!Change
<1>1. server' = server + 1
      /\ UNCHANGED <<controls, prefetch, nodes, attached, seen, answer>>
  BY DEF Change, cache
<1>2. Fresh'
  <2> SUFFICES ASSUME NEW v \in Vars
               PROVE  \E k \in seen'[v] .. server' :
                        \A n \in Answers(v)' : Holds(n, v, k)
    BY DEF Fresh, Holds
  <2>1. PICK k \in seen[v] .. server : \A n \in Answers(v) : Holds(n, v, k)
    BY DEF IInv, Fresh
  <2>2. Answers(v)' = Answers(v)
    BY <1>1 DEF Answers, Listed
  <2>3. k \in seen'[v] .. server'
    BY <1>1, <2>1 DEF IInv
  <2> QED
    BY <2>1, <2>2, <2>3
<1> QED
  BY <1>1, <1>2 DEF IInv, AttachedAlive, Reads!Change

(* A prefetch is made when there is none.                                  *)
LEMMA PrefetchStep ==
  ASSUME IInv, NEW c, NEW kind, prefetch = NoNode,
         prefetch' = PrefetchNode(c, kind) \/ prefetch' = NoNode,
         controls'.open, UNCHANGED <<nodes, attached, server, seen, answer>>
  PROVE  IInv' /\ UNCHANGED Reads!vars
<1>1. Fresh'
  <2> SUFFICES ASSUME NEW v \in Vars
               PROVE  \E k \in seen'[v] .. server' :
                        \A n \in Answers(v)' : Holds(n, v, k)
    BY DEF Fresh, Holds
  <2>1. PICK k \in seen[v] .. server : \A n \in Answers(v) : Holds(n, v, k)
    BY DEF IInv, Fresh
  <2>2. server \in seen[v] .. server /\ Listed' = Listed
    BY <2>1 DEF IInv, Listed
  <2>3. CASE v \in prefetch'.vars
    <3>1. prefetch' = PrefetchNode(c, kind) /\ v \in Prefetchable(c)
      BY <2>3, PrefetchHolds DEF NoNode
    <3>2. \A n \in Answers(v)' : Holds(n, v, server)
      BY <2>3, <3>1, PrefetchHolds DEF Answers
    <3> QED
      BY <2>2, <3>2
  <2>4. CASE v \notin prefetch'.vars
    <3>1. Answers(v)' = Answers(v)
      BY <2>2, <2>4 DEF Answers, NoNode
    <3> QED
      BY <2>1, <3>1
  <2> QED
    BY <2>3, <2>4
<1>2. AttachedAlive'
  BY DEF IInv, AttachedAlive
<1> QED
  BY <1>1, <1>2 DEF IInv, Reads!vars

LEMMA CloseStep ==
  ASSUME IInv, NCD2_close
  PROVE  IInv' /\ UNCHANGED Reads!vars
<1>1. /\ prefetch' = NoNode /\ nodes' = <<>> /\ attached' = NoNode
      /\ UNCHANGED <<server, seen, answer>>
  BY DEF NCD2_close
<1>2. \A v : Answers(v)' = {}
  BY <1>1 DEF Listed, Answers, NoNode
<1>3. Fresh'
  BY <1>1, <1>2 DEF IInv, Fresh
<1>4. nodes' \in Seq({})
  BY <1>1, EmptySeq
<1> QED
  BY <1>1, <1>3, <1>4 DEF IInv, AttachedAlive, Reads!vars

(* A get of v that reads version k of it: nothing else can answer a get of *)
(* v any more but what has that version.                                   *)
LEMMA ReadFresh ==
  ASSUME IInv, NEW v \in Vars, NEW k \in seen[v] .. server, NEW node,
         UNCHANGED seen \/ seen' = [seen EXCEPT ![v] = k],
         UNCHANGED <<server, prefetch>>,
         \A n \in Answers(v)' : Holds(n, v, k),
         \A u \in Vars \ {v} : Answers(u)' \subseteq Answers(u)
  PROVE  Fresh' /\ seen' \in [Vars -> Nat] /\ server' \in Nat
<1>1. k \in Nat /\ seen[v] \in Nat /\ server \in Nat
  BY DEF IInv
<1>2. seen' \in [Vars -> Nat] /\ server' \in Nat
  BY <1>1 DEF IInv
<1>3. ASSUME NEW u \in Vars
      PROVE  \E m \in seen'[u] .. server' : \A n \in Answers(u)' : Holds(n, u, m)
  <2>1. CASE u = v
    <3>1. k \in seen'[v] .. server'
      BY <1>1 DEF IInv
    <3> QED
      BY <2>1, <3>1
  <2>2. CASE u # v
    <3>1. PICK m \in seen[u] .. server : \A n \in Answers(u) : Holds(n, u, m)
      BY DEF IInv, Fresh
    <3>2. seen'[u] = seen[u]
      BY <2>2 DEF IInv
    <3> QED
      BY <2>2, <3>1, <3>2
  <2> QED
    BY <2>1, <2>2
<1>4. Fresh'
  BY <1>3 DEF Fresh, Holds
<1> QED
  BY <1>2, <1>4

LEMMA HitStep ==
  ASSUME IInv, NEW v \in Vars, NEW cells \in SUBSET Cells[v],
         get_cached(v, cells)
  PROVE  IInv' /\ (Reads!Read(v, cells) \/ Reads!Fail)
<1>1. PICK node : /\ node \in Answers(v) /\ Walk(node, v, cells)
                  /\ node \in {prefetch} \cup Listed' /\ Listed' \subseteq Listed
                  /\ \E T : nodes' \in Seq(T)
  <2>1. CASE v \in prefetch.vars
    <3>1. Walk(prefetch, v, cells) /\ UNCHANGED nodes
      BY <2>1 DEF get_cached
    <3> QED
      BY <2>1, <3>1 DEF Answers, Listed, IInv
  <2>2. CASE v \notin prefetch.vars
    <3> DEFINE i == Latest(Hits(v))
    <3>1. Touch(i) /\ Walk(nodes[i], v, cells) /\ Hits(v) # {}
      BY <2>2 DEF get_cached, iscached
    <3>2. i \in Hits(v)
      BY <3>1, LatestFound DEF IInv
    <3>3. i \in DOMAIN nodes /\ nodes[i].wholevariable /\ v \in nodes[i].vars
      BY <3>2 DEF Hits
    <3>4. /\ \E T : nodes' \in Seq(T)
          /\ Listed' \subseteq Listed /\ nodes[i] \in Listed'
      BY <3>1, <3>3, TouchListed DEF IInv
    <3>5. nodes[i] \in Answers(v)
      BY <2>2, <3>3 DEF Answers, Listed
    <3> QED
      BY <3>1, <3>4, <3>5
  <2> QED
    BY <2>1, <2>2
<1>2. PICK k \in seen[v] .. server : \A n \in Answers(v) : Holds(n, v, k)
  BY DEF IInv, Fresh
<1>3. cells # {} /\ controls.open
  BY DEF get_cached
<1>4. v \in DOMAIN node.data => node.data[v] = [e \in Cells[v] |-> k]
  BY <1>1, <1>2 DEF Holds
<1>5. /\ Reads!Read(v, cells) \/ Reads!Fail
      /\ UNCHANGED seen \/ seen' = [seen EXCEPT ![v] = k]
      /\ attached' = node /\ UNCHANGED <<controls, prefetch, server>>
  BY <1>1, <1>3, <1>4, WalkReads
<1>6. \A u : Answers(u)' \subseteq Answers(u)
  BY <1>1, <1>5 DEF Answers
<1>7. Fresh' /\ seen' \in [Vars -> Nat] /\ server' \in Nat
  BY <1>2, <1>5, <1>6, ReadFresh
<1>8. AttachedAlive'
  BY <1>1, <1>5 DEF AttachedAlive, Listed
<1> QED
  BY <1>1, <1>3, <1>5, <1>7, <1>8 DEF IInv

(* What is fetched is what the server has now, and nothing else could have *)
(* answered.                                                               *)
LEMMA FetchStep ==
  ASSUME IInv, NEW v \in Vars, NEW cells \in SUBSET Cells[v], NEW kind,
         get_fetched(v, cells, kind)
  PROVE  IInv' /\ (Reads!Read(v, cells) \/ Reads!Fail)
<1> DEFINE asked == IF controls.wholevar THEN Whole({v})
                    ELSE [u \in {v} |-> cells]
           r     == Response(controls, asked, kind)
           whole == \/ controls.unconstrainable
                    \/ ~controls.selections /\ asked = Whole({v})
<1>1. PICK node : node = Node({v}, r, whole)
  OBVIOUS
<1>2. node.vars = {v} /\ node.data = r /\ node.wholevariable = whole
  BY <1>1 DEF Node
<1>3. /\ Insert(node) /\ Walk(node, v, cells)
      /\ controls.open /\ cells # {} /\ ~iscached(v)
  BY <1>1 DEF get_fetched
<1>4. /\ \E T : nodes' \in Seq(T)
      /\ Listed' \subseteq Listed \cup {node} /\ node \in Listed'
  BY <1>3, InsertListed DEF IInv
<1>5. asked[v] \in {Cells[v], cells} /\ Whole({v})[v] = Cells[v]
  BY DEF Whole
<1>6. PICK all : /\ cells \subseteq all
                 /\ v \in DOMAIN r => r[v] = [e \in all |-> server]
                 /\ whole => all = Cells[v]
  <2>1. CASE v \in DOMAIN r
    <3>1. PICK all \in {Cells[v], asked[v]} :
            /\ r[v] = [e \in all |-> server]
            /\ controls.unconstrainable => all = Cells[v]
            /\ ~controls.unconstrainable => all = asked[v]
      <4>1. PICK ask : ask = asked
        OBVIOUS
      <4>2. PICK all \in {Cells[v], ask[v]} :
              /\ Response(controls, ask, kind)[v] = [e \in all |-> server]
              /\ controls.unconstrainable => all = Cells[v]
              /\ ~controls.unconstrainable => all = ask[v]
        <5>1. v \in DOMAIN Response(controls, ask, kind)
          BY <2>1, <4>1
        <5> QED
          BY <5>1, Answered
      <4> QED
        BY <4>1, <4>2
    <3>2. asked = Whole({v}) => asked[v] = Cells[v]
      BY <1>5
    <3> QED
      BY <1>5, <3>1, <3>2
  <2>2. CASE v \notin DOMAIN r
    BY <2>2
  <2> QED
    BY <2>1, <2>2
<1>7. server \in seen[v] .. server
  BY DEF IInv, Fresh
<1>8. /\ Reads!Read(v, cells) \/ Reads!Fail
      /\ UNCHANGED seen \/ seen' = [seen EXCEPT ![v] = server]
      /\ attached' = node /\ UNCHANGED <<controls, prefetch, server>>
  BY <1>2, <1>3, <1>6, <1>7, WalkReads
<1>9. v \notin prefetch.vars /\ \A n \in Listed : ~(n.wholevariable /\ v \in n.vars)
  BY <1>3 DEF iscached, Hits, Listed
<1>10. \A n \in Answers(v)' : Holds(n, v, server)
  <2>1. \A n \in Answers(v)' : n = node /\ n.wholevariable
    BY <1>4, <1>8, <1>9 DEF Answers
  <2> QED
    BY <1>2, <1>6, <2>1 DEF Holds
<1>11. \A u \in Vars \ {v} : Answers(u)' \subseteq Answers(u)
  BY <1>2, <1>4, <1>8 DEF Answers
<1>12. Fresh' /\ seen' \in [Vars -> Nat] /\ server' \in Nat
  BY <1>7, <1>8, <1>10, <1>11, ReadFresh
<1>13. AttachedAlive'
  BY <1>4, <1>8 DEF AttachedAlive, Listed
<1> QED
  BY <1>3, <1>4, <1>8, <1>12, <1>13 DEF IInv

LEMMA NextStep ==
  ASSUME IInv, [Next]_vars
  PROVE  IInv' /\ [Reads!Next]_(Reads!vars)
<1>1. CASE UNCHANGED vars
  BY <1>1 DEF vars, cache, IInv, Fresh, Answers, Holds, Listed, AttachedAlive,
              Reads!vars
<1>2. CASE Change
  BY <1>2, ChangeStep DEF Reads!Next
<1>3. ASSUME NEW c \in Controls, NEW kind \in Kinds, NCD2_open(c, kind)
      PROVE  IInv' /\ UNCHANGED Reads!vars
  <2>1. /\ ~controls.open /\ prefetch' \in {PrefetchNode(c, kind), NoNode}
        /\ UNCHANGED <<nodes, attached, server, seen, answer>>
    BY <1>3 DEF NCD2_open
  <2>2. controls'.open
    BY <1>3 DEF NCD2_open, Controls
  <2>3. prefetch = NoNode
    BY <2>1 DEF IInv
  <2> QED
    BY <2>1, <2>2, <2>3, PrefetchStep
<1>4. CASE NCD2_close
  BY <1>4, CloseStep
<1>5. ASSUME NEW kind \in Kinds, lazy_prefetch(kind)
      PROVE  IInv' /\ UNCHANGED Reads!vars
  <2>1. /\ prefetch = NoNode /\ prefetch' = PrefetchNode(controls, kind)
        /\ controls'.open /\ UNCHANGED <<nodes, attached, server, seen, answer>>
    BY <1>5 DEF lazy_prefetch, Prefetches
  <2> QED
    BY <2>1, PrefetchStep
<1>6. ASSUME NEW v \in Vars, NEW cells \in SUBSET Cells[v],
             \/ get_cached(v, cells)
             \/ \E kind \in Kinds : get_fetched(v, cells, kind)
             \/ get_fails(v, cells)
      PROVE  IInv' /\ (Reads!Read(v, cells) \/ Reads!Fail)
  <2>1. CASE get_fails(v, cells)
    <3>1. answer' = Failed
          /\ UNCHANGED <<controls, prefetch, nodes, attached, server, seen>>
      BY <2>1 DEF get_fails, cache
    <3>2. Fresh' /\ AttachedAlive'
      BY <3>1 DEF IInv, Fresh, Answers, Holds, Listed, AttachedAlive
    <3> QED
      BY <3>1, <3>2 DEF IInv, Reads!Fail
  <2> QED
    BY <1>6, <2>1, HitStep, FetchStep
<1>7. (\E v \in Vars : \E cells \in SUBSET Cells[v] : Reads!Read(v, cells))
      \/ Reads!Fail => Reads!Next
  BY DEF Reads!Next
<1> QED
  BY <1>1, <1>2, <1>3, <1>4, <1>5, <1>6, <1>7 DEF Next

(* The DDS is attached to a response that exists, or to none: no order of  *)
(* hits, fetches and evictions leaves it with one that was freed           *)
(* (nc3d_getvarx detaches and attaches, buildcachenode frees).             *)
THEOREM NeverDetached == Spec => []AttachedAlive
<1>1. IInv /\ [Next]_vars => IInv'
  BY NextStep
<1>2. Init => IInv
  BY InitStep
<1>3. IInv => AttachedAlive
  BY DEF IInv
<1> QED
  BY <1>1, <1>2, <1>3, PTL DEF Spec

(* DapCache implements DapReads: with the cache, whatever it holds, a get  *)
(* returns the elements it asks for, of one version, and never of an older *)
(* one than before.                                                        *)
THEOREM CacheImplementsReads == Spec => ReadsForward
<1>1. IInv /\ [Next]_vars => IInv' /\ [Reads!Next]_(Reads!vars)
  BY NextStep
<1>2. Init => IInv /\ Reads!Init
  BY InitStep
<1> QED
  BY <1>1, <1>2, PTL DEF Spec, ReadsForward, Reads!Spec

-----------------------------------------------------------------------------
(* The limits and the order of the list                                    *)

(* The inductive invariant: with the history as long as the list can be,   *)
(* the list is its tail, and every node has the size that is accounted.    *)
LInv ==
  /\ IInv /\ LimitsKept
  /\ Sized(nodes)
  /\ \E T : nodes \in Seq(T) /\ uses \in Seq(T)
  /\ Len(uses) <= cachecount + 1 /\ IsTail(nodes, uses)

(* What a fetch and a hit leave                                            *)
ListKept ==
  /\ cachesize = SumSize(nodes) /\ cachesize \in Nat
  /\ cachesize <= cachelimit \/ Len(nodes) <= 1
  /\ controls.open => Len(nodes) <= Count + 1
  /\ Sized(nodes)
  /\ \E T : nodes \in Seq(T) /\ uses \in Seq(T)
  /\ Len(uses) <= cachecount + 1 /\ IsTail(nodes, uses)

(* The number of responses that is asked for                               *)
LEMMA CountType == Count \in Nat /\ Count <= cachecount
BY DapCacheAssumption DEF Count

(* Of two tails the shorter is a tail of the longer.                       *)
LEMMA TailOfTail ==
  ASSUME NEW a, NEW b, NEW c, Len(a) \in Nat, Len(b) \in Nat, Len(c) \in Nat,
         IsTail(a, c), IsTail(b, c), Len(a) <= Len(b)
  PROVE  IsTail(a, b)
<1>1. PICK l \in Nat : l = Len(a)
  OBVIOUS
<1>2. PICK m \in Nat : m = Len(b)
  OBVIOUS
<1>3. PICK n \in Nat : n = Len(c)
  OBVIOUS
<1>4. /\ l <= m /\ m <= n
      /\ \A j \in 1 .. l : a[j] = c[n - l + j]
      /\ \A j \in 1 .. m : b[j] = c[n - m + j]
  BY <1>1, <1>2, <1>3 DEF IsTail
<1>5. ASSUME NEW j \in 1 .. l
      PROVE  a[j] = b[m - l + j]
  <2>1. PICK i \in 1 .. m : i = m - l + j
    <3>1. m - l + j \in 1 .. m
      BY <1>1, <1>2, <1>4
    <3> QED
      BY <3>1
  <2>2. n - m + i = n - l + j
    BY <1>1, <1>2, <1>3, <2>1
  <2> QED
    BY <1>4, <2>1, <2>2
<1> QED
  BY <1>1, <1>2, <1>4, <1>5 DEF IsTail

(* A hit moves the same node to the end of the list and of the history.    *)
IsTailAt(a, m, b, n, d) ==
  /\ m \in Nat /\ n \in Nat /\ d \in Nat /\ d = n - m
  /\ \A j \in 1 .. m : a[j] = b[d + j]
SamePlace(i, k, d) == k = d + i

LEMMA MovedTail ==
  ASSUME NEW a, NEW b, NEW c, NEW e, NEW m, NEW n, NEW d, NEW i, NEW k,
         IsTailAt(a, m, b, n, d), SamePlace(i, k, d),
         IsMoved(c, a, i, m), IsMoved(e, b, k, n)
  PROVE  IsTailAt(c, m, e, n, d)
<1> USE DEF IsTailAt, SamePlace
<1>1. /\ i \in 1 .. m /\ k \in 1 .. n
      /\ \A j \in 1 .. m : c[j] = IF j < i THEN a[j]
                                  ELSE IF j < m THEN a[j + 1] ELSE a[i]
      /\ \A j \in 1 .. n : e[j] = IF j < k THEN b[j]
                                  ELSE IF j < n THEN b[j + 1] ELSE b[k]
  BY DEF IsMoved
<1>2. ASSUME NEW j \in 1 .. m
      PROVE  c[j] = e[d + j]
  <2>1. PICK p \in 1 .. n : p = d + j
    OBVIOUS
  <2>2. CASE j < i
    <3>1. p < k
      BY <1>1, <2>1, <2>2
    <3>2. c[j] = a[j] /\ e[p] = b[p]
      BY <1>1, <2>2, <3>1
    <3> QED
      BY <2>1, <3>2
  <2>3. CASE ~(j < i) /\ j < m
    <3>1. ~(p < k) /\ p < n /\ j + 1 \in 1 .. m /\ p + 1 = d + (j + 1)
      BY <1>1, <2>1, <2>3
    <3>2. c[j] = a[j + 1] /\ e[p] = b[p + 1]
      BY <1>1, <2>3, <3>1
    <3> QED
      BY <2>1, <3>1, <3>2
  <2>4. CASE ~(j < i) /\ ~(j < m)
    <3>1. ~(p < k) /\ ~(p < n)
      BY <1>1, <2>1, <2>4
    <3>2. c[j] = a[i] /\ e[p] = b[k]
      BY <1>1, <2>4, <3>1
    <3> QED
      BY <1>1, <2>1, <3>2
  <2> QED
    BY <2>2, <2>3, <2>4
<1> QED
  BY <1>2

LastAt(s, e) == SelectLastInSeq(s, LAMBDA n : n = e)

(* The last use of a hit is where the list has it: the hit that is taken   *)
(* is the latest one, so nothing after it is equal to it.                  *)
LEMMA LastUse ==
  ASSUME LInv, NEW v, Hits(v) # {}, NEW i, i = Latest(Hits(v))
  PROVE  /\ i \in 1 .. Len(nodes)
         /\ LastAt(uses, nodes[i]) = Len(uses) - Len(nodes) + i
<1>1. PICK T : nodes \in Seq(T) /\ uses \in Seq(T)
  BY DEF LInv
<1>2. PICK m \in Nat : m = Len(nodes) /\ DOMAIN nodes = 1 .. m
  BY <1>1, LenProperties
<1>3. PICK n \in Nat : n = Len(uses)
  BY <1>1, LenProperties
<1>4. i \in Hits(v) /\ \A j \in Hits(v) : j <= i
  <2>1. \E j \in Hits(v) : \A k \in Hits(v) : k <= j
    <3>1. \A j \in Hits(v) : j \in Nat /\ m - j \in Nat
      BY <1>2 DEF Hits
    <3>2. PICK S : S = {m - j : j \in Hits(v)}
      OBVIOUS
    <3>3. S \subseteq Nat /\ S # {}
      BY <3>1, <3>2
    <3>4. PICK l \in S : \A j \in S : l <= j
      BY <3>3, LeastNatural
    <3>5. PICK j \in Hits(v) : l = m - j
      BY <3>2, <3>4
    <3>6. ASSUME NEW k \in Hits(v)
          PROVE  k <= j
      <4>1. m - j <= m - k
        BY <3>2, <3>4, <3>5
      <4> QED
        BY <1>2, <3>1, <4>1
    <3> QED
      BY <3>6
  <2> QED
    BY <2>1 DEF Latest
<1>5. i \in 1 .. m /\ nodes[i].wholevariable /\ v \in nodes[i].vars
  BY <1>2, <1>4 DEF Hits
<1>6. m <= n /\ \A j \in 1 .. m : nodes[j] = uses[n - m + j]
  BY <1>2, <1>3 DEF LInv, IsTail
<1>7. PICK I : I = {j \in 1 .. Len(uses) : uses[j] = nodes[i]}
  OBVIOUS
<1>8. PICK k \in 1 .. n : k = n - m + i
  BY <1>2, <1>3, <1>5, <1>6
<1>9. k \in I
  BY <1>3, <1>5, <1>6, <1>7, <1>8
<1>10. ASSUME NEW j \in I
       PROVE  j <= k
  <2> SUFFICES ASSUME ~(j <= k)
               PROVE  FALSE
    OBVIOUS
  <2>1. j \in 1 .. n /\ uses[j] = nodes[i]
    BY <1>3, <1>7
  <2>2. PICK p \in 1 .. m : j = n - m + p /\ ~(p <= i)
    <3>1. j - (n - m) \in 1 .. m /\ ~(j - (n - m) <= i) /\ j = n - m + (j - (n - m))
      BY <1>2, <1>3, <1>5, <1>6, <1>8, <2>1
    <3> QED
      BY <3>1
  <2>3. nodes[p] = nodes[i]
    BY <1>6, <2>1, <2>2
  <2>4. p \in Hits(v)
    BY <1>2, <1>5, <2>3 DEF Hits
  <2> QED
    BY <1>4, <2>2, <2>4
<1>11. Max(I) = k
  <2>1. \A x \in I : (\A y \in I : x >= y) <=> x = k
    <3>1. \A x \in I : x \in Nat
      BY <1>3, <1>7
    <3> QED
      BY <1>9, <1>10, <3>1
  <2> QED
    BY <1>9, <2>1 DEF Max
<1>12. LastAt(uses, nodes[i]) = IF I # {} THEN Max(I) ELSE 0
  BY <1>7 DEF LastAt, SelectLastInSeq
<1> QED
  BY <1>2, <1>3, <1>5, <1>8, <1>9, <1>11, <1>12

(* A hit changes the order of the list and of the history in the same way. *)
LEMMA HitList ==
  ASSUME LInv, controls.open, UNCHANGED controls,
         NEW v, Hits(v) # {}, NEW i, i = Latest(Hits(v)),
         Touch(i), Used(nodes[i], TRUE)
  PROVE  ListKept'
<1>1. PICK T : nodes \in Seq(T) /\ uses \in Seq(T)
  BY DEF LInv
<1>2. PICK m \in Nat : m = Len(nodes)
  BY <1>1, LenProperties
<1>3. PICK n \in Nat : n = Len(uses)
  BY <1>1, LenProperties
<1>4. m <= n /\ \A j \in 1 .. m : nodes[j] = uses[n - m + j]
  BY <1>2, <1>3 DEF LInv, IsTail
<1>5. PICK d \in Nat : d = n - m
  BY <1>4
<1>6. i \in 1 .. m /\ LastAt(uses, nodes[i]) = n - m + i
  BY <1>2, <1>3, LastUse
<1>7. PICK k \in 1 .. n : k = d + i
  BY <1>4, <1>5, <1>6
<1>8. nodes[i] = uses[k]
  BY <1>4, <1>5, <1>6, <1>7
<1>9. PICK u : u = Append(RemoveAt(uses, k), uses[k])
  OBVIOUS
<1>10. uses' = Kept(u)
  <2>1. LastAt(uses, nodes[i]) = k
    BY <1>5, <1>6, <1>7
  <2> QED
    BY <1>8, <1>9, <2>1 DEF Used, LastAt
<1>11. nodes' = Append(RemoveAt(nodes, i), nodes[i]) /\ cachesize' = cachesize
  BY DEF Touch
<1>12. nodes' \in Seq(T) /\ Len(nodes') = m /\ IsMoved(nodes', nodes, i, m)
  <2>1. i \in 1 .. Len(nodes)
    BY <1>2, <1>6
  <2>2. PICK moved : moved = Append(RemoveAt(nodes, i), nodes[i])
    OBVIOUS
  <2>3. PICK p : p = i
    OBVIOUS
  <2>4. p \in 1 .. Len(nodes) /\ moved = Append(RemoveAt(nodes, p), nodes[p])
    BY <2>1, <2>2, <2>3
  <2>5. /\ moved \in Seq(T) /\ Len(moved) = Len(nodes)
        /\ IsMoved(moved, nodes, p, Len(nodes))
    BY <1>1, <2>4, MovedToEnd
  <2> QED
    BY <1>2, <1>11, <2>2, <2>3, <2>5
<1>13. u \in Seq(T) /\ Len(u) = n /\ IsMoved(u, uses, k, n)
  <2>1. k \in 1 .. Len(uses)
    BY <1>3, <1>7
  <2>2. u \in Seq(T) /\ Len(u) = Len(uses) /\ IsMoved(u, uses, k, Len(uses))
    BY <1>1, <1>9, <2>1, MovedToEnd
  <2> QED
    BY <1>3, <2>2
<1>14. uses' \in Seq(T) /\ Len(uses') = n /\ n <= cachecount + 1
       /\ \A j \in 1 .. n : uses'[j] = u[j]
  <2>1. n <= cachecount + 1 /\ cachecount \in Nat
    BY <1>3, DapCacheAssumption DEF LInv
  <2>2. /\ uses' \in Seq(T) /\ IsTail(uses', u)
        /\ Len(uses') = IF Len(u) > cachecount + 1 THEN cachecount + 1 ELSE Len(u)
    BY <1>10, <1>13, KeptIsTail
  <2>3. Len(uses') = n
    BY <1>13, <2>1, <2>2
  <2>4. \A j \in 1 .. n : uses'[j] = u[n - n + j]
    BY <1>13, <2>2, <2>3 DEF IsTail
  <2> QED
    BY <2>1, <2>2, <2>3, <2>4
<1>15. \A j \in 1 .. m : nodes'[j] = u[d + j]
  <2>1. IsTailAt(nodes, m, uses, n, d) /\ SamePlace(i, k, d)
    BY <1>2, <1>3, <1>4, <1>5, <1>7 DEF IsTailAt, SamePlace
  <2>2. IsTailAt(nodes', m, u, n, d)
    BY <1>12, <1>13, <2>1, MovedTail, Zenon
  <2> QED
    BY <2>2 DEF IsTailAt
<1>16. IsTail(nodes, uses)'
  <2>1. ASSUME NEW j \in 1 .. m
        PROVE  nodes'[j] = uses'[n - m + j]
    <3>1. d + j \in 1 .. n /\ n - m + j = d + j
      BY <1>4, <1>5
    <3> QED
      BY <1>14, <1>15, <3>1
  <2> QED
    BY <1>4, <1>12, <1>14, <2>1 DEF IsTail
<1>17. Sized(nodes) /\ cachesize = SumSize(nodes) /\ cachesize \in Nat
  BY DEF LInv, LimitsKept, TypeOK
<1>18. PICK total : IsTotal(total, nodes)
  BY <1>1, <1>17, TotalExists
<1>19. SumSize(nodes)' = SumSize(nodes)
  <2>1. SumSize(nodes) = total[m]
    BY <1>1, <1>2, <1>18, SumSizeIs
  <2>2. \A s : s = Append(RemoveAt(nodes, i), nodes[i]) => SumSize(s) = total[m]
    BY <1>1, <1>2, <1>6, <1>18, SizeOfMoved
  <2> QED
    BY <1>11, <2>1, <2>2
<1>20. Sized(nodes)'
  <2>1. \A j \in 1 .. m : \E p \in 1 .. m : nodes'[j] = nodes[p]
    BY <1>12 DEF IsMoved
  <2> QED
    BY <1>2, <1>12, <1>17, <2>1 DEF Sized
<1>21. /\ cachesize <= cachelimit \/ m <= 1
       /\ m <= Count + 1 /\ Count' = Count
  BY <1>2 DEF LInv, LimitsKept, Count
<1> QED
  BY <1>11, <1>12, <1>14, <1>16, <1>17, <1>19, <1>20, <1>21 DEF ListKept

(* Where a node of the list stands in the history after a fetch            *)
LEMMA IndexAfter ==
  ASSUME NEW m \in Nat, NEW n \in Nat, NEW k \in 0 .. m, NEW l \in Nat,
         l = m - k + 1, NEW j \in 1 .. l
  PROVE  n + 1 - l + j = n - m + (k + j)
OBVIOUS

(* A fetch: what made room is taken off the account, the node is added to  *)
(* both ends.                                                              *)
LEMMA FetchList ==
  ASSUME LInv, controls.open, UNCHANGED controls, NEW node,
         node.xdrsize \in Nat, Insert(node), Used(node, FALSE)
  PROVE  ListKept'
<1>1. PICK S : nodes \in Seq(S) /\ uses \in Seq(S)
  BY DEF LInv
<1>2. PICK T : T = S \cup {node}
  OBVIOUS
<1>3. nodes \in Seq(T) /\ uses \in Seq(T) /\ node \in T
  BY <1>1, <1>2, SeqMonotonic
<1>4. PICK m \in Nat : m = Len(nodes)
  BY <1>1, LenProperties
<1>5. PICK n \in Nat : n = Len(uses)
  BY <1>1, LenProperties
<1>6. m <= n /\ \A j \in 1 .. m : nodes[j] = uses[n - m + j]
  BY <1>4, <1>5 DEF LInv, IsTail
<1>7. PICK k \in 0 .. m : k = Removed(node) /\ Room(k, node)
  <2>1. Removed(node) \in 0 .. m /\ Room(Removed(node), node)
    BY <1>3, <1>4, RoomFound
  <2> QED
    BY <2>1
<1>8. nodes' = Append(SubSeq(nodes, k + 1, Len(nodes)), node)
      /\ cachesize' = cachesize + node.xdrsize - SumSize(SubSeq(nodes, 1, k))
  BY <1>7 DEF Insert
<1>9. PICK l \in Nat : /\ nodes' \in Seq(T) /\ Len(nodes') = l
                      /\ IsRest(nodes', l, nodes, m, k, node)
  BY <1>3, <1>4, <1>7, <1>8, DroppedAndAdded
<1>10. /\ l = m - k + 1 /\ nodes'[l] = node
       /\ \A j \in 1 .. l - 1 : nodes'[j] = nodes[k + j]
  BY <1>9 DEF IsRest
<1>11. PICK u : u = Append(uses, node)
  OBVIOUS
<1>12. uses' = Kept(u)
  BY <1>11 DEF Used
<1>13. /\ u \in Seq(T) /\ Len(u) = n + 1 /\ u[n + 1] = node
       /\ \A j \in 1 .. n : u[j] = uses[j]
  BY <1>3, <1>5, <1>11, AppendProperties
<1>14. IsTail(nodes', u)
  <2>1. l <= n + 1
    BY <1>4, <1>5, <1>6, <1>7, <1>10
  <2>2. ASSUME NEW j \in 1 .. l
        PROVE  nodes'[j] = u[n + 1 - l + j]
    <3>1. CASE j = l
      BY <1>5, <1>10, <1>13, <3>1
    <3>2. CASE j # l
      <4>1. /\ j \in 1 .. l - 1 /\ k + j \in 1 .. m
            /\ n + 1 - l + j = n - m + (k + j)
            /\ n - m + (k + j) \in 1 .. n
        <5>1. j \in 1 .. l - 1 /\ k + j \in 1 .. m
          BY <1>4, <1>7, <1>9, <1>10, <3>2
        <5>2. n + 1 - l + j = n - m + (k + j)
          <6>1. j \in 1 .. l /\ l = m - k + 1
            BY <1>10
          <6>2. k \in 0 .. m
            BY <1>7
          <6> QED
            BY <1>4, <1>5, <1>9, <6>1, <6>2, IndexAfter
        <5>3. n - m + (k + j) \in 1 .. n
          BY <1>4, <1>5, <1>6, <5>1
        <5> QED
          BY <5>1, <5>2, <5>3
      <4> QED
        BY <1>6, <1>10, <1>13, <4>1
    <3> QED
      BY <3>1, <3>2
  <2> QED
    BY <1>9, <1>13, <2>1, <2>2 DEF IsTail
<1>15. /\ uses' \in Seq(T) /\ IsTail(uses', u)
       /\ Len(uses') = IF n + 1 > cachecount + 1 THEN cachecount + 1 ELSE n + 1
  BY <1>12, <1>13, KeptIsTail
<1>16. l <= Count + 1
  <2>1. m - k <= Count
    BY <1>4, <1>7 DEF Room
  <2> QED
    BY <1>4, <1>7, <1>10, <2>1, CountType
<1>17. Len(uses') \in Nat /\ Len(uses') <= cachecount + 1 /\ l <= Len(uses')
  <2>1. l <= n + 1
    BY <1>4, <1>5, <1>6, <1>7, <1>10
  <2>2. cachecount \in Nat /\ l <= cachecount + 1
    BY <1>9, <1>16, CountType, DapCacheAssumption
  <2> QED
    BY <1>15, <2>1, <2>2
<1>18. IsTail(nodes, uses)'
  <2>1. Len(u) \in Nat /\ Len(nodes') \in Nat /\ Len(nodes') <= Len(uses')
    BY <1>9, <1>13, <1>17
  <2> QED
    BY <1>14, <1>15, <1>17, <2>1, TailOfTail
<1>19. Sized(nodes) /\ cachesize = SumSize(nodes) /\ cachesize \in Nat
  BY DEF LInv, LimitsKept, TypeOK
<1>20. PICK total : IsTotal(total, nodes)
  BY <1>1, <1>19, TotalExists
<1>21. /\ SumSize(nodes) = total[m] /\ SumSize(SubSeq(nodes, 1, k)) = total[k]
       /\ SumSize(nodes)' = total[m] - total[k] + node.xdrsize
  <2>1. SumSize(nodes) = total[m]
    BY <1>3, <1>4, <1>20, SumSizeIs
  <2>2. SumSize(SubSeq(nodes, 1, k)) = total[k]
    BY <1>3, <1>4, <1>7, <1>20, SizeOfFirst
  <2>3. SumSize(nodes') = RestSum(total, Len(nodes), k, node.xdrsize)
    <3>1. k \in 0 .. Len(nodes)
      BY <1>4, <1>7
    <3> QED
      BY <1>3, <1>8, <1>20, <3>1, SizeOfInserted, Zenon
  <2> QED
    BY <1>4, <2>1, <2>2, <2>3 DEF RestSum
<1>22. total[m] \in Int /\ total[k] \in Int
  BY <1>4, <1>7, <1>20 DEF IsTotal, PartialSums
<1>23. cachesize' = SumSize(nodes)'
  BY <1>8, <1>19, <1>21, <1>22
<1>24. Sized(nodes)'
  <2> SUFFICES ASSUME NEW j \in 1 .. l
               PROVE  nodes'[j].xdrsize \in Nat
    BY <1>9 DEF Sized
  <2>1. CASE j = l
    BY <1>10, <2>1
  <2>2. CASE j # l
    <3>1. j \in 1 .. l - 1 /\ k + j \in 1 .. m
      BY <1>4, <1>7, <1>9, <1>10, <2>2
    <3> QED
      BY <1>4, <1>10, <1>19, <3>1 DEF Sized
  <2> QED
    BY <2>1, <2>2
<1>25. cachesize' \in Nat
  <2>1. PICK t : IsTotal(t, nodes') /\ t[Len(nodes')] \in Nat
    BY <1>9, <1>24, TotalExists
  <2> QED
    BY <1>9, <1>23, <2>1, SumSizeIs
<1>26. cachesize' <= cachelimit \/ Len(nodes') <= 1
  <2>1. CASE k = m
    BY <1>4, <1>9, <1>10, <2>1
  <2>2. CASE k # m
    <3>1. cachesize - SumSize(SubSeq(nodes, 1, k)) + node.xdrsize <= cachelimit
      BY <1>4, <1>7, <2>2 DEF Room
    <3>2. cachesize' = cachesize - SumSize(SubSeq(nodes, 1, k)) + node.xdrsize
      BY <1>8, <1>19, <1>21, <1>22
    <3> QED
      BY <3>1, <3>2
  <2> QED
    BY <2>1, <2>2
<1> QED
  BY <1>9, <1>15, <1>16, <1>17, <1>18, <1>23, <1>24, <1>25, <1>26
     DEF ListKept, Count

-----------------------------------------------------------------------------
(* The types, and the size of a node                                       *)

CountFold(f, D, data) ==
  f = [x \in SUBSET D |->
         IF x = {} THEN 0
         ELSE Cardinality(DOMAIN data[CHOOSE e \in x : TRUE])
              + f[x \ {CHOOSE e \in x : TRUE}]]

IsData(data) ==
  /\ DOMAIN data \subseteq Vars
  /\ \A v \in DOMAIN data : DOMAIN data[v] \subseteq Cells[v]

(* buildcachenode adds up the sizes of what the response has.              *)
LEMMA DataSizeType ==
  ASSUME NEW data, IsData(data)
  PROVE  DataSize(data) \in Nat
<1>1. PICK D : D = DOMAIN data
  OBVIOUS
<1>2. IsFiniteSet(D)
  BY <1>1, FS_Subset, DapCacheAssumption DEF IsData
<1>3. \A v \in D : Cardinality(DOMAIN data[v]) \in Nat
  BY <1>1, FS_Subset, FS_CardinalityType, DapCacheAssumption DEF IsData
<1>4. PICK pick : pick = [x \in (SUBSET D) \ {{}} |-> CHOOSE e \in x : TRUE]
  OBVIOUS
<1>5. PICK step : step = [p \in D \X Nat |-> Cardinality(DOMAIN data[p[1]]) + p[2]]
  OBVIOUS
<1>6. step \in [D \X Nat -> Nat] /\ \A i \in D, m \in Nat :
        step[<<i, m>>] = Cardinality(DOMAIN data[i]) + m
  BY <1>3, <1>5
<1>7. \A x \in (SUBSET D) \ {{}} : pick[x] \in x
  BY <1>4
<1>8. PICK g : IsFold(g, D, Nat, 0, pick, step)
  <2>1. pick \in [(SUBSET D) \ {{}} -> D]
    BY <1>4, <1>7
  <2>2. CanFold(D, Nat, 0, pick, step)
    BY <1>2, <1>6, <1>7, <2>1 DEF CanFold
  <2> QED
    BY <2>2, FoldExists
<1>9. CountFold(g, D, data)
  <2>1. ASSUME NEW x \in SUBSET D
        PROVE  g[x] = IF x = {} THEN 0
                      ELSE Cardinality(DOMAIN data[CHOOSE e \in x : TRUE])
                           + g[x \ {CHOOSE e \in x : TRUE}]
    <3>1. CASE x # {}
      <4>1. PICK e : e = pick[x]
        OBVIOUS
      <4>2. e = (CHOOSE d \in x : TRUE) /\ e \in x
        BY <1>4, <1>7, <3>1, <4>1
      <4>3. g[x] = step[<<e, g[x \ {e}]>>] /\ g[x \ {e}] \in Nat
        BY <1>8, <3>1, <4>1, <4>2 DEF IsFold
      <4> QED
        BY <1>6, <3>1, <4>2, <4>3
    <3> QED
      BY <1>8, <3>1 DEF IsFold
  <2> QED
    BY <1>8, <2>1 DEF CountFold, IsFold
<1>10. PICK f : /\ f = CHOOSE h : CountFold(h, D, data)
                /\ CountFold(f, D, data)
  BY <1>9
<1>11. DataSize(data) = f[D]
  BY <1>1, <1>10 DEF DataSize, MapThenSumSet, MapThenFoldSet, CountFold
<1>12. ASSUME NEW x \in (SUBSET D) \ {{}}
       PROVE  \E e \in x : f[x \ {e}] \in Nat => f[x] \in Nat
  <2>1. PICK e : e = CHOOSE d \in x : TRUE
    OBVIOUS
  <2>2. e \in x /\ e \in D
    BY <2>1
  <2>3. f[x] = Cardinality(DOMAIN data[e]) + f[x \ {e}]
    BY <1>10, <2>1 DEF CountFold
  <2>4. f[x \ {e}] \in Nat => f[x] \in Nat
    BY <1>3, <2>2, <2>3
  <2> QED
    BY <2>2, <2>4
<1>13. f[{}] \in Nat
  <2>1. \A x \in SUBSET D : x = {} => f[x] = 0
    BY <1>10 DEF CountFold
  <2>2. {} \in SUBSET D
    OBVIOUS
  <2>3. f[{}] = 0
    BY <2>1, <2>2
  <2> QED
    BY <2>3
<1>14. \A x \in SUBSET D : f[x] \in Nat
  BY <1>2, <1>12, <1>13, FoldValues
<1> QED
  BY <1>11, <1>14

(* A response has nothing but elements of the variables.                   *)
LEMMA ResponseType ==
  ASSUME NEW c, NEW cells, NEW kind, DOMAIN cells \subseteq Vars,
         \A v \in DOMAIN cells : cells[v] \subseteq Cells[v]
  PROVE  IsData(Response(c, cells, kind))
<1> DEFINE sent == IF kind = "unfit" THEN <<>>
                   ELSE IF c.unconstrainable THEN Cells ELSE cells
<1>1. DOMAIN sent \subseteq Vars
  BY DapCacheAssumption
<1>2. \A v \in DOMAIN sent : sent[v] \subseteq Cells[v]
  BY DapCacheAssumption
<1>3. PICK s : s = sent
  OBVIOUS
<1>4. Response(c, cells, kind) = [v \in DOMAIN s |-> [e \in s[v] |-> server]]
  BY <1>3 DEF Response
<1> QED
  BY <1>1, <1>2, <1>3, <1>4 DEF IsData

(* A node of a response is a node, and has a size.                         *)
LEMMA NodeType ==
  ASSUME NEW vs, vs \subseteq Vars, NEW data, IsData(data), NEW whole
  PROVE  IsNode(Node(vs, data, whole)) /\ Node(vs, data, whole).xdrsize \in Nat
BY DataSizeType DEF Node, IsNode, NoNode, IsData

(* So is a prefetch, and the place that none has been made into.           *)
LEMMA PrefetchType ==
  ASSUME NEW c, NEW kind
  PROVE  IsNode(PrefetchNode(c, kind)) /\ IsNode(NoNode)
<1>1. Prefetchable(c) \subseteq Vars
  BY DapCacheAssumption DEF Prefetchable
<1>2. IsData(Response(c, Whole(Prefetchable(c)), kind))
  BY <1>1, ResponseType DEF Whole
<1>3. IsNode(NoNode)
  BY DEF IsNode, NoNode
<1> QED
  BY <1>1, <1>2, <1>3, NodeType DEF PrefetchNode

-----------------------------------------------------------------------------
(* The steps and the limits                                                *)

(* What LimitsKept says of the nodes, by what is listed                    *)
LEMMA ListedType ==
  TypeOK <=> /\ controls \in Controls \cup {Closed}
             /\ IsNode(prefetch) /\ IsNode(attached)
             /\ \A n \in Listed : IsNode(n)
             /\ cachesize \in Nat /\ server \in 0 .. MaxVersion
BY DEF TypeOK, Listed

(* The empty list                                                          *)
LEMMA LimitsInit == Init => LInv
<1> SUFFICES ASSUME Init
             PROVE  LInv
  OBVIOUS
<1>1. /\ nodes = <<>> /\ uses = <<>> /\ cachesize = 0 /\ server = 0
      /\ controls = Closed /\ prefetch = NoNode /\ attached = NoNode
  BY DEF Init
<1>2. IInv
  BY InitStep
<1>3. TypeOK
  BY <1>1, PrefetchType, DapCacheAssumption DEF TypeOK
<1>4. nodes \in Seq({}) /\ uses \in Seq({}) /\ Len(nodes) = 0 /\ Len(uses) = 0
  BY <1>1, EmptySeq
<1>5. Sized(nodes) /\ IsTail(nodes, uses)
  BY <1>4 DEF Sized, IsTail
<1>6. SumSize(nodes) = 0
  <2>1. PICK total : IsTotal(total, nodes)
    BY <1>4, <1>5, TotalExists
  <2>2. SumSize(nodes) = total[Len(nodes)]
    BY <1>4, <2>1, SumSizeIs
  <2> QED
    BY <1>4, <2>1, <2>2 DEF IsTotal, PartialSums
<1>7. LimitsKept
  BY <1>1, <1>3, <1>4, <1>6 DEF LimitsKept, Closed
<1>8. Len(uses) <= cachecount + 1
  BY <1>4, DapCacheAssumption
<1> QED
  BY <1>2, <1>4, <1>5, <1>7, <1>8 DEF LInv

(* The list is left alone, by an open that finds none as well.             *)
LEMMA ListSame ==
  ASSUME LInv, IInv', UNCHANGED <<nodes, cachesize, uses>>,
         UNCHANGED controls \/ nodes = <<>>,
         controls' \in Controls \cup {Closed}, IsNode(prefetch'),
         IsNode(attached'), server' \in 0 .. MaxVersion
  PROVE  LInv'
<1>1. TypeOK'
  BY DEF LInv, LimitsKept, TypeOK
<1>2. controls'.open => Len(nodes') <= Count' + 1
  <2>1. CASE UNCHANGED controls
    BY <2>1 DEF LInv, LimitsKept, Count
  <2>2. CASE nodes = <<>>
    <3>1. Len(nodes') = 0
      BY <2>2
    <3>2. Count' \in Nat
      BY DapCacheAssumption DEF Count
    <3>3. \A l : l = 0 => \A c \in Nat : l <= c + 1
      OBVIOUS
    <3> QED
      BY <3>1, <3>2, <3>3, Zenon
  <2> QED
    BY <2>1, <2>2
<1>3. SumSize(nodes') = SumSize(nodes)
  <2>1. nodes' = nodes
    OBVIOUS
  <2> QED
    BY <2>1
<1>4. LimitsKept'
  BY <1>1, <1>2, <1>3 DEF LInv, LimitsKept
<1> QED
  BY <1>4 DEF LInv, Sized, IsTail

(* A get that found or fetched a node                                      *)
LEMMA ListChanged ==
  ASSUME LInv, IInv', ListKept', UNCHANGED <<controls, prefetch, server>>,
         NEW node, IsNode(node), attached' = node,
         Listed' \subseteq Listed \cup {node}
  PROVE  LInv'
<1>1. TypeOK
  BY DEF LInv, LimitsKept
<1>2. TypeOK'
  <2>1. \A n \in Listed' : IsNode(n)
    BY <1>1, ListedType
  <2>2. cachesize' \in Nat
    BY DEF ListKept
  <2>3. /\ controls' \in Controls \cup {Closed} /\ IsNode(prefetch')
        /\ IsNode(attached') /\ server' \in 0 .. MaxVersion
    BY <1>1 DEF TypeOK
  <2>4. \A i \in DOMAIN nodes' : IsNode(nodes'[i])
    BY <2>1 DEF Listed
  <2> QED
    BY <2>2, <2>3, <2>4 DEF TypeOK
<1>3. LimitsKept'
  BY <1>2 DEF ListKept, LimitsKept
<1> QED
  BY <1>3 DEF ListKept, LInv

(* The steps, one by one                                                   *)
LEMMA HitLimits ==
  ASSUME LInv, IInv', NEW v \in Vars, NEW cells \in SUBSET Cells[v],
         get_cached(v, cells)
  PROVE  LInv'
<1>1. TypeOK
  BY DEF LInv, LimitsKept
<1>2. CASE v \in prefetch.vars
  <2>1. Walk(prefetch, v, cells) /\ UNCHANGED <<nodes, cachesize, uses>>
    BY <1>2 DEF get_cached
  <2>2. attached' = prefetch /\ UNCHANGED <<controls, prefetch, server>>
    BY <2>1 DEF Walk
  <2> QED
    BY <1>1, <2>1, <2>2, ListSame DEF TypeOK
<1>3. CASE v \notin prefetch.vars
  <2>1. PICK i : i = Latest(Hits(v))
    OBVIOUS
  <2>2. /\ Touch(i) /\ Walk(nodes[i], v, cells) /\ Used(nodes[i], TRUE)
        /\ Hits(v) # {} /\ controls.open
    BY <1>3, <2>1 DEF get_cached, iscached
  <2>3. attached' = nodes[i] /\ UNCHANGED <<controls, prefetch, server>>
    BY <2>2 DEF Walk
  <2>4. i \in DOMAIN nodes
    BY <2>1, <2>2, LatestFound DEF LInv, Hits
  <2>5. Listed' \subseteq Listed
    BY <2>2, <2>4, TouchListed DEF LInv
  <2>6. ListKept'
    BY <2>1, <2>2, <2>3, HitList
  <2>7. IsNode(nodes[i])
    BY <1>1, <2>4 DEF TypeOK
  <2> QED
    BY <2>3, <2>5, <2>6, <2>7, ListChanged
<1> QED
  BY <1>2, <1>3

LEMMA FetchLimits ==
  ASSUME LInv, IInv', NEW v \in Vars, NEW cells \in SUBSET Cells[v],
         NEW kind, get_fetched(v, cells, kind)
  PROVE  LInv'
<1>1. PICK asked : asked = IF controls.wholevar THEN Whole({v})
                           ELSE [u \in {v} |-> cells]
  OBVIOUS
<1>2. PICK r : r = Response(controls, asked, kind)
  OBVIOUS
<1>3. PICK node : node = Node({v}, r, \/ controls.unconstrainable
                                      \/ ~controls.selections
                                         /\ asked = Whole({v}))
  OBVIOUS
<1>4. /\ Insert(node) /\ Walk(node, v, cells) /\ Used(node, FALSE)
      /\ controls.open
  BY <1>1, <1>2, <1>3 DEF get_fetched
<1>5. DOMAIN asked = {v} /\ asked[v] \subseteq Cells[v]
  BY <1>1 DEF Whole
<1>6. IsData(r)
  BY <1>2, <1>5, ResponseType
<1>7. IsNode(node) /\ node.xdrsize \in Nat
  BY <1>3, <1>6, NodeType
<1>8. attached' = node /\ UNCHANGED <<controls, prefetch, server>>
  BY <1>4 DEF Walk
<1>9. Listed' \subseteq Listed \cup {node}
  BY <1>4, InsertListed DEF LInv
<1>10. ListKept'
  BY <1>4, <1>7, <1>8, FetchList
<1> QED
  BY <1>7, <1>8, <1>9, <1>10, ListChanged

LEMMA LimitsStep ==
  ASSUME LInv, [Next]_vars
  PROVE  LInv'
<1>1. IInv' /\ IInv
  BY NextStep DEF LInv
<1>2. TypeOK
  BY DEF LInv, LimitsKept
<1>3. CASE UNCHANGED vars
  BY <1>1, <1>2, <1>3, ListSame DEF vars, cache, TypeOK
<1>4. CASE Change
  <2>1. server' \in 0 .. MaxVersion
    BY <1>2, <1>4, DapCacheAssumption DEF Change, TypeOK
  <2> QED
    BY <1>1, <1>2, <1>4, <2>1, ListSame DEF Change, cache, TypeOK
<1>5. ASSUME NEW c \in Controls, NEW kind \in Kinds, NCD2_open(c, kind)
      PROVE  LInv'
  <2>1. /\ ~controls.open /\ prefetch' \in {PrefetchNode(c, kind), NoNode}
        /\ controls' = c
        /\ UNCHANGED <<nodes, cachesize, attached, server, uses>>
    BY <1>5 DEF NCD2_open
  <2>2. nodes = <<>> /\ IsNode(prefetch')
    BY <1>1, <2>1, PrefetchType DEF IInv
  <2> QED
    BY <1>1, <1>2, <2>1, <2>2, ListSame DEF TypeOK
<1>6. CASE NCD2_close
  <2>1. /\ controls' = Closed /\ prefetch' = NoNode /\ nodes' = <<>>
        /\ cachesize' = 0 /\ attached' = NoNode /\ uses' = <<>>
        /\ UNCHANGED server
    BY <1>6 DEF NCD2_close
  <2>2. /\ nodes' \in Seq({}) /\ uses' \in Seq({})
        /\ Len(nodes') = 0 /\ Len(uses') = 0
    BY <2>1, EmptySeq
  <2>3. Sized(nodes)' /\ IsTail(nodes, uses)'
    BY <2>2 DEF Sized, IsTail
  <2>4. SumSize(nodes') = 0
    <3>1. PICK s : s = <<>>
      OBVIOUS
    <3>2. s \in Seq({}) /\ Len(s) = 0
      BY <3>1, EmptySeq
    <3>3. PICK total : IsTotal(total, s)
      <4>1. Sized(s)
        BY <3>2 DEF Sized
      <4> QED
        BY <3>2, <4>1, TotalExists
    <3>4. SumSize(s) = total[Len(s)]
      BY <3>2, <3>3, SumSizeIs
    <3> QED
      BY <2>1, <3>1, <3>2, <3>3, <3>4 DEF IsTotal, PartialSums
  <2>5. TypeOK'
    BY <1>2, <2>1, PrefetchType DEF TypeOK
  <2>6. LimitsKept'
    BY <2>1, <2>2, <2>4, <2>5 DEF LimitsKept, Closed
  <2>7. Len(uses') <= cachecount + 1
    BY <2>2, DapCacheAssumption
  <2> QED
    BY <1>1, <2>2, <2>3, <2>6, <2>7 DEF LInv
<1>7. ASSUME NEW kind \in Kinds, lazy_prefetch(kind)
      PROVE  LInv'
  <2>1. /\ prefetch' = PrefetchNode(controls, kind)
        /\ UNCHANGED <<controls, nodes, cachesize, attached, server, uses>>
    BY <1>7 DEF lazy_prefetch
  <2>2. IsNode(prefetch')
    BY <2>1, PrefetchType
  <2> QED
    BY <1>1, <1>2, <2>1, <2>2, ListSame DEF TypeOK
<1>8. ASSUME NEW v \in Vars, NEW cells \in SUBSET Cells[v],
             get_fails(v, cells)
      PROVE  LInv'
  BY <1>1, <1>2, <1>8, ListSame DEF get_fails, cache, TypeOK
<1>9. ASSUME NEW v \in Vars, NEW cells \in SUBSET Cells[v],
             get_cached(v, cells)
      PROVE  LInv'
  BY <1>1, <1>9, HitLimits
<1>10. ASSUME NEW v \in Vars, NEW cells \in SUBSET Cells[v],
              NEW kind \in Kinds, get_fetched(v, cells, kind)
       PROVE  LInv'
  BY <1>1, <1>10, FetchLimits
<1> QED
  BY <1>3, <1>4, <1>5, <1>6, <1>7, <1>8, <1>9, <1>10 DEF Next

(* buildcachenode keeps its limits whatever the sizes of the responses and *)
(* the order of fetches and hits are: the size it accounts is that of the  *)
(* list, and exceeds the limit for a single node only.                     *)
THEOREM LimitsHold == Spec => []LimitsKept
<1>1. LInv /\ [Next]_vars => LInv'
  BY LimitsStep
<1>2. LInv => LimitsKept
  BY DEF LInv
<1> QED
  BY <1>1, <1>2, LimitsInit, PTL DEF Spec

(* iscached and buildcachenode together are LRU: the list is the tail of   *)
(* the history of uses, whichever limit removed the nodes before it.       *)
THEOREM LastUsedHeld == Spec => []HoldsLastUsed
<1>1. LInv /\ [Next]_vars => LInv'
  BY LimitsStep
<1>2. LInv => HoldsLastUsed
  BY SuffixIsTail DEF LInv, HoldsLastUsed
<1> QED
  BY <1>1, <1>2, LimitsInit, PTL DEF Spec
=============================================================================
