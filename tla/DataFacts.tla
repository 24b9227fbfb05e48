------------------------------ MODULE DataFacts -----------------------------
(* Induction over the natural numbers, what it gives for functions defined *)
(* by recursion and for folds, and facts about sequences.  The theorems of *)
(* NaturalsInduction are about an operator; these are about a set and a    *)
(* function, and can be cited.                                             *)
EXTENDS Integers, FiniteSets, SequencesExt, FiniteSetTheorems,
        SequenceTheorems, NaturalsInduction, WellFoundedInduction, TLAPS

(* A set of natural numbers has a least one.                               *)
LEMMA LeastNatural ==
  ASSUME NEW S, S \subseteq Nat, S # {}
  PROVE  \E k \in S : \A j \in S : k <= j
<1>1. PICK R : /\ IsWellFoundedOn(R, Nat)
               /\ \A j, i \in Nat : j < i => <<j, i>> \in R
  <2>1. \A j, i \in Nat : j < i => <<j, i>> \in OpToRel(<, Nat)
    BY DEF OpToRel
  <2> QED
    BY <2>1, NatLessThanWellFounded
<1>2. PICK k \in S : \A j \in S : ~(<<j, k>> \in R)
  BY <1>1, WFMin, ZenonT(60)
<1>3. \A j \in S : j \in Nat /\ k \in Nat /\ ~(j < k)
  BY <1>1, <1>2
<1> QED
  BY <1>3

(* What has 0, and the successor of all that it has, has every number.     *)
LEMMA EveryNatural ==
  ASSUME NEW T, 0 \in T, \A n \in Nat : n \in T => n + 1 \in T
  PROVE  Nat \subseteq T
<1>1. SUFFICES ASSUME Nat \ T # {}
               PROVE  FALSE
  OBVIOUS
<1>2. PICK k \in Nat \ T : \A j \in Nat \ T : k <= j
  BY <1>1, LeastNatural
<1>3. k - 1 \in Nat /\ ~(k <= k - 1)
  BY <1>2
<1>4. k - 1 \in T
  BY <1>2, <1>3
<1>5. k - 1 + 1 = k
  BY <1>2
<1> QED
  BY <1>2, <1>3, <1>4, <1>5

(* A step defines a function: from a first value, each from the one before.*)
IsIteration(f, V, first, step) ==
  /\ f \in [Nat -> V] /\ f[0] = first
  /\ \A n \in Nat : f[n + 1] = step[<<n, f[n]>>]

LEMMA Iteration ==
  ASSUME NEW V, NEW first, first \in V, NEW step, step \in [Nat \X V -> V]
  PROVE  \E f : IsIteration(f, V, first, step)
<1> DEFINE Upto(n, g) == /\ g \in [0 .. n -> V] /\ g[0] = first
                         /\ \A i \in 0 .. n - 1 : g[i + 1] = step[<<i, g[i]>>]
<1>1. \A n \in Nat : \E g : Upto(n, g)
  <2>1. PICK T : T = {n \in Nat : \E g : Upto(n, g)}
    OBVIOUS
  <2>2. 0 \in T
    <3>1. Upto(0, [i \in 0 .. 0 |-> first])
      OBVIOUS
    <3> QED
      BY <2>1, <3>1
  <2>3. ASSUME NEW n \in Nat, n \in T
        PROVE  n + 1 \in T
    <3>1. PICK g : Upto(n, g)
      BY <2>1, <2>3
    <3>2. PICK h : h = [i \in 0 .. n + 1 |-> IF i = n + 1 THEN step[<<n, g[n]>>]
                                              ELSE g[i]]
      OBVIOUS
    <3>3. g[n] \in V /\ step[<<n, g[n]>>] \in V
      BY <3>1
    <3>4. h \in [0 .. n + 1 -> V] /\ h[0] = first
      BY <3>1, <3>2, <3>3
    <3>5. ASSUME NEW i \in 0 .. n + 1 - 1
          PROVE  h[i + 1] = step[<<i, h[i]>>]
      <4>1. i \in 0 .. n /\ h[i] = g[i]
        BY <3>2
      <4>2. CASE i = n
        <5>1. h[n + 1] = step[<<n, g[n]>>]
          BY <3>2
        <5> QED
          BY <4>1, <4>2, <5>1
      <4>3. CASE i # n
        <5>1. i \in 0 .. n - 1 /\ i + 1 \in 0 .. n /\ i + 1 # n + 1
          BY <4>1, <4>3
        <5>2. h[i + 1] = g[i + 1]
          BY <3>2, <5>1
        <5> QED
          BY <3>1, <4>1, <5>1, <5>2
      <4> QED
        BY <4>2, <4>3
    <3>6. Upto(n + 1, h)
      BY <3>4, <3>5
    <3> QED
      BY <2>1, <3>6
  <2> QED
    BY <2>1, <2>2, <2>3, EveryNatural
<1>2. ASSUME NEW m \in Nat, NEW g, NEW n \in Nat, NEW h, Upto(m, g), Upto(n, h)
      PROVE  \A i \in Nat : i <= m /\ i <= n => g[i] = h[i]
  <2>1. PICK T : T = {i \in Nat : i <= m /\ i <= n => g[i] = h[i]}
    OBVIOUS
  <2>2. 0 \in T
    BY <1>2, <2>1
  <2>3. ASSUME NEW i \in Nat, i \in T
        PROVE  i + 1 \in T
    <3> SUFFICES ASSUME i + 1 <= m, i + 1 <= n
                 PROVE  g[i + 1] = h[i + 1]
      BY <2>1
    <3>1. i \in 0 .. m - 1 /\ i \in 0 .. n - 1 /\ g[i] = h[i]
      BY <2>1, <2>3
    <3> QED
      BY <1>2, <3>1
  <2> QED
    BY <2>1, <2>2, <2>3, EveryNatural
<1>3. PICK G : G = [n \in Nat |-> CHOOSE g : Upto(n, g)]
  OBVIOUS
<1>4. \A n \in Nat : Upto(n, G[n])
  BY <1>1, <1>3
<1>5. PICK f : f = [n \in Nat |-> G[n][n]]
  OBVIOUS
<1>6. f \in [Nat -> V]
  BY <1>4, <1>5
<1>7. f[0] = first
  BY <1>4, <1>5
<1>8. ASSUME NEW n \in Nat
      PROVE  f[n + 1] = step[<<n, f[n]>>]
  <2>1. G[n + 1][n + 1] = step[<<n, G[n + 1][n]>>]
    BY <1>4
  <2>2. G[n + 1][n] = G[n][n]
    <3>1. Upto(n, G[n]) /\ Upto(n + 1, G[n + 1]) /\ n + 1 \in Nat
      BY <1>4
    <3> HIDE DEF Upto
    <3> QED
      BY <1>2, <3>1
  <2> QED
    BY <1>5, <2>1, <2>2
<1> QED
  BY <1>6, <1>7, <1>8 DEF IsIteration

(* A fold of a finite set takes the element that is picked and combines it *)
(* with the fold of the rest.                                              *)
CanFold(D, V, base, pick, step) ==
  /\ IsFiniteSet(D) /\ base \in V
  /\ pick \in [(SUBSET D) \ {{}} -> D]
  /\ \A x \in (SUBSET D) \ {{}} : pick[x] \in x
  /\ step \in [D \X V -> V]
IsFold(f, D, V, base, pick, step) ==
  /\ f \in [SUBSET D -> V] /\ f[{}] = base
  /\ \A x \in (SUBSET D) \ {{}} : f[x] = step[<<pick[x], f[x \ {pick[x]}]>>]

(* There is such a fold.                                                   *)
LEMMA FoldExists ==
  ASSUME NEW D, NEW V, NEW base, NEW pick, NEW step,
         CanFold(D, V, base, pick, step)
  PROVE  \E f : IsFold(f, D, V, base, pick, step)
<1> USE DEF CanFold
<1> DEFINE Small(n) == {x \in SUBSET D : Cardinality(x) <= n}
           Upto(n, f) == /\ f \in [Small(n) -> V] /\ f[{}] = base
                         /\ \A x \in Small(n) \ {{}} :
                              f[x] = step[<<pick[x], f[x \ {pick[x]}]>>]
<1>1. \A x \in SUBSET D : IsFiniteSet(x) /\ Cardinality(x) \in Nat
  BY FS_Subset, FS_CardinalityType
<1>2. Cardinality({}) = 0 /\ \A x \in SUBSET D : Cardinality(x) = 0 => x = {}
  BY <1>1, FS_EmptySet
<1>3. \A x \in (SUBSET D) \ {{}} :
        /\ x \ {pick[x]} \in SUBSET D
        /\ Cardinality(x \ {pick[x]}) = Cardinality(x) - 1
  BY <1>1, FS_RemoveElement
<1>4. \A n \in Nat : \E f : Upto(n, f)
  <2>1. PICK T : T = {n \in Nat : \E f : Upto(n, f)}
    OBVIOUS
  <2>2. 0 \in T
    <3>1. Small(0) = {{}}
      <4>1. \A x \in Small(0) : Cardinality(x) \in Nat /\ Cardinality(x) <= 0
        BY <1>1
      <4>2. \A x \in Small(0) : x = {}
        BY <1>2, <4>1
      <4>3. {} \in Small(0)
        BY <1>2
      <4> QED
        BY <4>2, <4>3
    <3>2. Upto(0, [x \in Small(0) |-> base])
      BY <3>1
    <3> QED
      BY <2>1, <3>2
  <2>3. ASSUME NEW n \in Nat, n \in T
        PROVE  n + 1 \in T
    <3>1. PICK f : Upto(n, f)
      BY <2>1, <2>3
    <3>2. PICK g : g = [x \in Small(n + 1) |->
                          IF x \in Small(n) THEN f[x]
                          ELSE step[<<pick[x], f[x \ {pick[x]}]>>]]
      OBVIOUS
    <3>3. {} \in Small(n) /\ Small(n) \subseteq Small(n + 1)
      BY <1>1, <1>2
    <3>4. ASSUME NEW x \in Small(n + 1), x # {}
          PROVE  /\ x \ {pick[x]} \in Small(n) /\ pick[x] \in D
                 /\ f[x \ {pick[x]}] \in V
                 /\ step[<<pick[x], f[x \ {pick[x]}]>>] \in V
                 /\ g[x] = step[<<pick[x], f[x \ {pick[x]}]>>]
      <4>1. x \in (SUBSET D) \ {{}}
        BY <3>4
      <4>2. Cardinality(x) \in Nat /\ Cardinality(x) <= n + 1
        BY <1>1
      <4>3. x \ {pick[x]} \in Small(n) /\ pick[x] \in D
        BY <1>3, <4>1, <4>2
      <4>4. f[x \ {pick[x]}] \in V
        BY <3>1, <4>3
      <4>5. g[x] = step[<<pick[x], f[x \ {pick[x]}]>>]
        BY <3>1, <3>2, <3>4
      <4> QED
        BY <4>3, <4>4, <4>5
    <3>5. g \in [Small(n + 1) -> V] /\ g[{}] = base
      <4>1. \A x \in Small(n + 1) : g[x] \in V
        BY <3>1, <3>2, <3>3, <3>4
      <4> HIDE DEF Small
      <4> QED
        BY <3>1, <3>2, <3>3, <4>1
    <3>6. ASSUME NEW x \in Small(n + 1) \ {{}}
          PROVE  g[x] = step[<<pick[x], g[x \ {pick[x]}]>>]
      <4>1. x \ {pick[x]} \in Small(n)
        BY <3>4
      <4> HIDE DEF Small
      <4>2. g[x \ {pick[x]}] = f[x \ {pick[x]}]
        BY <3>2, <3>3, <4>1
      <4> QED
        BY <3>4, <4>2
    <3>7. Upto(n + 1, g)
      BY <3>5, <3>6
    <3> HIDE DEF Upto
    <3> QED
      BY <2>1, <3>7
  <2> HIDE DEF Upto
  <2> QED
    BY <2>1, <2>2, <2>3, EveryNatural
<1>5. Cardinality(D) \in Nat /\ Small(Cardinality(D)) = SUBSET D
  BY <1>1, FS_Subset, FS_CardinalityType
<1>6. PICK f : Upto(Cardinality(D), f)
  BY <1>4, <1>5
<1> QED
  BY <1>5, <1>6 DEF IsFold

(* What is so of every such fold, by the size of the set                   *)
LEMMA FoldValues ==
  ASSUME NEW D, IsFiniteSet(D), NEW V, NEW f, f[{}] \in V,
         \A x \in (SUBSET D) \ {{}} :
           \E e \in x : f[x \ {e}] \in V => f[x] \in V
  PROVE  \A x \in SUBSET D : f[x] \in V
<1>1. \A x \in SUBSET D : IsFiniteSet(x) /\ Cardinality(x) \in Nat
  BY FS_Subset, FS_CardinalityType
<1>2. \A x \in SUBSET D : Cardinality(x) = 0 => x = {}
  BY <1>1, FS_EmptySet
<1>3. \A x \in SUBSET D : \A e \in x :
        Cardinality(x \ {e}) = Cardinality(x) - 1
  BY <1>1, FS_RemoveElement
<1>4. PICK T : T = {n \in Nat : \A x \in SUBSET D :
                                 Cardinality(x) <= n => f[x] \in V}
  OBVIOUS
<1>5. 0 \in T
  <2> SUFFICES ASSUME NEW x \in SUBSET D, Cardinality(x) <= 0
               PROVE  f[x] \in V
    BY <1>4
  <2>1. Cardinality(x) = 0
    BY <1>1
  <2> QED
    BY <1>2, <2>1
<1>6. ASSUME NEW n \in Nat, n \in T
      PROVE  n + 1 \in T
  <2> SUFFICES ASSUME NEW x \in SUBSET D, Cardinality(x) <= n + 1
               PROVE  f[x] \in V
    BY <1>4
  <2>1. CASE x # {}
    <3>1. PICK e \in x : f[x \ {e}] \in V => f[x] \in V
      BY <2>1
    <3>2. Cardinality(x \ {e}) <= n
      BY <1>1, <1>3
    <3> QED
      BY <1>4, <1>6, <3>1, <3>2
  <2> QED
    BY <2>1
<1>7. Nat \subseteq T
  BY <1>5, <1>6, EveryNatural
<1> QED
  BY <1>1, <1>4, <1>7

-----------------------------------------------------------------------------
(* Sequences *)

(* A set of numbers that is not empty has a least element.                 *)
LEMMA MinIs ==
  ASSUME NEW S, S \subseteq Nat, S # {}
  PROVE  Min(S) \in S /\ \A x \in S : Min(S) <= x
<1>1. \E k \in S : \A j \in S : k <= j
  BY LeastNatural
<1> QED
  BY <1>1 DEF Min

(* Appending an element                                                    *)
LEMMA AppendedIs ==
  ASSUME NEW S, NEW t \in Seq(S), NEW d \in S
  PROVE  /\ Append(t, d) \in Seq(S) /\ Len(Append(t, d)) = Len(t) + 1
         /\ \A k \in 1 .. Len(t) : Append(t, d)[k] = t[k]
         /\ Append(t, d)[Len(t) + 1] = d
BY AppendProperties

(* A sequence with another element at k                                    *)
LEMMA ExceptIs ==
  ASSUME NEW S, NEW s \in Seq(S), NEW k \in 1 .. Len(s), NEW x \in S
  PROVE  /\ [s EXCEPT ![k] = x] \in Seq(S)
         /\ Len([s EXCEPT ![k] = x]) = Len(s)
         /\ \A i \in 1 .. Len(s) : [s EXCEPT ![k] = x][i] = IF i = k THEN x ELSE s[i]
<1>1. PICK l \in Nat : l = Len(s) /\ DOMAIN s = 1 .. l /\ k \in 1 .. l
  BY LenProperties
<1>2. PICK u : u = [s EXCEPT ![k] = x]
  OBVIOUS
<1>3. \A i \in 1 .. l : s[i] \in S
  BY <1>1, ElementOfSeq
<1>4. s = [i \in 1 .. l |-> s[i]]
  BY <1>1, <1>3, SeqDef
<1>5. u = [i \in 1 .. l |-> IF i = k THEN x ELSE s[i]]
  BY <1>1, <1>2, <1>4
<1>6. \A i \in 1 .. l : u[i] \in S
  BY <1>3, <1>5
<1>7. u \in Seq(S) /\ Len(u) = l
  BY <1>5, <1>6, SeqDef
<1> QED
  BY <1>1, <1>2, <1>5, <1>7

(* A sequence without its element i                                        *)
LEMMA RemovedIs ==
  ASSUME NEW S, NEW s \in Seq(S), NEW i \in 1 .. Len(s)
  PROVE  /\ RemoveAt(s, i) \in Seq(S) /\ Len(RemoveAt(s, i)) = Len(s) - 1
         /\ \A k \in 1 .. Len(s) - 1 : RemoveAt(s, i)[k] = IF k < i THEN s[k] ELSE s[k + 1]
<1>1. PICK c \in Nat : c = Len(s) /\ i \in 1 .. c
  BY LenProperties
<1>2. PICK a : a = SubSeq(s, 1, i - 1)
  OBVIOUS
<1>3. PICK b : b = SubSeq(s, i + 1, c)
  OBVIOUS
<1>4. a \in Seq(S) /\ Len(a) = i - 1 /\ \A k \in 1 .. i - 1 : a[k] = s[k]
  <2>1. \A k \in 1 .. i - 1 : s[k] \in S
    BY <1>1, ElementOfSeq
  <2>2. 1 \in Int /\ i - 1 \in Int
    BY <1>1
  <2>3. /\ a \in Seq(S) /\ Len(a) = IF 1 <= i - 1 THEN i - 1 - 1 + 1 ELSE 0
        /\ \A k \in 1 .. i - 1 - 1 + 1 : a[k] = s[1 + k - 1]
    BY <1>2, <2>1, <2>2, SubSeqProperties
  <2>4. i - 1 - 1 + 1 = i - 1 /\ \A k \in 1 .. i - 1 : 1 + k - 1 = k
    BY <1>1
  <2>5. Len(a) = i - 1
    BY <1>1, <2>3
  <2>6. ASSUME NEW k \in 1 .. i - 1
        PROVE  a[k] = s[k]
    <3>1. 1 + k - 1 = k /\ k \in 1 .. i - 1 - 1 + 1
      BY <2>4
    <3> QED
      BY <2>3, <3>1
  <2> QED
    BY <2>3, <2>5, <2>6
<1>5. b \in Seq(S) /\ Len(b) = c - i /\ \A k \in 1 .. c - i : b[k] = s[k + i]
  <2>1. \A k \in i + 1 .. c : s[k] \in S
    BY <1>1, ElementOfSeq
  <2>2. i + 1 \in Int /\ c \in Int
    BY <1>1
  <2>3. /\ b \in Seq(S) /\ Len(b) = IF i + 1 <= c THEN c - (i + 1) + 1 ELSE 0
        /\ \A k \in 1 .. c - (i + 1) + 1 : b[k] = s[i + 1 + k - 1]
    BY <1>3, <2>1, <2>2, SubSeqProperties
  <2>4. c - (i + 1) + 1 = c - i
    BY <1>1
  <2>5. Len(b) = c - i
    BY <1>1, <2>3
  <2>6. ASSUME NEW k \in 1 .. c - i
        PROVE  b[k] = s[k + i]
    <3>1. i + 1 + k - 1 = k + i /\ k \in 1 .. c - (i + 1) + 1
      BY <2>4
    <3> QED
      BY <2>3, <3>1
  <2> QED
    BY <2>3, <2>5, <2>6
<1>6. RemoveAt(s, i) = a \o b
  BY <1>1, <1>2, <1>3 DEF RemoveAt
<1>7. /\ a \o b \in Seq(S) /\ Len(a \o b) = Len(a) + Len(b)
      /\ \A k \in 1 .. Len(a) + Len(b) : (a \o b)[k] = IF k <= Len(a) THEN a[k]
                                                      ELSE b[k - Len(a)]
  <2>1. a \in Seq(S) /\ b \in Seq(S)
    BY <1>4, <1>5
  <2> QED
    BY <2>1, ConcatProperties, Zenon
<1>8. Len(a) + Len(b) = c - 1
  BY <1>1, <1>4, <1>5
<1>9. ASSUME NEW k \in 1 .. c - 1
      PROVE  (a \o b)[k] = IF k < i THEN s[k] ELSE s[k + 1]
  <2>1. CASE k < i
    <3>1. k <= i - 1 /\ k \in 1 .. i - 1
      BY <1>1, <2>1
    <3> QED
      BY <1>4, <1>7, <1>8, <2>1, <3>1
  <2>2. CASE ~(k < i)
    <3>1. ~(k <= i - 1) /\ k - (i - 1) \in 1 .. c - i /\ k - (i - 1) + i = k + 1
      BY <1>1, <2>2
    <3>2. (a \o b)[k] = b[k - (i - 1)]
      BY <1>4, <1>7, <1>8, <3>1
    <3>3. b[k - (i - 1)] = s[k + 1]
      BY <1>5, <3>1
    <3> QED
      BY <2>2, <3>2, <3>3
  <2> QED
    BY <2>1, <2>2
<1> QED
  BY <1>1, <1>6, <1>7, <1>8, <1>9

(* The elements of a sequence of sequences                                 *)
Elements(s) == {s[k] : k \in 1 .. Len(s)}
AllElements(seqs, n) == UNION {Elements(seqs[i]) : i \in 1 .. n}

(* Appending adds the elements.                                            *)
LEMMA ElementsJoin ==
  ASSUME NEW S, NEW s \in Seq(S), NEW t \in Seq(S)
  PROVE  s \o t \in Seq(S) /\ Elements(s \o t) = Elements(s) \cup Elements(t)
<1>1. PICK c \in Nat, d \in Nat : c = Len(s) /\ d = Len(t)
  BY LenProperties
<1>2. PICK u : u = s \o t
  OBVIOUS
<1>3. /\ u \in Seq(S) /\ Len(u) = c + d
      /\ \A k \in 1 .. c + d : u[k] = IF k <= c THEN s[k] ELSE t[k - c]
  BY <1>1, <1>2, ConcatProperties
<1>4. \A k \in 1 .. c : k \in 1 .. c + d /\ u[k] = s[k]
  BY <1>3
<1>5. \A k \in 1 .. d : k + c \in 1 .. c + d /\ u[k + c] = t[k]
  BY <1>3
<1>6. Elements(s) \cup Elements(t) \subseteq Elements(u)
  <2>1. \A k \in 1 .. c : s[k] \in Elements(u)
    BY <1>3, <1>4 DEF Elements
  <2>2. \A k \in 1 .. d : t[k] \in Elements(u)
    BY <1>3, <1>5 DEF Elements
  <2> QED
    BY <1>1, <2>1, <2>2 DEF Elements
<1>7. Elements(u) \subseteq Elements(s) \cup Elements(t)
  <2> SUFFICES ASSUME NEW k \in 1 .. c + d
               PROVE  u[k] \in Elements(s) \cup Elements(t)
    BY <1>3 DEF Elements
  <2>1. CASE k <= c
    BY <1>1, <1>3, <2>1, SMTT(60) DEF Elements
  <2>2. CASE ~(k <= c)
    <3>1. k - c \in 1 .. d /\ u[k] = t[k - c]
      BY <1>3, <2>2
    <3> QED
      BY <1>1, <3>1 DEF Elements
  <2> QED
    BY <2>1, <2>2
<1> QED
  BY <1>2, <1>3, <1>6, <1>7

(* FlattenSeq has the elements of all its parts.                           *)
IsFlatten(f, seqs) ==
  f = [i \in 1 .. Len(seqs) |->
         IF i = 1 THEN seqs[i] ELSE f[i - 1] \o seqs[i]]

LEMMA FlattenIs ==
  ASSUME NEW S, NEW seqs \in Seq(Seq(S))
  PROVE  /\ FlattenSeq(seqs) \in Seq(S)
         /\ Elements(FlattenSeq(seqs)) = AllElements(seqs, Len(seqs))
<1>1. PICK c \in Nat : c = Len(seqs)
  BY LenProperties
<1>2. \A i \in 1 .. c : seqs[i] \in Seq(S)
  BY <1>1, ElementOfSeq
<1>3. CASE c = 0
  <2>1. FlattenSeq(seqs) = seqs /\ seqs = <<>>
    BY <1>1, <1>3, EmptySeq DEF FlattenSeq
  <2> QED
    BY <1>1, <1>3, <2>1, EmptySeq DEF Elements, AllElements
<1>4. CASE c # 0
  <2>1. PICK step : step = [a \in Nat \X Seq(S) |->
                              IF a[1] + 2 <= c THEN a[2] \o seqs[a[1] + 2]
                              ELSE a[2]]
    OBVIOUS
  <2>2. step \in [Nat \X Seq(S) -> Seq(S)]
    <3>1. ASSUME NEW n \in Nat, NEW v \in Seq(S)
          PROVE  (IF n + 2 <= c THEN v \o seqs[n + 2] ELSE v) \in Seq(S)
      <4>1. CASE n + 2 <= c
        <5>1. n + 2 \in 1 .. c
          BY <4>1
        <5> QED
          BY <1>2, <4>1, <5>1, ConcatProperties
      <4> QED
        BY <4>1
    <3> QED
      BY <2>1, <3>1
  <2>3. 1 \in 1 .. c /\ seqs[1] \in Seq(S)
    BY <1>2, <1>4
  <2>4. PICK g : IsIteration(g, Seq(S), seqs[1], step)
    BY <2>2, <2>3, Iteration
  <2>5. /\ g \in [Nat -> Seq(S)] /\ g[0] = seqs[1]
        /\ \A n \in Nat : n + 2 <= c => g[n + 1] = g[n] \o seqs[n + 2]
    <3>1. \A n \in Nat : g[n] \in Seq(S)
      BY <2>4 DEF IsIteration
    <3>2. \A n \in Nat : n + 2 <= c => step[<<n, g[n]>>] = g[n] \o seqs[n + 2]
      BY <2>1, <3>1
    <3> QED
      BY <2>4, <3>2 DEF IsIteration
  <2>6. PICK h : h = [i \in 1 .. c |-> g[i - 1]]
    OBVIOUS
  <2>7. IsFlatten(h, seqs)
    <3>1. ASSUME NEW i \in 1 .. c
          PROVE  h[i] = IF i = 1 THEN seqs[i] ELSE h[i - 1] \o seqs[i]
      <4>1. CASE i = 1
        BY <2>5, <2>6, <4>1
      <4>2. CASE i # 1
        <5>1. i - 1 \in 1 .. c /\ i - 2 \in Nat /\ (i - 2) + 2 <= c
          BY <4>2
        <5>2. h[i - 1] = g[i - 2] /\ h[i] = g[(i - 2) + 1]
          BY <2>6, <5>1
        <5>3. g[(i - 2) + 1] = g[i - 2] \o seqs[(i - 2) + 2]
          BY <2>5, <5>1
        <5>4. (i - 2) + 2 = i
          OBVIOUS
        <5> QED
          BY <4>2, <5>2, <5>3, <5>4
      <4> QED
        BY <4>1, <4>2
    <3> QED
      BY <1>1, <2>6, <3>1 DEF IsFlatten
  <2>8. PICK f : f = CHOOSE x : IsFlatten(x, seqs)
    OBVIOUS
  <2>9. IsFlatten(f, seqs)
    BY <2>7, <2>8
  <2>10. FlattenSeq(seqs) = f[c]
    BY <1>1, <1>4, <2>8 DEF FlattenSeq, IsFlatten
  <2>11. \A i \in 1 .. c : f[i] = IF i = 1 THEN seqs[i] ELSE f[i - 1] \o seqs[i]
    BY <1>1, <2>9 DEF IsFlatten
  <2>12. PICK T : T = {n \in Nat : n + 1 <= c =>
                         /\ f[n + 1] \in Seq(S)
                         /\ Elements(f[n + 1]) = AllElements(seqs, n + 1)}
    OBVIOUS
  <2>13. 0 \in T
    <3>1. f[1] = seqs[1]
      BY <2>3, <2>11
    <3>2. AllElements(seqs, 1) = Elements(seqs[1])
      BY DEF AllElements
    <3> QED
      BY <2>3, <2>12, <3>1, <3>2
  <2>14. ASSUME NEW n \in Nat, n \in T
         PROVE  n + 1 \in T
    <3>1. PICK m \in Nat : m = n + 1 /\ m + 1 \in Nat
      OBVIOUS
    <3> SUFFICES ASSUME m + 1 <= c
                 PROVE  /\ f[m + 1] \in Seq(S)
                        /\ Elements(f[m + 1]) = AllElements(seqs, m + 1)
      BY <2>12, <3>1
    <3>2. m + 1 \in 1 .. c /\ m + 1 # 1 /\ m + 1 - 1 = m /\ n + 1 <= c
      BY <3>1
    <3>3. f[m + 1] = f[m] \o seqs[m + 1]
      <4>1. PICK i \in 1 .. c : i = m + 1
        BY <3>2
      <4>2. f[i] = IF i = 1 THEN seqs[i] ELSE f[i - 1] \o seqs[i]
        BY <2>11
      <4>3. i # 1 /\ i - 1 = m
        BY <3>2, <4>1
      <4>4. f[i] = f[i - 1] \o seqs[i]
        BY <4>2, <4>3
      <4> QED
        BY <4>1, <4>3, <4>4
    <3>4. f[m] \in Seq(S) /\ Elements(f[m]) = AllElements(seqs, m)
      BY <2>12, <2>14, <3>1, <3>2
    <3>5. AllElements(seqs, m + 1) = AllElements(seqs, m) \cup Elements(seqs[m + 1])
      <4>1. 1 .. m + 1 = (1 .. m) \cup {m + 1}
        BY <3>1
      <4> QED
        BY <4>1 DEF AllElements
    <3>6. seqs[m + 1] \in Seq(S)
      BY <1>2, <3>2
    <3>7. PICK a \in Seq(S), b \in Seq(S) : a = f[m] /\ b = seqs[m + 1]
      BY <3>4, <3>6
    <3>8. a \o b \in Seq(S) /\ Elements(a \o b) = Elements(a) \cup Elements(b)
      BY ElementsJoin
    <3> QED
      BY <3>3, <3>4, <3>5, <3>7, <3>8
  <2>15. Nat \subseteq T
    BY <2>13, <2>14, EveryNatural
  <2>16. c - 1 \in T /\ c - 1 + 1 = c
    BY <1>4, <2>15
  <2> QED
    BY <1>1, <2>10, <2>12, <2>16
<1> QED
  BY <1>3, <1>4
=============================================================================
