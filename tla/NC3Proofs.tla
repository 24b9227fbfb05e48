------------------------------ MODULE NC3Proofs -----------------------------
(* What holds of the classic format for every value of the constants: the  *)
(* layout of the variables, what the header in the file says, that         *)
(* nc_abort restores the dataset, that nc_enddef keeps the values, and     *)
(* that all of it is the dataset that NCRecords describes.                 *)
EXTENDS NC3, DataFacts

Vars    == [rec : BOOLEAN, xlen : Nat \ {0}, begin : Nat]
Headers == [vars : Seq(Vars), att : Nat, numrecs : Nat]
Infos   == [vars : Seq(Vars), att : Nat, numrecs : Nat,
            begin_var : Nat, begin_rec : Nat, recsize : Nat]

-----------------------------------------------------------------------------
(* Numbers *)

(* The larger of two numbers is not less than either.                      *)
LEMMA LargerIs ==
  ASSUME NEW m \in Nat, NEW n \in Nat
  PROVE  Larger(m, n) \in Nat /\ Larger(m, n) >= m /\ Larger(m, n) >= n
BY DEF Larger

(* Least is the least number of a set (used by NC_computeshapes for the    *)
(* first variable of a section).                                           *)
LEMMA LeastIs ==
  ASSUME NEW S, S \subseteq Nat, S # {}
  PROVE  Least(S) \in S /\ \A j \in S : Least(S) <= j
<1>1. \E k \in S : \A j \in S : k <= j
  BY LeastNatural
<1> QED
  BY <1>1 DEF Least

(* Greatest is the greatest number of a bounded set.                       *)
LEMMA GreatestIs ==
  ASSUME NEW n \in Nat, NEW S, S \subseteq 0 .. n, S # {}
  PROVE  Greatest(S) \in S /\ \A j \in S : j <= Greatest(S)
<1>1. PICK T : T = {n - i : i \in S}
  OBVIOUS
<1>2. T \subseteq Nat /\ T # {}
  <2>1. \A i \in S : i \in 0 .. n /\ n - i \in Nat
    OBVIOUS
  <2> QED
    BY <1>1, <2>1
<1>3. PICK m \in T : \A j \in T : m <= j
  BY <1>2, LeastNatural
<1>4. PICK k \in S : m = n - k
  BY <1>1
<1>5. ASSUME NEW j \in S
      PROVE  j <= k
  <2>1. n - k <= n - j /\ j \in Nat /\ k \in Nat
    BY <1>1, <1>3, <1>4
  <2> QED
    BY <2>1
<1> QED
  BY <1>5 DEF Greatest

(* _RNDUP never rounds down.                                               *)
LEMMA RndUpIs ==
  ASSUME NEW n \in Nat, NEW align \in Nat \ {0}
  PROVE  RndUp(n, align) \in Nat /\ RndUp(n, align) >= n
<1>1. PICK m \in Nat : m = n + align - 1
  OBVIOUS
<1>2. PICK q \in Nat : q = m \div align
  OBVIOUS
<1>3. PICK r \in 0 .. align - 1 : r = m % align
  OBVIOUS
<1>4. m = align * q + r
  BY <1>2, <1>3
<1>5. PICK p \in Nat : p = q * align /\ p = align * q
  OBVIOUS
<1>6. p >= n
  BY <1>1, <1>3, <1>4, <1>5
<1>7. RndUp(n, align) = p
  BY <1>1, <1>2, <1>5 DEF RndUp
<1> QED
  BY <1>5, <1>6, <1>7

(* An alignment of one leaves a number alone.                              *)
LEMMA RndUpOne ==
  ASSUME NEW n \in Nat
  PROVE  RndUp(n, 1) = n
BY DEF RndUp

(* A variable has at least one byte, and padding takes none away.          *)
LEMMA VarLenIs ==
  ASSUME NEW v \in Vars
  PROVE  VarLen(v) \in Nat /\ VarLen(v) >= v.xlen /\ VarLen(v) >= 1
<1>1. v.xlen \in Nat /\ v.xlen >= 1
  BY DEF Vars
<1>2. Align \in Nat \ {0}
  BY ParametersAssumption
<1>3. RndUp(v.xlen, Align) \in Nat /\ RndUp(v.xlen, Align) >= v.xlen
  BY <1>1, <1>2, RndUpIs
<1> QED
  BY <1>1, <1>3 DEF VarLen

(* A section lies behind what comes before it, and does not move back      *)
(* unless it is to be aligned.                                             *)
LEMMA PlacedIs ==
  ASSUME NEW begin \in Nat, NEW index \in Nat, NEW minfree \in Nat,
         NEW align \in Nat \ {0}
  PROVE  /\ Placed(begin, index, minfree, align) \in Nat
         /\ Placed(begin, index, minfree, align) >= index
         /\ align = 1 => Placed(begin, index, minfree, align) >= begin
<1>1. PICK m \in Nat : m = index + minfree /\ m >= index
  OBVIOUS
<1>2. RndUp(m, align) \in Nat /\ RndUp(m, align) >= m
  BY RndUpIs
<1>3. begin % 1 = 0
  OBVIOUS
<1>4. ASSUME align = 1
      PROVE  Placed(begin, index, minfree, align) >= begin
  <2>1. Placed(begin, index, minfree, 1) = IF begin >= m THEN begin ELSE RndUp(m, 1)
    BY <1>1, <1>3 DEF Placed
  <2>2. RndUp(m, 1) = m
    BY RndUpOne
  <2> QED
    BY <1>4, <2>1, <2>2
<1>5. \/ Placed(begin, index, minfree, align) = begin /\ begin >= m
      \/ Placed(begin, index, minfree, align) = RndUp(m, align)
  BY <1>1 DEF Placed
<1> QED
  BY <1>1, <1>2, <1>4, <1>5

-----------------------------------------------------------------------------
(* The sizes of records, and the ends of fixed variables *)

PaddedTo(f, vs) ==
  f = [n \in 0 .. Len(vs) |->
         IF n = 0 THEN 0
         ELSE f[n - 1] + IF vs[n].rec THEN VarLen(vs[n]) ELSE 0]

(* The record offsets that NC_begins adds up, step by step.                *)
LEMMA PaddedIs ==
  ASSUME NEW h, h.vars \in Seq(Vars)
  PROVE  /\ Padded(h)[0] = 0
         /\ \A n \in 0 .. Len(h.vars) : Padded(h)[n] \in Nat
         /\ \A n \in 1 .. Len(h.vars) :
              Padded(h)[n] = Padded(h)[n - 1]
                             + IF h.vars[n].rec THEN VarLen(h.vars[n]) ELSE 0
<1>1. PICK vs \in Seq(Vars) : vs = h.vars
  OBVIOUS
<1>2. PICK c \in Nat : c = Len(vs)
  BY LenProperties
<1>3. \A n \in 1 .. c : vs[n] \in Vars
  BY <1>2, ElementOfSeq
<1>4. PICK size : size = [n \in 1 .. c |-> IF vs[n].rec THEN VarLen(vs[n]) ELSE 0]
  OBVIOUS
<1>5. \A n \in 1 .. c : size[n] \in Nat
  BY <1>3, <1>4, VarLenIs
<1>6. PICK step : step = [p \in Nat \X Nat |->
                            IF p[1] + 1 <= c THEN p[2] + size[p[1] + 1] ELSE 0]
  OBVIOUS
<1>7. ASSUME NEW i \in Nat, NEW m \in Nat
      PROVE  /\ step[<<i, m>>] = IF i + 1 <= c THEN m + size[i + 1] ELSE 0
             /\ step[<<i, m>>] \in Nat
  <2>1. i + 1 <= c => i + 1 \in 1 .. c
    OBVIOUS
  <2> QED
    BY <1>5, <1>6, <2>1
<1>8. step \in [Nat \X Nat -> Nat]
  BY <1>6, <1>7
<1>9. PICK f : IsIteration(f, Nat, 0, step)
  BY <1>8, Iteration
<1>10. f \in [Nat -> Nat] /\ f[0] = 0 /\ \A n \in Nat : f[n + 1] = step[<<n, f[n]>>]
  BY <1>9 DEF IsIteration
<1>11. \A n \in Nat : n + 1 <= c => f[n + 1] = f[n] + size[n + 1]
  BY <1>7, <1>10
<1>12. PICK g : g = [n \in 0 .. c |-> f[n]]
  OBVIOUS
<1>13. PaddedTo(g, vs)
  <2>1. ASSUME NEW n \in 0 .. c
        PROVE  g[n] = IF n = 0 THEN 0
                      ELSE g[n - 1] + IF vs[n].rec THEN VarLen(vs[n]) ELSE 0
    <3>1. CASE n = 0
      BY <1>10, <1>12, <3>1
    <3>2. CASE n # 0
      <4>1. n - 1 \in Nat /\ n - 1 \in 0 .. c /\ n - 1 + 1 = n /\ n \in 1 .. c
        BY <3>2
      <4>2. f[n] = f[n - 1] + size[n]
        BY <1>11, <4>1
      <4>3. g[n] = g[n - 1] + size[n]
        BY <1>12, <4>1, <4>2
      <4> QED
        BY <1>4, <3>2, <4>1, <4>3
    <3> QED
      BY <3>1, <3>2
  <2> QED
    BY <1>2, <1>12, <2>1 DEF PaddedTo
<1>14. PICK e : e = CHOOSE x : PaddedTo(x, vs)
  OBVIOUS
<1>15. PaddedTo(e, vs)
  BY <1>13, <1>14
<1>16. Padded(h) = e
  BY <1>1, <1>14 DEF Padded, PaddedTo
<1>17. e[0] = 0 /\ \A n \in 1 .. c : e[n] = e[n - 1] + size[n]
  BY <1>2, <1>4, <1>15 DEF PaddedTo
<1>18. PICK T : T = {n \in Nat : n <= c => e[n] \in Nat}
  OBVIOUS
<1>19. 0 \in T
  BY <1>17, <1>18
<1>20. ASSUME NEW n \in Nat, n \in T
       PROVE  n + 1 \in T
  <2> SUFFICES ASSUME n + 1 <= c
               PROVE  e[n + 1] \in Nat
    BY <1>18
  <2>1. n + 1 \in 1 .. c /\ n + 1 - 1 = n /\ e[n] \in Nat
    BY <1>18, <1>20
  <2>2. e[n + 1] = e[n] + size[n + 1]
    BY <1>17, <2>1
  <2> QED
    BY <1>5, <2>1, <2>2
<1>21. \A n \in 0 .. c : e[n] \in Nat
  <2>1. Nat \subseteq T
    BY <1>19, <1>20, EveryNatural
  <2> QED
    BY <1>18, <2>1
<1>22. \A n \in 1 .. c : e[n] = e[n - 1] + IF vs[n].rec THEN VarLen(vs[n]) ELSE 0
  BY <1>4, <1>17
<1> QED
  BY <1>1, <1>2, <1>16, <1>17, <1>21, <1>22

(* They grow, and by what each record variable takes.                      *)
LEMMA PaddedGrows ==
  ASSUME NEW h, h.vars \in Seq(Vars)
  PROVE  /\ \A i, k \in 0 .. Len(h.vars) : i <= k => Padded(h)[i] <= Padded(h)[k]
         /\ \A i \in Recs(h), k \in 0 .. Len(h.vars) :
              i <= k => Padded(h)[i - 1] + VarLen(h.vars[i]) <= Padded(h)[k]
<1>1. PICK c \in Nat : c = Len(h.vars) /\ DOMAIN h.vars = 1 .. c
  BY LenProperties
<1>2. PICK p : p = Padded(h)
  OBVIOUS
<1>3. /\ \A n \in 0 .. c : p[n] \in Nat
      /\ \A n \in 1 .. c : p[n] = p[n - 1]
                                  + IF h.vars[n].rec THEN VarLen(h.vars[n]) ELSE 0
  BY <1>1, <1>2, PaddedIs
<1>4. \A n \in 1 .. c : VarLen(h.vars[n]) \in Nat
  BY <1>1, ElementOfSeq, VarLenIs
<1>5. ASSUME NEW i \in 0 .. c
      PROVE  \A k \in 0 .. c : i <= k => p[i] <= p[k]
  <2>1. PICK T : T = {d \in Nat : i + d <= c => p[i] <= p[i + d]}
    OBVIOUS
  <2>2. 0 \in T
    BY <1>3, <2>1
  <2>3. ASSUME NEW d \in Nat, d \in T
        PROVE  d + 1 \in T
    <3> SUFFICES ASSUME i + (d + 1) <= c
                 PROVE  p[i] <= p[i + (d + 1)]
      BY <2>1
    <3>1. PICK n \in 1 .. c : n = i + (d + 1) /\ n - 1 = i + d /\ n - 1 \in 0 .. c
      OBVIOUS
    <3>2. p[i] <= p[n - 1]
      BY <2>1, <2>3, <3>1
    <3>3. p[n - 1] <= p[n]
      BY <1>3, <1>4, <3>1
    <3>4. p[i] \in Nat /\ p[n - 1] \in Nat /\ p[n] \in Nat
      BY <1>3, <3>1
    <3> QED
      BY <3>1, <3>2, <3>3, <3>4
  <2>4. Nat \subseteq T
    BY <2>1, <2>2, <2>3, EveryNatural
  <2>5. ASSUME NEW k \in 0 .. c, i <= k
        PROVE  p[i] <= p[k]
    <3>1. k - i \in T /\ i + (k - i) = k
      BY <2>4, <2>5
    <3> QED
      BY <2>1, <3>1
  <2> QED
    BY <2>5
<1>6. ASSUME NEW i \in Recs(h), NEW k \in 0 .. c, i <= k
      PROVE  p[i - 1] + VarLen(h.vars[i]) <= p[k]
  <2>1. i \in 1 .. c /\ h.vars[i].rec /\ i \in 0 .. c
    BY <1>1 DEF Recs
  <2>2. p[i] = p[i - 1] + VarLen(h.vars[i])
    BY <1>3, <2>1
  <2> QED
    BY <1>5, <1>6, <2>1, <2>2
<1> QED
  BY <1>1, <1>2, <1>5, <1>6

(* They are the same for variables that differ in their places only.       *)
LEMMA PaddedSame ==
  ASSUME NEW h, h.vars \in Seq(Vars), NEW g, g.vars \in Seq(Vars),
         NEW n \in Nat, n <= Len(h.vars), n <= Len(g.vars),
         \A i \in 1 .. n : h.vars[i].rec = g.vars[i].rec /\ h.vars[i].xlen = g.vars[i].xlen
  PROVE  \A k \in 0 .. n : Padded(h)[k] = Padded(g)[k]
<1>1. Len(h.vars) \in Nat /\ Len(g.vars) \in Nat
  BY LenProperties
<1>2. PICK T : T = {k \in Nat : k <= n => Padded(h)[k] = Padded(g)[k]}
  OBVIOUS
<1>3. 0 \in T
  BY <1>2, PaddedIs
<1>4. ASSUME NEW k \in Nat, k \in T
      PROVE  k + 1 \in T
  <2> SUFFICES ASSUME k + 1 <= n
               PROVE  Padded(h)[k + 1] = Padded(g)[k + 1]
    BY <1>2
  <2>1. PICK m \in Nat : m = k + 1 /\ m - 1 = k /\ m \in 1 .. n
    OBVIOUS
  <2>2. m \in 1 .. Len(h.vars) /\ m \in 1 .. Len(g.vars)
    BY <1>1, <2>1
  <2>3. Padded(h)[m - 1] = Padded(g)[m - 1]
    BY <1>2, <1>4, <2>1
  <2>4. VarLen(h.vars[m]) = VarLen(g.vars[m]) /\ h.vars[m].rec = g.vars[m].rec
    BY <2>1 DEF VarLen
  <2>5. /\ Padded(h)[m] = Padded(h)[m - 1] + IF h.vars[m].rec THEN VarLen(h.vars[m]) ELSE 0
        /\ Padded(g)[m] = Padded(g)[m - 1] + IF g.vars[m].rec THEN VarLen(g.vars[m]) ELSE 0
    BY <2>2, PaddedIs
  <2> QED
    BY <2>1, <2>3, <2>4, <2>5
<1>5. Nat \subseteq T
  BY <1>3, <1>4, EveryNatural
<1> QED
  BY <1>2, <1>5

(* Where a variable lay before nc_redef is an address, 0 for a new one.    *)
LEMMA OldBeginIs ==
  ASSUME NEW i \in Nat, old \in Infos \cup {None}
  PROVE  OldBegin(i) \in Nat
<1>1. old.vars \in Seq(Vars)
  <2>1. None.vars = <<>> /\ <<>> \in Seq(Vars)
    BY EmptySeq DEF None
  <2> QED
    BY <2>1 DEF Infos
<1>2. i \in DOMAIN old.vars => old.vars[i] \in Vars
  BY <1>1, ElementOfSeq, LenProperties
<1> QED
  BY <1>2 DEF OldBegin, Vars

EndsTo(f, begin) ==
  f = [n \in 0 .. Len(nc.vars) |->
         IF n = 0 THEN begin
         ELSE IF nc.vars[n].rec THEN f[n - 1]
         ELSE Larger(f[n - 1], OldBegin(n)) + VarLen(nc.vars[n])]

(* The ends of the fixed variables that NC_begins adds up, step by step.   *)
LEMMA FixedEndsIs ==
  ASSUME NEW b \in Nat, nc.vars \in Seq(Vars), old \in Infos \cup {None}
  PROVE  /\ FixedEnds(b)[0] = b
         /\ \A n \in 0 .. Len(nc.vars) : FixedEnds(b)[n] \in Nat
         /\ \A n \in 1 .. Len(nc.vars) :
              FixedEnds(b)[n] = IF nc.vars[n].rec THEN FixedEnds(b)[n - 1]
                                ELSE Larger(FixedEnds(b)[n - 1], OldBegin(n))
                                     + VarLen(nc.vars[n])
         /\ \A n \in 1 .. Len(nc.vars) : FixedEnds(b)[n - 1] <= FixedEnds(b)[n]
<1>1. PICK vs \in Seq(Vars) : vs = nc.vars
  OBVIOUS
<1>2. PICK c \in Nat : c = Len(vs)
  BY LenProperties
<1>3. \A n \in 1 .. c : vs[n] \in Vars
  BY <1>2, ElementOfSeq
<1>4. PICK next : next = [a \in (1 .. c) \X Nat |->
                            IF vs[a[1]].rec THEN a[2]
                            ELSE Larger(a[2], OldBegin(a[1])) + VarLen(vs[a[1]])]
  OBVIOUS
<1>5. ASSUME NEW n \in 1 .. c, NEW m \in Nat
      PROVE  /\ next[<<n, m>>] = IF vs[n].rec THEN m
                                 ELSE Larger(m, OldBegin(n)) + VarLen(vs[n])
             /\ next[<<n, m>>] \in Nat /\ next[<<n, m>>] >= m
  <2>1. next[<<n, m>>] = IF vs[n].rec THEN m
                         ELSE Larger(m, OldBegin(n)) + VarLen(vs[n])
    BY <1>4
  <2>2. OldBegin(n) \in Nat /\ VarLen(vs[n]) \in Nat
    <3>1. n \in Nat
      BY <1>2
    <3>2. OldBegin(n) \in Nat
      BY <3>1, OldBeginIs
    <3>3. vs[n] \in Vars
      BY <1>3
    <3>4. VarLen(vs[n]) \in Nat
      BY <3>3, VarLenIs
    <3> QED
      BY <3>2, <3>4
  <2>3. Larger(m, OldBegin(n)) \in Nat /\ Larger(m, OldBegin(n)) >= m
    BY <2>2, LargerIs
  <2> QED
    BY <2>1, <2>2, <2>3
<1>6. PICK step : step = [a \in Nat \X Nat |->
                            IF a[1] + 1 \in 1 .. c THEN next[<<a[1] + 1, a[2]>>]
                            ELSE 0]
  OBVIOUS
<1>7. ASSUME NEW i \in Nat, NEW m \in Nat
      PROVE  /\ i + 1 \in 1 .. c => step[<<i, m>>] = next[<<i + 1, m>>]
             /\ step[<<i, m>>] \in Nat
  BY <1>5, <1>6
<1>8. step \in [Nat \X Nat -> Nat]
  BY <1>6, <1>7
<1>9. PICK f : IsIteration(f, Nat, b, step)
  BY <1>8, Iteration
<1>10. f \in [Nat -> Nat] /\ f[0] = b /\ \A n \in Nat : f[n + 1] = step[<<n, f[n]>>]
  BY <1>9 DEF IsIteration
<1>11. ASSUME NEW n \in Nat, n + 1 \in 1 .. c
       PROVE  f[n + 1] = next[<<n + 1, f[n]>>]
  <2>1. f[n] \in Nat /\ f[n + 1] = step[<<n, f[n]>>]
    BY <1>10
  <2> QED
    BY <1>7, <1>11, <2>1
<1>12. PICK g : g = [n \in 0 .. c |-> f[n]]
  OBVIOUS
<1>13. EndsTo(g, b)
  <2>1. ASSUME NEW n \in 0 .. c
        PROVE  g[n] = IF n = 0 THEN b
                      ELSE IF vs[n].rec THEN g[n - 1]
                      ELSE Larger(g[n - 1], OldBegin(n)) + VarLen(vs[n])
    <3>1. CASE n = 0
      BY <1>10, <1>12, <3>1
    <3>2. CASE n # 0
      <4>1. n - 1 \in Nat /\ n - 1 \in 0 .. c /\ n - 1 + 1 = n /\ n \in 1 .. c
        BY <3>2
      <4>2. f[n] = next[<<n, f[n - 1]>>]
        BY <1>11, <4>1
      <4>3. g[n] = next[<<n, g[n - 1]>>] /\ g[n - 1] \in Nat
        BY <1>10, <1>12, <4>1, <4>2
      <4> QED
        BY <1>5, <3>2, <4>1, <4>3
    <3> QED
      BY <3>1, <3>2
  <2> QED
    BY <1>1, <1>2, <1>12, <2>1 DEF EndsTo
<1>14. PICK e : e = CHOOSE x : EndsTo(x, b)
  OBVIOUS
<1>15. EndsTo(e, b)
  BY <1>13, <1>14
<1>16. FixedEnds(b) = e
  BY <1>14 DEF FixedEnds, EndsTo
<1>17. e[0] = b
  BY <1>1, <1>2, <1>15 DEF EndsTo
<1>18. \A n \in 1 .. c : e[n] = IF vs[n].rec THEN e[n - 1]
                                ELSE Larger(e[n - 1], OldBegin(n)) + VarLen(vs[n])
  BY <1>1, <1>2, <1>15 DEF EndsTo
<1>19. PICK T : T = {n \in Nat : n <= c => e[n] \in Nat}
  OBVIOUS
<1>20. 0 \in T
  BY <1>17, <1>19
<1>21. ASSUME NEW n \in Nat, n \in T
       PROVE  n + 1 \in T
  <2> SUFFICES ASSUME n + 1 <= c
               PROVE  e[n + 1] \in Nat
    BY <1>19
  <2>1. PICK m \in 1 .. c : m = n + 1 /\ m - 1 = n
    OBVIOUS
  <2>2. e[m - 1] \in Nat
    BY <1>19, <1>21, <2>1
  <2>3. e[m] = next[<<m, e[m - 1]>>]
    BY <1>5, <1>18, <2>2
  <2> QED
    BY <1>5, <2>1, <2>2, <2>3
<1>22. Nat \subseteq T
  BY <1>20, <1>21, EveryNatural
<1>23. \A n \in 0 .. c : e[n] \in Nat
  BY <1>19, <1>22
<1>24. ASSUME NEW n \in 1 .. c
       PROVE  e[n - 1] <= e[n]
  <2>1. n - 1 \in 0 .. c /\ n \in 0 .. c
    OBVIOUS
  <2>2. e[n - 1] \in Nat
    BY <1>23, <2>1
  <2>3. e[n] = next[<<n, e[n - 1]>>]
    BY <1>5, <1>18, <2>2
  <2> QED
    BY <1>5, <2>2, <2>3
<1> QED
  BY <1>1, <1>2, <1>16, <1>17, <1>18, <1>23, <1>24

(* They never decrease.                                                    *)
LEMMA FixedEndsGrow ==
  ASSUME NEW b \in Nat, nc.vars \in Seq(Vars), old \in Infos \cup {None}
  PROVE  \A i, k \in 0 .. Len(nc.vars) : i <= k => FixedEnds(b)[i] <= FixedEnds(b)[k]
<1>1. PICK c \in Nat : c = Len(nc.vars)
  BY LenProperties
<1>2. PICK e : e = FixedEnds(b)
  OBVIOUS
<1>3. /\ \A n \in 0 .. c : e[n] \in Nat
      /\ \A n \in 1 .. c : e[n - 1] <= e[n]
  BY <1>1, <1>2, FixedEndsIs
<1> SUFFICES ASSUME NEW i \in 0 .. c
             PROVE  \A k \in 0 .. c : i <= k => e[i] <= e[k]
  BY <1>1, <1>2
<1>4. PICK T : T = {d \in Nat : i + d <= c => e[i] <= e[i + d]}
  OBVIOUS
<1>5. 0 \in T
  BY <1>3, <1>4
<1>6. ASSUME NEW d \in Nat, d \in T
      PROVE  d + 1 \in T
  <2> SUFFICES ASSUME i + (d + 1) <= c
               PROVE  e[i] <= e[i + (d + 1)]
    BY <1>4
  <2>1. PICK n \in 1 .. c : n = i + (d + 1) /\ n - 1 = i + d /\ n - 1 \in 0 .. c
    OBVIOUS
  <2>2. e[i] <= e[n - 1]
    BY <1>4, <1>6, <2>1
  <2>3. e[n - 1] <= e[n]
    BY <1>3, <2>1
  <2>4. e[i] \in Nat /\ e[n - 1] \in Nat /\ e[n] \in Nat
    BY <1>3, <2>1
  <2> QED
    BY <2>1, <2>2, <2>3, <2>4
<1>7. Nat \subseteq T
  BY <1>4, <1>5, <1>6, EveryNatural
<1>8. ASSUME NEW k \in 0 .. c, i <= k
      PROVE  e[i] <= e[k]
  <2>1. k - i \in T /\ i + (k - i) = k
    BY <1>7, <1>8
  <2> QED
    BY <1>4, <2>1
<1> QED
  BY <1>8

-----------------------------------------------------------------------------
(* Headers *)

(* The variables of a header are its records and its fixed ones.           *)
LEMMA RecsIs ==
  ASSUME NEW h, h.vars \in Seq(Vars)
  PROVE  /\ Len(h.vars) \in Nat /\ DOMAIN h.vars = 1 .. Len(h.vars)
         /\ Recs(h) \subseteq 1 .. Len(h.vars) /\ Fixed(h) \subseteq 1 .. Len(h.vars)
         /\ Recs(h) \cup Fixed(h) = 1 .. Len(h.vars) /\ Recs(h) \cap Fixed(h) = {}
         /\ IsFiniteSet(Recs(h)) /\ IsFiniteSet(Fixed(h))
         /\ \A i \in 1 .. Len(h.vars) : h.vars[i] \in Vars
         /\ \A i \in Recs(h) : h.vars[i].rec
         /\ \A i \in Fixed(h) : ~h.vars[i].rec
<1>1. Len(h.vars) \in Nat /\ DOMAIN h.vars = 1 .. Len(h.vars)
  BY LenProperties
<1>2. \A i \in 1 .. Len(h.vars) : h.vars[i] \in Vars
  BY ElementOfSeq
<1>3. IsFiniteSet(1 .. Len(h.vars))
  BY <1>1, FS_Interval
<1>4. Recs(h) \subseteq 1 .. Len(h.vars) /\ Fixed(h) \subseteq 1 .. Len(h.vars)
  BY <1>1 DEF Recs, Fixed
<1>5. IsFiniteSet(Recs(h)) /\ IsFiniteSet(Fixed(h))
  BY <1>3, <1>4, FS_Subset
<1> QED
  BY <1>1, <1>2, <1>4, <1>5 DEF Recs, Fixed

(* The record size is the unpadded length of an only record variable, else *)
(* the padded sum.                                                         *)
LEMMA RecSizeIs ==
  ASSUME NEW h, h.vars \in Seq(Vars), NEW p \in Nat
  PROVE  /\ RecSize(h, p) \in Nat
         /\ Recs(h) = {} => RecSize(h, p) = p
         /\ \A i \in Recs(h) :
              \/ Recs(h) = {i} /\ RecSize(h, p) = h.vars[i].xlen
              \/ Recs(h) # {i} /\ RecSize(h, p) = p
<1>1. /\ IsFiniteSet(Recs(h))
      /\ \A i \in Recs(h) : h.vars[i] \in Vars
  BY RecsIs
<1>2. Cardinality(Recs(h)) = 1 <=> \E x : Recs(h) = {x}
  BY <1>1, FS_Singleton
<1>3. ASSUME NEW i, Recs(h) = {i}
      PROVE  RecSize(h, p) = h.vars[i].xlen
  BY <1>2, <1>3 DEF RecSize
<1>4. (~\E x : Recs(h) = {x}) => RecSize(h, p) = p
  BY <1>2 DEF RecSize
<1>5. \A i \in Recs(h) : h.vars[i].xlen \in Nat
  BY <1>1 DEF Vars
<1>6. RecSize(h, p) \in Nat
  <2>1. CASE \E x : Recs(h) = {x}
    BY <1>3, <1>5, <2>1
  <2> QED
    BY <1>4, <2>1
<1> QED
  BY <1>3, <1>4, <1>6

(* A header with the same kinds of variables has records of the same size. *)
LEMMA RecSizeSame ==
  ASSUME NEW h, h.vars \in Seq(Vars), NEW g, g.vars \in Seq(Vars),
         Len(h.vars) = Len(g.vars),
         \A i \in 1 .. Len(h.vars) : /\ h.vars[i].rec = g.vars[i].rec
                                     /\ h.vars[i].xlen = g.vars[i].xlen
  PROVE  /\ Recs(h) = Recs(g) /\ Fixed(h) = Fixed(g)
         /\ RecSize(h, Padded(h)[Len(h.vars)]) = RecSize(g, Padded(g)[Len(g.vars)])
<1>1. PICK c \in Nat : c = Len(h.vars) /\ c = Len(g.vars) /\ DOMAIN h.vars = 1 .. c
                       /\ DOMAIN g.vars = 1 .. c
  BY LenProperties
<1>2. Recs(h) = Recs(g) /\ Fixed(h) = Fixed(g)
  BY <1>1 DEF Recs, Fixed
<1>3. Padded(h)[c] = Padded(g)[c] /\ Padded(h)[c] \in Nat
  <2>1. c \in 0 .. Len(h.vars) /\ c \in 0 .. c /\ c <= Len(h.vars) /\ c <= Len(g.vars)
    BY <1>1
  <2>2. Padded(h)[c] \in Nat
    BY <2>1, PaddedIs
  <2>3. \A i \in 1 .. c : h.vars[i].rec = g.vars[i].rec /\ h.vars[i].xlen = g.vars[i].xlen
    BY <1>1
  <2>4. \A k \in 0 .. c : Padded(h)[k] = Padded(g)[k]
    BY SMTT(60), <2>1, <2>3, PaddedSame
  <2> QED
    BY <2>1, <2>2, <2>4
<1>4. PICK p \in Nat : p = Padded(h)[c]
  BY <1>3
<1>5. RecSize(h, p) = RecSize(g, p)
  <2>1. CASE Recs(h) = {}
    BY <1>2, <2>1, RecSizeIs
  <2>2. CASE Recs(h) # {}
    <3>1. PICK i \in Recs(h) : TRUE
      BY <2>2
    <3>2. i \in 1 .. c
      BY <1>1, RecsIs
    <3>3. h.vars[i].xlen = g.vars[i].xlen
      BY <1>1, <3>2
    <3>4. \/ Recs(h) = {i} /\ RecSize(h, p) = h.vars[i].xlen
          \/ Recs(h) # {i} /\ RecSize(h, p) = p
      BY <3>1, RecSizeIs
    <3>5. \/ Recs(g) = {i} /\ RecSize(g, p) = g.vars[i].xlen
          \/ Recs(g) # {i} /\ RecSize(g, p) = p
      BY <1>2, <3>1, RecSizeIs
    <3> QED
      BY <1>2, <3>3, <3>4, <3>5
  <2> QED
    BY <2>1, <2>2
<1> QED
  BY <1>1, <1>2, <1>3, <1>4, <1>5

(* A header has a size and is not empty.                                   *)
LEMMA XSizeIs ==
  ASSUME NEW h, h.vars \in Seq(Vars), h.att \in Nat
  PROVE  XSize(h) \in Nat /\ XSize(h) >= 1
<1>1. Len(h.vars) \in Nat /\ BaseSize \in Nat \ {0} /\ VarSize \in Nat
  BY LenProperties, ParametersAssumption
<1>2. PICK b \in Nat \ {0}, a \in Nat, m \in Nat :
        b = BaseSize /\ a = h.att /\ m = Len(h.vars) * VarSize
  BY <1>1
<1>3. XSize(h) = b + a + m
  BY <1>2 DEF XSize
<1> QED
  BY <1>2, <1>3

-----------------------------------------------------------------------------
(* What NC_begins returns: the same variables, those with a fixed size from *)
(* b on, the records from begin_rec on, and none before its old place.      *)

PlacedFrom(b, new) ==
  /\ new \in Infos
  /\ new.att = nc.att /\ new.numrecs = nc.numrecs
  /\ Len(new.vars) = Len(nc.vars)
  /\ \A i \in 1 .. Len(nc.vars) :
       /\ new.vars[i].rec = nc.vars[i].rec /\ new.vars[i].xlen = nc.vars[i].xlen
       /\ new.vars[i].begin =
            Larger(IF nc.vars[i].rec THEN new.begin_rec + Padded(nc)[i - 1]
                   ELSE FixedEnds(b)[i - 1], OldBegin(i))
  /\ new.begin_var = IF Fixed(nc) = {} THEN new.begin_rec
                     ELSE new.vars[Least(Fixed(nc))].begin
  /\ new.begin_rec >= FixedEnds(b)[Len(nc.vars)]
  /\ new.recsize = RecSize(nc, Padded(nc)[Len(nc.vars)])

(* Where the two sections begin.                                           *)
SectionsFrom(b, r) ==
  /\ b = Larger(Placed(nc.begin_var, XSize(nc), r.h_minfree, r.v_align),
                OldStart("begin_var"))
  /\ NC_begins(r).begin_rec = Placed(Larger(nc.begin_rec, OldStart("begin_rec")),
                                     FixedEnds(b)[Len(nc.vars)], r.v_minfree, r.r_align)

(* NC_begins places the variables from an address b that is behind the     *)
(* header and not before where they began.                                 *)
LEMMA BeginsIs ==
  ASSUME NEW r \in Reserves, nc \in Infos, old \in Infos \cup {None}, nc.vars # <<>>
  PROVE  \E b \in Nat :
           /\ b >= XSize(nc) /\ PlacedFrom(b, NC_begins(r)) /\ SectionsFrom(b, r)
           /\ old # None => b >= old.begin_var
           /\ old # None /\ r.r_align = 1 => NC_begins(r).begin_rec >= old.begin_rec
<1>1. PICK vs \in Seq(Vars) : vs = nc.vars /\ vs # <<>>
  BY DEF Infos
<1>2. PICK c \in Nat : c = Len(vs) /\ DOMAIN vs = 1 .. c
  BY LenProperties
<1>3. \A i \in 1 .. c : vs[i] \in Vars
  BY <1>2, ElementOfSeq
<1>4. nc.begin_var \in Nat /\ nc.begin_rec \in Nat /\ nc.att \in Nat /\ nc.numrecs \in Nat
  BY DEF Infos
<1>5. XSize(nc) \in Nat
  BY <1>1, <1>4, XSizeIs
<1>6. /\ r.h_minfree \in Nat /\ r.v_align \in Nat \ {0}
      /\ r.v_minfree \in Nat /\ r.r_align \in Nat \ {0}
  BY ParametersAssumption
<1>7. /\ OldStart("begin_var") \in Nat /\ OldStart("begin_rec") \in Nat
      /\ old # None => /\ OldStart("begin_var") = old.begin_var
                       /\ OldStart("begin_rec") = old.begin_rec
  BY DEF OldStart, Infos
<1>8. PICK b \in Nat : /\ b = Larger(Placed(nc.begin_var, XSize(nc), r.h_minfree, r.v_align),
                                     OldStart("begin_var"))
                       /\ b >= XSize(nc) /\ b >= OldStart("begin_var")
  <2>1. PICK m \in Nat : /\ m = Placed(nc.begin_var, XSize(nc), r.h_minfree, r.v_align)
                         /\ m >= XSize(nc)
    BY <1>4, <1>5, <1>6, PlacedIs
  <2>2. /\ Larger(m, OldStart("begin_var")) \in Nat
        /\ Larger(m, OldStart("begin_var")) >= m
        /\ Larger(m, OldStart("begin_var")) >= OldStart("begin_var")
    BY <1>7, LargerIs
  <2> QED
    BY <1>5, <1>7, <2>1, <2>2
<1>9. PICK fixed : fixed = FixedEnds(b)
  OBVIOUS
<1>10. \A n \in 0 .. c : fixed[n] \in Nat
  BY <1>1, <1>2, <1>9, FixedEndsIs
<1>11. PICK start \in Nat : /\ start = Larger(nc.begin_rec, OldStart("begin_rec"))
                            /\ start >= OldStart("begin_rec")
  BY <1>4, <1>7, LargerIs
<1>12. PICK begin_rec \in Nat :
         /\ begin_rec = Placed(start, fixed[c], r.v_minfree, r.r_align)
         /\ begin_rec >= fixed[c]
         /\ r.r_align = 1 => begin_rec >= start
  <2>1. PICK end \in Nat : end = fixed[c]
    BY <1>10
  <2> QED
    BY <1>6, <2>1, PlacedIs
<1>13. PICK p : p = Padded(nc)
  OBVIOUS
<1>14. \A n \in 0 .. c : p[n] \in Nat
  BY <1>1, <1>2, <1>13, PaddedIs
<1>15. PICK at : at = [i \in 1 .. c |->
                         Larger(IF vs[i].rec THEN begin_rec + p[i - 1] ELSE fixed[i - 1],
                                OldBegin(i))]
  OBVIOUS
<1>16. ASSUME NEW i \in 1 .. c
       PROVE  at[i] \in Nat
  <2>1. i - 1 \in 0 .. c /\ i \in Nat
    OBVIOUS
  <2>2. fixed[i - 1] \in Nat /\ p[i - 1] \in Nat /\ OldBegin(i) \in Nat
    BY <1>10, <1>14, <2>1, OldBeginIs
  <2>3. PICK m \in Nat : m = IF vs[i].rec THEN begin_rec + p[i - 1] ELSE fixed[i - 1]
    BY <2>2
  <2> QED
    BY <1>15, <2>2, <2>3, LargerIs
<1>17. PICK placed : placed = [i \in 1 .. c |-> [vs[i] EXCEPT !.begin = at[i]]]
  OBVIOUS
<1>18. \A i \in 1 .. c : /\ placed[i] \in Vars /\ placed[i].begin = at[i]
                         /\ placed[i].rec = vs[i].rec /\ placed[i].xlen = vs[i].xlen
  BY <1>3, <1>16, <1>17 DEF Vars
<1>19. placed \in Seq(Vars) /\ Len(placed) = c
  <2>1. placed = [i \in 1 .. c |-> placed[i]]
    BY <1>17
  <2>2. \A i \in 1 .. c : placed[i] \in Vars
    BY <1>18
  <2> QED
    BY <2>1, <2>2, SeqDef
<1>20. PICK new : new = [nc EXCEPT
         !.vars      = placed,
         !.begin_var = IF Fixed(nc) = {} THEN begin_rec
                       ELSE placed[Least(Fixed(nc))].begin,
         !.begin_rec = begin_rec,
         !.recsize   = RecSize(nc, p[c])]
  OBVIOUS
<1>21. NC_begins(r) = new
  <2>1. placed = [i \in DOMAIN vs |-> [vs[i] EXCEPT !.begin =
                     Larger(IF vs[i].rec THEN begin_rec + Padded(nc)[i - 1]
                            ELSE fixed[i - 1], OldBegin(i))]]
    BY <1>2, <1>13, <1>15, <1>17
  <2>2. fixed = FixedEnds(Larger(Placed(nc.begin_var, XSize(nc), r.h_minfree, r.v_align),
                                 OldStart("begin_var")))
    BY <1>8, <1>9
  <2>3. begin_rec = Placed(Larger(nc.begin_rec, OldStart("begin_rec")),
                           fixed[Len(nc.vars)], r.v_minfree, r.r_align)
    BY <1>1, <1>2, <1>11, <1>12
  <2>4. new = [nc EXCEPT
          !.vars      = placed,
          !.begin_var = IF Fixed(nc) = {} THEN begin_rec
                        ELSE placed[Least(Fixed(nc))].begin,
          !.begin_rec = begin_rec,
          !.recsize   = RecSize(nc, Padded(nc)[Len(nc.vars)])]
    BY <1>1, <1>2, <1>13, <1>20
  <2>5. placed = [i \in DOMAIN nc.vars |-> [nc.vars[i] EXCEPT !.begin =
                     Larger(IF nc.vars[i].rec THEN begin_rec + Padded(nc)[i - 1]
                            ELSE fixed[i - 1], OldBegin(i))]]
    BY <1>1, <2>1
  <2>6. nc.vars # <<>>
    BY <1>1
  <2> QED
    BY SMTT(30), <2>2, <2>3, <2>4, <2>5, <2>6 DEF NC_begins
<1>22. (IF Fixed(nc) = {} THEN begin_rec ELSE placed[Least(Fixed(nc))].begin) \in Nat
  <2>1. CASE Fixed(nc) # {}
    <3>1. Fixed(nc) \subseteq 1 .. c /\ Fixed(nc) \subseteq Nat
      BY <1>1, <1>2 DEF Fixed
    <3>2. Least(Fixed(nc)) \in 1 .. c
      BY <2>1, <3>1, LeastIs
    <3> QED
      BY <1>16, <1>18, <2>1, <3>2
  <2> QED
    BY <2>1
<1>23. RecSize(nc, p[c]) \in Nat
  BY SMTT(60), <1>1, <1>14, RecSizeIs
<1>24. /\ new \in Infos /\ new.vars = placed /\ new.begin_rec = begin_rec
       /\ new.begin_var = IF Fixed(nc) = {} THEN begin_rec
                          ELSE placed[Least(Fixed(nc))].begin
       /\ new.recsize = RecSize(nc, p[c]) /\ new.att = nc.att /\ new.numrecs = nc.numrecs
  BY <1>19, <1>20, <1>22, <1>23 DEF Infos
<1>25. PlacedFrom(b, new)
  BY <1>1, <1>2, <1>9, <1>12, <1>13, <1>15, <1>18, <1>19, <1>24 DEF PlacedFrom
<1>26. old # None /\ r.r_align = 1 => new.begin_rec >= old.begin_rec
  BY <1>7, <1>11, <1>12, <1>24
<1>27. SectionsFrom(b, r)
  BY <1>1, <1>2, <1>8, <1>9, <1>11, <1>12, <1>21, <1>24 DEF SectionsFrom
<1> QED
  BY <1>7, <1>8, <1>21, <1>25, <1>26, <1>27

-----------------------------------------------------------------------------
(* The layout: fixed variables in the order of their definition behind the *)
(* header, then the records without gaps.                                  *)

LaidOut(h) ==
  /\ \A i \in DOMAIN h.vars : XSize(h) <= h.vars[i].begin
  /\ \A i, k \in Fixed(h) : i < k => End(h, i) <= h.vars[k].begin
  /\ \A i \in Fixed(h) : End(h, i) <= h.begin_rec
  /\ \A i \in Recs(h) : h.vars[i].begin = h.begin_rec + Padded(h)[i - 1]
  /\ Fixed(h) # {} => h.begin_var = h.vars[Least(Fixed(h))].begin
  /\ h.recsize = RecSize(h, Padded(h)[Len(h.vars)])

(* The variables of h are still there in g, perhaps at other places.       *)
Extends(h, g) ==
  /\ Len(h.vars) <= Len(g.vars)
  /\ \A i \in 1 .. Len(h.vars) :
       g.vars[i].rec = h.vars[i].rec /\ g.vars[i].xlen = h.vars[i].xlen

(* A variable ends behind its beginning.                                   *)
LEMMA EndIs ==
  ASSUME NEW h, h.vars \in Seq(Vars), NEW i \in 1 .. Len(h.vars)
  PROVE  /\ h.vars[i].begin \in Nat /\ VarLen(h.vars[i]) \in Nat
         /\ VarLen(h.vars[i]) >= h.vars[i].xlen /\ h.vars[i].xlen \in Nat \ {0}
         /\ End(h, i) \in Nat /\ End(h, i) = h.vars[i].begin + VarLen(h.vars[i])
         /\ h.vars[i].begin < End(h, i)
<1>1. h.vars[i] \in Vars
  BY RecsIs
<1>2. VarLen(h.vars[i]) \in Nat /\ VarLen(h.vars[i]) >= h.vars[i].xlen
      /\ VarLen(h.vars[i]) >= 1
  BY <1>1, VarLenIs
<1>3. h.vars[i].begin \in Nat /\ h.vars[i].xlen \in Nat \ {0}
  BY <1>1 DEF Vars
<1> QED
  BY <1>2, <1>3 DEF End

(* The parts of an NC3_INFO.                                               *)
LEMMA InfosAre ==
  ASSUME NEW h \in Infos
  PROVE  /\ h.vars \in Seq(Vars) /\ h.att \in Nat /\ h.numrecs \in Nat
         /\ h.begin_var \in Nat /\ h.begin_rec \in Nat /\ h.recsize \in Nat
         /\ h # None /\ XSize(h) \in Nat /\ XSize(h) >= 1
<1>1. h.vars \in Seq(Vars) /\ h.att \in Nat
  BY DEF Infos
<1>2. h # None
  <2>1. DOMAIN h = {"vars", "att", "numrecs", "begin_var", "begin_rec", "recsize"}
    BY DEF Infos
  <2>2. DOMAIN None = {"vars", "att", "open"}
    BY DEF None
  <2> QED
    BY <2>1, <2>2
<1> QED
  BY <1>1, <1>2, XSizeIs DEF Infos

(* What NC_begins places is laid out, when no record moves towards the     *)
(* beginning of the file, and nothing else does.                           *)
LEMMA BeginsLaid ==
  ASSUME nc \in Infos, NEW b \in Nat, NEW new, PlacedFrom(b, new), b >= XSize(nc),
         \/ old = None
         \/ /\ old \in Infos /\ LaidOut(old) /\ Extends(old, nc)
            /\ b >= old.begin_var /\ new.begin_rec >= old.begin_rec
  PROVE  /\ LaidOut(new) /\ new.begin_var >= b
         /\ \A i \in DOMAIN old.vars : new.vars[i].begin >= old.vars[i].begin
<1>1. /\ nc.vars \in Seq(Vars) /\ nc.att \in Nat /\ XSize(nc) \in Nat
  BY InfosAre
<1>2. PICK c \in Nat : c = Len(nc.vars)
  BY <1>1, RecsIs
<1>3. /\ new \in Infos /\ new.vars \in Seq(Vars) /\ new.begin_rec \in Nat
      /\ new.begin_var \in Nat /\ Len(new.vars) = c
  BY <1>2, InfosAre DEF PlacedFrom
<1>4. /\ \A i \in 1 .. c : /\ new.vars[i].rec = nc.vars[i].rec
                           /\ new.vars[i].xlen = nc.vars[i].xlen
      /\ Recs(new) = Recs(nc) /\ Fixed(new) = Fixed(nc)
      /\ new.recsize = RecSize(new, Padded(new)[Len(new.vars)])
  <2>1. \A i \in 1 .. c : /\ new.vars[i].rec = nc.vars[i].rec
                          /\ new.vars[i].xlen = nc.vars[i].xlen
    BY <1>2 DEF PlacedFrom
  <2>2. new.recsize = RecSize(nc, Padded(nc)[Len(nc.vars)])
    BY DEF PlacedFrom
  <2> QED
    BY <1>1, <1>2, <1>3, <2>1, <2>2, RecSizeSame
<1>5. PICK p : p = Padded(nc) /\ \A n \in 0 .. c : p[n] \in Nat /\ p[n] = Padded(new)[n]
  <2>1. \A n \in 0 .. c : Padded(nc)[n] \in Nat
    BY <1>1, <1>2, PaddedIs
  <2>2. \A n \in 0 .. c : Padded(nc)[n] = Padded(new)[n]
    BY <1>1, <1>2, <1>3, <1>4, PaddedSame
  <2> QED
    BY <2>1, <2>2
<1>6. old \in Infos \cup {None}
  OBVIOUS
<1>7. PICK f : /\ f = FixedEnds(b) /\ f[0] = b
               /\ \A n \in 0 .. c : f[n] \in Nat
               /\ \A i, k \in 0 .. c : i <= k => f[i] <= f[k]
               /\ \A n \in 1 .. c : f[n] = IF nc.vars[n].rec THEN f[n - 1]
                                           ELSE Larger(f[n - 1], OldBegin(n))
                                                + VarLen(nc.vars[n])
  BY <1>1, <1>2, <1>6, FixedEndsIs, FixedEndsGrow
<1>8. /\ Recs(nc) \subseteq 1 .. c /\ Fixed(nc) \subseteq 1 .. c
      /\ DOMAIN new.vars = 1 .. c /\ DOMAIN nc.vars = 1 .. c
      /\ \A i \in Recs(nc) : nc.vars[i].rec
      /\ \A i \in Fixed(nc) : ~nc.vars[i].rec
      /\ Recs(nc) \cup Fixed(nc) = 1 .. c
  <2>1. /\ Recs(nc) \subseteq 1 .. c /\ Fixed(nc) \subseteq 1 .. c
        /\ DOMAIN nc.vars = 1 .. c
        /\ \A i \in Recs(nc) : nc.vars[i].rec
        /\ \A i \in Fixed(nc) : ~nc.vars[i].rec
        /\ Recs(nc) \cup Fixed(nc) = 1 .. c
    BY <1>1, <1>2, RecsIs
  <2>2. DOMAIN new.vars = 1 .. c
    BY <1>3, RecsIs
  <2> QED
    BY <2>1, <2>2
<1>9. \A i \in 1 .. c : OldBegin(i) \in Nat
  BY <1>6, OldBeginIs
<1>10. new.begin_rec >= f[c]
  BY <1>2, <1>7 DEF PlacedFrom
<1>11. \A i \in 1 .. c :
         new.vars[i].begin = Larger(IF nc.vars[i].rec THEN new.begin_rec + p[i - 1]
                                    ELSE f[i - 1], OldBegin(i))
  BY <1>2, <1>5, <1>7 DEF PlacedFrom
<1>12. ASSUME NEW i \in Fixed(nc)
       PROVE  /\ i \in 1 .. c /\ i - 1 \in 0 .. c /\ i \in 0 .. c
              /\ new.vars[i].begin = Larger(f[i - 1], OldBegin(i))
              /\ new.vars[i].begin \in Nat /\ new.vars[i].begin >= f[i - 1]
              /\ new.vars[i].begin >= b /\ End(new, i) = f[i]
  <2>1. i \in 1 .. c /\ i - 1 \in 0 .. c /\ i \in 0 .. c /\ 0 \in 0 .. c /\ 0 <= i - 1
    BY <1>8
  <2>2. f[i - 1] \in Nat /\ OldBegin(i) \in Nat /\ f[0] <= f[i - 1]
    BY <1>7, <1>9, <2>1
  <2>3. new.vars[i].begin = Larger(f[i - 1], OldBegin(i))
    BY <1>8, <1>11, <2>1
  <2>4. new.vars[i].begin \in Nat /\ new.vars[i].begin >= f[i - 1]
    BY <2>2, <2>3, LargerIs
  <2>5. f[i] = Larger(f[i - 1], OldBegin(i)) + VarLen(nc.vars[i])
    BY <1>7, <1>8, <2>1
  <2>6. VarLen(new.vars[i]) = VarLen(nc.vars[i])
    BY <1>4, <2>1 DEF VarLen
  <2>7. End(new, i) = f[i]
    BY <2>3, <2>5, <2>6 DEF End
  <2> QED
    BY <1>7, <2>1, <2>2, <2>3, <2>4, <2>7
<1>13. ASSUME NEW i \in 1 .. c, old # None, i \in DOMAIN old.vars, nc.vars[i].rec
       PROVE  OldBegin(i) = old.begin_rec + p[i - 1]
  <2>1. /\ old \in Infos /\ LaidOut(old) /\ Extends(old, nc)
        /\ old.vars \in Seq(Vars)
    BY <1>13, InfosAre
  <2>2. /\ DOMAIN old.vars = 1 .. Len(old.vars) /\ Len(old.vars) \in Nat
    BY <2>1, RecsIs
  <2>3. i \in Recs(old) /\ Len(old.vars) <= c
    BY <1>2, <1>13, <2>1, <2>2 DEF Extends, Recs
  <2>4. old.vars[i].begin = old.begin_rec + Padded(old)[i - 1]
    BY <2>1, <2>3 DEF LaidOut
  <2>5. \A k \in 0 .. Len(old.vars) : Padded(old)[k] = Padded(nc)[k]
    <3>1. PICK n \in Nat : n = Len(old.vars) /\ n <= Len(old.vars) /\ n <= Len(nc.vars)
      BY <1>2, <2>2, <2>3
    <3>2. \A m \in 1 .. n : /\ old.vars[m].rec = nc.vars[m].rec
                            /\ old.vars[m].xlen = nc.vars[m].xlen
      BY <2>1, <3>1 DEF Extends
    <3>3. old.vars \in Seq(Vars) /\ nc.vars \in Seq(Vars)
      BY <1>1, <2>1
    <3>4. n <= Len(old.vars) /\ n <= Len(nc.vars)
      BY <3>1
    <3>5. \A k \in 0 .. n : Padded(old)[k] = Padded(nc)[k]
      BY <3>2, <3>3, <3>4, PaddedSame
    <3> QED
      BY <3>1, <3>5
  <2>6. i - 1 \in 0 .. Len(old.vars)
    BY <1>13, <2>2
  <2> QED
    BY <1>5, <1>13, <2>4, <2>5, <2>6 DEF OldBegin
<1>14. ASSUME NEW i \in Recs(nc)
       PROVE  /\ i \in 1 .. c /\ i - 1 \in 0 .. c
              /\ new.vars[i].begin = new.begin_rec + p[i - 1]
              /\ new.vars[i].begin \in Nat /\ new.vars[i].begin >= new.begin_rec
  <2>1. i \in 1 .. c /\ i - 1 \in 0 .. c /\ nc.vars[i].rec
    BY <1>8
  <2>2. p[i - 1] \in Nat
    BY <1>5, <2>1
  <2>3. new.vars[i].begin = Larger(new.begin_rec + p[i - 1], OldBegin(i))
    BY <1>11, <2>1
  <2>4. OldBegin(i) <= new.begin_rec + p[i - 1]
    <3>1. CASE old = None
      <4>1. DOMAIN old.vars = {}
        BY <3>1 DEF None
      <4>2. OldBegin(i) = 0
        BY <4>1 DEF OldBegin
      <4> QED
        BY <1>3, <2>2, <4>2
    <3>2. CASE old # None /\ i \in DOMAIN old.vars
      <4>1. OldBegin(i) = old.begin_rec + p[i - 1]
        BY <1>13, <2>1, <3>2
      <4>2. new.begin_rec >= old.begin_rec /\ old.begin_rec \in Nat
        BY <3>2, InfosAre
      <4> QED
        BY <1>3, <2>2, <4>1, <4>2
    <3>3. CASE i \notin DOMAIN old.vars
      <4>1. OldBegin(i) = 0
        BY <3>3 DEF OldBegin
      <4> QED
        BY <1>3, <2>2, <4>1
    <3> QED
      BY <3>1, <3>2, <3>3
  <2>5. new.vars[i].begin = new.begin_rec + p[i - 1]
    BY <1>3, <1>9, <2>1, <2>2, <2>3, <2>4 DEF Larger
  <2> QED
    BY <1>3, <2>1, <2>2, <2>5
<1>15. XSize(new) = XSize(nc)
  <2>1. new.att = nc.att
    BY DEF PlacedFrom
  <2> QED
    BY <1>2, <1>3, <2>1 DEF XSize
<1>16. new.begin_rec >= b
  <2>1. 0 \in 0 .. c /\ c \in 0 .. c /\ 0 <= c
    OBVIOUS
  <2>2. f[0] <= f[c] /\ f[c] \in Nat
    BY <1>7, <2>1
  <2> QED
    BY <1>3, <1>7, <1>10, <2>2
<1>17. \A i \in DOMAIN new.vars : XSize(new) <= new.vars[i].begin
  <2> SUFFICES ASSUME NEW i \in 1 .. c
               PROVE  b <= new.vars[i].begin /\ new.vars[i].begin \in Nat
    BY <1>1, <1>8, <1>15
  <2>1. CASE i \in Fixed(nc)
    BY <1>12, <2>1
  <2>2. CASE i \in Recs(nc)
    BY <1>3, <1>14, <1>16, <2>2
  <2> QED
    BY <1>8, <2>1, <2>2
<1>18. ASSUME NEW i \in Fixed(nc), NEW k \in Fixed(nc), i < k
       PROVE  End(new, i) <= new.vars[k].begin
  <2>1. i <= k - 1 /\ i \in 0 .. c /\ k - 1 \in 0 .. c
    BY <1>12, <1>18
  <2>2. f[i] <= f[k - 1] /\ f[i] \in Nat /\ f[k - 1] \in Nat
    BY <1>7, <2>1
  <2> QED
    BY <1>12, <2>2
<1>19. ASSUME NEW i \in Fixed(nc)
       PROVE  End(new, i) <= new.begin_rec
  <2>1. i <= c /\ i \in 0 .. c /\ c \in 0 .. c
    BY <1>12
  <2>2. f[i] <= f[c] /\ f[i] \in Nat /\ f[c] \in Nat
    BY <1>7, <2>1
  <2> QED
    BY <1>3, <1>10, <1>12, <2>2
<1>20. \A i \in Recs(new) : new.vars[i].begin = new.begin_rec + Padded(new)[i - 1]
  BY <1>4, <1>5, <1>14
<1>21. Fixed(new) # {} => new.begin_var = new.vars[Least(Fixed(new))].begin
  BY <1>4 DEF PlacedFrom
<1>22. LaidOut(new)
  BY <1>4, <1>17, <1>18, <1>19, <1>20, <1>21 DEF LaidOut
<1>23. new.begin_var >= b
  <2>1. CASE Fixed(nc) = {}
    BY <1>16, <2>1 DEF PlacedFrom
  <2>2. CASE Fixed(nc) # {}
    <3>1. Least(Fixed(nc)) \in Fixed(nc)
      BY <1>8, <2>2, LeastIs
    <3> QED
      BY <1>4, <1>12, <1>21, <2>2, <3>1
  <2> QED
    BY <2>1, <2>2
<1>24. ASSUME NEW i \in DOMAIN old.vars
       PROVE  new.vars[i].begin >= old.vars[i].begin
  <2>1. old # None
    BY <1>24 DEF None
  <2>2. old \in Infos /\ Extends(old, nc) /\ old.vars \in Seq(Vars)
    BY <2>1, InfosAre
  <2>3. i \in 1 .. c /\ i - 1 \in 0 .. c
    BY <1>2, <2>2, RecsIs DEF Extends
  <2>4. PICK m \in Nat : m = IF nc.vars[i].rec THEN new.begin_rec + p[i - 1] ELSE f[i - 1]
    BY <1>3, <1>5, <1>7, <2>3
  <2>5. new.vars[i].begin = Larger(m, OldBegin(i))
    BY <1>11, <2>3, <2>4
  <2>6. OldBegin(i) = old.vars[i].begin
    BY <1>24 DEF OldBegin
  <2> QED
    BY <1>9, <2>3, <2>4, <2>5, <2>6, LargerIs
<1> QED
  BY <1>22, <1>23, <1>24

(* Before the first record variable nothing is added up.                   *)
LEMMA PaddedStart ==
  ASSUME NEW h, h.vars \in Seq(Vars)
  PROVE  \A k \in 0 .. Len(h.vars) : (\A i \in Recs(h) : k < i) => Padded(h)[k] = 0
<1>1. PICK c \in Nat : c = Len(h.vars) /\ DOMAIN h.vars = 1 .. c
  BY RecsIs
<1>2. PICK T : T = {k \in Nat : k <= c /\ (\A i \in Recs(h) : k < i)
                                  => Padded(h)[k] = 0}
  OBVIOUS
<1>3. 0 \in T
  BY <1>2, PaddedIs
<1>4. ASSUME NEW k \in Nat, k \in T
      PROVE  k + 1 \in T
  <2> SUFFICES ASSUME k + 1 <= c, \A i \in Recs(h) : k + 1 < i
               PROVE  Padded(h)[k + 1] = 0
    BY <1>2
  <2>1. PICK m \in 1 .. c : m = k + 1 /\ m - 1 = k /\ m \in 0 .. c
    OBVIOUS
  <2>2. \A i \in Recs(h) : i \in Nat /\ k < i
    BY <1>1, RecsIs
  <2>3. Padded(h)[m - 1] = 0
    BY <1>2, <1>4, <2>1, <2>2
  <2>4. m \notin Recs(h)
    BY <2>1
  <2>5. ~h.vars[m].rec
    BY <1>1, <2>1, <2>4 DEF Recs
  <2>6. Padded(h)[m] = Padded(h)[m - 1]
                       + IF h.vars[m].rec THEN VarLen(h.vars[m]) ELSE 0
    BY <1>1, <2>1, PaddedIs
  <2> QED
    BY <2>1, <2>3, <2>5, <2>6
<1>5. Nat \subseteq T
  BY <1>3, <1>4, EveryNatural
<1> QED
  BY <1>1, <1>2, <1>5

(* The records of what is laid out: one after the other, within recsize.   *)
LEMMA LaidRecords ==
  ASSUME NEW h \in Infos, LaidOut(h)
  PROVE  \A i \in Recs(h) :
           /\ i \in 1 .. Len(h.vars)
           /\ h.vars[i].begin \in Nat /\ h.begin_rec <= h.vars[i].begin
           /\ h.vars[i].begin + h.vars[i].xlen <= h.begin_rec + h.recsize
           /\ \A k \in Recs(h) : i < k => End(h, i) <= h.vars[k].begin
<1>1. h.vars \in Seq(Vars) /\ h.begin_rec \in Nat /\ h.recsize \in Nat
  BY InfosAre
<1>2. PICK c \in Nat : c = Len(h.vars) /\ Recs(h) \subseteq 1 .. c
  BY <1>1, RecsIs
<1>3. PICK p : p = Padded(h) /\ \A n \in 0 .. c : p[n] \in Nat
  BY <1>1, <1>2, PaddedIs
<1>4. /\ \A i \in Recs(h) : h.vars[i].begin = h.begin_rec + p[i - 1]
      /\ h.recsize = RecSize(h, p[c])
  BY <1>2, <1>3 DEF LaidOut
<1>5. \A i \in Recs(h), k \in 0 .. c : i <= k => p[i - 1] + VarLen(h.vars[i]) <= p[k]
  BY <1>1, <1>2, <1>3, PaddedGrows
<1> SUFFICES ASSUME NEW i \in Recs(h)
             PROVE  /\ i \in 1 .. c
                    /\ h.vars[i].begin \in Nat /\ h.begin_rec <= h.vars[i].begin
                    /\ h.vars[i].begin + h.vars[i].xlen <= h.begin_rec + h.recsize
                    /\ \A k \in Recs(h) : i < k => End(h, i) <= h.vars[k].begin
  BY <1>2
<1>6. i \in 1 .. c /\ i - 1 \in 0 .. c /\ i <= c /\ c \in 0 .. c
  BY <1>2
<1>7. p[i - 1] \in Nat /\ p[c] \in Nat
  BY <1>3, <1>6
<1>8. /\ VarLen(h.vars[i]) \in Nat /\ h.vars[i].xlen \in Nat
      /\ VarLen(h.vars[i]) >= h.vars[i].xlen
      /\ End(h, i) = h.vars[i].begin + VarLen(h.vars[i])
  BY <1>1, <1>2, <1>6, EndIs
<1>9. h.vars[i].begin = h.begin_rec + p[i - 1]
  BY <1>4
<1>10. p[i - 1] + h.vars[i].xlen <= h.recsize
  <2>1. CASE Recs(h) = {i}
    <3>1. h.recsize = h.vars[i].xlen
      BY <1>1, <1>4, <1>7, <2>1, RecSizeIs
    <3>2. \A k \in Recs(h) : i - 1 < k
      BY <1>6, <2>1
    <3>3. p[i - 1] = 0
      BY <1>1, <1>2, <1>3, <1>6, <3>2, PaddedStart
    <3> QED
      BY <1>8, <3>1, <3>3
  <2>2. CASE Recs(h) # {i}
    <3>1. h.recsize = p[c]
      BY <1>1, <1>4, <1>7, <2>2, RecSizeIs
    <3>2. p[i - 1] + VarLen(h.vars[i]) <= p[c]
      BY <1>5, <1>6
    <3> QED
      BY <1>7, <1>8, <3>1, <3>2
  <2> QED
    BY <2>1, <2>2
<1>11. ASSUME NEW k \in Recs(h), i < k
       PROVE  End(h, i) <= h.vars[k].begin
  <2>1. k \in 1 .. c /\ k - 1 \in 0 .. c /\ i <= k - 1
    BY <1>2, <1>6, <1>11
  <2>2. p[i - 1] + VarLen(h.vars[i]) <= p[k - 1] /\ p[k - 1] \in Nat
    BY <1>3, <1>5, <2>1
  <2>3. h.vars[k].begin = h.begin_rec + p[k - 1]
    BY <1>4
  <2> QED
    BY <1>1, <1>7, <1>8, <1>9, <2>2, <2>3
<1>12. h.vars[i].begin + h.vars[i].xlen <= h.begin_rec + h.recsize
  <2>1. PICK b \in Nat, q \in Nat, x \in Nat, s \in Nat :
          b = h.begin_rec /\ q = p[i - 1] /\ x = h.vars[i].xlen /\ s = h.recsize
    BY <1>1, <1>7, <1>8
  <2>2. h.vars[i].begin = b + q /\ q + x <= s
    BY <1>9, <1>10, <2>1
  <2> QED
    BY <2>1, <2>2
<1>13. h.vars[i].begin \in Nat /\ h.begin_rec <= h.vars[i].begin
  BY <1>1, <1>7, <1>9
<1> QED
  BY <1>6, <1>11, <1>12, <1>13

(* NC_check_voffs accepts what is laid out.                                *)
LEMMA LaidChecked ==
  ASSUME NEW h \in Infos, LaidOut(h)
  PROVE  NC_check_voffs(h)
<1>1. h.vars \in Seq(Vars) /\ h.begin_rec \in Nat /\ h.recsize \in Nat
  BY InfosAre
<1>2. /\ Recs(h) \subseteq 1 .. Len(h.vars) /\ Fixed(h) \subseteq 1 .. Len(h.vars)
      /\ Fixed(h) \subseteq Nat
  BY <1>1, RecsIs
<1>3. ASSUME NEW i \in Fixed(h)
      PROVE  h.vars[i].begin >= h.begin_var
  <2>1. PICK l : l = Least(Fixed(h)) /\ l \in Fixed(h) /\ l <= i
    BY <1>2, LeastIs
  <2>2. h.begin_var = h.vars[l].begin
    BY <2>1 DEF LaidOut
  <2>3. CASE l = i
    <3>1. h.vars[i].begin \in Nat
      BY <1>1, <1>2, EndIs
    <3> QED
      BY <2>2, <2>3, <3>1
  <2>4. CASE l # i
    <3>1. l < i
      BY <1>2, <2>1, <2>4
    <3>2. End(h, l) <= h.vars[i].begin
      BY <2>1, <3>1 DEF LaidOut
    <3>3. /\ h.vars[l].begin \in Nat /\ h.vars[i].begin \in Nat
          /\ End(h, l) \in Nat /\ h.vars[l].begin < End(h, l)
      BY <1>1, <1>2, <2>1, EndIs
    <3> QED
      BY <2>2, <3>2, <3>3
  <2> QED
    BY <2>3, <2>4
<1>4. /\ \A i, k \in Fixed(h) : i < k => End(h, i) <= h.vars[k].begin
      /\ \A i \in Fixed(h) : End(h, i) <= h.begin_rec
  BY DEF LaidOut
<1>5. \A i \in Recs(h) : /\ h.vars[i].begin >= h.begin_rec
                         /\ \A k \in Recs(h) : i < k => End(h, i) <= h.vars[k].begin
  BY <1>1, LaidRecords
<1> QED
  BY <1>3, <1>4, <1>5 DEF NC_check_voffs, Ascending

(* What depends on the variables of a header alone.                        *)
LEMMA SameVars ==
  ASSUME NEW h, NEW g, h.vars = g.vars
  PROVE  /\ Recs(h) = Recs(g) /\ Fixed(h) = Fixed(g) /\ Padded(h) = Padded(g)
         /\ \A i : End(h, i) = End(g, i)
         /\ \A p : RecSize(h, p) = RecSize(g, p)
<1>1. Recs(h) = Recs(g)
  BY DEF Recs
<1>2. Fixed(h) = Fixed(g)
  BY <1>1 DEF Fixed
<1>3. Padded(h) = Padded(g)
  BY DEF Padded
<1>4. \A i : End(h, i) = End(g, i)
  BY DEF End
<1>5. \A p : RecSize(h, p) = RecSize(g, p)
  BY <1>1 DEF RecSize
<1> QED
  BY <1>1, <1>2, <1>3, <1>4, <1>5

(* A header that shrinks stays laid out.                                   *)
LEMMA LaidShrunk ==
  ASSUME NEW g \in Infos, LaidOut(g), NEW h \in Infos, h.vars = g.vars,
         h.begin_var = g.begin_var, h.begin_rec = g.begin_rec,
         h.recsize = g.recsize, h.att <= g.att
  PROVE  LaidOut(h) /\ XSize(h) <= XSize(g)
<1>1. /\ Recs(h) = Recs(g) /\ Fixed(h) = Fixed(g) /\ Padded(h) = Padded(g)
      /\ \A i \in DOMAIN g.vars : End(h, i) = End(g, i)
      /\ RecSize(h, Padded(h)[Len(h.vars)]) = RecSize(g, Padded(g)[Len(g.vars)])
  BY SameVars
<1>2. XSize(h) \in Nat /\ XSize(g) \in Nat /\ g.vars \in Seq(Vars)
      /\ h.att \in Nat /\ g.att \in Nat
  BY InfosAre
<1>3. XSize(h) <= XSize(g)
  <2>1. BaseSize \in Nat /\ VarSize \in Nat /\ Len(g.vars) \in Nat
    BY <1>2, ParametersAssumption, RecsIs
  <2>2. PICK m \in Nat : m = Len(g.vars) * VarSize
    BY <2>1
  <2>3. PICK b \in Nat, x \in Nat, y \in Nat :
          b = BaseSize /\ x = h.att /\ y = g.att /\ x <= y
    BY <1>2, <2>1
  <2>4. XSize(h) = b + x + m /\ XSize(g) = b + y + m
    BY <2>2, <2>3 DEF XSize
  <2> QED
    BY <2>3, <2>4
<1>4. \A i \in DOMAIN g.vars : g.vars[i].begin \in Nat /\ XSize(h) <= g.vars[i].begin
  <2> SUFFICES ASSUME NEW i \in DOMAIN g.vars
               PROVE  g.vars[i].begin \in Nat /\ XSize(h) <= g.vars[i].begin
    OBVIOUS
  <2>1. g.vars[i].begin \in Nat
    BY <1>2, RecsIs, EndIs
  <2>2. XSize(g) <= g.vars[i].begin
    BY DEF LaidOut
  <2> QED
    BY <1>2, <1>3, <2>1, <2>2
<1>5. Fixed(g) \subseteq DOMAIN g.vars
  BY DEF Fixed
<1> QED
  BY <1>1, <1>3, <1>4, <1>5 DEF LaidOut

-----------------------------------------------------------------------------
(* Headers in the file *)

Sized(h) == XSize(h) <= Size /\ \A i \in DOMAIN h.vars : End(h, i) <= Size

(* What NC_computeshapes makes of a header, and where it lets the sections *)
(* begin.                                                                  *)
LEMMA FromHeaderIs ==
  ASSUME NEW h \in Headers
  PROVE  /\ FromHeader(h) \in Infos /\ FromHeader(h).vars = h.vars
         /\ FromHeader(h).att = h.att /\ FromHeader(h).numrecs = h.numrecs
         /\ FromHeader(h).recsize = RecSize(h, Padded(h)[Len(h.vars)])
         /\ XSize(FromHeader(h)) = XSize(h)
         /\ FromHeader(h).begin_rec =
              IF Recs(h) # {} THEN h.vars[Least(Recs(h))].begin
              ELSE IF Fixed(h) # {} THEN End(h, Greatest(Fixed(h)))
              ELSE XSize(h)
         /\ FromHeader(h).begin_var =
              IF Fixed(h) # {} THEN h.vars[Least(Fixed(h))].begin
              ELSE FromHeader(h).begin_rec
         /\ Sized(h) => FromHeader(h).begin_var <= Size /\ FromHeader(h).begin_rec <= Size
<1>1. h.vars \in Seq(Vars) /\ h.att \in Nat /\ h.numrecs \in Nat
  BY DEF Headers
<1>2. PICK c \in Nat : /\ c = Len(h.vars) /\ DOMAIN h.vars = 1 .. c
                       /\ Recs(h) \subseteq 1 .. c /\ Fixed(h) \subseteq 1 .. c
  BY <1>1, RecsIs
<1>3. XSize(h) \in Nat
  BY <1>1, XSizeIs
<1>4. \A i \in 1 .. c : /\ h.vars[i].begin \in Nat /\ End(h, i) \in Nat
                        /\ h.vars[i].begin <= End(h, i)
  BY <1>1, <1>2, EndIs
<1>5. PICK end \in Nat : /\ end = IF Fixed(h) = {} THEN XSize(h)
                                  ELSE End(h, Greatest(Fixed(h)))
                         /\ Sized(h) => end <= Size
  <2>1. CASE Fixed(h) = {}
    BY <1>3, <2>1 DEF Sized
  <2>2. CASE Fixed(h) # {}
    <3>1. Fixed(h) \subseteq 0 .. c
      BY <1>2
    <3>2. Greatest(Fixed(h)) \in 1 .. c
      BY <1>2, <2>2, <3>1, GreatestIs
    <3> QED
      BY <1>2, <1>4, <2>2, <3>2 DEF Sized
  <2> QED
    BY <2>1, <2>2
<1>6. Size \in Nat
  BY ParametersAssumption
<1>7. PICK begin_rec \in Nat :
        /\ begin_rec = IF Recs(h) = {} THEN end ELSE h.vars[Least(Recs(h))].begin
        /\ Sized(h) => begin_rec <= Size
  <2>1. CASE Recs(h) = {}
    BY <1>5, <2>1
  <2>2. CASE Recs(h) # {}
    <3>1. Recs(h) \subseteq Nat
      BY <1>2
    <3>2. Least(Recs(h)) \in 1 .. c
      BY <1>2, <2>2, <3>1, LeastIs
    <3>3. Sized(h) => End(h, Least(Recs(h))) <= Size
      BY <1>2, <3>2 DEF Sized
    <3> QED
      BY <1>4, <1>6, <2>2, <3>2, <3>3
  <2> QED
    BY <2>1, <2>2
<1>8. PICK begin_var \in Nat :
        /\ begin_var = IF Fixed(h) = {} THEN begin_rec ELSE h.vars[Least(Fixed(h))].begin
        /\ Sized(h) => begin_var <= Size
  <2>1. CASE Fixed(h) = {}
    BY <1>7, <2>1
  <2>2. CASE Fixed(h) # {}
    <3>1. Fixed(h) \subseteq Nat
      BY <1>2
    <3>2. Least(Fixed(h)) \in 1 .. c
      BY <1>2, <2>2, <3>1, LeastIs
    <3>3. Sized(h) => End(h, Least(Fixed(h))) <= Size
      BY <1>2, <3>2 DEF Sized
    <3> QED
      BY <1>4, <1>6, <2>2, <3>2, <3>3
  <2> QED
    BY <2>1, <2>2
<1>9. PICK recsize \in Nat : recsize = RecSize(h, Padded(h)[Len(h.vars)])
  <2>1. Padded(h)[c] \in Nat
    BY <1>1, <1>2, PaddedIs
  <2> QED
    BY <1>1, <1>2, <2>1, RecSizeIs
<1>10. PICK f : f = [vars |-> h.vars, att |-> h.att, numrecs |-> h.numrecs,
                     begin_var |-> begin_var, begin_rec |-> begin_rec,
                     recsize |-> recsize]
  OBVIOUS
<1>11. FromHeader(h) = f
  BY <1>5, <1>7, <1>8, <1>9, <1>10 DEF FromHeader
<1>12. f \in Infos
  BY <1>1, <1>10 DEF Infos
<1>13. XSize(f) = XSize(h)
  BY <1>10 DEF XSize
<1> QED
  BY <1>5, <1>7, <1>8, <1>9, <1>10, <1>11, <1>12, <1>13

(* What ncx_put_NC writes has the variables, the attribute and the count   *)
(* of the NC3_INFO.                                                        *)
LEMMA HeaderIs ==
  ASSUME NEW g \in Infos
  PROVE  /\ Header(g) \in Headers /\ Header(g).vars = g.vars
         /\ Header(g).att = g.att /\ Header(g).numrecs = g.numrecs
         /\ XSize(Header(g)) = XSize(g)
BY DEF Header, Headers, Infos, XSize

(* A header of variables that are laid out is read as one that is.         *)
LEMMA FromHeaderLaid ==
  ASSUME NEW g \in Infos, LaidOut(g), NEW h \in Headers, h.vars = g.vars, h.att <= g.att
  PROVE  LaidOut(FromHeader(h))
<1>1. PICK f \in Infos :
        /\ f = FromHeader(h) /\ f.vars = g.vars /\ f.att = h.att
        /\ f.recsize = RecSize(h, Padded(h)[Len(h.vars)])
        /\ f.begin_rec = IF Recs(h) # {} THEN h.vars[Least(Recs(h))].begin
                         ELSE IF Fixed(h) # {} THEN End(h, Greatest(Fixed(h)))
                         ELSE XSize(h)
        /\ f.begin_var = IF Fixed(h) # {} THEN h.vars[Least(Fixed(h))].begin
                         ELSE f.begin_rec
  BY FromHeaderIs
<1>2. /\ Recs(h) = Recs(g) /\ Fixed(h) = Fixed(g) /\ Padded(h) = Padded(g)
      /\ Recs(f) = Recs(g) /\ Fixed(f) = Fixed(g) /\ Padded(f) = Padded(g)
      /\ \A i : End(h, i) = End(g, i) /\ End(f, i) = End(g, i)
      /\ RecSize(h, Padded(h)[Len(h.vars)]) = RecSize(f, Padded(f)[Len(f.vars)])
  <2>1. h.vars = g.vars /\ f.vars = g.vars /\ h.vars = f.vars
    BY <1>1
  <2>2. Recs(h) = Recs(g) /\ Fixed(h) = Fixed(g) /\ Padded(h) = Padded(g)
        /\ \A i : End(h, i) = End(g, i)
    BY <2>1, SameVars
  <2>3. Recs(f) = Recs(g) /\ Fixed(f) = Fixed(g) /\ Padded(f) = Padded(g)
        /\ \A i : End(f, i) = End(g, i)
    BY <2>1, SameVars
  <2>4. \A p : RecSize(h, p) = RecSize(f, p)
    BY <2>1, SameVars
  <2> QED
    BY <2>1, <2>2, <2>3, <2>4
<1>3. g.vars \in Seq(Vars) /\ g.begin_rec \in Nat /\ g.att \in Nat /\ f.att \in Nat
  BY InfosAre
<1>4. PICK c \in Nat : /\ c = Len(g.vars) /\ DOMAIN g.vars = 1 .. c
                       /\ Recs(g) \subseteq 1 .. c /\ Fixed(g) \subseteq 1 .. c
  BY <1>3, RecsIs
<1>5. \A i \in 1 .. c : /\ g.vars[i].begin \in Nat /\ End(g, i) \in Nat
                        /\ g.vars[i].begin <= End(g, i)
  BY <1>3, <1>4, EndIs
<1>6. \A i \in DOMAIN f.vars : XSize(f) <= f.vars[i].begin
  <2>1. BaseSize \in Nat /\ VarSize \in Nat
    BY ParametersAssumption
  <2>2. PICK m \in Nat : m = Len(g.vars) * VarSize
    BY <1>4, <2>1
  <2>3. XSize(f) <= XSize(g) /\ XSize(f) \in Nat /\ XSize(g) \in Nat
    <3>1. XSize(f) = BaseSize + f.att + m /\ XSize(g) = BaseSize + g.att + m
      BY <1>1, <2>2 DEF XSize
    <3>2. f.att <= g.att
      BY <1>1
    <3> QED
      BY <1>3, <2>1, <3>1, <3>2
  <2>4. \A i \in DOMAIN g.vars : XSize(g) <= g.vars[i].begin
    BY DEF LaidOut
  <2> QED
    BY <1>1, <1>4, <1>5, <2>3, <2>4
<1>7. \A i, k \in Fixed(f) : i < k => End(f, i) <= f.vars[k].begin
  BY <1>1, <1>2 DEF LaidOut
<1>8. Recs(g) # {} => f.begin_rec = g.begin_rec
  <2> SUFFICES ASSUME Recs(g) # {}
               PROVE  f.begin_rec = g.begin_rec
    OBVIOUS
  <2>1. PICK l : l = Least(Recs(g)) /\ l \in Recs(g) /\ \A i \in Recs(g) : l <= i
    <3>1. Recs(g) \subseteq Nat
      BY <1>4
    <3> QED
      BY <3>1, LeastIs
  <2>2. l \in 1 .. c /\ l - 1 \in 0 .. c /\ \A i \in Recs(g) : l - 1 < i
    BY <1>4, <2>1
  <2>3. Padded(g)[l - 1] = 0
    BY <1>3, <1>4, <2>2, PaddedStart
  <2>4. g.vars[l].begin = g.begin_rec + Padded(g)[l - 1]
    BY <2>1 DEF LaidOut
  <2> QED
    BY <1>1, <1>2, <1>3, <2>1, <2>3, <2>4
<1>9. ASSUME NEW i \in Fixed(f)
      PROVE  End(f, i) <= f.begin_rec
  <2>1. i \in Fixed(g) /\ End(f, i) = End(g, i) /\ i \in 1 .. c
    BY <1>2, <1>4
  <2>2. CASE Recs(g) # {}
    BY <1>8, <2>1, <2>2 DEF LaidOut
  <2>3. CASE Recs(g) = {}
    <3>1. Fixed(g) \subseteq 0 .. c
      BY <1>4
    <3>2. PICK l : l = Greatest(Fixed(g)) /\ l \in Fixed(g) /\ i <= l
      BY <2>1, <3>1, GreatestIs
    <3>3. f.begin_rec = End(g, l) /\ l \in 1 .. c
      BY <1>1, <1>2, <1>4, <2>1, <2>3, <3>2
    <3>4. i < l => End(g, i) <= g.vars[l].begin
      BY <2>1, <3>2 DEF LaidOut
    <3>5. i = l \/ i < l
      BY <2>1, <3>2, <3>3
    <3> QED
      BY <1>5, <2>1, <3>3, <3>4, <3>5
  <2> QED
    BY <2>2, <2>3
<1>10. \A i \in Recs(f) : f.vars[i].begin = f.begin_rec + Padded(f)[i - 1]
  <2>1. \A i \in Recs(g) : g.vars[i].begin = g.begin_rec + Padded(g)[i - 1]
    BY DEF LaidOut
  <2> QED
    BY <1>1, <1>2, <1>8, <2>1
<1>11. Fixed(f) # {} => f.begin_var = f.vars[Least(Fixed(f))].begin
  BY <1>1, <1>2
<1>12. f.recsize = RecSize(f, Padded(f)[Len(f.vars)])
  BY <1>1, <1>2
<1> QED
  BY <1>1, <1>6, <1>7, <1>9, <1>10, <1>11, <1>12 DEF LaidOut

(* Such a header can be read again.                                        *)
LEMMA LaidReadable ==
  ASSUME NEW h \in Headers, LaidOut(FromHeader(h))
  PROVE  Readable(h)
<1>1. PICK f \in Infos :
        /\ f = FromHeader(h) /\ f.vars = h.vars /\ XSize(f) = XSize(h)
        /\ f.begin_rec = IF Recs(h) # {} THEN h.vars[Least(Recs(h))].begin
                         ELSE IF Fixed(h) # {} THEN End(h, Greatest(Fixed(h)))
                         ELSE XSize(h)
        /\ f.begin_var = IF Fixed(h) # {} THEN h.vars[Least(Fixed(h))].begin
                         ELSE f.begin_rec
  BY FromHeaderIs
<1>2. Recs(h) = Recs(f) /\ Fixed(h) = Fixed(f) /\ \A i : End(h, i) = End(f, i)
  BY <1>1 DEF Recs, Fixed, End
<1>3. f.vars \in Seq(Vars) /\ XSize(f) \in Nat
  BY InfosAre
<1>4. PICK c \in Nat : /\ c = Len(f.vars) /\ DOMAIN f.vars = 1 .. c
                       /\ Recs(f) \subseteq 1 .. c /\ Fixed(f) \subseteq 1 .. c
                       /\ Recs(f) \cup Fixed(f) = 1 .. c
  BY <1>3, RecsIs
<1>5. \A i \in 1 .. c : /\ f.vars[i].begin \in Nat /\ End(f, i) \in Nat
                        /\ f.vars[i].begin <= End(f, i) /\ XSize(f) <= f.vars[i].begin
  <2>1. \A i \in 1 .. c : XSize(f) <= f.vars[i].begin
    BY <1>1, <1>4 DEF LaidOut
  <2> QED
    BY <1>3, <1>4, <2>1, EndIs
<1>6. \A i \in Fixed(f) : End(f, i) <= f.begin_rec
  BY <1>1 DEF LaidOut
<1>7. CASE Fixed(f) # {}
  <2>1. PICK l : l = Least(Fixed(f)) /\ l \in Fixed(f)
    <3>1. Fixed(f) \subseteq Nat
      BY <1>4
    <3> QED
      BY <1>7, <3>1, LeastIs
  <2>2. f.begin_var = f.vars[l].begin /\ l \in 1 .. c /\ End(f, l) <= f.begin_rec
    BY <1>1, <1>2, <1>4, <1>6, <2>1
  <2>3. XSize(h) <= f.begin_var /\ f.begin_var <= f.begin_rec
    <3>1. f.begin_rec \in Nat
      BY InfosAre
    <3> QED
      BY <1>1, <1>5, <2>2, <3>1
  <2> QED
    BY <1>1, <2>3, LaidChecked DEF Readable
<1>8. CASE Fixed(f) = {} /\ Recs(f) # {}
  <2>1. PICK l : l = Least(Recs(f)) /\ l \in Recs(f)
    <3>1. Recs(f) \subseteq Nat
      BY <1>4
    <3> QED
      BY <1>8, <3>1, LeastIs
  <2>2. f.begin_rec = f.vars[l].begin /\ f.begin_var = f.vars[l].begin /\ l \in 1 .. c
    BY <1>1, <1>2, <1>4, <1>8, <2>1
  <2>3. XSize(h) <= f.begin_var /\ f.begin_var <= f.begin_rec
    BY <1>1, <1>5, <2>2
  <2> QED
    BY <1>1, <2>3, LaidChecked DEF Readable
<1>9. CASE Fixed(f) = {} /\ Recs(f) = {}
  <2>1. XSize(h) <= f.begin_var /\ f.begin_var <= f.begin_rec
    BY <1>1, <1>2, <1>3, <1>9
  <2> QED
    BY <1>1, <2>1, LaidChecked DEF Readable
<1> QED
  BY <1>7, <1>8, <1>9

-----------------------------------------------------------------------------
(* Values do not overlap *)

(* Products of natural numbers grow with their factors.                    *)
LEMMA ProductGrows ==
  ASSUME NEW k \in Nat, NEW m \in Nat, NEW n \in Nat, m <= n
  PROVE  k * m \in Nat /\ k * m <= k * n /\ m * k <= n * k
<1>1. PICK d \in Nat : n = m + d
  <2>1. n - m \in Nat /\ n = m + (n - m)
    OBVIOUS
  <2> QED
    BY <2>1
<1>2. k * m \in Nat /\ k * d \in Nat
  OBVIOUS
<1>3. k * n = k * m + k * d
  BY <1>1
<1>4. m * k = k * m /\ n * k = k * n
  OBVIOUS
<1> QED
  BY <1>2, <1>3, <1>4

(* Where a value lies.                                                     *)
LEMMA OffsetIs ==
  ASSUME NEW h \in Infos, NEW i \in 1 .. Len(h.vars), NEW rec \in Nat
  PROVE  /\ Offset(h, i, rec) \in Nat /\ Offset(h, i, rec) >= h.vars[i].begin
         /\ h.vars[i].rec => Offset(h, i, rec) = h.vars[i].begin + h.recsize * rec
         /\ ~h.vars[i].rec => Offset(h, i, rec) = h.vars[i].begin
         /\ rec = 0 => Offset(h, i, rec) = h.vars[i].begin
<1>1. h.vars \in Seq(Vars) /\ h.recsize \in Nat
  BY InfosAre
<1>2. h.vars[i].begin \in Nat
  BY <1>1, EndIs
<1>3. PICK m \in Nat : m = h.recsize * rec
  BY <1>1
<1>4. rec = 0 => m = 0
  BY <1>1, <1>3
<1> QED
  BY <1>2, <1>3, <1>4 DEF Offset

(* Of two values one ends before the other one begins.                     *)
LEMMA LaidApart ==
  ASSUME NEW h \in Infos, LaidOut(h),
         NEW i \in 1 .. Len(h.vars), NEW r \in Nat, h.vars[i].rec \/ r = 0,
         NEW k \in 1 .. Len(h.vars), NEW s \in Nat, h.vars[k].rec \/ s = 0,
         i < k \/ (i = k /\ r < s)
  PROVE  \/ Offset(h, i, r) + h.vars[i].xlen <= Offset(h, k, s)
         \/ Offset(h, k, s) + h.vars[k].xlen <= Offset(h, i, r)
<1>1. h.vars \in Seq(Vars) /\ h.recsize \in Nat /\ h.begin_rec \in Nat
  BY InfosAre
<1>2. PICK c \in Nat : c = Len(h.vars) /\ DOMAIN h.vars = 1 .. c
  BY <1>1, RecsIs
<1>3. \A j \in {i, k} :
        /\ h.vars[j].begin \in Nat /\ VarLen(h.vars[j]) \in Nat
        /\ h.vars[j].xlen \in Nat /\ VarLen(h.vars[j]) >= h.vars[j].xlen
        /\ End(h, j) \in Nat /\ End(h, j) = h.vars[j].begin + VarLen(h.vars[j])
  BY <1>1, EndIs
<1>4. \A j \in {i, k} : h.vars[j].rec => j \in Recs(h)
  BY <1>1, <1>2 DEF Recs
<1>5. \A j \in {i, k} : ~h.vars[j].rec => j \in Fixed(h)
  BY <1>1, <1>2 DEF Recs, Fixed
<1>6. \A j \in {i, k}, t \in Nat :
        /\ Offset(h, j, t) \in Nat /\ Offset(h, j, t) >= h.vars[j].begin
        /\ h.vars[j].rec => Offset(h, j, t) = h.vars[j].begin + h.recsize * t
        /\ ~h.vars[j].rec => Offset(h, j, t) = h.vars[j].begin
  BY <1>1, OffsetIs
<1>7. \A j \in {i, k} : h.vars[j].rec =>
        /\ h.begin_rec <= h.vars[j].begin
        /\ h.vars[j].begin + h.vars[j].xlen <= h.begin_rec + h.recsize
  BY <1>4, LaidRecords
<1>8. \A j \in {i, k} : ~h.vars[j].rec => End(h, j) <= h.begin_rec
  BY <1>5 DEF LaidOut
<1>9. CASE h.vars[i].rec /\ h.vars[k].rec
  <2>1. ASSUME NEW j \in {i, k}, NEW l \in {i, k}, NEW t \in Nat, NEW u \in Nat, t < u
        PROVE  Offset(h, j, t) + h.vars[j].xlen <= Offset(h, l, u)
    <3>1. PICK m \in Nat, n \in Nat : m = h.recsize * t /\ n = h.recsize * u
      BY <1>1
    <3>2. m + h.recsize <= n
      <4>1. t + 1 \in Nat /\ t + 1 <= u
        BY <2>1
      <4>2. h.recsize * (t + 1) <= h.recsize * u
        BY <1>1, <4>1, ProductGrows
      <4>3. PICK size \in Nat : size = h.recsize
        BY <1>1
      <4>4. size * (t + 1) = size * t + size
        OBVIOUS
      <4> QED
        BY <3>1, <4>2, <4>3, <4>4
    <3>3. Offset(h, j, t) = h.vars[j].begin + m /\ Offset(h, l, u) = h.vars[l].begin + n
      BY <1>6, <1>9, <3>1
    <3>4. /\ h.vars[j].begin \in Nat /\ h.vars[l].begin \in Nat /\ h.vars[j].xlen \in Nat
          /\ h.begin_rec <= h.vars[l].begin
          /\ h.vars[j].begin + h.vars[j].xlen <= h.begin_rec + h.recsize
      BY <1>3, <1>7, <1>9
    <3>5. PICK begin \in Nat, first \in Nat, len \in Nat, next \in Nat, size \in Nat :
            /\ begin = h.vars[j].begin /\ len = h.vars[j].xlen /\ next = h.vars[l].begin
            /\ first = h.begin_rec /\ size = h.recsize
      BY <1>1, <3>4
    <3>6. first <= next /\ begin + len <= first + size /\ m + size <= n
      BY <3>2, <3>4, <3>5
    <3>7. (begin + m) + len <= next + n
      BY <3>6
    <3> QED
      BY <3>3, <3>5, <3>7
  <2>2. CASE r < s
    BY <2>1, <2>2
  <2>3. CASE s < r
    BY <2>1, <2>3
  <2>4. CASE r = s
    <3>1. i < k
      BY <2>4
    <3>2. End(h, i) <= h.vars[k].begin
      BY <1>4, <1>9, <3>1, LaidRecords
    <3>3. PICK m \in Nat : m = h.recsize * r
      BY <1>1
    <3>4. Offset(h, i, r) = h.vars[i].begin + m /\ Offset(h, k, s) = h.vars[k].begin + m
      BY <1>6, <1>9, <2>4, <3>3
    <3>5. PICK begin \in Nat, len \in Nat, padded \in Nat, next \in Nat :
            /\ begin = h.vars[i].begin /\ len = h.vars[i].xlen /\ next = h.vars[k].begin
            /\ padded = VarLen(h.vars[i])
      BY <1>3
    <3>6. len <= padded /\ begin + padded <= next
      BY <1>3, <3>2, <3>5
    <3>7. (begin + m) + len <= next + m
      BY <3>6
    <3> QED
      BY <3>4, <3>5, <3>7
  <2> QED
    BY <2>2, <2>3, <2>4
<1>10. CASE ~h.vars[i].rec /\ ~h.vars[k].rec
  <2>1. i < k
    BY <1>10
  <2>2. End(h, i) <= h.vars[k].begin
    BY <1>5, <1>10, <2>1 DEF LaidOut
  <2>3. Offset(h, i, r) = h.vars[i].begin /\ Offset(h, k, s) = h.vars[k].begin
    BY <1>6, <1>10
  <2>4. PICK begin \in Nat, len \in Nat, padded \in Nat, next \in Nat :
          /\ begin = h.vars[i].begin /\ len = h.vars[i].xlen /\ next = h.vars[k].begin
          /\ padded = VarLen(h.vars[i])
    BY <1>3
  <2>5. len <= padded /\ begin + padded <= next
    BY <1>3, <2>2, <2>4
  <2>6. begin + len <= next
    BY <2>5
  <2> QED
    BY <2>3, <2>4, <2>6
<1>11. ASSUME NEW j \in {i, k}, NEW l \in {i, k}, NEW t \in Nat, NEW u \in Nat,
              ~h.vars[j].rec, h.vars[l].rec
       PROVE  Offset(h, j, t) + h.vars[j].xlen <= Offset(h, l, u)
  <2>1. Offset(h, j, t) = h.vars[j].begin /\ End(h, j) <= h.begin_rec
    BY <1>6, <1>8, <1>11
  <2>2. /\ h.begin_rec <= h.vars[l].begin /\ h.vars[l].begin <= Offset(h, l, u)
        /\ Offset(h, l, u) \in Nat
    BY <1>6, <1>7, <1>11
  <2>3. /\ h.vars[j].begin \in Nat /\ VarLen(h.vars[j]) \in Nat
        /\ h.vars[j].xlen \in Nat /\ VarLen(h.vars[j]) >= h.vars[j].xlen
        /\ End(h, j) = h.vars[j].begin + VarLen(h.vars[j]) /\ h.vars[l].begin \in Nat
    BY <1>3
  <2>4. PICK begin \in Nat, len \in Nat, padded \in Nat, first \in Nat, next \in Nat,
             at \in Nat :
          /\ begin = h.vars[j].begin /\ len = h.vars[j].xlen /\ next = h.vars[l].begin
          /\ padded = VarLen(h.vars[j]) /\ first = h.begin_rec /\ at = Offset(h, l, u)
    BY <1>1, <2>2, <2>3
  <2>5. len <= padded /\ begin + padded <= first /\ first <= next /\ next <= at
    BY <2>1, <2>2, <2>3, <2>4
  <2>6. begin + len <= at
    BY <2>5
  <2> QED
    BY <2>1, <2>4, <2>6
<1>12. CASE ~h.vars[i].rec /\ h.vars[k].rec
  BY <1>11, <1>12
<1>13. CASE h.vars[i].rec /\ ~h.vars[k].rec
  BY <1>11, <1>13
<1> QED
  BY <1>9, <1>10, <1>12, <1>13

(* No byte of one value is a byte of another one.                          *)
LEMMA LaidDisjoint ==
  ASSUME NEW h \in Infos, LaidOut(h),
         NEW i \in 1 .. Len(h.vars), NEW r \in Nat, h.vars[i].rec \/ r = 0,
         NEW k \in 1 .. Len(h.vars), NEW s \in Nat, h.vars[k].rec \/ s = 0,
         <<i, r>> # <<k, s>>,
         NEW a \in 0 .. h.vars[i].xlen - 1, NEW b \in 0 .. h.vars[k].xlen - 1
  PROVE  Offset(h, i, r) + a # Offset(h, k, s) + b
<1>1. h.vars \in Seq(Vars) /\ i \in Nat /\ k \in Nat
  BY InfosAre, RecsIs
<1>2. /\ h.vars[i].xlen \in Nat /\ h.vars[k].xlen \in Nat
      /\ Offset(h, i, r) \in Nat /\ Offset(h, k, s) \in Nat
  BY <1>1, EndIs, OffsetIs
<1>3. \/ Offset(h, i, r) + h.vars[i].xlen <= Offset(h, k, s)
      \/ Offset(h, k, s) + h.vars[k].xlen <= Offset(h, i, r)
  <2>1. CASE i < k \/ (i = k /\ r < s)
    BY <2>1, LaidApart
  <2>2. CASE k < i \/ (k = i /\ s < r)
    BY <2>2, LaidApart
  <2>3. i < k \/ k < i \/ (i = k /\ (r < s \/ s < r))
    BY <1>1
  <2> QED
    BY <2>1, <2>2, <2>3
<1>4. PICK m \in Nat, n \in Nat, x \in Nat, y \in Nat :
        /\ m = Offset(h, i, r) /\ n = Offset(h, k, s)
        /\ x = h.vars[i].xlen /\ y = h.vars[k].xlen
  BY <1>2
<1>5. m + x <= n \/ n + y <= m
  BY <1>3, <1>4
<1>6. a \in 0 .. x - 1 /\ b \in 0 .. y - 1
  BY <1>4
<1>7. m + a # n + b
  BY <1>5, <1>6
<1> QED
  BY <1>4, <1>7

-----------------------------------------------------------------------------
(* What steps do to the file *)

FileIs(f) ==
  /\ f = [header |-> f.header, bytes |-> f.bytes, exists |-> f.exists]
  /\ f.header \in Headers /\ f.exists \in BOOLEAN
  /\ f.bytes = [a \in Addr |-> f.bytes[a]]

(* Its header, and how many bytes of it nothing else has overwritten.      *)
Sound(f, h, x) ==
  /\ FileIs(f) /\ f.exists = file.exists /\ f.header = h
  /\ \A a \in 0 .. x - 1 : f.bytes[a] = Hdr

(* Writing the header covers its bytes.                                    *)
LEMMA WriteIs ==
  ASSUME NEW f, FileIs(f), NEW h \in Infos, XSize(h) <= Size
  PROVE  /\ FileIs(WithHeader(f, h)) /\ WithHeader(f, h).exists = f.exists
         /\ WithHeader(f, h).header = Header(h)
         /\ \A a \in 0 .. XSize(h) - 1 : WithHeader(f, h).bytes[a] = Hdr
<1>1. PICK x \in Nat : x = XSize(h) /\ x <= Size
  BY InfosAre
<1>2. Size \in Nat /\ Header(h) \in Headers
  BY ParametersAssumption, HeaderIs
<1>3. PICK bytes : bytes = [a \in Addr |-> IF a \in 0 .. 0 + x - 1 THEN Hdr ELSE f.bytes[a]]
  OBVIOUS
<1>4. WithHeader(f, h) = [header |-> Header(h), bytes |-> bytes, exists |-> f.exists]
  <2>1. PICK g : g = [f EXCEPT !.bytes = bytes]
    OBVIOUS
  <2>2. WithHeader(f, h) = [g EXCEPT !.header = Header(h)]
    BY <1>1, <1>3, <2>1 DEF WithHeader, WithBytes
  <2>3. g = [header |-> f.header, bytes |-> bytes, exists |-> f.exists]
    BY <2>1 DEF FileIs
  <2> QED
    BY <2>2, <2>3
<1>5. \A a \in 0 .. x - 1 : bytes[a] = Hdr
  BY <1>1, <1>2, <1>3 DEF Addr
<1>6. bytes = [a \in Addr |-> bytes[a]]
  BY <1>3
<1> QED
  BY <1>1, <1>2, <1>4, <1>5, <1>6 DEF FileIs

(* Writing a value leaves the bytes before it.                             *)
LEMMA ValueIs ==
  ASSUME NEW f, FileIs(f), NEW to \in Nat, NEW len \in Nat, NEW v
  PROVE  /\ FileIs(WithValue(f, to, len, v)) /\ WithValue(f, to, len, v).exists = f.exists
         /\ WithValue(f, to, len, v).header = f.header
         /\ \A a \in Addr : a < to => WithValue(f, to, len, v).bytes[a] = f.bytes[a]
<1>1. PICK bytes : bytes = [a \in Addr |-> IF a \in to .. to + len - 1 THEN <<v, a - to>>
                                           ELSE f.bytes[a]]
  OBVIOUS
<1>2. WithValue(f, to, len, v) = [header |-> f.header, bytes |-> bytes, exists |-> f.exists]
  BY <1>1 DEF WithValue, WithBytes, FileIs
<1>3. \A a \in Addr : a < to => bytes[a] = f.bytes[a]
  BY <1>1 DEF Addr
<1>4. bytes = [a \in Addr |-> bytes[a]]
  BY <1>1
<1> QED
  BY <1>2, <1>3, <1>4 DEF FileIs

(* Moving bytes takes them from where they were, and leaves the others.    *)
IsMove(g, f, to, from, len) ==
  /\ FileIs(g) /\ g.exists = f.exists /\ g.header = f.header
  /\ \A k \in Nat : k < len /\ to + k \in Addr => g.bytes[to + k] = f.bytes[from + k]
  /\ \A a \in Addr : a < to \/ to + len <= a => g.bytes[a] = f.bytes[a]

LEMMA MovedIs ==
  ASSUME NEW f, FileIs(f), NEW to \in Nat, NEW from \in Nat, NEW len \in Nat,
         NEW g, g = Moved(f, to, from, len)
  PROVE  IsMove(g, f, to, from, len)
<1>1. PICK bytes : bytes = [a \in Addr |-> IF a \in to .. to + len - 1
                                           THEN f.bytes[from + (a - to)]
                                           ELSE f.bytes[a]]
  OBVIOUS
<1>2. g = [header |-> f.header, bytes |-> bytes, exists |-> f.exists]
  <2>1. g = [f EXCEPT !.bytes = bytes]
    BY <1>1 DEF Moved, WithBytes
  <2> QED
    BY <2>1 DEF FileIs
<1>3. bytes = [a \in Addr |-> bytes[a]]
  BY <1>1
<1>4. FileIs(g) /\ g.exists = f.exists /\ g.header = f.header
  BY <1>2, <1>3 DEF FileIs
<1>5. ASSUME NEW k \in Nat, k < len, to + k \in Addr
      PROVE  g.bytes[to + k] = f.bytes[from + k]
  <2>1. to + k \in to .. to + len - 1 /\ from + ((to + k) - to) = from + k
    BY <1>5
  <2>2. bytes[to + k] = f.bytes[from + ((to + k) - to)]
    BY <1>1, <1>5, <2>1
  <2> QED
    BY <1>2, <2>1, <2>2
<1>6. ASSUME NEW a \in Addr, a < to \/ to + len <= a
      PROVE  g.bytes[a] = f.bytes[a]
  <2>1. a \notin to .. to + len - 1
    BY <1>6 DEF Addr
  <2> QED
    BY <1>1, <1>2, <2>1
<1> QED
  BY <1>4, <1>5, <1>6 DEF IsMove

(* A step that fills behind the first x bytes, or moves bytes towards the  *)
(* end: what it moves into the header comes from before.                   *)
Leaves(s, x) ==
  /\ s.op \in {"move_recs_r", "move_vars_r", "fill"}
  /\ s.to \in Nat /\ s.len \in Nat
  /\ IF s.op = "fill" THEN x <= s.to ELSE s.from \in Nat /\ s.from <= s.to

(* It leaves the header and x bytes that hold nothing else.                *)
LEMMA StepLeaves ==
  ASSUME NEW new, NEW f, NEW h, NEW x \in Nat, x <= Size, Sound(f, h, x),
         NEW s, Leaves(s, x)
  PROVE  Sound(Step(new, f, s), h, x)
<1>1. PICK to \in Nat, len \in Nat : to = s.to /\ len = s.len
  BY DEF Leaves
<1>2. PICK g : g = Step(new, f, s)
  OBVIOUS
<1>3. FileIs(f) /\ f.header = h /\ f.exists = file.exists
  BY DEF Sound
<1>4. \A a \in 0 .. x - 1 : a \in Addr /\ f.bytes[a] = Hdr
  BY ParametersAssumption DEF Sound, Addr
<1>5. CASE s.op = "fill"
  <2>1. x <= to /\ g = WithValue(f, to, len, Fill)
    BY <1>1, <1>2, <1>5 DEF Leaves, Step
  <2>2. /\ FileIs(g) /\ g.exists = f.exists /\ g.header = f.header
        /\ \A a \in Addr : a < to => g.bytes[a] = f.bytes[a]
    <3>1. PICK w : w = WithValue(f, to, len, Fill)
      OBVIOUS
    <3>2. FileIs(w) /\ w.exists = f.exists /\ w.header = f.header
      BY <3>1, ValueIs, <1>3
    <3>3. \A a \in Addr : a < to => w.bytes[a] = f.bytes[a]
      BY <3>1, ValueIs, <1>3
    <3> QED
      BY <2>1, <3>1, <3>2, <3>3
  <2>3. \A a \in 0 .. x - 1 : a \in Addr /\ a < to
    BY <1>4, <2>1
  <2> QED
    BY <1>2, <1>3, <1>4, <2>2, <2>3 DEF Sound
<1>6. CASE s.op # "fill"
  <2>1. PICK from \in Nat : from = s.from /\ from <= to
    BY <1>1, <1>6 DEF Leaves
  <2>2. g = Moved(f, to, from, len)
    <3>1. s.op = "move_recs_r" \/ s.op = "move_vars_r"
      BY <1>6 DEF Leaves
    <3> QED
      BY <1>1, <1>2, <2>1, <3>1 DEF Step
  <2>3. IsMove(g, f, to, from, len)
    BY <1>3, <2>2, MovedIs
  <2>4. ASSUME NEW a \in 0 .. x - 1
        PROVE  g.bytes[a] = Hdr
    <3>1. CASE a < to \/ to + len <= a
      <4>1. g.bytes[a] = f.bytes[a]
        BY <1>4, <2>3, <3>1 DEF IsMove
      <4> QED
        BY <1>4, <4>1
    <3>2. CASE ~(a < to \/ to + len <= a)
      <4>1. PICK k \in Nat : k < len /\ a = to + k
        <5>1. a - to \in Nat /\ a - to < len /\ a = to + (a - to)
          BY <3>2
        <5> QED
          BY <5>1
      <4>2. from + k \in 0 .. x - 1
        BY <2>1, <4>1
      <4>3. g.bytes[a] = f.bytes[from + k]
        BY <1>4, <2>3, <4>1 DEF IsMove
      <4> QED
        BY <1>4, <4>2, <4>3
    <3> QED
      BY <3>1, <3>2
  <2> QED
    BY <1>2, <1>3, <2>3, <2>4 DEF Sound, IsMove
<1> QED
  BY <1>5, <1>6

After(new, steps, g) ==
  g = [k \in 0 .. Len(steps) |->
         IF k = 0 THEN file ELSE Step(new, g[k - 1], steps[k])]

(* The files between the steps.                                            *)
LEMMA AfterExists ==
  ASSUME NEW new, NEW steps, Len(steps) \in Nat
  PROVE  \E g : After(new, steps, g) /\ Done(new, steps) = g[Len(steps)]
<1>1. PICK c \in Nat : c = Len(steps)
  OBVIOUS
<1> DEFINE Upto(n, g) ==
      g = [k \in 0 .. n |-> IF k = 0 THEN file ELSE Step(new, g[k - 1], steps[k])]
<1>2. PICK T : T = {n \in Nat : \E g : Upto(n, g)}
  OBVIOUS
<1>3. 0 \in T
  <2>1. PICK g : g = [k \in 0 .. 0 |-> file]
    OBVIOUS
  <2>2. Upto(0, g)
    BY <2>1
  <2> QED
    BY <1>2, <2>2
<1>4. ASSUME NEW n \in Nat, n \in T
      PROVE  n + 1 \in T
  <2>1. PICK g : Upto(n, g)
    BY <1>2, <1>4
  <2>2. PICK m \in Nat : m = n + 1 /\ m # 0 /\ m - 1 = n
    OBVIOUS
  <2>3. PICK e : e = Step(new, g[n], steps[m])
    OBVIOUS
  <2>4. PICK d : d = [k \in 0 .. m |-> IF k <= n THEN g[k] ELSE e]
    OBVIOUS
  <2>5. ASSUME NEW k \in 0 .. m
        PROVE  d[k] = IF k = 0 THEN file ELSE Step(new, d[k - 1], steps[k])
    <3>1. CASE k = 0
      <4>1. g[0] = file /\ d[0] = g[0]
        BY <2>1, <2>4
      <4> QED
        BY <3>1, <4>1
    <3>2. CASE k # 0 /\ k <= n
      <4>1. k \in 0 .. n /\ k - 1 \in 0 .. n /\ k - 1 \in 0 .. m
        BY <2>2, <3>2
      <4>2. g[k] = Step(new, g[k - 1], steps[k])
        BY <2>1, <3>2, <4>1
      <4>3. d[k] = g[k] /\ d[k - 1] = g[k - 1]
        BY <2>4, <3>2, <4>1
      <4> QED
        BY <3>2, <4>2, <4>3
    <3>3. CASE k > n
      <4>1. k = m /\ n \in 0 .. m /\ k # 0 /\ ~(m <= n)
        BY <2>2, <3>3
      <4>2. d[m] = e /\ d[n] = g[n]
        BY <2>4, <4>1
      <4> QED
        BY <2>2, <2>3, <4>1, <4>2
    <3> QED
      BY <3>1, <3>2, <3>3
  <2>6. Upto(m, d)
    BY <2>4, <2>5
  <2> QED
    BY <1>2, <2>2, <2>6
<1>5. Nat \subseteq T
  BY <1>3, <1>4, EveryNatural
<1>6. PICK g : Upto(c, g)
  BY <1>2, <1>5
<1>7. PICK e : e = CHOOSE x : After(new, steps, x)
  OBVIOUS
<1>8. After(new, steps, g)
  BY <1>1, <1>6 DEF After
<1>9. After(new, steps, e)
  BY <1>7, <1>8
<1>10. Done(new, steps) = e[Len(steps)]
  BY <1>7 DEF Done, After
<1> QED
  BY <1>9, <1>10

(* No steps leave the file as it is.                                       *)
LEMMA DoneNothing ==
  ASSUME NEW new
  PROVE  Done(new, <<>>) = file
<1>1. Len(<<>>) = 0
  BY EmptySeq
<1>2. PICK g : After(new, <<>>, g) /\ Done(new, <<>>) = g[0]
  BY <1>1, AfterExists
<1> QED
  BY <1>1, <1>2 DEF After

(* Step m writes the header; those before it leave x bytes, those behind   *)
(* it the header.  There may be no such step.                              *)
LEMMA DoneIs ==
  ASSUME NEW new \in Infos, XSize(new) <= Size,
         NEW x \in Nat, x <= Size, Sound(file, file.header, x),
         NEW n \in Nat, NEW steps, Len(steps) = n,
         NEW m \in 1 .. n + 1, m <= n => steps[m].op = "write_NC",
         \A k \in 1 .. n : k < m => Leaves(steps[k], x),
         \A k \in 1 .. n : m < k => Leaves(steps[k], XSize(new))
  PROVE  Sound(Done(new, steps), IF m <= n THEN Header(new) ELSE file.header,
                                 IF m <= n THEN XSize(new) ELSE x)
<1>1. PICK g : After(new, steps, g) /\ Done(new, steps) = g[n]
  BY AfterExists
<1>2. g[0] = file /\ \A k \in 1 .. n : g[k] = Step(new, g[k - 1], steps[k])
  BY <1>1 DEF After
<1>3. XSize(new) \in Nat
  BY InfosAre
<1>4. PICK T : T = {k \in Nat : k <= n => /\ k < m => Sound(g[k], file.header, x)
                                          /\ m <= k => Sound(g[k], Header(new), XSize(new))}
  OBVIOUS
<1>5. 0 \in T
  BY <1>2, <1>4
<1>6. ASSUME NEW k \in Nat, k \in T
      PROVE  k + 1 \in T
  <2> SUFFICES ASSUME k + 1 <= n
               PROVE  /\ k + 1 < m => Sound(g[k + 1], file.header, x)
                      /\ m <= k + 1 => Sound(g[k + 1], Header(new), XSize(new))
    BY <1>4
  <2>1. PICK j \in 1 .. n : j = k + 1 /\ j - 1 = k
    OBVIOUS
  <2>2. g[j] = Step(new, g[k], steps[j])
    BY <1>2, <2>1
  <2>3. /\ k < m => Sound(g[k], file.header, x)
        /\ m <= k => Sound(g[k], Header(new), XSize(new))
    BY <1>4, <1>6
  <2>4. CASE j < m
    <3>1. k < m /\ Leaves(steps[j], x)
      BY <2>1, <2>4
    <3>2. Sound(g[j], file.header, x)
      BY <2>2, <2>3, <3>1, StepLeaves
    <3> QED
      BY <2>1, <2>4, <3>2
  <2>5. CASE j = m
    <3>1. k < m /\ steps[j].op = "write_NC"
      BY <2>1, <2>5
    <3>2. g[j] = WithHeader(g[k], new)
      BY <2>2, <3>1 DEF Step
    <3>3. FileIs(g[k]) /\ g[k].exists = file.exists
      BY <2>3, <3>1 DEF Sound
    <3>4. Sound(g[j], Header(new), XSize(new))
      BY <3>2, <3>3, WriteIs DEF Sound
    <3> QED
      BY <2>1, <2>5, <3>4
  <2>6. CASE m < j
    <3>1. m <= k /\ Leaves(steps[j], XSize(new))
      BY <2>1, <2>6
    <3>2. Sound(g[j], Header(new), XSize(new))
      BY <1>3, <2>2, <2>3, <3>1, StepLeaves
    <3> QED
      BY <2>1, <2>6, <3>2
  <2> QED
    BY <2>4, <2>5, <2>6
<1>7. Nat \subseteq T
  BY <1>4, <1>5, <1>6, EveryNatural
<1>8. n \in T
  BY <1>7
<1>9. (n < m) <=> ~(m <= n)
  OBVIOUS
<1> QED
  BY <1>1, <1>4, <1>8, <1>9

-----------------------------------------------------------------------------
(* The steps of nc_enddef *)

(* A function on 1 .. c is a sequence.                                     *)
LEMMA ListIs ==
  ASSUME NEW S, NEW c \in Nat, NEW u, u = [k \in 1 .. c |-> u[k]],
         \A k \in 1 .. c : u[k] \in S
  PROVE  u \in Seq(S)
BY SeqDef

(* The hindmost of some places is one of them, behind all others.          *)
LEMMA HindmostIs ==
  ASSUME NEW m \in Nat, NEW n \in Nat, NEW Q, Q \subseteq (0 .. m) \X (0 .. n), Q # {}
  PROVE  Hindmost(Q) \in Q /\ \A q \in Q \ {Hindmost(Q)} : Behind(Hindmost(Q), q)
<1>1. PICK R : R = {r \in 0 .. m : \E i \in 0 .. n : <<r, i>> \in Q}
  OBVIOUS
<1>2. \A p \in Q : /\ p = <<p[1], p[2]>> /\ p[1] \in 0 .. m /\ p[2] \in 0 .. n
                   /\ p[1] \in R
  <2>1. \A p \in Q : p = <<p[1], p[2]>> /\ p[1] \in 0 .. m /\ p[2] \in 0 .. n
    OBVIOUS
  <2> QED
    BY <1>1, <2>1
<1>3. R \subseteq 0 .. m /\ R # {}
  BY <1>1, <1>2
<1>4. PICK r \in R : \A s \in R : s <= r
  BY <1>3, GreatestIs
<1>5. PICK C : C = {i \in 0 .. n : <<r, i>> \in Q}
  OBVIOUS
<1>6. C \subseteq 0 .. n /\ C # {}
  BY <1>1, <1>5
<1>7. PICK i \in C : \A k \in C : k <= i
  BY <1>6, GreatestIs
<1>8. PICK p \in Q : p = <<r, i>> /\ p[1] = r /\ p[2] = i
  BY <1>5
<1>9. ASSUME NEW q \in Q \ {p}
      PROVE  Behind(p, q)
  <2>1. q = <<q[1], q[2]>> /\ q[1] \in 0 .. m /\ q[2] \in 0 .. n /\ q[1] <= r
    BY <1>2, <1>4
  <2>2. r \in 0 .. m /\ i \in 0 .. n
    BY <1>3, <1>6
  <2>3. CASE q[1] = r
    <3>1. q[2] \in C
      BY <1>5, <2>1, <2>3
    <3>2. q[2] <= i /\ q[2] # i
      BY <1>7, <1>8, <1>9, <2>1, <2>3, <3>1
    <3> QED
      BY <1>8, <2>1, <2>2, <2>3, <3>2 DEF Behind
  <2>4. CASE q[1] # r
    BY <1>8, <2>1, <2>2, <2>4 DEF Behind
  <2> QED
    BY <2>3, <2>4
<1> QED
  BY <1>8, <1>9 DEF Hindmost

RestOf(f, P) ==
  f = [k \in 0 .. Cardinality(P) |->
         IF k = 0 THEN P ELSE f[k - 1] \ {Hindmost(f[k - 1])}]

(* Downwards lists the elements of P, the last first.                      *)
LEMMA DownwardsIs ==
  ASSUME NEW m \in Nat, NEW n \in Nat, NEW P, P \subseteq (0 .. m) \X (0 .. n)
  PROVE  \E s \in Seq(P) :
           /\ s = Downwards(P)
           /\ \A p \in P : \E k \in 1 .. Len(s) : s[k] = p
           /\ \A k \in 1 .. Len(s), l \in 1 .. Len(s) : k < l => Behind(s[k], s[l])
<1>1. IsFiniteSet(P)
  <2>1. IsFiniteSet(0 .. m) /\ IsFiniteSet(0 .. n)
    BY FS_Interval
  <2>2. IsFiniteSet((0 .. m) \X (0 .. n))
    BY <2>1, FS_Product
  <2> QED
    BY <2>2, FS_Subset
<1>2. PICK c \in Nat : c = Cardinality(P)
  BY <1>1, FS_CardinalityType
<1>3. PICK step : step = [a \in Nat \X SUBSET P |-> a[2] \ {Hindmost(a[2])}]
  OBVIOUS
<1>4. step \in [Nat \X SUBSET P -> SUBSET P]
  BY <1>3
<1>5. PICK f : IsIteration(f, SUBSET P, P, step)
  <2>1. P \in SUBSET P
    OBVIOUS
  <2> QED
    BY <1>4, <2>1, Iteration
<1>6. f \in [Nat -> SUBSET P] /\ f[0] = P /\ \A k \in Nat : f[k + 1] = step[<<k, f[k]>>]
  BY <1>5 DEF IsIteration
<1>7. \A k \in Nat : f[k + 1] = f[k] \ {Hindmost(f[k])}
  BY <1>3, <1>6
<1>8. PICK g : g = [k \in 0 .. c |-> f[k]]
  OBVIOUS
<1>9. RestOf(g, P)
  <2>1. ASSUME NEW k \in 0 .. c
        PROVE  g[k] = IF k = 0 THEN P ELSE g[k - 1] \ {Hindmost(g[k - 1])}
    <3>1. CASE k = 0
      BY <1>6, <1>8, <3>1
    <3>2. CASE k # 0
      <4>1. k - 1 \in Nat /\ k - 1 \in 0 .. c /\ k - 1 + 1 = k
        BY <3>2
      <4>2. f[k] = f[k - 1] \ {Hindmost(f[k - 1])}
        BY <1>7, <4>1
      <4> QED
        BY <1>8, <3>2, <4>1, <4>2
    <3> QED
      BY <3>1, <3>2
  <2> QED
    BY <1>2, <1>8, <2>1 DEF RestOf
<1>10. PICK rest : rest = CHOOSE x : RestOf(x, P)
  OBVIOUS
<1>11. RestOf(rest, P)
  BY <1>9, <1>10
<1>12. PICK s : s = [k \in 1 .. c |-> Hindmost(rest[k - 1])]
  OBVIOUS
<1>13. Downwards(P) = s
  BY <1>2, <1>10, <1>12 DEF Downwards, RestOf
<1>14. rest[0] = P /\ \A k \in 1 .. c : rest[k] = rest[k - 1] \ {Hindmost(rest[k - 1])}
  <2>1. rest = [k \in 0 .. c |->
                 IF k = 0 THEN P ELSE rest[k - 1] \ {Hindmost(rest[k - 1])}]
    BY <1>2, <1>11 DEF RestOf
  <2>2. \A k \in 0 .. c : rest[k] = IF k = 0 THEN P
                                   ELSE rest[k - 1] \ {Hindmost(rest[k - 1])}
    BY <2>1
  <2>3. 0 \in 0 .. c /\ \A k \in 1 .. c : k \in 0 .. c /\ k # 0
    OBVIOUS
  <2> QED
    BY <2>2, <2>3
<1>15. PICK T : T = {k \in Nat : k <= c =>
                       /\ rest[k] \subseteq P /\ IsFiniteSet(rest[k])
                       /\ Cardinality(rest[k]) = c - k
                       /\ \A p \in P \ rest[k] : \E l \in 1 .. k : s[l] = p
                       /\ \A l \in 1 .. k : s[l] \in P /\ \A q \in rest[k] : Behind(s[l], q)}
  OBVIOUS
<1>16. 0 \in T
  BY <1>1, <1>2, <1>14, <1>15
<1>17. ASSUME NEW r, r \subseteq P, NEW k \in 0 .. c - 1, Cardinality(r) = c - k
       PROVE  Hindmost(r) \in r /\ \A q \in r \ {Hindmost(r)} : Behind(Hindmost(r), q)
  <2>1. r # {}
    <3>1. Cardinality(r) # 0
      BY <1>17
    <3> QED
      BY <3>1, FS_EmptySet
  <2>2. r \subseteq (0 .. m) \X (0 .. n)
    BY <1>17
  <2> QED
    BY <2>1, <2>2, HindmostIs
<1>18. ASSUME NEW k \in Nat, k \in T
       PROVE  k + 1 \in T
  <2> SUFFICES ASSUME k + 1 <= c
               PROVE  /\ rest[k + 1] \subseteq P /\ IsFiniteSet(rest[k + 1])
                      /\ Cardinality(rest[k + 1]) = c - (k + 1)
                      /\ \A p \in P \ rest[k + 1] : \E l \in 1 .. k + 1 : s[l] = p
                      /\ \A l \in 1 .. k + 1 :
                           s[l] \in P /\ \A q \in rest[k + 1] : Behind(s[l], q)
    BY <1>15
  <2>1. PICK j \in 1 .. c : j = k + 1 /\ j - 1 = k /\ k \in 0 .. c - 1
    OBVIOUS
  <2>2. PICK r : /\ r = rest[k] /\ r \subseteq P /\ IsFiniteSet(r) /\ Cardinality(r) = c - k
                 /\ \A p \in P \ r : \E l \in 1 .. k : s[l] = p
                 /\ \A l \in 1 .. k : s[l] \in P /\ \A q \in r : Behind(s[l], q)
    BY <1>15, <1>18
  <2>3. PICK p : p = Hindmost(r) /\ rest[j] = r \ {p} /\ s[j] = p
    BY <1>12, <1>14, <2>1, <2>2
  <2>4. p \in r /\ \A q \in r \ {p} : Behind(p, q)
    BY <1>17, <2>1, <2>2, <2>3
  <2>5. IsFiniteSet(rest[j]) /\ Cardinality(rest[j]) = c - j
    <3>1. IsFiniteSet(r) /\ p \in r
      BY <2>2, <2>4
    <3>2. IsFiniteSet(r \ {p}) /\ Cardinality(r \ {p}) = Cardinality(r) - 1
      BY <3>1, FS_RemoveElement
    <3> QED
      BY <2>1, <2>2, <2>3, <3>2
  <2>6. ASSUME NEW q \in P \ rest[j]
        PROVE  \E l \in 1 .. j : s[l] = q
    <3>1. CASE q = p
      BY <2>3, <3>1
    <3>2. CASE q # p
      <4>1. PICK l \in 1 .. k : s[l] = q
        BY <2>2, <2>3, <2>6, <3>2
      <4>2. l \in 1 .. j
        BY <2>1
      <4> QED
        BY <4>1, <4>2
    <3> QED
      BY <3>1, <3>2
  <2>7. ASSUME NEW l \in 1 .. j
        PROVE  s[l] \in P /\ \A q \in rest[j] : Behind(s[l], q)
    <3>1. CASE l = j
      BY <2>2, <2>3, <2>4, <3>1
    <3>2. CASE l # j
      <4>1. l \in 1 .. k
        BY <2>1, <3>2
      <4> QED
        BY <2>2, <2>3, <4>1
    <3> QED
      BY <3>1, <3>2
  <2>8. rest[j] \subseteq P
    BY <2>2, <2>3
  <2> QED
    BY <2>1, <2>5, <2>6, <2>7, <2>8
<1>19. Nat \subseteq T
  BY <1>15, <1>16, <1>18, EveryNatural
<1>20. (\A p \in P : \E l \in 1 .. c : s[l] = p) /\ \A l \in 1 .. c : s[l] \in P
  <2>1. c \in T
    BY <1>19
  <2>2. PICK r : r = rest[c] /\ IsFiniteSet(r) /\ Cardinality(r) = c - c
    BY <1>15, <2>1
  <2>3. r = {}
    BY <2>2, FS_EmptySet
  <2>4. /\ \A p \in P \ rest[c] : \E l \in 1 .. c : s[l] = p
        /\ \A l \in 1 .. c : s[l] \in P
    BY <1>15, <2>1
  <2> QED
    BY <2>2, <2>3, <2>4
<1>21. ASSUME NEW k \in 1 .. c, NEW l \in 1 .. c, k < l
       PROVE  Behind(s[k], s[l])
  <2>1. PICK j \in 0 .. c - 1 : j = l - 1 /\ j \in T /\ j \in Nat /\ j <= c /\ k \in 1 .. j
    BY <1>19, <1>21
  <2>2. PICK r : /\ r = rest[j] /\ r \subseteq P /\ Cardinality(r) = c - j
                 /\ \A q \in r : Behind(s[k], q)
    BY <1>15, <2>1
  <2>3. Hindmost(r) \in r
    BY <1>17, <2>1, <2>2
  <2>4. s[l] = Hindmost(r)
    BY <1>12, <2>1, <2>2
  <2>5. Behind(s[k], Hindmost(r))
    BY <2>2, <2>3
  <2> QED
    BY <2>4, <2>5
<1>22. s = [k \in 1 .. c |-> s[k]]
  BY <1>12
<1>23. s \in Seq(P)
  BY <1>20, <1>22, ListIs
<1>24. Len(s) = c
  BY <1>12, <1>23, LenProperties
<1>25. \A p \in P : \E k \in 1 .. Len(s) : s[k] = p
  BY <1>20, <1>24
<1>26. \A k \in 1 .. Len(s), l \in 1 .. Len(s) : k < l => Behind(s[k], s[l])
  BY <1>21, <1>24
<1> QED
  BY <1>13, <1>23, <1>25, <1>26

(* The same places from the front.                                         *)
LEMMA UpwardsIs ==
  ASSUME NEW m \in Nat, NEW n \in Nat, NEW P, P \subseteq (0 .. m) \X (0 .. n)
  PROVE  Upwards(P) \in Seq(P)
<1>1. PICK s \in Seq(P) : s = Downwards(P)
  BY DownwardsIs
<1>2. PICK c \in Nat : c = Len(s)
  BY LenProperties
<1>3. PICK u : u = [i \in 1 .. c |-> s[(c - i) + 1]]
  OBVIOUS
<1>4. Upwards(P) = u
  BY <1>1, <1>2, <1>3 DEF Upwards, Reverse
<1>5. ASSUME NEW i \in 1 .. c
      PROVE  u[i] \in P
  <2>1. (c - i) + 1 \in 1 .. c
    OBVIOUS
  <2> QED
    BY <1>2, <1>3, <2>1, ElementOfSeq
<1>6. u = [i \in 1 .. c |-> u[i]]
  BY <1>3
<1>7. u \in Seq(P)
  <2>1. \A i \in 1 .. c : u[i] \in P
    BY <1>5
  <2> QED
    BY <1>6, <2>1, ListIs
<1> QED
  BY <1>4, <1>7

(* Moves towards the end of the file, and fills behind the first x bytes.  *)
MoveSteps == {s \in [op : {"move_recs_r", "move_vars_r"},
                     to : Nat, from : Nat, len : Nat] : s.from <= s.to}
FillSteps(x) == {s \in [op : {"fill"}, to : Nat, len : Nat] : x <= s.to}

(* They leave the first x bytes.                                           *)
LEMMA StepsLeave ==
  ASSUME NEW x
  PROVE  /\ \A s \in MoveSteps : Leaves(s, x) /\ s.op # "write_NC" /\ s.op # "fill"
         /\ \A s \in FillSteps(x) : Leaves(s, x) /\ s.op = "fill"
BY DEF MoveSteps, FillSteps, Leaves

(* The moves of some places are a sequence of moves.                       *)
LEMMA MovesOfAre ==
  ASSUME NEW new, NEW m \in Nat, NEW n \in Nat, NEW P, P \subseteq (0 .. m) \X (0 .. n),
         NEW S, \A p \in P : Move(new, p[2], p[1]) \in S
  PROVE  MovesOf(new, P) \in Seq(S)
<1>1. PICK s \in Seq(P) : s = Downwards(P)
  BY DownwardsIs
<1>2. PICK c \in Nat : c = Len(s) /\ DOMAIN s = 1 .. c
  BY LenProperties
<1>3. PICK u : u = [k \in 1 .. c |-> Move(new, s[k][2], s[k][1])]
  OBVIOUS
<1>4. MovesOf(new, P) = u
  BY <1>1, <1>2, <1>3 DEF MovesOf
<1>5. \A k \in 1 .. c : s[k] \in P
  BY <1>2, ElementOfSeq
<1>6. \A k \in 1 .. c : u[k] \in S
  BY <1>3, <1>5
<1>7. u = [k \in 1 .. c |-> u[k]]
  BY <1>3
<1>8. u \in Seq(S)
  BY SMTT(60), <1>6, <1>7, SeqDef
<1> QED
  BY <1>4, <1>8

(* The fills of some places are a sequence of fills.                       *)
LEMMA FillsOfAre ==
  ASSUME NEW h, NEW m \in Nat, NEW n \in Nat, NEW P, P \subseteq (0 .. m) \X (0 .. n),
         NEW S, \A p \in P : FillOf(h, p[2], p[1]) \in S
  PROVE  FillsOf(h, P) \in Seq(S)
<1>1. PICK s \in Seq(P) : s = Upwards(P)
  BY UpwardsIs
<1>2. PICK c \in Nat : c = Len(s) /\ DOMAIN s = 1 .. c
  BY LenProperties
<1>3. PICK u : u = [k \in 1 .. c |-> FillOf(h, s[k][2], s[k][1])]
  OBVIOUS
<1>4. FillsOf(h, P) = u
  BY <1>1, <1>2, <1>3 DEF FillsOf
<1>5. \A k \in 1 .. c : s[k] \in P
  BY <1>2, ElementOfSeq
<1>6. \A k \in 1 .. c : u[k] \in S
  BY <1>3, <1>5
<1>7. u = [k \in 1 .. c |-> u[k]]
  BY <1>3
<1>8. u \in Seq(S)
  BY SMTT(60), <1>6, <1>7, SeqDef
<1> QED
  BY <1>4, <1>8

(* What NC_endef moves, it moves towards the end of the file.              *)
LEMMA MovesAre ==
  ASSUME NEW new \in Infos, Asserted(new), old \in Infos \cup {None},
         \A i \in DOMAIN old.vars : i \in DOMAIN new.vars
  PROVE  Moves(new) \in Seq(MoveSteps)
<1>1. CASE old = None
  <2>1. Moves(new) = <<>>
    BY <1>1 DEF Moves
  <2> QED
    BY <2>1, EmptySeq
<1>2. CASE old # None
  <2>1. /\ old \in Infos /\ old.vars \in Seq(Vars) /\ old.numrecs \in Nat
        /\ new.vars \in Seq(Vars)
    BY <1>2, InfosAre
  <2>2. PICK c \in Nat : /\ c = Len(old.vars) /\ DOMAIN old.vars = 1 .. c
                         /\ Recs(old) \subseteq 1 .. c /\ Fixed(old) \subseteq 1 .. c
    BY <2>1, RecsIs
  <2>3. ASSUME NEW i \in 1 .. c, NEW rec \in Nat,
               Offset(old, i, rec) <= Offset(new, i, rec)
        PROVE  Move(new, i, rec) \in MoveSteps
    <3>1. i \in 1 .. Len(new.vars)
      BY <2>1, <2>2, RecsIs
    <3>2. /\ Offset(new, i, rec) \in Nat /\ Offset(old, i, rec) \in Nat
          /\ VarLen(old.vars[i]) \in Nat
      BY <2>1, <2>2, <3>1, OffsetIs, EndIs
    <3> QED
      BY <2>3, <3>2 DEF Move, MoveSteps
  <2>4. ASSUME NEW P, P \subseteq (0 .. old.numrecs) \X (1 .. c),
               \A p \in P : Offset(old, p[2], p[1]) <= Offset(new, p[2], p[1])
        PROVE  MovesOf(new, P) \in Seq(MoveSteps)
    <3>1. P \subseteq (0 .. old.numrecs) \X (0 .. c)
      BY <2>4
    <3>2. \A p \in P : Move(new, p[2], p[1]) \in MoveSteps
      <4>1. \A p \in P : p[2] \in 1 .. c /\ p[1] \in Nat
        BY <2>1, <2>4
      <4> QED
        BY <2>3, <2>4, <4>1
    <3> QED
      BY <2>1, <3>1, <3>2, MovesOfAre
  <2>5. move_recs_r(new) \in Seq(MoveSteps)
    <3>1. PICK P : P = {p \in (0 .. old.numrecs - 1) \X Recs(old) :
                          Offset(new, p[2], p[1]) # Offset(old, p[2], p[1])}
      OBVIOUS
    <3>2. 0 .. old.numrecs - 1 \subseteq 0 .. old.numrecs
      BY <2>1
    <3>3. P \subseteq (0 .. old.numrecs) \X (1 .. c)
      BY <2>2, <3>1, <3>2
    <3>4. ASSUME NEW p \in P
          PROVE  Offset(old, p[2], p[1]) <= Offset(new, p[2], p[1])
      <4>1. p[1] \in 0 .. old.numrecs - 1 /\ p[2] \in Recs(old)
        BY <3>1
      <4> QED
        BY <1>2, <4>1 DEF Asserted
    <3> QED
      BY <2>4, <3>1, <3>3, <3>4 DEF move_recs_r
  <2>6. move_vars_r(new) \in Seq(MoveSteps)
    <3>1. PICK P : P = {p \in {0} \X Fixed(old) :
                          new.vars[p[2]].begin > old.vars[p[2]].begin}
      OBVIOUS
    <3>2. {0} \subseteq 0 .. old.numrecs
      BY <2>1
    <3>3. P \subseteq (0 .. old.numrecs) \X (1 .. c)
      BY <2>2, <3>1, <3>2
    <3>4. ASSUME NEW p \in P
          PROVE  Offset(old, p[2], p[1]) <= Offset(new, p[2], p[1])
      <4>1. PICK i \in 1 .. c : i = p[2] /\ new.vars[i].begin > old.vars[i].begin /\ p[1] = 0
        BY <2>2, <3>1
      <4>2. i \in 1 .. Len(new.vars)
        BY <2>1, <2>2, RecsIs
      <4>3. Offset(old, i, 0) = old.vars[i].begin /\ Offset(new, i, 0) = new.vars[i].begin
        BY <2>1, <2>2, <4>2, OffsetIs
      <4>4. old.vars[i].begin \in Nat /\ new.vars[i].begin \in Nat
        BY <2>1, <2>2, <4>2, EndIs
      <4> QED
        BY <4>1, <4>3, <4>4
    <3> QED
      BY <2>4, <3>1, <3>3, <3>4 DEF move_vars_r
  <2>7. <<>> \in Seq(MoveSteps)
    BY EmptySeq
  <2>8. PICK v \in Seq(MoveSteps), w \in Seq(MoveSteps), r \in Seq(MoveSteps) :
          /\ v = IF new.begin_var > old.begin_var THEN move_vars_r(new) ELSE <<>>
          /\ w = IF new.recsize > old.recsize THEN move_recs_r(new) ELSE <<>>
          /\ r = move_recs_r(new)
    BY <2>5, <2>6, <2>7
  <2>9. Moves(new) \in {<<>>, r \o v, v \o w}
    BY <2>8 DEF Moves
  <2>10. r \o v \in Seq(MoveSteps) /\ v \o w \in Seq(MoveSteps)
    BY ConcatProperties
  <2> QED
    BY <2>7, <2>9, <2>10
<1> QED
  BY <1>1, <1>2

(* What it fills lies behind x bytes if all variables do.                  *)
LEMMA FillOfIs ==
  ASSUME NEW h \in Infos, NEW i \in 1 .. Len(h.vars), NEW rec \in Nat,
         NEW x \in Nat, x <= h.vars[i].begin
  PROVE  FillOf(h, i, rec) \in FillSteps(x)
<1>1. h.vars \in Seq(Vars)
  BY InfosAre
<1>2. /\ Offset(h, i, rec) \in Nat /\ Offset(h, i, rec) >= h.vars[i].begin
      /\ h.vars[i].begin \in Nat /\ VarLen(h.vars[i]) \in Nat
  BY <1>1, OffsetIs, EndIs
<1>3. FillLen(h, i) \in Nat
  <2>1. RecSize(h, VarLen(h.vars[i])) \in Nat
    BY <1>1, <1>2, RecSizeIs
  <2> QED
    BY <1>2, <2>1 DEF FillLen
<1>4. x <= Offset(h, i, rec)
  BY <1>2
<1> QED
  BY <1>2, <1>3, <1>4 DEF FillOf, FillSteps

(* All fills begin at or behind x if the variables do.                     *)
LEMMA FillsAre ==
  ASSUME NEW h \in Infos, NEW x \in Nat, \A i \in 1 .. Len(h.vars) : x <= h.vars[i].begin,
         NEW m \in Nat, NEW P, P \subseteq (0 .. m) \X (1 .. Len(h.vars))
  PROVE  FillsOf(h, P) \in Seq(FillSteps(x))
<1>1. PICK c \in Nat : c = Len(h.vars)
  BY InfosAre, RecsIs
<1>2. P \subseteq (0 .. m) \X (0 .. c)
  BY <1>1
<1>3. \A p \in P : p[2] \in 1 .. Len(h.vars) /\ p[1] \in Nat
  BY <1>1
<1>4. \A p \in P : FillOf(h, p[2], p[1]) \in FillSteps(x)
  BY <1>3, FillOfIs
<1> QED
  BY <1>2, <1>4, FillsOfAre

(* A sequence of two others with an element between them.                  *)
LEMMA ThreeParts ==
  ASSUME NEW S, NEW a \in Seq(S), NEW w \in S, NEW b \in Seq(S),
         NEW p \in Nat, p = Len(a), NEW q \in Nat, q = Len(b), NEW s, s = a \o <<w>> \o b
  PROVE  /\ s \in Seq(S) /\ Len(s) = (p + 1) + q /\ s[p + 1] = w
         /\ \A k \in 1 .. p : s[k] = a[k]
         /\ \A k \in 1 .. q : s[(p + 1) + k] = b[k]
<1>1. <<w>> \in Seq(S) /\ Len(<<w>>) = 1 /\ <<w>>[1] = w
  OBVIOUS
<1>2. PICK d : d = a \o <<w>>
  OBVIOUS
<1>3. /\ d \in Seq(S) /\ Len(d) = p + 1
      /\ \A k \in 1 .. p + 1 : d[k] = IF k <= p THEN a[k] ELSE <<w>>[k - p]
  BY <1>1, <1>2, ConcatProperties
<1>4. PICK n \in Nat : n = p + 1
  OBVIOUS
<1>5. d \in Seq(S) /\ Len(d) = n
  BY <1>3, <1>4
<1>6. /\ d \o b \in Seq(S) /\ Len(d \o b) = Len(d) + Len(b)
      /\ \A k \in 1 .. Len(d) + Len(b) : (d \o b)[k] = IF k <= Len(d) THEN d[k]
                                                     ELSE b[k - Len(d)]
  BY <1>5, ConcatProperties
<1>7. /\ s \in Seq(S) /\ Len(s) = n + q
      /\ \A k \in 1 .. n + q : s[k] = IF k <= n THEN d[k] ELSE b[k - n]
  BY <1>2, <1>5, <1>6
<1>8. ASSUME NEW k \in 1 .. p
      PROVE  s[k] = a[k]
  <2>1. k \in 1 .. n + q /\ k <= n /\ k \in 1 .. p + 1 /\ k <= p
    BY <1>4
  <2> QED
    BY <1>3, <1>7, <2>1
<1>9. s[n] = w
  <2>1. n \in 1 .. n + q /\ n \in 1 .. p + 1 /\ ~(n <= p) /\ n - p = 1
    BY <1>4
  <2>2. s[n] = d[n] /\ d[n] = <<w>>[1]
    BY <1>3, <1>7, <2>1
  <2> QED
    BY <1>1, <2>2
<1>10. ASSUME NEW k \in 1 .. q
       PROVE  s[n + k] = b[k]
  <2>1. n + k \in 1 .. n + q /\ ~(n + k <= n) /\ (n + k) - n = k
    OBVIOUS
  <2> QED
    BY <1>7, <2>1
<1> QED
  BY <1>4, <1>7, <1>8, <1>9, <1>10

(* The steps of nc_enddef: moves, the header, fills.                       *)
LEMMA StepsAre ==
  ASSUME NEW new \in Infos, LaidOut(new), Asserted(new), old \in Infos \cup {None},
         \A i \in DOMAIN old.vars : i \in DOMAIN new.vars
  PROVE  \E n \in Nat : \E m \in 1 .. n :
           /\ Len(Steps(new)) = n /\ DOMAIN Steps(new) = 1 .. n
           /\ Steps(new)[m].op = "write_NC"
           /\ \A k \in 1 .. n : k < m => Steps(new)[k] \in MoveSteps
           /\ \A k \in 1 .. n : m < k => Steps(new)[k] \in FillSteps(XSize(new))
<1>1. PICK a \in Seq(MoveSteps) : a = Moves(new)
  BY MovesAre
<1>2. PICK b \in Seq(FillSteps(XSize(new))) : b = Fills(new)
  <2>1. new.vars \in Seq(Vars) /\ new.numrecs \in Nat
    BY InfosAre
  <2>2. PICK c \in Nat : c = Len(new.vars) /\ Fixed(new) \subseteq 1 .. c
                         /\ Recs(new) \subseteq 1 .. c
    BY <2>1, RecsIs
  <2>3. PICK added : added = DOMAIN new.vars \ DOMAIN old.vars
    OBVIOUS
  <2>4. /\ {0} \X (added \cap Fixed(new)) \subseteq (0 .. 0) \X (1 .. Len(new.vars))
        /\ (0 .. new.numrecs - 1) \X (added \cap Recs(new))
             \subseteq (0 .. new.numrecs) \X (1 .. Len(new.vars))
    <3>1. {0} \subseteq 0 .. 0 /\ 0 .. new.numrecs - 1 \subseteq 0 .. new.numrecs
      BY <2>1
    <3> QED
      BY <2>2, <3>1
  <2>5. /\ FillsOf(new, {0} \X (added \cap Fixed(new))) \in Seq(FillSteps(XSize(new)))
        /\ FillsOf(new, (0 .. new.numrecs - 1) \X (added \cap Recs(new)))
             \in Seq(FillSteps(XSize(new)))
    <3>1. XSize(new) \in Nat /\ \A i \in 1 .. Len(new.vars) : XSize(new) <= new.vars[i].begin
      BY <2>1, InfosAre, RecsIs DEF LaidOut
    <3> QED
      BY <2>1, <2>4, <3>1, FillsAre
  <2> QED
    BY <2>3, <2>5, ConcatProperties DEF Fills
<1>3. PICK w : w = [op |-> "write_NC"]
  OBVIOUS
<1>4. PICK S : S = MoveSteps \cup FillSteps(XSize(new)) \cup {w}
  OBVIOUS
<1>5. PICK p \in Nat, q \in Nat :
        /\ p = Len(a) /\ q = Len(b)
        /\ \A k \in 1 .. p : a[k] \in MoveSteps
        /\ \A k \in 1 .. q : b[k] \in FillSteps(XSize(new))
  BY LenProperties, ElementOfSeq
<1>6. a \in Seq(S) /\ b \in Seq(S) /\ w \in S
  <2>1. a = [k \in 1 .. p |-> a[k]] /\ b = [k \in 1 .. q |-> b[k]]
    BY <1>5, LenProperties
  <2>2. (\A k \in 1 .. p : a[k] \in S) /\ (\A k \in 1 .. q : b[k] \in S)
    BY <1>4, <1>5
  <2> QED
    BY <1>4, <1>5, <2>1, <2>2, ListIs
<1>7. PICK s : s = a \o <<w>> \o b
  OBVIOUS
<1>8. /\ s \in Seq(S) /\ Len(s) = (p + 1) + q /\ s[p + 1] = w
      /\ \A k \in 1 .. p : s[k] = a[k]
      /\ \A k \in 1 .. q : s[(p + 1) + k] = b[k]
  BY <1>5, <1>6, <1>7, ThreeParts
<1>9. Steps(new) = s
  BY <1>1, <1>2, <1>3, <1>7 DEF Steps
<1>10. PICK n \in Nat : n = (p + 1) + q
  OBVIOUS
<1>11. PICK m \in 1 .. n : m = p + 1
  BY <1>10
<1>12. s[m].op = "write_NC"
  BY <1>3, <1>8, <1>11
<1>13. \A k \in 1 .. n : k < m => s[k] \in MoveSteps
  BY <1>5, <1>8, <1>11
<1>14. ASSUME NEW k \in 1 .. n, m < k
       PROVE  s[k] \in FillSteps(XSize(new))
  <2>1. k - (p + 1) \in 1 .. q /\ (p + 1) + (k - (p + 1)) = k
    BY <1>10, <1>11, <1>14
  <2>2. s[k] = b[k - (p + 1)]
    BY <1>8, <2>1
  <2> QED
    BY <1>5, <2>1, <2>2
<1>15. Len(s) = n /\ DOMAIN s = 1 .. n
  BY <1>8, <1>10, LenProperties
<1> QED
  BY <1>9, <1>12, <1>13, <1>14, <1>15

-----------------------------------------------------------------------------
(* The inductive invariant *)

InfoGood(h) ==
  /\ h \in Infos /\ HeaderOK(h)
  /\ h.begin_var \in 0 .. Size /\ h.begin_rec \in 0 .. Size
  /\ h.vars = <<>> => h.recsize = 0
Settled(h) == LaidOut(h) /\ Sized(h)
FileGood(f) ==
  /\ FileIs(f) /\ HeaderOK(f.header)
  /\ LaidOut(FromHeader(f.header)) /\ Sized(f.header)

Parts ==
  /\ FileGood(file) /\ (file.exists \/ file = NoFile)
  /\ nc = None \/ InfoGood(nc)
  /\ old = None \/ InfoGood(old)
  /\ flags \subseteq {"CREAT", "INDEF", "HDIRTY", "NDIRTY", "NSYNC"}
Modes ==
  /\ nc # None => file.exists
  /\ nc = None => flags = {} /\ old = None
  /\ (old # None) <=> ("INDEF" \in flags)
  /\ "CREAT" \notin flags \/ "INDEF" \notin flags
Layout ==
  /\ nc # None /\ "CREAT" \notin flags /\ "INDEF" \notin flags => Settled(nc)
  /\ old # None => /\ Settled(old) /\ Extends(old, nc)
                   /\ nc.begin_var >= old.begin_var /\ nc.begin_rec >= old.begin_rec
Matches ==
  nc # None /\ "CREAT" \notin flags /\ "INDEF" \notin flags =>
    /\ file.header.vars = nc.vars
    /\ "HDIRTY" \notin flags => file.header.att = nc.att
    /\ "NDIRTY" \notin flags => file.header.numrecs = nc.numrecs
IInv == Parts /\ Modes /\ Layout /\ Matches

(* The bytes of the header are not overwritten.                            *)
HdrBytes(f) == \A a \in 0 .. XSize(f.header) - 1 : f.bytes[a] = Hdr

(* With no variables there is nothing to lay out.                          *)
LEMMA NoVariables ==
  ASSUME NEW h \in Infos, h.vars = <<>>, h.recsize = 0
  PROVE  LaidOut(h)
<1>1. Recs(h) = {} /\ Fixed(h) = {} /\ DOMAIN h.vars = {} /\ Len(h.vars) = 0
  BY DEF Recs, Fixed
<1>2. Padded(h)[0] = 0
  BY InfosAre, PaddedIs
<1>3. RecSize(h, Padded(h)[Len(h.vars)]) = 0
  BY <1>1, <1>2, InfosAre, RecSizeIs
<1> QED
  BY <1>1, <1>3 DEF LaidOut

(* What is known of a good NC3_INFO.                                       *)
LEMMA GoodInfo ==
  ASSUME NEW h, InfoGood(h)
  PROVE  /\ h \in Infos /\ HeaderOK(h) /\ h # None
         /\ h.vars \in Seq(Vars) /\ XSize(h) \in Nat
BY InfosAre DEF InfoGood

(* What is known of a header that is read from a good file.                *)
LEMMA ReadGood ==
  ASSUME NEW f, FileGood(f)
  PROVE  /\ f.header \in Headers
         /\ InfoGood(FromHeader(f.header)) /\ Settled(FromHeader(f.header))
         /\ FromHeader(f.header).vars = f.header.vars
         /\ FromHeader(f.header).att = f.header.att
         /\ FromHeader(f.header).numrecs = f.header.numrecs
<1>1. PICK h \in Headers : h = f.header /\ HeaderOK(h) /\ LaidOut(FromHeader(h)) /\ Sized(h)
  BY DEF FileGood, FileIs
<1>2. PICK g \in Infos :
        /\ g = FromHeader(h) /\ g.vars = h.vars /\ g.att = h.att /\ g.numrecs = h.numrecs
        /\ g.recsize = RecSize(h, Padded(h)[Len(h.vars)])
        /\ XSize(g) = XSize(h) /\ g.begin_var <= Size /\ g.begin_rec <= Size
  BY <1>1, FromHeaderIs
<1>3. HeaderOK(g)
  BY <1>1, <1>2 DEF HeaderOK
<1>4. Sized(g)
  <2>1. \A i : End(g, i) = End(h, i)
    BY <1>2 DEF End
  <2> QED
    BY <1>1, <1>2, <2>1 DEF Sized
<1>5. g.begin_var \in 0 .. Size /\ g.begin_rec \in 0 .. Size
  BY <1>2, InfosAre, ParametersAssumption
<1>6. g.vars = <<>> => g.recsize = 0
  <2> SUFFICES ASSUME h.vars = <<>>
               PROVE  g.recsize = 0
    BY <1>2
  <2>1. Recs(h) = {} /\ Len(h.vars) = 0
    BY DEF Recs
  <2>2. h.vars \in Seq(Vars)
    BY DEF Headers
  <2>3. Padded(h)[0] = 0
    BY <2>2, PaddedIs
  <2> QED
    BY <1>2, <2>1, <2>2, <2>3, RecSizeIs
<1> QED
  BY <1>1, <1>2, <1>3, <1>4, <1>5, <1>6 DEF InfoGood, Settled

(* A file with the header of what is laid out is good, and stays so when   *)
(* only its record count or its bytes change.                              *)
LEMMA WrittenGood ==
  ASSUME NEW f, FileIs(f), NEW g, InfoGood(g), Settled(g), f.header = Header(g)
  PROVE  FileGood(f)
<1>1. g \in Infos /\ HeaderOK(g) /\ LaidOut(g) /\ Sized(g)
  BY DEF InfoGood, Settled
<1>2. PICK h \in Headers : /\ h = f.header /\ h.vars = g.vars /\ h.att = g.att
                           /\ h.numrecs = g.numrecs /\ XSize(h) = XSize(g)
  BY <1>1, HeaderIs
<1>3. HeaderOK(h)
  BY <1>1, <1>2 DEF HeaderOK
<1>4. LaidOut(FromHeader(h))
  <2>1. h.att <= g.att
    BY <1>1, <1>2, InfosAre
  <2> QED
    BY <1>1, <1>2, <2>1, FromHeaderLaid
<1>5. Sized(h)
  <2>1. \A i : End(g, i) = End(h, i)
    BY <1>2 DEF End
  <2> QED
    BY <1>1, <1>2, <2>1 DEF Sized
<1> QED
  BY <1>2, <1>3, <1>4, <1>5 DEF FileGood

(* Another record count keeps a file good.                                 *)
LEMMA CountedGood ==
  ASSUME NEW f, FileGood(f), NEW g, FileIs(g), NEW n \in 0 .. MaxRecs,
         g.header = [f.header EXCEPT !.numrecs = n] \/ g.header = f.header
  PROVE  FileGood(g) /\ XSize(g.header) = XSize(f.header)
<1>1. PICK h \in Headers : h = f.header /\ HeaderOK(h) /\ LaidOut(FromHeader(h)) /\ Sized(h)
  BY DEF FileGood, FileIs
<1>2. PICK k \in Headers : /\ k = g.header /\ k.vars = h.vars /\ k.att = h.att
                           /\ k.numrecs \in {n, h.numrecs}
  <2>1. g.header.vars = h.vars /\ g.header.att = h.att /\ g.header.numrecs \in {n, h.numrecs}
    BY <1>1 DEF Headers
  <2> QED
    BY <1>1, <2>1 DEF FileIs
<1>3. HeaderOK(k)
  BY <1>1, <1>2 DEF HeaderOK
<1>4. XSize(k) = XSize(h) /\ \A i : End(k, i) = End(h, i)
  BY <1>2 DEF XSize, End
<1>5. Sized(k)
  BY <1>1, <1>2, <1>4 DEF Sized
<1>6. LaidOut(FromHeader(k))
  <2>1. PICK d \in Infos : /\ d = FromHeader(h) /\ d.vars = h.vars /\ d.att = h.att
                           /\ LaidOut(d)
    BY <1>1, FromHeaderIs
  <2>2. k.vars = d.vars /\ k.att <= d.att
    BY <1>2, <2>1, InfosAre
  <2> QED
    BY <2>1, <2>2, FromHeaderLaid
<1> QED
  BY <1>1, <1>2, <1>3, <1>4, <1>5, <1>6 DEF FileGood

(* Writing the record count changes nothing else.                          *)
LEMMA CountIs ==
  ASSUME NEW f, FileIs(f), NEW n \in Nat
  PROVE  LET g == [f EXCEPT !.header.numrecs = n] IN
         /\ FileIs(g) /\ g.exists = f.exists /\ g.bytes = f.bytes
         /\ g.header = [f.header EXCEPT !.numrecs = n]
<1>1. PICK g : g = [f EXCEPT !.header.numrecs = n]
  OBVIOUS
<1>2. PICK h \in Headers : h = f.header
  BY DEF FileIs
<1>3. [h EXCEPT !.numrecs = n] \in Headers
  BY DEF Headers
<1>4. g = [header |-> [h EXCEPT !.numrecs = n], bytes |-> f.bytes, exists |-> f.exists]
  BY <1>1, <1>2 DEF FileIs
<1>5. f.bytes = [a \in Addr |-> f.bytes[a]] /\ f.exists \in BOOLEAN
  BY DEF FileIs
<1>6. FileIs(g)
  BY <1>3, <1>4, <1>5 DEF FileIs
<1> QED
  BY <1>1, <1>2, <1>4, <1>6

(* NC_sync leaves the header of the NC3_INFO in the file.                  *)
LEMMA SyncIs ==
  ASSUME IInv, nc # None, "CREAT" \notin flags, "INDEF" \notin flags
  PROVE  /\ FileGood(NC_sync) /\ NC_sync.exists = file.exists
         /\ NC_sync.header = Header(nc)
         /\ HdrBytes(file) => HdrBytes(NC_sync)
<1>1. InfoGood(nc) /\ Settled(nc) /\ FileGood(file) /\ FileIs(file)
  BY DEF IInv, Parts, Layout, FileGood
<1>2. /\ nc \in Infos /\ XSize(nc) <= Size /\ nc.numrecs \in 0 .. MaxRecs
      /\ nc.numrecs \in Nat
  BY <1>1, InfosAre DEF InfoGood, Settled, Sized, HeaderOK
<1>3. PICK h \in Headers :
        /\ h = file.header /\ h.vars = nc.vars
        /\ "HDIRTY" \notin flags => h.att = nc.att
        /\ "NDIRTY" \notin flags => h.numrecs = nc.numrecs
  BY <1>1 DEF IInv, Matches, FileIs
<1>4. Header(nc) = [vars |-> nc.vars, att |-> nc.att, numrecs |-> nc.numrecs]
  BY DEF Header
<1>5. XSize(Header(nc)) = XSize(nc)
  BY <1>2, HeaderIs
<1>6. CASE "HDIRTY" \in flags
  <2>1. PICK f : f = NC_sync /\ f = WithHeader(file, nc)
    BY <1>6 DEF NC_sync
  <2>2. /\ FileIs(f) /\ f.exists = file.exists /\ f.header = Header(nc)
        /\ \A a \in 0 .. XSize(nc) - 1 : f.bytes[a] = Hdr
    BY <1>1, <1>2, <2>1, WriteIs
  <2>3. FileGood(f)
    BY <1>1, <2>2, WrittenGood
  <2> QED
    BY <1>5, <2>1, <2>2, <2>3 DEF HdrBytes
<1>7. CASE "HDIRTY" \notin flags /\ "NDIRTY" \in flags
  <2>1. PICK f : f = NC_sync /\ f = [file EXCEPT !.header.numrecs = nc.numrecs]
    BY <1>7 DEF NC_sync
  <2>2. /\ FileIs(f) /\ f.exists = file.exists /\ f.bytes = file.bytes
        /\ f.header = [h EXCEPT !.numrecs = nc.numrecs]
    BY <1>1, <1>2, <1>3, <2>1, CountIs
  <2>3. f.header = Header(nc)
    BY <1>3, <1>4, <1>7, <2>2 DEF Headers
  <2>4. FileGood(f) /\ XSize(f.header) = XSize(file.header)
    BY <1>1, <1>2, <1>3, <2>2, CountedGood
  <2> QED
    BY <2>1, <2>2, <2>3, <2>4 DEF HdrBytes
<1>8. CASE "HDIRTY" \notin flags /\ "NDIRTY" \notin flags
  <2>1. NC_sync = file
    BY <1>8 DEF NC_sync
  <2>2. file.header = Header(nc)
    BY <1>3, <1>4, <1>8 DEF Headers
  <2> QED
    BY <1>1, <2>1, <2>2
<1> QED
  BY <1>6, <1>7, <1>8

-----------------------------------------------------------------------------
(* What nc_enddef needs and does *)

(* The places that nc_enddef finds: laid out, none before its old place,   *)
(* and within the bound if they fit.                                       *)
LEMMA EnddefIs ==
  ASSUME IInv, nc # None, NEW r \in Reserves, NEW new, new = NC_begins(r),
         new.begin_rec >= old.begin_rec \/ old = None
  PROVE  /\ new \in Infos /\ LaidOut(new)
         /\ new.att = nc.att /\ new.numrecs = nc.numrecs
         /\ new.vars = <<>> => new.recsize = 0
         /\ \A i \in DOMAIN old.vars : /\ i \in DOMAIN new.vars
                                       /\ new.vars[i].begin >= old.vars[i].begin
         /\ old # None => /\ Extends(old, new) /\ new.begin_var >= old.begin_var
                          /\ new.begin_rec >= old.begin_rec
         /\ Fits(new) => InfoGood(new) /\ Settled(new)
<1>1. /\ nc \in Infos /\ HeaderOK(nc) /\ nc.vars \in Seq(Vars) /\ InfoGood(nc)
      /\ XSize(nc) \in Nat
  BY GoodInfo DEF IInv, Parts
<1>2. PICK c \in Nat : c = Len(nc.vars) /\ DOMAIN nc.vars = 1 .. c
  BY <1>1, RecsIs
<1>3. old # None => /\ old \in Infos /\ LaidOut(old) /\ Extends(old, nc)
                    /\ old.vars \in Seq(Vars)
                    /\ nc.begin_var >= old.begin_var /\ nc.begin_rec >= old.begin_rec
                    /\ DOMAIN old.vars \subseteq 1 .. c
  <2> SUFFICES ASSUME old # None
               PROVE  /\ old \in Infos /\ LaidOut(old) /\ Extends(old, nc)
                      /\ old.vars \in Seq(Vars)
                      /\ nc.begin_var >= old.begin_var /\ nc.begin_rec >= old.begin_rec
                      /\ DOMAIN old.vars \subseteq 1 .. c
    OBVIOUS
  <2>1. /\ old \in Infos /\ LaidOut(old) /\ Extends(old, nc) /\ old.vars \in Seq(Vars)
        /\ nc.begin_var >= old.begin_var /\ nc.begin_rec >= old.begin_rec
    BY GoodInfo DEF IInv, Parts, Layout, Settled
  <2>2. PICK d \in Nat : d = Len(old.vars) /\ DOMAIN old.vars = 1 .. d
    BY <2>1, RecsIs
  <2>3. d <= c
    BY <1>2, <2>1, <2>2 DEF Extends
  <2> QED
    BY <2>1, <2>2, <2>3
<1>4. old = None => DOMAIN old.vars = {}
  BY DEF None
<1>5. old \in Infos \cup {None}
  BY <1>3
<1>6. CASE nc.vars = <<>>
  <2>1. new = nc /\ c = 0
    BY <1>2, <1>6 DEF NC_begins
  <2>2. nc.recsize = 0 /\ LaidOut(nc)
    BY <1>1, <1>6, NoVariables DEF InfoGood
  <2>3. DOMAIN old.vars = {}
    BY <1>3, <1>4, <2>1
  <2>4. Fits(nc) => Sized(nc)
    BY <1>6 DEF Fits, Sized
  <2> QED
    BY <1>1, <1>3, <2>1, <2>2, <2>3, <2>4 DEF Settled
<1>7. CASE nc.vars # <<>>
  <2>1. PICK b \in Nat : /\ b >= XSize(nc) /\ PlacedFrom(b, new)
                         /\ old # None => b >= old.begin_var
    BY <1>1, <1>5, <1>7, BeginsIs
  <2>2. /\ LaidOut(new) /\ new.begin_var >= b
        /\ \A i \in DOMAIN old.vars : new.vars[i].begin >= old.vars[i].begin
    BY <1>1, <1>3, <2>1, BeginsLaid
  <2>3. /\ new \in Infos /\ new.att = nc.att /\ new.numrecs = nc.numrecs
        /\ Len(new.vars) = c
        /\ \A i \in 1 .. c : new.vars[i].rec = nc.vars[i].rec /\ new.vars[i].xlen = nc.vars[i].xlen
        /\ new.begin_var = IF Fixed(nc) = {} THEN new.begin_rec
                           ELSE new.vars[Least(Fixed(nc))].begin
    BY <1>2, <2>1 DEF PlacedFrom
  <2>4. new.vars \in Seq(Vars) /\ DOMAIN new.vars = 1 .. c /\ new.begin_var \in Nat
        /\ new.begin_rec \in Nat
    BY <2>3, InfosAre, RecsIs
  <2>5. new.vars # <<>>
    BY <1>1, <1>2, <1>7, <2>3, EmptySeq
  <2>6. old # None => Extends(old, new) /\ new.begin_var >= old.begin_var
    <3>1. ASSUME old # None
          PROVE  new.begin_var >= old.begin_var
      <4>1. old.begin_var \in Nat
        BY <1>3, <3>1, InfosAre
      <4> QED
        BY <2>1, <2>2, <2>4, <3>1, <4>1
    <3>2. ASSUME old # None
          PROVE  Extends(old, new)
      <4>1. PICK d \in Nat : d = Len(old.vars) /\ d <= c
        BY <1>2, <1>3, <3>2, LenProperties DEF Extends
      <4>2. \A i \in 1 .. d : /\ i \in 1 .. c
                              /\ nc.vars[i].rec = old.vars[i].rec
                              /\ nc.vars[i].xlen = old.vars[i].xlen
        BY <1>3, <3>2, <4>1 DEF Extends
      <4>3. \A i \in 1 .. d : /\ new.vars[i].rec = old.vars[i].rec
                              /\ new.vars[i].xlen = old.vars[i].xlen
        BY <2>3, <4>2
      <4> QED
        BY <2>3, <4>1, <4>3 DEF Extends
    <3> QED
      BY <3>1, <3>2
  <2>7. ASSUME Fits(new)
        PROVE  InfoGood(new) /\ Settled(new)
    <3>1. Size \in Nat /\ MaxRecs - 1 \in Nat
      BY ParametersAssumption
    <3>2. ASSUME NEW i \in 1 .. c
          PROVE  End(new, i) <= Size /\ new.vars[i].begin \in Addr
      <4>1. /\ Offset(new, i, MaxRecs - 1) \in Nat
            /\ Offset(new, i, MaxRecs - 1) >= new.vars[i].begin
        BY <2>3, <3>1, OffsetIs
      <4>2. /\ new.vars[i].begin \in Nat /\ VarLen(new.vars[i]) \in Nat
            /\ End(new, i) = new.vars[i].begin + VarLen(new.vars[i])
            /\ new.vars[i].begin < End(new, i)
        BY <2>3, <2>4, EndIs
      <4>3. Offset(new, i, MaxRecs - 1) + VarLen(new.vars[i]) <= Size
        BY <2>4, <2>7 DEF Fits
      <4>4. End(new, i) <= Size /\ new.vars[i].begin < Size
        BY <3>1, <4>1, <4>2, <4>3
      <4> QED
        BY <3>1, <4>2, <4>4 DEF Addr
    <3>3. HeaderOK(new)
      <4>1. ASSUME NEW i \in 1 .. c
            PROVE  VarOK(new.vars[i])
        <5>1. [rec |-> nc.vars[i].rec, xlen |-> nc.vars[i].xlen] \in Shapes
          BY <1>1, <1>2 DEF HeaderOK, VarOK
        <5> QED
          BY <2>3, <3>2, <5>1 DEF VarOK
      <4> QED
        BY <1>1, <1>2, <2>3, <2>4, <4>1 DEF HeaderOK
    <3>4. new.begin_rec \in 0 .. Size
      BY <2>4, <2>7, <3>1 DEF Fits
    <3>5. new.begin_var \in 0 .. Size
      <4>1. CASE Fixed(nc) = {}
        BY <2>3, <3>4, <4>1
      <4>2. CASE Fixed(nc) # {}
        <5>1. Fixed(nc) \subseteq 1 .. c /\ Fixed(nc) \subseteq Nat
          BY <1>1, <1>2, RecsIs
        <5>2. Least(Fixed(nc)) \in 1 .. c
          BY <4>2, <5>1, LeastIs
        <5>3. new.begin_var \in Addr
          BY <2>3, <3>2, <4>2, <5>2
        <5> QED
          BY <3>1, <5>3 DEF Addr
      <4> QED
        BY <4>1, <4>2
    <3>6. Sized(new)
      BY <2>4, <2>7, <3>2 DEF Fits, Sized
    <3> QED
      BY <2>2, <2>3, <2>5, <3>3, <3>4, <3>5, <3>6 DEF InfoGood, Settled
  <2> QED
    BY <1>3, <1>4, <2>2, <2>3, <2>4, <2>5, <2>6, <2>7
<1> QED
  BY <1>6, <1>7

(* When it succeeds the file holds the new header.                         *)
LEMMA EnddefDone ==
  ASSUME IInv, nc # None, NEW r \in Reserves, NEW new, new = NC_begins(r), Endable(new)
  PROVE  /\ InfoGood(new) /\ Settled(new)
         /\ FileGood(Done(new, Steps(new))) /\ HdrBytes(Done(new, Steps(new)))
         /\ Done(new, Steps(new)).exists = file.exists
         /\ Done(new, Steps(new)).header = Header(new)
<1>1. new.begin_rec >= old.begin_rec \/ old = None
  BY DEF Endable, Asserted
<1>2. Fits(new)
  BY DEF Endable
<1>3. /\ new \in Infos /\ LaidOut(new) /\ InfoGood(new) /\ Settled(new)
      /\ \A i \in DOMAIN old.vars : i \in DOMAIN new.vars
  BY <1>1, <1>2, EnddefIs
<1>4. XSize(new) \in Nat /\ XSize(new) <= Size /\ Size \in Nat /\ new.vars \in Seq(Vars)
  BY <1>3, InfosAre, ParametersAssumption DEF Settled, Sized
<1>5. Asserted(new)
  BY DEF Endable
<1>6. old \in Infos \cup {None} /\ FileIs(file)
  BY GoodInfo DEF IInv, Parts, FileGood
<1>7. PICK steps : steps = Steps(new)
  OBVIOUS
<1>8. PICK n \in Nat : n = Len(steps) /\ DOMAIN steps = 1 .. n
  BY <1>3, <1>5, <1>6, <1>7, StepsAre
<1>9. PICK m \in 1 .. n :
        /\ steps[m].op = "write_NC"
        /\ \A k \in 1 .. n : k < m => steps[k] \in MoveSteps
        /\ \A k \in 1 .. n : m < k => steps[k] \in FillSteps(XSize(new))
  BY <1>3, <1>5, <1>6, <1>7, <1>8, StepsAre
<1>10. /\ \A k \in 1 .. n : k < m => Leaves(steps[k], 0)
       /\ \A k \in 1 .. n : m < k => Leaves(steps[k], XSize(new))
  BY <1>9, StepsLeave
<1>11. Sound(file, file.header, 0)
  BY <1>6 DEF Sound
<1>12. PICK f : f = Done(new, steps)
  OBVIOUS
<1>13. Sound(f, Header(new), XSize(new))
  <2>1. m \in 1 .. n + 1 /\ m <= n
    OBVIOUS
  <2>2. Sound(f, IF m <= n THEN Header(new) ELSE file.header,
                 IF m <= n THEN XSize(new) ELSE 0)
    BY <1>3, <1>4, <1>7, <1>8, <1>9, <1>10, <1>11, <1>12, <2>1, DoneIs
  <2> QED
    BY <2>1, <2>2
<1>14. FileIs(f) /\ f.exists = file.exists /\ f.header = Header(new) /\ FileGood(f)
  BY <1>3, <1>13, WrittenGood DEF Sound
<1>15. HdrBytes(f)
  <2>1. XSize(Header(new)) = XSize(new)
    BY <1>3, HeaderIs
  <2> QED
    BY <1>13, <1>14, <2>1 DEF Sound, HdrBytes
<1> QED
  BY <1>3, <1>7, <1>8, <1>12, <1>14, <1>15

(* When it fails, the header is written if and only if what fails is       *)
(* behind it.                                                              *)
LEMMA FailsIs ==
  ASSUME IInv, nc # None, NEW r \in Reserves, NEW new, new = NC_begins(r), Endable(new),
         NEW at \in FailAt, at.done < Len(Steps(new)), Steps(new)[at.done + 1].op = at.op,
         NEW x \in Nat, x <= Size, Sound(file, file.header, x)
  PROVE  /\ at.op # "fill" =>
              Sound(Done(new, Before(Steps(new), at.done)), file.header, x)
         /\ at.op = "fill" =>
              Sound(Done(new, Before(Steps(new), at.done)), Header(new), XSize(new))
<1>1. new.begin_rec >= old.begin_rec \/ old = None
  BY DEF Endable, Asserted
<1>2. Fits(new)
  BY DEF Endable
<1>3. /\ new \in Infos /\ LaidOut(new) /\ InfoGood(new) /\ Settled(new)
      /\ \A i \in DOMAIN old.vars : i \in DOMAIN new.vars
      /\ Asserted(new)
  BY <1>1, <1>2, EnddefIs DEF Endable
<1>4. XSize(new) \in Nat /\ XSize(new) <= Size
  BY <1>3, InfosAre DEF Settled, Sized
<1>5. old \in Infos \cup {None}
  BY GoodInfo DEF IInv, Parts
<1>6. PICK steps : steps = Steps(new)
  OBVIOUS
<1>7. PICK n \in Nat : n = Len(steps) /\ DOMAIN steps = 1 .. n
  BY <1>3, <1>5, <1>6, StepsAre
<1>8. PICK m \in 1 .. n :
        /\ steps[m].op = "write_NC"
        /\ \A k \in 1 .. n : k < m => steps[k] \in MoveSteps
        /\ \A k \in 1 .. n : m < k => steps[k] \in FillSteps(XSize(new))
  BY <1>3, <1>5, <1>6, <1>7, StepsAre
<1>9. PICK done \in Nat : done = at.done /\ done < n /\ steps[done + 1].op = at.op
  BY <1>6, <1>7, ParametersAssumption
<1>10. /\ \A k \in 1 .. n : k < m => /\ Leaves(steps[k], x) /\ steps[k].op # "write_NC"
                                     /\ steps[k].op # "fill"
       /\ \A k \in 1 .. n : m < k => /\ Leaves(steps[k], XSize(new))
                                     /\ steps[k].op = "fill"
  BY <1>8, StepsLeave
<1>11. PICK S : S = {steps[k] : k \in 1 .. n}
  OBVIOUS
<1>12. PICK a \in Seq(S) : /\ a = SubSeq(steps, 1, done) /\ Len(a) = done
                           /\ \A k \in 1 .. done : a[k] = steps[k]
  <2>1. \A k \in 1 .. done : k \in 1 .. n
    BY <1>9
  <2>2. \A k \in 1 .. done : steps[k] \in S
    BY <1>11, <2>1
  <2>3. /\ SubSeq(steps, 1, done) \in Seq(S)
        /\ Len(SubSeq(steps, 1, done)) = IF 1 <= done THEN done - 1 + 1 ELSE 0
        /\ \A k \in 1 .. done - 1 + 1 : SubSeq(steps, 1, done)[k] = steps[1 + k - 1]
    BY <2>2, SubSeqProperties
  <2>4. \A k \in 1 .. done : 1 + k - 1 = k /\ k \in 1 .. done - 1 + 1
    OBVIOUS
  <2>5. \A k \in 1 .. done : SubSeq(steps, 1, done)[k] = steps[k]
    BY <2>3, <2>4
  <2>6. Len(SubSeq(steps, 1, done)) = done
    BY <2>3
  <2> QED
    BY <2>3, <2>5, <2>6
<1>13. Sound(file, file.header, x)
  OBVIOUS
<1>14. CASE at.op = "fill"
  <2>1. m <= done
    <3>1. done + 1 \in 1 .. n
      BY <1>9
    <3>2. ~(done + 1 < m) /\ done + 1 # m
      BY <1>8, <1>9, <1>10, <1>14, <3>1
    <3> QED
      BY <3>2
  <2>2. Before(steps, done) = a
    <3>1. Before(steps, done) = a \o <<>>
      BY <1>9, <1>12, <1>14 DEF Before
    <3> QED
      BY <3>1, ConcatEmptySeq
  <2>3. a[m].op = "write_NC" /\ m \in 1 .. done + 1
    <3>1. m \in 1 .. done
      BY <2>1
    <3> QED
      BY <1>8, <1>12, <3>1
  <2>4. \A k \in 1 .. done : k < m => Leaves(a[k], x)
    BY <1>9, <1>10, <1>12
  <2>5. \A k \in 1 .. done : m < k => Leaves(a[k], XSize(new))
    BY <1>9, <1>10, <1>12
  <2>6. Sound(Done(new, a), IF m <= done THEN Header(new) ELSE file.header,
                            IF m <= done THEN XSize(new) ELSE x)
    BY <1>3, <1>4, <1>12, <1>13, <2>3, <2>4, <2>5, DoneIs
  <2>7. Sound(Done(new, a), Header(new), XSize(new))
    BY <2>1, <2>6
  <2> QED
    BY <1>6, <1>7, <1>9, <1>14, <2>2, <2>7
<1>15. CASE at.op # "fill"
  <2>1. done < m
    <3>1. done + 1 \in 1 .. n
      BY <1>9
    <3>2. ~(m < done + 1)
      BY <1>9, <1>10, <1>15, <3>1
    <3> QED
      BY <3>2
  <2>2. PICK M : M = MoveSteps
    OBVIOUS
  <2>3. a \in Seq(M)
    <3>1. \A k \in 1 .. done : k \in 1 .. n /\ k < m
      BY <1>9, <2>1
    <3>2. \A k \in 1 .. done : a[k] \in M
      BY <1>8, <1>12, <2>2, <3>1
    <3>3. a = [k \in 1 .. done |-> a[k]]
      BY <1>12, LenProperties
    <3> QED
      BY <3>2, <3>3, ListIs
  <2>4. PICK b \in Seq(M) :
          b = IF steps[done + 1].op = "move_vars_r"
              THEN SubSeq(steps, done + 2,
                          Greatest({k \in DOMAIN steps : steps[k].op = "move_vars_r"}))
              ELSE <<>>
    <3>1. CASE steps[done + 1].op # "move_vars_r"
      BY <3>1, EmptySeq
    <3>2. CASE steps[done + 1].op = "move_vars_r"
      <4>1. PICK V : V = {k \in DOMAIN steps : steps[k].op = "move_vars_r"}
        OBVIOUS
      <4>2. V \subseteq 0 .. n /\ V \subseteq 1 .. n /\ V # {}
        <5>1. done + 1 \in 1 .. n
          BY <1>9
        <5>2. done + 1 \in V
          BY <1>6, <1>7, <3>2, <4>1, <5>1
        <5> QED
          BY <1>6, <1>7, <4>1, <5>2
      <4>3. PICK g \in 1 .. n : g = Greatest(V) /\ g \in V
        BY <4>2, GreatestIs
      <4>4. steps[g].op = "move_vars_r"
        BY <4>1, <4>3
      <4>5. g < m
        BY <1>8, <1>10, <4>3, <4>4
      <4>6. \A k \in done + 2 .. g : steps[k] \in M
        <5>1. \A k \in done + 2 .. g : k \in 1 .. n /\ k < m
          BY <4>5
        <5> QED
          BY <1>8, <2>2, <5>1
      <4>7. SubSeq(steps, done + 2, g) \in Seq(M)
        <5>1. done + 2 \in Int /\ g \in Int
          OBVIOUS
        <5> QED
          BY <4>6, <5>1, SubSeqProperties
      <4> QED
        BY <3>2, <4>1, <4>3, <4>7
    <3> QED
      BY <3>1, <3>2
  <2>5. PICK c : c = a \o b /\ c = Before(steps, done)
    BY <1>12, <2>4 DEF Before
  <2>6. c \in Seq(M)
    BY <2>3, <2>4, <2>5, ConcatProperties
  <2>7. PICK l \in Nat : l = Len(c) /\ \A k \in 1 .. l : c[k] \in M
    BY <2>6, LenProperties, ElementOfSeq
  <2>8. \A k \in 1 .. l : Leaves(c[k], x)
    BY <2>2, <2>7, StepsLeave
  <2>9. PICK e \in 1 .. l + 1 : e = l + 1 /\ ~(e <= l)
    OBVIOUS
  <2>10. \A k \in 1 .. l : ~(e < k)
    BY <2>9
  <2>11. Sound(Done(new, c), IF e <= l THEN Header(new) ELSE file.header,
                             IF e <= l THEN XSize(new) ELSE x)
    BY <1>3, <1>4, <1>13, <2>7, <2>8, <2>9, <2>10, DoneIs
  <2>12. Sound(Done(new, c), file.header, x)
    BY <2>9, <2>11
  <2> QED
    BY <1>6, <1>7, <1>9, <1>15, <2>5, <2>12
<1> QED
  BY <1>14, <1>15

(* Writing a value: the records up to it are filled, the count grows.      *)
LEMMA PutIs ==
  ASSUME IInv, nc # None, "CREAT" \notin flags, "INDEF" \notin flags,
         NEW i \in 1 .. MaxVars, NEW rec \in 0 .. MaxRecs - 1, NEW v, NC3_put_vara(i, rec, v),
         NEW x \in Nat, x <= Size, Sound(file, file.header, x),
         \A k \in DOMAIN nc.vars : x <= nc.vars[k].begin
  PROVE  /\ FileGood(file') /\ file'.exists = file.exists
         /\ XSize(file'.header) = XSize(file.header)
         /\ \A a \in 0 .. x - 1 : file'.bytes[a] = Hdr
         /\ file'.header.vars = file.header.vars /\ file'.header.att = file.header.att
         /\ file'.header = IF nc.vars[i].rec /\ rec >= nc.numrecs /\ "NSYNC" \in flags
                           THEN [file.header EXCEPT !.numrecs = rec + 1] ELSE file.header
<1>1. FileGood(file) /\ InfoGood(nc) /\ Settled(nc)
  BY DEF IInv, Parts, Layout
<1>2. /\ nc \in Infos /\ XSize(nc) \in Nat /\ XSize(nc) <= Size /\ nc.vars \in Seq(Vars)
      /\ nc.numrecs \in Nat
  BY <1>1, InfosAre DEF InfoGood, Settled, Sized
<1>3. PICK c \in Nat : c = Len(nc.vars) /\ DOMAIN nc.vars = 1 .. c /\ Recs(nc) \subseteq 1 .. c
  BY <1>2, RecsIs
<1>4. rec \in Nat /\ rec + 1 \in 0 .. MaxRecs /\ rec + 1 \in Nat
  BY ParametersAssumption
<1>5. PICK grows \in BOOLEAN : grows = (nc.vars[i].rec /\ rec >= nc.numrecs)
  OBVIOUS
<1>6. PICK filled : filled = IF grows THEN Done(nc, RecordFills(rec)) ELSE file
  OBVIOUS
<1>7. Sound(filled, file.header, x)
  <2>1. CASE ~grows
    BY <1>6, <2>1
  <2>2. CASE grows
    <3>1. PICK P : P = (nc.numrecs .. rec) \X Recs(nc)
      OBVIOUS
    <3>2. nc.numrecs .. rec \subseteq 0 .. rec
      BY <1>2, <1>4
    <3>3. P \subseteq (0 .. rec) \X (1 .. c)
      BY <1>3, <3>1, <3>2
    <3>4. PICK s \in Seq(FillSteps(x)) : s = RecordFills(rec)
      <4>1. FillsOf(nc, P) \in Seq(FillSteps(x))
        BY <1>2, <1>3, <1>4, <3>3, FillsAre
      <4> QED
        BY <3>1, <4>1 DEF RecordFills
    <3>5. PICK l \in Nat : l = Len(s) /\ \A k \in 1 .. l : s[k] \in FillSteps(x)
      BY LenProperties, ElementOfSeq
    <3>6. \A k \in 1 .. l : Leaves(s[k], x)
      BY <3>5, StepsLeave
    <3>7. PICK e \in 1 .. l + 1 : e = l + 1 /\ ~(e <= l)
      OBVIOUS
    <3>8. \A k \in 1 .. l : ~(e < k)
      BY <3>7
    <3>9. Sound(Done(nc, s), IF e <= l THEN Header(nc) ELSE file.header,
                             IF e <= l THEN XSize(nc) ELSE x)
      BY <1>2, <3>5, <3>6, <3>7, <3>8, DoneIs
    <3> QED
      BY <1>6, <2>2, <3>4, <3>7, <3>9
  <2> QED
    BY <2>1, <2>2
<1>8. PICK counted : counted = IF grows /\ "NSYNC" \in flags
                               THEN [filled EXCEPT !.header.numrecs = rec + 1] ELSE filled
  OBVIOUS
<1>9. PICK h : h = IF grows /\ "NSYNC" \in flags
                   THEN [file.header EXCEPT !.numrecs = rec + 1] ELSE file.header
  OBVIOUS
<1>10. /\ FileIs(counted) /\ counted.exists = file.exists /\ counted.header = h
       /\ counted.bytes = filled.bytes
  <2>1. FileIs(filled) /\ filled.exists = file.exists /\ filled.header = file.header
    BY <1>7 DEF Sound
  <2>2. CASE grows /\ "NSYNC" \in flags
    <3>1. counted = [filled EXCEPT !.header.numrecs = rec + 1]
      BY <1>8, <2>2
    <3> QED
      BY <1>4, <1>9, <2>1, <2>2, <3>1, CountIs
  <2>3. CASE ~(grows /\ "NSYNC" \in flags)
    BY <1>8, <1>9, <2>1, <2>3
  <2> QED
    BY <2>2, <2>3
<1>11. i \in 1 .. c /\ file' = WithValue(counted, Offset(nc, i, rec), nc.vars[i].xlen, v)
  BY <1>3, <1>5, <1>6, <1>8 DEF NC3_put_vara
<1>12. PICK to \in Nat, len \in Nat : to = Offset(nc, i, rec) /\ len = nc.vars[i].xlen /\ x <= to
  <2>1. /\ Offset(nc, i, rec) \in Nat /\ Offset(nc, i, rec) >= nc.vars[i].begin
        /\ nc.vars[i].begin \in Nat /\ nc.vars[i].xlen \in Nat
    BY <1>2, <1>3, <1>4, <1>11, OffsetIs, EndIs
  <2>2. x <= nc.vars[i].begin
    BY <1>3, <1>11
  <2>3. x <= Offset(nc, i, rec)
    BY <2>1, <2>2
  <2> QED
    BY <2>1, <2>3
<1>13. /\ FileIs(file') /\ file'.exists = file.exists /\ file'.header = h
       /\ \A a \in Addr : a < to => file'.bytes[a] = filled.bytes[a]
  <2>1. PICK w : w = WithValue(counted, to, len, v) /\ w = file'
    BY <1>11, <1>12
  <2>2. FileIs(counted)
    BY <1>10
  <2>3. /\ FileIs(WithValue(counted, to, len, v))
        /\ WithValue(counted, to, len, v).exists = counted.exists
        /\ WithValue(counted, to, len, v).header = counted.header
        /\ \A a \in Addr : a < to =>
                           WithValue(counted, to, len, v).bytes[a] = counted.bytes[a]
    BY <2>2, ValueIs
  <2> QED
    BY <1>10, <2>1, <2>3
<1>14. \A a \in 0 .. x - 1 : file'.bytes[a] = Hdr
  <2>1. \A a \in 0 .. x - 1 : a \in Addr /\ a < to /\ filled.bytes[a] = Hdr
    BY <1>7, <1>12, ParametersAssumption DEF Sound, Addr
  <2> QED
    BY <1>13, <2>1
<1>15. FileGood(file') /\ XSize(file'.header) = XSize(file.header)
  BY <1>1, <1>4, <1>9, <1>13, CountedGood
<1>16. h.vars = file.header.vars /\ h.att = file.header.att
  BY <1>1, <1>9 DEF FileGood, FileIs, Headers
<1> QED
  BY <1>5, <1>9, <1>13, <1>14, <1>15, <1>16

-----------------------------------------------------------------------------
(* The invariant is inductive *)

Empty == [vars |-> <<>>, att |-> 0, numrecs |-> 0,
          begin_var |-> 0, begin_rec |-> 0, recsize |-> 0]

(* A dataset that was just created is good, and so is no file.             *)
LEMMA EmptyGood ==
  /\ InfoGood(Empty) /\ Settled(Empty) /\ Empty \in Infos
  /\ FileIs(NoFile) /\ FileGood(NoFile)
<1>1. Empty \in Infos /\ Empty.vars = <<>> /\ Empty.recsize = 0 /\ Empty.att = 0
  BY EmptySeq DEF Empty, Infos
<1>2. BaseSize \in Nat /\ BaseSize <= Size /\ Size \in Nat /\ 0 \in AttSizes
      /\ MaxRecs \in Nat /\ MaxVars \in Nat /\ VarSize \in Nat
  BY ParametersAssumption
<1>3. Len(<<>>) = 0 /\ DOMAIN <<>> = {} /\ 0 * VarSize = 0
  BY <1>2
<1>4. LaidOut(Empty)
  BY <1>1, NoVariables
<1>5. Sized(Empty)
  <2>1. XSize(Empty) = BaseSize
    BY <1>1, <1>2, <1>3 DEF XSize
  <2> QED
    BY <1>1, <1>2, <1>3, <2>1 DEF Sized
<1>6. HeaderOK(Empty)
  BY <1>2, <1>3 DEF HeaderOK, Empty
<1>7. InfoGood(Empty) /\ Settled(Empty)
  BY <1>1, <1>2, <1>4, <1>5, <1>6 DEF InfoGood, Settled, Empty
<1>8. FileIs(NoFile) /\ NoFile.header = Header(Empty)
  <2>1. Header(Empty) \in Headers
    BY <1>1, HeaderIs
  <2>2. NoFile.header = Header(Empty)
    BY DEF NoFile, Header, Empty
  <2> QED
    BY <2>1, <2>2 DEF FileIs, NoFile
<1>9. FileGood(NoFile)
  BY <1>7, <1>8, WrittenGood
<1> QED
  BY <1>1, <1>7, <1>8, <1>9

(* The invariant holds initially.                                          *)
LEMMA InitGood == Init => IInv
<1> SUFFICES ASSUME Init
             PROVE  IInv
  OBVIOUS
<1>1. Parts
  BY EmptyGood DEF Init, Parts
<1>2. Modes /\ Layout /\ Matches
  BY DEF Init, Modes, Layout, Matches
<1> QED
  BY <1>1, <1>2 DEF IInv

(* NC3_create keeps the invariant and writes a header.                     *)
LEMMA CreateKeeps ==
  ASSUME IInv, NEW share \in Shared, NC3_create(share)
  PROVE  IInv' /\ HdrBytes(file)' /\ old' = None
<1>1. nc' = Empty /\ old' = None /\ flags' = {"CREAT"} \cup Nsync(share)
      /\ file' = WithHeader([NoFile EXCEPT !.exists = TRUE], Empty)
  BY DEF NC3_create, Empty
<1>2. PICK f : f = [NoFile EXCEPT !.exists = TRUE]
  OBVIOUS
<1>3. FileIs(f) /\ f.exists = TRUE
  BY <1>2, EmptyGood DEF FileIs, NoFile
<1>4. XSize(Empty) <= Size /\ Empty # None
  BY EmptyGood, InfosAre DEF Settled, Sized
<1>5. /\ FileIs(file') /\ file'.exists = TRUE /\ file'.header = Header(Empty)
      /\ \A a \in 0 .. XSize(Empty) - 1 : file'.bytes[a] = Hdr
  <2>1. PICK w : w = file' /\ w = WithHeader(f, Empty)
    BY <1>1, <1>2
  <2>2. Empty \in Infos
    BY EmptyGood
  <2>3. /\ FileIs(WithHeader(f, Empty)) /\ WithHeader(f, Empty).exists = f.exists
        /\ WithHeader(f, Empty).header = Header(Empty)
        /\ \A a \in 0 .. XSize(Empty) - 1 : WithHeader(f, Empty).bytes[a] = Hdr
    BY <1>3, <1>4, <2>2, WriteIs
  <2> QED
    BY <1>3, <2>1, <2>3
<1>6. FileGood(file')
  BY <1>5, EmptyGood, WrittenGood
<1>7. Nsync(share) \subseteq {"NSYNC"}
  BY DEF Nsync
<1>8. Parts'
  BY <1>1, <1>5, <1>6, <1>7, EmptyGood DEF Parts
<1>9. Modes' /\ Layout' /\ Matches'
  BY <1>1, <1>4, <1>5, <1>7 DEF Modes, Layout, Matches
<1>10. HdrBytes(file)'
  <2>1. XSize(Header(Empty)) = XSize(Empty)
    BY EmptyGood, HeaderIs
  <2> QED
    BY <1>5, <2>1 DEF HdrBytes
<1> QED
  BY <1>1, <1>8, <1>9, <1>10 DEF IInv

(* NC3_open keeps the invariant.                                           *)
LEMMA OpenKeeps ==
  ASSUME IInv, NEW share \in Shared, NC3_open(share)
  PROVE  IInv' /\ old' = None
<1>1. nc' = FromHeader(file.header) /\ old' = None /\ flags' = Nsync(share)
      /\ file' = file /\ file.exists
  BY DEF NC3_open, IInv, Parts
<1>2. FileGood(file)
  BY DEF IInv, Parts
<1>3. PICK g : /\ g = nc' /\ InfoGood(g) /\ Settled(g) /\ g # None
               /\ g.vars = file.header.vars /\ g.att = file.header.att
               /\ g.numrecs = file.header.numrecs
  BY <1>1, <1>2, ReadGood, GoodInfo
<1>4. Nsync(share) \subseteq {"NSYNC"}
  BY DEF Nsync
<1>5. Parts'
  BY <1>1, <1>2, <1>3, <1>4 DEF Parts
<1>6. Modes' /\ Layout' /\ Matches'
  BY <1>1, <1>3, <1>4 DEF Modes, Layout, Matches
<1> QED
  BY <1>1, <1>5, <1>6 DEF IInv

(* NC3_sync keeps the invariant and the bytes of the header.               *)
LEMMA SyncKeeps ==
  ASSUME IInv, NC3_sync
  PROVE  IInv' /\ old' = None /\ (HdrBytes(file) => HdrBytes(file)')
<1>1. /\ nc # None /\ "CREAT" \notin flags /\ "INDEF" \notin flags
      /\ file' = NC_sync /\ flags' = flags \ {"HDIRTY", "NDIRTY"}
      /\ nc' = nc /\ old' = old
  BY DEF NC3_sync, IsOpen, Indef
<1>2. /\ FileGood(file') /\ file'.exists = file.exists /\ file'.header = Header(nc)
      /\ HdrBytes(file) => HdrBytes(file')
  BY <1>1, SyncIs
<1>3. old = None /\ file.exists
  BY <1>1 DEF IInv, Modes
<1>4. Parts'
  BY <1>1, <1>2, <1>3 DEF IInv, Parts
<1>5. Modes' /\ Layout'
  BY <1>1, <1>2, <1>3 DEF IInv, Modes, Layout
<1>6. Matches'
  <2>1. Header(nc).vars = nc.vars /\ Header(nc).att = nc.att /\ Header(nc).numrecs = nc.numrecs
    BY DEF Header
  <2> QED
    BY <1>1, <1>2, <2>1 DEF Matches
<1> QED
  BY <1>1, <1>2, <1>3, <1>4, <1>5, <1>6 DEF IInv

(* NC3_redef keeps the invariant; old has the variables of the header in   *)
(* the file.                                                               *)
LEMMA RedefKeeps ==
  ASSUME IInv, NC3_redef
  PROVE  IInv' /\ file' = file /\ old'.vars = file.header.vars
<1>1. /\ nc # None /\ "CREAT" \notin flags /\ "INDEF" \notin flags
      /\ file' = file /\ old' = nc'
      /\ nc' = IF "NSYNC" \in flags THEN FromHeader(file.header) ELSE nc
      /\ flags' \subseteq flags \cup {"INDEF"} /\ "INDEF" \in flags'
  BY DEF NC3_redef, IsOpen, Indef
<1>2. FileGood(file) /\ InfoGood(nc) /\ Settled(nc) /\ file.exists
      /\ file.header.vars = nc.vars
  BY <1>1 DEF IInv, Parts, Modes, Layout, Matches
<1>3. PICK g : /\ g = nc' /\ InfoGood(g) /\ Settled(g) /\ g # None
               /\ g.vars = file.header.vars
  BY <1>1, <1>2, ReadGood, GoodInfo
<1>4. Extends(g, g) /\ g.begin_var >= g.begin_var /\ g.begin_rec >= g.begin_rec
  <2>1. Len(g.vars) \in Nat /\ g.begin_var \in Nat /\ g.begin_rec \in Nat
    BY <1>3, GoodInfo, InfosAre, RecsIs
  <2> QED
    BY <2>1 DEF Extends
<1>5. Parts'
  <2>1. flags' \subseteq {"CREAT", "INDEF", "HDIRTY", "NDIRTY", "NSYNC"}
    BY <1>1 DEF IInv, Parts
  <2> QED
    BY <1>1, <1>2, <1>3, <2>1 DEF Parts
<1>6. Modes'
  BY <1>1, <1>2, <1>3 DEF Modes
<1>7. Layout' /\ Matches'
  BY <1>1, <1>3, <1>4 DEF Layout, Matches
<1> QED
  BY <1>1, <1>3, <1>5, <1>6, <1>7 DEF IInv

(* Once the dataset is closed only the file matters.                       *)
LEMMA ClosedGood ==
  ASSUME IInv, nc' = None, old' = None, flags' = {}, FileGood(file'),
         file'.exists \/ file' = NoFile
  PROVE  IInv'
BY DEF IInv, Parts, Modes, Layout, Matches

(* NC3_close keeps the invariant and the bytes of the header.              *)
LEMMA CloseKeeps ==
  ASSUME IInv, NC3_close
  PROVE  IInv' /\ old' = None /\ (HdrBytes(file) => HdrBytes(file)')
<1>1. nc # None /\ nc' = None /\ old' = None /\ flags' = {} /\ file.exists
  BY DEF NC3_close, IsOpen, IInv, Modes
<1>2. CASE Indef
  <2>1. PICK new : /\ new = NC_begins(Default) /\ Endable(new)
                   /\ file' = Done(new, Steps(new))
    BY <1>2 DEF NC3_close
  <2>2. Default \in Reserves
    BY ParametersAssumption
  <2>3. FileGood(file') /\ HdrBytes(file') /\ file'.exists = file.exists
    BY <1>1, <2>1, <2>2, EnddefDone
  <2>4. IInv'
    BY <1>1, <2>3, ClosedGood
  <2> QED
    BY <1>1, <2>3, <2>4
<1>3. CASE ~Indef
  <2>1. "CREAT" \notin flags /\ "INDEF" \notin flags /\ file' = NC_sync
    BY <1>3 DEF NC3_close, Indef
  <2>2. FileGood(file') /\ file'.exists = file.exists /\ (HdrBytes(file) => HdrBytes(file'))
    BY <1>1, <2>1, SyncIs
  <2>3. IInv'
    BY <1>1, <2>2, ClosedGood
  <2> QED
    BY <1>1, <2>2, <2>3
<1> QED
  BY <1>2, <1>3

(* NC3_abort keeps the invariant and the bytes of the header, or removes   *)
(* the file.                                                               *)
LEMMA AbortKeeps ==
  ASSUME IInv, NC3_abort
  PROVE  /\ IInv' /\ old' = None
         /\ file' = NoFile \/ (HdrBytes(file) => HdrBytes(file)')
<1>1. nc # None /\ nc' = None /\ old' = None /\ flags' = {} /\ file.exists
      /\ FileGood(file)
  BY DEF NC3_abort, IsOpen, IInv, Parts, Modes
<1>2. CASE "CREAT" \in flags
  <2>1. file' = NoFile
    BY <1>2 DEF NC3_abort
  <2>2. IInv'
    BY <1>1, <2>1, EmptyGood, ClosedGood
  <2> QED
    BY <1>1, <2>1, <2>2
<1>3. CASE "CREAT" \notin flags /\ "INDEF" \in flags
  <2>1. file' = file
    BY <1>3 DEF NC3_abort, Indef
  <2>2. IInv'
    BY <1>1, <2>1, ClosedGood
  <2> QED
    BY <1>1, <2>1, <2>2 DEF HdrBytes
<1>4. CASE "CREAT" \notin flags /\ "INDEF" \notin flags
  <2>1. file' = NC_sync
    BY <1>4 DEF NC3_abort, Indef
  <2>2. FileGood(file') /\ file'.exists = file.exists /\ (HdrBytes(file) => HdrBytes(file'))
    BY <1>1, <1>4, <2>1, SyncIs
  <2>3. IInv'
    BY <1>1, <2>2, ClosedGood
  <2> QED
    BY <1>1, <2>2, <2>3
<1> QED
  BY <1>2, <1>3, <1>4

(* nc_enddef keeps the invariant and writes the header.                    *)
LEMMA EnddefKeeps ==
  ASSUME IInv, NEW r \in Reserves, NC3__enddef(r)
  PROVE  IInv' /\ old' = None /\ HdrBytes(file)'
<1>1. PICK new : /\ new = NC_begins(r) /\ Endable(new) /\ nc' = new /\ old' = None
                 /\ file' = Done(new, Steps(new))
                 /\ flags' = flags \ {"CREAT", "INDEF", "HDIRTY", "NDIRTY"}
  BY DEF NC3__enddef
<1>2. nc # None /\ file.exists
  BY <1>1 DEF Endable, Indef, IInv, Modes
<1>3. /\ InfoGood(new) /\ Settled(new) /\ FileGood(file') /\ HdrBytes(file')
      /\ file'.exists = file.exists /\ file'.header = Header(new)
  BY <1>1, <1>2, EnddefDone
<1>4. new # None
  BY <1>3, GoodInfo
<1>5. Parts'
  BY <1>1, <1>2, <1>3 DEF IInv, Parts
<1>6. Modes' /\ Layout'
  BY <1>1, <1>2, <1>3, <1>4 DEF Modes, Layout
<1>7. Matches'
  BY <1>1, <1>3 DEF Matches, Header
<1> QED
  BY <1>1, <1>3, <1>5, <1>6, <1>7 DEF IInv

(* A failure before the header is written leaves it as it was, together    *)
(* with the bytes that lie before the old places of all variables.         *)
LEMMA FailsKeeps ==
  ASSUME IInv, NEW r \in Reserves, NC3__enddef_fails(r)
  PROVE  /\ IInv' /\ UNCHANGED <<old, flags>>
         /\ HdrBytes(file) => HdrBytes(file')
<1>1. PICK new : /\ new = NC_begins(r) /\ Endable(new) /\ nc' = new
                 /\ UNCHANGED <<old, flags>>
                 /\ \E at \in FailAt :
                      /\ at.done < Len(Steps(new)) /\ Steps(new)[at.done + 1].op = at.op
                      /\ file' = Done(new, Before(Steps(new), at.done))
  BY DEF NC3__enddef_fails
<1>2. PICK at \in FailAt : /\ at.done < Len(Steps(new)) /\ Steps(new)[at.done + 1].op = at.op
                           /\ file' = Done(new, Before(Steps(new), at.done))
  BY <1>1
<1>3. /\ nc # None /\ file.exists /\ FileGood(file) /\ FileIs(file)
      /\ "CREAT" \in flags \/ "INDEF" \in flags
  BY <1>1 DEF Endable, Indef, IInv, Parts, Modes, FileGood
<1>4. new.begin_rec >= old.begin_rec \/ old = None
  BY <1>1 DEF Endable, Asserted
<1>5. Fits(new)
  BY <1>1 DEF Endable
<1>6. /\ new \in Infos /\ InfoGood(new) /\ Settled(new) /\ new # None
      /\ \A i \in DOMAIN old.vars : i \in DOMAIN new.vars /\ new.vars[i].begin >= old.vars[i].begin
      /\ old # None => /\ Extends(old, new) /\ new.begin_var >= old.begin_var
                       /\ new.begin_rec >= old.begin_rec
  BY <1>1, <1>3, <1>4, <1>5, EnddefIs, InfosAre
<1>7. ASSUME NEW x \in Nat, x <= Size, Sound(file, file.header, x)
      PROVE  /\ at.op # "fill" => Sound(file', file.header, x)
             /\ at.op = "fill" => Sound(file', Header(new), XSize(new))
  BY <1>1, <1>2, <1>3, <1>7, FailsIs
<1>8. HdrBytes(file) => HdrBytes(file')
  <2> SUFFICES ASSUME HdrBytes(file)
               PROVE  HdrBytes(file')
    OBVIOUS
  <2>1. PICK x \in Nat : x = XSize(file.header) /\ x <= Size
    BY <1>3, XSizeIs DEF FileGood, FileIs, Sized, Headers
  <2>2. Sound(file, file.header, x)
    BY <1>3, <2>1 DEF Sound, HdrBytes
  <2>3. /\ at.op # "fill" => Sound(file', file.header, x)
        /\ at.op = "fill" => Sound(file', Header(new), XSize(new))
    BY <1>7, <2>1, <2>2
  <2>4. XSize(Header(new)) = XSize(new)
    BY <1>6, HeaderIs
  <2>5. CASE at.op # "fill"
    BY <2>1, <2>3, <2>5 DEF Sound, HdrBytes
  <2>6. CASE at.op = "fill"
    BY <2>3, <2>4, <2>6 DEF Sound, HdrBytes
  <2> QED
    BY <2>5, <2>6
<1>9. FileGood(file') /\ file'.exists = file.exists
  <2>1. /\ at.op # "fill" => Sound(file', file.header, 0)
        /\ at.op = "fill" => Sound(file', Header(new), XSize(new))
    <3>1. 0 <= Size /\ Sound(file, file.header, 0)
      BY <1>3, ParametersAssumption DEF Sound
    <3> QED
      BY <1>7, <3>1
  <2>2. CASE at.op # "fill"
    <3>1. FileIs(file') /\ file'.exists = file.exists /\ file'.header = file.header
      BY <2>1, <2>2 DEF Sound
    <3>2. 0 \in 0 .. MaxRecs
      BY ParametersAssumption
    <3> QED
      BY <1>3, <3>1, <3>2, CountedGood
  <2>3. CASE at.op = "fill"
    <3>1. FileIs(file') /\ file'.exists = file.exists /\ file'.header = Header(new)
      BY <2>1, <2>3 DEF Sound
    <3> QED
      BY <1>6, <3>1, WrittenGood
  <2> QED
    BY <2>2, <2>3
<1>10. Parts'
  BY <1>1, <1>3, <1>6, <1>9 DEF IInv, Parts
<1>11. Modes'
  BY <1>1, <1>3, <1>6, <1>9 DEF IInv, Modes
<1>12. Layout'
  <2>1. old # None => Settled(old)
    BY DEF IInv, Layout
  <2> QED
    BY <1>1, <1>3, <1>6, <2>1 DEF Layout
<1>13. Matches'
  BY <1>1, <1>3 DEF Matches
<1>14. IInv'
  BY <1>10, <1>11, <1>12, <1>13 DEF IInv
<1> QED
  BY <1>1, <1>8, <1>14

(* Defining a variable keeps the invariant.                                *)
LEMMA DefVarKeeps ==
  ASSUME IInv, NEW shape \in Shapes, NC3_def_var(shape)
  PROVE  IInv' /\ UNCHANGED <<file, old, flags>>
<1>1. PICK v : v = [rec |-> shape.rec, xlen |-> shape.xlen, begin |-> 0]
  OBVIOUS
<1>2. /\ nc # None /\ Len(nc.vars) < MaxVars /\ UNCHANGED <<file, old, flags>>
      /\ nc' = [nc EXCEPT !.vars = Append(@, v)]
      /\ "CREAT" \in flags \/ "INDEF" \in flags
  BY <1>1 DEF NC3_def_var, IsOpen, Indef
<1>3. v \in Vars /\ VarOK(v)
  <2>1. shape \in [rec : BOOLEAN, xlen : Nat \ {0}] /\ Size \in Nat \ {0}
    BY ParametersAssumption
  <2>2. shape = [rec |-> shape.rec, xlen |-> shape.xlen]
    BY <2>1
  <2> QED
    BY <1>1, <2>1, <2>2 DEF Vars, VarOK, Addr
<1>4. nc \in Infos /\ HeaderOK(nc) /\ InfoGood(nc) /\ nc.vars \in Seq(Vars)
  BY <1>2, GoodInfo DEF IInv, Parts
<1>5. PICK c \in Nat : c = Len(nc.vars) /\ DOMAIN nc.vars = 1 .. c
  BY <1>4, RecsIs
<1>6. PICK vs : vs = Append(nc.vars, v)
  OBVIOUS
<1>7. /\ vs \in Seq(Vars) /\ Len(vs) = c + 1 /\ DOMAIN vs = 1 .. c + 1
      /\ \A k \in 1 .. c : vs[k] = nc.vars[k]
      /\ vs[c + 1] = v
  BY <1>3, <1>4, <1>5, <1>6, AppendedIs, LenProperties
<1>8. PICK g : g = nc' /\ g = [nc EXCEPT !.vars = vs]
  BY <1>2, <1>6
<1>9. /\ g \in Infos /\ g.vars = vs /\ g.att = nc.att /\ g.numrecs = nc.numrecs
      /\ g.begin_var = nc.begin_var /\ g.begin_rec = nc.begin_rec
  BY <1>4, <1>7, <1>8 DEF Infos
<1>10. InfoGood(g) /\ g # None
  <2>1. \A k \in 1 .. c + 1 : VarOK(vs[k])
    <3>1. \A k \in 1 .. c : VarOK(nc.vars[k])
      BY <1>4, <1>5 DEF HeaderOK
    <3>2. \A k \in 1 .. c + 1 : k \in 1 .. c \/ k = c + 1
      OBVIOUS
    <3> QED
      BY <1>3, <1>7, <3>1, <3>2
  <2>2. Len(vs) <= MaxVars
    BY <1>2, <1>5, <1>7, ParametersAssumption
  <2>3. HeaderOK(g)
    BY <1>4, <1>7, <1>9, <2>1, <2>2 DEF HeaderOK
  <2>4. vs # <<>>
    <3>1. Len(<<>>) = 0 /\ c + 1 # 0
      OBVIOUS
    <3> QED
      BY <1>7, <3>1
  <2> QED
    BY <1>4, <1>9, <2>3, <2>4, InfosAre DEF InfoGood
<1>11. old # None => Extends(old, g)
  <2> SUFFICES ASSUME old # None
               PROVE  Extends(old, g)
    OBVIOUS
  <2>1. Extends(old, nc) /\ old.vars \in Seq(Vars)
    BY GoodInfo DEF IInv, Parts, Layout
  <2>2. PICK d \in Nat : d = Len(old.vars) /\ d <= c
    BY <1>5, <2>1, RecsIs DEF Extends
  <2>3. \A i \in 1 .. d : i \in 1 .. c /\ g.vars[i] = nc.vars[i]
    BY <1>7, <1>9, <2>2
  <2>4. d <= c + 1
    BY <2>2
  <2> QED
    BY <1>7, <1>9, <2>1, <2>2, <2>3, <2>4 DEF Extends
<1>12. Parts'
  BY <1>2, <1>8, <1>10 DEF IInv, Parts
<1>13. Modes'
  BY <1>2, <1>8, <1>10 DEF IInv, Modes
<1>14. Layout' /\ Matches'
  BY <1>2, <1>8, <1>9, <1>11 DEF IInv, Layout, Matches
<1> QED
  BY <1>2, <1>12, <1>13, <1>14 DEF IInv

(* Changing the attribute keeps the invariant: in data mode it does not    *)
(* grow, so the header does not reach the variables.                       *)
LEMMA PutAttKeeps ==
  ASSUME IInv, NEW size \in AttSizes, NC3_put_att(size)
  PROVE  /\ IInv' /\ UNCHANGED <<file, old>>
         /\ "CREAT" \in flags \/ "INDEF" \in flags => flags' = flags
<1>1. /\ nc # None /\ UNCHANGED <<file, old>> /\ nc' = [nc EXCEPT !.att = size]
      /\ ("CREAT" \in flags \/ "INDEF" \in flags) \/ size \in 1 .. nc.att
      /\ flags' = IF "CREAT" \in flags \/ "INDEF" \in flags THEN flags
                  ELSE flags \cup {"HDIRTY"}
  BY DEF NC3_put_att, IsOpen, Indef
<1>2. nc \in Infos /\ HeaderOK(nc) /\ InfoGood(nc) /\ nc.att \in Nat /\ size \in Nat
  BY <1>1, GoodInfo, InfosAre, ParametersAssumption DEF IInv, Parts
<1>3. PICK g : g = nc' /\ g = [nc EXCEPT !.att = size]
  BY <1>1
<1>4. /\ g \in Infos /\ g.vars = nc.vars /\ g.att = size /\ g.numrecs = nc.numrecs
      /\ g.begin_var = nc.begin_var /\ g.begin_rec = nc.begin_rec /\ g.recsize = nc.recsize
  BY <1>2, <1>3 DEF Infos
<1>5. InfoGood(g) /\ g # None
  <2>1. HeaderOK(g)
    BY <1>2, <1>4 DEF HeaderOK
  <2> QED
    BY <1>2, <1>4, <2>1, InfosAre DEF InfoGood
<1>6. ASSUME "CREAT" \notin flags, "INDEF" \notin flags
      PROVE  Settled(g)
  <2>1. size <= nc.att
    BY <1>1, <1>2, <1>6
  <2>2. LaidOut(nc) /\ Sized(nc)
    BY <1>1, <1>6 DEF IInv, Layout, Settled
  <2>3. LaidOut(g) /\ XSize(g) <= XSize(nc)
    BY <1>2, <1>4, <2>1, <2>2, LaidShrunk
  <2>4. XSize(g) <= Size
    BY <1>2, <1>4, <2>2, <2>3, InfosAre, ParametersAssumption DEF Sized
  <2>5. \A i : End(g, i) = End(nc, i)
    BY <1>4 DEF End
  <2> QED
    BY <1>4, <2>2, <2>3, <2>4, <2>5 DEF Settled, Sized
<1>7. old # None => Extends(old, g)
  BY <1>4 DEF IInv, Layout, Extends
<1>8. Parts'
  BY <1>1, <1>3, <1>5 DEF IInv, Parts
<1>9. Modes'
  BY <1>1, <1>3, <1>5 DEF IInv, Modes
<1>10. Layout'
  BY <1>1, <1>3, <1>4, <1>6, <1>7 DEF IInv, Layout
<1>11. Matches'
  BY <1>1, <1>3, <1>4 DEF IInv, Matches
<1> QED
  BY <1>1, <1>8, <1>9, <1>10, <1>11 DEF IInv

(* Writing data keeps the invariant and the bytes of the header.           *)
LEMMA PutVaraKeeps ==
  ASSUME IInv, NEW i \in 1 .. MaxVars, NEW rec \in 0 .. MaxRecs - 1, NEW v,
         NC3_put_vara(i, rec, v)
  PROVE  IInv' /\ old' = None /\ (HdrBytes(file) => HdrBytes(file)')
<1>1. PICK grows \in BOOLEAN : grows = (nc.vars[i].rec /\ rec >= nc.numrecs)
  OBVIOUS
<1>2. /\ nc # None /\ "CREAT" \notin flags /\ "INDEF" \notin flags /\ old' = old
      /\ nc' = IF grows THEN [nc EXCEPT !.numrecs = rec + 1] ELSE nc
      /\ flags' = IF ~grows THEN flags
                  ELSE IF "NSYNC" \in flags THEN flags \ {"NDIRTY"}
                  ELSE flags \cup {"NDIRTY"}
  BY <1>1 DEF NC3_put_vara, IsOpen, Indef
<1>3. /\ InfoGood(nc) /\ nc \in Infos /\ HeaderOK(nc) /\ LaidOut(nc) /\ Sized(nc)
      /\ FileGood(file) /\ FileIs(file) /\ old = None /\ file.exists
      /\ file.header.vars = nc.vars /\ file.header \in Headers
      /\ "HDIRTY" \notin flags => file.header.att = nc.att
      /\ "NDIRTY" \notin flags => file.header.numrecs = nc.numrecs
  BY <1>2, GoodInfo DEF IInv, Parts, Modes, Layout, Matches, Settled, FileGood, FileIs
<1>4. rec + 1 \in 0 .. MaxRecs /\ rec + 1 \in Nat
  BY ParametersAssumption
<1>5. PICK x \in Nat : x = XSize(file.header) /\ x <= Size
  BY <1>3, XSizeIs DEF FileGood, Sized, Headers
<1>6. \A k \in DOMAIN nc.vars : x <= nc.vars[k].begin /\ 0 <= nc.vars[k].begin
  <2>1. PICK g : g = FromHeader(file.header) /\ g.vars = nc.vars /\ LaidOut(g) /\ XSize(g) = x
    BY <1>3, <1>5, FromHeaderIs DEF FileGood
  <2>2. \A k \in DOMAIN nc.vars : x <= nc.vars[k].begin
    BY <2>1 DEF LaidOut
  <2>3. \A k \in DOMAIN nc.vars : nc.vars[k].begin \in Nat
    BY <1>3, InfosAre, RecsIs, EndIs
  <2> QED
    BY <2>2, <2>3
<1>7. ASSUME NEW y \in Nat, y <= Size, Sound(file, file.header, y),
             \A k \in DOMAIN nc.vars : y <= nc.vars[k].begin
      PROVE  /\ FileGood(file') /\ file'.exists = file.exists
             /\ XSize(file'.header) = XSize(file.header)
             /\ \A a \in 0 .. y - 1 : file'.bytes[a] = Hdr
             /\ file'.header.vars = file.header.vars /\ file'.header.att = file.header.att
             /\ file'.header = IF grows /\ "NSYNC" \in flags
                               THEN [file.header EXCEPT !.numrecs = rec + 1]
                               ELSE file.header
  BY <1>1, <1>2, <1>7, PutIs
<1>8. /\ FileGood(file') /\ file'.exists = file.exists
      /\ file'.header.vars = file.header.vars /\ file'.header.att = file.header.att
      /\ file'.header = IF grows /\ "NSYNC" \in flags
                        THEN [file.header EXCEPT !.numrecs = rec + 1]
                        ELSE file.header
  <2>1. Sound(file, file.header, 0) /\ 0 <= Size
    BY <1>3, ParametersAssumption DEF Sound
  <2> QED
    BY <1>6, <1>7, <2>1
<1>9. HdrBytes(file) => HdrBytes(file')
  <2> SUFFICES ASSUME HdrBytes(file)
               PROVE  HdrBytes(file')
    OBVIOUS
  <2>1. Sound(file, file.header, x)
    BY <1>3, <1>5 DEF HdrBytes, Sound
  <2>2. XSize(file'.header) = x /\ \A a \in 0 .. x - 1 : file'.bytes[a] = Hdr
    BY <1>5, <1>6, <1>7, <2>1
  <2> QED
    BY <2>2 DEF HdrBytes
<1>10. PICK g : g = nc' /\ g = IF grows THEN [nc EXCEPT !.numrecs = rec + 1] ELSE nc
  BY <1>2
<1>11. /\ g \in Infos /\ g.vars = nc.vars /\ g.att = nc.att /\ g.recsize = nc.recsize
       /\ g.begin_var = nc.begin_var /\ g.begin_rec = nc.begin_rec
       /\ g.numrecs = IF grows THEN rec + 1 ELSE nc.numrecs
  BY <1>3, <1>4, <1>10 DEF Infos
<1>12. InfoGood(g) /\ g # None
  <2>1. HeaderOK(g)
    BY <1>3, <1>4, <1>11 DEF HeaderOK
  <2> QED
    BY <1>3, <1>11, <2>1, InfosAre DEF InfoGood
<1>13. Settled(g)
  <2>1. g.att <= nc.att
    BY <1>3, <1>11, InfosAre
  <2>2. LaidOut(g) /\ XSize(g) = XSize(nc)
    BY <1>3, <1>11, <2>1, LaidShrunk DEF XSize
  <2>3. \A k : End(g, k) = End(nc, k)
    BY <1>11 DEF End
  <2> QED
    BY <1>3, <1>11, <2>2, <2>3 DEF Settled, Sized
<1>14. Parts'
  BY <1>2, <1>3, <1>8, <1>10, <1>12 DEF IInv, Parts
<1>15. Modes'
  BY <1>2, <1>3, <1>8, <1>10, <1>12 DEF IInv, Modes
<1>16. Layout'
  BY <1>2, <1>3, <1>10, <1>13 DEF Layout
<1>17. Matches'
  <2>1. file'.header.numrecs = IF grows /\ "NSYNC" \in flags THEN rec + 1
                               ELSE file.header.numrecs
    BY <1>3, <1>8 DEF Headers
  <2> QED
    BY <1>2, <1>3, <1>8, <1>10, <1>11, <2>1 DEF Matches
<1> QED
  BY <1>2, <1>3, <1>9, <1>14, <1>15, <1>16, <1>17 DEF IInv

(* Every step keeps the invariant.                                         *)
LEMMA IInvInductive ==
  ASSUME IInv, [Next]_vars
  PROVE  IInv'
<1>1. CASE \E share \in Shared : NC3_create(share) \/ NC3_open(share)
  BY <1>1, CreateKeeps, OpenKeeps
<1>2. CASE NC3_redef \/ NC3_sync \/ NC3_close \/ NC3_abort
  BY <1>2, RedefKeeps, SyncKeeps, CloseKeeps, AbortKeeps
<1>3. CASE \E r \in Reserves : NC3__enddef(r) \/ NC3__enddef_fails(r)
  BY <1>3, EnddefKeeps, FailsKeeps
<1>4. CASE \E shape \in Shapes : NC3_def_var(shape)
  BY <1>4, DefVarKeeps
<1>5. CASE \E size \in AttSizes : NC3_put_att(size)
  BY <1>5, PutAttKeeps
<1>6. CASE \E i \in 1 .. MaxVars, rec \in 0 .. MaxRecs - 1, v \in Values :
             NC3_put_vara(i, rec, v)
  BY <1>6, PutVaraKeeps
<1>7. CASE UNCHANGED vars
  BY <1>7 DEF vars, IInv, Parts, Modes, Layout, Matches
<1> QED
  BY <1>1, <1>2, <1>3, <1>4, <1>5, <1>6, <1>7 DEF Next

(* The invariant that the properties follow from: the parts are good, the  *)
(* variables of what is outside define mode are laid out, and so are those *)
(* of the header in the file, which says what the NC3_INFO says but for    *)
(* what the dirty flags tell.                                              *)
THEOREM Invariant == Spec => []IInv
<1>1. IInv /\ [Next]_vars => IInv'
  BY IInvInductive
<1> QED
  BY <1>1, InitGood, PTL DEF Spec

(* Each part of a header has the type that it has in the interface.        *)
THEOREM TypeCorrect == Spec => []TypeOK
<1>1. IInv => TypeOK
  <2> SUFFICES ASSUME IInv
               PROVE  TypeOK
    OBVIOUS
  <2>1. HeaderOK(file.header)
    BY DEF IInv, Parts, FileGood
  <2>2. \A h \in {nc, old} \ {None} :
          HeaderOK(h) /\ {h.begin_var, h.begin_rec} \subseteq 0 .. Size
    BY DEF IInv, Parts, InfoGood
  <2>3. flags \subseteq {"CREAT", "INDEF", "HDIRTY", "NDIRTY", "NSYNC"}
    BY DEF IInv, Parts
  <2>4. old # None <=> "INDEF" \in flags
    BY DEF IInv, Modes
  <2>5. ~IsOpen => flags = {}
    BY DEF IInv, Modes, IsOpen
  <2> QED
    BY <2>1, <2>2, <2>3, <2>4, <2>5 DEF TypeOK
<1> QED
  BY <1>1, Invariant, PTL

(* The header in the file and the one in memory differ in nothing but what *)
(* a dirty flag tells, and a reader of the file computes the same places.  *)
THEOREM FlagsTellAlways == Spec => []FlagsTellChanges
<1>1. IInv => FlagsTellChanges
  <2> SUFFICES ASSUME IInv, IsOpen, ~Indef
               PROVE  LET h == FromHeader(file.header) IN
                      /\ {"HDIRTY", "NDIRTY"} \cap flags = {} => h.numrecs = nc.numrecs
                      /\ "HDIRTY" \notin flags => h.att = nc.att
                      /\ h.vars = nc.vars /\ h.recsize = nc.recsize
    BY DEF FlagsTellChanges
  <2>1. nc # None /\ "CREAT" \notin flags /\ "INDEF" \notin flags
    BY DEF IsOpen, Indef
  <2>2. /\ file.header.vars = nc.vars
        /\ "HDIRTY" \notin flags => file.header.att = nc.att
        /\ "NDIRTY" \notin flags => file.header.numrecs = nc.numrecs
        /\ LaidOut(nc) /\ InfoGood(nc)
    BY <2>1 DEF IInv, Matches, Layout, Settled, Parts
  <2>3. PICK h : h = file.header /\ h \in Headers
    BY DEF IInv, Parts, FileGood, FileIs
  <2>4. /\ FromHeader(h).vars = h.vars /\ FromHeader(h).att = h.att
        /\ FromHeader(h).numrecs = h.numrecs
        /\ FromHeader(h).recsize = RecSize(h, Padded(h)[Len(h.vars)])
    BY <2>3, FromHeaderIs
  <2>5. nc.recsize = RecSize(nc, Padded(nc)[Len(nc.vars)]) /\ nc.vars \in Seq(Vars)
    BY <2>2, GoodInfo DEF LaidOut
  <2>6. RecSize(h, Padded(h)[Len(h.vars)]) = RecSize(nc, Padded(nc)[Len(nc.vars)])
    BY <2>2, <2>3, <2>5, RecSizeSame
  <2> QED
    BY <2>2, <2>3, <2>4, <2>5, <2>6
<1> QED
  BY <1>1, Invariant, PTL

(* Two values share no byte, nor does the header one with a value: the     *)
(* layout of NC_begins leaves every record that may be written its room.   *)
THEOREM LayoutAlwaysDisjoint == Spec => []LayoutDisjoint
<1>1. IInv => LayoutDisjoint
  <2> SUFFICES ASSUME IInv, IsOpen, ~Indef
               PROVE  LayoutDisjoint
    BY DEF LayoutDisjoint
  <2> DEFINE places == {p \in (DOMAIN nc.vars) \X (0 .. MaxRecs) :
                          nc.vars[p[1]].rec \/ p[2] = 0}
             Bytes(p) == {Offset(nc, p[1], p[2]) + k : k \in 0 .. nc.vars[p[1]].xlen - 1}
  <2>1. nc # None /\ "CREAT" \notin flags /\ "INDEF" \notin flags
    BY DEF IsOpen, Indef
  <2>2. LaidOut(nc) /\ nc \in Infos /\ nc.vars \in Seq(Vars) /\ XSize(nc) \in Nat
    BY <2>1, GoodInfo DEF IInv, Layout, Settled, Parts
  <2>3. DOMAIN nc.vars = 1 .. Len(nc.vars) /\ MaxRecs \in Nat
    BY <2>2, RecsIs, ParametersAssumption
  <2>4. \A p \in places :
          /\ p[1] \in 1 .. Len(nc.vars) /\ p[2] \in Nat /\ p = <<p[1], p[2]>>
          /\ nc.vars[p[1]].rec \/ p[2] = 0
    BY <2>3
  <2>5. ASSUME NEW p \in places, NEW q \in places, p # q
        PROVE  Bytes(p) \cap Bytes(q) = {}
    <3>1. <<p[1], p[2]>> # <<q[1], q[2]>>
      BY <2>4, <2>5
    <3>2. PICK i \in 1 .. Len(nc.vars) : \E m \in Nat :
            i = p[1] /\ m = p[2] /\ (nc.vars[i].rec \/ m = 0)
      BY <2>4
    <3>3. PICK m \in Nat : m = p[2] /\ (nc.vars[i].rec \/ m = 0)
      BY <3>2
    <3>4. PICK k \in 1 .. Len(nc.vars) : \E n \in Nat :
            k = q[1] /\ n = q[2] /\ (nc.vars[k].rec \/ n = 0)
      BY <2>4
    <3>5. PICK n \in Nat : n = q[2] /\ (nc.vars[k].rec \/ n = 0)
      BY <3>4
    <3>6. <<i, m>> # <<k, n>>
      BY <3>1, <3>2, <3>3, <3>4, <3>5
    <3>7. ASSUME NEW a \in 0 .. nc.vars[i].xlen - 1, NEW b \in 0 .. nc.vars[k].xlen - 1
          PROVE  Offset(nc, i, m) + a # Offset(nc, k, n) + b
      BY SMTT(60), <2>2, <3>3, <3>5, <3>6, LaidDisjoint
    <3> QED
      BY <3>2, <3>3, <3>4, <3>5, <3>7
  <2>6. ASSUME NEW p \in places, NEW a \in Bytes(p)
        PROVE  a >= XSize(nc)
    <3>1. PICK k \in 0 .. nc.vars[p[1]].xlen - 1 : a = Offset(nc, p[1], p[2]) + k
      OBVIOUS
    <3>2. /\ nc.vars[p[1]].begin \in Nat /\ nc.vars[p[1]].xlen \in Nat
          /\ XSize(nc) <= nc.vars[p[1]].begin
      BY <2>2, <2>3, <2>4, EndIs DEF LaidOut
    <3>3. /\ Offset(nc, p[1], p[2]) \in Nat
          /\ Offset(nc, p[1], p[2]) >= nc.vars[p[1]].begin
      BY <2>2, <2>4, OffsetIs
    <3> QED
      BY <2>2, <3>1, <3>2, <3>3
  <2> QED
    BY <2>5, <2>6 DEF LayoutDisjoint
<1> QED
  BY <1>1, Invariant, PTL

-----------------------------------------------------------------------------
(* The header in the file *)

(* Nothing is written over the header.                                     *)
Kept == file.exists => HdrBytes(file)

(* Every step keeps the header, one at which nc_enddef fails too.          *)
LEMMA KeptInductive ==
  ASSUME IInv, Kept, [Next]_vars
  PROVE  Kept'
<1>1. CASE \E share \in Shared : NC3_create(share)
  BY <1>1, CreateKeeps DEF Kept
<1>2. CASE \E share \in Shared : NC3_open(share)
  <2>1. old' = None /\ file' = file
    BY <1>2, OpenKeeps DEF NC3_open
  <2> QED
    BY <2>1 DEF Kept, HdrBytes
<1>3. CASE NC3_redef
  BY <1>3, RedefKeeps DEF Kept, HdrBytes
<1>4. CASE NC3_sync \/ NC3_close
  <2>1. old' = None /\ (HdrBytes(file) => HdrBytes(file)')
    BY <1>4, SyncKeeps, CloseKeeps
  <2>2. nc # None
    BY <1>4 DEF NC3_sync, NC3_close, IsOpen
  <2> QED
    BY <2>1, <2>2 DEF Kept, IInv, Modes
<1>5. CASE NC3_abort
  <2>1. old' = None /\ (file' = NoFile \/ (HdrBytes(file) => HdrBytes(file)'))
    BY <1>5, AbortKeeps
  <2>2. file.exists
    BY <1>5 DEF NC3_abort, IsOpen, IInv, Modes
  <2>3. ~NoFile.exists
    BY DEF NoFile
  <2> QED
    BY <2>1, <2>2, <2>3 DEF Kept
<1>6. CASE \E r \in Reserves : NC3__enddef(r)
  BY <1>6, EnddefKeeps DEF Kept
<1>7. CASE \E r \in Reserves : NC3__enddef_fails(r)
  <2>1. file.exists
    BY <1>7 DEF NC3__enddef_fails, Endable, Indef, IInv, Modes
  <2>2. HdrBytes(file')
    BY <1>7, <2>1, FailsKeeps DEF Kept
  <2> QED
    BY <2>2 DEF Kept, HdrBytes
<1>8. CASE \E shape \in Shapes : NC3_def_var(shape)
  BY <1>8, DefVarKeeps DEF Kept, HdrBytes
<1>9. CASE \E size \in AttSizes : NC3_put_att(size)
  BY <1>9, PutAttKeeps DEF Kept, HdrBytes
<1>10. CASE \E i \in 1 .. MaxVars, rec \in 0 .. MaxRecs - 1, v \in Values :
              NC3_put_vara(i, rec, v)
  <2>1. old' = None /\ (HdrBytes(file) => HdrBytes(file)')
    BY <1>10, PutVaraKeeps
  <2>2. file.exists
    BY <1>10 DEF NC3_put_vara, IsOpen, IInv, Modes
  <2> QED
    BY <2>1, <2>2 DEF Kept
<1>11. CASE UNCHANGED vars
  BY <1>11 DEF vars, Kept, HdrBytes
<1> QED
  BY <1>1, <1>2, <1>3, <1>4, <1>5, <1>6, <1>7, <1>8, <1>9, <1>10, <1>11 DEF Next

(* Whatever a client does, and wherever nc_enddef fails, what the file     *)
(* holds as its header is one that nc_open accepts.                        *)
THEOREM AlwaysReadable == Spec => [](file # NoFile => Readable(file.header))
<1>1. IInv => (file # NoFile => Readable(file.header))
  BY ReadGood, LaidReadable DEF IInv, Parts, Settled, FileGood, FileIs
<1> QED
  BY <1>1, Invariant, PTL

(* The header also lies where no data was written, wherever nc_enddef      *)
(* fails and however often it is called again.                             *)
THEOREM HeaderAlwaysReadable == Spec => []HeaderReadable
<1>1. Init => Kept
  BY DEF Init, Kept, NoFile
<1>2. IInv /\ Kept /\ [Next]_vars => Kept'
  BY KeptInductive
<1>3. IInv /\ Kept => HeaderReadable
  <2> SUFFICES ASSUME IInv, Kept, file # NoFile
               PROVE  /\ Readable(file.header)
                      /\ \A a \in 0 .. XSize(file.header) - 1 : file.bytes[a] = Hdr
    BY DEF HeaderReadable
  <2>1. Readable(file.header)
    BY ReadGood, LaidReadable DEF IInv, Parts, Settled, FileGood, FileIs
  <2> QED
    BY <2>1 DEF IInv, Parts, Kept, HdrBytes
<1> QED
  BY <1>1, <1>2, <1>3, Invariant, PTL DEF Spec

-----------------------------------------------------------------------------
(* Assertions *)

(* More variables make no smaller record.                                  *)
LEMMA RecordsGrow ==
  ASSUME NEW h \in Infos, LaidOut(h), NEW g \in Infos, LaidOut(g), Extends(h, g),
         Recs(h) # {}
  PROVE  h.recsize <= g.recsize
<1>1. h.vars \in Seq(Vars) /\ g.vars \in Seq(Vars)
  BY InfosAre
<1>2. PICK m \in Nat : m = Len(h.vars)
  BY <1>1, RecsIs
<1>3. PICK n \in Nat : n = Len(g.vars) /\ m <= n
  BY <1>1, <1>2, RecsIs DEF Extends
<1>4. \A i \in 1 .. m : g.vars[i].rec = h.vars[i].rec /\ g.vars[i].xlen = h.vars[i].xlen
  BY <1>2 DEF Extends
<1>5. PICK p \in Nat : p = Padded(h)[m] /\ p = Padded(g)[m]
  <2>1. Padded(h)[m] = Padded(g)[m]
    BY SMTT(60), <1>1, <1>2, <1>3, <1>4, PaddedSame
  <2>2. m \in 0 .. Len(h.vars)
    BY <1>2
  <2>3. Padded(h)[m] \in Nat
    BY <1>1, <2>2, PaddedIs
  <2> QED
    BY <2>1, <2>3
<1>6. PICK q \in Nat : q = Padded(g)[n]
  BY <1>1, <1>3, PaddedIs
<1>7. p <= q
  BY <1>1, <1>2, <1>3, <1>5, <1>6, PaddedGrows
<1>8. h.recsize = RecSize(h, p) /\ g.recsize = RecSize(g, q)
  BY <1>2, <1>3, <1>5, <1>6 DEF LaidOut
<1>9. Recs(h) \subseteq 1 .. m /\ Recs(h) \subseteq Recs(g)
  <2>1. Recs(h) \subseteq 1 .. m /\ \A i \in Recs(h) : h.vars[i].rec
    BY <1>1, <1>2, RecsIs
  <2>2. DOMAIN g.vars = 1 .. n
    BY <1>1, <1>3, RecsIs
  <2> QED
    BY <1>3, <1>4, <2>1, <2>2 DEF Recs
<1>10. PICK i \in 1 .. m : i \in Recs(h) /\ i \in Recs(g)
  BY <1>9
<1>11. PICK x \in Nat : x = h.vars[i].xlen /\ x = g.vars[i].xlen
  BY <1>1, <1>2, <1>4, EndIs
<1>12. x <= q
  <2>1. PICK y \in Nat : y = VarLen(g.vars[i]) /\ x <= y
    BY SMTT(60), <1>1, <1>3, <1>11, EndIs
  <2>2. i - 1 \in 0 .. n /\ n \in 0 .. n /\ i <= n
    BY <1>3
  <2>3. Padded(g)[i - 1] + y <= q /\ Padded(g)[i - 1] \in Nat
    BY <1>1, <1>3, <1>6, <1>10, <2>1, <2>2, PaddedGrows, PaddedIs
  <2> QED
    BY <2>1, <2>3
<1>13. \/ Recs(h) = {i} /\ RecSize(h, p) = x
       \/ Recs(h) # {i} /\ RecSize(h, p) = p
  BY <1>1, <1>10, <1>11, RecSizeIs
<1>14. \/ Recs(g) = {i} /\ RecSize(g, q) = x
       \/ Recs(g) # {i} /\ RecSize(g, q) = q
  BY <1>1, <1>10, <1>11, RecSizeIs
<1>15. Recs(g) = {i} => Recs(h) = {i}
  BY <1>9, <1>10
<1> QED
  BY <1>7, <1>8, <1>12, <1>13, <1>14, <1>15

(* Where a section begins that has been placed before: not before that, as *)
(* long as no alignment is asked for.                                      *)
LEMMA RecordsStayBehind ==
  ASSUME IInv, old # None, NEW r \in Reserves, r.r_align = 1
  PROVE  NC_begins(r).begin_rec >= old.begin_rec
<1>1. nc # None /\ nc \in Infos /\ old \in Infos
  BY GoodInfo DEF IInv, Parts, Modes
<1>2. CASE nc.vars = <<>>
  <2>1. NC_begins(r) = nc
    BY <1>2 DEF NC_begins
  <2> QED
    BY <2>1 DEF IInv, Layout
<1>3. CASE nc.vars # <<>>
  BY <1>1, <1>3, BeginsIs
<1> QED
  BY <1>2, <1>3

(* What NC_endef asserts of the places that NC_begins finds.               *)
LEMMA EnddefAsserted ==
  ASSUME IInv, nc # None, NEW r \in Reserves, r.r_align = 1
  PROVE  NC_check_voffs(NC_begins(r)) /\ Asserted(NC_begins(r))
<1>1. PICK new : new = NC_begins(r)
  OBVIOUS
<1>2. new.begin_rec >= old.begin_rec \/ old = None
  BY <1>1, RecordsStayBehind
<1>3. /\ new \in Infos /\ LaidOut(new)
      /\ \A i \in DOMAIN old.vars : /\ i \in DOMAIN new.vars
                                    /\ new.vars[i].begin >= old.vars[i].begin
      /\ old # None => /\ Extends(old, new) /\ new.begin_var >= old.begin_var
                       /\ new.begin_rec >= old.begin_rec
  BY <1>1, <1>2, EnddefIs
<1>4. NC_check_voffs(new)
  BY <1>3, LaidChecked
<1>5. ASSUME old # None, NEW i \in Recs(old), NEW rec \in 0 .. old.numrecs - 1
      PROVE  Offset(new, i, rec) >= Offset(old, i, rec)
  <2>1. old \in Infos /\ LaidOut(old) /\ old.vars \in Seq(Vars) /\ new.vars \in Seq(Vars)
    BY <1>3, <1>5, GoodInfo, InfosAre DEF IInv, Parts, Layout, Settled
  <2>2. /\ i \in 1 .. Len(old.vars) /\ i \in 1 .. Len(new.vars)
        /\ old.vars[i].rec /\ i \in DOMAIN old.vars
    BY <1>3, <1>5, <2>1, RecsIs
  <2>3. new.vars[i].rec
    BY <1>3, <1>5, <2>2 DEF Extends
  <2>4. rec \in Nat
    BY <1>5, <2>1, InfosAre
  <2>5. PICK a \in Nat : a = old.vars[i].begin
    BY <2>1, <2>2, EndIs
  <2>6. PICK b \in Nat : b = new.vars[i].begin /\ a <= b
    BY <1>3, <2>1, <2>2, <2>5, EndIs
  <2>7. PICK s \in Nat : s = old.recsize
    BY <2>1, InfosAre
  <2>8. PICK t \in Nat : t = new.recsize /\ s <= t
    BY <1>3, <1>5, <2>1, <2>7, RecordsGrow, InfosAre
  <2>9. s * rec \in Nat /\ t * rec \in Nat /\ s * rec <= t * rec
    BY <2>4, <2>7, <2>8, ProductGrows
  <2>10. Offset(old, i, rec) = a + s * rec /\ Offset(new, i, rec) = b + t * rec
    BY <1>3, <2>1, <2>2, <2>3, <2>4, <2>5, <2>6, <2>7, <2>8, OffsetIs
  <2> QED
    BY <2>5, <2>6, <2>9, <2>10
<1> QED
  BY <1>1, <1>3, <1>4, <1>5 DEF Asserted

(* Whenever a client may call nc_enddef, the places that NC_begins finds   *)
(* pass NC_check_voffs and the assertions of NC_endef, unless the records  *)
(* are aligned: with r_align the assertion on begin_rec may fail.          *)
THEOREM AssertionsAlwaysHold ==
  ASSUME \A r \in Reserves : r.r_align = 1
  PROVE  Spec => []AssertionsHold
<1>1. IInv => AssertionsHold
  <2> SUFFICES ASSUME IInv, Indef, NEW r \in Reserves
               PROVE  NC_check_voffs(NC_begins(r)) /\ Asserted(NC_begins(r))
    BY DEF AssertionsHold
  <2>1. nc # None
    BY DEF Indef, IInv, Modes
  <2> QED
    BY <2>1, EnddefAsserted
<1> QED
  BY <1>1, Invariant, PTL

-----------------------------------------------------------------------------
(* nc_abort *)

(* What a client that is not to lose anything may rely on: it calls        *)
(* nc_redef when everything is in the file, and nc_enddef fails before it  *)
(* has moved or written anything.                                          *)
Undone ==
  /\ ~Unsynced
  /\ \A f \in FailAt : f.op \in {"move_recs_r", "write_NC"} /\ f.done = 0

Restorable == old # None => file.header = Header(old)

(* An nc_enddef that fails at its first step changes nothing.              *)
LEMMA FailsEarly ==
  ASSUME IInv, Undone, NEW r \in Reserves, NC3__enddef_fails(r)
  PROVE  file' = file /\ UNCHANGED <<old, flags>>
<1>1. PICK new : new = NC_begins(r)
  OBVIOUS
<1>2. PICK at \in FailAt : /\ Steps(new)[at.done + 1].op = at.op
                           /\ file' = Done(new, Before(Steps(new), at.done))
  BY <1>1 DEF NC3__enddef_fails
<1>3. at.done = 0 /\ at.op # "move_vars_r"
  BY DEF Undone
<1>4. Steps(new)[0 + 1].op # "move_vars_r"
  BY <1>2, <1>3
<1>5. Before(Steps(new), 0) = SubSeq(Steps(new), 1, 0) \o <<>>
  BY <1>4 DEF Before
<1>6. Before(Steps(new), 0) = <<>>
  BY <1>5
<1>7. file' = file
  BY <1>2, <1>3, <1>6, DoneNothing
<1> QED
  BY <1>7 DEF NC3__enddef_fails

(* As long as define mode lasts the file has the header that nc_redef      *)
(* found.                                                                  *)
LEMMA RestorableInductive ==
  ASSUME IInv, Restorable, [Next]_vars, Undone
  PROVE  Restorable'
<1>1. CASE \E share \in Shared : NC3_create(share) \/ NC3_open(share)
  BY <1>1, CreateKeeps, OpenKeeps DEF Restorable
<1>2. CASE NC3_redef
  <2>1. PICK g : /\ g = IF "NSYNC" \in flags THEN FromHeader(file.header) ELSE nc
                 /\ old' = g /\ file' = file
    BY <1>2 DEF NC3_redef
  <2>2. /\ nc # None /\ "CREAT" \notin flags /\ "INDEF" \notin flags
        /\ "HDIRTY" \notin flags /\ "NDIRTY" \notin flags
    BY <1>2 DEF NC3_redef, IsOpen, Indef, Undone
  <2>3. file.header \in Headers
    BY DEF IInv, Parts, FileGood, FileIs
  <2>4. /\ g.vars = file.header.vars /\ g.att = file.header.att
        /\ g.numrecs = file.header.numrecs
    BY <2>1, <2>2, <2>3, FromHeaderIs DEF IInv, Matches
  <2>5. file.header = Header(g)
    BY <2>3, <2>4 DEF Header, Headers
  <2> QED
    BY <2>1, <2>5 DEF Restorable
<1>3. CASE NC3_sync \/ NC3_close \/ NC3_abort
  BY <1>3, SyncKeeps, CloseKeeps, AbortKeeps DEF Restorable
<1>4. CASE \E r \in Reserves : NC3__enddef(r)
  BY <1>4, EnddefKeeps DEF Restorable
<1>5. CASE \E r \in Reserves : NC3__enddef_fails(r)
  BY <1>5, FailsEarly DEF Restorable
<1>6. CASE \E shape \in Shapes : NC3_def_var(shape)
  BY <1>6, DefVarKeeps DEF Restorable
<1>7. CASE \E size \in AttSizes : NC3_put_att(size)
  BY <1>7, PutAttKeeps DEF Restorable
<1>8. CASE \E i \in 1 .. MaxVars, rec \in 0 .. MaxRecs - 1, v \in Values :
             NC3_put_vara(i, rec, v)
  BY <1>8, PutVaraKeeps DEF Restorable
<1>9. CASE UNCHANGED vars
  BY <1>9 DEF vars, Restorable
<1> QED
  BY <1>1, <1>2, <1>3, <1>4, <1>5, <1>6, <1>7, <1>8, <1>9 DEF Next

(* A header that was written is read as the NC3_INFO it was written from,  *)
(* as far as the meaning of the dataset goes.                              *)
LEMMA HeaderMeans ==
  ASSUME NEW g \in Infos, LaidOut(g)
  PROVE  Meaning(FromHeader(Header(g))) = Meaning(g)
<1>1. PICK h : h = Header(g) /\ h \in Headers
  BY HeaderIs
<1>2. h.vars = g.vars /\ h.att = g.att /\ h.numrecs = g.numrecs /\ g.vars \in Seq(Vars)
  BY <1>1, HeaderIs, InfosAre
<1>3. PICK k : k = FromHeader(h)
  OBVIOUS
<1>4. /\ k.vars = g.vars /\ k.att = g.att /\ k.numrecs = g.numrecs
      /\ k.recsize = RecSize(h, Padded(h)[Len(h.vars)])
  BY <1>1, <1>2, <1>3, FromHeaderIs
<1>5. RecSize(h, Padded(h)[Len(h.vars)]) = RecSize(g, Padded(g)[Len(g.vars)])
  BY <1>2, RecSizeSame
<1>6. k.recsize = g.recsize
  BY <1>4, <1>5 DEF LaidOut
<1>7. \A i, rec : Offset(k, i, rec) = Offset(g, i, rec)
  BY <1>4, <1>6 DEF Offset
<1>8. Meaning(k) = Meaning(g)
  BY <1>4, <1>7 DEF Meaning
<1> QED
  BY <1>1, <1>3, <1>8

(* What define mode changes is undone: as long as it lasts the dataset is  *)
(* what it was, and nc_abort leaves it so.                                 *)
LEMMA StepRestores ==
  ASSUME IInv, Restorable, Undone, [Next]_vars,
         old # None, old' # None \/ NC3_abort
  PROVE  Dataset' = Dataset
<1>1. /\ nc # None /\ "INDEF" \in flags /\ "CREAT" \notin flags
      /\ file.exists /\ old \in Infos /\ LaidOut(old)
  BY GoodInfo DEF IInv, Modes, Parts, Layout, Settled
<1>2. ~NoFile.exists
  BY DEF NoFile
<1>3. Dataset = Meaning(old)
  BY <1>1, <1>2 DEF Dataset, Valid
<1>4. CASE NC3_abort
  <2>1. file' = file /\ old' = None /\ nc' = None /\ flags' = {}
    BY <1>1, <1>4 DEF NC3_abort, Indef
  <2>2. Dataset' = Meaning(FromHeader(file.header))'
    BY <1>1, <1>2, <2>1 DEF Dataset, Valid, IsOpen
  <2>3. Meaning(FromHeader(file.header))' = Meaning(FromHeader(file.header))
    BY <2>1 DEF Meaning, ValueAt
  <2>4. Meaning(FromHeader(file.header)) = Meaning(old)
    BY <1>1, HeaderMeans DEF Restorable
  <2> QED
    BY <1>3, <2>2, <2>3, <2>4
<1>5. ASSUME file' = file, old' = old, flags' = flags \/ "CREAT" \notin flags'
      PROVE  Dataset' = Dataset
  <2>1. Dataset' = Meaning(old)'
    BY <1>1, <1>2, <1>5 DEF Dataset, Valid
  <2>2. Meaning(old)' = Meaning(old)
    BY <1>5 DEF Meaning, ValueAt
  <2> QED
    BY <1>3, <2>1, <2>2
<1>6. CASE old' # None
  <2>1. CASE \E r \in Reserves : NC3__enddef_fails(r)
    BY <1>5, <2>1, FailsEarly
  <2>2. CASE \E shape \in Shapes : NC3_def_var(shape)
    BY <1>5, <2>2, DefVarKeeps
  <2>3. CASE \E size \in AttSizes : NC3_put_att(size)
    BY <1>1, <1>5, <2>3, PutAttKeeps
  <2>4. CASE UNCHANGED vars
    BY <1>5, <2>4 DEF vars
  <2>5. ~NC3_redef
    BY <1>1 DEF NC3_redef, Indef
  <2>6. \A share \in Shared : ~NC3_create(share) /\ ~NC3_open(share)
    BY <1>6, CreateKeeps, OpenKeeps
  <2>7. ~NC3_sync /\ ~NC3_close /\ ~NC3_abort /\ \A r \in Reserves : ~NC3__enddef(r)
    BY <1>6, SyncKeeps, CloseKeeps, AbortKeeps, EnddefKeeps
  <2>8. \A i \in 1 .. MaxVars, rec \in 0 .. MaxRecs - 1, v \in Values :
          ~NC3_put_vara(i, rec, v)
    BY <1>6, PutVaraKeeps
  <2> QED
    BY <2>1, <2>2, <2>3, <2>4, <2>5, <2>6, <2>7, <2>8 DEF Next
<1> QED
  BY <1>4, <1>6

(* nc_abort restores a dataset, also after an nc_enddef that failed at its *)
(* first step, if no change was pending when define mode was entered.      *)
THEOREM AbortAlwaysRestores ==
  ASSUME Undone
  PROVE  Spec => AbortRestores
<1>1. Init => Restorable
  BY DEF Init, Restorable
<1>2. IInv /\ Restorable /\ [Next]_vars => Restorable'
  BY RestorableInductive
<1>3. IInv /\ Restorable /\ [Next]_vars =>
        [old # None /\ (old' # None \/ NC3_abort) => Dataset' = Dataset]_vars
  BY StepRestores
<1> QED
  BY <1>1, <1>2, <1>3, Invariant, PTL DEF Spec, AbortRestores

-----------------------------------------------------------------------------
(* What nc_enddef moves *)

Disjoint(a, m, b, n) == a + m <= b \/ b + n <= a

(* No move destroys what a later one moves, nor what an earlier one has    *)
(* moved, or it writes there what is there.                                *)
Orderly(steps, n) ==
  \A l \in 1 .. n, k \in 1 .. n : l < k =>
    /\ Disjoint(steps[k].from, steps[k].len, steps[l].to, steps[l].len)
    /\ \/ Disjoint(steps[k].to, steps[k].len, steps[l].to, steps[l].len)
       \/ steps[k].to + steps[l].from = steps[l].to + steps[k].from

(* The first n steps move something, within the file.                      *)
Moving(steps, n) ==
  \A l \in 1 .. n : /\ steps[l].op \in {"move_recs_r", "move_vars_r"}
                    /\ steps[l].to \in Nat /\ steps[l].from \in Nat /\ steps[l].len \in Nat
                    /\ steps[l].from <= steps[l].to
                    /\ steps[l].to + steps[l].len <= Size

(* What the first k steps leave alone, and what they move.                 *)
Untouched(f, g, steps, k) ==
  \A a \in Addr : (\A l \in 1 .. k : a < steps[l].to \/ steps[l].to + steps[l].len <= a)
                    => g.bytes[a] = f.bytes[a]
Arrived(f, g, steps, k) ==
  \A l \in 1 .. k, b \in Nat :
    b < steps[l].len => g.bytes[steps[l].to + b] = f.bytes[steps[l].from + b]

(* One more move after k - 1 orderly ones.                                 *)
LEMMA MoveDoes ==
  ASSUME NEW f, NEW g, FileIs(g), NEW n \in Nat, NEW steps,
         Moving(steps, n), Orderly(steps, n), NEW k \in 1 .. n,
         Untouched(f, g, steps, k - 1), Arrived(f, g, steps, k - 1),
         NEW h, h = Moved(g, steps[k].to, steps[k].from, steps[k].len)
  PROVE  FileIs(h) /\ Untouched(f, h, steps, k) /\ Arrived(f, h, steps, k)
<1>1. \A l \in 1 .. n : /\ steps[l].to \in Nat /\ steps[l].from \in Nat /\ steps[l].len \in Nat
                        /\ steps[l].from <= steps[l].to
                        /\ steps[l].to + steps[l].len <= Size
  BY DEF Moving
<1>2. PICK to \in Nat, from \in Nat, len \in Nat :
        to = steps[k].to /\ from = steps[k].from /\ len = steps[k].len
  BY <1>1
<1>3. from <= to /\ to + len <= Size
  BY <1>1, <1>2
<1>4. h = Moved(g, to, from, len)
  BY <1>2
<1>5. Size \in Nat
  BY ParametersAssumption
<1>6. IsMove(h, g, to, from, len)
  BY <1>4, MovedIs
<1>7. ASSUME NEW b \in Nat, b < len
      PROVE  h.bytes[to + b] = g.bytes[from + b] /\ from + b \in Addr /\ to + b \in Addr
  <2>1. to + b \in Addr /\ from + b \in Addr
    BY <1>3, <1>5, <1>7 DEF Addr
  <2> QED
    BY <1>6, <1>7, <2>1 DEF IsMove
<1>8. ASSUME NEW a \in Addr, a < to \/ to + len <= a
      PROVE  h.bytes[a] = g.bytes[a]
  BY <1>6, <1>8 DEF IsMove
<1>9. ASSUME NEW b \in Nat, b < len
      PROVE  g.bytes[from + b] = f.bytes[from + b]
  <2>1. from + b \in Addr
    BY <1>7, <1>9
  <2>2. ASSUME NEW l \in 1 .. k - 1
        PROVE  from + b < steps[l].to \/ steps[l].to + steps[l].len <= from + b
    <3>1. l \in 1 .. n /\ l < k
      OBVIOUS
    <3>2. Disjoint(steps[k].from, steps[k].len, steps[l].to, steps[l].len)
      BY <3>1 DEF Orderly
    <3>3. PICK t \in Nat, m \in Nat : t = steps[l].to /\ m = steps[l].len
      BY <1>1, <3>1
    <3>4. from + len <= t \/ t + m <= from
      BY <1>2, <3>2, <3>3 DEF Disjoint
    <3>5. from + b < t \/ t + m <= from + b
      BY <1>9, <3>4
    <3> QED
      BY <3>3, <3>5
  <2> QED
    BY <2>1, <2>2 DEF Untouched
<1>10. Untouched(f, h, steps, k)
  <2> SUFFICES ASSUME NEW a \in Addr,
                      \A l \in 1 .. k : a < steps[l].to \/ steps[l].to + steps[l].len <= a
               PROVE  h.bytes[a] = f.bytes[a]
    BY DEF Untouched
  <2>1. k \in 1 .. k /\ \A l \in 1 .. k - 1 : l \in 1 .. k
    OBVIOUS
  <2>2. a < to \/ to + len <= a
    BY <1>2, <2>1
  <2>3. g.bytes[a] = f.bytes[a]
    BY <2>1 DEF Untouched
  <2> QED
    BY <1>8, <2>2, <2>3
<1>11. Arrived(f, h, steps, k)
  <2> SUFFICES ASSUME NEW l \in 1 .. k, NEW b \in Nat, b < steps[l].len
               PROVE  h.bytes[steps[l].to + b] = f.bytes[steps[l].from + b]
    BY DEF Arrived
  <2>1. CASE l = k
    <3>1. b < len
      BY <1>2, <2>1
    <3> QED
      BY <1>2, <1>7, <1>9, <2>1, <3>1
  <2>2. CASE l # k
    <3>1. l \in 1 .. k - 1 /\ l \in 1 .. n /\ l < k
      BY <2>2
    <3>2. PICK t \in Nat, e \in Nat, m \in Nat :
            t = steps[l].to /\ e = steps[l].from /\ m = steps[l].len
      BY <1>1, <3>1
    <3>3. e <= t /\ t + m <= Size /\ b < m
      BY <1>1, <3>1, <3>2
    <3>4. Disjoint(to, len, t, m) \/ to + e = t + from
      BY <1>2, <3>1, <3>2 DEF Orderly
    <3>5. g.bytes[t + b] = f.bytes[e + b]
      BY <3>1, <3>2, <3>3 DEF Arrived
    <3>6. t + b \in Addr
      BY <1>5, <3>3 DEF Addr
    <3>7. CASE t + b < to \/ to + len <= t + b
      BY <1>8, <3>2, <3>5, <3>6, <3>7
    <3>8. CASE ~(t + b < to \/ to + len <= t + b)
      <4>1. PICK c \in Nat : c < len /\ to + c = t + b
        <5>1. (t + b) - to \in Nat /\ (t + b) - to < len /\ to + ((t + b) - to) = t + b
          BY <3>8
        <5> QED
          BY <5>1
      <4>2. ~Disjoint(to, len, t, m)
        BY <3>3, <4>1 DEF Disjoint
      <4>3. from + c = e + b
        BY <3>4, <4>1, <4>2
      <4>4. h.bytes[to + c] = f.bytes[from + c]
        BY <1>7, <1>9, <4>1
      <4> QED
        BY <3>2, <4>1, <4>3, <4>4
    <3> QED
      BY <3>7, <3>8
  <2> QED
    BY <2>1, <2>2
<1> QED
  BY <1>6, <1>10, <1>11 DEF IsMove

(* The files between the first n steps.                                    *)
Through(new, steps, n, g) ==
  g[0] = file /\ \A k \in 1 .. n : g[k] = Step(new, g[k - 1], steps[k])

(* After orderly moves each has done what it was to do, and nothing else   *)
(* has changed.                                                            *)
LEMMA MovesDo ==
  ASSUME FileIs(file), NEW new, NEW n \in Nat, NEW steps,
         Moving(steps, n), Orderly(steps, n), NEW g, Through(new, steps, n, g)
  PROVE  FileIs(g[n]) /\ Untouched(file, g[n], steps, n) /\ Arrived(file, g[n], steps, n)
<1> DEFINE Good(k) == /\ FileIs(g[k]) /\ Untouched(file, g[k], steps, k)
                      /\ Arrived(file, g[k], steps, k)
<1>1. PICK T : T = {k \in Nat : k <= n => Good(k)}
  OBVIOUS
<1>2. 0 \in T
  <2>1. g[0] = file
    BY DEF Through
  <2>2. Untouched(file, file, steps, 0) /\ Arrived(file, file, steps, 0)
    BY DEF Untouched, Arrived
  <2>3. Good(0)
    BY <2>1, <2>2
  <2> QED
    BY <1>1, <2>3
<1>3. ASSUME NEW j \in Nat, j \in T
      PROVE  j + 1 \in T
  <2> SUFFICES ASSUME j + 1 <= n
               PROVE  Good(j + 1)
    BY <1>1
  <2>1. PICK k \in 1 .. n : k = j + 1 /\ k - 1 = j
    OBVIOUS
  <2>2. Good(k - 1)
    BY <1>1, <1>3, <2>1
  <2>3. g[k] = Moved(g[k - 1], steps[k].to, steps[k].from, steps[k].len)
    <3>1. steps[k].op = "move_recs_r" \/ steps[k].op = "move_vars_r"
      BY DEF Moving
    <3>2. g[k] = Step(new, g[k - 1], steps[k])
      BY DEF Through
    <3> QED
      BY <3>1, <3>2 DEF Step
  <2>4. Good(k)
    <3>1. FileIs(g[k - 1]) /\ Untouched(file, g[k - 1], steps, k - 1)
          /\ Arrived(file, g[k - 1], steps, k - 1)
      BY <2>2
    <3>2. FileIs(g[k]) /\ Untouched(file, g[k], steps, k) /\ Arrived(file, g[k], steps, k)
      BY <2>3, <3>1, MoveDoes
    <3> QED
      BY <3>2
  <2> HIDE DEF Good
  <2> QED
    BY <2>1, <2>4
<1>4. Nat \subseteq T
  BY <1>2, <1>3, EveryNatural
<1>5. Good(n)
  BY <1>1, <1>4
<1> QED
  BY <1>5

-----------------------------------------------------------------------------
(* The places of the old values *)

(* Records that are padded, because theirs is not the only variable, end   *)
(* before what is behind them begins.                                      *)
LEMMA RecordPadded ==
  ASSUME NEW h \in Infos, LaidOut(h), NEW i \in Recs(h), Recs(h) # {i}, NEW k \in Recs(h),
         NEW r \in Nat, NEW s \in Nat, r < s \/ (r = s /\ i < k)
  PROVE  Offset(h, i, r) + VarLen(h.vars[i]) <= Offset(h, k, s)
<1>1. h.vars \in Seq(Vars) /\ h.recsize \in Nat /\ h.begin_rec \in Nat
  BY InfosAre
<1>2. PICK c \in Nat : c = Len(h.vars) /\ Recs(h) \subseteq 1 .. c
  BY <1>1, RecsIs
<1>3. i \in 1 .. c /\ k \in 1 .. c /\ h.vars[i].rec /\ h.vars[k].rec
  BY <1>1, <1>2, RecsIs
<1>4. PICK p \in Nat, q \in Nat, z \in Nat :
        p = Padded(h)[i - 1] /\ q = Padded(h)[k - 1] /\ z = Padded(h)[c]
  <2>1. i - 1 \in 0 .. Len(h.vars) /\ k - 1 \in 0 .. Len(h.vars) /\ c \in 0 .. Len(h.vars)
    BY <1>2, <1>3
  <2>2. \A n \in 0 .. Len(h.vars) : Padded(h)[n] \in Nat
    BY <1>1, PaddedIs
  <2> QED
    BY <2>1, <2>2
<1>5. PICK v \in Nat : v = VarLen(h.vars[i])
  BY <1>1, <1>2, <1>3, EndIs
<1>6. i <= k - 1 => p + v <= q
  <2>1. k - 1 \in 0 .. Len(h.vars)
    BY <1>2, <1>3
  <2> QED
    BY <1>1, <1>4, <1>5, <2>1, PaddedGrows
<1>7. p + v <= z
  <2>1. c \in 0 .. Len(h.vars) /\ i <= c
    BY <1>2, <1>3
  <2> QED
    BY <1>1, <1>4, <1>5, <2>1, PaddedGrows
<1>8. h.recsize = z
  <2>1. z \in Nat /\ h.recsize = RecSize(h, z)
    BY <1>2, <1>4 DEF LaidOut
  <2> QED
    BY <1>1, <2>1, RecSizeIs
<1>9. PICK b \in Nat : b = h.begin_rec
  BY <1>1
<1>10. h.vars[i].begin = b + p /\ h.vars[k].begin = b + q
  BY <1>4, <1>9 DEF LaidOut
<1>11. PICK m \in Nat, n \in Nat : m = z * r /\ n = z * s
  OBVIOUS
<1>12. Offset(h, i, r) = (b + p) + m /\ Offset(h, k, s) = (b + q) + n
  <2>1. i \in 1 .. Len(h.vars) /\ k \in 1 .. Len(h.vars)
    BY <1>2, <1>3
  <2>2. Offset(h, i, r) = h.vars[i].begin + h.recsize * r
    BY <1>3, <2>1, OffsetIs
  <2>3. Offset(h, k, s) = h.vars[k].begin + h.recsize * s
    BY <1>3, <2>1, OffsetIs
  <2> QED
    BY <1>8, <1>10, <1>11, <2>2, <2>3
<1>13. CASE r = s /\ i < k
  <2>1. m = n /\ p + v <= q
    BY <1>3, <1>6, <1>11, <1>13
  <2>2. ((b + p) + m) + v <= (b + q) + n
    BY <2>1
  <2> QED
    BY <1>5, <1>12, <2>2
<1>14. CASE r < s
  <2>1. m + z <= n
    <3>1. r + 1 \in Nat /\ r + 1 <= s
      BY <1>14
    <3>2. z * (r + 1) <= z * s
      BY <3>1, ProductGrows
    <3>3. z * (r + 1) = z * r + z
      OBVIOUS
    <3> QED
      BY <1>11, <3>2, <3>3
  <2>2. ((b + p) + m) + v <= (b + q) + n
    BY <1>7, <2>1
  <2> QED
    BY <1>5, <1>12, <2>2
<1> QED
  BY <1>13, <1>14

(* Values of two variables are apart even with their padding.              *)
LEMMA LaidPadded ==
  ASSUME NEW h \in Infos, LaidOut(h),
         NEW i \in 1 .. Len(h.vars), NEW r \in Nat,
         NEW k \in 1 .. Len(h.vars), NEW s \in Nat, i < k
  PROVE  Disjoint(Offset(h, i, r), VarLen(h.vars[i]), Offset(h, k, s), VarLen(h.vars[k]))
<1>1. h.vars \in Seq(Vars) /\ h.begin_rec \in Nat
  BY InfosAre
<1>2. PICK c \in Nat : c = Len(h.vars) /\ DOMAIN h.vars = 1 .. c
  BY <1>1, RecsIs
<1>3. PICK b \in Nat, d \in Nat, v \in Nat, w \in Nat :
        /\ b = h.vars[i].begin /\ d = h.vars[k].begin
        /\ v = VarLen(h.vars[i]) /\ w = VarLen(h.vars[k])
  BY <1>1, EndIs
<1>4. End(h, i) = b + v /\ End(h, k) = d + w
  BY <1>3 DEF End
<1>5. PICK x \in Nat, y \in Nat : x = Offset(h, i, r) /\ y = Offset(h, k, s)
  BY OffsetIs
<1>6. /\ b <= x /\ (~h.vars[i].rec => x = b)
      /\ d <= y /\ (~h.vars[k].rec => y = d)
  BY <1>3, <1>5, OffsetIs
<1>7. PICK f \in Nat : f = h.begin_rec
  BY <1>1
<1>8. h.vars[i].rec => i \in Recs(h) /\ f <= b
  <2>1. h.vars[i].rec => i \in Recs(h)
    BY <1>2 DEF Recs
  <2> QED
    BY <1>3, <1>7, <2>1, LaidRecords
<1>9. h.vars[k].rec => k \in Recs(h) /\ f <= d
  <2>1. h.vars[k].rec => k \in Recs(h)
    BY <1>2 DEF Recs
  <2> QED
    BY <1>3, <1>7, <2>1, LaidRecords
<1>10. ~h.vars[i].rec => i \in Fixed(h) /\ b + v <= f
  <2>1. ~h.vars[i].rec => i \in Fixed(h)
    BY <1>2 DEF Recs, Fixed
  <2> QED
    BY <1>4, <1>7, <2>1 DEF LaidOut
<1>11. ~h.vars[k].rec => k \in Fixed(h) /\ d + w <= f
  <2>1. ~h.vars[k].rec => k \in Fixed(h)
    BY <1>2 DEF Recs, Fixed
  <2> QED
    BY <1>4, <1>7, <2>1 DEF LaidOut
<1>12. x + v <= y \/ y + w <= x
  <2>1. CASE h.vars[i].rec /\ h.vars[k].rec
    <3>1. i \in Recs(h) /\ k \in Recs(h) /\ Recs(h) # {i} /\ Recs(h) # {k}
      BY <1>8, <1>9, <2>1
    <3>2. CASE r <= s
      <4>1. r < s \/ (r = s /\ i < k)
        BY <3>2
      <4> QED
        BY <1>3, <1>5, <3>1, <4>1, RecordPadded
    <3>3. CASE s < r
      BY <1>3, <1>5, <3>1, <3>3, RecordPadded
    <3> QED
      BY <3>2, <3>3
  <2>2. CASE ~h.vars[i].rec /\ ~h.vars[k].rec
    <3>1. b + v <= d
      BY <1>3, <1>4, <1>10, <1>11, <2>2 DEF LaidOut
    <3> QED
      BY <1>6, <2>2, <3>1
  <2>3. CASE ~h.vars[i].rec /\ h.vars[k].rec
    BY <1>6, <1>9, <1>10, <2>3
  <2>4. CASE h.vars[i].rec /\ ~h.vars[k].rec
    BY <1>6, <1>8, <1>11, <2>4
  <2> QED
    BY <2>1, <2>2, <2>3, <2>4
<1> QED
  BY <1>3, <1>5, <1>12 DEF Disjoint

(* Sizes and places that are padded.                                       *)
Multiple(n) == \E k \in Nat : n = k * Align

(* Rounding up ends at the next multiple.                                  *)
LEMMA RndUpNext ==
  ASSUME NEW n \in Nat, NEW align \in Nat \ {0}
  PROVE  \E q \in Nat : RndUp(n, align) = q * align /\ q * align < n + align
<1>1. PICK m \in Nat : m = n + align - 1
  OBVIOUS
<1>2. PICK q \in Nat : q = m \div align
  OBVIOUS
<1>3. PICK r \in 0 .. align - 1 : r = m % align
  OBVIOUS
<1>4. m = align * q + r
  BY <1>2, <1>3
<1>5. PICK p \in Nat : p = q * align /\ p = align * q
  OBVIOUS
<1>6. p < n + align
  BY <1>1, <1>3, <1>4, <1>5
<1>7. RndUp(n, align) = p
  BY <1>1, <1>2, <1>5 DEF RndUp
<1> QED
  BY <1>5, <1>6, <1>7

(* Between two multiples there is room for what is padded.                 *)
LEMMA MultiplesApart ==
  ASSUME NEW m \in Nat, Multiple(m), NEW n \in Nat, Multiple(n), m < n
  PROVE  m + Align <= n
<1>1. PICK j \in Nat, k \in Nat : m = j * Align /\ n = k * Align
  BY DEF Multiple
<1>2. PICK a \in Nat : a = Align /\ a > 0
  BY ParametersAssumption
<1>3. j + 1 <= k
  <2>1. SUFFICES ASSUME k <= j
                 PROVE  FALSE
    BY <1>1
  <2>2. k * a <= j * a
    BY <1>2, <2>1, ProductGrows
  <2> QED
    BY <1>1, <1>2, <2>2
<1>4. (j + 1) * a <= k * a
  BY <1>2, <1>3, ProductGrows
<1>5. (j + 1) * a = j * a + a
  OBVIOUS
<1> QED
  BY <1>1, <1>2, <1>4, <1>5

(* The places of the values of h: records, and fixed variables.            *)
Places(h) == ({0} \X Fixed(h)) \cup ((0 .. h.numrecs - 1) \X Recs(h))

(* The layout g is one to which nc_enddef may move the values of h.        *)
Later(h, g) ==
  /\ h \in Infos /\ LaidOut(h) /\ g \in Infos /\ LaidOut(g) /\ Extends(h, g)
  /\ Multiple(h.begin_rec) /\ Multiple(g.begin_rec)
  /\ h.begin_rec <= g.begin_rec
  /\ \A p \in Places(h) : Offset(h, p[2], p[1]) <= Offset(g, p[2], p[1])

(* When p is moved the bytes of q, which is moved later, stay, and they    *)
(* are not put on those of p.                                              *)
Safe(h, g, p, q) ==
  /\ Disjoint(Offset(h, q[2], q[1]), VarLen(h.vars[q[2]]),
              Offset(g, p[2], p[1]), VarLen(h.vars[p[2]]))
  /\ \/ Disjoint(Offset(g, q[2], q[1]), VarLen(h.vars[q[2]]),
                 Offset(g, p[2], p[1]), VarLen(h.vars[p[2]]))
     \/ Offset(g, q[2], q[1]) + Offset(h, p[2], p[1])
          = Offset(g, p[2], p[1]) + Offset(h, q[2], q[1])

(* A place in both layouts.                                                *)
LEMMA PlaceIs ==
  ASSUME NEW h, NEW g, Later(h, g), NEW p \in Places(h)
  PROVE  /\ p[2] \in 1 .. Len(h.vars) /\ p[2] \in 1 .. Len(g.vars) /\ p[1] \in Nat
         /\ p[2] \in Recs(h) => p[2] \in Recs(g)
         /\ p[2] \notin Recs(h) => p[2] \in Fixed(h) /\ p[2] \in Fixed(g) /\ p[1] = 0
         /\ VarLen(h.vars[p[2]]) = VarLen(g.vars[p[2]])
         /\ h.vars[p[2]].xlen = g.vars[p[2]].xlen
         /\ Offset(h, p[2], p[1]) \in Nat /\ Offset(g, p[2], p[1]) \in Nat
         /\ Offset(h, p[2], p[1]) <= Offset(g, p[2], p[1])
         /\ VarLen(h.vars[p[2]]) \in Nat
<1>1. /\ h \in Infos /\ g \in Infos /\ Extends(h, g)
      /\ h.vars \in Seq(Vars) /\ g.vars \in Seq(Vars) /\ h.numrecs \in Nat
  BY InfosAre DEF Later
<1>2. PICK c \in Nat, d \in Nat : /\ c = Len(h.vars) /\ DOMAIN h.vars = 1 .. c
                                  /\ d = Len(g.vars) /\ DOMAIN g.vars = 1 .. d
  BY <1>1, RecsIs
<1>3. /\ c <= d
      /\ \A i \in 1 .. c : g.vars[i].rec = h.vars[i].rec /\ g.vars[i].xlen = h.vars[i].xlen
  BY <1>1, <1>2 DEF Extends
<1>4. PICK r, i : r = p[1] /\ i = p[2]
  OBVIOUS
<1>5. (r = 0 /\ i \in Fixed(h)) \/ (r \in 0 .. h.numrecs - 1 /\ i \in Recs(h))
  BY <1>4 DEF Places
<1>6. i \in 1 .. c /\ i \in 1 .. d /\ r \in Nat
  BY <1>1, <1>2, <1>3, <1>5 DEF Recs, Fixed
<1>7. /\ i \in Recs(h) => i \in Recs(g)
      /\ i \notin Recs(h) => i \in Fixed(h) /\ i \in Fixed(g) /\ r = 0
  BY <1>2, <1>3, <1>5, <1>6 DEF Recs, Fixed
<1>8. h.vars[i].xlen = g.vars[i].xlen /\ VarLen(h.vars[i]) = VarLen(g.vars[i])
  BY <1>3, <1>6 DEF VarLen
<1>9. Offset(h, i, r) \in Nat /\ Offset(g, i, r) \in Nat
  BY <1>1, <1>2, <1>6, OffsetIs
<1>10. VarLen(h.vars[i]) \in Nat
  BY <1>1, <1>2, <1>6, EndIs
<1>11. Offset(h, i, r) <= Offset(g, i, r)
  BY <1>4 DEF Later
<1> QED
  BY <1>2, <1>4, <1>6, <1>7, <1>8, <1>9, <1>10, <1>11

(* The only record variable that there is moves as a whole, and not at all *)
(* or further than its records are shorter than with padding.              *)
Shifted(h, g, k, b, d, x) ==
  /\ d = 0 \/ VarLen(h.vars[k]) <= d + x
  /\ \A r \in Nat : Offset(h, k, r) = b + x * r /\ Offset(g, k, r) = (b + d) + x * r

LEMMA OneRecord ==
  ASSUME NEW h, NEW g, Later(h, g), NEW k \in Recs(h), Recs(g) = {k}
  PROVE  \E b \in Nat, d \in Nat, x \in Nat : Shifted(h, g, k, b, d, x)
<1>1. /\ h \in Infos /\ LaidOut(h) /\ g \in Infos /\ LaidOut(g) /\ Extends(h, g)
      /\ h.vars \in Seq(Vars) /\ g.vars \in Seq(Vars)
      /\ h.begin_rec \in Nat /\ g.begin_rec \in Nat
  BY InfosAre DEF Later
<1>2. PICK c \in Nat, n \in Nat : /\ c = Len(h.vars) /\ DOMAIN h.vars = 1 .. c
                                  /\ n = Len(g.vars) /\ DOMAIN g.vars = 1 .. n
                                  /\ Recs(h) \subseteq 1 .. c /\ Recs(g) \subseteq 1 .. n
  BY <1>1, RecsIs
<1>3. /\ c <= n
      /\ \A i \in 1 .. c : g.vars[i].rec = h.vars[i].rec /\ g.vars[i].xlen = h.vars[i].xlen
  BY <1>1, <1>2 DEF Extends
<1>4. k \in 1 .. c /\ k \in 1 .. n /\ h.vars[k].rec /\ g.vars[k].rec
  BY <1>1, <1>2, <1>3, RecsIs
<1>5. Recs(h) = {k}
  <2>1. \A i \in Recs(h) : i \in Recs(g)
    BY <1>2, <1>3 DEF Recs
  <2> QED
    BY <2>1
<1>6. PICK x \in Nat : x = h.vars[k].xlen /\ x = g.vars[k].xlen
  BY <1>1, <1>2, <1>3, <1>4, EndIs
<1>7. h.recsize = x
  <2>1. PICK p \in Nat : p = Padded(h)[Len(h.vars)]
    <3>1. Len(h.vars) \in 0 .. Len(h.vars)
      BY <1>2
    <3> QED
      BY <1>1, <3>1, PaddedIs
  <2>2. h.recsize = RecSize(h, p)
    BY <1>1, <2>1 DEF LaidOut
  <2> QED
    BY <1>1, <1>5, <1>6, <2>2, RecSizeIs
<1>8. g.recsize = x
  <2>1. PICK p \in Nat : p = Padded(g)[Len(g.vars)]
    <3>1. Len(g.vars) \in 0 .. Len(g.vars)
      BY <1>2
    <3> QED
      BY <1>1, <3>1, PaddedIs
  <2>2. g.recsize = RecSize(g, p)
    BY <1>1, <2>1 DEF LaidOut
  <2>3. k \in Recs(g)
    OBVIOUS
  <2> QED
    BY <1>1, <1>6, <2>2, <2>3, RecSizeIs
<1>9. PICK q \in Nat : q = Padded(h)[k - 1] /\ q = Padded(g)[k - 1]
  <2>1. k - 1 \in 0 .. c /\ k - 1 \in 0 .. Len(h.vars)
    BY <1>2, <1>4
  <2>2. Padded(h)[k - 1] \in Nat
    BY <1>1, <2>1, PaddedIs
  <2>3. \A j \in 0 .. c : Padded(h)[j] = Padded(g)[j]
    <3>1. \A j \in 1 .. c : h.vars[j].rec = g.vars[j].rec /\ h.vars[j].xlen = g.vars[j].xlen
      BY <1>3
    <3>2. c <= Len(h.vars) /\ c <= Len(g.vars)
      BY <1>2, <1>3
    <3> QED
      BY SMTT(60), <1>1, <3>1, <3>2, PaddedSame
  <2> QED
    BY <2>1, <2>2, <2>3
<1>10. PICK f \in Nat, e \in Nat : f = h.begin_rec /\ e = g.begin_rec
  BY <1>1
<1>11. h.vars[k].begin = f + q /\ g.vars[k].begin = e + q
  <2>1. h.vars[k].begin = h.begin_rec + Padded(h)[k - 1]
    BY <1>1 DEF LaidOut
  <2>2. g.vars[k].begin = g.begin_rec + Padded(g)[k - 1]
    BY <1>1 DEF LaidOut
  <2> QED
    BY <1>9, <1>10, <2>1, <2>2
<1>12. Multiple(f) /\ Multiple(e) /\ f <= e
  BY <1>10 DEF Later
<1>13. PICK d \in Nat : e = f + d
  <2>1. e - f \in Nat /\ e = f + (e - f)
    BY <1>12
  <2> QED
    BY <2>1
<1>14. PICK v \in Nat, a \in Nat : v = VarLen(h.vars[k]) /\ a = Align /\ v < x + a
  <2>1. Align \in Nat \ {0}
    BY ParametersAssumption
  <2>2. PICK m \in Nat : RndUp(x, Align) = m * Align /\ m * Align < x + Align
    BY <2>1, RndUpNext
  <2>3. VarLen(h.vars[k]) = RndUp(x, Align) /\ m * Align \in Nat
    BY <1>6, <2>1 DEF VarLen
  <2> QED
    BY <2>1, <2>2, <2>3
<1>15. d = 0 \/ v <= d + x
  <2>1. CASE f = e
    BY <1>13, <2>1
  <2>2. CASE f < e
    <3>1. f + a <= e
      BY <1>12, <1>14, <2>2, MultiplesApart
    <3> QED
      BY <1>13, <1>14, <3>1
  <2> QED
    BY <1>12, <2>1, <2>2
<1>16. ASSUME NEW r \in Nat
       PROVE  Offset(h, k, r) = (f + q) + x * r /\ Offset(g, k, r) = ((f + q) + d) + x * r
  <2>1. Offset(h, k, r) = (f + q) + x * r
    BY <1>4, <1>7, <1>11 DEF Offset
  <2>2. Offset(g, k, r) = (e + q) + x * r
    BY <1>4, <1>8, <1>11 DEF Offset
  <2>3. e + q = (f + q) + d
    BY <1>13
  <2> QED
    BY <2>1, <2>2, <2>3
<1>17. Shifted(h, g, k, f + q, d, x)
  BY <1>14, <1>15, <1>16 DEF Shifted
<1>18. f + q \in Nat
  OBVIOUS
<1> QED
  BY <1>17, <1>18

(* Records that are moved the last first.                                  *)
LEMMA RecordsSafe ==
  ASSUME NEW h, NEW g, Later(h, g), NEW p \in Places(h), NEW q \in Places(h),
         p[2] \in Recs(h), q[2] \in Recs(h), Behind(p, q),
         Offset(g, p[2], p[1]) # Offset(h, p[2], p[1])
  PROVE  Safe(h, g, p, q)
<1>1. PICK i, r, k, s : i = p[2] /\ r = p[1] /\ k = q[2] /\ s = q[1]
  OBVIOUS
<1>2. /\ h \in Infos /\ LaidOut(h) /\ g \in Infos /\ LaidOut(g)
      /\ r \in Nat /\ s \in Nat /\ i \in Recs(h) /\ k \in Recs(h)
      /\ i \in Recs(g) /\ k \in Recs(g) /\ i \in Nat /\ k \in Nat
  BY <1>1, PlaceIs DEF Later
<1>3. s < r \/ (s = r /\ k < i)
  BY <1>1, <1>2 DEF Behind
<1>4. PICK x \in Nat, y \in Nat, u \in Nat, w \in Nat, v \in Nat, z \in Nat :
        /\ x = Offset(h, i, r) /\ y = Offset(g, i, r)
        /\ u = Offset(h, k, s) /\ w = Offset(g, k, s)
        /\ v = VarLen(h.vars[k]) /\ z = VarLen(h.vars[i])
  BY <1>1, PlaceIs
<1>5. x <= y /\ u <= w /\ x # y /\ v = VarLen(g.vars[k])
  BY <1>1, <1>4, PlaceIs
<1>6. Recs(g) # {k} => w + v <= y
  BY <1>2, <1>3, <1>4, <1>5, RecordPadded
<1>7. u + v <= y /\ (w + v <= y \/ w + x = y + u)
  <2>1. CASE Recs(g) # {k}
    BY <1>5, <1>6, <2>1
  <2>2. CASE Recs(g) = {k}
    <3>1. i = k /\ s < r
      BY <1>2, <1>3, <2>2
    <3>2. PICK b \in Nat, d \in Nat, e \in Nat : Shifted(h, g, k, b, d, e)
      BY <1>2, <2>2, OneRecord
    <3>3. PICK m \in Nat, n \in Nat : m = e * s /\ n = e * r
      BY <1>2
    <3>4. x = b + n /\ y = (b + d) + n /\ u = b + m /\ w = (b + d) + m
      BY <1>2, <1>4, <3>1, <3>2, <3>3 DEF Shifted
    <3>5. m + e <= n
      <4>1. s + 1 \in Nat /\ s + 1 <= r
        BY <1>2, <3>1
      <4>2. e * (s + 1) <= e * r
        BY <1>2, <4>1, ProductGrows
      <4>3. e * (s + 1) = e * s + e
        BY <1>2
      <4> QED
        BY <3>3, <4>2, <4>3
    <3>6. v <= d + e
      BY <1>4, <1>5, <3>2, <3>4 DEF Shifted
    <3> QED
      BY <3>4, <3>5, <3>6
  <2> QED
    BY <2>1, <2>2
<1> QED
  BY <1>1, <1>4, <1>7 DEF Safe, Disjoint

(* Fixed variables that are moved the last first.                          *)
LEMMA FixedSafe ==
  ASSUME NEW h, NEW g, Later(h, g), NEW p \in Places(h), NEW q \in Places(h),
         p[2] \in Fixed(h), q[2] \in Fixed(h), Behind(p, q)
  PROVE  Safe(h, g, p, q)
<1>1. PICK i, r, k, s : i = p[2] /\ r = p[1] /\ k = q[2] /\ s = q[1]
  OBVIOUS
<1>2. /\ h \in Infos /\ LaidOut(h) /\ g \in Infos /\ LaidOut(g)
      /\ r = 0 /\ s = 0 /\ i \in Fixed(h) /\ k \in Fixed(h)
      /\ i \in Fixed(g) /\ k \in Fixed(g) /\ i \in Nat /\ k \in Nat
  <2>1. p[2] \notin Recs(h) /\ q[2] \notin Recs(h)
    BY DEF Fixed
  <2> QED
    BY <1>1, <2>1, PlaceIs DEF Later
<1>3. k < i
  BY <1>1, <1>2 DEF Behind
<1>4. PICK x \in Nat, y \in Nat, u \in Nat, w \in Nat, v \in Nat, z \in Nat :
        /\ x = Offset(h, i, r) /\ y = Offset(g, i, r)
        /\ u = Offset(h, k, s) /\ w = Offset(g, k, s)
        /\ v = VarLen(h.vars[k]) /\ z = VarLen(h.vars[i])
  BY <1>1, PlaceIs
<1>5. x <= y /\ v = VarLen(g.vars[k])
  BY <1>1, <1>4, PlaceIs
<1>6. /\ x = h.vars[i].begin /\ u = h.vars[k].begin
      /\ y = g.vars[i].begin /\ w = g.vars[k].begin
  <2>1. i \in 1 .. Len(h.vars) /\ i \in 1 .. Len(g.vars)
        /\ k \in 1 .. Len(h.vars) /\ k \in 1 .. Len(g.vars)
    BY <1>2, InfosAre, RecsIs
  <2>2. /\ Offset(h, i, 0) = h.vars[i].begin /\ Offset(h, k, 0) = h.vars[k].begin
        /\ Offset(g, i, 0) = g.vars[i].begin /\ Offset(g, k, 0) = g.vars[k].begin
    BY <1>2, <2>1, OffsetIs
  <2> QED
    BY <1>2, <1>4, <2>2
<1>7. u + v <= x /\ w + v <= y
  <2>1. End(h, k) <= h.vars[i].begin /\ End(g, k) <= g.vars[i].begin
    BY <1>2, <1>3 DEF LaidOut
  <2>2. End(h, k) = u + v /\ End(g, k) = w + v
    BY <1>4, <1>5, <1>6 DEF End
  <2> QED
    BY <1>6, <2>1, <2>2
<1> QED
  BY <1>1, <1>4, <1>5, <1>7 DEF Safe, Disjoint

(* Fixed variables end where the records begin, or before.                 *)
LEMMA FixedBefore ==
  ASSUME NEW h, NEW g, Later(h, g), NEW p \in Places(h), p[2] \in Fixed(h),
         NEW q \in Places(h), q[2] \in Recs(h)
  PROVE  /\ Offset(h, p[2], p[1]) + VarLen(h.vars[p[2]]) <= h.begin_rec
         /\ Offset(g, p[2], p[1]) + VarLen(h.vars[p[2]]) <= g.begin_rec
         /\ h.begin_rec <= Offset(h, q[2], q[1])
         /\ g.begin_rec <= Offset(g, q[2], q[1])
         /\ h.begin_rec \in Nat /\ g.begin_rec \in Nat
<1>1. PICK i, r, k, s : i = p[2] /\ r = p[1] /\ k = q[2] /\ s = q[1]
  OBVIOUS
<1>2. /\ h \in Infos /\ LaidOut(h) /\ g \in Infos /\ LaidOut(g)
      /\ r = 0 /\ s \in Nat /\ i \in Fixed(h) /\ k \in Recs(h)
      /\ i \in Fixed(g) /\ k \in Recs(g)
      /\ i \in 1 .. Len(h.vars) /\ k \in 1 .. Len(h.vars)
      /\ i \in 1 .. Len(g.vars) /\ k \in 1 .. Len(g.vars)
      /\ VarLen(h.vars[i]) = VarLen(g.vars[i])
  <2>1. p[2] \notin Recs(h)
    BY DEF Fixed
  <2> QED
    BY <1>1, <2>1, PlaceIs DEF Later
<1>3. /\ h.vars \in Seq(Vars) /\ g.vars \in Seq(Vars)
      /\ h.begin_rec \in Nat /\ g.begin_rec \in Nat
  BY <1>2, InfosAre
<1>4. Offset(h, i, r) + VarLen(h.vars[i]) <= h.begin_rec
  <2>1. Offset(h, i, r) = h.vars[i].begin
    BY <1>2, OffsetIs
  <2> QED
    BY <1>2, <2>1 DEF LaidOut, End
<1>5. Offset(g, i, r) + VarLen(h.vars[i]) <= g.begin_rec
  <2>1. Offset(g, i, r) = g.vars[i].begin
    BY <1>2, OffsetIs
  <2> QED
    BY <1>2, <2>1 DEF LaidOut, End
<1>6. h.begin_rec <= Offset(h, k, s)
  <2>1. h.begin_rec <= h.vars[k].begin /\ h.vars[k].begin \in Nat
    BY <1>2, LaidRecords
  <2>2. h.vars[k].begin <= Offset(h, k, s) /\ Offset(h, k, s) \in Nat
    BY <1>2, OffsetIs
  <2> QED
    BY <1>3, <2>1, <2>2
<1>7. g.begin_rec <= Offset(g, k, s)
  <2>1. g.begin_rec <= g.vars[k].begin /\ g.vars[k].begin \in Nat
    BY <1>2, LaidRecords
  <2>2. g.vars[k].begin <= Offset(g, k, s) /\ Offset(g, k, s) \in Nat
    BY <1>2, OffsetIs
  <2> QED
    BY <1>3, <2>1, <2>2
<1> QED
  BY <1>1, <1>3, <1>4, <1>5, <1>6, <1>7

(* Records are moved before fixed variables.                               *)
LEMMA RecordsFirst ==
  ASSUME NEW h, NEW g, Later(h, g), NEW p \in Places(h), NEW q \in Places(h),
         p[2] \in Recs(h), q[2] \in Fixed(h)
  PROVE  Safe(h, g, p, q)
<1>1. /\ Offset(h, q[2], q[1]) + VarLen(h.vars[q[2]]) <= h.begin_rec
      /\ Offset(g, q[2], q[1]) + VarLen(h.vars[q[2]]) <= g.begin_rec
      /\ g.begin_rec <= Offset(g, p[2], p[1])
      /\ h.begin_rec \in Nat /\ g.begin_rec \in Nat
  BY FixedBefore
<1>2. PICK y \in Nat, u \in Nat, w \in Nat, v \in Nat, b \in Nat, c \in Nat :
        /\ y = Offset(g, p[2], p[1]) /\ u = Offset(h, q[2], q[1])
        /\ w = Offset(g, q[2], q[1]) /\ v = VarLen(h.vars[q[2]])
        /\ b = h.begin_rec /\ c = g.begin_rec
  BY <1>1, PlaceIs
<1>3. b <= c
  BY <1>2 DEF Later
<1>4. u + v <= y /\ w + v <= y
  BY <1>1, <1>2, <1>3
<1> QED
  BY <1>2, <1>4 DEF Safe, Disjoint

(* Fixed variables are moved before records that stay behind them.         *)
LEMMA FixedFirst ==
  ASSUME NEW h, NEW g, Later(h, g), NEW p \in Places(h), NEW q \in Places(h),
         p[2] \in Fixed(h), q[2] \in Recs(h), h.begin_rec = g.begin_rec
  PROVE  Safe(h, g, p, q)
<1>1. /\ Offset(g, p[2], p[1]) + VarLen(h.vars[p[2]]) <= g.begin_rec
      /\ h.begin_rec <= Offset(h, q[2], q[1])
      /\ g.begin_rec <= Offset(g, q[2], q[1])
      /\ g.begin_rec \in Nat
  BY FixedBefore
<1>2. PICK y \in Nat, u \in Nat, w \in Nat, v \in Nat, c \in Nat :
        /\ y = Offset(g, p[2], p[1]) /\ u = Offset(h, q[2], q[1])
        /\ w = Offset(g, q[2], q[1]) /\ v = VarLen(h.vars[p[2]])
        /\ c = g.begin_rec
  BY <1>1, PlaceIs
<1>3. y + v <= u /\ y + v <= w
  BY <1>1, <1>2
<1> QED
  BY <1>2, <1>3 DEF Safe, Disjoint

(* What stays where it is lies apart from the places that others get.      *)
LEMMA UnmovedApart ==
  ASSUME NEW h, NEW g, Later(h, g), NEW p \in Places(h), NEW q \in Places(h),
         Offset(g, p[2], p[1]) # Offset(h, p[2], p[1]),
         Offset(g, q[2], q[1]) = Offset(h, q[2], q[1])
  PROVE  Disjoint(Offset(g, q[2], q[1]), VarLen(h.vars[q[2]]),
                  Offset(g, p[2], p[1]), VarLen(h.vars[p[2]]))
<1>1. PICK i, r, k, s : i = p[2] /\ r = p[1] /\ k = q[2] /\ s = q[1]
  OBVIOUS
<1>2. /\ g \in Infos /\ LaidOut(g) /\ r \in Nat /\ s \in Nat
      /\ i \in 1 .. Len(g.vars) /\ k \in 1 .. Len(g.vars)
      /\ VarLen(h.vars[i]) = VarLen(g.vars[i]) /\ VarLen(h.vars[k]) = VarLen(g.vars[k])
      /\ i \notin Recs(h) => r = 0
      /\ k \notin Recs(h) => s = 0
      /\ i \in Recs(h) => i \in Recs(g)
  BY <1>1, PlaceIs DEF Later
<1>3. PICK y \in Nat, w \in Nat, v \in Nat, z \in Nat :
        /\ y = Offset(g, i, r) /\ w = Offset(g, k, s)
        /\ v = VarLen(h.vars[k]) /\ z = VarLen(h.vars[i])
  BY <1>1, PlaceIs
<1>4. v = VarLen(g.vars[k]) /\ z = VarLen(g.vars[i]) /\ i \in Nat /\ k \in Nat
  BY <1>2, <1>3, InfosAre, RecsIs
<1>5. w + v <= y \/ y + z <= w
  <2>1. CASE i < k
    BY <1>2, <1>3, <1>4, <2>1, LaidPadded DEF Disjoint
  <2>2. CASE k < i
    BY <1>2, <1>3, <1>4, <2>2, LaidPadded DEF Disjoint
  <2>3. CASE i = k
    <3>1. r # s
      BY <1>1, <2>3
    <3>2. i \in Recs(h) /\ i \in Recs(g)
      BY <1>2, <2>3, <3>1
    <3>3. CASE Recs(g) # {i}
      <4>1. r < s => y + z <= w
        BY <1>2, <1>3, <1>4, <2>3, <3>2, <3>3, RecordPadded
      <4>2. s < r => w + v <= y
        BY <1>2, <1>3, <1>4, <2>3, <3>2, <3>3, RecordPadded
      <4> QED
        BY <1>2, <3>1, <4>1, <4>2
    <3>4. CASE Recs(g) = {i}
      <4>1. PICK b \in Nat, d \in Nat, e \in Nat : Shifted(h, g, i, b, d, e)
        BY <3>2, <3>4, OneRecord
      <4>2. PICK m \in Nat, n \in Nat : m = e * s /\ n = e * r
        BY <1>2
      <4>3. /\ Offset(h, i, r) = b + n /\ Offset(g, i, r) = (b + d) + n
            /\ Offset(h, i, s) = b + m /\ Offset(g, i, s) = (b + d) + m
        BY <1>2, <4>1, <4>2 DEF Shifted
      <4>4. (b + d) + n # b + n /\ (b + d) + m = b + m
        BY <1>1, <2>3, <4>3
      <4> QED
        BY <4>4
    <3> QED
      BY <3>3, <3>4
  <2> QED
    BY <1>4, <2>1, <2>2, <2>3
<1> QED
  BY <1>1, <1>3, <1>5 DEF Disjoint

-----------------------------------------------------------------------------
(* The list of what nc_enddef moves *)

(* The moves m are those of the places P, in an order s that is safe.      *)
Listed(new, m, s, P) ==
  /\ s \in Seq(P) /\ m \in Seq(MoveSteps) /\ Len(m) = Len(s)
  /\ \A k \in 1 .. Len(s) : m[k] = Move(new, s[k][2], s[k][1])
  /\ \A p \in P : \E k \in 1 .. Len(s) : s[k] = p
  /\ \A l \in 1 .. Len(s), k \in 1 .. Len(s) : l < k => Safe(old, new, s[l], s[k])

(* A place is a pair of a record and a variable.                           *)
LEMMA PlacesAre ==
  ASSUME old \in Infos
  PROVE  /\ Places(old) \subseteq (0 .. old.numrecs) \X (0 .. Len(old.vars))
         /\ old.numrecs \in Nat /\ Len(old.vars) \in Nat
<1>1. PICK c \in Nat, n \in Nat :
        /\ c = Len(old.vars) /\ n = old.numrecs
        /\ Recs(old) \subseteq 1 .. c /\ Fixed(old) \subseteq 1 .. c
  BY InfosAre, RecsIs
<1>2. 0 .. n - 1 \subseteq 0 .. n /\ {0} \subseteq 0 .. n /\ 1 .. c \subseteq 0 .. c
  OBVIOUS
<1>3. Recs(old) \subseteq 0 .. c /\ Fixed(old) \subseteq 0 .. c
  BY <1>1, <1>2
<1> QED
  BY <1>1, <1>2, <1>3 DEF Places

(* The moves of some places in the order of Downwards.                     *)
LEMMA MovesOfListed ==
  ASSUME NEW new, Later(old, new), NEW P, P \subseteq Places(old),
         \A p \in P, q \in P : Behind(p, q) => Safe(old, new, p, q)
  PROVE  \E s : Listed(new, MovesOf(new, P), s, P)
<1>1. PICK m \in Nat, n \in Nat : P \subseteq (0 .. m) \X (0 .. n)
  <2>1. old \in Infos
    BY DEF Later
  <2> QED
    BY <2>1, PlacesAre
<1>2. \A p \in P : Move(new, p[2], p[1]) \in MoveSteps
  <2> SUFFICES ASSUME NEW p \in P
               PROVE  Move(new, p[2], p[1]) \in MoveSteps
    OBVIOUS
  <2>1. /\ Offset(old, p[2], p[1]) \in Nat /\ Offset(new, p[2], p[1]) \in Nat
        /\ Offset(old, p[2], p[1]) <= Offset(new, p[2], p[1])
        /\ VarLen(old.vars[p[2]]) \in Nat
    BY PlaceIs
  <2> QED
    BY <2>1 DEF Move, MoveSteps
<1>3. PICK s \in Seq(P) :
        /\ s = Downwards(P)
        /\ \A p \in P : \E k \in 1 .. Len(s) : s[k] = p
        /\ \A k \in 1 .. Len(s), l \in 1 .. Len(s) : k < l => Behind(s[k], s[l])
  BY <1>1, DownwardsIs
<1>4. PICK c \in Nat : c = Len(s) /\ DOMAIN s = 1 .. c
  BY LenProperties
<1>5. \A k \in 1 .. c : s[k] \in P
  BY <1>4, ElementOfSeq
<1>6. PICK u : u = MovesOf(new, P)
  OBVIOUS
<1>7. u = [k \in 1 .. c |-> Move(new, s[k][2], s[k][1])]
  BY <1>3, <1>4, <1>6 DEF MovesOf
<1>8. u \in Seq(MoveSteps)
  BY <1>1, <1>2, <1>6, MovesOfAre
<1>9. Len(u) = c
  <2>1. DOMAIN u = 1 .. c
    BY <1>7
  <2> QED
    BY <1>8, <2>1, LenProperties
<1>10. \A k \in 1 .. c : u[k] = Move(new, s[k][2], s[k][1])
  BY <1>7
<1>11. \A l \in 1 .. c, k \in 1 .. c : l < k => Safe(old, new, s[l], s[k])
  BY <1>3, <1>4, <1>5
<1>12. Listed(new, u, s, P)
  BY <1>3, <1>4, <1>8, <1>9, <1>10, <1>11 DEF Listed
<1> QED
  BY <1>6, <1>12

(* Two lists of moves one after the other.                                 *)
LEMMA ListedJoin ==
  ASSUME NEW new, NEW a, NEW s, NEW P, Listed(new, a, s, P),
         NEW b, NEW t, NEW Q, Listed(new, b, t, Q),
         \A p \in P, q \in Q : Safe(old, new, p, q)
  PROVE  Listed(new, a \o b, s \o t, P \cup Q)
<1>1. PICK c \in Nat, d \in Nat : c = Len(s) /\ d = Len(t) /\ c = Len(a) /\ d = Len(b)
  BY LenProperties DEF Listed
<1>2. PICK u : u = s \o t
  OBVIOUS
<1>3. PICK m : m = a \o b
  OBVIOUS
<1>4. s \in Seq(P \cup Q) /\ t \in Seq(P \cup Q)
  <2>1. s \in Seq(P) /\ t \in Seq(Q) /\ P \subseteq P \cup Q /\ Q \subseteq P \cup Q
    BY DEF Listed
  <2>2. /\ s = [k \in 1 .. c |-> s[k]] /\ \A k \in 1 .. c : s[k] \in P \cup Q
    BY <1>1, <2>1, LenProperties, ElementOfSeq
  <2>3. /\ t = [k \in 1 .. d |-> t[k]] /\ \A k \in 1 .. d : t[k] \in P \cup Q
    BY <1>1, <2>1, LenProperties, ElementOfSeq
  <2>4. s \in Seq(P \cup Q)
    BY <2>2, ListIs
  <2>5. t \in Seq(P \cup Q)
    BY <2>3, ListIs
  <2> QED
    BY <2>4, <2>5
<1>5. /\ u \in Seq(P \cup Q) /\ Len(u) = c + d
      /\ \A k \in 1 .. c + d : u[k] = IF k <= c THEN s[k] ELSE t[k - c]
  <2>1. PICK R : R = P \cup Q
    OBVIOUS
  <2>2. s \in Seq(R) /\ t \in Seq(R)
    BY <1>4, <2>1
  <2>3. /\ s \o t \in Seq(R) /\ Len(s \o t) = Len(s) + Len(t)
        /\ \A k \in 1 .. Len(s) + Len(t) :
             (s \o t)[k] = IF k <= Len(s) THEN s[k] ELSE t[k - Len(s)]
    BY <2>2, ConcatProperties
  <2> QED
    BY <1>1, <1>2, <2>1, <2>3
<1>6. /\ m \in Seq(MoveSteps) /\ Len(m) = c + d
      /\ \A k \in 1 .. c + d : m[k] = IF k <= c THEN a[k] ELSE b[k - c]
  <2>1. a \in Seq(MoveSteps) /\ b \in Seq(MoveSteps)
    BY DEF Listed
  <2> QED
    BY <1>1, <1>3, <2>1, ConcatProperties
<1>7. ASSUME NEW k \in 1 .. c + d
      PROVE  \/ k \in 1 .. c /\ u[k] = s[k] /\ m[k] = a[k]
             \/ k - c \in 1 .. d /\ u[k] = t[k - c] /\ m[k] = b[k - c]
  BY <1>5, <1>6
<1>8. ASSUME NEW k \in 1 .. c + d
      PROVE  m[k] = Move(new, u[k][2], u[k][1])
  <2>1. CASE k \in 1 .. c /\ u[k] = s[k] /\ m[k] = a[k]
    <3>1. a[k] = Move(new, s[k][2], s[k][1])
      BY <1>1, <2>1 DEF Listed
    <3> QED
      BY <2>1, <3>1
  <2>2. CASE k - c \in 1 .. d /\ u[k] = t[k - c] /\ m[k] = b[k - c]
    <3>1. PICK j \in 1 .. d : j = k - c
      BY <2>2
    <3>2. b[j] = Move(new, t[j][2], t[j][1])
      BY <1>1 DEF Listed
    <3> QED
      BY <2>2, <3>1, <3>2
  <2> QED
    BY <1>7, <2>1, <2>2
<1>9. ASSUME NEW p \in P \cup Q
      PROVE  \E k \in 1 .. c + d : u[k] = p
  <2>1. CASE p \in P
    <3>1. PICK k \in 1 .. c : s[k] = p
      BY <1>1, <2>1 DEF Listed
    <3>2. k \in 1 .. c + d /\ u[k] = s[k]
      BY <1>5
    <3> QED
      BY <3>1, <3>2
  <2>2. CASE p \in Q
    <3>1. PICK k \in 1 .. d : t[k] = p
      BY <1>1, <2>2 DEF Listed
    <3>2. k + c \in 1 .. c + d /\ (k + c) - c = k /\ ~(k + c <= c)
      OBVIOUS
    <3>3. u[k + c] = t[k]
      BY <1>5, <3>2
    <3> QED
      BY <3>1, <3>2, <3>3
  <2> QED
    BY <2>1, <2>2
<1>10. ASSUME NEW l \in 1 .. c + d, NEW k \in 1 .. c + d, l < k
       PROVE  Safe(old, new, u[l], u[k])
  <2>1. CASE k <= c
    <3>1. l \in 1 .. c /\ k \in 1 .. c /\ u[l] = s[l] /\ u[k] = s[k]
      BY <1>5, <1>10, <2>1
    <3> QED
      BY <1>1, <1>10, <3>1 DEF Listed
  <2>2. CASE ~(l <= c)
    <3>1. /\ l - c \in 1 .. d /\ k - c \in 1 .. d /\ l - c < k - c
          /\ u[l] = t[l - c] /\ u[k] = t[k - c]
      BY <1>5, <1>10, <2>2
    <3>2. PICK i \in 1 .. d, j \in 1 .. d : i = l - c /\ j = k - c /\ i < j
      BY <3>1
    <3>3. Safe(old, new, t[i], t[j])
      BY <1>1, <3>2 DEF Listed
    <3> QED
      BY <3>1, <3>2, <3>3
  <2>3. CASE l <= c /\ ~(k <= c)
    <3>1. l \in 1 .. c /\ k - c \in 1 .. d /\ u[l] = s[l] /\ u[k] = t[k - c]
      BY <1>5, <1>10, <2>3
    <3>2. s[l] \in P /\ t[k - c] \in Q
      BY <1>1, <3>1, ElementOfSeq DEF Listed
    <3> QED
      BY <3>1, <3>2
  <2> QED
    BY <2>1, <2>2, <2>3
<1>11. Listed(new, m, u, P \cup Q)
  BY <1>5, <1>6, <1>8, <1>9, <1>10 DEF Listed
<1> QED
  BY <1>2, <1>3, <1>11

(* Nothing is moved by no moves.                                           *)
LEMMA NothingListed ==
  ASSUME NEW new
  PROVE  Listed(new, <<>>, <<>>, {})
<1>1. <<>> \in Seq({}) /\ <<>> \in Seq(MoveSteps) /\ Len(<<>>) = 0
  BY EmptySeq
<1> QED
  BY <1>1 DEF Listed

(* Records stay where they are unless they begin elsewhere or get longer.  *)
LEMMA RecordsStay ==
  ASSUME NEW h, NEW g, Later(h, g), h.begin_rec = g.begin_rec, ~(g.recsize > h.recsize),
         NEW p \in Places(h), p[2] \in Recs(h)
  PROVE  Offset(g, p[2], p[1]) = Offset(h, p[2], p[1])
<1>1. PICK i, r : i = p[2] /\ r = p[1]
  OBVIOUS
<1>2. /\ h \in Infos /\ LaidOut(h) /\ g \in Infos /\ LaidOut(g) /\ Extends(h, g)
      /\ h.vars \in Seq(Vars) /\ g.vars \in Seq(Vars)
      /\ h.begin_rec \in Nat /\ h.recsize \in Nat /\ g.recsize \in Nat
  BY InfosAre DEF Later
<1>3. /\ i \in 1 .. Len(h.vars) /\ i \in 1 .. Len(g.vars) /\ r \in Nat
      /\ i \in Recs(h) /\ i \in Recs(g)
  BY <1>1, PlaceIs
<1>4. h.vars[i].rec /\ g.vars[i].rec
  BY <1>2, <1>3, RecsIs
<1>5. h.recsize = g.recsize
  <2>1. h.recsize <= g.recsize
    BY <1>2, <1>3, RecordsGrow
  <2> QED
    BY <1>2, <2>1
<1>6. Padded(h)[i - 1] = Padded(g)[i - 1]
  <2>1. PICK c \in Nat, d \in Nat : c = Len(h.vars) /\ d = Len(g.vars)
    BY <1>2, RecsIs
  <2>2. \A j \in 1 .. c : g.vars[j].rec = h.vars[j].rec /\ g.vars[j].xlen = h.vars[j].xlen
    BY <1>2, <2>1 DEF Extends
  <2>3. \A j \in 0 .. c : Padded(h)[j] = Padded(g)[j]
    <3>1. h.vars \in Seq(Vars) /\ g.vars \in Seq(Vars) /\ c <= Len(h.vars) /\ c <= Len(g.vars)
      BY <1>2, <2>1 DEF Extends
    <3> QED
      BY <2>2, <3>1, PaddedSame
  <2>4. i - 1 \in 0 .. c
    BY <1>3, <2>1
  <2> QED
    BY <2>3, <2>4
<1>7. h.vars[i].begin = g.vars[i].begin
  <2>1. h.vars[i].begin = h.begin_rec + Padded(h)[i - 1]
    BY <1>2, <1>3 DEF LaidOut
  <2>2. g.vars[i].begin = g.begin_rec + Padded(g)[i - 1]
    BY <1>2, <1>3 DEF LaidOut
  <2> QED
    BY <1>6, <2>1, <2>2
<1>8. Offset(h, i, r) = Offset(g, i, r)
  BY <1>4, <1>5, <1>7 DEF Offset
<1> QED
  BY <1>1, <1>8

(* The places of which the fixed variables move, and the records.          *)
MovedVars(new) == {p \in {0} \X Fixed(old) : new.vars[p[2]].begin > old.vars[p[2]].begin}
MovedRecs(new) == {p \in (0 .. old.numrecs - 1) \X Recs(old) :
                     Offset(new, p[2], p[1]) # Offset(old, p[2], p[1])}

(* They are the places that are not the same in both layouts.              *)
LEMMA MovedPlaces ==
  ASSUME NEW new, Later(old, new)
  PROVE  /\ MovedVars(new) \subseteq Places(old) /\ MovedRecs(new) \subseteq Places(old)
         /\ \A p \in MovedVars(new) : p[2] \in Fixed(old) /\ p[2] \notin Recs(old)
         /\ \A p \in MovedRecs(new) : p[2] \in Recs(old)
         /\ \A p \in MovedVars(new) \cup MovedRecs(new) :
              Offset(new, p[2], p[1]) # Offset(old, p[2], p[1])
         /\ \A p \in Places(old) :
              p \notin MovedVars(new) \cup MovedRecs(new) =>
                Offset(new, p[2], p[1]) = Offset(old, p[2], p[1])
<1>1. /\ \A p \in MovedVars(new) : /\ p \in {0} \X Fixed(old) /\ p[2] \in Fixed(old)
                                   /\ p[1] = 0
                                   /\ new.vars[p[2]].begin > old.vars[p[2]].begin
      /\ \A p \in MovedRecs(new) : /\ p \in (0 .. old.numrecs - 1) \X Recs(old)
                                   /\ p[2] \in Recs(old)
                                   /\ Offset(new, p[2], p[1]) # Offset(old, p[2], p[1])
  BY DEF MovedVars, MovedRecs
<1>2. MovedVars(new) \subseteq Places(old) /\ MovedRecs(new) \subseteq Places(old)
  BY <1>1 DEF Places
<1>3. \A p \in MovedVars(new) : p[2] \notin Recs(old)
  BY <1>1 DEF Fixed
<1>4. ASSUME NEW p \in Places(old), p[2] \in Fixed(old)
      PROVE  /\ Offset(old, p[2], p[1]) = old.vars[p[2]].begin
             /\ Offset(new, p[2], p[1]) = new.vars[p[2]].begin
             /\ p[1] = 0 /\ p \in {0} \X Fixed(old)
  <2>1. p[2] \notin Recs(old)
    BY <1>4 DEF Fixed
  <2>2. /\ p[2] \in 1 .. Len(old.vars) /\ p[2] \in 1 .. Len(new.vars) /\ p[1] = 0
        /\ old \in Infos /\ new \in Infos
    BY <2>1, PlaceIs DEF Later
  <2>3. p \in {0} \X Fixed(old)
    BY <2>1 DEF Places
  <2>4. Offset(old, p[2], 0) = old.vars[p[2]].begin /\ Offset(new, p[2], 0) = new.vars[p[2]].begin
    BY <2>2, OffsetIs
  <2> QED
    BY <2>2, <2>3, <2>4
<1>5. ASSUME NEW p \in MovedVars(new)
      PROVE  Offset(new, p[2], p[1]) # Offset(old, p[2], p[1])
  <2>1. p \in Places(old) /\ p[2] \in Fixed(old)
    BY <1>1, <1>2
  <2>2. Offset(new, p[2], p[1]) \in Nat /\ Offset(old, p[2], p[1]) \in Nat
    BY <2>1, PlaceIs
  <2>3. Offset(new, p[2], p[1]) > Offset(old, p[2], p[1])
    BY <1>1, <1>4, <2>1
  <2> QED
    BY <2>2, <2>3
<1>6. ASSUME NEW p \in Places(old), p \notin MovedVars(new), p \notin MovedRecs(new)
      PROVE  Offset(new, p[2], p[1]) = Offset(old, p[2], p[1])
  <2>1. CASE p[2] \in Recs(old)
    <3>1. p \in (0 .. old.numrecs - 1) \X Recs(old)
      BY <2>1 DEF Places, Fixed
    <3> QED
      BY <1>6, <3>1 DEF MovedRecs
  <2>2. CASE p[2] \notin Recs(old)
    <3>1. p[2] \in Fixed(old)
      BY <2>2, PlaceIs
    <3>2. ~(new.vars[p[2]].begin > old.vars[p[2]].begin)
      BY <1>4, <1>6, <3>1 DEF MovedVars
    <3>3. /\ Offset(new, p[2], p[1]) \in Nat /\ Offset(old, p[2], p[1]) \in Nat
          /\ Offset(old, p[2], p[1]) <= Offset(new, p[2], p[1])
      BY PlaceIs
    <3>4. ~(Offset(new, p[2], p[1]) > Offset(old, p[2], p[1]))
      BY <1>4, <3>1, <3>2
    <3> QED
      BY <3>3, <3>4
  <2> QED
    BY <2>1, <2>2
<1> QED
  BY <1>1, <1>2, <1>3, <1>5, <1>6

(* Moves is a safe list of the places that are not the same.               *)
LEMMA MovesListed ==
  ASSUME NEW new, Later(old, new),
         new.begin_var > old.begin_var \/ MovedVars(new) = {}
  PROVE  \E s, P : /\ Listed(new, Moves(new), s, P)
                   /\ P = MovedVars(new) \cup MovedRecs(new)
<1>1. PICK V, R : V = MovedVars(new) /\ R = MovedRecs(new)
  OBVIOUS
<1>2. /\ V \subseteq Places(old) /\ R \subseteq Places(old)
      /\ \A p \in V : p \in Places(old) /\ p[2] \in Fixed(old)
      /\ \A p \in R : /\ p \in Places(old) /\ p[2] \in Recs(old)
                      /\ Offset(new, p[2], p[1]) # Offset(old, p[2], p[1])
  BY <1>1, MovedPlaces
<1>3. /\ old \in Infos /\ old # None /\ new \in Infos
      /\ old.begin_rec \in Nat /\ new.begin_rec \in Nat /\ old.begin_rec <= new.begin_rec
  BY InfosAre DEF Later
<1>4. PICK w : Listed(new, MovesOf(new, V), w, V)
  <2>1. \A p \in V, q \in V : Behind(p, q) => Safe(old, new, p, q)
    BY <1>2, FixedSafe
  <2> QED
    BY <1>2, <2>1, MovesOfListed
<1>5. PICK x : Listed(new, MovesOf(new, R), x, R)
  <2>1. \A p \in R, q \in R : Behind(p, q) => Safe(old, new, p, q)
    BY <1>2, RecordsSafe
  <2> QED
    BY <1>2, <2>1, MovesOfListed
<1>6. move_vars_r(new) = MovesOf(new, V) /\ move_recs_r(new) = MovesOf(new, R)
  BY <1>1 DEF move_vars_r, move_recs_r, MovedVars, MovedRecs
<1>7. PICK v, vs : /\ v = IF new.begin_var > old.begin_var THEN move_vars_r(new) ELSE <<>>
                   /\ Listed(new, v, vs, V)
  <2>1. CASE new.begin_var > old.begin_var
    BY <1>4, <1>6, <2>1
  <2>2. CASE ~(new.begin_var > old.begin_var)
    <3>1. V = {}
      BY <1>1, <2>2
    <3>2. Listed(new, <<>>, <<>>, V)
      BY <3>1, NothingListed
    <3> QED
      BY <2>2, <3>2
  <2> QED
    BY <2>1, <2>2
<1>8. CASE new.vars = <<>>
  <2>1. Moves(new) = <<>>
    BY <1>8 DEF Moves
  <2>2. Places(old) = {}
    <3>1. \A p \in Places(old) : p[2] \in 1 .. Len(new.vars)
      BY PlaceIs
    <3>2. Len(new.vars) = 0
      BY <1>8
    <3> QED
      BY <3>1, <3>2
  <2>3. V \cup R = {}
    BY <1>2, <2>2
  <2> QED
    BY <1>1, <2>1, <2>3, NothingListed
<1>9. CASE new.vars # <<>> /\ new.begin_rec > old.begin_rec
  <2>1. Moves(new) = MovesOf(new, R) \o v
    BY <1>3, <1>6, <1>7, <1>9 DEF Moves
  <2>2. \A p \in R, q \in V : Safe(old, new, p, q)
    BY <1>2, RecordsFirst
  <2>3. Listed(new, MovesOf(new, R) \o v, x \o vs, R \cup V)
    BY <1>5, <1>7, <2>2, ListedJoin
  <2>4. R \cup V = MovedVars(new) \cup MovedRecs(new)
    BY <1>1
  <2> QED
    BY <2>1, <2>3, <2>4
<1>10. CASE new.vars # <<>> /\ ~(new.begin_rec > old.begin_rec)
  <2>1. old.begin_rec = new.begin_rec
    BY <1>3, <1>10
  <2>2. PICK z, zs : /\ z = IF new.recsize > old.recsize THEN move_recs_r(new) ELSE <<>>
                     /\ Listed(new, z, zs, R)
    <3>1. CASE new.recsize > old.recsize
      BY <1>5, <1>6, <3>1
    <3>2. CASE ~(new.recsize > old.recsize)
      <4>1. \A p \in R : FALSE
        BY <1>2, <2>1, <3>2, RecordsStay
      <4>2. R = {}
        BY <4>1
      <4>3. Listed(new, <<>>, <<>>, R)
        BY <4>2, NothingListed
      <4> QED
        BY <3>2, <4>3
    <3> QED
      BY <3>1, <3>2
  <2>3. Moves(new) = v \o z
    BY <1>3, <1>7, <1>10, <2>2 DEF Moves
  <2>4. \A p \in V, q \in R : Safe(old, new, p, q)
    BY <1>2, <2>1, FixedFirst
  <2>5. Listed(new, v \o z, vs \o zs, V \cup R)
    BY <1>7, <2>2, <2>4, ListedJoin
  <2> QED
    BY <1>1, <2>3, <2>5
<1> QED
  BY <1>8, <1>9, <1>10

(* The moves are safe whatever the order of Moves is.                      *)
LEMMA ListedOrderly ==
  ASSUME NEW new, Later(old, new), NEW m, NEW s, NEW P, Listed(new, m, s, P),
         P \subseteq Places(old), NEW n \in Nat, n = Len(s),
         \A p \in P : Offset(new, p[2], p[1]) + VarLen(old.vars[p[2]]) <= Size
  PROVE  /\ Moving(m, n) /\ Orderly(m, n)
         /\ \A k \in 1 .. n : /\ s[k] \in P
                              /\ m[k].to = Offset(new, s[k][2], s[k][1])
                              /\ m[k].from = Offset(old, s[k][2], s[k][1])
                              /\ m[k].len = VarLen(old.vars[s[k][2]])
<1>1. \A k \in 1 .. n : s[k] \in P
  BY ElementOfSeq DEF Listed
<1>2. ASSUME NEW k \in 1 .. n
      PROVE  /\ m[k].op \in {"move_recs_r", "move_vars_r"}
             /\ m[k].to = Offset(new, s[k][2], s[k][1])
             /\ m[k].from = Offset(old, s[k][2], s[k][1])
             /\ m[k].len = VarLen(old.vars[s[k][2]])
  <2>1. m[k] = Move(new, s[k][2], s[k][1])
    BY DEF Listed
  <2> QED
    BY <2>1 DEF Move
<1>3. Moving(m, n)
  <2> SUFFICES ASSUME NEW k \in 1 .. n
               PROVE  /\ m[k].to \in Nat /\ m[k].from \in Nat /\ m[k].len \in Nat
                      /\ m[k].from <= m[k].to /\ m[k].to + m[k].len <= Size
    BY <1>2 DEF Moving
  <2>1. PICK p \in Places(old) : p = s[k] /\ p \in P
    BY <1>1
  <2>2. /\ Offset(old, p[2], p[1]) \in Nat /\ Offset(new, p[2], p[1]) \in Nat
        /\ Offset(old, p[2], p[1]) <= Offset(new, p[2], p[1])
        /\ VarLen(old.vars[p[2]]) \in Nat
    BY <2>1, PlaceIs
  <2>3. Offset(new, p[2], p[1]) + VarLen(old.vars[p[2]]) <= Size
    BY <2>1
  <2> QED
    BY <1>2, <2>1, <2>2, <2>3
<1>4. Orderly(m, n)
  <2> SUFFICES ASSUME NEW l \in 1 .. n, NEW k \in 1 .. n, l < k
               PROVE  /\ Disjoint(m[k].from, m[k].len, m[l].to, m[l].len)
                      /\ \/ Disjoint(m[k].to, m[k].len, m[l].to, m[l].len)
                         \/ m[k].to + m[l].from = m[l].to + m[k].from
    BY DEF Orderly
  <2>1. Safe(old, new, s[l], s[k])
    BY DEF Listed
  <2> QED
    BY <1>2, <2>1 DEF Safe
<1> QED
  BY <1>1, <1>2, <1>3, <1>4

(* After the moves every value is at its new place.                        *)
LEMMA ValuesMoved ==
  ASSUME FileIs(file), NEW new, Later(old, new),
         new.begin_var > old.begin_var \/ MovedVars(new) = {},
         \A p \in Places(old) : Offset(new, p[2], p[1]) + VarLen(old.vars[p[2]]) <= Size,
         NEW n \in Nat, n = Len(Moves(new)), NEW g, Through(new, Moves(new), n, g)
  PROVE  /\ FileIs(g[n])
         /\ \A p \in Places(old), b \in Nat :
              b < VarLen(old.vars[p[2]]) =>
                g[n].bytes[Offset(new, p[2], p[1]) + b] = file.bytes[Offset(old, p[2], p[1]) + b]
<1>1. PICK s, P : Listed(new, Moves(new), s, P) /\ P = MovedVars(new) \cup MovedRecs(new)
  BY MovesListed
<1>2. /\ P \subseteq Places(old)
      /\ \A p \in P : Offset(new, p[2], p[1]) # Offset(old, p[2], p[1])
      /\ \A p \in Places(old) : p \notin P => Offset(new, p[2], p[1]) = Offset(old, p[2], p[1])
  BY <1>1, MovedPlaces
<1>3. PICK m : m = Moves(new)
  OBVIOUS
<1>4. n = Len(s) /\ Listed(new, m, s, P)
  BY <1>1, <1>3 DEF Listed
<1>5. /\ Moving(m, n) /\ Orderly(m, n)
      /\ \A k \in 1 .. n : /\ s[k] \in P
                           /\ m[k].to = Offset(new, s[k][2], s[k][1])
                           /\ m[k].from = Offset(old, s[k][2], s[k][1])
                           /\ m[k].len = VarLen(old.vars[s[k][2]])
  <2>1. \A p \in P : Offset(new, p[2], p[1]) + VarLen(old.vars[p[2]]) <= Size
    BY <1>2
  <2> QED
    BY <1>2, <1>4, <2>1, ListedOrderly
<1>6. FileIs(g[n]) /\ Untouched(file, g[n], m, n) /\ Arrived(file, g[n], m, n)
  <2>1. Through(new, m, n, g)
    BY <1>3
  <2> QED
    BY <1>5, <2>1, MovesDo
<1>7. ASSUME NEW p \in Places(old), NEW b \in Nat, b < VarLen(old.vars[p[2]])
      PROVE  g[n].bytes[Offset(new, p[2], p[1]) + b] = file.bytes[Offset(old, p[2], p[1]) + b]
  <2>1. CASE p \in P
    <3>1. PICK k \in 1 .. n : s[k] = p
      BY <1>4, <2>1 DEF Listed
    <3>2. /\ m[k].to = Offset(new, p[2], p[1]) /\ m[k].from = Offset(old, p[2], p[1])
          /\ m[k].len = VarLen(old.vars[p[2]])
      BY <1>5, <3>1
    <3>3. b < m[k].len
      BY <1>7, <3>2
    <3>4. g[n].bytes[m[k].to + b] = file.bytes[m[k].from + b]
      BY <1>6, <3>3 DEF Arrived
    <3> QED
      BY <3>2, <3>4
  <2>2. CASE p \notin P
    <3>1. PICK at \in Nat, len \in Nat :
            /\ at = Offset(new, p[2], p[1]) /\ at = Offset(old, p[2], p[1])
            /\ len = VarLen(old.vars[p[2]])
      BY <1>2, <2>2, PlaceIs
    <3>2. b < len /\ at + len <= Size
      BY <1>7, <3>1
    <3>3. at + b \in Addr
      BY <3>2, ParametersAssumption DEF Addr
    <3>4. ASSUME NEW l \in 1 .. n
          PROVE  at + b < m[l].to \/ m[l].to + m[l].len <= at + b
      <4>1. PICK q \in Places(old) : q = s[l] /\ q \in P
        BY <1>2, <1>5
      <4>2. PICK to \in Nat, z \in Nat :
              to = Offset(new, q[2], q[1]) /\ z = VarLen(old.vars[q[2]])
        BY <4>1, PlaceIs
      <4>3. m[l].to = to /\ m[l].len = z
        BY <1>5, <4>1, <4>2
      <4>4. Offset(new, q[2], q[1]) # Offset(old, q[2], q[1])
        BY <1>2, <4>1
      <4>5. Offset(new, p[2], p[1]) = Offset(old, p[2], p[1])
        BY <1>2, <2>2
      <4>6. Disjoint(Offset(new, p[2], p[1]), VarLen(old.vars[p[2]]),
                     Offset(new, q[2], q[1]), VarLen(old.vars[q[2]]))
        BY <4>4, <4>5, UnmovedApart
      <4>7. at + len <= to \/ to + z <= at
        BY <3>1, <4>2, <4>6 DEF Disjoint
      <4>8. at + b < to \/ to + z <= at + b
        BY <3>2, <4>7
      <4> QED
        BY <4>3, <4>8
    <3>5. g[n].bytes[at + b] = file.bytes[at + b]
      BY <1>6, <3>3, <3>4 DEF Untouched
    <3> QED
      BY <3>1, <3>5
  <2> QED
    BY <2>1, <2>2
<1> QED
  BY <1>6, <1>7

-----------------------------------------------------------------------------
(* What nc_enddef does after the moves *)

(* Fills that do not touch the byte at a.                                  *)
FillsBeside(a) == {s \in [op : {"fill"}, to : Nat, len : Nat] : a < s.to \/ s.to + s.len <= a}

(* The header is written before the values, and such fills beside them.    *)
LEMMA StepBeside ==
  ASSUME NEW new \in Infos, XSize(new) <= Size, NEW f, FileIs(f), NEW a \in Addr,
         XSize(new) <= a, NEW s, s.op = "write_NC" \/ s \in FillsBeside(a)
  PROVE  FileIs(Step(new, f, s)) /\ Step(new, f, s).bytes[a] = f.bytes[a]
<1>1. PICK g : g = Step(new, f, s)
  OBVIOUS
<1>2. CASE s.op = "write_NC"
  <2>1. g = WithHeader(f, new)
    BY <1>1, <1>2 DEF Step
  <2>2. FileIs(g)
    BY <2>1, WriteIs
  <2>3. PICK x \in Nat : x = XSize(new) /\ x <= a
    BY InfosAre
  <2>4. PICK bytes : bytes = [b \in Addr |-> IF b \in 0 .. 0 + x - 1 THEN Hdr ELSE f.bytes[b]]
    OBVIOUS
  <2>5. g.bytes = bytes
    <3>1. PICK e : e = [f EXCEPT !.bytes = bytes]
      OBVIOUS
    <3>2. g = [e EXCEPT !.header = Header(new)]
      BY <2>1, <2>3, <2>4, <3>1 DEF WithHeader, WithBytes
    <3>3. e = [header |-> f.header, bytes |-> bytes, exists |-> f.exists]
      BY <3>1 DEF FileIs
    <3> QED
      BY <3>2, <3>3
  <2>6. a \in Nat /\ ~(a \in 0 .. 0 + x - 1)
    BY <2>3, ParametersAssumption DEF Addr
  <2> QED
    BY <1>1, <2>2, <2>4, <2>5, <2>6
<1>3. CASE s \in FillsBeside(a)
  <2>1. PICK to \in Nat, len \in Nat :
          to = s.to /\ len = s.len /\ (a < to \/ to + len <= a) /\ s.op = "fill"
    BY <1>3 DEF FillsBeside
  <2>2. g = WithValue(f, to, len, Fill)
    BY <1>1, <2>1 DEF Step
  <2>3. FileIs(g)
    BY <2>2, ValueIs
  <2>4. PICK bytes : bytes = [b \in Addr |-> IF b \in to .. to + len - 1 THEN <<Fill, b - to>>
                                             ELSE f.bytes[b]]
    OBVIOUS
  <2>5. g.bytes = bytes
    BY <2>2, <2>4 DEF WithValue, WithBytes, FileIs
  <2>6. a \notin to .. to + len - 1
    BY <2>1, ParametersAssumption DEF Addr
  <2> QED
    BY <1>1, <2>3, <2>4, <2>5, <2>6
<1> QED
  BY <1>2, <1>3

(* The fills of new variables do not touch what lies elsewhere.            *)
LEMMA FillsBesideAre ==
  ASSUME NEW new \in Infos, NEW a \in Nat,
         \A i \in DOMAIN new.vars \ DOMAIN old.vars, rec \in Nat :
           FillOf(new, i, rec) \in FillsBeside(a)
  PROVE  Fills(new) \in Seq(FillsBeside(a))
<1>1. new.vars \in Seq(Vars) /\ new.numrecs \in Nat
  BY InfosAre
<1>2. PICK c \in Nat : /\ c = Len(new.vars) /\ DOMAIN new.vars = 1 .. c
                       /\ Fixed(new) \subseteq 1 .. c /\ Recs(new) \subseteq 1 .. c
  BY <1>1, RecsIs
<1>3. PICK added : added = DOMAIN new.vars \ DOMAIN old.vars
  OBVIOUS
<1>4. PICK n \in Nat : n = new.numrecs
  BY <1>1
<1>5. PICK F, R : F = {0} \X (added \cap Fixed(new)) /\ R = (0 .. n - 1) \X (added \cap Recs(new))
  OBVIOUS
<1>6. 1 .. c \subseteq 0 .. c /\ {0} \subseteq 0 .. n /\ 0 .. n - 1 \subseteq 0 .. n
  OBVIOUS
<1>7. F \subseteq (0 .. n) \X (0 .. c) /\ R \subseteq (0 .. n) \X (0 .. c)
  BY <1>2, <1>5, <1>6
<1>8. /\ \A p \in F : p[2] \in added /\ p[1] \in Nat
      /\ \A p \in R : p[2] \in added /\ p[1] \in Nat
  BY <1>5
<1>9. /\ \A p \in F : FillOf(new, p[2], p[1]) \in FillsBeside(a)
      /\ \A p \in R : FillOf(new, p[2], p[1]) \in FillsBeside(a)
  BY <1>3, <1>8
<1>10. PICK S : S = FillsBeside(a)
  OBVIOUS
<1>11. FillsOf(new, F) \in Seq(S)
  BY <1>7, <1>9, <1>10, FillsOfAre
<1>12. FillsOf(new, R) \in Seq(S)
  BY <1>7, <1>9, <1>10, FillsOfAre
<1>13. Fills(new) = FillsOf(new, F) \o FillsOf(new, R)
  BY <1>3, <1>4, <1>5 DEF Fills
<1> QED
  BY <1>10, <1>11, <1>12, <1>13, ConcatProperties

(* A new variable is filled beside the values of the old ones.             *)
LEMMA FilledBeside ==
  ASSUME NEW new, Later(old, new), NEW p \in Places(old), NEW b \in Nat,
         b < VarLen(old.vars[p[2]]),
         NEW i \in DOMAIN new.vars \ DOMAIN old.vars, NEW rec \in Nat
  PROVE  FillOf(new, i, rec) \in FillsBeside(Offset(new, p[2], p[1]) + b)
<1>1. /\ new \in Infos /\ LaidOut(new) /\ old \in Infos
      /\ new.vars \in Seq(Vars) /\ old.vars \in Seq(Vars) /\ Extends(old, new)
  BY InfosAre DEF Later
<1>2. PICK c \in Nat, d \in Nat : /\ c = Len(old.vars) /\ DOMAIN old.vars = 1 .. c
                                  /\ d = Len(new.vars) /\ DOMAIN new.vars = 1 .. d
  BY <1>1, RecsIs
<1>3. PICK k \in 1 .. c, s \in Nat : k = p[2] /\ s = p[1]
  BY <1>2, PlaceIs
<1>4. i \in 1 .. d /\ k \in 1 .. d /\ k < i
  <2>1. c <= d
    BY <1>1, <1>2 DEF Extends
  <2> QED
    BY <1>2, <1>3, <2>1
<1>5. PICK at \in Nat, len \in Nat, to \in Nat, z \in Nat :
        /\ at = Offset(new, k, s) /\ len = VarLen(new.vars[k])
        /\ to = Offset(new, i, rec) /\ z = VarLen(new.vars[i])
  BY <1>1, <1>2, <1>4, OffsetIs, EndIs
<1>6. b < len
  BY <1>3, <1>5, PlaceIs
<1>7. at + len <= to \/ to + z <= at
  <2>1. Disjoint(Offset(new, k, s), VarLen(new.vars[k]), Offset(new, i, rec), VarLen(new.vars[i]))
    BY <1>1, <1>2, <1>4, LaidPadded
  <2> QED
    BY <1>5, <2>1 DEF Disjoint
<1>8. PICK y \in Nat : y = FillLen(new, i) /\ y <= z
  <2>1. CASE ~new.vars[i].rec
    BY <1>5, <2>1 DEF FillLen
  <2>2. CASE new.vars[i].rec
    <3>1. i \in Recs(new) /\ z \in Nat
      BY <1>2, <1>4, <2>2 DEF Recs
    <3>2. RecSize(new, z) = new.vars[i].xlen \/ RecSize(new, z) = z
      BY <1>1, <3>1, RecSizeIs
    <3>3. new.vars[i].xlen <= z /\ new.vars[i].xlen \in Nat
      BY <1>1, <1>2, <1>4, <1>5, EndIs
    <3>4. FillLen(new, i) = RecSize(new, z)
      BY <1>5, <2>2 DEF FillLen
    <3> QED
      BY <3>2, <3>3, <3>4
  <2> QED
    BY <2>1, <2>2
<1>9. FillOf(new, i, rec) = [op |-> "fill", to |-> to, len |-> y]
  BY <1>5, <1>8 DEF FillOf
<1>10. at + b < to \/ to + y <= at + b
  BY <1>6, <1>7, <1>8
<1> QED
  BY <1>3, <1>5, <1>9, <1>10 DEF FillsBeside

(* All of nc_enddef: a value is afterwards at its new place.               *)
LEMMA EnddefMoves ==
  ASSUME FileIs(file), NEW new, Later(old, new),
         new.begin_var > old.begin_var \/ MovedVars(new) = {}, XSize(new) <= Size,
         \A p \in Places(old) : Offset(new, p[2], p[1]) + VarLen(old.vars[p[2]]) <= Size,
         NEW p \in Places(old), NEW b \in Nat, b < VarLen(old.vars[p[2]])
  PROVE  Done(new, Steps(new)).bytes[Offset(new, p[2], p[1]) + b]
           = file.bytes[Offset(old, p[2], p[1]) + b]
<1>1. /\ new \in Infos /\ LaidOut(new) /\ old \in Infos
      /\ new.vars \in Seq(Vars) /\ XSize(new) \in Nat
  BY InfosAre DEF Later
<1>2. PICK at \in Nat, len \in Nat : /\ at = Offset(new, p[2], p[1])
                                     /\ len = VarLen(old.vars[p[2]])
  BY PlaceIs
<1>3. PICK a \in Nat : a = at + b
  OBVIOUS
<1>4. a \in Addr
  <2>1. at + len <= Size
    BY <1>2
  <2> QED
    BY <1>2, <1>3, <2>1, ParametersAssumption DEF Addr
<1>5. XSize(new) <= a
  <2>1. p[2] \in 1 .. Len(new.vars) /\ p[1] \in Nat
    BY PlaceIs
  <2>2. XSize(new) <= new.vars[p[2]].begin
    BY <1>1, <2>1, RecsIs DEF LaidOut
  <2>3. new.vars[p[2]].begin <= at /\ new.vars[p[2]].begin \in Nat
    BY <1>1, <1>2, <2>1, OffsetIs, EndIs
  <2> QED
    BY <1>1, <1>3, <2>2, <2>3
<1>6. PICK s, P : Listed(new, Moves(new), s, P)
  BY MovesListed
<1>7. PICK m \in Seq(MoveSteps) : m = Moves(new)
  BY <1>6 DEF Listed
<1>8. PICK f \in Seq(FillsBeside(a)) : f = Fills(new)
  <2>1. \A i \in DOMAIN new.vars \ DOMAIN old.vars, rec \in Nat :
          FillOf(new, i, rec) \in FillsBeside(a)
    BY <1>2, <1>3, FilledBeside
  <2> QED
    BY <1>1, <2>1, FillsBesideAre
<1>9. PICK w : w = [op |-> "write_NC"]
  OBVIOUS
<1>10. PICK S : S = MoveSteps \cup FillsBeside(a) \cup {w}
  OBVIOUS
<1>11. PICK n \in Nat, q \in Nat : /\ n = Len(m) /\ q = Len(f)
                                   /\ \A k \in 1 .. q : f[k] \in FillsBeside(a)
  BY LenProperties, ElementOfSeq
<1>12. m \in Seq(S) /\ f \in Seq(S) /\ w \in S
  <2>1. \A k \in 1 .. n : m[k] \in MoveSteps
    BY <1>11, ElementOfSeq
  <2>2. m = [k \in 1 .. n |-> m[k]] /\ f = [k \in 1 .. q |-> f[k]]
    BY <1>11, LenProperties
  <2>3. (\A k \in 1 .. n : m[k] \in S) /\ (\A k \in 1 .. q : f[k] \in S)
    BY <1>10, <1>11, <2>1
  <2> QED
    BY <1>10, <1>11, <2>2, <2>3, ListIs
<1>13. PICK steps : steps = m \o <<w>> \o f
  OBVIOUS
<1>14. /\ Len(steps) = (n + 1) + q /\ steps[n + 1] = w
       /\ \A k \in 1 .. n : steps[k] = m[k]
       /\ \A k \in 1 .. q : steps[(n + 1) + k] = f[k]
  BY <1>11, <1>12, <1>13, ThreeParts
<1>15. Steps(new) = steps
  BY <1>7, <1>8, <1>9, <1>13 DEF Steps
<1>16. PICK l \in Nat : l = (n + 1) + q /\ l = Len(steps)
  BY <1>14
<1>17. PICK g : After(new, steps, g) /\ Done(new, steps) = g[l]
  BY <1>16, AfterExists
<1>18. g[0] = file /\ \A k \in 1 .. l : g[k] = Step(new, g[k - 1], steps[k])
  <2>1. g = [k \in 0 .. l |-> IF k = 0 THEN file ELSE Step(new, g[k - 1], steps[k])]
    BY <1>16, <1>17 DEF After
  <2>2. 0 \in 0 .. l /\ \A k \in 1 .. l : k \in 0 .. l /\ k # 0
    OBVIOUS
  <2> QED
    BY <2>1, <2>2
<1>19. Through(new, m, n, g)
  <2>1. \A k \in 1 .. n : k \in 1 .. l /\ steps[k] = m[k]
    BY <1>14, <1>16
  <2> QED
    BY <1>18, <2>1 DEF Through
<1>20. /\ FileIs(g[n])
       /\ g[n].bytes[Offset(new, p[2], p[1]) + b] = file.bytes[Offset(old, p[2], p[1]) + b]
  <2>1. n = Len(Moves(new)) /\ Through(new, Moves(new), n, g)
    BY <1>7, <1>11, <1>19
  <2>2. /\ FileIs(g[n])
        /\ \A u \in Places(old), c \in Nat :
             c < VarLen(old.vars[u[2]]) =>
               g[n].bytes[Offset(new, u[2], u[1]) + c] = file.bytes[Offset(old, u[2], u[1]) + c]
    BY <2>1, ValuesMoved
  <2> QED
    BY <2>2
<1>21. PICK T : T = {j \in Nat : n + j <= l => /\ FileIs(g[n + j])
                                              /\ g[n + j].bytes[a] = g[n].bytes[a]}
  OBVIOUS
<1>22. 0 \in T
  BY <1>20, <1>21
<1>23. ASSUME NEW j \in Nat, j \in T
       PROVE  j + 1 \in T
  <2> SUFFICES ASSUME n + (j + 1) <= l
               PROVE  FileIs(g[n + (j + 1)]) /\ g[n + (j + 1)].bytes[a] = g[n].bytes[a]
    BY <1>21
  <2>1. PICK k \in 1 .. l : k = n + (j + 1) /\ k - 1 = n + j
    OBVIOUS
  <2>2. FileIs(g[k - 1]) /\ g[k - 1].bytes[a] = g[n].bytes[a]
    BY <1>21, <1>23, <2>1
  <2>3. steps[k].op = "write_NC" \/ steps[k] \in FillsBeside(a)
    <3>1. CASE j = 0
      <4>1. k = n + 1
        BY <2>1, <3>1
      <4>2. steps[k] = w
        BY <1>14, <4>1
      <4> QED
        BY <1>9, <4>2
    <3>2. CASE j # 0
      <4>1. j \in 1 .. q /\ k = (n + 1) + j
        BY SMTT(30), <1>16, <2>1, <3>2
      <4> QED
        BY <1>11, <1>14, <4>1
    <3> QED
      BY <3>1, <3>2
  <2>4. g[k] = Step(new, g[k - 1], steps[k])
    BY <1>18
  <2>5. PICK e, z : e = g[k - 1] /\ z = steps[k]
    OBVIOUS
  <2>6. FileIs(Step(new, e, z)) /\ Step(new, e, z).bytes[a] = e.bytes[a]
    BY <1>1, <1>4, <1>5, <2>2, <2>3, <2>5, StepBeside
  <2> QED
    BY <2>1, <2>2, <2>4, <2>5, <2>6
<1>24. Nat \subseteq T
  BY <1>22, <1>23, EveryNatural
<1>25. g[l].bytes[a] = g[n].bytes[a]
  <2>1. l - n \in T /\ n + (l - n) = l
    BY <1>16, <1>24
  <2> QED
    BY <1>21, <2>1
<1> QED
  BY <1>2, <1>3, <1>15, <1>17, <1>20, <1>25

-----------------------------------------------------------------------------
(* Padded sizes and places *)

(* What a header is made of, and the free space and the alignment that     *)
(* nc__enddef is asked for: the first are multiples of X_ALIGN because     *)
(* ncx_len_NC pads, the second if clients ask for no others.               *)
Rounded ==
  /\ Multiple(BaseSize) /\ Multiple(VarSize) /\ \A n \in AttSizes : Multiple(n)
  /\ \A r \in Reserves : /\ Multiple(r.h_minfree) /\ Multiple(r.v_minfree)
                         /\ r.v_align = 1 \/ Multiple(r.v_align)
                         /\ r.r_align = 1 \/ Multiple(r.r_align)

(* The sum of multiples is one.                                            *)
LEMMA MultipleSum ==
  ASSUME NEW m \in Nat, Multiple(m), NEW n \in Nat, Multiple(n)
  PROVE  Multiple(m + n)
<1>1. PICK j \in Nat, k \in Nat : m = j * Align /\ n = k * Align
  BY DEF Multiple
<1>2. PICK a \in Nat : a = Align
  BY ParametersAssumption
<1>3. (j + k) * a = j * a + k * a
  OBVIOUS
<1>4. m + n = (j + k) * Align /\ j + k \in Nat
  BY <1>1, <1>2, <1>3
<1> QED
  BY <1>4 DEF Multiple

(* So is a product.                                                       *)
LEMMA MultipleProduct ==
  ASSUME NEW m \in Nat, NEW n \in Nat, Multiple(n)
  PROVE  Multiple(m * n)
<1>1. PICK k \in Nat : n = k * Align
  BY DEF Multiple
<1>2. PICK a \in Nat : a = Align
  BY ParametersAssumption
<1>3. m * (k * a) = (m * k) * a /\ m * k \in Nat
  OBVIOUS
<1>4. m * n = (m * k) * Align
  BY <1>1, <1>2, <1>3
<1> QED
  BY <1>3, <1>4 DEF Multiple

(* So is the larger of two multiples.                                      *)
LEMMA MultipleLarger ==
  ASSUME NEW m, Multiple(m), NEW n, Multiple(n)
  PROVE  Multiple(Larger(m, n))
BY DEF Larger

(* Zero is one.                                                            *)
LEMMA MultipleZero == Multiple(0)
<1>1. 0 = 0 * Align
  BY ParametersAssumption
<1> QED
  BY <1>1 DEF Multiple

(* Rounding up to a multiple of X_ALIGN, or of 1 what is one.              *)
LEMMA MultipleRndUp ==
  ASSUME NEW n \in Nat, NEW align \in Nat \ {0},
         Multiple(align) \/ (align = 1 /\ Multiple(n))
  PROVE  Multiple(RndUp(n, align))
<1>1. CASE align = 1 /\ Multiple(n)
  BY <1>1, RndUpOne
<1>2. CASE Multiple(align)
  <2>1. PICK q \in Nat : RndUp(n, align) = q * align
    BY RndUpNext
  <2>2. Multiple(q * align)
    BY <1>2, MultipleProduct
  <2> QED
    BY <2>1, <2>2
<1> QED
  BY <1>1, <1>2

(* The length of a variable is padded.                                     *)
LEMMA MultipleVarLen ==
  ASSUME NEW v \in Vars
  PROVE  Multiple(VarLen(v))
<1>1. v.xlen \in Nat /\ Align \in Nat \ {0}
  BY ParametersAssumption DEF Vars
<1>2. Multiple(Align)
  <2>1. Align = 1 * Align
    BY <1>1
  <2> QED
    BY <2>1 DEF Multiple
<1>3. Multiple(RndUp(v.xlen, Align))
  BY <1>1, <1>2, MultipleRndUp
<1> QED
  BY <1>3 DEF VarLen

(* So is the header.                                                       *)
LEMMA MultipleXSize ==
  ASSUME Rounded, NEW h, h.vars \in Seq(Vars), h.att \in AttSizes
  PROVE  Multiple(XSize(h))
<1>1. PICK b \in Nat, v \in Nat, l \in Nat, a \in Nat :
        b = BaseSize /\ v = VarSize /\ l = Len(h.vars) /\ a = h.att
  BY LenProperties, ParametersAssumption
<1>2. Multiple(b) /\ Multiple(v) /\ Multiple(a)
  BY <1>1 DEF Rounded
<1>3. Multiple(b + a)
  BY <1>2, MultipleSum
<1>4. Multiple(l * v)
  BY <1>2, MultipleProduct, Zenon
<1>5. PICK m \in Nat : m = l * v
  OBVIOUS
<1>6. Multiple((b + a) + m)
  BY <1>3, <1>4, <1>5, MultipleSum
<1>7. XSize(h) = (b + a) + m
  BY <1>1, <1>5 DEF XSize
<1> QED
  BY <1>6, <1>7

(* So is the place of a section.                                           *)
LEMMA MultiplePlaced ==
  ASSUME NEW begin, Multiple(begin), NEW index \in Nat, Multiple(index),
         NEW minfree \in Nat, Multiple(minfree), NEW align \in Nat \ {0},
         align = 1 \/ Multiple(align)
  PROVE  Multiple(Placed(begin, index, minfree, align))
<1>1. Multiple(index + minfree) /\ index + minfree \in Nat
  BY MultipleSum
<1>2. Multiple(RndUp(index + minfree, align))
  BY <1>1, MultipleRndUp
<1> QED
  BY <1>2 DEF Placed

(* And so are the sums of the lengths of records.                          *)
LEMMA MultiplePadded ==
  ASSUME NEW h, h.vars \in Seq(Vars)
  PROVE  \A n \in 0 .. Len(h.vars) : Multiple(Padded(h)[n])
<1>1. PICK c \in Nat : c = Len(h.vars)
  BY LenProperties
<1>2. PICK p : p = Padded(h)
  OBVIOUS
<1>3. /\ p[0] = 0 /\ \A n \in 0 .. c : p[n] \in Nat
      /\ \A n \in 1 .. c : p[n] = p[n - 1] + IF h.vars[n].rec THEN VarLen(h.vars[n]) ELSE 0
  BY <1>1, <1>2, PaddedIs
<1>4. \A n \in 1 .. c : VarLen(h.vars[n]) \in Nat /\ Multiple(VarLen(h.vars[n]))
  <2>1. \A n \in 1 .. c : h.vars[n] \in Vars
    BY <1>1, ElementOfSeq
  <2> QED
    BY <2>1, VarLenIs, MultipleVarLen
<1>5. PICK T : T = {n \in Nat : n <= c => Multiple(p[n])}
  OBVIOUS
<1>6. 0 \in T
  BY <1>3, <1>5, MultipleZero
<1>7. ASSUME NEW n \in Nat, n \in T
      PROVE  n + 1 \in T
  <2> SUFFICES ASSUME n + 1 <= c
               PROVE  Multiple(p[n + 1])
    BY <1>5
  <2>1. n + 1 \in 1 .. c /\ (n + 1) - 1 = n /\ n \in 0 .. c
    OBVIOUS
  <2>2. PICK x \in Nat, y \in Nat : /\ x = p[n] /\ Multiple(x)
                                    /\ y = (IF h.vars[n + 1].rec THEN VarLen(h.vars[n + 1]) ELSE 0)
                                    /\ Multiple(y)
    BY <1>3, <1>4, <1>5, <1>7, <2>1, MultipleZero
  <2>3. p[n + 1] = x + y
    BY <1>3, <2>1, <2>2
  <2> QED
    BY <2>2, <2>3, MultipleSum
<1>8. Nat \subseteq T
  BY <1>6, <1>7, EveryNatural
<1> QED
  BY <1>1, <1>2, <1>5, <1>8

-----------------------------------------------------------------------------
(* All places are padded *)

InPlace(h) ==
  /\ Multiple(h.begin_var) /\ Multiple(h.begin_rec)
  /\ \A i \in DOMAIN h.vars : Multiple(h.vars[i].begin)

(* The old place of a variable is a multiple, 0 for a new one.             *)
LEMMA MultipleOldBegin ==
  ASSUME old = None \/ InPlace(old), NEW i \in Nat
  PROVE  Multiple(OldBegin(i))
<1>1. old = None => DOMAIN old.vars = {}
  BY DEF None
<1>2. i \in DOMAIN old.vars => Multiple(old.vars[i].begin)
  BY <1>1 DEF InPlace
<1> QED
  BY <1>2, MultipleZero DEF OldBegin

(* So are the ends of the fixed variables that NC_begins adds up.          *)
LEMMA MultipleFixedEnds ==
  ASSUME NEW b \in Nat, Multiple(b), nc.vars \in Seq(Vars),
         old \in Infos \cup {None}, old = None \/ InPlace(old)
  PROVE  \A n \in 0 .. Len(nc.vars) : Multiple(FixedEnds(b)[n])
<1>1. PICK c \in Nat : c = Len(nc.vars)
  BY LenProperties
<1>2. PICK e : e = FixedEnds(b)
  OBVIOUS
<1>3. /\ e[0] = b /\ \A n \in 0 .. c : e[n] \in Nat
      /\ \A n \in 1 .. c : e[n] = IF nc.vars[n].rec THEN e[n - 1]
                                  ELSE Larger(e[n - 1], OldBegin(n)) + VarLen(nc.vars[n])
  BY <1>1, <1>2, FixedEndsIs
<1>4. \A n \in 1 .. c : VarLen(nc.vars[n]) \in Nat /\ Multiple(VarLen(nc.vars[n]))
  <2>1. \A n \in 1 .. c : nc.vars[n] \in Vars
    BY <1>1, ElementOfSeq
  <2> QED
    BY <2>1, VarLenIs, MultipleVarLen
<1>5. PICK T : T = {n \in Nat : n <= c => Multiple(e[n])}
  OBVIOUS
<1>6. 0 \in T
  BY <1>3, <1>5
<1>7. ASSUME NEW n \in Nat, n \in T
      PROVE  n + 1 \in T
  <2> SUFFICES ASSUME n + 1 <= c
               PROVE  Multiple(e[n + 1])
    BY <1>5
  <2>1. n + 1 \in 1 .. c /\ (n + 1) - 1 = n /\ n \in 0 .. c
    OBVIOUS
  <2>2. PICK x \in Nat : x = e[n] /\ Multiple(x)
    BY <1>3, <1>5, <1>7, <2>1
  <2>3. PICK o \in Nat : o = OldBegin(n + 1) /\ Multiple(o)
    BY MultipleOldBegin, OldBeginIs
  <2>4. PICK y \in Nat : y = VarLen(nc.vars[n + 1]) /\ Multiple(y)
    BY <1>4, <2>1
  <2>5. PICK m \in Nat : m = Larger(x, o) /\ Multiple(m)
    BY <2>2, <2>3, LargerIs, MultipleLarger
  <2>6. Multiple(m + y)
    BY <2>4, <2>5, MultipleSum
  <2>7. e[n + 1] = x \/ e[n + 1] = m + y
    BY <1>3, <2>1, <2>2, <2>3, <2>4, <2>5
  <2> QED
    BY <2>2, <2>6, <2>7
<1>8. Nat \subseteq T
  BY <1>6, <1>7, EveryNatural
<1> QED
  BY <1>1, <1>2, <1>5, <1>8

(* Whatever NC_begins places is in place if everything was.                *)
LEMMA BeginsInPlace ==
  ASSUME Rounded, NEW r \in Reserves, nc \in Infos, nc.att \in AttSizes,
         old \in Infos \cup {None}, InPlace(nc), old = None \/ InPlace(old)
  PROVE  InPlace(NC_begins(r))
<1>1. CASE nc.vars = <<>>
  BY <1>1 DEF NC_begins
<1>2. CASE nc.vars # <<>>
  <2>1. PICK b \in Nat : PlacedFrom(b, NC_begins(r)) /\ SectionsFrom(b, r)
    BY <1>2, BeginsIs
  <2>2. PICK new : new = NC_begins(r)
    OBVIOUS
  <2>3. PICK c \in Nat : c = Len(nc.vars) /\ nc.vars \in Seq(Vars)
    BY LenProperties, InfosAre
  <2>4. /\ r.h_minfree \in Nat /\ r.v_align \in Nat \ {0}
        /\ r.v_minfree \in Nat /\ r.r_align \in Nat \ {0}
    BY ParametersAssumption
  <2>5. /\ Multiple(r.h_minfree) /\ Multiple(r.v_minfree)
        /\ r.v_align = 1 \/ Multiple(r.v_align)
        /\ r.r_align = 1 \/ Multiple(r.r_align)
    BY DEF Rounded
  <2>6. Multiple(OldStart("begin_var")) /\ Multiple(OldStart("begin_rec"))
    BY MultipleZero DEF OldStart, InPlace
  <2>7. Multiple(b)
    <3>1. Multiple(nc.begin_var)
      BY DEF InPlace
    <3>2. XSize(nc) \in Nat /\ Multiple(XSize(nc))
      BY <2>3, InfosAre, MultipleXSize
    <3>3. Multiple(Placed(nc.begin_var, XSize(nc), r.h_minfree, r.v_align))
      BY <2>4, <2>5, <3>1, <3>2, MultiplePlaced
    <3>4. Multiple(Larger(Placed(nc.begin_var, XSize(nc), r.h_minfree, r.v_align),
                          OldStart("begin_var")))
      BY <2>6, <3>3, MultipleLarger
    <3> QED
      BY <2>1, <3>4 DEF SectionsFrom
  <2>8. PICK e : e = FixedEnds(b)
    OBVIOUS
  <2>9. \A n \in 0 .. c : e[n] \in Nat /\ Multiple(e[n])
    BY <2>3, <2>7, <2>8, FixedEndsIs, MultipleFixedEnds
  <2>10. new.begin_rec \in Nat /\ Multiple(new.begin_rec)
    <3>1. Multiple(nc.begin_rec)
      BY DEF InPlace
    <3>2. Multiple(Larger(nc.begin_rec, OldStart("begin_rec")))
      BY <2>6, <3>1, MultipleLarger
    <3>3. e[c] \in Nat /\ Multiple(e[c])
      BY <2>9
    <3>4. Multiple(Placed(Larger(nc.begin_rec, OldStart("begin_rec")),
                          e[c], r.v_minfree, r.r_align))
      BY <2>4, <2>5, <3>2, <3>3, MultiplePlaced
    <3>5. Multiple(new.begin_rec)
      BY <2>1, <2>2, <2>3, <2>8, <3>4 DEF SectionsFrom
    <3> QED
      BY <2>1, <2>2, <3>5, InfosAre DEF PlacedFrom
  <2>11. \A i \in 1 .. c : Multiple(new.vars[i].begin)
    <3> SUFFICES ASSUME NEW i \in 1 .. c
                 PROVE  Multiple(new.vars[i].begin)
      OBVIOUS
    <3>1. i - 1 \in 0 .. c
      OBVIOUS
    <3>2. PICK p \in Nat : p = Padded(nc)[i - 1] /\ Multiple(p)
      BY <2>3, <3>1, PaddedIs, MultiplePadded
    <3>3. Multiple(new.begin_rec + p)
      BY <2>10, <3>2, MultipleSum
    <3>4. Multiple(IF nc.vars[i].rec THEN new.begin_rec + Padded(nc)[i - 1]
                   ELSE FixedEnds(b)[i - 1])
      BY <2>8, <2>9, <3>1, <3>2, <3>3
    <3>5. Multiple(OldBegin(i))
      BY MultipleOldBegin
    <3>6. new.vars[i].begin = Larger(IF nc.vars[i].rec THEN new.begin_rec + Padded(nc)[i - 1]
                                     ELSE FixedEnds(b)[i - 1], OldBegin(i))
      BY <2>1, <2>2, <2>3 DEF PlacedFrom
    <3> QED
      BY <3>4, <3>5, <3>6, MultipleLarger
  <2>12. Multiple(new.begin_var)
    <3>1. new.begin_var = IF Fixed(nc) = {} THEN new.begin_rec
                          ELSE new.vars[Least(Fixed(nc))].begin
      BY <2>1, <2>2 DEF PlacedFrom
    <3>2. Fixed(nc) # {} => Least(Fixed(nc)) \in 1 .. c
      <4>1. Fixed(nc) \subseteq 1 .. c
        BY <2>3, RecsIs
      <4> QED
        BY <4>1, LeastIs
    <3> QED
      BY <2>10, <2>11, <3>1, <3>2
  <2>13. DOMAIN new.vars = 1 .. c
    <3>1. new.vars \in Seq(Vars) /\ Len(new.vars) = c
      BY <2>1, <2>2, <2>3, InfosAre DEF PlacedFrom
    <3> QED
      BY <3>1, LenProperties
  <2> QED
    BY <2>2, <2>10, <2>11, <2>12, <2>13 DEF InPlace
<1> QED
  BY <1>1, <1>2

(* Where a header lets the variables begin, the sections begin.            *)
LEMMA ReadInPlace ==
  ASSUME Rounded, NEW h \in Headers, h.att \in AttSizes,
         \A i \in DOMAIN h.vars : Multiple(h.vars[i].begin)
  PROVE  InPlace(FromHeader(h))
<1>1. PICK g : g = FromHeader(h)
  OBVIOUS
<1>2. h.vars \in Seq(Vars)
  BY DEF Headers
<1>3. PICK c \in Nat : /\ c = Len(h.vars) /\ DOMAIN h.vars = 1 .. c
                       /\ Recs(h) \subseteq 1 .. c /\ Fixed(h) \subseteq 1 .. c
  BY <1>2, RecsIs
<1>4. Multiple(XSize(h))
  BY <1>2, MultipleXSize
<1>5. \A i \in 1 .. c : Multiple(h.vars[i].begin) /\ Multiple(End(h, i))
  <2> SUFFICES ASSUME NEW i \in 1 .. c
               PROVE  Multiple(End(h, i))
    BY <1>3
  <2>1. PICK x \in Nat : x = h.vars[i].begin /\ Multiple(x)
    BY <1>2, <1>3, EndIs
  <2>2. PICK y \in Nat : y = VarLen(h.vars[i]) /\ Multiple(y)
    BY <1>2, <1>3, EndIs, ElementOfSeq, MultipleVarLen
  <2>3. Multiple(x + y)
    BY <2>1, <2>2, MultipleSum
  <2> QED
    BY <2>1, <2>2, <2>3 DEF End
<1>6. Recs(h) # {} => Least(Recs(h)) \in 1 .. c
  BY <1>3, LeastIs
<1>7. Fixed(h) # {} => Least(Fixed(h)) \in 1 .. c /\ Greatest(Fixed(h)) \in 1 .. c
  <2>1. Fixed(h) \subseteq 0 .. c /\ Fixed(h) \subseteq Nat
    BY <1>3
  <2> QED
    BY <1>3, <2>1, LeastIs, GreatestIs
<1>8. Multiple(g.begin_rec)
  BY <1>1, <1>4, <1>5, <1>6, <1>7, FromHeaderIs
<1>9. Multiple(g.begin_var)
  BY <1>1, <1>5, <1>7, <1>8, FromHeaderIs
<1>10. g.vars = h.vars
  BY <1>1, FromHeaderIs
<1> QED
  BY <1>1, <1>8, <1>9, <1>10 DEF InPlace

(* Every place of a variable in memory and in the file, and where the      *)
(* sections begin; define mode leaves the number of records alone.         *)
Begins(h) == \A i \in DOMAIN h.vars : Multiple(h.vars[i].begin)
Padding ==
  /\ nc # None => InPlace(nc)
  /\ old # None => InPlace(old) /\ nc.numrecs = old.numrecs
  /\ Begins(file.header)

(* What nc_enddef places is padded, whether it succeeds or fails.          *)
LEMMA EnddefPads ==
  ASSUME Rounded, IInv, Padding, nc # None, NEW r \in Reserves
  PROVE  InPlace(NC_begins(r)) /\ NC_begins(r).numrecs = nc.numrecs
<1>1. nc \in Infos /\ nc.att \in AttSizes /\ old \in Infos \cup {None}
  BY GoodInfo DEF IInv, Parts, InfoGood, HeaderOK
<1>2. InPlace(nc) /\ (old = None \/ InPlace(old))
  BY DEF Padding
<1>3. InPlace(NC_begins(r))
  BY <1>1, <1>2, BeginsInPlace
<1>4. NC_begins(r).numrecs = nc.numrecs
  <2>1. CASE nc.vars = <<>>
    BY <2>1 DEF NC_begins
  <2>2. CASE nc.vars # <<>>
    BY <1>1, <2>2, BeginsIs DEF PlacedFrom
  <2> QED
    BY <2>1, <2>2
<1> QED
  BY <1>3, <1>4

(* So is a header that is written from a padded NC3_INFO.                  *)
LEMMA WrittenPads ==
  ASSUME NEW h \in Infos, InPlace(h)
  PROVE  Begins(Header(h))
BY HeaderIs DEF InPlace, Begins

(* So is what is read from the file.                                       *)
LEMMA ReadPads ==
  ASSUME Rounded, IInv, Padding
  PROVE  InPlace(FromHeader(file.header))
<1>1. file.header \in Headers /\ file.header.att \in AttSizes
  BY DEF IInv, Parts, FileGood, FileIs, HeaderOK
<1>2. \A i \in DOMAIN file.header.vars : Multiple(file.header.vars[i].begin)
  BY DEF Padding, Begins
<1> QED
  BY <1>1, <1>2, ReadInPlace

(* What NC_sync and nc_close write is padded.                              *)
LEMMA SyncPads ==
  ASSUME IInv, Padding, nc # None, "CREAT" \notin flags, "INDEF" \notin flags
  PROVE  Begins(NC_sync.header)
<1>1. NC_sync.header = Header(nc)
  BY SyncIs
<1>2. nc \in Infos /\ InPlace(nc)
  BY GoodInfo DEF IInv, Parts, Padding
<1> QED
  BY <1>1, <1>2, WrittenPads

(* What nc_enddef writes.                                                  *)
LEMMA EnddefWrites ==
  ASSUME Rounded, IInv, Padding, nc # None, NEW r \in Reserves, NEW new,
         new = NC_begins(r), Endable(new)
  PROVE  Begins(Done(new, Steps(new)).header)
<1>1. InfoGood(new) /\ Done(new, Steps(new)).header = Header(new)
  BY EnddefDone
<1>2. new \in Infos /\ InPlace(new)
  BY <1>1, GoodInfo, EnddefPads
<1> QED
  BY <1>1, <1>2, WrittenPads

(* Every step keeps the places padded.                                     *)
LEMMA PaddingInductive ==
  ASSUME Rounded, IInv, Padding, [Next]_vars
  PROVE  Padding'
<1>1. CASE \E share \in Shared : NC3_create(share)
  <2>1. PICK share \in Shared : NC3_create(share)
    BY <1>1
  <2>2. PICK e : /\ e = [vars |-> <<>>, att |-> 0, numrecs |-> 0,
                         begin_var |-> 0, begin_rec |-> 0, recsize |-> 0]
                 /\ nc' = e /\ old' = None
                 /\ file' = WithHeader([NoFile EXCEPT !.exists = TRUE], e)
    BY <2>1 DEF NC3_create
  <2>3. InPlace(e) /\ e.vars = <<>>
    BY <2>2, MultipleZero DEF InPlace
  <2>4. Begins(Header(e))
    BY <2>3 DEF Begins, Header
  <2>5. file'.header = Header(e)
    BY <2>2 DEF WithHeader, WithBytes, NoFile
  <2> QED
    BY <2>2, <2>3, <2>4, <2>5 DEF Padding
<1>2. CASE \E share \in Shared : NC3_open(share)
  <2>1. nc' = FromHeader(file.header) /\ old' = None /\ file' = file
    BY <1>2 DEF NC3_open
  <2> QED
    BY <2>1, ReadPads DEF Padding
<1>3. CASE NC3_redef
  <2>1. /\ nc' = IF "NSYNC" \in flags THEN FromHeader(file.header) ELSE nc
        /\ old' = nc' /\ file' = file /\ nc # None
    BY <1>3 DEF NC3_redef, IsOpen
  <2>2. InPlace(nc')
    BY <2>1, ReadPads DEF Padding
  <2> QED
    BY <2>1, <2>2 DEF Padding
<1>4. CASE NC3_sync
  <2>1. /\ nc # None /\ "CREAT" \notin flags /\ "INDEF" \notin flags
        /\ file' = NC_sync /\ nc' = nc /\ old' = old
    BY <1>4 DEF NC3_sync, IsOpen, Indef
  <2> QED
    BY <2>1, SyncPads DEF Padding
<1>5. CASE NC3_close
  <2>1. nc # None /\ nc' = None /\ old' = None
    BY <1>5 DEF NC3_close, IsOpen
  <2>2. CASE Indef
    <3>1. Endable(NC_begins(Default)) /\ Default \in Reserves
          /\ file' = Done(NC_begins(Default), Steps(NC_begins(Default)))
      BY <1>5, <2>2, ParametersAssumption DEF NC3_close
    <3>2. Begins(file'.header)
      BY <2>1, <3>1, EnddefWrites
    <3> QED
      BY <2>1, <3>2 DEF Padding
  <2>3. CASE ~Indef
    <3>1. file' = NC_sync /\ "CREAT" \notin flags /\ "INDEF" \notin flags
      BY <1>5, <2>3 DEF NC3_close, Indef
    <3>2. Begins(file'.header)
      BY <2>1, <3>1, SyncPads
    <3> QED
      BY <2>1, <3>2 DEF Padding
  <2> QED
    BY <2>2, <2>3
<1>6. CASE NC3_abort
  <2>1. nc # None /\ nc' = None /\ old' = None
        /\ file' = IF "CREAT" \in flags THEN NoFile
                   ELSE IF Indef THEN file ELSE NC_sync
    BY <1>6 DEF NC3_abort, IsOpen
  <2>2. Begins(NoFile.header)
    BY DEF Begins, NoFile
  <2>3. Begins(file.header)
    BY DEF Padding
  <2>4. ~Indef => Begins(NC_sync.header)
    BY <2>1, SyncPads DEF Indef
  <2>5. Begins(file'.header)
    BY <2>1, <2>2, <2>3, <2>4
  <2> QED
    BY <2>1, <2>5 DEF Padding
<1>7. CASE \E r \in Reserves : NC3__enddef(r)
  <2>1. PICK r \in Reserves : NC3__enddef(r)
    BY <1>7
  <2>2. PICK new : /\ new = NC_begins(r) /\ Endable(new) /\ nc' = new /\ old' = None
                   /\ file' = Done(new, Steps(new))
    BY <2>1 DEF NC3__enddef
  <2>3. nc # None
    BY <2>2 DEF Endable, Indef, IInv, Modes
  <2>4. InPlace(new) /\ Begins(Done(new, Steps(new)).header)
    BY <2>2, <2>3, EnddefPads, EnddefWrites
  <2> QED
    BY <2>2, <2>4 DEF Padding
<1>8. CASE \E r \in Reserves : NC3__enddef_fails(r)
  <2>1. PICK r \in Reserves : NC3__enddef_fails(r)
    BY <1>8
  <2>2. PICK new : new = NC_begins(r) /\ Endable(new) /\ nc' = new /\ old' = old
    BY <2>1 DEF NC3__enddef_fails
  <2>3. nc # None
    BY <2>2 DEF Endable, Indef, IInv, Modes
  <2>4. PICK at \in FailAt : /\ at.done < Len(Steps(new)) /\ Steps(new)[at.done + 1].op = at.op
                             /\ file' = Done(new, Before(Steps(new), at.done))
    BY <2>1, <2>2 DEF NC3__enddef_fails
  <2>5. Sound(file, file.header, 0) /\ 0 \in Nat /\ 0 <= Size
    BY ParametersAssumption DEF Sound, IInv, Parts, FileGood
  <2>6. /\ at.op # "fill" => Sound(file', file.header, 0)
        /\ at.op = "fill" => Sound(file', Header(new), XSize(new))
    BY <2>2, <2>3, <2>4, <2>5, FailsIs
  <2>7. file'.header \in {file.header, Header(new)}
    BY <2>6 DEF Sound
  <2>8. InPlace(new) /\ new.numrecs = nc.numrecs
    BY <2>2, <2>3, EnddefPads
  <2>9. new \in Infos
    BY <2>2, <2>3, EnddefDone, GoodInfo
  <2>10. Begins(Header(new)) /\ Begins(file.header)
    BY <2>8, <2>9, WrittenPads DEF Padding
  <2>11. Begins(file'.header)
    BY <2>7, <2>10
  <2> QED
    BY <2>2, <2>3, <2>8, <2>11 DEF Padding
<1>9. CASE \E shape \in Shapes : NC3_def_var(shape)
  <2>1. PICK v : /\ nc # None /\ v.begin = 0 /\ file' = file /\ old' = old
                 /\ nc' = [nc EXCEPT !.vars = Append(nc.vars, v)]
    BY <1>9 DEF NC3_def_var, IsOpen
  <2>2. nc \in Infos /\ nc.vars \in Seq(Vars) /\ InPlace(nc)
    BY <2>1, GoodInfo DEF IInv, Parts, Padding
  <2>3. PICK g : /\ g = nc' /\ g.vars = Append(nc.vars, v) /\ g.numrecs = nc.numrecs
                 /\ g.begin_var = nc.begin_var /\ g.begin_rec = nc.begin_rec
    BY <2>1, <2>2 DEF Infos
  <2>4. \A i \in DOMAIN g.vars : Multiple(g.vars[i].begin)
    <3>1. PICK c \in Nat : c = Len(nc.vars) /\ DOMAIN nc.vars = 1 .. c
      BY <2>2, LenProperties
    <3>2. DOMAIN g.vars = 1 .. c + 1 /\ g.vars[c + 1] = v
          /\ \A i \in 1 .. c : g.vars[i] = nc.vars[i]
      BY <2>2, <2>3, <3>1
    <3> QED
      BY <2>1, <2>2, <3>1, <3>2, MultipleZero DEF InPlace
  <2>5. InPlace(nc')
    BY <2>2, <2>3, <2>4 DEF InPlace
  <2> QED
    BY <2>1, <2>3, <2>5 DEF Padding
<1>10. CASE \E size \in AttSizes : NC3_put_att(size)
  <2>1. PICK size : nc # None /\ nc' = [nc EXCEPT !.att = size] /\ file' = file /\ old' = old
    BY <1>10 DEF NC3_put_att, IsOpen
  <2>2. nc \in Infos /\ InPlace(nc)
    BY <2>1, GoodInfo DEF IInv, Parts, Padding
  <2>3. PICK g : /\ g = nc' /\ g.vars = nc.vars /\ g.numrecs = nc.numrecs
                 /\ g.begin_var = nc.begin_var /\ g.begin_rec = nc.begin_rec
    BY <2>1, <2>2 DEF Infos
  <2>4. InPlace(nc')
    BY <2>2, <2>3 DEF InPlace
  <2> QED
    BY <2>1, <2>3, <2>4 DEF Padding
<1>11. CASE \E i \in 1 .. MaxVars, rec \in 0 .. MaxRecs - 1, v \in Values :
              NC3_put_vara(i, rec, v)
  <2>1. PICK i \in 1 .. MaxVars, rec \in 0 .. MaxRecs - 1, v \in Values :
          NC3_put_vara(i, rec, v)
    BY <1>11
  <2>2. /\ nc # None /\ "CREAT" \notin flags /\ "INDEF" \notin flags
        /\ nc' \in {nc, [nc EXCEPT !.numrecs = rec + 1]}
    BY <2>1 DEF NC3_put_vara, IsOpen, Indef
  <2>3. old' = None
    BY <2>1, PutVaraKeeps
  <2>4. nc \in Infos /\ InPlace(nc) /\ nc.vars \in Seq(Vars)
    BY <2>2, GoodInfo DEF IInv, Parts, Padding
  <2>5. PICK g : /\ g = nc' /\ g.vars = nc.vars
                 /\ g.begin_var = nc.begin_var /\ g.begin_rec = nc.begin_rec
    BY <2>2, <2>4 DEF Infos
  <2>6. InPlace(nc')
    BY <2>4, <2>5 DEF InPlace
  <2>7. Sound(file, file.header, 0) /\ 0 \in Nat /\ 0 <= Size
    BY ParametersAssumption DEF Sound, IInv, Parts, FileGood
  <2>8. \A k \in DOMAIN nc.vars : 0 <= nc.vars[k].begin
    BY <2>4, RecsIs, EndIs
  <2>9. file'.header.vars = file.header.vars
    BY <2>1, <2>2, <2>7, <2>8, PutIs
  <2>10. Begins(file'.header)
    BY <2>9 DEF Padding, Begins
  <2> QED
    BY <2>3, <2>6, <2>10 DEF Padding
<1>12. CASE UNCHANGED vars
  BY <1>12 DEF vars, Padding
<1> QED
  BY <1>1, <1>2, <1>3, <1>4, <1>5, <1>6, <1>7, <1>8, <1>9, <1>10, <1>11, <1>12 DEF Next

(* When the fixed variables begin where they began, none has moved: each   *)
(* of them is placed behind the one before it, which is where it was.      *)
LEMMA FixedStay ==
  ASSUME nc \in Infos, nc.vars # <<>>, old \in Infos, LaidOut(old), Extends(old, nc),
         NEW b \in Nat, NEW new, PlacedFrom(b, new), new.begin_var = old.begin_var
  PROVE  MovedVars(new) = {}
<1>1. PICK c \in Nat : /\ c = Len(old.vars) /\ DOMAIN old.vars = 1 .. c
                       /\ Fixed(old) \subseteq 1 .. c /\ old.vars \in Seq(Vars)
                       /\ Fixed(old) = {i \in 1 .. c : ~old.vars[i].rec}
  BY InfosAre, RecsIs DEF Fixed, Recs
<1>2. PICK d \in Nat : /\ d = Len(nc.vars) /\ c <= d /\ nc.vars \in Seq(Vars)
                       /\ Fixed(nc) = {i \in 1 .. d : ~nc.vars[i].rec}
  <2>1. PICK d \in Nat : d = Len(nc.vars) /\ DOMAIN nc.vars = 1 .. d /\ nc.vars \in Seq(Vars)
    BY InfosAre, RecsIs
  <2>2. c <= d
    BY <1>1, <2>1 DEF Extends
  <2>3. Fixed(nc) = {i \in 1 .. d : ~nc.vars[i].rec}
    BY <2>1 DEF Fixed, Recs
  <2> QED
    BY <2>1, <2>2, <2>3
<1>3. \A i \in 1 .. c : nc.vars[i].rec = old.vars[i].rec /\ nc.vars[i].xlen = old.vars[i].xlen
  BY <1>1 DEF Extends
<1>4. PICK e : e = FixedEnds(b)
  OBVIOUS
<1>5. old \in Infos \cup {None}
  OBVIOUS
<1>6. /\ e[0] = b /\ \A n \in 0 .. d : e[n] \in Nat
      /\ \A n \in 1 .. d : e[n] = IF nc.vars[n].rec THEN e[n - 1]
                                  ELSE Larger(e[n - 1], OldBegin(n)) + VarLen(nc.vars[n])
      /\ \A i, k \in 0 .. d : i <= k => e[i] <= e[k]
  BY <1>2, <1>4, <1>5, FixedEndsIs, FixedEndsGrow
<1>7. \A i \in 1 .. c : OldBegin(i) = old.vars[i].begin
  BY <1>1 DEF OldBegin
<1>8. \A i \in 1 .. c : /\ old.vars[i].begin \in Nat /\ VarLen(old.vars[i]) \in Nat
                        /\ End(old, i) = old.vars[i].begin + VarLen(old.vars[i])
                        /\ VarLen(nc.vars[i]) = VarLen(old.vars[i])
  BY <1>1, <1>3, EndIs DEF VarLen
<1>9. \A i \in Fixed(old) : new.vars[i].begin = Larger(e[i - 1], old.vars[i].begin)
  <2> SUFFICES ASSUME NEW i \in 1 .. c, ~old.vars[i].rec
               PROVE  new.vars[i].begin = Larger(e[i - 1], old.vars[i].begin)
    BY <1>1
  <2>1. i \in 1 .. d /\ ~nc.vars[i].rec
    BY <1>2, <1>3
  <2>2. new.vars[i].begin = Larger(FixedEnds(b)[i - 1], OldBegin(i))
    BY <1>2, <2>1 DEF PlacedFrom
  <2> QED
    BY <1>4, <1>7, <2>2
<1> SUFFICES ASSUME Fixed(old) # {}
             PROVE  MovedVars(new) = {}
  BY DEF MovedVars
<1>10. PICK m \in 1 .. c : /\ m = Least(Fixed(old)) /\ m \in Fixed(old)
                           /\ \A j \in Fixed(old) : m <= j
  <2>1. Fixed(old) \subseteq Nat
    BY <1>1
  <2>2. Least(Fixed(old)) \in Fixed(old) /\ \A j \in Fixed(old) : Least(Fixed(old)) <= j
    BY <2>1, LeastIs
  <2> QED
    BY <1>1, <2>2
<1>11. Least(Fixed(nc)) = m
  <2>1. Fixed(nc) \subseteq Nat /\ m \in Fixed(nc)
    <3>1. ~old.vars[m].rec
      BY <1>1, <1>10
    <3>2. m \in 1 .. d /\ ~nc.vars[m].rec
      BY <1>2, <1>3, <3>1
    <3> QED
      BY <1>2, <3>2
  <2>2. PICK k \in Nat : /\ k = Least(Fixed(nc)) /\ k \in Fixed(nc) /\ k <= m
    BY <2>1, LeastIs
  <2>3. k \in Fixed(old)
    <3>1. k \in 1 .. d /\ ~nc.vars[k].rec
      BY <1>2, <2>2
    <3>2. k \in 1 .. c
      BY <2>2, <3>1
    <3> QED
      BY <1>1, <1>3, <3>1, <3>2
  <2>4. m <= k
    BY <1>10, <2>3
  <2> QED
    BY <2>2, <2>4
<1>12. old.vars[m].begin = Larger(e[m - 1], old.vars[m].begin)
  <2>1. Fixed(nc) # {}
    BY <1>1, <1>2, <1>3, <1>10
  <2>2. new.begin_var = new.vars[m].begin
    BY <1>11, <2>1 DEF PlacedFrom
  <2>3. old.begin_var = old.vars[m].begin
    BY <1>10 DEF LaidOut
  <2>4. new.vars[m].begin = Larger(e[m - 1], old.vars[m].begin)
    BY <1>9, <1>10
  <2> QED
    BY <2>2, <2>3, <2>4
<1>13. b <= old.vars[m].begin
  <2>1. m - 1 \in 0 .. d /\ 0 \in 0 .. d /\ 0 <= m - 1
    BY <1>2
  <2>2. e[0] <= e[m - 1] /\ e[m - 1] \in Nat
    BY <1>6, <2>1
  <2>3. e[m - 1] <= old.vars[m].begin
    BY <1>8, <1>12, <2>2 DEF Larger
  <2> QED
    BY <1>6, <1>8, <2>2, <2>3
<1>14. PICK T : T = {n \in Nat : n <= c => \A i \in Fixed(old) : n < i => e[n] <= old.vars[i].begin}
  OBVIOUS
<1>15. 0 \in T
  <2> SUFFICES ASSUME NEW i \in Fixed(old)
               PROVE  e[0] <= old.vars[i].begin
    BY <1>14
  <2>1. i \in 1 .. c /\ m <= i
    BY <1>1, <1>10
  <2>2. m < i => End(old, m) <= old.vars[i].begin
    BY <1>10 DEF LaidOut
  <2>3. old.vars[m].begin <= old.vars[i].begin
    BY <1>8, <2>1, <2>2
  <2> QED
    BY <1>6, <1>8, <1>13, <2>1, <2>3
<1>16. ASSUME NEW n \in Nat, n \in T
       PROVE  n + 1 \in T
  <2> SUFFICES ASSUME n + 1 <= c, NEW i \in Fixed(old), n + 1 < i
               PROVE  e[n + 1] <= old.vars[i].begin
    BY <1>14
  <2>1. n + 1 \in 1 .. c /\ n + 1 \in 1 .. d /\ (n + 1) - 1 = n /\ n <= c /\ n \in 0 .. d
        /\ i \in 1 .. c /\ n < i
    BY <1>1, <1>2
  <2>2. \A j \in Fixed(old) : n < j => e[n] <= old.vars[j].begin
    BY <1>14, <1>16, <2>1
  <2>3. CASE old.vars[n + 1].rec
    <3>1. e[n + 1] = e[n]
      BY <1>3, <1>6, <2>1, <2>3
    <3> QED
      BY <2>1, <2>2, <3>1
  <2>4. CASE ~old.vars[n + 1].rec
    <3>1. n + 1 \in Fixed(old)
      BY <1>1, <2>1, <2>4
    <3>2. PICK x \in Nat, y \in Nat, l \in Nat :
            /\ x = e[n] /\ y = old.vars[n + 1].begin /\ l = VarLen(nc.vars[n + 1])
            /\ End(old, n + 1) = y + l
      <4>1. e[n] \in Nat
        BY <1>6, <2>1
      <4>2. /\ old.vars[n + 1].begin \in Nat /\ VarLen(old.vars[n + 1]) \in Nat
            /\ End(old, n + 1) = old.vars[n + 1].begin + VarLen(old.vars[n + 1])
            /\ VarLen(nc.vars[n + 1]) = VarLen(old.vars[n + 1])
        BY <1>8, <2>1
      <4> QED
        BY <4>1, <4>2
    <3>3. x <= y
      BY <2>2, <3>1, <3>2
    <3>4. e[n + 1] = Larger(x, y) + l
      BY <1>3, <1>6, <1>7, <2>1, <2>4, <3>2
    <3>5. Larger(x, y) = y
      BY <3>3 DEF Larger
    <3>6. End(old, n + 1) <= old.vars[i].begin
      BY <3>1 DEF LaidOut
    <3> QED
      BY <3>2, <3>4, <3>5, <3>6
  <2> QED
    BY <2>3, <2>4
<1>17. Nat \subseteq T
  BY <1>15, <1>16, EveryNatural
<1>18. ASSUME NEW i \in Fixed(old)
       PROVE  ~(new.vars[i].begin > old.vars[i].begin)
  <2>1. i \in 1 .. c /\ i - 1 \in Nat /\ i - 1 <= c /\ i - 1 < i /\ i - 1 \in 0 .. d
    BY <1>1, <1>2
  <2>2. i - 1 \in T
    BY <1>17, <2>1
  <2>3. e[i - 1] <= old.vars[i].begin
    BY <1>14, <2>1, <2>2
  <2>4. PICK x \in Nat, y \in Nat : x = e[i - 1] /\ y = old.vars[i].begin /\ x <= y
    BY <1>6, <1>8, <2>1, <2>3
  <2>5. new.vars[i].begin = Larger(x, y)
    BY <1>9, <2>4
  <2>6. new.vars[i].begin = y
    BY <2>4, <2>5 DEF Larger
  <2> QED
    BY <2>4, <2>6
<1> QED
  BY <1>18 DEF MovedVars

-----------------------------------------------------------------------------
(* nc_enddef keeps the values *)

(* What nc_enddef finds after nc_redef is a later layout, and all values   *)
(* lie below the bound in it.                                              *)
LEMMA EnddefLater ==
  ASSUME Rounded, IInv, Padding, old # None, NEW r \in Reserves,
         NEW new, new = NC_begins(r), Endable(new)
  PROVE  /\ Later(old, new) /\ XSize(new) <= Size
         /\ new.numrecs = old.numrecs
         /\ new.begin_var > old.begin_var \/ MovedVars(new) = {}
         /\ \A p \in Places(old) : Offset(new, p[2], p[1]) + VarLen(old.vars[p[2]]) <= Size
<1>1. /\ nc # None /\ nc \in Infos /\ old \in Infos /\ LaidOut(old) /\ Extends(old, nc)
      /\ InPlace(old) /\ nc.numrecs = old.numrecs /\ old.numrecs \in 0 .. MaxRecs
  BY GoodInfo DEF IInv, Parts, Modes, Layout, Settled, Padding, HeaderOK, InfoGood
<1>2. Asserted(new) /\ Fits(new)
  BY DEF Endable
<1>3. new.begin_rec >= old.begin_rec \/ old = None
  BY <1>2 DEF Asserted
<1>4. /\ new \in Infos /\ LaidOut(new) /\ new.numrecs = nc.numrecs
      /\ Extends(old, new) /\ new.begin_var >= old.begin_var
      /\ new.begin_rec >= old.begin_rec
      /\ \A i \in DOMAIN old.vars : /\ i \in DOMAIN new.vars
                                    /\ new.vars[i].begin >= old.vars[i].begin
  BY <1>1, <1>3, EnddefIs
<1>5. XSize(new) <= Size
  BY <1>2 DEF Fits
<1>6. InPlace(new)
  BY <1>1, EnddefPads
<1>7. PICK c \in Nat, n \in Nat :
        /\ c = Len(old.vars) /\ DOMAIN old.vars = 1 .. c /\ n = old.numrecs /\ n <= MaxRecs
        /\ Recs(old) \subseteq 1 .. c /\ Fixed(old) \subseteq 1 .. c
  <2>1. old.vars \in Seq(Vars)
    BY <1>1, InfosAre
  <2>2. /\ Len(old.vars) \in Nat /\ DOMAIN old.vars = 1 .. Len(old.vars)
        /\ Recs(old) \subseteq 1 .. Len(old.vars) /\ Fixed(old) \subseteq 1 .. Len(old.vars)
    BY <2>1, RecsIs
  <2>3. old.numrecs \in Nat /\ old.numrecs <= MaxRecs
    BY <1>1, ParametersAssumption
  <2> QED
    BY <2>2, <2>3
<1>8. PICK m \in Nat : MaxRecs = m + 1 /\ m = MaxRecs - 1
  BY ParametersAssumption
<1>9. \A i \in 1 .. c : /\ i \in 1 .. Len(new.vars) /\ i \in 1 .. Len(old.vars)
                        /\ old.vars[i].begin \in Nat
                        /\ new.vars[i].begin \in Nat /\ VarLen(new.vars[i]) \in Nat
                        /\ VarLen(old.vars[i]) = VarLen(new.vars[i])
                        /\ new.vars[i].rec = old.vars[i].rec
  <2>1. new.vars \in Seq(Vars) /\ old.vars \in Seq(Vars)
    BY <1>1, <1>4, InfosAre
  <2>2. \A i \in 1 .. c : /\ i \in 1 .. Len(new.vars) /\ new.vars[i].rec = old.vars[i].rec
                          /\ new.vars[i].xlen = old.vars[i].xlen
    BY <1>4, <1>7, <2>1, RecsIs DEF Extends
  <2> QED
    BY <1>7, <2>1, <2>2, EndIs DEF VarLen
<1>10. ASSUME NEW p \in Places(old)
       PROVE  /\ Offset(old, p[2], p[1]) <= Offset(new, p[2], p[1])
              /\ Offset(new, p[2], p[1]) + VarLen(old.vars[p[2]]) <= Size
  <2>1. PICK rec, i : rec = p[1] /\ i = p[2]
    OBVIOUS
  <2>2. (rec = 0 /\ i \in Fixed(old)) \/ (rec \in 0 .. n - 1 /\ i \in Recs(old))
    BY <1>7, <2>1 DEF Places
  <2>3. i \in 1 .. c /\ rec \in Nat /\ rec <= m
    BY <1>7, <1>8, <2>2
  <2>4. i \in 1 .. Len(new.vars) /\ i \in 1 .. Len(old.vars)
    BY <1>9, <2>3
  <2>5. PICK a \in Nat, o \in Nat, z \in Nat :
          /\ a = Offset(old, i, rec) /\ o = Offset(new, i, rec) /\ z = Offset(new, i, m)
    BY <1>1, <1>4, <2>3, <2>4, OffsetIs
  <2>6. a <= o
    <3>1. CASE rec = 0 /\ i \in Fixed(old)
      <4>1. a = old.vars[i].begin /\ o = new.vars[i].begin
        <5>1. a = Offset(old, i, 0) /\ o = Offset(new, i, 0)
          BY <2>5, <3>1
        <5>2. Offset(old, i, 0) = old.vars[i].begin
          BY <1>1, <2>4, OffsetIs
        <5>3. Offset(new, i, 0) = new.vars[i].begin
          <6>1. new \in Infos /\ i \in 1 .. Len(new.vars)
            BY <1>4, <2>4
          <6> QED
            BY <6>1, OffsetIs
        <5> QED
          BY <5>1, <5>2, <5>3
      <4>2. new.vars[i].begin >= old.vars[i].begin
        BY <1>4, <1>7, <2>3
      <4> QED
        BY <2>5, <4>1, <4>2
    <3>2. CASE rec \in 0 .. n - 1 /\ i \in Recs(old)
      <4>1. Offset(new, i, rec) >= Offset(old, i, rec)
        BY <1>2, <1>7, <3>2 DEF Asserted
      <4> QED
        BY <2>5, <4>1
    <3> QED
      BY <2>2, <3>1, <3>2
  <2>7. o <= z
    <3>1. CASE new.vars[i].rec
      <4>1. PICK s \in Nat, x \in Nat : s = new.recsize /\ x = new.vars[i].begin
        BY <1>4, <1>9, <2>3, InfosAre
      <4>2. o = x + s * rec /\ z = x + s * m
        BY <1>4, <2>3, <2>4, <2>5, <3>1, <4>1, OffsetIs
      <4>3. PICK j \in Nat, k \in Nat : j = s * rec /\ k = s * m /\ j <= k
        BY <2>3, ProductGrows
      <4> QED
        BY <4>2, <4>3
    <3>2. CASE ~new.vars[i].rec
      <4>1. o = new.vars[i].begin /\ z = new.vars[i].begin
        BY <1>4, <2>3, <2>4, <2>5, <3>2, OffsetIs
      <4> QED
        BY <2>5, <4>1
    <3> QED
      BY <3>1, <3>2
  <2>8. PICK l \in Nat : l = VarLen(old.vars[i]) /\ l = VarLen(new.vars[i])
    BY <1>9, <2>3
  <2>9. z + l <= Size
    <3>1. i \in DOMAIN new.vars
      BY <1>4, <1>7, <2>3
    <3>2. Offset(new, i, MaxRecs - 1) + VarLen(new.vars[i]) <= Size
      BY <1>2, <3>1 DEF Fits
    <3> QED
      BY <1>8, <2>5, <2>8, <3>2
  <2>10. o + l <= Size
    BY <2>7, <2>9, ParametersAssumption
  <2> QED
    BY <2>1, <2>5, <2>6, <2>8, <2>10
<1>11. Later(old, new)
  BY <1>1, <1>4, <1>6, <1>10 DEF Later, InPlace
<1>12. new.begin_var > old.begin_var \/ MovedVars(new) = {}
  <2>1. CASE nc.vars = <<>>
    <3>1. Fixed(old) = {}
      <4>1. Len(nc.vars) = 0
        BY <2>1
      <4>2. c = 0
        BY <1>1, <1>7, <4>1 DEF Extends
      <4> QED
        BY <1>7, <4>2
    <3> QED
      BY <3>1 DEF MovedVars
  <2>2. CASE nc.vars # <<>> /\ new.begin_var = old.begin_var
    <3>1. PICK b \in Nat : PlacedFrom(b, new)
      BY <1>1, <2>2, BeginsIs
    <3> QED
      BY <1>1, <2>2, <3>1, FixedStay
  <2>3. new.begin_var \in Nat /\ old.begin_var \in Nat
    BY <1>1, <1>4, InfosAre
  <2> QED
    BY <1>4, <2>1, <2>2, <2>3
<1> QED
  BY <1>1, <1>4, <1>5, <1>10, <1>11, <1>12

(* ValueAt and Meaning of any file.                                        *)
ValueIn(f, at, len) ==
  LET found == {v \in Values \cup {Fill} :
                  \A k \in 0 .. len - 1 : f.bytes[at + k] = <<v, k>>}
  IN IF found = {} THEN Garbage ELSE CHOOSE v \in found : TRUE
MeaningIn(f, h) ==
  [att |-> h.att,
   numrecs |-> h.numrecs,
   vars |-> [i \in DOMAIN h.vars |->
     [rec  |-> h.vars[i].rec,
      data |-> [r \in 1 .. IF h.vars[i].rec THEN h.numrecs ELSE 1 |->
                  ValueIn(f, Offset(h, i, r - 1), h.vars[i].xlen)]]]]

(* A value is what its bytes say.                                          *)
LEMMA ValueSame ==
  ASSUME NEW f, NEW g, NEW at, NEW to, NEW len,
         \A k \in 0 .. len - 1 : g.bytes[to + k] = f.bytes[at + k]
  PROVE  ValueIn(g, to, len) = ValueIn(f, at, len)
<1>1. PICK S : S = {v \in Values \cup {Fill} :
                      \A k \in 0 .. len - 1 : f.bytes[at + k] = <<v, k>>}
  OBVIOUS
<1>2. S = {v \in Values \cup {Fill} :
             \A k \in 0 .. len - 1 : g.bytes[to + k] = <<v, k>>}
  BY <1>1
<1>3. ValueIn(f, at, len) = IF S = {} THEN Garbage ELSE CHOOSE v \in S : TRUE
  BY <1>1 DEF ValueIn
<1>4. ValueIn(g, to, len) = IF S = {} THEN Garbage ELSE CHOOSE v \in S : TRUE
  BY <1>2 DEF ValueIn
<1> QED
  BY <1>3, <1>4

(* The meaning of a header, by its parts.                                  *)
LEMMA MeaningOf ==
  ASSUME NEW f, NEW h, NEW i \in DOMAIN h.vars, NEW n,
         n = IF h.vars[i].rec THEN h.numrecs ELSE 1
  PROVE  MeaningIn(f, h).vars[i] =
           [rec  |-> h.vars[i].rec,
            data |-> [k \in 1 .. n |-> ValueIn(f, Offset(h, i, k - 1), h.vars[i].xlen)]]
BY DEF MeaningIn

(* The end of a redefinition leaves every variable with its values.        *)
LEMMA EnddefValues ==
  ASSUME Rounded, IInv, Padding, old # None, NEW r \in Reserves,
         NEW new, new = NC_begins(r), Endable(new), NEW i \in DOMAIN old.vars
  PROVE  MeaningIn(Done(new, Steps(new)), new).vars[i] = MeaningIn(file, old).vars[i]
<1>1. PICK f : f = Done(new, Steps(new))
  OBVIOUS
<1>2. old \in Infos /\ FileIs(file)
  BY GoodInfo DEF IInv, Parts, FileGood
<1>3. /\ Later(old, new) /\ XSize(new) <= Size /\ new.numrecs = old.numrecs
      /\ new.begin_var > old.begin_var \/ MovedVars(new) = {}
      /\ \A p \in Places(old) : Offset(new, p[2], p[1]) + VarLen(old.vars[p[2]]) <= Size
  BY EnddefLater
<1>4. PICK n : n = IF old.vars[i].rec THEN old.numrecs ELSE 1
  OBVIOUS
<1>5. /\ old.vars \in Seq(Vars) /\ i \in 1 .. Len(old.vars) /\ old.numrecs \in Nat
      /\ n \in Nat
  BY <1>2, <1>4, InfosAre, RecsIs
<1>6. /\ i \in DOMAIN new.vars /\ new.vars[i].rec = old.vars[i].rec
      /\ new.vars[i].xlen = old.vars[i].xlen
  <2>1. new \in Infos /\ Extends(old, new)
    BY <1>3 DEF Later
  <2>2. Len(old.vars) <= Len(new.vars) /\ Len(new.vars) \in Nat
        /\ DOMAIN new.vars = 1 .. Len(new.vars)
    BY <2>1, InfosAre, RecsIs DEF Extends
  <2> QED
    BY <1>5, <2>1, <2>2, RecsIs DEF Extends
<1>7. ASSUME NEW k \in 1 .. n
      PROVE  ValueIn(f, Offset(new, i, k - 1), old.vars[i].xlen)
               = ValueIn(file, Offset(old, i, k - 1), old.vars[i].xlen)
  <2>1. PICK p : p = <<k - 1, i>>
    OBVIOUS
  <2>2. p \in Places(old) /\ p[1] = k - 1 /\ p[2] = i
    <3>1. CASE old.vars[i].rec
      <4>1. k - 1 \in 0 .. old.numrecs - 1 /\ i \in Recs(old)
        BY <1>4, <1>5, <3>1 DEF Recs
      <4> QED
        BY <2>1, <4>1 DEF Places
    <3>2. CASE ~old.vars[i].rec
      <4>1. k - 1 \in {0} /\ i \in Fixed(old)
        BY <1>4, <1>5, <3>2 DEF Recs, Fixed
      <4> QED
        BY <2>1, <4>1 DEF Places
    <3> QED
      BY <3>1, <3>2
  <2>3. PICK x \in Nat, l \in Nat : x = old.vars[i].xlen /\ l = VarLen(old.vars[i]) /\ x <= l
    BY <1>5, EndIs
  <2>4. ASSUME NEW b \in 0 .. x - 1
        PROVE  f.bytes[Offset(new, i, k - 1) + b] = file.bytes[Offset(old, i, k - 1) + b]
    <3>1. b \in Nat /\ b < VarLen(old.vars[p[2]])
      BY <2>2, <2>3
    <3>2. Done(new, Steps(new)).bytes[Offset(new, p[2], p[1]) + b]
            = file.bytes[Offset(old, p[2], p[1]) + b]
      BY <1>2, <1>3, <2>2, <3>1, EnddefMoves
    <3> QED
      BY <1>1, <2>2, <3>2
  <2>5. PICK at, to : at = Offset(old, i, k - 1) /\ to = Offset(new, i, k - 1)
    OBVIOUS
  <2>6. ValueIn(f, to, x) = ValueIn(file, at, x)
    BY <2>4, <2>5, ValueSame
  <2> QED
    BY <2>3, <2>5, <2>6
<1>8. MeaningIn(file, old).vars[i] =
        [rec |-> old.vars[i].rec,
         data |-> [k \in 1 .. n |-> ValueIn(file, Offset(old, i, k - 1), old.vars[i].xlen)]]
  BY <1>4, MeaningOf
<1>9. MeaningIn(f, new).vars[i] =
        [rec |-> old.vars[i].rec,
         data |-> [k \in 1 .. n |-> ValueIn(f, Offset(new, i, k - 1), old.vars[i].xlen)]]
  <2>1. n = IF new.vars[i].rec THEN new.numrecs ELSE 1
    BY <1>3, <1>4, <1>6
  <2>2. MeaningIn(f, new).vars[i] =
          [rec |-> new.vars[i].rec,
           data |-> [k \in 1 .. n |-> ValueIn(f, Offset(new, i, k - 1), new.vars[i].xlen)]]
    BY <1>6, <2>1, MeaningOf
  <2> QED
    BY <1>6, <2>2
<1> QED
  BY <1>1, <1>7, <1>8, <1>9

(* Which is what becomes of the dataset.                                   *)
LEMMA EnddefKeepsStep ==
  ASSUME Rounded, IInv, Padding, old # None, NEW r \in Reserves, NC3__enddef(r)
  PROVE  \A i \in DOMAIN old.vars : Dataset'.vars[i] = Dataset.vars[i]
<1>1. PICK new : /\ new = NC_begins(r) /\ Endable(new) /\ nc' = new /\ old' = None
                 /\ file' = Done(new, Steps(new))
                 /\ flags' = flags \ {"CREAT", "INDEF", "HDIRTY", "NDIRTY"}
  BY DEF NC3__enddef
<1>2. /\ nc # None /\ "INDEF" \in flags /\ "CREAT" \notin flags
      /\ file.exists /\ old \in Infos /\ FileIs(file)
  BY GoodInfo DEF IInv, Modes, Parts, FileGood
<1>3. ~NoFile.exists
  BY DEF NoFile
<1>4. Dataset = MeaningIn(file, old)
  <2>1. Dataset = Meaning(old)
    BY <1>2, <1>3 DEF Dataset, Valid
  <2>2. Meaning(old) = MeaningIn(file, old)
    BY DEF Meaning, ValueAt, MeaningIn, ValueIn
  <2> QED
    BY <2>1, <2>2
<1>5. new # None /\ file'.exists
  BY <1>1, <1>2, EnddefDone, GoodInfo
<1>6. Dataset' = MeaningIn(file', new)
  <2>1. Dataset' = Meaning(nc)'
    BY <1>1, <1>3, <1>5 DEF Dataset, Valid, IsOpen
  <2>2. Meaning(nc)' = MeaningIn(file', nc')
    BY DEF Meaning, ValueAt, MeaningIn, ValueIn
  <2> QED
    BY <1>1, <2>1, <2>2
<1>7. \A i \in DOMAIN old.vars :
        MeaningIn(file', new).vars[i] = MeaningIn(file, old).vars[i]
  BY <1>1, EnddefValues
<1> QED
  BY <1>4, <1>6, <1>7

(* Ending a redefinition keeps the values of all variables if everything   *)
(* is padded: the header, the free space and the alignment that are asked  *)
(* for.  Without that a record may be moved onto one that is moved later,  *)
(* as the shapes OneByte with the reserves Unaligned of MCNC3 show.        *)
THEOREM EnddefNeverLoses ==
  ASSUME Rounded
  PROVE  Spec => EnddefKeepsValues
<1>1. Init => Padding
  <2>1. None.vars = <<>> /\ NoFile.header.vars = <<>>
    BY DEF None, NoFile
  <2> QED
    BY <2>1 DEF Init, Padding, Begins
<1>2. IInv /\ Padding /\ [Next]_vars => Padding'
  BY PaddingInductive
<1>3. IInv /\ Padding /\ [Next]_vars =>
        [old # None /\ old' = None /\ IsOpen' =>
           \A i \in DOMAIN old.vars : Dataset'.vars[i] = Dataset.vars[i]]_vars
  <2> SUFFICES ASSUME IInv, Padding, [Next]_vars, old # None, old' = None, IsOpen'
               PROVE  \A i \in DOMAIN old.vars : Dataset'.vars[i] = Dataset.vars[i]
    OBVIOUS
  <2>1. /\ "INDEF" \in flags /\ Indef /\ IsOpen
    BY DEF IInv, Modes, Indef, IsOpen
  <2>2. CASE \E r \in Reserves : NC3__enddef(r)
    BY <2>2, EnddefKeepsStep
  <2>3. ~NC3_close /\ ~NC3_abort
    BY DEF NC3_close, NC3_abort, IsOpen
  <2>4. ~NC3_redef /\ ~NC3_sync
    BY <2>1 DEF NC3_redef, NC3_sync
  <2>5. \A share \in Shared : ~NC3_create(share) /\ ~NC3_open(share)
    BY <2>1 DEF NC3_create, NC3_open
  <2>6. \A r \in Reserves : ~NC3__enddef_fails(r)
    BY DEF NC3__enddef_fails
  <2>7. /\ \A shape \in Shapes : ~NC3_def_var(shape)
        /\ \A size \in AttSizes : ~NC3_put_att(size)
        /\ \A i \in 1 .. MaxVars, rec \in 0 .. MaxRecs - 1, v \in Values :
             ~NC3_put_vara(i, rec, v)
    BY DEF NC3_def_var, NC3_put_att, NC3_put_vara
  <2>8. ~UNCHANGED vars
    BY DEF vars
  <2> QED
    BY <2>2, <2>3, <2>4, <2>5, <2>6, <2>7, <2>8 DEF Next
<1> QED
  BY <1>1, <1>2, <1>3, Invariant, PTL DEF Spec, EnddefKeepsValues

-----------------------------------------------------------------------------
(* What is filled *)

(* Fills that leave the byte at a alone or put the byte b of a value there. *)
FillsOn(a, b) ==
  {s \in FillSteps(0) : a < s.to \/ s.to + s.len <= a \/ a = s.to + b}
Covers(s, a) == s.to <= a /\ a < s.to + s.len

(* What such a fill does.                                                  *)
LEMMA FillDoes ==
  ASSUME NEW new, NEW f, FileIs(f), NEW a \in Addr, NEW b \in Nat, NEW s \in FillsOn(a, b)
  PROVE  /\ FileIs(Step(new, f, s)) /\ Step(new, f, s).header = f.header
         /\ Step(new, f, s).exists = f.exists
         /\ Step(new, f, s).bytes[a] = IF Covers(s, a) THEN <<Fill, b>> ELSE f.bytes[a]
<1>1. PICK to \in Nat, len \in Nat :
        /\ to = s.to /\ len = s.len /\ s.op = "fill"
        /\ a < to \/ to + len <= a \/ a = to + b
  BY DEF FillsOn, FillSteps
<1>2. PICK g : g = Step(new, f, s) /\ g = WithValue(f, to, len, Fill)
  BY <1>1 DEF Step
<1>3. FileIs(g) /\ g.header = f.header /\ g.exists = f.exists
  BY <1>2, ValueIs
<1>4. PICK bytes : bytes = [c \in Addr |-> IF c \in to .. to + len - 1 THEN <<Fill, c - to>>
                                           ELSE f.bytes[c]]
  OBVIOUS
<1>5. g.bytes = bytes
  BY <1>2, <1>4 DEF WithValue, WithBytes, FileIs
<1>6. a \in Nat
  BY ParametersAssumption DEF Addr
<1>7. CASE to <= a /\ a < to + len
  <2>1. a \in to .. to + len - 1 /\ a - to = b
    BY <1>1, <1>6, <1>7
  <2>2. bytes[a] = <<Fill, b>>
    BY <1>4, <2>1
  <2> QED
    BY <1>1, <1>2, <1>3, <1>5, <1>7, <2>2 DEF Covers
<1>8. CASE ~(to <= a /\ a < to + len)
  <2>1. a \notin to .. to + len - 1
    BY <1>6, <1>8
  <2>2. bytes[a] = f.bytes[a]
    BY <1>4, <2>1
  <2> QED
    BY <1>1, <1>2, <1>3, <1>5, <1>8, <2>2 DEF Covers
<1> QED
  BY <1>7, <1>8

(* The files g[0] to g[q] while q fills are made.                          *)
Chain(new, f, q, g) == \A k \in 1 .. q : g[k] = Step(new, g[k - 1], f[k])

AllOn(f, q, a, b) == \A k \in 1 .. q : f[k] \in FillsOn(a, b)
Covered(f, q, a)  == \E k \in 1 .. q : Covers(f[k], a)

(* What a sequence of fills does to a byte.                                *)
LEMMA FillsDo ==
  ASSUME NEW new, NEW q \in Nat, NEW f, NEW g, Chain(new, f, q, g), FileIs(g[0]),
         NEW a \in Addr, NEW b \in Nat, AllOn(f, q, a, b)
  PROVE  /\ FileIs(g[q]) /\ g[q].header = g[0].header /\ g[q].exists = g[0].exists
         /\ g[q].bytes[a] = IF Covered(f, q, a) THEN <<Fill, b>> ELSE g[0].bytes[a]
<1>1. PICK T : T = {j \in Nat : j <= q =>
                      /\ FileIs(g[j]) /\ g[j].header = g[0].header
                      /\ g[j].exists = g[0].exists
                      /\ (\E k \in 1 .. j : Covers(f[k], a)) => g[j].bytes[a] = <<Fill, b>>
                      /\ (\A k \in 1 .. j : ~Covers(f[k], a)) => g[j].bytes[a] = g[0].bytes[a]}
  OBVIOUS
<1>2. 0 \in T
  BY <1>1
<1>3. ASSUME NEW j \in Nat, j \in T
      PROVE  j + 1 \in T
  <2> SUFFICES ASSUME j + 1 <= q
               PROVE  /\ FileIs(g[j + 1]) /\ g[j + 1].header = g[0].header
                      /\ g[j + 1].exists = g[0].exists
                      /\ (\E k \in 1 .. j + 1 : Covers(f[k], a)) =>
                           g[j + 1].bytes[a] = <<Fill, b>>
                      /\ (\A k \in 1 .. j + 1 : ~Covers(f[k], a)) =>
                           g[j + 1].bytes[a] = g[0].bytes[a]
    BY <1>1
  <2>1. PICK k \in 1 .. q : k = j + 1 /\ k - 1 = j
    OBVIOUS
  <2>2. /\ FileIs(g[j]) /\ g[j].header = g[0].header /\ g[j].exists = g[0].exists
        /\ (\E l \in 1 .. j : Covers(f[l], a)) => g[j].bytes[a] = <<Fill, b>>
        /\ (\A l \in 1 .. j : ~Covers(f[l], a)) => g[j].bytes[a] = g[0].bytes[a]
    BY <1>1, <1>3
  <2>3. g[k] = Step(new, g[j], f[k]) /\ f[k] \in FillsOn(a, b)
    BY <2>1 DEF Chain, AllOn
  <2>4. /\ FileIs(g[k]) /\ g[k].header = g[0].header /\ g[k].exists = g[0].exists
        /\ g[k].bytes[a] = IF Covers(f[k], a) THEN <<Fill, b>> ELSE g[j].bytes[a]
    <3>1. PICK e, s : e = g[j] /\ s = f[k]
      OBVIOUS
    <3>2. FileIs(e) /\ s \in FillsOn(a, b) /\ g[k] = Step(new, e, s)
      BY <2>2, <2>3, <3>1
    <3>3. /\ FileIs(Step(new, e, s)) /\ Step(new, e, s).header = e.header
          /\ Step(new, e, s).exists = e.exists
          /\ Step(new, e, s).bytes[a] = IF Covers(s, a) THEN <<Fill, b>> ELSE e.bytes[a]
      BY <3>2, FillDoes
    <3> QED
      BY <2>2, <3>1, <3>2, <3>3
  <2>5. ASSUME NEW l \in 1 .. k, Covers(f[l], a)
        PROVE  g[k].bytes[a] = <<Fill, b>>
    <3>1. CASE l = k
      BY <2>4, <2>5, <3>1
    <3>2. CASE l # k
      <4>1. l \in 1 .. j
        BY <2>1, <3>2
      <4>2. g[j].bytes[a] = <<Fill, b>>
        BY <2>2, <2>5, <4>1
      <4> QED
        BY <2>4, <4>2
    <3> QED
      BY <3>1, <3>2
  <2>6. ASSUME \A l \in 1 .. k : ~Covers(f[l], a)
        PROVE  g[k].bytes[a] = g[0].bytes[a]
    <3>1. \A l \in 1 .. j : l \in 1 .. k
      BY <2>1
    <3>2. ~Covers(f[k], a)
      BY <2>1, <2>6
    <3> QED
      BY <2>2, <2>4, <2>6, <3>1, <3>2
  <2> QED
    BY <2>1, <2>4, <2>5, <2>6
<1>4. q \in T
  BY <1>2, <1>3, EveryNatural
<1> QED
  BY <1>1, <1>4 DEF Covered

(* The length that is filled: a value, and its padding if it has some.     *)
LEMMA FillLenIs ==
  ASSUME NEW h \in Infos, NEW i \in 1 .. Len(h.vars)
  PROVE  /\ FillLen(h, i) \in Nat /\ h.vars[i].xlen <= FillLen(h, i)
         /\ FillLen(h, i) <= VarLen(h.vars[i])
         /\ h.vars[i].rec /\ Recs(h) = {i} => FillLen(h, i) = h.vars[i].xlen
<1>1. h.vars \in Seq(Vars)
  BY InfosAre
<1>2. PICK x \in Nat, l \in Nat : x = h.vars[i].xlen /\ l = VarLen(h.vars[i]) /\ x <= l
  BY <1>1, EndIs
<1>3. CASE ~h.vars[i].rec
  BY <1>2, <1>3 DEF FillLen
<1>4. CASE h.vars[i].rec
  <2>1. i \in Recs(h) /\ FillLen(h, i) = RecSize(h, l)
    BY <1>1, <1>2, <1>4, LenProperties DEF FillLen, Recs
  <2>2. \/ Recs(h) = {i} /\ RecSize(h, l) = x
        \/ Recs(h) # {i} /\ RecSize(h, l) = l
    BY <1>1, <1>2, <2>1, RecSizeIs
  <2> QED
    BY <1>2, <2>1, <2>2
<1> QED
  BY <1>3, <1>4

(* A value that a header has: variable i, and its record r.                *)
IsPlace(h, i, r) == i \in 1 .. Len(h.vars) /\ r \in Nat /\ (h.vars[i].rec \/ r = 0)

(* What is filled for one value touches no other one.                      *)
LEMMA FilledApart ==
  ASSUME NEW h \in Infos, LaidOut(h),
         NEW i \in 1 .. Len(h.vars), NEW r \in Nat, h.vars[i].rec \/ r = 0,
         NEW k \in 1 .. Len(h.vars), NEW s \in Nat, h.vars[k].rec \/ s = 0,
         <<i, r>> # <<k, s>>
  PROVE  Disjoint(Offset(h, i, r), FillLen(h, i), Offset(h, k, s), FillLen(h, k))
<1>1. h.vars \in Seq(Vars)
  BY InfosAre
<1>2. PICK a \in Nat, b \in Nat : a = Offset(h, i, r) /\ b = Offset(h, k, s)
  BY OffsetIs
<1>3. PICK x \in Nat, y \in Nat, l \in Nat, m \in Nat :
        /\ x = FillLen(h, i) /\ y = FillLen(h, k)
        /\ l = VarLen(h.vars[i]) /\ m = VarLen(h.vars[k]) /\ x <= l /\ y <= m
  BY <1>1, EndIs, FillLenIs
<1>4. CASE i # k
  <2>1. Disjoint(a, l, b, m)
    <3>1. CASE i < k
      BY <1>2, <1>3, <3>1, LaidPadded
    <3>2. CASE k < i
      <4>1. Disjoint(b, m, a, l)
        BY <1>2, <1>3, <3>2, LaidPadded
      <4> QED
        BY <4>1 DEF Disjoint
    <3> QED
      BY <1>4, <3>1, <3>2
  <2>2. a + x <= b \/ b + y <= a
    BY <1>3, <2>1 DEF Disjoint
  <2> QED
    BY <1>2, <1>3, <2>2 DEF Disjoint
<1>5. CASE i = k
  <2>1. h.vars[i].rec /\ i \in Recs(h) /\ x = y
    BY <1>1, <1>3, <1>5, LenProperties DEF Recs
  <2>2. CASE Recs(h) = {i}
    <3>1. x = h.vars[i].xlen
      BY <1>3, <2>1, <2>2, FillLenIs
    <3>2. a + x <= b \/ b + x <= a
      <4>1. CASE r < s
        BY <1>2, <1>5, <2>1, <3>1, <4>1, LaidApart
      <4>2. CASE s < r
        BY <1>2, <1>5, <2>1, <3>1, <4>2, LaidApart
      <4> QED
        BY <1>5, <4>1, <4>2
    <3> QED
      BY <1>2, <1>3, <2>1, <3>2 DEF Disjoint
  <2>3. CASE Recs(h) # {i}
    <3>1. a + l <= b \/ b + l <= a
      <4>1. CASE r < s
        BY <1>2, <1>3, <1>5, <2>1, <2>3, <4>1, RecordPadded
      <4>2. CASE s < r
        BY <1>2, <1>3, <1>5, <2>1, <2>3, <4>2, RecordPadded
      <4> QED
        BY <1>5, <4>1, <4>2
    <3> QED
      BY SMTT(30), <1>2, <1>3, <2>1, <3>1 DEF Disjoint
  <2> QED
    BY <2>2, <2>3
<1> QED
  BY <1>4, <1>5

(* The byte b of what is filled for a value is at a.                       *)
ByteAt(h, i, r, b, a) ==
  IsPlace(h, i, r) /\ b \in Nat /\ b < FillLen(h, i) /\ a \in Addr /\ a = Offset(h, i, r) + b

(* The fill of any value, seen from a byte of one.                         *)
LEMMA FillOfOn ==
  ASSUME NEW h \in Infos, LaidOut(h), NEW i, NEW r, NEW b, NEW a, ByteAt(h, i, r, b, a),
         NEW k, NEW s, IsPlace(h, k, s)
  PROVE  /\ FillOf(h, k, s) \in FillsOn(a, b)
         /\ Covers(FillOf(h, k, s), a) <=> (i = k /\ r = s)
<1>1. /\ i \in 1 .. Len(h.vars) /\ r \in Nat /\ (h.vars[i].rec \/ r = 0)
      /\ k \in 1 .. Len(h.vars) /\ s \in Nat /\ (h.vars[k].rec \/ s = 0)
      /\ b \in Nat /\ b < FillLen(h, i) /\ a = Offset(h, i, r) + b
  BY DEF IsPlace, ByteAt
<1>2. PICK at \in Nat, to \in Nat : at = Offset(h, i, r) /\ to = Offset(h, k, s)
  BY <1>1, OffsetIs
<1>3. PICK x \in Nat, y \in Nat : x = FillLen(h, i) /\ y = FillLen(h, k)
  BY <1>1, FillLenIs
<1>4. PICK f : f = FillOf(h, k, s) /\ f = [op |-> "fill", to |-> to, len |-> y]
  BY <1>2, <1>3 DEF FillOf
<1>5. f \in FillSteps(0) /\ f.to = to /\ f.len = y
  BY <1>4 DEF FillSteps
<1>6. CASE i = k /\ r = s
  <2>1. to = at /\ y = x
    BY <1>2, <1>3, <1>6
  <2>2. at + b = to + b /\ to <= at + b /\ at + b < to + y
    BY <1>1, <1>3, <2>1
  <2> QED
    BY <1>1, <1>2, <1>4, <1>5, <1>6, <2>2 DEF FillsOn, Covers
<1>7. CASE ~(i = k /\ r = s)
  <2>1. at + x <= to \/ to + y <= at
    <3>1. <<i, r>> # <<k, s>>
      BY <1>7
    <3> QED
      BY <1>1, <1>2, <1>3, <3>1, FilledApart DEF Disjoint
  <2>2. (at + b < to \/ to + y <= at + b) /\ ~(to <= at + b /\ at + b < to + y)
    BY SMTT(30), <1>1, <1>3, <2>1
  <2> QED
    BY <1>1, <1>2, <1>4, <1>5, <1>7, <2>2 DEF FillsOn, Covers
<1> QED
  BY <1>6, <1>7

(* A sequence of fills of the places P.                                    *)
Filling(h, f, P) ==
  /\ f \in Seq(FillSteps(0))
  /\ \A k \in 1 .. Len(f) : \E p \in P : f[k] = FillOf(h, p[2], p[1])
  /\ \A p \in P : \E k \in 1 .. Len(f) : f[k] = FillOf(h, p[2], p[1])

(* The places from the front are all of them.                              *)
LEMMA UpwardsAll ==
  ASSUME NEW m \in Nat, NEW n \in Nat, NEW P, P \subseteq (0 .. m) \X (0 .. n)
  PROVE  \E u \in Seq(P) : u = Upwards(P) /\ \A p \in P : \E k \in 1 .. Len(u) : u[k] = p
<1>1. PICK s \in Seq(P) : s = Downwards(P) /\ \A p \in P : \E k \in 1 .. Len(s) : s[k] = p
  BY DownwardsIs
<1>2. PICK c \in Nat : c = Len(s)
  BY LenProperties
<1>3. PICK v : v = [k \in 1 .. c |-> s[(c - k) + 1]]
  OBVIOUS
<1>4. Upwards(P) = v
  BY <1>1, <1>2, <1>3 DEF Upwards, Reverse
<1>5. PICK u \in Seq(P) : u = v
  BY <1>4, UpwardsIs
<1>6. Len(u) = c
  BY <1>2, <1>3, <1>5, LenProperties
<1>7. ASSUME NEW p \in P
      PROVE  \E k \in 1 .. Len(u) : u[k] = p
  <2>1. PICK l \in 1 .. c : s[l] = p
    BY <1>1, <1>2
  <2>2. PICK k \in 1 .. c : k = (c - l) + 1 /\ (c - k) + 1 = l
    OBVIOUS
  <2>3. u[k] = p
    BY <1>3, <1>5, <2>1, <2>2
  <2> QED
    BY <1>6, <2>2, <2>3
<1> QED
  BY <1>4, <1>5, <1>7

(* FillsOf fills its places.                                               *)
LEMMA FillsOfFill ==
  ASSUME NEW h \in Infos, NEW m \in Nat, NEW P, P \subseteq (0 .. m) \X (1 .. Len(h.vars))
  PROVE  Filling(h, FillsOf(h, P), P)
<1>1. PICK n \in Nat : n = Len(h.vars)
  BY InfosAre, LenProperties
<1>2. P \subseteq (0 .. m) \X (0 .. n)
  <2>1. 1 .. n \subseteq 0 .. n
    OBVIOUS
  <2> QED
    BY <1>1, <2>1
<1>3. PICK u \in Seq(P) : u = Upwards(P) /\ \A p \in P : \E k \in 1 .. Len(u) : u[k] = p
  BY <1>2, UpwardsAll
<1>4. PICK c \in Nat : c = Len(u) /\ DOMAIN u = 1 .. c
  BY LenProperties
<1>5. PICK f : f = [k \in 1 .. c |-> FillOf(h, u[k][2], u[k][1])]
  OBVIOUS
<1>6. FillsOf(h, P) = f
  BY <1>3, <1>4, <1>5 DEF FillsOf
<1>7. f \in Seq(FillSteps(0))
  <2>1. \A i \in 1 .. n : 0 <= h.vars[i].begin
    BY <1>1, InfosAre, EndIs
  <2> QED
    BY <1>1, <1>6, <2>1, FillsAre
<1>8. Len(f) = c
  BY <1>5, <1>7, LenProperties
<1>9. ASSUME NEW k \in 1 .. c
      PROVE  u[k] \in P /\ f[k] = FillOf(h, u[k][2], u[k][1])
  BY <1>4, <1>5, ElementOfSeq
<1>10. ASSUME NEW p \in P
       PROVE  \E k \in 1 .. c : f[k] = FillOf(h, p[2], p[1])
  <2>1. PICK k \in 1 .. c : u[k] = p
    BY <1>3, <1>4
  <2> QED
    BY <1>9, <2>1
<1> QED
  BY <1>6, <1>7, <1>8, <1>9, <1>10 DEF Filling

(* Two sequences after another.                                            *)
LEMMA FillingJoin ==
  ASSUME NEW h, NEW f, NEW P, Filling(h, f, P), NEW g, NEW Q, Filling(h, g, Q)
  PROVE  Filling(h, f \o g, P \cup Q)
<1>1. f \in Seq(FillSteps(0)) /\ g \in Seq(FillSteps(0))
  BY DEF Filling
<1>2. PICK m \in Nat, n \in Nat : m = Len(f) /\ n = Len(g)
  BY <1>1, LenProperties
<1>3. PICK e \in Seq(FillSteps(0)) : e = f \o g
  BY <1>1, ConcatProperties
<1>4. /\ Len(e) = m + n
      /\ \A k \in 1 .. m : e[k] = f[k]
      /\ \A k \in 1 .. n : e[m + k] = g[k]
  <2>1. \A k \in 1 .. m + n : e[k] = IF k <= m THEN f[k] ELSE g[k - m]
    BY <1>1, <1>2, <1>3, ConcatProperties
  <2>2. ASSUME NEW k \in 1 .. n
        PROVE  e[m + k] = g[k]
    <3>1. m + k \in 1 .. m + n /\ ~(m + k <= m) /\ (m + k) - m = k
      OBVIOUS
    <3> QED
      BY <2>1, <3>1
  <2>3. \A k \in 1 .. m : k \in 1 .. m + n /\ k <= m
    OBVIOUS
  <2> QED
    BY <1>1, <1>2, <1>3, <2>1, <2>2, <2>3, ConcatProperties
<1>5. ASSUME NEW k \in 1 .. m + n
      PROVE  \E p \in P \cup Q : e[k] = FillOf(h, p[2], p[1])
  <2>1. CASE k <= m
    <3>1. k \in 1 .. m
      BY <2>1
    <3> QED
      BY <1>2, <1>4, <3>1 DEF Filling
  <2>2. CASE ~(k <= m)
    <3>1. PICK l \in 1 .. n : k = m + l
      <4>1. k - m \in 1 .. n /\ k = m + (k - m)
        BY <2>2
      <4> QED
        BY <4>1
    <3>2. e[k] = g[l]
      BY <1>4, <3>1
    <3> QED
      BY <1>2, <3>2 DEF Filling
  <2> QED
    BY <2>1, <2>2
<1>6. ASSUME NEW p \in P \cup Q
      PROVE  \E k \in 1 .. m + n : e[k] = FillOf(h, p[2], p[1])
  <2>1. CASE p \in P
    <3>1. PICK k \in 1 .. m : f[k] = FillOf(h, p[2], p[1])
      BY <1>2, <2>1 DEF Filling
    <3>2. k \in 1 .. m + n
      OBVIOUS
    <3> QED
      BY <1>4, <3>1, <3>2
  <2>2. CASE p \in Q
    <3>1. PICK k \in 1 .. n : g[k] = FillOf(h, p[2], p[1])
      BY <1>2, <2>2 DEF Filling
    <3>2. m + k \in 1 .. m + n
      OBVIOUS
    <3> QED
      BY <1>4, <3>1, <3>2
  <2> QED
    BY <2>1, <2>2
<1> QED
  BY <1>3, <1>4, <1>5, <1>6 DEF Filling

(* Pairs of a record and a variable that a header has places for.          *)
HasPlaces(h, P) ==
  /\ P \subseteq Nat \X Nat
  /\ \A p \in P : IsPlace(h, p[2], p[1])

(* They are filled, from the file g[0] on.                                 *)
FillRun(h, P, f, q, g) ==
  /\ Filling(h, f, P) /\ HasPlaces(h, P) /\ q \in Nat /\ q = Len(f)
  /\ Chain(h, f, q, g) /\ FileIs(g[0])

(* A value is filled if its place is among those filled, else it stays.    *)
LEMMA PlaceFilled ==
  ASSUME NEW h \in Infos, LaidOut(h), NEW P, NEW f, NEW q, NEW g, FillRun(h, P, f, q, g),
         NEW i, NEW r, NEW b, NEW a, ByteAt(h, i, r, b, a)
  PROVE  /\ FileIs(g[q]) /\ g[q].header = g[0].header /\ g[q].exists = g[0].exists
         /\ g[q].bytes[a] = IF <<r, i>> \in P THEN <<Fill, b>> ELSE g[0].bytes[a]
<1>1. /\ Filling(h, f, P) /\ HasPlaces(h, P) /\ q \in Nat /\ q = Len(f)
      /\ Chain(h, f, q, g) /\ FileIs(g[0])
  BY DEF FillRun
<1>2. ASSUME NEW p \in P
      PROVE  /\ FillOf(h, p[2], p[1]) \in FillsOn(a, b)
             /\ Covers(FillOf(h, p[2], p[1]), a) <=> (i = p[2] /\ r = p[1])
  <2>1. PICK k, s : k = p[2] /\ s = p[1] /\ IsPlace(h, k, s)
    BY <1>1 DEF HasPlaces
  <2>2. /\ FillOf(h, k, s) \in FillsOn(a, b)
        /\ Covers(FillOf(h, k, s), a) <=> (i = k /\ r = s)
    BY <2>1, FillOfOn
  <2> QED
    BY <2>1, <2>2
<1>3. \A k \in 1 .. q : \E p \in P : f[k] = FillOf(h, p[2], p[1])
  BY <1>1 DEF Filling
<1>4. AllOn(f, q, a, b)
  BY <1>2, <1>3 DEF AllOn
<1>5. /\ FileIs(g[q]) /\ g[q].header = g[0].header /\ g[q].exists = g[0].exists
      /\ g[q].bytes[a] = IF Covered(f, q, a) THEN <<Fill, b>> ELSE g[0].bytes[a]
  <2>1. a \in Addr /\ b \in Nat
    BY DEF ByteAt
  <2> QED
    BY <1>1, <1>4, <2>1, FillsDo
<1>6. CASE <<r, i>> \in P
  <2>1. PICK p \in P : p = <<r, i>> /\ p[1] = r /\ p[2] = i
    BY <1>6
  <2>2. PICK k \in 1 .. q : f[k] = FillOf(h, p[2], p[1])
    BY <1>1, <2>1 DEF Filling
  <2>3. Covered(f, q, a)
    BY <1>2, <2>1, <2>2 DEF Covered
  <2> QED
    BY <1>5, <1>6, <2>3
<1>7. CASE <<r, i>> \notin P
  <2>1. ASSUME NEW k \in 1 .. q
        PROVE  ~Covers(f[k], a)
    <3>1. PICK p \in P : f[k] = FillOf(h, p[2], p[1])
      BY <1>3
    <3>2. PICK s \in Nat, l \in Nat : p = <<s, l>> /\ p[1] = s /\ p[2] = l
      BY <1>1 DEF HasPlaces
    <3>3. ~(i = l /\ r = s)
      BY <1>7, <3>2
    <3> QED
      BY <1>2, <3>1, <3>2, <3>3
  <2>2. ~Covered(f, q, a)
    BY <2>1 DEF Covered
  <2> QED
    BY <1>5, <1>7, <2>2
<1> QED
  BY <1>6, <1>7

-----------------------------------------------------------------------------
(* What a file means *)

(* All places of a header, for as many records as there may be, are in the *)
(* file.                                                                   *)
Space(h) ==
  \A i \in DOMAIN h.vars : Offset(h, i, MaxRecs - 1) + VarLen(h.vars[i]) <= Size

(* So are their bytes.                                                     *)
LEMMA SpaceIs ==
  ASSUME NEW h \in Infos, Space(h), NEW i \in 1 .. Len(h.vars),
         NEW r \in 0 .. MaxRecs - 1, NEW b \in Nat, b < VarLen(h.vars[i])
  PROVE  Offset(h, i, r) + b \in Addr
<1>1. h.vars \in Seq(Vars)
  BY InfosAre
<1>2. PICK m \in Nat : m = MaxRecs - 1 /\ r <= m /\ r \in Nat
  BY ParametersAssumption
<1>3. PICK a \in Nat, z \in Nat : a = Offset(h, i, r) /\ z = Offset(h, i, m)
  BY <1>2, OffsetIs
<1>4. PICK l \in Nat : l = VarLen(h.vars[i])
  BY <1>1, EndIs
<1>5. a <= z
  <2>1. CASE h.vars[i].rec
    <3>1. PICK s \in Nat, x \in Nat : s = h.recsize /\ x = h.vars[i].begin
      BY <1>1, InfosAre, EndIs
    <3>2. PICK j \in Nat, k \in Nat : j = s * r /\ k = s * m /\ j <= k
      BY SMTT(30), <1>2, ProductGrows
    <3>3. a = x + s * r /\ z = x + s * m
      BY <1>2, <1>3, <2>1, <3>1, OffsetIs
    <3> QED
      BY <3>2, <3>3
  <2>2. CASE ~h.vars[i].rec
    <3>1. a = h.vars[i].begin /\ z = h.vars[i].begin
      BY <1>2, <1>3, <2>2, OffsetIs
    <3> QED
      BY <1>3, <3>1
  <2> QED
    BY <2>1, <2>2
<1>6. z + l <= Size
  <2>1. i \in DOMAIN h.vars
    BY <1>1, LenProperties
  <2> QED
    BY <1>2, <1>3, <1>4, <2>1 DEF Space
<1>7. a + b \in Addr
  BY <1>4, <1>5, <1>6, ParametersAssumption DEF Addr
<1> QED
  BY <1>3, <1>7

(* A value that was written whole is found.                                *)
LEMMA ValueFound ==
  ASSUME NEW f, NEW at, NEW len \in Nat \ {0}, NEW v \in Values \cup {Fill},
         \A k \in 0 .. len - 1 : f.bytes[at + k] = <<v, k>>
  PROVE  ValueIn(f, at, len) = v
<1>1. PICK S : S = {u \in Values \cup {Fill} :
                      \A k \in 0 .. len - 1 : f.bytes[at + k] = <<u, k>>}
  OBVIOUS
<1>2. v \in S
  BY <1>1
<1>3. ASSUME NEW u \in S
      PROVE  u = v
  <2>1. 0 \in 0 .. len - 1
    OBVIOUS
  <2>2. f.bytes[at + 0] = <<u, 0>> /\ f.bytes[at + 0] = <<v, 0>>
    BY <1>1, <1>3, <2>1
  <2> QED
    BY <2>2
<1>4. ValueIn(f, at, len) = IF S = {} THEN Garbage ELSE CHOOSE u \in S : TRUE
  BY <1>1 DEF ValueIn
<1> QED
  BY <1>2, <1>3, <1>4

(* The meaning depends on the places and the record size.                  *)
LEMMA MeaningSame ==
  ASSUME NEW f, NEW h, NEW k, k.vars = h.vars, k.att = h.att, k.numrecs = h.numrecs,
         k.recsize = h.recsize
  PROVE  MeaningIn(f, k) = MeaningIn(f, h)
<1>1. \A i, rec : Offset(k, i, rec) = Offset(h, i, rec)
  BY DEF Offset
<1> QED
  BY ZenonT(30), <1>1 DEF MeaningIn

(* And on the bytes of the values.                                         *)
SameValues(f, g, h) ==
  \A i \in 1 .. Len(h.vars), r \in 0 .. MaxRecs - 1, b \in Nat :
    (h.vars[i].rec \/ r = 0) /\ b < h.vars[i].xlen =>
      g.bytes[Offset(h, i, r) + b] = f.bytes[Offset(h, i, r) + b]

LEMMA BytesSame ==
  ASSUME NEW h \in Infos, h.numrecs <= MaxRecs, NEW f, NEW g, SameValues(f, g, h)
  PROVE  MeaningIn(g, h) = MeaningIn(f, h)
<1>1. h.vars \in Seq(Vars) /\ h.numrecs \in Nat /\ DOMAIN h.vars = 1 .. Len(h.vars)
  BY InfosAre, RecsIs
<1>2. ASSUME NEW i \in DOMAIN h.vars,
             NEW k \in 1 .. IF h.vars[i].rec THEN h.numrecs ELSE 1
      PROVE  ValueIn(g, Offset(h, i, k - 1), h.vars[i].xlen)
               = ValueIn(f, Offset(h, i, k - 1), h.vars[i].xlen)
  <2>1. PICK r \in 0 .. MaxRecs - 1 : r = k - 1 /\ (h.vars[i].rec \/ r = 0)
    BY <1>1, ParametersAssumption
  <2>2. PICK x \in Nat : x = h.vars[i].xlen
    BY <1>1, EndIs
  <2>3. ASSUME NEW b \in 0 .. x - 1
        PROVE  g.bytes[Offset(h, i, r) + b] = f.bytes[Offset(h, i, r) + b]
    <3>1. b \in Nat /\ b < x
      OBVIOUS
    <3> QED
      BY <1>1, <2>1, <2>2, <3>1 DEF SameValues
  <2>4. PICK at : at = Offset(h, i, r)
    OBVIOUS
  <2>5. ValueIn(g, at, x) = ValueIn(f, at, x)
    BY <2>3, <2>4, ValueSame
  <2> QED
    BY <2>1, <2>2, <2>4, <2>5
<1> QED
  BY <1>2 DEF MeaningIn

(* Writing the header leaves the values.                                   *)
LEMMA WrittenMeans ==
  ASSUME NEW h \in Infos, LaidOut(h), Space(h), XSize(h) <= Size, h.numrecs <= MaxRecs,
         NEW f, FileIs(f)
  PROVE  MeaningIn(WithHeader(f, h), h) = MeaningIn(f, h)
<1>1. h.vars \in Seq(Vars) /\ XSize(h) \in Nat /\ DOMAIN h.vars = 1 .. Len(h.vars)
  BY InfosAre, RecsIs
<1>2. ASSUME NEW i \in 1 .. Len(h.vars), NEW r \in 0 .. MaxRecs - 1, NEW b \in Nat,
             b < h.vars[i].xlen
      PROVE  WithHeader(f, h).bytes[Offset(h, i, r) + b] = f.bytes[Offset(h, i, r) + b]
  <2>1. PICK x \in Nat, l \in Nat : x = h.vars[i].xlen /\ l = VarLen(h.vars[i]) /\ x <= l
    BY <1>1, EndIs
  <2>2. PICK a \in Addr : a = Offset(h, i, r) + b
    BY <1>2, <2>1, SpaceIs
  <2>3. r \in Nat
    BY ParametersAssumption
  <2>4. PICK o \in Nat : o = Offset(h, i, r) /\ o >= h.vars[i].begin
    BY <2>3, OffsetIs
  <2>5. h.vars[i].begin \in Nat /\ XSize(h) <= h.vars[i].begin
    BY <1>1, EndIs DEF LaidOut
  <2>6. XSize(h) <= a
    BY <1>1, <2>2, <2>4, <2>5
  <2>7. PICK s : s = [op |-> "write_NC"]
    OBVIOUS
  <2>8. s.op = "write_NC" /\ Step(h, f, s) = WithHeader(f, h)
    BY <2>7 DEF Step
  <2>9. Step(h, f, s).bytes[a] = f.bytes[a]
    BY <2>6, <2>8, StepBeside
  <2> QED
    BY <2>2, <2>8, <2>9
<1>3. SameValues(f, WithHeader(f, h), h)
  BY <1>2 DEF SameValues
<1> QED
  BY <1>3, BytesSame

(* So does nc_sync.                                                        *)
LEMMA SyncMeans ==
  ASSUME IInv, nc # None, "CREAT" \notin flags, "INDEF" \notin flags, Space(nc)
  PROVE  MeaningIn(NC_sync, nc) = MeaningIn(file, nc)
<1>1. nc \in Infos /\ LaidOut(nc) /\ XSize(nc) <= Size /\ nc.numrecs \in 0 .. MaxRecs
  BY GoodInfo DEF IInv, Parts, Layout, Settled, Sized, HeaderOK
<1>2. FileIs(file)
  BY DEF IInv, Parts, FileGood
<1>3. CASE "HDIRTY" \in flags
  <2>1. NC_sync = WithHeader(file, nc)
    BY <1>3 DEF NC_sync
  <2>2. nc.numrecs <= MaxRecs
    BY <1>1, ParametersAssumption
  <2> QED
    BY <1>1, <1>2, <2>1, <2>2, WrittenMeans
<1>4. CASE "HDIRTY" \notin flags
  <2>1. NC_sync.bytes = file.bytes
    <3>1. CASE "NDIRTY" \in flags
      <4>1. NC_sync = [file EXCEPT !.header.numrecs = nc.numrecs]
        BY <1>4, <3>1 DEF NC_sync
      <4>2. nc.numrecs \in Nat
        BY <1>1, ParametersAssumption
      <4> QED
        BY <1>2, <4>1, <4>2, CountIs
    <3>2. CASE "NDIRTY" \notin flags
      BY <1>4, <3>2 DEF NC_sync
    <3> QED
      BY <3>1, <3>2
  <2> QED
    BY <2>1 DEF MeaningIn, ValueIn
<1> QED
  BY <1>3, <1>4

-----------------------------------------------------------------------------
(* What nc_enddef fills *)

(* Moves and the header leave the file a file.                             *)
LEMMA FilesAre ==
  ASSUME NEW new \in Infos, XSize(new) <= Size, NEW n \in Nat, NEW steps, NEW g,
         Chain(new, steps, n, g), FileIs(g[0]),
         \A k \in 1 .. n : steps[k] \in MoveSteps \/ steps[k].op = "write_NC"
  PROVE  FileIs(g[n])
<1>1. ASSUME NEW f, FileIs(f), NEW s, s \in MoveSteps \/ s.op = "write_NC"
      PROVE  FileIs(Step(new, f, s))
  <2>1. CASE s.op = "write_NC"
    <3>1. Step(new, f, s) = WithHeader(f, new)
      BY <2>1 DEF Step
    <3> QED
      BY <1>1, <3>1, WriteIs
  <2>2. CASE s \in MoveSteps
    <3>1. PICK to \in Nat, from \in Nat, len \in Nat :
            to = s.to /\ from = s.from /\ len = s.len /\ s.op # "write_NC" /\ s.op # "fill"
      BY <2>2 DEF MoveSteps
    <3>2. Step(new, f, s) = Moved(f, to, from, len)
      BY <3>1 DEF Step
    <3>3. PICK y : y = Moved(f, to, from, len)
      OBVIOUS
    <3>4. IsMove(y, f, to, from, len)
      BY <1>1, <3>1, <3>3, MovedIs
    <3> QED
      BY <3>2, <3>3, <3>4 DEF IsMove
  <2> QED
    BY <1>1, <2>1, <2>2
<1>2. PICK T : T = {j \in Nat : j <= n => FileIs(g[j])}
  OBVIOUS
<1>3. 0 \in T
  BY <1>2
<1>4. ASSUME NEW j \in Nat, j \in T
      PROVE  j + 1 \in T
  <2>1. CASE j + 1 <= n
    <3>1. PICK k \in 1 .. n : k = j + 1 /\ k - 1 = j
      BY <2>1
    <3>2. FileIs(g[j]) /\ g[k] = Step(new, g[j], steps[k])
      BY <1>2, <1>4, <3>1 DEF Chain
    <3>3. FileIs(g[k])
      BY <1>1, <3>2
    <3> QED
      BY <1>2, <3>1, <3>3
  <2> QED
    BY <1>2, <2>1
<1>5. n \in T
  BY <1>3, <1>4, EveryNatural
<1> QED
  BY <1>2, <1>5

(* fillerup and fill_added fill the variables that are new, all records of *)
(* them included.                                                          *)
LEMMA FillsFill ==
  ASSUME NEW new \in Infos
  PROVE  \E P : /\ Filling(new, Fills(new), P) /\ HasPlaces(new, P)
                /\ \A i \in DOMAIN new.vars \ DOMAIN old.vars, rec \in Nat :
                     (IF new.vars[i].rec THEN rec < new.numrecs ELSE rec = 0)
                       => <<rec, i>> \in P
<1>1. new.vars \in Seq(Vars)
  BY InfosAre
<1>2. PICK c \in Nat, n \in Nat :
        /\ c = Len(new.vars) /\ DOMAIN new.vars = 1 .. c /\ n = new.numrecs
        /\ Fixed(new) = {i \in 1 .. c : ~new.vars[i].rec}
        /\ Recs(new) = {i \in 1 .. c : new.vars[i].rec}
  <2>1. Len(new.vars) \in Nat /\ DOMAIN new.vars = 1 .. Len(new.vars) /\ new.numrecs \in Nat
    BY <1>1, InfosAre, RecsIs
  <2> QED
    BY <2>1 DEF Fixed, Recs
<1>3. PICK added : added = DOMAIN new.vars \ DOMAIN old.vars
  OBVIOUS
<1>4. PICK F, R : F = {0} \X (added \cap Fixed(new)) /\ R = (0 .. n - 1) \X (added \cap Recs(new))
  OBVIOUS
<1>5. F \subseteq (0 .. n) \X (1 .. c) /\ R \subseteq (0 .. n) \X (1 .. c)
  <2>1. {0} \subseteq 0 .. n /\ 0 .. n - 1 \subseteq 0 .. n
    OBVIOUS
  <2>2. added \cap Fixed(new) \subseteq 1 .. c /\ added \cap Recs(new) \subseteq 1 .. c
    BY <1>2
  <2> QED
    BY <1>4, <2>1, <2>2
<1>6. Filling(new, FillsOf(new, F), F) /\ Filling(new, FillsOf(new, R), R)
  BY <1>2, <1>5, FillsOfFill
<1>7. Fills(new) = FillsOf(new, F) \o FillsOf(new, R)
  BY <1>2, <1>3, <1>4 DEF Fills
<1>8. Filling(new, Fills(new), F \cup R)
  BY <1>6, <1>7, FillingJoin
<1>9. F \cup R \subseteq Nat \X Nat
  <2>1. (0 .. n) \X (1 .. c) \subseteq Nat \X Nat
    OBVIOUS
  <2> QED
    BY <1>5, <2>1
<1>10. HasPlaces(new, F \cup R)
  <2>1. ASSUME NEW p \in F
        PROVE  p[2] \in 1 .. c /\ p[1] = 0
    BY <1>2, <1>4
  <2>2. ASSUME NEW p \in R
        PROVE  p[2] \in 1 .. c /\ p[1] \in Nat /\ new.vars[p[2]].rec
    BY <1>2, <1>4
  <2>3. \A p \in F \cup R : IsPlace(new, p[2], p[1])
    BY <1>2, <2>1, <2>2 DEF IsPlace
  <2> QED
    BY <1>9, <2>3 DEF HasPlaces
<1>11. ASSUME NEW i \in added, NEW rec \in Nat,
              IF new.vars[i].rec THEN rec < new.numrecs ELSE rec = 0
       PROVE  <<rec, i>> \in F \cup R
  <2>1. i \in 1 .. c
    BY <1>2, <1>3
  <2>2. CASE new.vars[i].rec
    <3>1. rec \in 0 .. n - 1 /\ i \in added \cap Recs(new)
      BY <1>2, <1>11, <2>1, <2>2
    <3> QED
      BY <1>4, <3>1
  <2>3. CASE ~new.vars[i].rec
    <3>1. rec \in {0} /\ i \in added \cap Fixed(new)
      BY <1>2, <1>11, <2>1, <2>3
    <3> QED
      BY <1>4, <3>1
  <2> QED
    BY <2>2, <2>3
<1> QED
  BY <1>3, <1>8, <1>10, <1>11

(* A value of a variable that is added.                                    *)
Added(new, i, rec) ==
  /\ i \in DOMAIN new.vars \ DOMAIN old.vars /\ rec \in 0 .. MaxRecs - 1
  /\ IF new.vars[i].rec THEN rec < new.numrecs ELSE rec = 0

(* What nc_enddef can end with new.                                        *)
Ending(new) ==
  /\ new \in Infos /\ LaidOut(new) /\ Asserted(new) /\ old \in Infos \cup {None}
  /\ \A i \in DOMAIN old.vars : i \in DOMAIN new.vars
  /\ FileIs(file) /\ XSize(new) <= Size /\ Space(new)

(* After nc_enddef each new value is a fill value: all its bytes are.      *)
LEMMA EnddefFills ==
  ASSUME NEW new, Ending(new), NEW i, NEW rec, Added(new, i, rec),
         NEW b \in Nat, b < new.vars[i].xlen
  PROVE  Done(new, Steps(new)).bytes[Offset(new, i, rec) + b] = <<Fill, b>>
<1> USE DEF Ending, Added
<1>1. new.vars \in Seq(Vars) /\ i \in 1 .. Len(new.vars) /\ rec \in Nat
      /\ (new.vars[i].rec \/ rec = 0)
  BY InfosAre, RecsIs, ParametersAssumption
<1>2. PICK m, w, f : /\ m = Moves(new) /\ w = [op |-> "write_NC"] /\ f = Fills(new)
                     /\ Steps(new) = m \o <<w>> \o f
  BY DEF Steps
<1>3. m \in Seq(MoveSteps)
  BY <1>2, MovesAre
<1>4. PICK P : Filling(new, f, P) /\ HasPlaces(new, P) /\ <<rec, i>> \in P
  BY <1>1, <1>2, FillsFill
<1>5. f \in Seq(FillSteps(0))
  BY <1>4 DEF Filling
<1>6. PICK n \in Nat, q \in Nat : n = Len(m) /\ q = Len(f)
  BY <1>3, <1>5, LenProperties
<1>7. PICK S : S = MoveSteps \cup {w} \cup FillSteps(0)
  OBVIOUS
<1>8. m \in Seq(S) /\ f \in Seq(S) /\ w \in S
  <2>1. m = [k \in 1 .. n |-> m[k]] /\ f = [k \in 1 .. q |-> f[k]]
    BY <1>3, <1>5, <1>6, LenProperties
  <2>2. (\A k \in 1 .. n : m[k] \in MoveSteps) /\ \A k \in 1 .. q : f[k] \in FillSteps(0)
    BY <1>3, <1>5, <1>6, ElementOfSeq
  <2>3. (\A k \in 1 .. n : m[k] \in S) /\ \A k \in 1 .. q : f[k] \in S
    BY <1>7, <2>2
  <2> QED
    BY <1>6, <1>7, <2>1, <2>3, ListIs
<1>9. PICK steps : steps = Steps(new)
  OBVIOUS
<1>10. /\ Len(steps) = (n + 1) + q /\ steps[n + 1] = w
       /\ \A k \in 1 .. n : steps[k] = m[k]
       /\ \A k \in 1 .. q : steps[(n + 1) + k] = f[k]
  BY <1>2, <1>6, <1>8, <1>9, ThreeParts
<1>11. PICK l \in Nat, o \in Nat : l = (n + 1) + q /\ l = Len(steps) /\ o = n + 1
  BY <1>10
<1>12. PICK g : After(new, steps, g) /\ Done(new, steps) = g[l]
  BY <1>11, AfterExists
<1>13. g[0] = file /\ \A k \in 1 .. l : g[k] = Step(new, g[k - 1], steps[k])
  <2>1. g = [k \in 0 .. l |-> IF k = 0 THEN file ELSE Step(new, g[k - 1], steps[k])]
    BY <1>11, <1>12 DEF After
  <2>2. 0 \in 0 .. l /\ \A k \in 1 .. l : k \in 0 .. l /\ k # 0
    OBVIOUS
  <2> QED
    BY <2>1, <2>2
<1>14. FileIs(g[o])
  <2>1. Chain(new, steps, o, g)
    BY <1>11, <1>13 DEF Chain
  <2>2. ASSUME NEW k \in 1 .. o
        PROVE  steps[k] \in MoveSteps \/ steps[k].op = "write_NC"
    <3>1. CASE k = o
      BY <1>2, <1>10, <1>11, <3>1
    <3>2. CASE k # o
      <4>1. k \in 1 .. n
        BY <1>11, <3>2
      <4> QED
        BY <1>3, <1>6, <1>10, <4>1, ElementOfSeq
    <3> QED
      BY <3>1, <3>2
  <2> QED
    BY <1>13, <2>1, <2>2, FilesAre
<1>15. PICK h : h = [k \in 0 .. q |-> g[o + k]]
  OBVIOUS
<1>16. h[0] = g[o] /\ h[q] = g[l]
  BY <1>11, <1>15
<1>17. Chain(new, f, q, h)
  <2>1. ASSUME NEW k \in 1 .. q
        PROVE  h[k] = Step(new, h[k - 1], f[k])
    <3>1. k \in 0 .. q /\ k - 1 \in 0 .. q
      OBVIOUS
    <3>2. h[k] = g[o + k] /\ h[k - 1] = g[o + (k - 1)]
      BY <1>15, <3>1
    <3>3. PICK j \in 1 .. l : j = o + k /\ j - 1 = o + (k - 1)
      BY <1>11
    <3>4. g[j] = Step(new, g[j - 1], steps[j]) /\ steps[j] = f[k]
      BY <1>10, <1>11, <1>13, <3>3
    <3> QED
      BY <3>2, <3>3, <3>4
  <2> QED
    BY <2>1 DEF Chain
<1>18. PICK x \in Nat : x = new.vars[i].xlen /\ x <= FillLen(new, i) /\ x <= VarLen(new.vars[i])
  <2>1. new.vars[i].xlen \in Nat /\ new.vars[i].xlen <= VarLen(new.vars[i])
    BY <1>1, EndIs
  <2> QED
    BY <1>1, <2>1, FillLenIs
<1>19. b < FillLen(new, i) /\ b < VarLen(new.vars[i])
  <2>1. FillLen(new, i) \in Nat /\ VarLen(new.vars[i]) \in Nat
    BY <1>1, EndIs, FillLenIs
  <2> QED
    BY <1>18, <2>1
<1>20. PICK a \in Addr : a = Offset(new, i, rec) + b
  BY <1>1, <1>19, SpaceIs
<1>21. FileIs(h[0])
  BY <1>14, <1>16
<1>22. h[q].bytes[a] = IF <<rec, i>> \in P THEN <<Fill, b>> ELSE h[0].bytes[a]
  <2>1. IsPlace(new, i, rec)
    BY <1>1 DEF IsPlace
  <2>2. FillRun(new, P, f, q, h)
    BY <1>4, <1>6, <1>17, <1>21 DEF FillRun
  <2>3. ByteAt(new, i, rec, b, a)
    BY <1>19, <1>20, <2>1 DEF ByteAt
  <2> QED
    BY <2>2, <2>3, PlaceFilled
<1> QED
  BY <1>4, <1>9, <1>12, <1>16, <1>20, <1>22

(* And is found.                                                           *)
LEMMA EnddefFilled ==
  ASSUME NEW new, Ending(new), NEW i, NEW rec, Added(new, i, rec)
  PROVE  ValueIn(Done(new, Steps(new)), Offset(new, i, rec), new.vars[i].xlen) = Fill
<1>1. PICK x \in Nat \ {0} : x = new.vars[i].xlen
  <2>1. new \in Infos /\ i \in DOMAIN new.vars
    BY DEF Ending, Added
  <2>2. new.vars \in Seq(Vars) /\ i \in 1 .. Len(new.vars)
    BY <2>1, InfosAre, RecsIs
  <2> QED
    BY <2>2, EndIs
<1>2. PICK f, at : f = Done(new, Steps(new)) /\ at = Offset(new, i, rec)
  OBVIOUS
<1>3. ASSUME NEW l \in 0 .. x - 1
      PROVE  f.bytes[at + l] = <<Fill, l>>
  <2>1. l \in Nat /\ l < new.vars[i].xlen
    BY <1>1
  <2> QED
    BY <1>2, <2>1, EnddefFills
<1>4. ValueIn(f, at, x) = Fill
  BY <1>3, ValueFound
<1> QED
  BY <1>1, <1>2, <1>4

-----------------------------------------------------------------------------
(* What nc_enddef makes of the definitions *)

(* A list of c elements, whatever they are.                                *)
IsList(a, c) == c \in Nat /\ a = [k \in 1 .. c |-> a[k]]

(* Two lists one after the other.                                          *)
Joined(z, a, c, b, d) ==
  IsList(z, c + d) /\ \A k \in 1 .. c + d : z[k] = IF k <= c THEN a[k] ELSE b[k - c]

LEMMA JoinIs ==
  ASSUME NEW c \in Nat, NEW a, IsList(a, c), NEW d \in Nat, NEW b, IsList(b, d)
  PROVE  Joined(a \o b, a, c, b, d)
<1>1. c \in Nat /\ d \in Nat /\ a = [k \in 1 .. c |-> a[k]] /\ b = [k \in 1 .. d |-> b[k]]
  BY DEF IsList
<1>2. PICK S : S = {a[k] : k \in 1 .. c} \cup {b[k] : k \in 1 .. d}
  OBVIOUS
<1>3. a \in Seq(S) /\ b \in Seq(S)
  <2>1. (\A k \in 1 .. c : a[k] \in S) /\ \A k \in 1 .. d : b[k] \in S
    BY <1>2
  <2> QED
    BY <1>1, <2>1, ListIs
<1>4. Len(a) = c /\ Len(b) = d
  BY <1>1, <1>3, LenProperties
<1>5. PICK z \in Seq(S) : z = a \o b
  BY <1>3, ConcatProperties
<1>6. Len(z) = c + d /\ \A k \in 1 .. c + d : z[k] = IF k <= c THEN a[k] ELSE b[k - c]
  BY <1>3, <1>4, <1>5, ConcatProperties
<1>7. z = [k \in 1 .. c + d |-> z[k]]
  BY <1>5, <1>6, LenProperties
<1> QED
  BY <1>1, <1>5, <1>6, <1>7 DEF IsList, Joined

(* There is only one such list.                                            *)
LEMMA JoinedOnce ==
  ASSUME NEW c \in Nat, NEW a, NEW d \in Nat, NEW b, NEW y, NEW z,
         Joined(y, a, c, b, d), Joined(z, a, c, b, d)
  PROVE  y = z
<1>1. PICK e \in Nat : e = c + d
  OBVIOUS
<1>2. \A k \in 1 .. e : y[k] = z[k]
  BY <1>1 DEF Joined
<1>3. y = [k \in 1 .. e |-> y[k]] /\ z = [k \in 1 .. e |-> z[k]]
  BY <1>1 DEF Joined, IsList
<1> QED
  BY <1>2, <1>3

(* A list with one more.                                                   *)
Appended(z, a, c, e) ==
  IsList(z, c + 1) /\ \A k \in 1 .. c + 1 : z[k] = IF k <= c THEN a[k] ELSE e

LEMMA AppendIs ==
  ASSUME NEW c \in Nat, NEW a, IsList(a, c), NEW e
  PROVE  Appended(Append(a, e), a, c, e)
<1>1. c \in Nat /\ a = [k \in 1 .. c |-> a[k]]
  BY DEF IsList
<1>2. PICK S : S = {a[k] : k \in 1 .. c} \cup {e}
  OBVIOUS
<1>3. a \in Seq(S) /\ e \in S
  <2>1. \A k \in 1 .. c : a[k] \in S
    BY <1>2
  <2> QED
    BY <1>1, <1>2, <2>1, ListIs
<1>4. Len(a) = c
  BY <1>1, <1>3, LenProperties
<1>5. PICK z \in Seq(S) : z = Append(a, e)
  BY <1>3, AppendProperties
<1>6. Len(z) = c + 1 /\ \A k \in 1 .. c + 1 : z[k] = IF k <= c THEN a[k] ELSE e
  BY <1>3, <1>4, <1>5, AppendProperties
<1>7. z = [k \in 1 .. c + 1 |-> z[k]]
  BY <1>5, <1>6, LenProperties
<1> QED
  BY <1>1, <1>5, <1>6, <1>7 DEF IsList, Appended

(* NC_begins places variables and changes nothing else of them.            *)
LEMMA BeginsDefs ==
  ASSUME NEW r \in Reserves, nc \in Infos, old \in Infos \cup {None}, NEW new, new = NC_begins(r)
  PROVE  /\ Len(new.vars) = Len(nc.vars)
         /\ \A i \in 1 .. Len(nc.vars) : new.vars[i].rec = nc.vars[i].rec
         /\ new.att = nc.att /\ new.numrecs = nc.numrecs
<1>1. CASE nc.vars = <<>>
  BY <1>1 DEF NC_begins
<1>2. CASE nc.vars # <<>>
  <2>1. PICK b \in Nat : PlacedFrom(b, new)
    BY <1>2, BeginsIs
  <2> QED
    BY <2>1 DEF PlacedFrom
<1> QED
  BY <1>1, <1>2

(* The variables there were, and the ones that are new.                    *)
OldVars == IF old = None THEN <<>> ELSE MeaningIn(file, old).vars
NewVars(h, c, d) ==
  [i \in 1 .. d |->
     [rec  |-> h.vars[c + i].rec,
      data |-> [k \in 1 .. IF h.vars[c + i].rec THEN h.numrecs ELSE 1 |-> Fill]]]

(* After nc_enddef the variables there were have their values and the new  *)
(* ones fill values.                                                       *)
LEMMA EnddefMeans ==
  ASSUME Rounded, IInv, Padding, nc # None, old = None => nc.numrecs = 0,
         NEW r \in Reserves, NEW new, new = NC_begins(r), Endable(new),
         NEW c \in Nat, c = Len(old.vars), NEW d \in Nat, c + d = Len(nc.vars)
  PROVE  MeaningIn(Done(new, Steps(new)), new)
           = [att |-> nc.att, numrecs |-> nc.numrecs,
              vars |-> OldVars \o NewVars(nc, c, d)]
<1> DEFINE a == OldVars
           b == NewVars(nc, c, d)
<1>1. /\ a = IF old = None THEN <<>> ELSE MeaningIn(file, old).vars
      /\ b = [i \in 1 .. d |->
                [rec  |-> nc.vars[c + i].rec,
                 data |-> [k \in 1 .. IF nc.vars[c + i].rec THEN nc.numrecs ELSE 1 |-> Fill]]]
  BY DEF OldVars, NewVars
<1> HIDE DEF a, b
<1>2. PICK f : f = Done(new, Steps(new))
  OBVIOUS
<1>3. /\ nc \in Infos /\ old \in Infos \cup {None} /\ FileIs(file)
      /\ DOMAIN nc.vars = 1 .. c + d
  <2>1. nc \in Infos /\ old \in Infos \cup {None} /\ FileIs(file)
    BY GoodInfo DEF IInv, Parts, FileGood
  <2> QED
    BY <2>1, InfosAre, RecsIs
<1>4. /\ Len(new.vars) = c + d /\ new.att = nc.att /\ new.numrecs = nc.numrecs
      /\ \A i \in 1 .. c + d : new.vars[i].rec = nc.vars[i].rec
  BY <1>3, BeginsDefs
<1>5. /\ new \in Infos /\ LaidOut(new) /\ XSize(new) <= Size /\ HeaderOK(new)
      /\ Asserted(new) /\ Space(new)
  <2>1. InfoGood(new) /\ Settled(new)
    BY EnddefDone
  <2> QED
    BY <2>1, GoodInfo DEF Settled, Sized, Endable, Fits, Space
<1>6. PICK n \in 0 .. MaxRecs : n \in Nat /\ n = nc.numrecs /\ n = new.numrecs
  BY <1>3, <1>4, <1>5, InfosAre DEF HeaderOK
<1>7. DOMAIN old.vars = 1 .. c /\ DOMAIN new.vars = 1 .. c + d
  <2>1. DOMAIN new.vars = 1 .. c + d
    BY <1>4, <1>5, InfosAre, RecsIs
  <2>2. CASE old = None
    <3>1. old.vars = <<>> /\ c = 0
      BY <2>2 DEF None
    <3> QED
      BY <2>1, <3>1
  <2>3. CASE old # None
    BY <1>3, <2>1, <2>3, InfosAre, RecsIs
  <2> QED
    BY <2>2, <2>3
<1>8. ASSUME NEW i \in 1 .. d
      PROVE  MeaningIn(f, new).vars[c + i] = b[i]
  <2>1. PICK j \in 1 .. c + d : j = c + i /\ j \in DOMAIN new.vars \ DOMAIN old.vars
    <3>1. c + i \in 1 .. c + d /\ c + i \notin 1 .. c
      OBVIOUS
    <3> QED
      BY <1>7, <3>1
  <2>2. PICK m \in Nat : /\ m = IF nc.vars[j].rec THEN n ELSE 1
                         /\ m = IF new.vars[j].rec THEN new.numrecs ELSE 1
    BY <1>4, <1>6
  <2>3. PICK x \in Nat \ {0} : x = new.vars[j].xlen
    BY <1>4, <1>5, InfosAre, EndIs
  <2>4. ASSUME NEW k \in 1 .. m
        PROVE  ValueIn(f, Offset(new, j, k - 1), x) = Fill
    <3>1. PICK rec \in 0 .. MaxRecs - 1 :
            /\ rec = k - 1
            /\ IF new.vars[j].rec THEN rec < new.numrecs ELSE rec = 0
      <4>1. k - 1 \in 0 .. MaxRecs - 1
        BY <1>6, <2>2, ParametersAssumption
      <4> QED
        BY <2>2, <4>1
    <3>2. Added(new, j, rec) /\ Ending(new)
      BY <1>3, <1>5, <1>7, <2>1, <3>1 DEF Added, Ending
    <3>3. ValueIn(Done(new, Steps(new)), Offset(new, j, rec), new.vars[j].xlen) = Fill
      BY <3>2, EnddefFilled
    <3> QED
      BY <1>2, <2>3, <3>1, <3>3
  <2>5. MeaningIn(f, new).vars[j] =
          [rec  |-> new.vars[j].rec,
           data |-> [k \in 1 .. m |-> ValueIn(f, Offset(new, j, k - 1), new.vars[j].xlen)]]
    <3>1. j \in DOMAIN new.vars /\ m = IF new.vars[j].rec THEN new.numrecs ELSE 1
      BY <2>1, <2>2
    <3> QED
      BY <3>1 DEF MeaningIn
  <2>6. [k \in 1 .. m |-> ValueIn(f, Offset(new, j, k - 1), new.vars[j].xlen)]
          = [k \in 1 .. m |-> Fill]
    BY <2>3, <2>4
  <2>7. b[i] = [rec |-> nc.vars[j].rec, data |-> [k \in 1 .. m |-> Fill]]
    BY <1>1, <1>6, <2>1, <2>2
  <2> QED
    BY <1>4, <2>1, <2>5, <2>6, <2>7
<1>9. ASSUME NEW i \in 1 .. c
      PROVE  MeaningIn(f, new).vars[i] = a[i]
  <2>1. i \in DOMAIN old.vars /\ old # None
    BY <1>7 DEF None
  <2> QED
    BY <1>1, <1>2, <2>1, EnddefValues
<1>10. IsList(a, c)
  <2>1. CASE old = None
    BY <1>1, <2>1 DEF None, IsList
  <2>2. CASE old # None
    BY <1>1, <1>7, <2>2 DEF MeaningIn, IsList
  <2> QED
    BY <2>1, <2>2
<1>11. IsList(b, d)
  BY <1>1 DEF IsList
<1>12. PICK v : v = MeaningIn(f, new).vars
  OBVIOUS
<1>13. IsList(v, c + d)
  BY <1>7, <1>12 DEF MeaningIn, IsList
<1>14. Joined(v, a, c, b, d)
  <2>1. ASSUME NEW i \in 1 .. c + d
        PROVE  v[i] = IF i <= c THEN a[i] ELSE b[i - c]
    <3>1. CASE i <= c
      BY <1>9, <1>12, <3>1
    <3>2. CASE ~(i <= c)
      <4>1. PICK l \in 1 .. d : l = i - c /\ c + l = i
        <5>1. i - c \in 1 .. d /\ c + (i - c) = i
          BY <3>2
        <5> QED
          BY <5>1
      <4> QED
        BY <1>8, <1>12, <3>2, <4>1
    <3> QED
      BY <3>1, <3>2
  <2> QED
    BY <1>13, <2>1 DEF Joined
<1>15. Joined(a \o b, a, c, b, d)
  BY <1>10, <1>11, JoinIs
<1>16. v = a \o b
  BY <1>14, <1>15, JoinedOnce
<1>17. MeaningIn(f, new) = [att |-> new.att, numrecs |-> new.numrecs, vars |-> v]
  BY <1>12 DEF MeaningIn
<1> QED
  BY <1>2, <1>4, <1>16, <1>17 DEF a, b

-----------------------------------------------------------------------------
(* Room for all records *)

(* NC_computeshapes finds the record size that the library had.            *)
LEMMA ReadsAs ==
  ASSUME NEW g \in Infos, LaidOut(g), NEW h \in Headers, h.vars = g.vars
  PROVE  FromHeader(h).vars = g.vars /\ FromHeader(h).recsize = g.recsize
<1>1. /\ FromHeader(h).vars = h.vars
      /\ FromHeader(h).recsize = RecSize(h, Padded(h)[Len(h.vars)])
  BY FromHeaderIs
<1>2. Padded(h) = Padded(g) /\ \A p : RecSize(h, p) = RecSize(g, p)
  BY SameVars
<1>3. g.recsize = RecSize(g, Padded(g)[Len(g.vars)])
  BY DEF LaidOut
<1> QED
  BY <1>1, <1>2, <1>3

(* Room does not depend on the attribute, nor on where the sections begin. *)
LEMMA SpaceSame ==
  ASSUME NEW h, NEW g, h.vars = g.vars, h.recsize = g.recsize, Space(g)
  PROVE  Space(h)
<1>1. \A i, rec : Offset(h, i, rec) = Offset(g, i, rec)
  BY DEF Offset
<1> QED
  BY <1>1 DEF Space

(* The room that a header needs is that of its variables.                  *)
LEMMA SpaceWritten ==
  ASSUME NEW g \in Infos, LaidOut(g), NEW h \in Headers, h.vars = g.vars
  PROVE  Space(FromHeader(h)) <=> Space(g)
<1>1. FromHeader(h).vars = g.vars /\ FromHeader(h).recsize = g.recsize
  BY ReadsAs
<1>2. PICK k : k = FromHeader(h)
  OBVIOUS
<1>3. k.vars = g.vars /\ k.recsize = g.recsize
  BY <1>1, <1>2
<1>4. Space(k) => Space(g)
  BY <1>3, SpaceSame
<1>5. Space(g) => Space(k)
  BY <1>3, SpaceSame
<1> QED
  BY <1>2, <1>4, <1>5

(* A header with the same variables needs the same room.                   *)
LEMMA SpaceKept ==
  ASSUME NEW h \in Headers, NEW g \in Headers, h.vars = g.vars, Space(FromHeader(g))
  PROVE  Space(FromHeader(h))
<1>1. PICK k, l : k = FromHeader(h) /\ l = FromHeader(g)
  OBVIOUS
<1>2. /\ k.vars = h.vars /\ k.recsize = RecSize(h, Padded(h)[Len(h.vars)])
      /\ l.vars = g.vars /\ l.recsize = RecSize(g, Padded(g)[Len(g.vars)])
  BY <1>1, FromHeaderIs
<1>3. Padded(h) = Padded(g) /\ \A p : RecSize(h, p) = RecSize(g, p)
  BY SameVars
<1>4. k.vars = l.vars /\ k.recsize = l.recsize /\ Space(l)
  BY <1>1, <1>2, <1>3
<1>5. Space(k)
  BY <1>4, SpaceSame
<1> QED
  BY <1>1, <1>5

(* The file has room for all records of its variables, and a dataset that  *)
(* is new has none yet.                                                    *)
Roomy ==
  /\ Space(FromHeader(file.header))
  /\ "CREAT" \in flags => nc.numrecs = 0

(* So has the dataset that is open.                                        *)
LEMMA RoomOpen ==
  ASSUME IInv, Roomy, nc # None, "CREAT" \notin flags, "INDEF" \notin flags
  PROVE  Space(nc)
<1>1. nc \in Infos /\ LaidOut(nc) /\ file.header \in Headers /\ file.header.vars = nc.vars
  BY GoodInfo DEF IInv, Parts, Layout, Settled, Matches, FileGood, FileIs
<1>2. PICK h : h = file.header
  OBVIOUS
<1>3. Space(FromHeader(h)) <=> Space(nc)
  BY <1>1, <1>2, SpaceWritten
<1> QED
  BY <1>2, <1>3 DEF Roomy

(* nc_enddef writes a header with room.                                    *)
LEMMA RoomEnded ==
  ASSUME IInv, nc # None, NEW r \in Reserves, NEW new, new = NC_begins(r), Endable(new)
  PROVE  Space(FromHeader(Done(new, Steps(new)).header))
<1>1. InfoGood(new) /\ Settled(new) /\ Done(new, Steps(new)).header = Header(new)
  BY EnddefDone
<1>2. new \in Infos /\ LaidOut(new) /\ Space(new)
  BY <1>1, GoodInfo DEF Settled, Endable, Fits, Space
<1>3. PICK h \in Headers : h = Header(new) /\ h.vars = new.vars
  BY <1>2, HeaderIs
<1>4. Space(FromHeader(h)) <=> Space(new)
  BY <1>2, <1>3, SpaceWritten
<1> QED
  BY <1>1, <1>2, <1>3, <1>4

(* nc_sync keeps the variables in the header, and so does every write of a *)
(* value.                                                                  *)
LEMMA RoomSynced ==
  ASSUME IInv, Roomy, nc # None, "CREAT" \notin flags, "INDEF" \notin flags
  PROVE  Space(FromHeader(NC_sync.header))
<1>1. nc \in Infos /\ LaidOut(nc) /\ Space(nc)
  BY GoodInfo, RoomOpen DEF IInv, Parts, Layout, Settled
<1>2. PICK h \in Headers : h = NC_sync.header /\ h.vars = nc.vars
  BY <1>1, SyncIs, HeaderIs
<1>3. Space(FromHeader(h)) <=> Space(nc)
  BY <1>1, <1>2, SpaceWritten
<1> QED
  BY <1>1, <1>2, <1>3

(* nc_put_vara does not change the variables in the header of the file.    *)
LEMMA PutKeepsVars ==
  ASSUME IInv, NEW i \in 1 .. MaxVars, NEW rec \in 0 .. MaxRecs - 1, NEW v,
         NC3_put_vara(i, rec, v)
  PROVE  file'.header.vars = file.header.vars
<1>1. nc # None /\ "CREAT" \notin flags /\ "INDEF" \notin flags
  BY DEF NC3_put_vara, IsOpen, Indef
<1>2. nc \in Infos
  BY <1>1, GoodInfo DEF IInv, Parts
<1>3. 0 <= Size /\ Sound(file, file.header, 0)
  BY ParametersAssumption DEF Sound, IInv, Parts, FileGood
<1>4. \A k \in DOMAIN nc.vars : 0 <= nc.vars[k].begin
  BY <1>2, InfosAre, RecsIs, EndIs
<1>5. 0 \in Nat
  OBVIOUS
<1> QED
  BY <1>1, <1>3, <1>4, <1>5, PutIs

(* Every step leaves room, since nc_enddef places nothing beyond Size.     *)
LEMMA RoomInductive ==
  ASSUME IInv, Roomy, [Next]_vars, Undone
  PROVE  Roomy'
<1>1. /\ file.header \in Headers /\ file'.header \in Headers
  <2>1. IInv'
    BY IInvInductive
  <2> QED
    BY <2>1 DEF IInv, Parts, FileGood, FileIs
<1>2. ASSUME file'.header.vars = file.header.vars,
             "CREAT" \in flags' => "CREAT" \in flags /\ nc'.numrecs = nc.numrecs
      PROVE  Roomy'
  <2>1. PICK g \in Headers, h \in Headers : g = file.header /\ h = file'.header
    BY <1>1
  <2>2. Space(FromHeader(h))
    BY <1>2, <2>1, SpaceKept DEF Roomy
  <2> QED
    BY <1>2, <2>1, <2>2 DEF Roomy
<1>3. CASE \E share \in Shared : NC3_create(share)
  <2>1. nc' = Empty /\ file'.header.vars = <<>>
    <3>1. PICK share \in Shared : NC3_create(share)
      BY <1>3
    <3>2. nc' = Empty /\ file'.header = Header(Empty)
      BY <3>1 DEF NC3_create, Empty, WithHeader, WithBytes, NoFile
    <3> QED
      BY <3>2 DEF Header, Empty
  <2>2. PICK h \in Headers : h = file'.header
    BY <1>1
  <2>3. FromHeader(h).vars = <<>>
    BY <2>1, <2>2, FromHeaderIs
  <2>4. Space(FromHeader(h))
    BY <2>3 DEF Space
  <2> QED
    BY <2>1, <2>2, <2>4 DEF Roomy, Empty
<1>4. CASE \E share \in Shared : NC3_open(share)
  <2>1. file' = file /\ "CREAT" \notin flags'
    BY <1>4 DEF NC3_open, Nsync
  <2> QED
    BY <1>2, <2>1
<1>5. CASE NC3_redef
  <2>1. file' = file /\ "CREAT" \notin flags'
    BY <1>5 DEF NC3_redef, Indef
  <2> QED
    BY <1>2, <2>1
<1>6. ASSUME nc # None, "CREAT" \notin flags, "INDEF" \notin flags, file' = NC_sync,
             "CREAT" \notin flags'
      PROVE  Roomy'
  BY <1>6, RoomSynced DEF Roomy
<1>7. CASE NC3_sync
  BY <1>6, <1>7 DEF NC3_sync, IsOpen, Indef
<1>8. ASSUME NEW r \in Reserves, nc # None, Endable(NC_begins(r)),
             file' = Done(NC_begins(r), Steps(NC_begins(r))), "CREAT" \notin flags'
      PROVE  Roomy'
  BY <1>8, RoomEnded DEF Roomy
<1>9. CASE NC3_close
  <2>1. nc # None /\ "CREAT" \notin flags'
    BY <1>9 DEF NC3_close, IsOpen
  <2>2. CASE Indef
    BY <1>8, <1>9, <2>1, <2>2, ParametersAssumption DEF NC3_close
  <2>3. CASE ~Indef
    BY <1>6, <1>9, <2>1, <2>3 DEF NC3_close, Indef
  <2> QED
    BY <2>2, <2>3
<1>10. CASE NC3_abort
  <2>1. nc # None /\ "CREAT" \notin flags'
    BY <1>10 DEF NC3_abort, IsOpen
  <2>2. CASE "CREAT" \in flags
    <3>1. file'.header.vars = <<>>
      BY <1>10, <2>2 DEF NC3_abort, NoFile
    <3>2. PICK h \in Headers : h = file'.header
      BY <1>1
    <3>3. FromHeader(h).vars = <<>>
      BY <3>1, <3>2, FromHeaderIs
    <3>4. Space(FromHeader(h))
      BY <3>3 DEF Space
    <3> QED
      BY <2>1, <3>2, <3>4 DEF Roomy
  <2>3. CASE "CREAT" \notin flags /\ Indef
    BY <1>2, <1>10, <2>1, <2>3 DEF NC3_abort
  <2>4. CASE "CREAT" \notin flags /\ ~Indef
    BY <1>6, <1>10, <2>1, <2>4 DEF NC3_abort, Indef
  <2> QED
    BY <2>2, <2>3, <2>4
<1>11. CASE \E r \in Reserves : NC3__enddef(r)
  <2>1. PICK r \in Reserves : NC3__enddef(r)
    BY <1>11
  <2>2. nc # None /\ "CREAT" \notin flags'
    BY <2>1 DEF NC3__enddef, Endable, Indef, IInv, Modes
  <2> QED
    BY <1>8, <2>1, <2>2 DEF NC3__enddef
<1>12. CASE \E r \in Reserves : NC3__enddef_fails(r)
  <2>1. PICK r \in Reserves : NC3__enddef_fails(r)
    BY <1>12
  <2>2. file' = file /\ flags' = flags
    BY <2>1, FailsEarly
  <2>3. PICK new : new = NC_begins(r) /\ nc' = new
    BY <2>1 DEF NC3__enddef_fails
  <2>4. nc # None
    BY <2>1 DEF NC3__enddef_fails, Endable, Indef, IInv, Modes
  <2>5. nc \in Infos /\ old \in Infos \cup {None}
    BY <2>4, GoodInfo DEF IInv, Parts
  <2>6. nc'.numrecs = nc.numrecs
    BY <2>3, <2>5, BeginsDefs
  <2> QED
    BY <1>2, <2>2, <2>6
<1>13. CASE \E shape \in Shapes : NC3_def_var(shape)
  <2>1. nc # None /\ nc \in Infos
    BY <1>13, GoodInfo DEF NC3_def_var, IsOpen, IInv, Parts
  <2>2. file' = file /\ flags' = flags /\ nc'.numrecs = nc.numrecs
    BY <1>13, <2>1 DEF NC3_def_var, Infos
  <2> QED
    BY <1>2, <2>2
<1>14. CASE \E size \in AttSizes : NC3_put_att(size)
  <2>1. nc # None /\ nc \in Infos
    BY <1>14, GoodInfo DEF NC3_put_att, IsOpen, IInv, Parts
  <2>2. file' = file /\ ("CREAT" \in flags' => "CREAT" \in flags) /\ nc'.numrecs = nc.numrecs
    BY <1>14, <2>1 DEF NC3_put_att, Infos
  <2> QED
    BY <1>2, <2>2
<1>15. CASE \E i \in 1 .. MaxVars, rec \in 0 .. MaxRecs - 1, v \in Values :
              NC3_put_vara(i, rec, v)
  <2>1. PICK i \in 1 .. MaxVars, rec \in 0 .. MaxRecs - 1, v \in Values :
          NC3_put_vara(i, rec, v)
    BY <1>15
  <2>2. file'.header.vars = file.header.vars
    BY <2>1, PutKeepsVars
  <2>3. "CREAT" \notin flags'
    BY <2>1 DEF NC3_put_vara, Indef
  <2> QED
    BY <1>2, <2>2, <2>3
<1>16. CASE UNCHANGED vars
  BY <1>2, <1>16 DEF vars
<1> QED
  BY <1>3, <1>4, <1>5, <1>7, <1>9, <1>10, <1>11, <1>12, <1>13, <1>14, <1>15, <1>16 DEF Next

-----------------------------------------------------------------------------
(* The steps of NC3 are steps of NCRecords *)

(* The dataset and the definitions, by the variables they depend on.       *)
DatasetOf(f, n, o, fl) ==
  IF f = NoFile \/ "CREAT" \in fl THEN NoFile
  ELSE MeaningIn(f, IF o # None THEN o ELSE IF n # None THEN n ELSE FromHeader(f.header))
DefinedIn(n, o) ==
  [vars |-> [i \in 1 .. Len(n.vars) - Len(o.vars) |-> n.vars[Len(o.vars) + i].rec],
   att  |-> n.att]
DefinitionsOf(n, o, fl) ==
  IF {"CREAT", "INDEF"} \cap fl = {} THEN NoFile ELSE DefinedIn(n, o)

LEMMA DatasetIs ==
  /\ Dataset = DatasetOf(file, nc, old, flags)
  /\ Dataset' = DatasetOf(file', nc', old', flags')
  /\ Definitions = DefinitionsOf(nc, old, flags)
  /\ Definitions' = DefinitionsOf(nc', old', flags')
<1>1. Dataset = DatasetOf(file, nc, old, flags)
  BY DEF Dataset, DatasetOf, Meaning, ValueAt, MeaningIn, ValueIn, Valid, IsOpen
<1>2. Dataset' = DatasetOf(file', nc', old', flags')
  BY DEF Dataset, DatasetOf, Meaning, ValueAt, MeaningIn, ValueIn, Valid, IsOpen
<1>3. Definitions = DefinitionsOf(nc, old, flags)
  BY DEF Definitions, DefinitionsOf, DefinedIn, Indef
<1>4. Definitions' = DefinitionsOf(nc', old', flags')
  BY DEF Definitions, DefinitionsOf, DefinedIn, Indef
<1> QED
  BY <1>1, <1>2, <1>3, <1>4

(* They can be told from a dataset that is not there.                      *)
LEMMA MeansSomething ==
  ASSUME NEW f, NEW h, NEW n, NEW o
  PROVE  MeaningIn(f, h) # NoFile /\ DefinedIn(n, o) # NoFile
<1>1. "exists" \in DOMAIN NoFile
  BY DEF NoFile
<1>2. "exists" \notin DOMAIN MeaningIn(f, h)
  BY DEF MeaningIn
<1>3. "exists" \notin DOMAIN DefinedIn(n, o)
  BY DEF DefinedIn
<1> QED
  BY <1>1, <1>2, <1>3

(* In data mode, in define mode, in the define mode of a new dataset, and  *)
(* when no dataset is open.                                                *)
LEMMA InDataMode ==
  ASSUME NEW f, f # NoFile, NEW n, n # None, NEW o, o = None, NEW fl,
         "CREAT" \notin fl, "INDEF" \notin fl
  PROVE  DatasetOf(f, n, o, fl) = MeaningIn(f, n) /\ DefinitionsOf(n, o, fl) = NoFile
BY DEF DatasetOf, DefinitionsOf

(* In define mode the dataset is what the header says that was valid       *)
(* before.                                                                 *)
LEMMA InDefineMode ==
  ASSUME NEW f, f # NoFile, NEW n, NEW o, o # None, NEW fl, "CREAT" \notin fl, "INDEF" \in fl
  PROVE  DatasetOf(f, n, o, fl) = MeaningIn(f, o) /\ DefinitionsOf(n, o, fl) = DefinedIn(n, o)
BY DEF DatasetOf, DefinitionsOf

(* A dataset that is being created is not there yet.                       *)
LEMMA InCreation ==
  ASSUME NEW f, NEW n, NEW o, NEW fl, "CREAT" \in fl
  PROVE  DatasetOf(f, n, o, fl) = NoFile /\ DefinitionsOf(n, o, fl) = DefinedIn(n, o)
BY DEF DatasetOf, DefinitionsOf

(* A dataset that is not open is what the header in its file says.         *)
LEMMA WhenClosed ==
  ASSUME NEW f, NEW n, n = None, NEW o, o = None, NEW fl, fl = {} \/ fl = {"NSYNC"}
  PROVE  /\ f # NoFile => DatasetOf(f, n, o, fl) = MeaningIn(f, FromHeader(f.header))
         /\ f = NoFile => DatasetOf(f, n, o, fl) = NoFile
         /\ DefinitionsOf(n, o, fl) = NoFile
BY DEF DatasetOf, DefinitionsOf

(* What the invariant says of the modes.                                   *)
LEMMA ModesAre ==
  ASSUME IInv
  PROVE  /\ nc # None => file # NoFile
         /\ nc = None => old = None /\ flags = {}
         /\ old # None <=> "INDEF" \in flags
         /\ "CREAT" \in flags => old = None /\ nc # None
         /\ nc # None => nc \in Infos
         /\ old # None => old \in Infos /\ nc # None
         /\ FileIs(file)
<1>1. ~NoFile.exists
  BY DEF NoFile
<1> QED
  BY <1>1, GoodInfo DEF IInv, Modes, Parts, FileGood

(* A header that was written means what the library had.                   *)
LEMMA ReadMeans ==
  ASSUME NEW g \in Infos, LaidOut(g), NEW h \in Headers, h.vars = g.vars, h.att = g.att,
         h.numrecs = g.numrecs, NEW f
  PROVE  MeaningIn(f, FromHeader(h)) = MeaningIn(f, g)
<1>1. PICK k : k = FromHeader(h)
  OBVIOUS
<1>2. k.vars = g.vars /\ k.recsize = g.recsize
  BY <1>1, ReadsAs
<1>3. k.att = g.att /\ k.numrecs = g.numrecs
  BY <1>1, FromHeaderIs
<1>4. MeaningIn(f, k) = MeaningIn(f, g)
  BY <1>2, <1>3, MeaningSame
<1> QED
  BY <1>1, <1>4

(* nc_create starts definitions, nc_open changes nothing.                  *)
LEMMA CreateCreates ==
  ASSUME IInv, NEW share \in Shared, NC3_create(share)
  PROVE  Records!Create
<1>1. /\ nc = None /\ old = None /\ flags = {} /\ file = NoFile
      /\ nc' = Empty /\ old' = None /\ "CREAT" \in flags'
  BY ModesAre DEF NC3_create, IsOpen, Empty
<1>2. Dataset = NoFile
  BY <1>1, DatasetIs, WhenClosed
<1>3. Dataset' = NoFile /\ Definitions' = DefinedIn(Empty, None)
  <2>1. /\ DatasetOf(file', nc', old', flags') = NoFile
        /\ DefinitionsOf(nc', old', flags') = DefinedIn(nc', old')
    BY <1>1, InCreation
  <2> QED
    BY <1>1, <2>1, DatasetIs
<1>4. DefinedIn(Empty, None) = [vars |-> <<>>, att |-> 0]
  <2>1. Len(Empty.vars) = 0 /\ Len(None.vars) = 0 /\ Empty.att = 0
    BY DEF Empty, None
  <2>2. [i \in 1 .. Len(Empty.vars) - Len(None.vars) |-> Empty.vars[Len(None.vars) + i].rec]
          = <<>>
    BY <2>1
  <2> QED
    BY <2>1, <2>2 DEF DefinedIn
<1> QED
  BY <1>2, <1>3, <1>4 DEF Records!Create

(* nc_open changes nothing that a client sees: what is read from the       *)
(* header is what was written.                                             *)
LEMMA OpenStutters ==
  ASSUME IInv, NEW share \in Shared, NC3_open(share)
  PROVE  UNCHANGED <<Dataset, Definitions>>
<1>1. /\ nc = None /\ old = None /\ flags = {} /\ file # NoFile
      /\ nc' = FromHeader(file.header) /\ old' = None /\ file' = file
      /\ "CREAT" \notin flags' /\ "INDEF" \notin flags'
  BY ModesAre DEF NC3_open, IsOpen, Nsync
<1>2. nc' # None
  BY <1>1, ReadGood, GoodInfo DEF IInv, Parts
<1>3. Dataset = MeaningIn(file, FromHeader(file.header)) /\ Definitions = NoFile
  BY <1>1, DatasetIs, WhenClosed
<1>4. Dataset' = MeaningIn(file', nc') /\ Definitions' = NoFile
  <2>1. /\ DatasetOf(file', nc', old', flags') = MeaningIn(file', nc')
        /\ DefinitionsOf(nc', old', flags') = NoFile
    BY <1>1, <1>2, InDataMode
  <2> QED
    BY <2>1, DatasetIs
<1> QED
  BY <1>1, <1>3, <1>4

(* nc_redef starts definitions: with nothing pending the header in the     *)
(* file is the one in memory.                                              *)
LEMMA RedefRedefines ==
  ASSUME IInv, Undone, NC3_redef
  PROVE  Records!Redef
<1>1. PICK g : /\ g = IF "NSYNC" \in flags THEN FromHeader(file.header) ELSE nc
               /\ nc' = g /\ old' = g /\ file' = file
  BY DEF NC3_redef
<1>2. /\ nc # None /\ "CREAT" \notin flags /\ "INDEF" \notin flags
      /\ "HDIRTY" \notin flags /\ "NDIRTY" \notin flags
      /\ "INDEF" \in flags' /\ "CREAT" \notin flags'
  BY DEF NC3_redef, IsOpen, Indef, Undone
<1>3. file # NoFile /\ nc \in Infos /\ old = None /\ file.header \in Headers /\ LaidOut(nc)
  BY <1>2, ModesAre DEF FileIs, IInv, Layout, Settled
<1>4. /\ file.header.vars = nc.vars /\ file.header.att = nc.att
      /\ file.header.numrecs = nc.numrecs
  BY <1>2 DEF IInv, Matches
<1>5. MeaningIn(file, g) = MeaningIn(file, nc) /\ g.vars = nc.vars /\ g.att = nc.att
  <2>1. CASE "NSYNC" \in flags
    <3>1. PICK h \in Headers : /\ h = file.header /\ h.vars = nc.vars /\ h.att = nc.att
                               /\ h.numrecs = nc.numrecs
      BY <1>3, <1>4
    <3>2. MeaningIn(file, FromHeader(h)) = MeaningIn(file, nc)
      BY <1>3, <3>1, ReadMeans
    <3>3. FromHeader(h).vars = nc.vars /\ FromHeader(h).att = nc.att
      BY <3>1, FromHeaderIs
    <3> QED
      BY <1>1, <2>1, <3>1, <3>2, <3>3
  <2>2. CASE "NSYNC" \notin flags
    BY <1>1, <2>2
  <2> QED
    BY <2>1, <2>2
<1>6. g # None
  BY <1>1, <1>2, <1>3, ReadGood, GoodInfo DEF IInv, Parts
<1>7. Dataset = MeaningIn(file, nc) /\ Definitions = NoFile
  BY <1>2, <1>3, DatasetIs, InDataMode
<1>8. Dataset' = MeaningIn(file, g) /\ Definitions' = DefinedIn(g, g)
  <2>1. /\ DatasetOf(file, g, g, flags') = MeaningIn(file, g)
        /\ DefinitionsOf(g, g, flags') = DefinedIn(g, g)
    BY <1>2, <1>3, <1>6, InDefineMode
  <2> QED
    BY <1>1, <2>1, DatasetIs
<1>9. DefinedIn(g, g) = [vars |-> <<>>, att |-> Dataset.att]
  <2>1. Len(g.vars) \in Nat /\ Dataset.att = g.att
    BY <1>3, <1>5, <1>7, InfosAre, RecsIs DEF MeaningIn
  <2>2. Len(g.vars) - Len(g.vars) = 0
    BY <2>1
  <2>3. [i \in 1 .. Len(g.vars) - Len(g.vars) |-> g.vars[Len(g.vars) + i].rec] = <<>>
    BY <2>2
  <2> QED
    BY <2>1, <2>3 DEF DefinedIn
<1>10. Dataset # NoFile
  BY <1>7, MeansSomething
<1> QED
  BY <1>5, <1>7, <1>8, <1>9, <1>10 DEF Records!Redef

(* nc_sync changes nothing.                                                *)
LEMMA SyncStutters ==
  ASSUME IInv, Roomy, NC3_sync
  PROVE  UNCHANGED <<Dataset, Definitions>>
<1>1. /\ nc # None /\ "CREAT" \notin flags /\ "INDEF" \notin flags
      /\ file' = NC_sync /\ nc' = nc /\ old' = old
      /\ "CREAT" \notin flags' /\ "INDEF" \notin flags'
  BY DEF NC3_sync, IsOpen, Indef
<1>2. file # NoFile /\ nc \in Infos /\ old = None
  BY <1>1, ModesAre
<1>3. file' # NoFile
  BY <1>1, SyncIs DEF IInv, Modes, NoFile
<1>4. MeaningIn(NC_sync, nc) = MeaningIn(file, nc)
  BY <1>1, RoomOpen, SyncMeans
<1>5. Dataset = MeaningIn(file, nc) /\ Definitions = NoFile
  BY <1>1, <1>2, DatasetIs, InDataMode
<1>6. Dataset' = MeaningIn(NC_sync, nc) /\ Definitions' = NoFile
  <2>1. /\ DatasetOf(file', nc', old', flags') = MeaningIn(file', nc')
        /\ DefinitionsOf(nc', old', flags') = NoFile
    BY <1>1, <1>2, <1>3, InDataMode
  <2> QED
    BY <1>1, <2>1, DatasetIs
<1> QED
  BY <1>4, <1>5, <1>6

(* nc_enddef makes the definitions part of the dataset.                    *)
LEMMA EnddefDefines ==
  ASSUME Rounded, IInv, Padding, Roomy, Indef, nc # None, NEW r \in Reserves,
         NEW new, new = NC_begins(r), Endable(new),
         Dataset' = MeaningIn(Done(new, Steps(new)), new), Definitions' = NoFile
  PROVE  Records!Enddef
<1>1. /\ nc \in Infos /\ file # NoFile /\ FileIs(file)
      /\ old # None => old \in Infos /\ "INDEF" \in flags /\ "CREAT" \notin flags
      /\ old = None => "CREAT" \in flags
  BY ModesAre DEF Indef, IInv, Modes
<1>2. PICK c \in Nat : c = Len(old.vars)
  <2>1. CASE old = None
    BY <2>1 DEF None
  <2>2. CASE old # None
    BY <1>1, <2>2, InfosAre, RecsIs
  <2> QED
    BY <2>1, <2>2
<1>3. PICK d \in Nat : c + d = Len(nc.vars) /\ d = Len(nc.vars) - c
  <2>1. Len(nc.vars) \in Nat
    BY <1>1, InfosAre, RecsIs
  <2>2. c <= Len(nc.vars)
    <3>1. CASE old = None
      BY <1>2, <2>1, <3>1 DEF None
    <3>2. CASE old # None
      BY <1>2, <3>2 DEF IInv, Layout, Extends
    <3> QED
      BY <3>1, <3>2
  <2>3. Len(nc.vars) - c \in Nat /\ c + (Len(nc.vars) - c) = Len(nc.vars)
    BY <2>1, <2>2
  <2> QED
    BY <2>3
<1>4. old = None => nc.numrecs = 0
  BY <1>1 DEF Roomy
<1>5. PICK a : a = OldVars
  OBVIOUS
<1>6. PICK b : b = NewVars(nc, c, d)
  OBVIOUS
<1>7. Dataset' = [att |-> nc.att, numrecs |-> nc.numrecs, vars |-> a \o b]
  <2>1. c + d = Len(nc.vars)
    BY <1>3
  <2>2. MeaningIn(Done(new, Steps(new)), new)
          = [att |-> nc.att, numrecs |-> nc.numrecs, vars |-> OldVars \o NewVars(nc, c, d)]
    BY <1>2, <1>4, <2>1, EnddefMeans
  <2> QED
    BY <1>5, <1>6, <2>2
<1>8. Definitions = DefinedIn(nc, old)
  <2>1. CASE old = None
    BY <1>1, <2>1, DatasetIs, InCreation
  <2>2. CASE old # None
    BY <1>1, <2>2, DatasetIs, InDefineMode
  <2> QED
    BY <2>1, <2>2
<1>9. Definitions = [vars |-> [i \in 1 .. d |-> nc.vars[c + i].rec], att |-> nc.att]
  BY <1>2, <1>3, <1>8 DEF DefinedIn
<1>10. Definitions # NoFile
  BY <1>8, MeansSomething
<1>11. /\ nc.numrecs = IF Dataset = NoFile THEN 0 ELSE Dataset.numrecs
       /\ a = IF Dataset = NoFile THEN <<>> ELSE Dataset.vars
  <2>1. CASE old = None
    <3>1. Dataset = NoFile
      BY <1>1, <2>1, DatasetIs, InCreation
    <3> QED
      BY <1>4, <1>5, <2>1, <3>1 DEF OldVars
  <2>2. CASE old # None
    <3>1. Dataset = MeaningIn(file, old) /\ Dataset # NoFile
      BY <1>1, <2>2, DatasetIs, InDefineMode, MeansSomething
    <3>2. Dataset.numrecs = old.numrecs
      BY <3>1 DEF MeaningIn
    <3>3. nc.numrecs = old.numrecs
      BY <2>2 DEF Padding
    <3> QED
      BY <1>5, <2>2, <3>1, <3>2, <3>3 DEF OldVars
  <2> QED
    BY <2>1, <2>2
<1>12. PICK e : e = [i \in DOMAIN Definitions.vars |->
                       [rec  |-> Definitions.vars[i],
                        data |-> Records!Filled(IF Definitions.vars[i] THEN nc.numrecs ELSE 1)]]
  OBVIOUS
<1>13. e = b
  <2>1. e = [i \in 1 .. d |->
               [rec  |-> nc.vars[c + i].rec,
                data |-> Records!Filled(IF nc.vars[c + i].rec THEN nc.numrecs ELSE 1)]]
    BY <1>9, <1>12
  <2> QED
    BY <1>6, <2>1 DEF NewVars, Records!Filled
<1>14. Dataset' = [att |-> Definitions.att, numrecs |-> nc.numrecs, vars |-> a \o e]
  BY <1>7, <1>9, <1>13
<1> QED
  BY <1>10, <1>11, <1>12, <1>14 DEF Records!Enddef

(* nc_enddef makes the definitions the dataset, with fill values, and      *)
(* changes no value that was there.                                        *)
LEMMA EnddefEnds ==
  ASSUME Rounded, IInv, Padding, Roomy, NEW r \in Reserves, NC3__enddef(r)
  PROVE  Records!Enddef
<1>1. PICK new : /\ new = NC_begins(r) /\ Endable(new) /\ nc' = new /\ old' = None
                 /\ file' = Done(new, Steps(new))
                 /\ "CREAT" \notin flags' /\ "INDEF" \notin flags'
  BY DEF NC3__enddef
<1>2. Indef /\ nc # None
  BY <1>1 DEF Endable, Indef, IInv, Modes
<1>3. new # None /\ file' # NoFile
  <2>1. InfoGood(new) /\ Done(new, Steps(new)).exists = file.exists
    BY <1>1, <1>2, EnddefDone
  <2> QED
    BY <1>1, <1>2, <2>1, GoodInfo DEF IInv, Modes, NoFile
<1>4. Dataset' = MeaningIn(Done(new, Steps(new)), new) /\ Definitions' = NoFile
  <2>1. /\ DatasetOf(file', nc', old', flags') = MeaningIn(file', nc')
        /\ DefinitionsOf(nc', old', flags') = NoFile
    BY <1>1, <1>3, InDataMode
  <2> QED
    BY <1>1, <2>1, DatasetIs
<1> QED
  BY <1>1, <1>2, <1>4, EnddefDefines

(* nc_close and nc_abort outside define mode change nothing.               *)
LEMMA ClosingStutters ==
  ASSUME IInv, Roomy, nc # None, "CREAT" \notin flags, "INDEF" \notin flags,
         file' = NC_sync, nc' = None, old' = None, flags' = {}
  PROVE  UNCHANGED <<Dataset, Definitions>>
<1>1. file # NoFile /\ nc \in Infos /\ old = None /\ LaidOut(nc)
  BY ModesAre DEF IInv, Layout, Settled
<1>2. file' # NoFile
  BY SyncIs DEF IInv, Modes, NoFile
<1>3. MeaningIn(NC_sync, nc) = MeaningIn(file, nc)
  BY RoomOpen, SyncMeans
<1>4. Dataset = MeaningIn(file, nc) /\ Definitions = NoFile
  BY <1>1, DatasetIs, InDataMode
<1>5. Dataset' = MeaningIn(file', FromHeader(file'.header)) /\ Definitions' = NoFile
  <2>1. /\ DatasetOf(file', nc', old', flags') = MeaningIn(file', FromHeader(file'.header))
        /\ DefinitionsOf(nc', old', flags') = NoFile
    BY <1>2, WhenClosed
  <2> QED
    BY <2>1, DatasetIs
<1>6. MeaningIn(file', FromHeader(file'.header)) = MeaningIn(file', nc)
  <2>1. PICK h \in Headers : /\ h = file'.header /\ h.vars = nc.vars /\ h.att = nc.att
                             /\ h.numrecs = nc.numrecs
    BY <1>1, SyncIs, HeaderIs
  <2> QED
    BY <1>1, <2>1, ReadMeans
<1> QED
  BY <1>3, <1>4, <1>5, <1>6

(* nc_close in define mode ends it.                                        *)
LEMMA CloseEnds ==
  ASSUME Rounded, IInv, Padding, Roomy, NC3_close
  PROVE  Records!Enddef \/ UNCHANGED <<Dataset, Definitions>>
<1>1. nc # None /\ nc' = None /\ old' = None /\ flags' = {}
  BY DEF NC3_close, IsOpen
<1>2. CASE ~Indef
  <2>1. file' = NC_sync /\ "CREAT" \notin flags /\ "INDEF" \notin flags
    BY <1>2 DEF NC3_close, Indef
  <2> QED
    BY <1>1, <2>1, ClosingStutters
<1>3. CASE Indef
  <2>1. PICK new : /\ new = NC_begins(Default) /\ Endable(new)
                   /\ file' = Done(new, Steps(new))
    BY <1>3 DEF NC3_close
  <2>2. Default \in Reserves
    BY ParametersAssumption
  <2>3. /\ InfoGood(new) /\ Settled(new) /\ Done(new, Steps(new)).exists = file.exists
        /\ Done(new, Steps(new)).header = Header(new)
    BY <1>1, <2>1, <2>2, EnddefDone
  <2>4. file' # NoFile
    BY <1>1, <2>1, <2>3 DEF IInv, Modes, NoFile
  <2>5. new \in Infos /\ LaidOut(new)
    BY <2>3, GoodInfo DEF Settled
  <2>6. PICK h \in Headers : /\ h = file'.header /\ h.vars = new.vars /\ h.att = new.att
                             /\ h.numrecs = new.numrecs
    BY <2>1, <2>3, <2>5, HeaderIs
  <2>7. MeaningIn(file', FromHeader(h)) = MeaningIn(file', new)
    BY <2>5, <2>6, ReadMeans
  <2>8. /\ DatasetOf(file', nc', old', flags') = MeaningIn(file', FromHeader(file'.header))
        /\ DefinitionsOf(nc', old', flags') = NoFile
    BY <1>1, <2>4, WhenClosed
  <2>9. Dataset' = MeaningIn(Done(new, Steps(new)), new) /\ Definitions' = NoFile
    BY <2>1, <2>6, <2>7, <2>8, DatasetIs
  <2>10. Records!Enddef
    BY <1>1, <1>3, <2>1, <2>2, <2>9, EnddefDefines
  <2> QED
    BY <2>10
<1> QED
  BY <1>2, <1>3

(* nc_abort in define mode leaves the dataset that nc_redef found, and     *)
(* outside it writes what is pending.                                      *)
LEMMA AbortAborts ==
  ASSUME IInv, Roomy, Restorable, NC3_abort
  PROVE  Records!Abort \/ UNCHANGED <<Dataset, Definitions>>
<1>1. nc # None /\ nc' = None /\ old' = None /\ flags' = {}
  BY DEF NC3_abort, IsOpen
<1>2. CASE ~Indef
  <2>1. file' = NC_sync /\ "CREAT" \notin flags /\ "INDEF" \notin flags
    BY <1>2 DEF NC3_abort, Indef
  <2> QED
    BY <1>1, <2>1, ClosingStutters
<1>3. CASE "CREAT" \in flags
  <2>1. file' = NoFile
    BY <1>3 DEF NC3_abort
  <2>2. Dataset = NoFile /\ Definitions = DefinedIn(nc, old)
    BY <1>3, DatasetIs, InCreation
  <2>3. Dataset' = NoFile /\ Definitions' = NoFile
    <3>1. /\ DatasetOf(file', nc', old', flags') = NoFile
          /\ DefinitionsOf(nc', old', flags') = NoFile
      BY <1>1, <2>1, WhenClosed
    <3> QED
      BY <3>1, DatasetIs
  <2>4. Definitions # NoFile
    BY <2>2, MeansSomething
  <2> QED
    BY <2>2, <2>3, <2>4 DEF Records!Abort
<1>4. CASE "CREAT" \notin flags /\ Indef
  <2>1. file' = file /\ file # NoFile /\ "INDEF" \in flags /\ old # None
    BY <1>1, <1>4, ModesAre DEF NC3_abort, Indef
  <2>2. old \in Infos /\ LaidOut(old) /\ file.header = Header(old)
    BY <2>1, ModesAre DEF IInv, Layout, Settled, Restorable
  <2>3. Dataset = MeaningIn(file, old) /\ Definitions = DefinedIn(nc, old)
    BY <1>4, <2>1, DatasetIs, InDefineMode
  <2>4. Dataset' = MeaningIn(file, FromHeader(file.header)) /\ Definitions' = NoFile
    <3>1. /\ DatasetOf(file', nc', old', flags') = MeaningIn(file', FromHeader(file'.header))
          /\ DefinitionsOf(nc', old', flags') = NoFile
      BY <1>1, <2>1, WhenClosed
    <3> QED
      BY <2>1, <3>1, DatasetIs
  <2>5. MeaningIn(file, FromHeader(file.header)) = MeaningIn(file, old)
    <3>1. PICK h \in Headers : /\ h = file.header /\ h.vars = old.vars /\ h.att = old.att
                               /\ h.numrecs = old.numrecs
      BY <2>2, HeaderIs
    <3> QED
      BY <2>2, <3>1, ReadMeans
  <2>6. Definitions # NoFile
    BY <2>3, MeansSomething
  <2> QED
    BY <2>3, <2>4, <2>5, <2>6 DEF Records!Abort
<1> QED
  BY <1>2, <1>3, <1>4 DEF Indef

(* As long as file, old and flags stay in define mode the dataset does, and *)
(* the definitions are those of nc.                                        *)
LEMMA DefiningKeeps ==
  ASSUME IInv, Indef, UNCHANGED <<file, old, flags>>
  PROVE  /\ Dataset' = Dataset /\ Definitions = DefinedIn(nc, old)
         /\ Definitions' = DefinedIn(nc', old) /\ Definitions # NoFile
<1>1. CASE "CREAT" \in flags
  <2>1. Dataset = NoFile /\ Definitions = DefinedIn(nc, old)
    BY <1>1, DatasetIs, InCreation
  <2>2. /\ DatasetOf(file', nc', old', flags') = NoFile
        /\ DefinitionsOf(nc', old', flags') = DefinedIn(nc', old')
    BY <1>1, InCreation
  <2> QED
    BY <2>1, <2>2, DatasetIs, MeansSomething
<1>2. CASE "CREAT" \notin flags
  <2>1. "INDEF" \in flags /\ old # None /\ file # NoFile
    BY <1>2, ModesAre DEF Indef
  <2>2. Dataset = MeaningIn(file, old) /\ Definitions = DefinedIn(nc, old)
    BY <1>2, <2>1, DatasetIs, InDefineMode
  <2>3. /\ DatasetOf(file', nc', old', flags') = MeaningIn(file', old')
        /\ DefinitionsOf(nc', old', flags') = DefinedIn(nc', old')
    BY <1>2, <2>1, InDefineMode
  <2> QED
    BY <2>2, <2>3, DatasetIs, MeansSomething
<1> QED
  BY <1>1, <1>2

(* An nc_enddef that fails early changes nothing.                          *)
LEMMA FailStutters ==
  ASSUME IInv, Undone, NEW r \in Reserves, NC3__enddef_fails(r)
  PROVE  UNCHANGED <<Dataset, Definitions>>
<1>1. Indef /\ nc' = NC_begins(r) /\ UNCHANGED <<file, old, flags>>
  BY FailsEarly DEF NC3__enddef_fails, Endable
<1>2. nc # None
  BY <1>1 DEF Indef, IInv, Modes
<1>3. nc \in Infos /\ old \in Infos \cup {None}
  BY <1>2, ModesAre
<1>4. /\ Dataset' = Dataset /\ Definitions = DefinedIn(nc, old)
      /\ Definitions' = DefinedIn(nc', old)
  BY <1>1, DefiningKeeps
<1>5. PICK new : new = NC_begins(r) /\ nc' = new
  BY <1>1
<1>6. /\ Len(new.vars) = Len(nc.vars) /\ new.att = nc.att
      /\ \A i \in 1 .. Len(nc.vars) : new.vars[i].rec = nc.vars[i].rec
  BY <1>3, <1>5, BeginsDefs
<1>7. PICK c \in Nat, n \in Nat : c = Len(old.vars) /\ n = Len(nc.vars)
  <2>1. Len(nc.vars) \in Nat
    BY <1>3, InfosAre, RecsIs
  <2>2. Len(old.vars) \in Nat
    <3>1. CASE old = None
      BY <3>1 DEF None
    <3>2. CASE old # None
      BY <1>3, <3>2, InfosAre, RecsIs
    <3> QED
      BY <3>1, <3>2
  <2> QED
    BY <2>1, <2>2
<1>8. [i \in 1 .. n - c |-> new.vars[c + i].rec] = [i \in 1 .. n - c |-> nc.vars[c + i].rec]
  <2>1. ASSUME NEW i \in 1 .. n - c
        PROVE  new.vars[c + i].rec = nc.vars[c + i].rec
    <3>1. c + i \in 1 .. n
      OBVIOUS
    <3> QED
      BY <1>6, <1>7, <3>1
  <2> QED
    BY <2>1
<1>9. DefinedIn(new, old) = DefinedIn(nc, old)
  BY <1>6, <1>7, <1>8 DEF DefinedIn
<1> QED
  BY <1>4, <1>5, <1>9

(* A variable is added to the definitions.                                 *)
LEMMA DefVarDefines ==
  ASSUME IInv, NEW shape \in Shapes, NC3_def_var(shape)
  PROVE  Records!DefVar(shape.rec)
<1>1. Indef /\ nc # None /\ UNCHANGED <<file, old, flags>>
  BY DEF NC3_def_var, IsOpen
<1>2. nc \in Infos /\ old \in Infos \cup {None}
  BY <1>1, ModesAre
<1>3. /\ Dataset' = Dataset /\ Definitions = DefinedIn(nc, old)
      /\ Definitions' = DefinedIn(nc', old) /\ Definitions # NoFile
  BY <1>1, DefiningKeeps
<1>4. PICK v, g : /\ v.rec = shape.rec /\ g = nc' /\ g.vars = Append(nc.vars, v)
                  /\ g.att = nc.att
  BY <1>2 DEF NC3_def_var, Infos
<1>5. PICK n \in Nat : n = Len(nc.vars) /\ IsList(nc.vars, n)
  BY <1>2, InfosAre, LenProperties DEF IsList
<1>6. /\ IsList(g.vars, n + 1)
      /\ \A k \in 1 .. n + 1 : g.vars[k] = IF k <= n THEN nc.vars[k] ELSE v
  <2>1. Appended(g.vars, nc.vars, n, v)
    BY <1>4, <1>5, AppendIs
  <2> QED
    BY <2>1 DEF Appended
<1>7. Len(g.vars) = n + 1
  BY <1>2, <1>4, <1>5, InfosAre, LenProperties
<1>8. PICK c \in Nat : c = Len(old.vars) /\ c <= n
  <2>1. CASE old = None
    BY <2>1 DEF None
  <2>2. CASE old # None
    BY <1>2, <1>5, <2>2, InfosAre, RecsIs DEF IInv, Layout, Extends
  <2> QED
    BY <2>1, <2>2
<1>9. PICK d \in Nat : d = n - c /\ d + 1 = (n + 1) - c
  <2>1. n - c \in Nat /\ (n - c) + 1 = (n + 1) - c
    BY <1>8
  <2> QED
    BY <2>1
<1>10. PICK a, b : a = Definitions.vars /\ b = Definitions'.vars
  OBVIOUS
<1>11. /\ a = [i \in 1 .. d |-> nc.vars[c + i].rec]
       /\ Definitions = [vars |-> a, att |-> nc.att]
  BY <1>3, <1>5, <1>8, <1>9, <1>10 DEF DefinedIn
<1>12. /\ b = [i \in 1 .. d + 1 |-> g.vars[c + i].rec]
       /\ Definitions' = [vars |-> b, att |-> nc.att]
  BY <1>3, <1>4, <1>7, <1>8, <1>9, <1>10 DEF DefinedIn
<1>13. PICK z, e : e = shape.rec /\ z = Append(a, e)
  OBVIOUS
<1>14. IsList(z, d + 1) /\ \A k \in 1 .. d + 1 : z[k] = IF k <= d THEN a[k] ELSE e
  <2>1. IsList(a, d)
    BY <1>11 DEF IsList
  <2>2. Appended(z, a, d, e)
    BY <1>13, <2>1, AppendIs
  <2> QED
    BY <2>2 DEF Appended
<1>15. ASSUME NEW k \in 1 .. d + 1
       PROVE  b[k] = IF k <= d THEN a[k] ELSE e
  <2>1. c + k \in 1 .. n + 1 /\ (k <= d <=> c + k <= n)
    BY <1>8, <1>9
  <2>2. b[k] = g.vars[c + k].rec
    BY <1>12
  <2>3. CASE k <= d
    <3>1. k \in 1 .. d
      BY <2>3
    <3> QED
      BY <1>6, <1>11, <2>1, <2>2, <2>3, <3>1
  <2>4. CASE ~(k <= d)
    BY <1>4, <1>6, <1>13, <2>1, <2>2, <2>4
  <2> QED
    BY <2>3, <2>4
<1>16. b = z
  BY <1>12, <1>14, <1>15 DEF IsList
<1>17. Definitions' = [vars |-> Append(a, shape.rec), att |-> nc.att]
  BY <1>12, <1>13, <1>16
<1>18. [Definitions EXCEPT !.vars = Append(Definitions.vars, shape.rec)]
         = [vars |-> Append(a, shape.rec), att |-> nc.att]
  <2>1. PICK y, x : y = Definitions /\ y = [vars |-> a, att |-> nc.att]
                    /\ x = Append(a, shape.rec)
    BY <1>11
  <2>2. y = [vars |-> a, att |-> nc.att]
    BY <2>1
  <2>3. [y EXCEPT !.vars = x] = [vars |-> x, att |-> nc.att]
    BY <2>2
  <2> QED
    BY <1>10, <2>1, <2>3
<1> QED
  BY <1>3, <1>17, <1>18 DEF Records!DefVar

(* The values of a dataset depend neither on the attribute nor on where    *)
(* the sections begin.                                                     *)
ValuesIn(f, h) ==
  [i \in DOMAIN h.vars |->
     [rec  |-> h.vars[i].rec,
      data |-> [r \in 1 .. IF h.vars[i].rec THEN h.numrecs ELSE 1 |->
                  ValueIn(f, Offset(h, i, r - 1), h.vars[i].xlen)]]]

(* Headers with the same variables, counts and record sizes have the same  *)
(* values.                                                                 *)
LEMMA ValuesSame ==
  ASSUME NEW f, NEW h, NEW k, k.vars = h.vars, k.numrecs = h.numrecs, k.recsize = h.recsize
  PROVE  ValuesIn(f, k) = ValuesIn(f, h)
<1>1. \A i, rec : Offset(k, i, rec) = Offset(h, i, rec)
  BY DEF Offset
<1> QED
  BY <1>1 DEF ValuesIn

(* The meaning of a header, with its values.                               *)
LEMMA MeaningValues ==
  ASSUME NEW f, NEW h
  PROVE  MeaningIn(f, h) = [att |-> h.att, numrecs |-> h.numrecs, vars |-> ValuesIn(f, h)]
BY DEF MeaningIn, ValuesIn

(* The attribute is changed in the definitions, or in the dataset.         *)
LEMMA PutAttPuts ==
  ASSUME IInv, NEW size \in AttSizes, NC3_put_att(size)
  PROVE  \/ Records!DefAtt(size)
         \/ Dataset # NoFile /\ Definitions = NoFile /\ Records!PutAtt(size)
<1>1. nc # None /\ nc \in Infos /\ file' = file /\ old' = old
  BY ModesAre DEF NC3_put_att, IsOpen
<1>2. PICK g : /\ g = nc' /\ g.att = size /\ g.vars = nc.vars /\ g.numrecs = nc.numrecs
               /\ g.recsize = nc.recsize /\ g # None
  <2>1. PICK g : g = [nc EXCEPT !.att = size] /\ g = nc'
    BY DEF NC3_put_att
  <2>2. /\ g.att = size /\ g.vars = nc.vars /\ g.numrecs = nc.numrecs
        /\ g.recsize = nc.recsize /\ "begin_var" \in DOMAIN g
    BY <1>1, <2>1 DEF Infos
  <2>3. "begin_var" \notin DOMAIN None
    BY DEF None
  <2> QED
    BY <2>1, <2>2, <2>3
<1>3. CASE Indef
  <2>1. flags' = flags
    BY <1>3 DEF NC3_put_att
  <2>2. /\ Dataset' = Dataset /\ Definitions = DefinedIn(nc, old)
        /\ Definitions' = DefinedIn(nc', old) /\ Definitions # NoFile
    BY <1>1, <1>3, <2>1, DefiningKeeps
  <2>3. PICK a : /\ Definitions = [vars |-> a, att |-> nc.att]
                 /\ Definitions' = [vars |-> a, att |-> size]
    BY <1>2, <2>2 DEF DefinedIn
  <2>4. [Definitions EXCEPT !.att = size] = Definitions'
    <3>1. PICK y : y = Definitions /\ y = [vars |-> a, att |-> nc.att]
      BY <2>3
    <3>2. [y EXCEPT !.att = size] = [vars |-> a, att |-> size]
      BY <3>1
    <3> QED
      BY <2>3, <3>1, <3>2
  <2> QED
    BY <2>2, <2>4 DEF Records!DefAtt
<1>4. CASE ~Indef
  <2>1. /\ "CREAT" \notin flags /\ "INDEF" \notin flags
        /\ "CREAT" \notin flags' /\ "INDEF" \notin flags'
    BY <1>4 DEF NC3_put_att, Indef
  <2>2. file # NoFile /\ old = None
    BY <1>1, <2>1, ModesAre
  <2>3. Dataset = MeaningIn(file, nc) /\ Definitions = NoFile /\ Dataset # NoFile
    BY <1>1, <2>1, <2>2, DatasetIs, InDataMode, MeansSomething
  <2>4. Dataset' = MeaningIn(file, g) /\ Definitions' = NoFile
    <3>1. /\ DatasetOf(file', nc', old', flags') = MeaningIn(file', nc')
          /\ DefinitionsOf(nc', old', flags') = NoFile
      BY <1>1, <1>2, <2>1, <2>2, InDataMode
    <3> QED
      BY <1>1, <1>2, <3>1, DatasetIs
  <2>5. MeaningIn(file, g) = [MeaningIn(file, nc) EXCEPT !.att = size]
    <3>1. ValuesIn(file, g) = ValuesIn(file, nc)
      BY <1>2, ValuesSame
    <3>2. PICK v : /\ v = ValuesIn(file, nc)
                   /\ MeaningIn(file, nc) = [att |-> nc.att, numrecs |-> nc.numrecs, vars |-> v]
      BY MeaningValues
    <3>3. MeaningIn(file, g) = [att |-> size, numrecs |-> nc.numrecs, vars |-> v]
      <4>1. MeaningIn(file, g) = [att |-> g.att, numrecs |-> g.numrecs,
                                  vars |-> ValuesIn(file, g)]
        BY MeaningValues
      <4> QED
        BY <1>2, <3>1, <3>2, <4>1
    <3> QED
      BY <3>2, <3>3
  <2> QED
    BY <2>3, <2>4, <2>5 DEF Records!PutAtt
<1> QED
  BY <1>3, <1>4

-----------------------------------------------------------------------------
(* NC3_put_vara *)

(* What is written for a value.                                            *)
Written(g, f, at, len, v, a) ==
  /\ \A b \in Nat : b < len /\ a = at + b => g.bytes[a] = <<v, b>>
  /\ a < at \/ at + len <= a => g.bytes[a] = f.bytes[a]

LEMMA ValueBytes ==
  ASSUME NEW f, FileIs(f), NEW at \in Nat, NEW len \in Nat, NEW v, NEW a \in Addr
  PROVE  Written(WithValue(f, at, len, v), f, at, len, v, a)
<1>1. PICK g : g = WithValue(f, at, len, v)
  OBVIOUS
<1>2. PICK bytes : bytes = [c \in Addr |-> IF c \in at .. at + len - 1 THEN <<v, c - at>>
                                           ELSE f.bytes[c]]
  OBVIOUS
<1>3. g.bytes = bytes
  BY <1>1, <1>2 DEF WithValue, WithBytes, FileIs
<1>4. a \in Nat
  BY ParametersAssumption DEF Addr
<1>5. ASSUME NEW b \in Nat, b < len, a = at + b
      PROVE  bytes[a] = <<v, b>>
  <2>1. a \in at .. at + len - 1 /\ a - at = b
    BY <1>4, <1>5
  <2> QED
    BY <1>2, <2>1
<1>6. ASSUME a < at \/ at + len <= a
      PROVE  bytes[a] = f.bytes[a]
  <2>1. a \notin at .. at + len - 1
    BY <1>4, <1>6
  <2> QED
    BY <1>2, <2>1
<1> QED
  BY <1>1, <1>3, <1>5, <1>6 DEF Written

(* A place in the file, for a record that there may be.                    *)
MayBe(k, s) == IsPlace(nc, k, s) /\ s \in 0 .. MaxRecs - 1
DataMode    == nc # None /\ "CREAT" \notin flags /\ "INDEF" \notin flags

(* What is known of the dataset then.                                      *)
LEMMA DataModeIs ==
  ASSUME IInv, Roomy, DataMode
  PROVE  /\ nc \in Infos /\ LaidOut(nc) /\ Space(nc) /\ FileIs(file)
         /\ nc.numrecs \in Nat /\ nc.numrecs <= MaxRecs /\ nc.vars \in Seq(Vars)
         /\ old = None /\ file # NoFile
<1>1. nc \in Infos /\ LaidOut(nc) /\ HeaderOK(nc)
  BY GoodInfo DEF DataMode, IInv, Parts, Layout, Settled
<1> QED
  BY <1>1, RoomOpen, ModesAre, InfosAre, ParametersAssumption DEF DataMode, HeaderOK

(* NCvnrecs fills the records up to the one that is written, in every      *)
(* record variable, and leaves all others.                                 *)
Grows(i, rec) == nc.vars[i].rec /\ rec >= nc.numrecs
IsNew(k, s, rec) == nc.vars[k].rec /\ nc.numrecs <= s /\ s <= rec

LEMMA GrownBytes ==
  ASSUME IInv, Roomy, DataMode, NEW rec \in Nat,
         NEW k, NEW s, MayBe(k, s), NEW b \in Nat, b < nc.vars[k].xlen
  PROVE  /\ FileIs(Done(nc, RecordFills(rec)))
         /\ Done(nc, RecordFills(rec)).bytes[Offset(nc, k, s) + b]
              = IF IsNew(k, s, rec) THEN <<Fill, b>> ELSE file.bytes[Offset(nc, k, s) + b]
<1>1. /\ nc \in Infos /\ LaidOut(nc) /\ Space(nc) /\ FileIs(file)
      /\ nc.numrecs \in Nat /\ nc.vars \in Seq(Vars)
  BY DataModeIs
<1>2. /\ k \in 1 .. Len(nc.vars) /\ s \in Nat /\ s \in 0 .. MaxRecs - 1 /\ IsPlace(nc, k, s)
  BY DEF MayBe, IsPlace
<1>3. PICK P : P = (nc.numrecs .. rec) \X Recs(nc)
  OBVIOUS
<1>4. PICK n \in Nat, c \in Nat : n = nc.numrecs /\ c = Len(nc.vars)
  BY <1>1, RecsIs
<1>5. Recs(nc) \subseteq 1 .. c /\ Recs(nc) = {i \in 1 .. c : nc.vars[i].rec}
  BY <1>1, <1>4, RecsIs DEF Recs
<1>6. P \subseteq (0 .. rec) \X (1 .. c) /\ P \subseteq Nat \X Nat
  <2>1. n .. rec \subseteq 0 .. rec /\ n .. rec \subseteq Nat /\ 1 .. c \subseteq Nat
    OBVIOUS
  <2> QED
    BY <1>3, <1>4, <1>5, <2>1
<1>7. PICK f : f = FillsOf(nc, P) /\ f = RecordFills(rec) /\ Filling(nc, f, P)
  <2>1. Filling(nc, FillsOf(nc, P), P)
    BY <1>1, <1>4, <1>6, FillsOfFill
  <2> QED
    BY <1>3, <2>1 DEF RecordFills
<1>8. HasPlaces(nc, P)
  <2>1. ASSUME NEW p \in P
        PROVE  p[2] \in 1 .. c /\ p[1] \in Nat /\ nc.vars[p[2]].rec
    BY <1>3, <1>4, <1>5
  <2> QED
    BY <1>4, <1>6, <2>1 DEF HasPlaces, IsPlace
<1>9. PICK q \in Nat : q = Len(f)
  BY <1>7, LenProperties DEF Filling
<1>10. PICK g : After(nc, f, g) /\ Done(nc, f) = g[q]
  BY <1>9, AfterExists
<1>11. g[0] = file /\ Chain(nc, f, q, g)
  <2>1. g = [j \in 0 .. q |-> IF j = 0 THEN file ELSE Step(nc, g[j - 1], f[j])]
    BY <1>9, <1>10 DEF After
  <2>2. 0 \in 0 .. q /\ \A j \in 1 .. q : j \in 0 .. q /\ j # 0
    OBVIOUS
  <2> QED
    BY <2>1, <2>2 DEF Chain
<1>12. FillRun(nc, P, f, q, g)
  BY <1>1, <1>7, <1>8, <1>9, <1>11 DEF FillRun
<1>13. b < FillLen(nc, k) /\ b < VarLen(nc.vars[k])
  <2>1. PICK x \in Nat, y \in Nat, l \in Nat :
          x = nc.vars[k].xlen /\ y = FillLen(nc, k) /\ l = VarLen(nc.vars[k])
    BY <1>1, <1>2, EndIs, FillLenIs
  <2>2. x <= y /\ x <= l
    BY <1>1, <1>2, <2>1, EndIs, FillLenIs
  <2> QED
    BY <2>1, <2>2
<1>14. PICK a \in Addr : a = Offset(nc, k, s) + b
  BY <1>1, <1>2, <1>13, SpaceIs
<1>15. ByteAt(nc, k, s, b, a)
  BY <1>2, <1>13, <1>14 DEF ByteAt
<1>16. /\ FileIs(g[q])
       /\ g[q].bytes[a] = IF <<s, k>> \in P THEN <<Fill, b>> ELSE g[0].bytes[a]
  BY <1>1, <1>12, <1>15, PlaceFilled
<1>17. <<s, k>> \in P <=> IsNew(k, s, rec)
  <2>1. s \in n .. rec <=> n <= s /\ s <= rec
    BY <1>2
  <2>2. k \in Recs(nc) <=> nc.vars[k].rec
    BY <1>2, <1>4, <1>5
  <2> QED
    BY <1>3, <1>4, <2>1, <2>2 DEF IsNew
<1> QED
  BY <1>7, <1>10, <1>11, <1>14, <1>16, <1>17

(* What nc_put_vara writes: the value, and fill values before it.          *)
LEMMA PutBytes ==
  ASSUME IInv, Roomy, DataMode, NEW i, NEW rec, MayBe(i, rec), NEW v, NC3_put_vara(i, rec, v),
         NEW k, NEW s, MayBe(k, s), NEW b \in Nat, b < nc.vars[k].xlen
  PROVE  file'.bytes[Offset(nc, k, s) + b]
           = IF k = i /\ s = rec THEN <<v, b>>
             ELSE IF Grows(i, rec) /\ IsNew(k, s, rec) THEN <<Fill, b>>
             ELSE file.bytes[Offset(nc, k, s) + b]
<1>1. /\ nc \in Infos /\ LaidOut(nc) /\ Space(nc) /\ FileIs(file)
      /\ nc.numrecs \in Nat /\ nc.vars \in Seq(Vars)
  BY DataModeIs
<1>2. /\ k \in 1 .. Len(nc.vars) /\ s \in Nat /\ s \in 0 .. MaxRecs - 1
      /\ nc.vars[k].rec \/ s = 0
      /\ i \in 1 .. Len(nc.vars) /\ rec \in Nat /\ rec \in 0 .. MaxRecs - 1
      /\ nc.vars[i].rec \/ rec = 0
  BY DEF MayBe, IsPlace
<1>3. PICK filled : filled = IF Grows(i, rec) THEN Done(nc, RecordFills(rec)) ELSE file
  OBVIOUS
<1>4. /\ FileIs(filled)
      /\ filled.bytes[Offset(nc, k, s) + b]
           = IF Grows(i, rec) /\ IsNew(k, s, rec) THEN <<Fill, b>>
             ELSE file.bytes[Offset(nc, k, s) + b]
  <2>1. /\ FileIs(Done(nc, RecordFills(rec)))
        /\ Done(nc, RecordFills(rec)).bytes[Offset(nc, k, s) + b]
             = IF IsNew(k, s, rec) THEN <<Fill, b>> ELSE file.bytes[Offset(nc, k, s) + b]
    BY <1>2, GrownBytes
  <2> QED
    BY <1>1, <1>3, <2>1
<1>5. PICK counted : /\ counted = IF Grows(i, rec) /\ "NSYNC" \in flags
                                  THEN [filled EXCEPT !.header.numrecs = rec + 1] ELSE filled
                     /\ file' = WithValue(counted, Offset(nc, i, rec), nc.vars[i].xlen, v)
  BY <1>3 DEF NC3_put_vara, Grows
<1>6. FileIs(counted) /\ counted.bytes = filled.bytes
  <2>1. CASE Grows(i, rec) /\ "NSYNC" \in flags
    <3>1. rec + 1 \in Nat
      BY <1>2
    <3> QED
      BY <1>4, <1>5, <2>1, <3>1, CountIs
  <2>2. CASE ~(Grows(i, rec) /\ "NSYNC" \in flags)
    BY <1>4, <1>5, <2>2
  <2> QED
    BY <2>1, <2>2
<1>7. PICK x \in Nat, y \in Nat, l \in Nat :
        /\ x = nc.vars[i].xlen /\ y = nc.vars[k].xlen /\ l = VarLen(nc.vars[k])
        /\ y <= l
  BY <1>1, <1>2, EndIs
<1>8. PICK at \in Nat, to \in Nat : at = Offset(nc, i, rec) /\ to = Offset(nc, k, s)
  BY <1>1, <1>2, OffsetIs
<1>9. PICK a \in Addr : a = to + b
  <2>1. b < VarLen(nc.vars[k])
    BY <1>7
  <2> QED
    BY <1>1, <1>2, <1>8, <2>1, SpaceIs
<1>10. /\ \A c \in Nat : c < x /\ a = at + c => file'.bytes[a] = <<v, c>>
       /\ a < at \/ at + x <= a => file'.bytes[a] = counted.bytes[a]
  <2>1. file' = WithValue(counted, at, x, v)
    BY <1>5, <1>7, <1>8
  <2>2. Written(file', counted, at, x, v, a)
    BY <1>6, <2>1, ValueBytes
  <2> QED
    BY <2>2 DEF Written
<1>11. CASE k = i /\ s = rec
  <2>1. at = to /\ x = y
    BY <1>7, <1>8, <1>11
  <2>2. b < x /\ a = at + b
    BY <1>7, <1>9, <2>1
  <2> QED
    BY <1>8, <1>9, <1>10, <1>11, <2>2
<1>12. CASE ~(k = i /\ s = rec)
  <2>1. a < at \/ at + x <= a
    <3>1. SUFFICES ASSUME ~(a < at \/ at + x <= a)
                   PROVE  FALSE
      OBVIOUS
    <3>2. PICK c \in 0 .. x - 1 : a = at + c
      <4>1. a \in Nat
        BY <1>9
      <4>2. a - at \in 0 .. x - 1 /\ a = at + (a - at)
        BY <3>1, <4>1
      <4> QED
        BY <4>2
    <3>3. b \in 0 .. y - 1
      BY <1>7
    <3>4. <<i, rec>> # <<k, s>>
      BY <1>12
    <3>5. Offset(nc, i, rec) + c # Offset(nc, k, s) + b
      BY <1>1, <1>2, <1>7, <3>2, <3>3, <3>4, LaidDisjoint
    <3> QED
      BY <1>8, <1>9, <3>2, <3>5
  <2> QED
    BY <1>4, <1>6, <1>8, <1>9, <1>10, <1>12, <2>1
<1> QED
  BY <1>11, <1>12

(* So the value is found in its place, fill values in the records before   *)
(* it that are new, and in all other places what was there.                *)
LEMMA PutFinds ==
  ASSUME IInv, Roomy, DataMode, NEW i, NEW rec, MayBe(i, rec), NEW v \in Values,
         NC3_put_vara(i, rec, v), NEW k, NEW s, MayBe(k, s)
  PROVE  ValueIn(file', Offset(nc, k, s), nc.vars[k].xlen)
           = IF k = i /\ s = rec THEN v
             ELSE IF Grows(i, rec) /\ IsNew(k, s, rec) THEN Fill
             ELSE ValueIn(file, Offset(nc, k, s), nc.vars[k].xlen)
<1>1. nc.vars \in Seq(Vars) /\ k \in 1 .. Len(nc.vars)
  BY DataModeIs DEF MayBe, IsPlace
<1>2. PICK x \in Nat \ {0} : x = nc.vars[k].xlen
  BY <1>1, EndIs
<1>3. PICK at, f : at = Offset(nc, k, s) /\ f = file'
  OBVIOUS
<1>4. ASSUME NEW b \in 0 .. x - 1
      PROVE  f.bytes[at + b] = IF k = i /\ s = rec THEN <<v, b>>
                               ELSE IF Grows(i, rec) /\ IsNew(k, s, rec) THEN <<Fill, b>>
                               ELSE file.bytes[at + b]
  <2>1. b \in Nat /\ b < nc.vars[k].xlen
    BY <1>2
  <2> QED
    BY <1>3, <2>1, PutBytes
<1>5. CASE k = i /\ s = rec
  <2>1. ValueIn(f, at, x) = v
    BY <1>4, <1>5, ValueFound
  <2> QED
    BY <1>2, <1>3, <1>5, <2>1
<1>6. CASE ~(k = i /\ s = rec) /\ Grows(i, rec) /\ IsNew(k, s, rec)
  <2>1. \A b \in 0 .. x - 1 : f.bytes[at + b] = <<Fill, b>>
    BY <1>4, <1>6
  <2>2. ValueIn(f, at, x) = Fill
    BY <2>1, ValueFound
  <2> QED
    BY <1>2, <1>3, <1>6, <2>2
<1>7. CASE ~(k = i /\ s = rec) /\ ~(Grows(i, rec) /\ IsNew(k, s, rec))
  <2>1. \A b \in 0 .. x - 1 : f.bytes[at + b] = file.bytes[at + b]
    BY <1>4, <1>7
  <2>2. ValueIn(f, at, x) = ValueIn(file, at, x)
    BY <2>1, ValueSame
  <2> QED
    BY <1>2, <1>3, <1>7, <2>2
<1> QED
  BY <1>5, <1>6, <1>7

(* The variables of a dataset, by their kinds and their data.              *)
Lines(c, R, G) == [k \in 1 .. c |-> [rec |-> R[k], data |-> G[k]]]
DatasetWith(t, n, c, R, G) == [att |-> t, numrecs |-> n, vars |-> Lines(c, R, G)]

(* One value is changed.                                                   *)
PutWith(d, i, r, v) == [d EXCEPT !.vars[i].data[r] = v]
LinePut(H, c, G, i, r, v) ==
  H = [k \in 1 .. c |-> IF k = i THEN [G[i] EXCEPT ![r] = v] ELSE G[k]]
LEMMA PutInto ==
  ASSUME NEW c \in Nat, NEW i \in 1 .. c, NEW R, NEW G, NEW t, NEW n, NEW r, NEW v,
         NEW d, d = DatasetWith(t, n, c, R, G), NEW H, LinePut(H, c, G, i, r, v)
  PROVE  PutWith(d, i, r, v) = DatasetWith(t, n, c, R, H)
<1>1. H = [k \in 1 .. c |-> IF k = i THEN [G[i] EXCEPT ![r] = v] ELSE G[k]]
  BY DEF LinePut
<1>2. PICK L : L = Lines(c, R, G) /\ d = [att |-> t, numrecs |-> n, vars |-> L]
  BY DEF DatasetWith
<1>3. [d EXCEPT !.vars[i].data[r] = v]
        = [att |-> t, numrecs |-> n, vars |-> [L EXCEPT ![i].data[r] = v]]
  BY <1>2
<1>4. PICK M : M = [L EXCEPT ![i].data[r] = v]
  OBVIOUS
<1>5. L = [k \in 1 .. c |-> [rec |-> R[k], data |-> G[k]]]
  BY <1>2 DEF Lines
<1>6. M = [k \in 1 .. c |-> IF k = i THEN [L[i] EXCEPT !.data[r] = v] ELSE L[k]]
  BY <1>4, <1>5
<1>7. L[i] = [rec |-> R[i], data |-> G[i]]
  BY <1>5
<1>8. [L[i] EXCEPT !.data[r] = v] = [rec |-> R[i], data |-> [G[i] EXCEPT ![r] = v]]
  BY <1>7
<1>9. ASSUME NEW k \in 1 .. c
      PROVE  M[k] = [rec |-> R[k], data |-> H[k]]
  <2>1. CASE k = i
    BY <1>6, <1>8, <1>1, <2>1
  <2>2. CASE k # i
    BY <1>5, <1>6, <1>1, <2>2
  <2> QED
    BY <2>1, <2>2
<1>10. M = Lines(c, R, H)
  BY <1>6, <1>9 DEF Lines
<1> QED
  BY <1>3, <1>4, <1>10 DEF DatasetWith, PutWith

(* Records are added.                                                      *)
GrownWith(d, m, X) ==
  [d EXCEPT !.numrecs = m,
            !.vars = [k \in DOMAIN d.vars |->
              IF d.vars[k].rec THEN [d.vars[k] EXCEPT !.data = @ \o X] ELSE d.vars[k]]]
LinesGrown(H, c, R, G, X) == H = [k \in 1 .. c |-> IF R[k] THEN G[k] \o X ELSE G[k]]

LEMMA GrowInto ==
  ASSUME NEW c \in Nat, NEW R, NEW G, NEW t, NEW n, NEW m, NEW X,
         NEW d, d = DatasetWith(t, n, c, R, G), NEW H, LinesGrown(H, c, R, G, X)
  PROVE  GrownWith(d, m, X) = DatasetWith(t, m, c, R, H)
<1>1. PICK L : L = Lines(c, R, G) /\ d = [att |-> t, numrecs |-> n, vars |-> L]
  BY DEF DatasetWith
<1>2. PICK M : M = [k \in DOMAIN L |->
                      IF L[k].rec THEN [L[k] EXCEPT !.data = @ \o X] ELSE L[k]]
  OBVIOUS
<1>3. L = [k \in 1 .. c |-> [rec |-> R[k], data |-> G[k]]]
  BY <1>1 DEF Lines
<1>4. ASSUME NEW k \in 1 .. c
      PROVE  M[k] = [rec |-> R[k], data |-> H[k]]
  <2>1. L[k] = [rec |-> R[k], data |-> G[k]]
    BY <1>3
  <2>2. PICK y : y = G[k] \o X
    OBVIOUS
  <2>3. [L[k] EXCEPT !.data = @ \o X] = [L[k] EXCEPT !.data = y]
    BY <2>1, <2>2
  <2>4. [L[k] EXCEPT !.data = y] = [rec |-> R[k], data |-> y]
    BY <2>1
  <2>5. M[k] = IF R[k] THEN [L[k] EXCEPT !.data = @ \o X] ELSE L[k]
    BY <1>2, <1>3, <2>1
  <2>6. H[k] = IF R[k] THEN y ELSE G[k]
    BY <2>2 DEF LinesGrown
  <2> QED
    BY <2>1, <2>3, <2>4, <2>5, <2>6
<1>5. M = Lines(c, R, H)
  BY <1>2, <1>3, <1>4 DEF Lines
<1>6. GrownWith(d, m, X) = [d EXCEPT !.numrecs = m, !.vars = M]
  <2>1. d.vars = L
    BY <1>1
  <2> QED
    BY <1>2, <2>1 DEF GrownWith
<1>7. [d EXCEPT !.numrecs = m, !.vars = M] = [att |-> t, numrecs |-> m, vars |-> M]
  <2>1. PICK e : e = [d EXCEPT !.numrecs = m]
    OBVIOUS
  <2>2. e = [att |-> t, numrecs |-> m, vars |-> L]
    BY <1>1, <2>1
  <2>3. [e EXCEPT !.vars = M] = [att |-> t, numrecs |-> m, vars |-> M]
    BY <2>2
  <2> QED
    BY <2>1, <2>3
<1> QED
  BY <1>5, <1>7, <1>6 DEF DatasetWith

(* The kinds of the variables of a header, and their data.                 *)
KindsIn(h)    == [k \in 1 .. Len(h.vars) |-> h.vars[k].rec]
DataOf(f, h, k) ==
  [r \in 1 .. IF h.vars[k].rec THEN h.numrecs ELSE 1 |->
     ValueIn(f, Offset(h, k, r - 1), h.vars[k].xlen)]
DataIn(f, h)  == [k \in 1 .. Len(h.vars) |-> DataOf(f, h, k)]

(* The meaning of a header, variable by variable.                          *)
LEMMA MeaningLines ==
  ASSUME NEW f, NEW h, h.vars \in Seq(Vars)
  PROVE  MeaningIn(f, h)
           = DatasetWith(h.att, h.numrecs, Len(h.vars), KindsIn(h), DataIn(f, h))
<1>1. DOMAIN h.vars = 1 .. Len(h.vars)
  BY LenProperties
<1>2. ValuesIn(f, h) = [k \in 1 .. Len(h.vars) |->
                          [rec |-> h.vars[k].rec, data |-> DataOf(f, h, k)]]
  BY <1>1 DEF ValuesIn, DataOf
<1>3. ASSUME NEW k \in 1 .. Len(h.vars)
      PROVE  KindsIn(h)[k] = h.vars[k].rec /\ DataIn(f, h)[k] = DataOf(f, h, k)
  BY DEF KindsIn, DataIn
<1>4. ValuesIn(f, h) = Lines(Len(h.vars), KindsIn(h), DataIn(f, h))
  BY <1>2, <1>3 DEF Lines
<1> QED
  BY <1>4, MeaningValues DEF DatasetWith

(* How many records there are then.                                        *)
Counted(i, rec) == IF Grows(i, rec) THEN rec + 1 ELSE nc.numrecs

(* The header then.                                                        *)
LEMMA PutHeader ==
  ASSUME IInv, Roomy, DataMode, NEW i, NEW rec, MayBe(i, rec), NEW v,
         NC3_put_vara(i, rec, v)
  PROVE  /\ nc' \in Infos /\ nc'.vars = nc.vars /\ nc'.att = nc.att
         /\ nc'.recsize = nc.recsize /\ nc'.numrecs = Counted(i, rec)
         /\ Counted(i, rec) \in Nat /\ Counted(i, rec) <= MaxRecs
         /\ nc.numrecs <= Counted(i, rec)
<1>1. nc \in Infos /\ nc.numrecs \in Nat /\ nc.numrecs <= MaxRecs
  BY DataModeIs
<1>2. rec \in Nat /\ rec + 1 <= MaxRecs
  BY ParametersAssumption DEF MayBe
<1>3. nc' = IF Grows(i, rec) THEN [nc EXCEPT !.numrecs = rec + 1] ELSE nc
  BY DEF NC3_put_vara, Grows
<1>4. CASE Grows(i, rec)
  <2>1. nc' = [nc EXCEPT !.numrecs = rec + 1] /\ Counted(i, rec) = rec + 1
    BY <1>3, <1>4 DEF Counted
  <2>2. nc' \in Infos /\ nc'.vars = nc.vars /\ nc'.att = nc.att
        /\ nc'.recsize = nc.recsize /\ nc'.numrecs = rec + 1
    BY <1>1, <1>2, <2>1 DEF Infos
  <2>3. nc.numrecs <= rec
    BY <1>1, <1>2, <1>4 DEF Grows
  <2> QED
    BY <1>1, <1>2, <2>1, <2>2, <2>3
<1>5. CASE ~Grows(i, rec)
  BY <1>1, <1>3, <1>5 DEF Counted
<1> QED
  BY <1>4, <1>5

(* The data of a variable before the value is written, but with the        *)
(* records that are new.                                                   *)
Longest(i, rec, k) ==
  IF Grows(i, rec) /\ nc.vars[k].rec
  THEN DataOf(file, nc, k) \o Records!Filled(Counted(i, rec) - nc.numrecs)
  ELSE DataOf(file, nc, k)

LEMMA LongestIs ==
  ASSUME IInv, Roomy, DataMode, NEW i, NEW rec, MayBe(i, rec), NEW v,
         NC3_put_vara(i, rec, v), NEW k \in 1 .. Len(nc.vars)
  PROVE  Longest(i, rec, k)
           = [r \in 1 .. IF nc.vars[k].rec THEN Counted(i, rec) ELSE 1 |->
                IF Grows(i, rec) /\ IsNew(k, r - 1, rec) THEN Fill
                ELSE ValueIn(file, Offset(nc, k, r - 1), nc.vars[k].xlen)]
<1>1. PICK n \in Nat, m \in Nat : n = nc.numrecs /\ m = Counted(i, rec) /\ n <= m
  BY DataModeIs, PutHeader
<1>2. PICK F : F = [r \in 1 .. IF nc.vars[k].rec THEN m ELSE 1 |->
                      IF Grows(i, rec) /\ IsNew(k, r - 1, rec) THEN Fill
                      ELSE ValueIn(file, Offset(nc, k, r - 1), nc.vars[k].xlen)]
  OBVIOUS
<1>3. rec \in Nat
  BY ParametersAssumption DEF MayBe
<1>4. CASE Grows(i, rec) /\ nc.vars[k].rec
  <2>1. m = rec + 1
    BY <1>1, <1>4 DEF Counted
  <2>2. PICK d : d = DataOf(file, nc, k)
    OBVIOUS
  <2>3. d = [r \in 1 .. n |-> ValueIn(file, Offset(nc, k, r - 1), nc.vars[k].xlen)]
    BY <1>1, <1>4, <2>2 DEF DataOf
  <2>4. PICK q \in Nat : q = m - n
    BY <1>1
  <2>5. PICK e : q = m - n /\ e = Records!Filled(q)
    BY <2>4
  <2>6. e = [r \in 1 .. q |-> Fill]
    BY <2>5 DEF Records!Filled
  <2>7. IsList(d, n) /\ IsList(e, q)
    BY <2>3, <2>6 DEF IsList
  <2>8. PICK z : z = d \o e
    OBVIOUS
  <2>9. n + q = m
    BY <1>1, <2>5
  <2>10. Joined(z, d, n, e, q) /\ n + q = m
    BY <2>7, <2>8, <2>9, JoinIs
  <2>11. z = [r \in 1 .. m |-> z[r]] /\ \A r \in 1 .. m : z[r] = IF r <= n THEN d[r] ELSE e[r - n]
    BY <2>10 DEF Joined, IsList
  <2>12. ASSUME NEW r \in 1 .. m
         PROVE  z[r] = F[r]
    <3>1. F[r] = IF IsNew(k, r - 1, rec) THEN Fill
                 ELSE ValueIn(file, Offset(nc, k, r - 1), nc.vars[k].xlen)
      BY <1>2, <1>4
    <3>2. IsNew(k, r - 1, rec) <=> ~(r <= n)
      BY <1>1, <1>3, <1>4, <2>1 DEF IsNew
    <3>3. CASE r <= n
      <4>1. r \in 1 .. n
        BY <3>3
      <4>2. d[r] = ValueIn(file, Offset(nc, k, r - 1), nc.vars[k].xlen)
        BY <2>3, <4>1
      <4> QED
        BY <2>11, <3>1, <3>2, <3>3, <4>2
    <3>4. CASE ~(r <= n)
      <4>1. r - n \in 1 .. q
        BY <2>5, <3>4
      <4>2. e[r - n] = Fill
        BY <2>6, <4>1
      <4> QED
        BY <2>11, <3>1, <3>2, <3>4, <4>2
    <3> QED
      BY <3>3, <3>4
  <2>13. F = [r \in 1 .. m |-> F[r]]
    BY <1>2, <1>4
  <2>14. z = F
    BY <2>11, <2>12, <2>13
  <2>15. Longest(i, rec, k) = z
    BY <1>1, <1>4, <2>2, <2>5, <2>8 DEF Longest
  <2> QED
    BY <1>1, <1>2, <2>14, <2>15
<1>5. CASE ~(Grows(i, rec) /\ nc.vars[k].rec)
  <2>1. Longest(i, rec, k) = DataOf(file, nc, k)
    BY <1>5 DEF Longest
  <2>2. ASSUME NEW r
        PROVE  ~(Grows(i, rec) /\ IsNew(k, r, rec))
    BY <1>5 DEF IsNew
  <2>3. nc.vars[k].rec => m = n
    BY <1>1, <1>5 DEF Counted
  <2> QED
    BY <1>1, <2>1, <2>2, <2>3 DEF DataOf
<1> QED
  BY <1>4, <1>5

(* After the value is written its data are these, with the value.          *)
LEMMA PutLine ==
  ASSUME IInv, Roomy, DataMode, NEW i, NEW rec, MayBe(i, rec), NEW v \in Values,
         NC3_put_vara(i, rec, v), NEW k \in 1 .. Len(nc.vars)
  PROVE  DataOf(file', nc', k)
           = IF k = i THEN [Longest(i, rec, i) EXCEPT ![rec + 1] = v] ELSE Longest(i, rec, k)
<1>1. PICK l \in Nat : l = IF nc.vars[k].rec THEN Counted(i, rec) ELSE 1
  BY PutHeader
<1>2. PICK B : B = Longest(i, rec, k)
  OBVIOUS
<1>3. B = [r \in 1 .. l |-> IF Grows(i, rec) /\ IsNew(k, r - 1, rec) THEN Fill
                            ELSE ValueIn(file, Offset(nc, k, r - 1), nc.vars[k].xlen)]
  BY <1>1, <1>2, LongestIs
<1>4. /\ nc.vars \in Seq(Vars) /\ nc.numrecs \in Nat
      /\ rec \in Nat /\ i \in 1 .. Len(nc.vars) /\ (nc.vars[i].rec \/ rec = 0)
      /\ MaxRecs \in Nat \ {0}
  BY DataModeIs, ParametersAssumption DEF MayBe, IsPlace
<1>5. ASSUME NEW s
      PROVE  Offset(nc', k, s) = Offset(nc, k, s)
  BY PutHeader DEF Offset
<1>6. DataOf(file', nc', k)
        = [r \in 1 .. l |-> ValueIn(file', Offset(nc, k, r - 1), nc.vars[k].xlen)]
  BY <1>1, <1>5, PutHeader DEF DataOf
<1>7. ASSUME NEW r \in 1 .. l
      PROVE  ValueIn(file', Offset(nc, k, r - 1), nc.vars[k].xlen)
               = IF k = i /\ r = rec + 1 THEN v ELSE B[r]
  <2>1. PICK s \in Nat : s = r - 1
    OBVIOUS
  <2>2. MayBe(k, s)
    <3>1. Counted(i, rec) \in Nat /\ Counted(i, rec) <= MaxRecs
      BY PutHeader
    <3>2. nc.vars[k].rec \/ s = 0
      BY <1>1, <2>1
    <3>3. s \in 0 .. MaxRecs - 1
      BY <1>1, <1>4, <2>1, <3>1
    <3> QED
      BY <1>4, <3>2, <3>3 DEF MayBe, IsPlace
  <2>3. ValueIn(file', Offset(nc, k, s), nc.vars[k].xlen)
          = IF k = i /\ s = rec THEN v
            ELSE IF Grows(i, rec) /\ IsNew(k, s, rec) THEN Fill
            ELSE ValueIn(file, Offset(nc, k, s), nc.vars[k].xlen)
    BY <2>2, PutFinds
  <2>4. B[r] = IF Grows(i, rec) /\ IsNew(k, s, rec) THEN Fill
               ELSE ValueIn(file, Offset(nc, k, s), nc.vars[k].xlen)
    BY <1>3, <2>1
  <2>5. s = rec <=> r = rec + 1
    BY <1>4, <2>1
  <2> QED
    BY <2>1, <2>3, <2>4, <2>5
<1>8. CASE k = i
  <2>1. PICK D : D = DataOf(file', nc', k)
    OBVIOUS
  <2>2. D = [r \in 1 .. l |-> IF r = rec + 1 THEN v ELSE B[r]]
    BY <1>6, <1>7, <1>8, <2>1
  <2>3. DOMAIN B = 1 .. l /\ B = [r \in 1 .. l |-> B[r]]
    BY <1>3
  <2>4. [B EXCEPT ![rec + 1] = v] = [r \in 1 .. l |-> IF r = rec + 1 THEN v ELSE B[r]]
    BY <2>3
  <2> QED
    BY <1>2, <1>8, <2>1, <2>2, <2>4
<1>9. CASE k # i
  <2>1. B = [r \in 1 .. l |-> B[r]]
    BY <1>3
  <2> QED
    BY <1>2, <1>6, <1>7, <1>9, <2>1
<1> QED
  BY <1>8, <1>9

(* A value is put into the dataset.                                        *)
LEMMA PutPuts ==
  ASSUME IInv, Roomy, NEW i \in 1 .. MaxVars, NEW rec \in 0 .. MaxRecs - 1,
         NEW v \in Values, NC3_put_vara(i, rec, v)
  PROVE  /\ Dataset # NoFile /\ Definitions = NoFile
         /\ i \in DOMAIN Dataset.vars /\ Records!Put(i, rec + 1, v)
<1>1. /\ DataMode /\ "CREAT" \notin flags' /\ "INDEF" \notin flags' /\ old' = old
      /\ i \in DOMAIN nc.vars /\ (nc.vars[i].rec \/ rec = 0)
  BY DEF NC3_put_vara, DataMode, IsOpen, Indef
<1>2. /\ nc \in Infos /\ nc.numrecs \in Nat /\ nc.vars \in Seq(Vars)
      /\ old = None /\ file # NoFile
  BY <1>1, DataModeIs
<1>3. rec \in Nat
  BY ParametersAssumption
<1>4. PICK c \in Nat : c = Len(nc.vars) /\ i \in 1 .. c
  BY <1>1, <1>2, LenProperties
<1>5. MayBe(i, rec)
  BY <1>1, <1>3, <1>4 DEF MayBe, IsPlace
<1>6. PICK n \in Nat, m \in Nat :
        n = nc.numrecs /\ m = Counted(i, rec) /\ n <= m
  BY <1>1, <1>2, <1>5, PutHeader
<1>7. PICK R : R = KindsIn(nc)
  OBVIOUS
<1>8. PICK G : G = DataIn(file, nc)
  OBVIOUS
<1>9. PICK d : d = Dataset /\ d = DatasetWith(nc.att, n, c, R, G)
  <2>1. Dataset = MeaningIn(file, nc)
    BY <1>1, <1>2, DatasetIs, InDataMode DEF DataMode
  <2> QED
    BY <1>2, <1>4, <1>6, <1>7, <1>8, <2>1, MeaningLines
<1>10. Dataset # NoFile /\ Definitions = NoFile
  BY <1>1, <1>2, DatasetIs, InDataMode, MeansSomething DEF DataMode
<1>11. Definitions' = NoFile /\ Dataset' = MeaningIn(file', nc')
  <2>1. nc' # None /\ file' # NoFile
    <3>1. nc' # None
      <4>1. "begin_var" \in DOMAIN nc'
        BY <1>1, <1>5, PutHeader DEF Infos
      <4>2. "begin_var" \notin DOMAIN None
        BY DEF None
      <4> QED
        BY <4>1, <4>2
    <3>2. IInv'
      BY PutVaraKeeps
    <3>3. file'.exists
      BY <3>1, <3>2 DEF IInv, Modes
    <3>4. ~NoFile.exists
      BY DEF NoFile
    <3> QED
      BY <3>1, <3>3, <3>4
  <2> QED
    BY <1>1, <1>2, <2>1, DatasetIs, InDataMode
<1>12. PICK H : H = DataIn(file', nc')
  OBVIOUS
<1>13. Dataset' = DatasetWith(nc.att, m, c, R, H)
  <2>1. /\ nc' \in Infos /\ nc'.vars = nc.vars /\ nc'.att = nc.att /\ nc'.numrecs = m
    BY <1>1, <1>5, <1>6, PutHeader
  <2>2. KindsIn(nc') = R /\ Len(nc'.vars) = c /\ nc'.vars \in Seq(Vars)
    BY <1>2, <1>4, <1>7, <2>1 DEF KindsIn
  <2> QED
    BY <1>11, <1>12, <2>1, <2>2, MeaningLines
<1>14. PICK B : B = [k \in 1 .. c |-> Longest(i, rec, k)]
  OBVIOUS
<1>15. H = [k \in 1 .. c |-> IF k = i THEN [B[i] EXCEPT ![rec + 1] = v] ELSE B[k]]
  <2>1. H = [k \in 1 .. c |-> DataOf(file', nc', k)]
    <3>1. nc'.vars = nc.vars
      BY <1>1, <1>5, PutHeader
    <3> QED
      BY <1>4, <1>12, <3>1 DEF DataIn
  <2>2. ASSUME NEW k \in 1 .. c
        PROVE  DataOf(file', nc', k)
                 = IF k = i THEN [B[i] EXCEPT ![rec + 1] = v] ELSE B[k]
    <3>1. B[k] = Longest(i, rec, k) /\ B[i] = Longest(i, rec, i)
      BY <1>4, <1>14
    <3>2. k \in 1 .. Len(nc.vars)
      BY <1>4
    <3> QED
      BY <1>1, <1>5, <3>1, <3>2, PutLine
  <2> QED
    BY <2>1, <2>2
<1>16. PICK grown : grown = IF Dataset.vars[i].rec /\ rec + 1 > Dataset.numrecs
                            THEN Records!Grown(rec + 1) ELSE Dataset
  OBVIOUS
<1>17. grown = DatasetWith(nc.att, m, c, R, B)
  <2>1. d.vars[i].rec = nc.vars[i].rec /\ d.numrecs = n /\ d.vars = Lines(c, R, G)
    <3>1. d.vars = Lines(c, R, G) /\ d.numrecs = n
      BY <1>9 DEF DatasetWith
    <3>2. Lines(c, R, G)[i].rec = R[i]
      BY <1>4 DEF Lines
    <3>3. R[i] = nc.vars[i].rec
      BY <1>4, <1>7 DEF KindsIn
    <3> QED
      BY <3>1, <3>2, <3>3
  <2>2. Dataset.vars[i].rec /\ rec + 1 > Dataset.numrecs <=> Grows(i, rec)
    BY <1>3, <1>6, <1>9, <2>1 DEF Grows
  <2>3. ASSUME NEW k \in 1 .. c
        PROVE  R[k] = nc.vars[k].rec /\ G[k] = DataOf(file, nc, k)
    BY <1>4, <1>7, <1>8 DEF KindsIn, DataIn
  <2>4. CASE Grows(i, rec)
    <3>1. m = rec + 1
      BY <1>6, <2>4 DEF Counted
    <3>2. PICK X : X = Records!Filled(m - n)
      OBVIOUS
    <3>3. LinesGrown(B, c, R, G, X)
      BY <1>6, <1>14, <2>3, <2>4, <3>2 DEF Longest, LinesGrown
    <3>4. d = DatasetWith(nc.att, n, c, R, G)
      BY <1>9
    <3>5. GrownWith(d, m, X) = DatasetWith(nc.att, m, c, R, B)
      BY <3>3, <3>4, GrowInto
    <3>6. Records!Grown(m) = GrownWith(d, m, X)
      BY <1>9, <2>1, <3>2 DEF Records!Grown, Records!Longer, GrownWith
    <3> QED
      BY <1>16, <2>2, <2>4, <3>1, <3>5, <3>6
  <2>5. CASE ~Grows(i, rec)
    <3>1. m = n
      BY <1>6, <2>5 DEF Counted
    <3>2. B = G
      <4>1. B = [k \in 1 .. c |-> DataOf(file, nc, k)]
        BY <1>14, <2>5 DEF Longest
      <4> QED
        BY <1>4, <1>8, <4>1 DEF DataIn
    <3> QED
      BY <1>9, <1>16, <2>2, <2>5, <3>1, <3>2
  <2> QED
    BY <2>4, <2>5
<1>18. PutWith(grown, i, rec + 1, v) = DatasetWith(nc.att, m, c, R, H)
  <2>1. LinePut(H, c, B, i, rec + 1, v)
    BY <1>15 DEF LinePut
  <2> QED
    BY <1>4, <1>17, <2>1, PutInto
<1>19. i \in DOMAIN Dataset.vars /\ (Dataset.vars[i].rec \/ rec + 1 = 1)
  <2>1. d.vars = Lines(c, R, G)
    BY <1>9 DEF DatasetWith
  <2>2. i \in DOMAIN Lines(c, R, G) /\ Lines(c, R, G)[i].rec = R[i]
    BY <1>4 DEF Lines
  <2>3. R[i] = nc.vars[i].rec
    BY <1>4, <1>7 DEF KindsIn
  <2> QED
    BY <1>1, <1>3, <1>9, <2>1, <2>2, <2>3
<1>20. Dataset' = [grown EXCEPT !.vars[i].data[rec + 1] = v]
  BY <1>13, <1>18 DEF PutWith
<1> QED
  BY <1>10, <1>11, <1>16, <1>19, <1>20 DEF Records!Put

-----------------------------------------------------------------------------
(* NC3 does what NCRecords promises *)

(* At first there is no dataset, and what the steps need holds.            *)
LEMMA RecordsInit ==
  ASSUME Init
  PROVE  Records!Init /\ Roomy /\ Restorable /\ Padding
<1>1. file = NoFile /\ nc = None /\ old = None /\ flags = {}
  BY DEF Init
<1>2. Records!Init
  <2>1. Dataset = NoFile /\ Definitions = NoFile
    BY <1>1, DatasetIs, WhenClosed
  <2> QED
    BY <2>1 DEF Records!Init
<1>3. Restorable /\ Padding
  <2>1. None.vars = <<>> /\ NoFile.header.vars = <<>>
    BY DEF None, NoFile
  <2> QED
    BY <1>1, <2>1 DEF Padding, Begins, Restorable
<1>4. Roomy
  <2>1. PICK h : h = FromHeader(NoFile.header)
    OBVIOUS
  <2>2. h.vars = <<>>
    BY <2>1 DEF FromHeader, NoFile
  <2>3. Space(h)
    BY <2>2 DEF Space
  <2> QED
    BY <1>1, <2>1, <2>3 DEF Roomy
<1> QED
  BY <1>2, <1>3, <1>4

(* Every step is one of the dataset, or leaves it.                         *)
LEMMA StepRecords ==
  ASSUME Rounded, Undone, IInv, Padding, Restorable, Roomy, [Next]_vars
  PROVE  [Records!Next]_<<Dataset, Definitions>>
<1>1. CASE \E share \in Shared : NC3_create(share) \/ NC3_open(share)
  BY <1>1, CreateCreates, OpenStutters DEF Records!Next
<1>2. CASE NC3_redef
  BY <1>2, RedefRedefines DEF Records!Next
<1>3. CASE NC3_sync
  BY <1>3, SyncStutters
<1>4. CASE NC3_close
  BY <1>4, CloseEnds DEF Records!Next
<1>5. CASE NC3_abort
  BY <1>5, AbortAborts DEF Records!Next
<1>6. CASE \E r \in Reserves : NC3__enddef(r) \/ NC3__enddef_fails(r)
  BY <1>6, EnddefEnds, FailStutters DEF Records!Next
<1>7. CASE \E shape \in Shapes : NC3_def_var(shape)
  <2>1. PICK shape \in Shapes : NC3_def_var(shape)
    BY <1>7
  <2>2. shape.rec \in BOOLEAN
    BY ParametersAssumption
  <2>3. Records!DefVar(shape.rec)
    BY <2>1, DefVarDefines
  <2> QED
    BY <2>2, <2>3 DEF Records!Next
<1>8. CASE \E size \in AttSizes : NC3_put_att(size)
  BY <1>8, PutAttPuts DEF Records!Next
<1>9. CASE \E i \in 1 .. MaxVars, rec \in 0 .. MaxRecs - 1, v \in Values :
             NC3_put_vara(i, rec, v)
  <2>1. PICK i \in 1 .. MaxVars, rec \in 0 .. MaxRecs - 1, v \in Values :
          NC3_put_vara(i, rec, v)
    BY <1>9
  <2>2. rec + 1 \in 1 .. MaxRecs
    BY ParametersAssumption
  <2>3. /\ Dataset # NoFile /\ Definitions = NoFile
        /\ i \in DOMAIN Dataset.vars /\ Records!Put(i, rec + 1, v)
    BY <2>1, PutPuts
  <2> QED
    BY <2>2, <2>3 DEF Records!Next
<1>10. CASE UNCHANGED vars
  BY <1>10, DatasetIs DEF vars
<1> QED
  BY <1>1, <1>2, <1>3, <1>4, <1>5, <1>6, <1>7, <1>8, <1>9, <1>10 DEF Next

(* Whatever is defined, written, moved, closed and read again, a client    *)
(* sees a dataset of variables, records and an attribute that change as    *)
(* NCRecords says: nc_enddef adds what was defined, with fill values, and  *)
(* loses nothing; nc_abort gives up the definitions and nothing else; a    *)
(* value that is written is read again, and only that value has changed.   *)
THEOREM RefinesRecords ==
  ASSUME Rounded, Undone
  PROVE  Spec => IsRecords
<1>1. Init => Records!Init /\ Roomy /\ Restorable /\ Padding
  BY RecordsInit
<1>2. IInv /\ Padding /\ [Next]_vars => Padding'
  BY PaddingInductive
<1>3. IInv /\ Restorable /\ [Next]_vars => Restorable'
  BY RestorableInductive
<1>4. IInv /\ Roomy /\ [Next]_vars => Roomy'
  BY RoomInductive
<1>5. IInv /\ Padding /\ Restorable /\ Roomy /\ [Next]_vars
        => [Records!Next]_Records!vars
  BY StepRecords DEF Records!vars
<1> QED
  BY <1>1, <1>2, <1>3, <1>4, <1>5, Invariant, PTL DEF Spec, IsRecords, Records!Spec
=============================================================================
