------------------------- MODULE EsdmDispatchProofs -------------------------
(* Proofs about the ESDM driver: its tables, what it commits, and that a   *)
(* dataset in ESDM is a netCDF dataset.                                    *)
EXTENDS EsdmDataset, DataFacts

-----------------------------------------------------------------------------
(* Find finds the first entry of that name, if there is one.               *)
LEMMA FindIs ==
  ASSUME NEW S, NEW t \in Seq(S), NEW n
  PROVE  /\ Find(t, n) = 0 <=> \A k \in 1 .. Len(t) : t[k].name # n
         /\ Find(t, n) # 0 =>
              /\ Find(t, n) \in 1 .. Len(t)
              /\ t[Find(t, n)].name = n
              /\ \A k \in 1 .. Len(t) : t[k].name = n => Find(t, n) <= k
<1>1. PICK at : at = {k \in 1 .. Len(t) : t[k].name = n}
  OBVIOUS
<1>2. Find(t, n) = IF at # {} THEN Min(at) ELSE 0
  BY <1>1 DEF Find, SelectInSeq
<1>3. CASE at = {}
  <2>1. \A k \in 1 .. Len(t) : t[k].name # n
    BY <1>1, <1>3
  <2> QED
    BY <1>2, <1>3, <2>1
<1>4. CASE at # {}
  <2>1. at \subseteq Nat
    BY <1>1
  <2>2. Find(t, n) \in at /\ \A k \in at : Find(t, n) <= k
    BY <1>2, <1>4, <2>1, MinIs
  <2>3. Find(t, n) \in 1 .. Len(t) /\ t[Find(t, n)].name = n
    BY <1>1, <2>2
  <2>4. Find(t, n) # 0
    BY <2>3
  <2> QED
    BY <1>1, <2>2, <2>3, <2>4
<1> QED
  BY <1>3, <1>4


-----------------------------------------------------------------------------
(* The table of dimensions *)

(* t has a dimension for each name among the first n of dims, and it is    *)
(* the first of that name.                                                 *)
UniqueNames(t) ==
  \A i, k \in 1 .. Len(t) : t[i].name = t[k].name => i = k
FirstOf(dims, m) == \A i \in 1 .. Len(dims) : i < m => dims[i].name # dims[m].name
TableOf(t, dims, n) ==
  /\ t \in Seq(Dimensions) /\ UniqueNames(t)
  /\ \A k \in 1 .. Len(t) : \E m \in 1 .. n : FirstOf(dims, m) /\ t[k] = dims[m]
  /\ \A m \in 1 .. n : \E k \in 1 .. Len(t) : t[k].name = dims[m].name

(* What one step of DimTable makes of a table                              *)
Extended(t, d) == IF Find(t, d.name) = 0 THEN Append(t, d) ELSE t

LEMMA ExtendedIs ==
  ASSUME NEW dims \in Seq(Dimensions), NEW n \in Nat, n + 1 \in 1 .. Len(dims),
         NEW t, TableOf(t, dims, n)
  PROVE  TableOf(Extended(t, dims[n + 1]), dims, n + 1)
<1>1. PICK c \in Nat : c = Len(dims)
  BY LenProperties
<1>2. PICK m \in 1 .. c : m = n + 1
  BY <1>1
<1>3. PICK d \in Dimensions : d = dims[m]
  BY <1>1, ElementOfSeq
<1>4. t \in Seq(Dimensions)
  BY DEF TableOf
<1>5. PICK l \in Nat : l = Len(t)
  BY <1>4, LenProperties
<1>6. \A i \in 1 .. m : i = m \/ i \in 1 .. n
  BY <1>2
<1>7. CASE Find(t, d.name) # 0
  <2>1. PICK k \in 1 .. Len(t) : t[k].name = dims[m].name
    BY <1>3, <1>4, <1>7, FindIs
  <2>2. Extended(t, d) = t
    BY <1>7 DEF Extended
  <2>3. \A i \in 1 .. m : \E j \in 1 .. Len(t) : t[j].name = dims[i].name
    BY <1>6, <2>1 DEF TableOf
  <2>4. \A i \in 1 .. n : i \in 1 .. m
    BY <1>2
  <2>5. \A j \in 1 .. Len(t) : \E i \in 1 .. m : FirstOf(dims, i) /\ t[j] = dims[i]
    BY <2>4 DEF TableOf
  <2>6. TableOf(t, dims, m)
    BY <2>3, <2>5 DEF TableOf
  <2> QED
    BY <1>2, <1>3, <2>2, <2>6
<1>8. CASE Find(t, d.name) = 0
  <2>1. \A k \in 1 .. l : t[k].name # d.name
    BY <1>4, <1>5, <1>8, FindIs
  <2>2. PICK u : u = Append(t, d)
    OBVIOUS
  <2>3. /\ u \in Seq(Dimensions) /\ Len(u) = l + 1
        /\ \A k \in 1 .. l : u[k] = t[k]
        /\ u[l + 1] = d
    BY <1>4, <1>5, <2>2, AppendedIs
  <2>4. \A k \in 1 .. l + 1 : k = l + 1 \/ k \in 1 .. l
    OBVIOUS
  <2>5. UniqueNames(u)
    <3> SUFFICES ASSUME NEW i \in 1 .. l + 1, NEW k \in 1 .. l + 1,
                        u[i].name = u[k].name
                 PROVE  i = k
      BY <2>3 DEF UniqueNames
    <3>1. CASE i \in 1 .. l /\ k \in 1 .. l
      BY <1>5, <2>3, <3>1 DEF TableOf, UniqueNames
    <3>2. CASE i = l + 1 \/ k = l + 1
      BY <2>1, <2>3, <2>4, <3>2
    <3> QED
      BY <2>4, <3>1, <3>2
  <2>6. FirstOf(dims, m)
    <3> SUFFICES ASSUME NEW i \in 1 .. c, i < m
                 PROVE  dims[i].name # d.name
      BY <1>1, <1>3 DEF FirstOf
    <3>1. i \in 1 .. n
      BY <1>2
    <3>2. PICK k \in 1 .. l : t[k].name = dims[i].name
      BY <1>5, <3>1 DEF TableOf
    <3> QED
      BY <2>1, <3>2
  <2>7. \A k \in 1 .. l + 1 : \E i \in 1 .. m : FirstOf(dims, i) /\ u[k] = dims[i]
    <3> SUFFICES ASSUME NEW k \in 1 .. l + 1
                 PROVE  \E i \in 1 .. m : FirstOf(dims, i) /\ u[k] = dims[i]
      OBVIOUS
    <3>1. CASE k \in 1 .. l
      <4>1. PICK i \in 1 .. n : FirstOf(dims, i) /\ t[k] = dims[i]
        BY <1>5, <3>1 DEF TableOf
      <4>2. i \in 1 .. m
        BY <1>2
      <4> QED
        BY <2>3, <3>1, <4>1, <4>2
    <3>2. CASE k = l + 1
      <4>1. m \in 1 .. m
        OBVIOUS
      <4> QED
        BY <1>3, <2>3, <2>6, <3>2, <4>1
    <3> QED
      BY <2>4, <3>1, <3>2
  <2>8. \A i \in 1 .. m : \E k \in 1 .. l + 1 : u[k].name = dims[i].name
    <3> SUFFICES ASSUME NEW i \in 1 .. m
                 PROVE  \E k \in 1 .. l + 1 : u[k].name = dims[i].name
      OBVIOUS
    <3>1. CASE i \in 1 .. n
      <4>1. PICK k \in 1 .. l : t[k].name = dims[i].name
        BY <1>5, <3>1 DEF TableOf
      <4>2. k \in 1 .. l + 1
        OBVIOUS
      <4> QED
        BY <2>3, <4>1, <4>2
    <3>2. CASE i = m
      <4>1. l + 1 \in 1 .. l + 1
        OBVIOUS
      <4> QED
        BY <1>3, <2>3, <3>2, <4>1
    <3> QED
      BY <1>6, <3>1, <3>2
  <2>9. TableOf(u, dims, m)
    BY <2>3, <2>5, <2>7, <2>8 DEF TableOf
  <2>10. Extended(t, d) = u
    BY <1>8, <2>2 DEF Extended
  <2> QED
    BY <1>2, <1>3, <2>9, <2>10
<1> QED
  BY <1>7, <1>8

IsTables(f, dims) ==
  f = [n \in 0 .. Len(dims) |->
         IF n = 0 THEN <<>>
         ELSE LET t == f[n - 1] IN
              IF Find(t, dims[n].name) = 0 THEN Append(t, dims[n]) ELSE t]

(* DimTable has each name of dims once, with the first length.             *)
LEMMA DimTableIs ==
  ASSUME NEW dims \in Seq(Dimensions)
  PROVE  TableOf(DimTable(dims), dims, Len(dims))
<1>1. PICK c \in Nat : c = Len(dims)
  BY LenProperties
<1>2. \A i \in 1 .. c : dims[i] \in Dimensions
  BY <1>1, ElementOfSeq
<1>3. PICK step : step = [a \in Nat \X Seq(Dimensions) |->
                            IF a[1] + 1 <= c THEN Extended(a[2], dims[a[1] + 1])
                            ELSE a[2]]
  OBVIOUS
<1>4. step \in [Nat \X Seq(Dimensions) -> Seq(Dimensions)]
  <2>1. ASSUME NEW n \in Nat, NEW v \in Seq(Dimensions)
        PROVE  (IF n + 1 <= c THEN Extended(v, dims[n + 1]) ELSE v) \in Seq(Dimensions)
    <3>1. CASE n + 1 <= c
      <4>1. n + 1 \in 1 .. c
        BY <3>1
      <4>2. PICK d \in Dimensions : d = dims[n + 1]
        BY <1>2, <4>1
      <4>3. Extended(v, d) \in Seq(Dimensions)
        BY AppendedIs DEF Extended
      <4> QED
        BY <3>1, <4>2, <4>3
    <3> QED
      BY <3>1
  <2> QED
    BY <1>3, <2>1
<1>5. <<>> \in Seq(Dimensions)
  BY EmptySeq
<1>6. PICK g : IsIteration(g, Seq(Dimensions), <<>>, step)
  BY <1>4, <1>5, Iteration
<1>7. /\ g \in [Nat -> Seq(Dimensions)] /\ g[0] = <<>>
      /\ \A n \in Nat : n + 1 <= c => g[n + 1] = Extended(g[n], dims[n + 1])
  <2>1. \A n \in Nat : g[n] \in Seq(Dimensions)
    BY <1>6 DEF IsIteration
  <2>2. \A n \in Nat : n + 1 <= c => step[<<n, g[n]>>] = Extended(g[n], dims[n + 1])
    BY <1>3, <2>1
  <2> QED
    BY <1>6, <2>2 DEF IsIteration
<1>8. PICK h : h = [i \in 0 .. c |-> g[i]]
  OBVIOUS
<1>9. IsTables(h, dims)
  <2>1. ASSUME NEW i \in 0 .. c
        PROVE  h[i] = IF i = 0 THEN <<>> ELSE Extended(h[i - 1], dims[i])
    <3>1. CASE i = 0
      BY <1>7, <1>8, <3>1
    <3>2. CASE i # 0
      <4>1. PICK n \in Nat : i = n + 1 /\ n \in 0 .. c /\ n + 1 <= c /\ i - 1 = n
        BY <3>2
      <4> QED
        BY <1>7, <1>8, <3>2, <4>1
    <3> QED
      BY <3>1, <3>2
  <2> QED
    BY <1>1, <1>8, <2>1 DEF IsTables, Extended
<1>10. PICK f : f = CHOOSE x : IsTables(x, dims)
  OBVIOUS
<1>11. IsTables(f, dims)
  BY <1>9, <1>10
<1>12. DimTable(dims) = f[c]
  BY <1>1, <1>10 DEF DimTable, IsTables
<1>13. \A i \in 0 .. c : f[i] = IF i = 0 THEN <<>> ELSE Extended(f[i - 1], dims[i])
  BY <1>1, <1>11 DEF IsTables, Extended
<1>14. PICK T : T = {n \in Nat : n <= c => TableOf(f[n], dims, n)}
  OBVIOUS
<1>15. 0 \in T
  <2>1. f[0] = <<>>
    <3>1. PICK i \in 0 .. c : i = 0
      OBVIOUS
    <3>2. f[i] = IF i = 0 THEN <<>> ELSE Extended(f[i - 1], dims[i])
      BY <1>13
    <3> QED
      BY <3>1, <3>2
  <2>2. TableOf(<<>>, dims, 0)
    <3>1. Len(<<>>) = 0
      OBVIOUS
    <3>2. \A k \in 1 .. 0 : FALSE
      OBVIOUS
    <3> QED
      BY <1>5, <3>1, <3>2 DEF TableOf, UniqueNames
  <2> QED
    BY <1>14, <2>1, <2>2
<1>16. ASSUME NEW n \in Nat, n \in T
       PROVE  n + 1 \in T
  <2> SUFFICES ASSUME n + 1 <= c
               PROVE  TableOf(f[n + 1], dims, n + 1)
    BY <1>14
  <2>1. PICK i \in 0 .. c : i = n + 1 /\ i # 0 /\ i - 1 = n
    OBVIOUS
  <2>2. f[i] = IF i = 0 THEN <<>> ELSE Extended(f[i - 1], dims[i])
    BY <1>13
  <2>3. f[i] = Extended(f[n], dims[n + 1])
    BY <2>1, <2>2
  <2>4. n + 1 \in 1 .. Len(dims) /\ TableOf(f[n], dims, n)
    BY <1>1, <1>14, <1>16
  <2>5. TableOf(Extended(f[n], dims[n + 1]), dims, n + 1)
    BY <2>4, ExtendedIs
  <2> QED
    BY <2>1, <2>3, <2>5
<1>17. Nat \subseteq T
  BY <1>15, <1>16, EveryNatural
<1> QED
  BY <1>1, <1>12, <1>14, <1>17

-----------------------------------------------------------------------------
(* Containers and open datasets *)

(* The dimensions that datasets have, and those of the hidden attributes   *)
DimsOf(c)     == AllElements([i \in DOMAIN c.datasets |-> c.datasets[i].dims],
                             Len(c.datasets))
StoredDims(c) == UNION {Elements(t) : t \in c.nc_dims}
NamesIn(D)    == {d.name : d \in D}

(* A container that opens with a table of dimensions of allowed length     *)
Fits(c) ==
  /\ c \in Container
  /\ Cardinality(NamesIn(DimsOf(c) \cup StoredDims(c))) <= MaxDims

Variable == [dset : Nat, dimids : Seq(Nat)]
Handle   == [c : Container, original_nc : BOOLEAN, dimt : Seq(Dimensions),
             vars : Seq(Variable)]

(* The names in the tables of an open dataset are those of the container.  *)
VarFollows(v, dset, dimt) ==
  /\ Len(v.dimids) = Len(dset.dims)
  /\ \A j \in 1 .. Len(v.dimids) :
       /\ v.dimids[j] \in 1 .. Len(dimt)
       /\ dimt[v.dimids[j]].name = dset.dims[j].name
Follows(h) ==
  /\ Len(h.dimt) <= MaxDims /\ UniqueNames(h.dimt)
  /\ Len(h.vars) = Len(h.c.datasets)
  /\ \A i \in 1 .. Len(h.vars) :
       h.vars[i].dset = i /\ VarFollows(h.vars[i], h.c.datasets[i], h.dimt)
  /\ h.original_nc \/ h.c.nc_dims = {}

(* And so are the lengths.                                                 *)
VarSized(v, dset, dimt) ==
  \A j \in 1 .. Len(v.dimids) : dimt[v.dimids[j]].size = dset.dims[j].size
Sized(h) ==
  \A i \in 1 .. Len(h.vars) : VarSized(h.vars[i], h.c.datasets[i], h.dimt)

(* A table in which names are unique is no longer than there are names.    *)
LEMMA TableLength ==
  ASSUME NEW t \in Seq(Dimensions), UniqueNames(t),
         NEW N, N \subseteq DimNames, \A k \in 1 .. Len(t) : t[k].name \in N
  PROVE  Cardinality(N) \in Nat /\ Len(t) <= Cardinality(N)
<1>1. PICK l \in Nat : l = Len(t)
  BY LenProperties
<1>2. IsFiniteSet(N) /\ Cardinality(N) \in Nat
  BY NamesAssumption, FS_Subset, FS_CardinalityType
<1>3. PICK f : f = [k \in 1 .. l |-> t[k].name]
  OBVIOUS
<1>4. f \in [1 .. l -> N]
  BY <1>1, <1>3
<1>5. \A i, k \in 1 .. l : f[i] = f[k] => i = k
  BY <1>1, <1>3 DEF UniqueNames
<1>6. f \in Injection(1 .. l, N)
  BY <1>4, <1>5 DEF Injection, IsInjective
<1>7. Cardinality(1 .. l) <= Cardinality(N)
  BY <1>2, <1>6, FS_Injection
<1>8. Cardinality(1 .. l) = l
  <2>1. 1 \in Int /\ l \in Int
    BY <1>1
  <2>2. Cardinality(1 .. l) = IF 1 > l THEN 0 ELSE l - 1 + 1
    BY <2>1, FS_Interval
  <2> QED
    BY <2>2
<1> QED
  BY <1>1, <1>2, <1>7, <1>8

(* What Occurrences lists                                                  *)
LEMMA OccurrencesAre ==
  ASSUME NEW c \in Container
  PROVE  Occurrences(c) \in Seq(Dimensions) /\ Elements(Occurrences(c)) = DimsOf(c)
<1>1. PICK dsets : dsets = c.datasets /\ dsets \in Seq(Dataset)
  BY DEF Container
<1>2. PICK l \in Nat : l = Len(dsets) /\ DOMAIN dsets = 1 .. l
  BY <1>1, LenProperties
<1>3. PICK s : s = [i \in 1 .. l |-> dsets[i].dims]
  OBVIOUS
<1>4. \A i \in 1 .. l : dsets[i].dims \in Seq(Dimensions)
  <2>1. \A i \in 1 .. l : dsets[i] \in Dataset
    BY <1>1, <1>2, ElementOfSeq
  <2> QED
    BY <2>1 DEF Dataset
<1>5. s \in Seq(Seq(Dimensions)) /\ Len(s) = l
  BY <1>3, <1>4, SeqDef
<1>6. Occurrences(c) = FlattenSeq(s) /\ DimsOf(c) = AllElements(s, l)
  BY <1>1, <1>2, <1>3 DEF Occurrences, DimsOf
<1> QED
  BY <1>5, <1>6, FlattenIs

(* What Stored lists                                                       *)
LEMMA StoredIs ==
  ASSUME NEW c \in Container
  PROVE  /\ Stored(c) \in Seq(Dimensions)
         /\ Elements(Stored(c)) \subseteq StoredDims(c)
<1>1. CASE c.nc_dims = {}
  <2>1. Stored(c) = <<>>
    BY <1>1 DEF Stored
  <2>2. Elements(<<>>) = {}
    BY DEF Elements
  <2> QED
    BY <2>1, <2>2, EmptySeq
<1>2. CASE c.nc_dims # {}
  <2>1. Stored(c) \in c.nc_dims
    BY <1>2 DEF Stored
  <2>2. c.nc_dims \subseteq Seq(Dimensions)
    BY DEF Container
  <2> QED
    BY <2>1, <2>2 DEF StoredDims
<1> QED
  BY <1>1, <1>2

(* The table that ESDM_open builds                                         *)
LEMMA OpenedTable ==
  ASSUME NEW c, Fits(c), NEW t, t = DimTable(Occurrences(c) \o Stored(c))
  PROVE  /\ t \in Seq(Dimensions) /\ UniqueNames(t) /\ Len(t) <= MaxDims
         /\ \A k \in 1 .. Len(t) : t[k] \in DimsOf(c) \cup Elements(Stored(c))
         /\ \A d \in Elements(Stored(c)) : \E k \in 1 .. Len(t) : t[k].name = d.name
         /\ \A d \in DimsOf(c) : Find(t, d.name) \in 1 .. Len(t) /\ t[Find(t, d.name)].name = d.name
         /\ Matching(c) => \A d \in DimsOf(c) : t[Find(t, d.name)] = d
<1>1. PICK o : o = Occurrences(c) /\ o \in Seq(Dimensions) /\ Elements(o) = DimsOf(c)
  BY OccurrencesAre DEF Fits
<1>2. PICK s : /\ s = Stored(c) /\ s \in Seq(Dimensions)
               /\ Elements(s) \subseteq StoredDims(c)
  BY StoredIs DEF Fits
<1>3. PICK dims : dims = o \o s
  OBVIOUS
<1>4. PICK a \in Nat, b \in Nat : a = Len(o) /\ b = Len(s)
  BY <1>1, <1>2, LenProperties
<1>5. /\ dims \in Seq(Dimensions) /\ Len(dims) = a + b
      /\ \A k \in 1 .. a + b : dims[k] = IF k <= a THEN o[k] ELSE s[k - a]
  BY <1>1, <1>2, <1>3, <1>4, ConcatProperties
<1>6. Elements(dims) = DimsOf(c) \cup Elements(s)
  BY <1>1, <1>2, <1>3, ElementsJoin
<1>7. t = DimTable(dims)
  BY <1>1, <1>2, <1>3
<1>8. TableOf(t, dims, a + b)
  BY <1>5, <1>7, DimTableIs
<1>9. t \in Seq(Dimensions) /\ UniqueNames(t)
  BY <1>8 DEF TableOf
<1>10. PICK l \in Nat : l = Len(t)
  BY <1>9, LenProperties
<1>11. \A k \in 1 .. l : t[k] \in Elements(dims)
  <2> SUFFICES ASSUME NEW k \in 1 .. l
               PROVE  t[k] \in Elements(dims)
    OBVIOUS
  <2>1. PICK m \in 1 .. a + b : t[k] = dims[m]
    BY <1>8, <1>10 DEF TableOf
  <2> QED
    BY <1>5, <2>1 DEF Elements
<1>12. l <= MaxDims
  <2>1. PICK N : N = NamesIn(DimsOf(c) \cup StoredDims(c))
    OBVIOUS
  <2>2. \A k \in 1 .. l : t[k].name \in N
    BY <1>2, <1>6, <1>11, <2>1 DEF NamesIn
  <2>3. N \subseteq DimNames
    <3>1. \A d \in DimsOf(c) : d \in Dimensions
      <4>1. \A k \in 1 .. a : o[k] \in Dimensions
        BY <1>1, <1>4, ElementOfSeq
      <4> QED
        BY <1>1, <1>4, <4>1 DEF Elements
    <3>2. \A d \in StoredDims(c) : d \in Dimensions
      <4> SUFFICES ASSUME NEW u \in c.nc_dims, NEW d \in Elements(u)
                   PROVE  d \in Dimensions
        BY DEF StoredDims
      <4>1. u \in Seq(Dimensions)
        BY DEF Fits, Container
      <4>2. PICK k \in 1 .. Len(u) : d = u[k]
        BY DEF Elements
      <4> QED
        BY <4>1, <4>2, ElementOfSeq
    <3>3. \A d \in Dimensions : d.name \in DimNames
      BY DEF Dimensions
    <3> QED
      BY <2>1, <3>1, <3>2, <3>3 DEF NamesIn
  <2>4. Cardinality(N) \in Nat /\ l <= Cardinality(N)
    BY <1>9, <1>10, <2>2, <2>3, TableLength
  <2>5. Cardinality(N) <= MaxDims /\ MaxDims \in Nat
    BY <2>1, NamesAssumption DEF Fits
  <2> QED
    BY <2>4, <2>5
<1>13. ASSUME NEW d \in DimsOf(c)
       PROVE  /\ Find(t, d.name) \in 1 .. l /\ t[Find(t, d.name)].name = d.name
              /\ Matching(c) => t[Find(t, d.name)] = d
  <2>1. PICK n \in 1 .. a : o[n] = d
    BY <1>1, <1>4 DEF Elements
  <2>2. n \in 1 .. a + b /\ dims[n] = d
    BY <1>5, <2>1
  <2>3. PICK i \in 1 .. l : t[i].name = d.name
    BY <1>8, <1>10, <2>2 DEF TableOf
  <2>4. PICK k \in 1 .. l : k = Find(t, d.name) /\ t[k].name = d.name
    BY <1>9, <1>10, <2>3, FindIs
  <2>5. ASSUME Matching(c)
        PROVE  t[k] = d
    <3>1. PICK m \in 1 .. a + b : FirstOf(dims, m) /\ t[k] = dims[m]
      BY <1>8, <1>10 DEF TableOf
    <3>2. ~(n < m)
      BY <1>5, <2>2, <2>4, <3>1 DEF FirstOf
    <3>3. m \in 1 .. a /\ t[k] = o[m]
      BY <1>5, <3>1, <3>2
    <3>4. DOMAIN o = 1 .. a
      BY <1>1, <1>4, LenProperties
    <3>5. o[m].size = o[n].size
      BY <1>1, <2>1, <2>4, <2>5, <3>3, <3>4 DEF Matching
    <3>6. o[m] \in Dimensions /\ o[n] \in Dimensions
      BY <1>1, <1>4, <3>3, ElementOfSeq
    <3> QED
      BY <2>1, <2>4, <3>3, <3>5, <3>6 DEF Dimensions
  <2> QED
    BY <2>4, <2>5
<1>14. ASSUME NEW d \in Elements(s)
       PROVE  \E k \in 1 .. l : t[k].name = d.name
  <2>1. d \in Elements(dims)
    BY <1>6
  <2>2. PICK m \in 1 .. a + b : d = dims[m]
    BY <1>5, <2>1 DEF Elements
  <2> QED
    BY <1>8, <1>10, <2>2 DEF TableOf
<1> QED
  BY <1>2, <1>6, <1>9, <1>10, <1>11, <1>12, <1>13, <1>14

(* The datasets of a container, and the dimensions of one of them          *)
LEMMA DatasetDims ==
  ASSUME NEW c \in Container, NEW i \in 1 .. Len(c.datasets)
  PROVE  /\ c.datasets[i] \in Dataset
         /\ c.datasets[i].dims \in Seq(Dimensions)
         /\ \A j \in 1 .. Len(c.datasets[i].dims) :
              /\ c.datasets[i].dims[j] \in Dimensions
              /\ c.datasets[i].dims[j] \in DimsOf(c)
<1>1. PICK dsets : dsets = c.datasets /\ dsets \in Seq(Dataset)
  BY DEF Container
<1>2. PICK l \in Nat : l = Len(dsets) /\ DOMAIN dsets = 1 .. l /\ i \in 1 .. l
  BY <1>1, LenProperties
<1>3. PICK d \in Dataset : d = dsets[i]
  BY <1>1, <1>2, ElementOfSeq
<1>4. PICK dims \in Seq(Dimensions) : dims = d.dims
  BY DEF Dataset
<1>5. PICK s : s = [n \in 1 .. l |-> dsets[n].dims]
  OBVIOUS
<1>6. DimsOf(c) = AllElements(s, l)
  BY <1>1, <1>2, <1>5 DEF DimsOf
<1>7. s[i] = dims
  BY <1>2, <1>3, <1>4, <1>5
<1>8. ASSUME NEW j \in 1 .. Len(dims)
      PROVE  dims[j] \in Dimensions /\ dims[j] \in DimsOf(c)
  <2>1. dims[j] \in Elements(s[i])
    BY <1>7 DEF Elements
  <2>2. dims[j] \in AllElements(s, l)
    BY <1>2, <2>1 DEF AllElements
  <2> QED
    BY <1>4, <1>6, <2>2, ElementOfSeq
<1> QED
  BY <1>1, <1>3, <1>4, <1>8

(* A dimension of a container is one of some dataset.                      *)
LEMMA DimsOfIs ==
  ASSUME NEW c \in Container, NEW d \in DimsOf(c)
  PROVE  \E i \in 1 .. Len(c.datasets) :
           \E j \in 1 .. Len(c.datasets[i].dims) : d = c.datasets[i].dims[j]
<1>1. PICK dsets : dsets = c.datasets /\ dsets \in Seq(Dataset)
  BY DEF Container
<1>2. PICK l \in Nat : l = Len(dsets) /\ DOMAIN dsets = 1 .. l
  BY <1>1, LenProperties
<1>3. PICK s : s = [n \in 1 .. l |-> dsets[n].dims]
  OBVIOUS
<1>4. DimsOf(c) = AllElements(s, l)
  BY <1>1, <1>2, <1>3 DEF DimsOf
<1>5. PICK i \in 1 .. l : d \in Elements(s[i])
  BY <1>4 DEF AllElements
<1>6. PICK j \in 1 .. Len(s[i]) : d = s[i][j]
  BY <1>5 DEF Elements
<1>7. s[i] = c.datasets[i].dims
  BY <1>1, <1>3
<1> QED
  BY <1>1, <1>2, <1>6, <1>7

(* What ESDM_open builds describes the container.                          *)
LEMMA OpenedIs ==
  ASSUME NEW c, Fits(c), Matching(c)
  PROVE  Opened(c) \in Handle /\ Follows(Opened(c)) /\ Sized(Opened(c))
<1>1. PICK t : t = DimTable(Occurrences(c) \o Stored(c))
  OBVIOUS
<1>2. /\ t \in Seq(Dimensions) /\ UniqueNames(t) /\ Len(t) <= MaxDims
      /\ \A d \in DimsOf(c) : Find(t, d.name) \in 1 .. Len(t) /\ t[Find(t, d.name)] = d
  BY <1>1, OpenedTable
<1>3. PICK dsets : dsets = c.datasets /\ dsets \in Seq(Dataset) /\ c \in Container
  BY DEF Fits, Container
<1>4. PICK l \in Nat : l = Len(dsets) /\ DOMAIN dsets = 1 .. l
  BY <1>3, LenProperties
<1>5. PICK vs : vs = [i \in 1 .. l |->
                        [dset |-> i,
                         dimids |-> [j \in DOMAIN dsets[i].dims |->
                                       Find(t, dsets[i].dims[j].name)]]]
  OBVIOUS
<1>6. PICK h : h = [c |-> [c EXCEPT !.nc_dims = {}],
                    original_nc |-> c.nc_dims # {}, dimt |-> t, vars |-> vs]
  OBVIOUS
<1>7. Opened(c) = h
  BY <1>1, <1>3, <1>4, <1>5, <1>6 DEF Opened
<1>8. ASSUME NEW i \in 1 .. l
      PROVE  /\ vs[i] \in Variable /\ vs[i].dset = i
             /\ VarFollows(vs[i], dsets[i], t) /\ VarSized(vs[i], dsets[i], t)
  <2>1. PICK dims \in Seq(Dimensions) :
          /\ dims = dsets[i].dims
          /\ \A j \in 1 .. Len(dims) : dims[j] \in DimsOf(c)
    BY <1>3, <1>4, DatasetDims
  <2>2. PICK r \in Nat : r = Len(dims) /\ DOMAIN dims = 1 .. r
    BY LenProperties
  <2>3. PICK ids : ids = [j \in 1 .. r |-> Find(t, dims[j].name)]
    OBVIOUS
  <2>4. vs[i].dset = i /\ vs[i].dimids = ids /\ vs[i] = [dset |-> i, dimids |-> ids]
    BY <1>5, <2>1, <2>2, <2>3
  <2>5. \A j \in 1 .. r : ids[j] \in 1 .. Len(t) /\ t[ids[j]] = dims[j]
    BY <1>2, <2>1, <2>2, <2>3
  <2>6. \A j \in 1 .. r : ids[j] \in Nat
    BY <2>5
  <2>7. ids \in Seq(Nat) /\ Len(ids) = r
    BY <2>3, <2>6, SeqDef
  <2>8. vs[i] \in Variable
    BY <2>4, <2>7 DEF Variable
  <2>9. VarFollows(vs[i], dsets[i], t) /\ VarSized(vs[i], dsets[i], t)
    BY <2>1, <2>2, <2>4, <2>5, <2>7 DEF VarFollows, VarSized
  <2> QED
    BY <2>4, <2>8, <2>9
<1>9. vs \in Seq(Variable) /\ Len(vs) = l
  <2>1. \A i \in 1 .. l : vs[i] \in Variable
    BY <1>8
  <2> QED
    BY <1>5, <2>1, SeqDef
<1>10. h.c \in Container /\ h.c.nc_dims = {} /\ h.c.datasets = dsets
  BY <1>3, <1>6 DEF Container
<1>11. h \in Handle
  BY <1>2, <1>6, <1>9, <1>10 DEF Handle
<1>12. h.dimt = t /\ h.vars = vs
  BY <1>6
<1>13. Follows(h)
  BY <1>2, <1>4, <1>8, <1>9, <1>10, <1>12 DEF Follows
<1>14. Sized(h)
  BY <1>8, <1>9, <1>10, <1>12 DEF Sized
<1> QED
  BY <1>7, <1>11, <1>13, <1>14

(* Every dimension of a dataset in the container is in the table.          *)
LEMMA DimsInTable ==
  ASSUME NEW h \in Handle, Follows(h), NEW d \in DimsOf(h.c)
  PROVE  \E k \in 1 .. Len(h.dimt) : h.dimt[k].name = d.name /\ (Sized(h) => h.dimt[k] = d)
<1>1. h.c \in Container /\ h.dimt \in Seq(Dimensions)
  BY DEF Handle
<1>2. PICK i \in 1 .. Len(h.c.datasets) :
        \E j \in 1 .. Len(h.c.datasets[i].dims) : d = h.c.datasets[i].dims[j]
  BY <1>1, DimsOfIs
<1>3. PICK j \in 1 .. Len(h.c.datasets[i].dims) : d = h.c.datasets[i].dims[j]
  BY <1>2
<1>4. i \in 1 .. Len(h.vars) /\ VarFollows(h.vars[i], h.c.datasets[i], h.dimt)
  BY DEF Follows
<1>5. PICK k : k = h.vars[i].dimids[j]
  OBVIOUS
<1>6. k \in 1 .. Len(h.dimt) /\ h.dimt[k].name = d.name
  BY <1>3, <1>4, <1>5 DEF VarFollows
<1>7. ASSUME Sized(h)
      PROVE  h.dimt[k] = d
  <2>1. h.dimt[k].size = d.size
    BY <1>3, <1>4, <1>5, <1>7 DEF VarFollows, VarSized, Sized
  <2>2. h.dimt[k] \in Dimensions
    BY <1>1, <1>6, ElementOfSeq
  <2>3. d \in Dimensions
    BY <1>1, <1>3, DatasetDims
  <2> QED
    BY <1>6, <2>1, <2>2, <2>3 DEF Dimensions
<1> QED
  BY <1>6, <1>7

(* There are no more names than the table is long.                         *)
LEMMA NamesFit ==
  ASSUME NEW t \in Seq(Dimensions), Len(t) <= MaxDims,
         NEW N, \A n \in N : \E k \in 1 .. Len(t) : t[k].name = n
  PROVE  Cardinality(N) <= MaxDims
<1>1. PICK l \in Nat : l = Len(t)
  BY LenProperties
<1>2. PICK M : M = {t[k].name : k \in 1 .. l}
  OBVIOUS
<1>3. PICK f : f = [k \in 1 .. l |-> t[k].name]
  OBVIOUS
<1>4. f \in Surjection(1 .. l, M)
  BY <1>2, <1>3 DEF Surjection
<1>5. IsFiniteSet(1 .. l)
  BY <1>1, FS_Interval
<1>6. Cardinality(1 .. l) = l
  <2>1. 1 \in Int /\ l \in Int
    BY <1>1
  <2>2. Cardinality(1 .. l) = IF 1 > l THEN 0 ELSE l - 1 + 1
    BY <2>1, FS_Interval
  <2> QED
    BY <2>2
<1>7. IsFiniteSet(M) /\ Cardinality(M) <= l
  BY <1>4, <1>5, <1>6, FS_Surjection
<1>8. N \subseteq M
  BY <1>1, <1>2
<1>9. Cardinality(N) \in Nat /\ Cardinality(M) \in Nat /\ Cardinality(N) <= Cardinality(M)
  BY <1>7, <1>8, FS_Subset, FS_CardinalityType
<1> QED
  BY <1>1, <1>7, <1>9, NamesAssumption

(* A container that the tables describe has no two lengths for a name.     *)
LEMMA DescribedMatches ==
  ASSUME NEW h \in Handle, Follows(h), Sized(h)
  PROVE  Matching(h.c)
<1>1. h.c \in Container /\ UniqueNames(h.dimt)
  BY DEF Handle, Follows
<1>2. PICK o : o = Occurrences(h.c) /\ o \in Seq(Dimensions) /\ Elements(o) = DimsOf(h.c)
  BY <1>1, OccurrencesAre
<1>3. \A i \in DOMAIN o : o[i] \in DimsOf(h.c)
  <2>1. DOMAIN o = 1 .. Len(o)
    BY <1>2, LenProperties
  <2> QED
    BY <1>2, <2>1 DEF Elements
<1>4. ASSUME NEW i \in DOMAIN o, NEW k \in DOMAIN o, o[i].name = o[k].name
      PROVE  o[i].size = o[k].size
  <2>1. PICK a \in 1 .. Len(h.dimt) : h.dimt[a].name = o[i].name /\ h.dimt[a] = o[i]
    BY <1>3, DimsInTable
  <2>2. PICK b \in 1 .. Len(h.dimt) : h.dimt[b].name = o[k].name /\ h.dimt[b] = o[k]
    BY <1>3, DimsInTable
  <2>3. a = b
    BY <1>1, <1>4, <2>1, <2>2 DEF UniqueNames
  <2> QED
    BY <2>1, <2>2, <2>3
<1> QED
  BY <1>2, <1>4 DEF Matching

(* What ncesdm_container_commit makes of the container of an open dataset  *)
LEMMA CommittedIs ==
  ASSUME e \in Handle, Follows(e)
  PROVE  /\ Fits(Committed) /\ Committed.datasets = e.c.datasets
         /\ Committed.atts = e.c.atts
         /\ Committed.nc_dims = IF e.original_nc THEN {e.dimt} ELSE {}
         /\ Sized(e) => Matching(Committed)
<1>1. e.c \in Container /\ e.dimt \in Seq(Dimensions)
  BY DEF Handle
<1>2. PICK c : c = Committed
  OBVIOUS
<1>3. /\ c \in Container /\ c.datasets = e.c.datasets /\ c.atts = e.c.atts
      /\ c.nc_dims = IF e.original_nc THEN {e.dimt} ELSE {}
  <2>1. CASE e.original_nc
    <3>1. c = [e.c EXCEPT !.nc_dims = {e.dimt}]
      BY <1>2, <2>1 DEF Committed
    <3> QED
      BY <1>1, <2>1, <3>1 DEF Container
  <2>2. CASE ~e.original_nc
    BY <1>1, <1>2, <2>2 DEF Committed, Follows
  <2> QED
    BY <2>1, <2>2
<1>4. DimsOf(c) = DimsOf(e.c) /\ Occurrences(c) = Occurrences(e.c)
  BY <1>3 DEF DimsOf, Occurrences
<1>5. Sized(e) => Matching(c)
  BY <1>4, DescribedMatches DEF Matching
<1>6. PICK N : N = NamesIn(DimsOf(c) \cup StoredDims(c))
  OBVIOUS
<1>7. ASSUME NEW n \in N
      PROVE  \E k \in 1 .. Len(e.dimt) : e.dimt[k].name = n
  <2>1. PICK d \in DimsOf(c) \cup StoredDims(c) : n = d.name
    BY <1>6 DEF NamesIn
  <2>2. CASE d \in DimsOf(c)
    BY <1>4, <2>1, <2>2, DimsInTable
  <2>3. CASE d \in StoredDims(c)
    <3>1. d \in Elements(e.dimt)
      BY <1>3, <2>3 DEF StoredDims
    <3> QED
      BY <2>1, <3>1 DEF Elements
  <2> QED
    BY <2>1, <2>2, <2>3
<1>8. Len(e.dimt) <= MaxDims
  BY DEF Follows
<1>9. Cardinality(N) <= MaxDims
  BY <1>1, <1>7, <1>8, NamesFit
<1> QED
  BY <1>2, <1>3, <1>5, <1>6, <1>9 DEF Fits

-----------------------------------------------------------------------------
(* The invariant *)

(* The tables follow the container, whatever clients do.                   *)
Inv ==
  /\ store = NoContainer \/ Fits(store)
  /\ e = Closed \/ (e \in Handle /\ Follows(e))
  /\ defining \in BOOLEAN

(* As long as no dimension is defined again with another length, lengths   *)
(* agree too, and what is committed opens.                                 *)
EInv == e # Closed => Sized(e)
SInv == EInv /\ (store # NoContainer => Matching(store))
Kept ==
  /\ Inv'
  /\ "redefine" \notin Unusual /\ EInv => EInv'
  /\ "redefine" \notin Unusual /\ SInv => SInv'

(* A step to another state of the open dataset                             *)
LEMMA HandleKept ==
  ASSUME Inv, UNCHANGED store, defining' \in BOOLEAN,
         e' \in Handle, Follows(e'), "redefine" \notin Unusual /\ EInv => Sized(e')
  PROVE  Kept
BY DEF Inv, EInv, SInv, Kept

(* ESDM_create starts with empty tables.                                   *)
LEMMA CreateKept == Inv /\ ESDM_create => Kept
<1> SUFFICES ASSUME Inv, ESDM_create
             PROVE  Kept
  OBVIOUS
<1>1. /\ e' = [c |-> NewContainer, original_nc |-> TRUE, dimt |-> <<>>, vars |-> <<>>]
      /\ UNCHANGED store /\ defining' \in BOOLEAN
  BY DEF ESDM_create
<1>2. NewContainer \in Container /\ NewContainer.datasets = <<>>
  <2>1. <<>> \in Seq(Dataset) /\ <<>> \in Seq(Att) /\ {} \in SUBSET Seq(Dimensions)
    BY EmptySeq
  <2> QED
    BY <2>1 DEF NewContainer, Container
<1>3. <<>> \in Seq(Dimensions) /\ <<>> \in Seq(Variable)
  BY EmptySeq
<1>4. e' \in Handle
  BY <1>1, <1>2, <1>3 DEF Handle
<1>5. e'.vars = <<>> /\ e'.dimt = <<>> /\ e'.original_nc /\ e'.c.datasets = <<>>
  BY <1>1, <1>2
<1>6. Len(<<>>) = 0 /\ 0 <= MaxDims
  BY NamesAssumption
<1>7. Follows(e') /\ Sized(e')
  BY <1>5, <1>6 DEF Follows, Sized, UniqueNames
<1> QED
  BY <1>1, <1>4, <1>7, HandleKept

(* ESDM_open builds them from the container.                               *)
LEMMA OpenKept == Inv /\ ESDM_open => Kept
<1> SUFFICES ASSUME Inv, ESDM_open
             PROVE  Kept
  OBVIOUS
<1>1. Fits(store) /\ Matching(store) /\ e' = Opened(store)
  BY DEF Inv, ESDM_open
<1>2. e' \in Handle /\ Follows(e') /\ Sized(e')
  BY <1>1, OpenedIs
<1> QED
  BY <1>2, HandleKept DEF ESDM_open

(* Committing stores a container that opens again.                         *)
LEMMA CommitKept ==
  ASSUME Inv, IsOpen, store' = Committed, defining' \in BOOLEAN,
         \/ e' = Closed
         \/ /\ e' \in Handle
            /\ e'.dimt = e.dimt /\ e'.vars = e.vars /\ e'.c.datasets = e.c.datasets
            /\ e'.original_nc \/ e'.c.nc_dims = {}
  PROVE  Kept
<1>1. e \in Handle /\ Follows(e)
  BY DEF Inv, IsOpen
<1>2. Fits(store') /\ (Sized(e) => Matching(store'))
  BY <1>1, CommittedIs
<1>3. CASE e' = Closed
  BY <1>2, <1>3 DEF Kept, Inv, EInv, SInv, IsOpen
<1>4. CASE e' # Closed
  <2>1. Follows(e') /\ (Sized(e) => Sized(e'))
    BY <1>1, <1>4 DEF Follows, Sized
  <2> QED
    BY <1>2, <1>4, <2>1 DEF Kept, Inv, EInv, SInv, IsOpen
<1> QED
  BY <1>3, <1>4

(* ESDM__enddef, ESDM_sync and ESDM_close commit.                          *)
LEMMA CommitsKept == Inv /\ (ESDM__enddef \/ ESDM_sync \/ ESDM_close) => Kept
<1> SUFFICES ASSUME Inv, IsOpen, ESDM__enddef \/ ESDM_sync \/ ESDM_close
             PROVE  Kept
  BY DEF ESDM__enddef, ESDM_sync, ESDM_close
<1>1. e \in Handle /\ Follows(e)
  BY DEF Inv, IsOpen
<1>2. defining \in BOOLEAN
  BY DEF Inv
<1>3. CASE ESDM__enddef
  <2>1. e' = [e EXCEPT !.c.nc_dims = {}] /\ store' = Committed /\ defining' = FALSE
    BY <1>3 DEF ESDM__enddef
  <2>2. /\ e' \in Handle /\ e'.dimt = e.dimt /\ e'.vars = e.vars
        /\ e'.c.datasets = e.c.datasets /\ e'.c.nc_dims = {}
    BY <1>1, <2>1 DEF Handle, Container
  <2> QED
    BY <2>1, <2>2, CommitKept
<1>4. CASE ESDM_sync
  <2>1. e' = [e EXCEPT !.c = Committed] /\ store' = Committed /\ defining' \in BOOLEAN
    BY <1>2, <1>4 DEF ESDM_sync
  <2>2. PICK c : /\ c = Committed /\ c \in Container /\ c.datasets = e.c.datasets
                 /\ c.nc_dims = IF e.original_nc THEN {e.dimt} ELSE {}
    BY <1>1, CommittedIs DEF Fits
  <2>3. e' = [e EXCEPT !.c = c]
    BY <2>1, <2>2
  <2>4. /\ e' \in Handle /\ e'.dimt = e.dimt /\ e'.vars = e.vars
        /\ e'.c = c /\ e'.original_nc = e.original_nc
    BY <1>1, <2>2, <2>3 DEF Handle
  <2>5. e'.original_nc \/ e'.c.nc_dims = {}
    BY <2>2, <2>4
  <2> QED
    BY <2>1, <2>2, <2>4, <2>5, CommitKept
<1>5. CASE ESDM_close
  BY <1>5, CommitKept DEF ESDM_close
<1> QED
  BY <1>3, <1>4, <1>5

(* Neither closing without a commit nor ESDM_redef changes a table.        *)
LEMMA RestKept == Inv /\ (ESDM_abort \/ ESDM_redef) => Kept
BY DEF Inv, EInv, SInv, Kept, ESDM_abort, ESDM_redef

-----------------------------------------------------------------------------
(* Dimensions and variables *)

(* Only the table of dimensions changes, and keeps the names it has.       *)
LEMMA TableChanged ==
  ASSUME NEW h \in Handle, Follows(h), NEW g \in Handle,
         g.vars = h.vars, g.c = h.c, g.original_nc = h.original_nc,
         Len(g.dimt) <= MaxDims, UniqueNames(g.dimt),
         \A k \in 1 .. Len(h.dimt) : k \in 1 .. Len(g.dimt) /\ g.dimt[k].name = h.dimt[k].name
  PROVE  /\ Follows(g)
         /\ (\A k \in 1 .. Len(h.dimt) : g.dimt[k].size = h.dimt[k].size)
              /\ Sized(h) => Sized(g)
<1>1. ASSUME NEW i \in 1 .. Len(h.vars)
      PROVE  /\ h.vars[i].dset = i
             /\ VarFollows(h.vars[i], h.c.datasets[i], g.dimt)
             /\ (\A k \in 1 .. Len(h.dimt) : g.dimt[k].size = h.dimt[k].size)
                  /\ Sized(h) => VarSized(h.vars[i], h.c.datasets[i], g.dimt)
  <2>1. h.vars[i].dset = i /\ VarFollows(h.vars[i], h.c.datasets[i], h.dimt)
    BY DEF Follows
  <2> QED
    BY <2>1 DEF VarFollows, VarSized, Sized
<1> QED
  BY <1>1 DEF Follows, Sized

(* ESDM_def_dim                                                            *)
LEMMA DefDimKept ==
  ASSUME Inv, NEW name \in DimNames, NEW len \in Lengths, ESDM_def_dim(name, len)
  PROVE  Kept
<1>1. e \in Handle /\ Follows(e) /\ UNCHANGED store /\ defining' \in BOOLEAN
  BY DEF Inv, IsOpen, ESDM_def_dim
<1>2. PICK t : t = e.dimt /\ t \in Seq(Dimensions) /\ UniqueNames(t)
  BY <1>1 DEF Handle, Follows
<1>3. PICK k : k = Find(t, name)
  OBVIOUS
<1>4. PICK l \in Nat : l = Len(t) /\ l <= MaxDims
  BY <1>1, <1>2, LenProperties DEF Follows
<1>5. CASE k # 0
  <2>1. /\ "redefine" \in Unusual \/ t[k].size = len
        /\ e' = [e EXCEPT !.dimt[k].size = len]
    BY <1>2, <1>3, <1>5 DEF ESDM_def_dim
  <2>2. k \in 1 .. l
    BY <1>2, <1>3, <1>4, <1>5, FindIs
  <2>3. t[k] \in Dimensions
    BY <1>2, <1>4, <2>2, ElementOfSeq
  <2>4. PICK d : d = [t[k] EXCEPT !.size = len]
    OBVIOUS
  <2>5. d \in Dimensions /\ d.name = t[k].name /\ d.size = len
    BY <2>3, <2>4 DEF Dimensions
  <2>6. PICK u : u = [t EXCEPT ![k] = d]
    OBVIOUS
  <2>7. /\ u \in Seq(Dimensions) /\ Len(u) = l
        /\ \A i \in 1 .. l : u[i] = IF i = k THEN d ELSE t[i]
    BY <1>2, <1>4, <2>2, <2>5, <2>6, ExceptIs
  <2>8. e' = [e EXCEPT !.dimt = u]
    BY <1>1, <1>2, <2>1, <2>4, <2>6 DEF Handle
  <2>9. /\ e' \in Handle /\ e'.vars = e.vars /\ e'.c = e.c
        /\ e'.original_nc = e.original_nc /\ e'.dimt = u
    BY <1>1, <2>7, <2>8 DEF Handle
  <2>10. \A i \in 1 .. l : u[i].name = t[i].name
    BY <2>5, <2>7
  <2>11. UniqueNames(u)
    BY <1>2, <1>4, <2>7, <2>10 DEF UniqueNames
  <2>12. "redefine" \notin Unusual => \A i \in 1 .. l : u[i].size = t[i].size
    BY <2>1, <2>5, <2>7
  <2>13. Len(e'.dimt) <= MaxDims /\ UniqueNames(e'.dimt)
    BY <1>4, <2>7, <2>9, <2>11
  <2>14. \A i \in 1 .. Len(e.dimt) :
           i \in 1 .. Len(e'.dimt) /\ e'.dimt[i].name = e.dimt[i].name
    BY <1>2, <1>4, <2>7, <2>9, <2>10
  <2>15. Follows(e') /\ ((\A i \in 1 .. Len(e.dimt) : e'.dimt[i].size = e.dimt[i].size)
                           /\ Sized(e) => Sized(e'))
    BY <1>1, <2>9, <2>13, <2>14, TableChanged
  <2>16. "redefine" \notin Unusual /\ EInv => Sized(e')
    BY <1>2, <1>4, <2>9, <2>12, <2>15 DEF EInv, IsOpen, ESDM_def_dim
  <2> QED
    BY <1>1, <2>9, <2>15, <2>16, HandleKept
<1>6. CASE k = 0
  <2>1. /\ l < MaxDims
        /\ e' = [e EXCEPT !.dimt = Append(@, [name |-> name, size |-> len])]
    BY <1>2, <1>3, <1>4, <1>6 DEF ESDM_def_dim
  <2>2. PICK d \in Dimensions : d = [name |-> name, size |-> len]
    BY DEF Dimensions
  <2>3. PICK u : u = Append(t, d)
    OBVIOUS
  <2>4. /\ u \in Seq(Dimensions) /\ Len(u) = l + 1
        /\ \A i \in 1 .. l : u[i] = t[i]
        /\ u[l + 1] = d
    BY <1>2, <1>4, <2>3, AppendedIs
  <2>5. e' = [e EXCEPT !.dimt = u]
    BY <1>1, <1>2, <2>1, <2>2, <2>3 DEF Handle
  <2>6. /\ e' \in Handle /\ e'.vars = e.vars /\ e'.c = e.c
        /\ e'.original_nc = e.original_nc /\ e'.dimt = u
    BY <1>1, <2>4, <2>5 DEF Handle
  <2>7. \A i \in 1 .. l : t[i].name # name
    BY <1>2, <1>3, <1>4, <1>6, FindIs, ZenonT(60)
  <2>8. \A i \in 1 .. l + 1 : i = l + 1 \/ i \in 1 .. l
    OBVIOUS
  <2>9. UniqueNames(u)
    <3> SUFFICES ASSUME NEW i \in 1 .. l + 1, NEW j \in 1 .. l + 1, u[i].name = u[j].name
                 PROVE  i = j
      BY <2>4 DEF UniqueNames
    <3>1. CASE i \in 1 .. l /\ j \in 1 .. l
      BY <1>2, <1>4, <2>4, <3>1 DEF UniqueNames
    <3>2. CASE i = l + 1 \/ j = l + 1
      BY <2>2, <2>4, <2>7, <2>8, <3>2
    <3> QED
      BY <2>8, <3>1, <3>2
  <2>10. Len(e'.dimt) <= MaxDims /\ UniqueNames(e'.dimt)
    <3>1. MaxDims \in Nat
      BY NamesAssumption
    <3>2. l + 1 <= MaxDims
      BY <2>1, <3>1
    <3> QED
      BY <2>4, <2>6, <2>9, <3>2
  <2>11. \A i \in 1 .. Len(e.dimt) : i \in 1 .. Len(e'.dimt) /\ e'.dimt[i] = e.dimt[i]
    BY <1>2, <1>4, <2>4, <2>6
  <2>12. Follows(e') /\ (Sized(e) => Sized(e'))
    BY <1>1, <2>6, <2>10, <2>11, TableChanged
  <2> QED
    BY <1>1, <2>6, <2>12, HandleKept DEF EInv, IsOpen, ESDM_def_dim
<1> QED
  BY <1>5, <1>6

(* The tables stay, and so do the dimensions of the datasets.              *)
LEMMA DimsSame ==
  ASSUME NEW h \in Handle, Follows(h), NEW g \in Handle,
         g.vars = h.vars, g.dimt = h.dimt, g.original_nc = h.original_nc,
         g.c.nc_dims = h.c.nc_dims, Len(g.c.datasets) = Len(h.c.datasets),
         \A i \in 1 .. Len(h.c.datasets) : g.c.datasets[i].dims = h.c.datasets[i].dims
  PROVE  Follows(g) /\ (Sized(h) => Sized(g))
<1>1. Len(h.vars) = Len(h.c.datasets)
  BY DEF Follows
<1>2. ASSUME NEW i \in 1 .. Len(h.vars)
      PROVE  /\ h.vars[i].dset = i
             /\ VarFollows(h.vars[i], g.c.datasets[i], h.dimt)
             /\ Sized(h) => VarSized(h.vars[i], g.c.datasets[i], h.dimt)
  <2>1. h.vars[i].dset = i /\ VarFollows(h.vars[i], h.c.datasets[i], h.dimt)
    BY DEF Follows
  <2> QED
    BY <1>1, <2>1, ZenonT(60) DEF VarFollows, VarSized, Sized
<1> QED
  BY <1>1, <1>2 DEF Follows, Sized

(* A dataset gets another name, attributes or fill value.                  *)
LEMMA DatasetKept ==
  ASSUME Inv, IsOpen, NEW k \in 1 .. Len(e.c.datasets), NEW d \in Dataset,
         d.dims = e.c.datasets[k].dims, e' = [e EXCEPT !.c.datasets[k] = d],
         UNCHANGED <<store, defining>>
  PROVE  /\ Kept /\ e' \in Handle /\ Follows(e')
         /\ e'.dimt = e.dimt /\ e'.c.atts = e.c.atts /\ e'.original_nc = e.original_nc
         /\ Len(e'.c.datasets) = Len(e.c.datasets)
         /\ \A i \in 1 .. Len(e.c.datasets) :
              e'.c.datasets[i] = IF i = k THEN d ELSE e.c.datasets[i]
<1>1. e \in Handle /\ Follows(e) /\ e.c \in Container
  BY DEF Inv, IsOpen, Handle
<1>2. PICK dsets : dsets = e.c.datasets /\ dsets \in Seq(Dataset)
  BY <1>1 DEF Container
<1>3. PICK u : u = [dsets EXCEPT ![k] = d]
  OBVIOUS
<1>4. /\ u \in Seq(Dataset) /\ Len(u) = Len(dsets)
      /\ \A i \in 1 .. Len(dsets) : u[i] = IF i = k THEN d ELSE dsets[i]
  BY <1>2, <1>3, ExceptIs
<1>5. PICK c : c = [e.c EXCEPT !.datasets = u]
  OBVIOUS
<1>6. c \in Container /\ c.datasets = u /\ c.nc_dims = e.c.nc_dims /\ c.atts = e.c.atts
  BY <1>1, <1>4, <1>5 DEF Container
<1>7. e' = [e EXCEPT !.c = c]
  BY <1>1, <1>2, <1>3, <1>5 DEF Handle, Container
<1>8. /\ e' \in Handle /\ e'.vars = e.vars /\ e'.dimt = e.dimt
      /\ e'.original_nc = e.original_nc /\ e'.c = c
  BY <1>1, <1>6, <1>7 DEF Handle
<1>9. Follows(e') /\ (Sized(e) => Sized(e'))
  <2>1. /\ e'.c.nc_dims = e.c.nc_dims /\ Len(e'.c.datasets) = Len(e.c.datasets)
        /\ \A i \in 1 .. Len(e.c.datasets) : e'.c.datasets[i].dims = e.c.datasets[i].dims
    BY <1>2, <1>4, <1>6, <1>8
  <2>2. PICK h \in Handle, g \in Handle : h = e /\ g = e'
    BY <1>1, <1>8
  <2>3. Follows(g) /\ (Sized(h) => Sized(g))
    BY <1>1, <1>8, <2>1, <2>2, DimsSame
  <2> QED
    BY <2>2, <2>3
<1>10. Kept
  BY <1>8, <1>9, HandleKept DEF Inv, EInv, IsOpen
<1> QED
  BY <1>2, <1>4, <1>6, <1>8, <1>9, <1>10

(* What a dimension is called after the dimensions called old are new      *)
RenamedTo(d, old, new) == IF d.name = old THEN [d EXCEPT !.name = new] ELSE d

LEMMA RenamedIs ==
  ASSUME NEW d \in Dimensions, NEW old, NEW new \in DimNames
  PROVE  /\ RenamedTo(d, old, new) \in Dimensions
         /\ RenamedTo(d, old, new).size = d.size
         /\ RenamedTo(d, old, new).name = IF d.name = old THEN new ELSE d.name
BY DEF RenamedTo, Dimensions

LEMMA DimsRenamedIs ==
  ASSUME NEW dset \in Dataset, NEW old, NEW new \in DimNames
  PROVE  /\ DimsRenamed(dset, old, new) \in Dataset
         /\ DimsRenamed(dset, old, new).atts = dset.atts
         /\ DimsRenamed(dset, old, new).fill = dset.fill
         /\ DimsRenamed(dset, old, new).name = dset.name
         /\ Len(DimsRenamed(dset, old, new).dims) = Len(dset.dims)
         /\ \A j \in 1 .. Len(dset.dims) :
              DimsRenamed(dset, old, new).dims[j] = RenamedTo(dset.dims[j], old, new)
<1>1. PICK s : s = dset.dims /\ s \in Seq(Dimensions)
  BY DEF Dataset
<1>2. PICK l \in Nat : l = Len(s) /\ DOMAIN s = 1 .. l
  BY <1>1, LenProperties
<1>3. PICK u : u = [j \in 1 .. l |-> RenamedTo(s[j], old, new)]
  OBVIOUS
<1>4. \A j \in 1 .. l : u[j] \in Dimensions
  <2>1. \A j \in 1 .. l : s[j] \in Dimensions
    BY <1>1, <1>2, ElementOfSeq
  <2> QED
    BY <1>3, <2>1, RenamedIs
<1>5. u \in Seq(Dimensions) /\ Len(u) = l
  BY <1>3, <1>4, SeqDef
<1>6. DimsRenamed(dset, old, new) = [dset EXCEPT !.dims = u]
  BY <1>1, <1>2, <1>3 DEF DimsRenamed, RenamedTo, Dataset
<1>7. PICK w : w = [dset EXCEPT !.dims = u]
  OBVIOUS
<1>8. /\ w \in Dataset /\ w.dims = u /\ w.atts = dset.atts
      /\ w.fill = dset.fill /\ w.name = dset.name
  BY <1>5, <1>7 DEF Dataset
<1>9. Len(w.dims) = Len(dset.dims) /\ \A j \in 1 .. Len(dset.dims) : w.dims[j] = RenamedTo(dset.dims[j], old, new)
  BY <1>1, <1>2, <1>3, <1>5, <1>8
<1> QED
  BY <1>6, <1>7, <1>8, <1>9

(* ESDM_rename_dim gives the dimension the new name in the table and in    *)
(* every dataset.                                                          *)
LEMMA RenameDimStep ==
  ASSUME Inv, NEW dimid, NEW name \in DimNames, ESDM_rename_dim(dimid, name)
  PROVE  /\ e \in Handle /\ Follows(e) /\ dimid \in 1 .. Len(e.dimt)
         /\ e' \in Handle /\ e'.vars = e.vars /\ e'.original_nc = e.original_nc
         /\ e'.c.nc_dims = e.c.nc_dims /\ e'.c.atts = e.c.atts
         /\ Len(e'.dimt) = Len(e.dimt)
         /\ \A k \in 1 .. Len(e.dimt) :
              e'.dimt[k] = IF k = dimid THEN [e.dimt[k] EXCEPT !.name = name] ELSE e.dimt[k]
         /\ Len(e'.c.datasets) = Len(e.c.datasets)
         /\ \A i \in 1 .. Len(e.c.datasets) :
              /\ e.c.datasets[i] \in Dataset
              /\ e'.c.datasets[i] = DimsRenamed(e.c.datasets[i], e.dimt[dimid].name, name)
<1>1. e \in Handle /\ Follows(e) /\ e.c \in Container
  BY DEF Inv, IsOpen, Handle, ESDM_rename_dim
<1>2. PICK t : t = e.dimt /\ t \in Seq(Dimensions)
  BY <1>1 DEF Handle
<1>3. PICK l \in Nat : l = Len(t) /\ DOMAIN t = 1 .. l
  BY <1>2, LenProperties
<1>4. dimid \in 1 .. l
  BY <1>2, <1>3 DEF ESDM_rename_dim
<1>5. PICK old : old = t[dimid].name
  OBVIOUS
<1>6. PICK d : d = [t[dimid] EXCEPT !.name = name]
  OBVIOUS
<1>7. d \in Dimensions
  <2>1. t[dimid] \in Dimensions
    BY <1>2, <1>3, <1>4, ElementOfSeq
  <2> QED
    BY <1>6, <2>1 DEF Dimensions
<1>8. PICK u : u = [t EXCEPT ![dimid] = d]
  OBVIOUS
<1>9. /\ u \in Seq(Dimensions) /\ Len(u) = l
      /\ \A k \in 1 .. l : u[k] = IF k = dimid THEN d ELSE t[k]
  BY <1>2, <1>3, <1>4, <1>7, <1>8, ExceptIs
<1>10. PICK dsets : dsets = e.c.datasets /\ dsets \in Seq(Dataset)
  BY <1>1 DEF Container
<1>11. PICK n \in Nat : n = Len(dsets) /\ DOMAIN dsets = 1 .. n
  BY <1>10, LenProperties
<1>12. PICK v : v = [i \in 1 .. n |-> DimsRenamed(dsets[i], old, name)]
  OBVIOUS
<1>13. \A i \in 1 .. n : dsets[i] \in Dataset
  BY <1>10, <1>11, ElementOfSeq
<1>14. \A i \in 1 .. n : v[i] \in Dataset
  BY <1>12, <1>13, DimsRenamedIs
<1>15. v \in Seq(Dataset) /\ Len(v) = n
  BY <1>12, <1>14, SeqDef
<1>16. e' = [e EXCEPT !.c.datasets = v, !.dimt[dimid].name = name]
  BY <1>2, <1>5, <1>10, <1>11, <1>12 DEF ESDM_rename_dim
<1>17. PICK c : c = [e.c EXCEPT !.datasets = v]
  OBVIOUS
<1>18. c \in Container /\ c.datasets = v /\ c.nc_dims = e.c.nc_dims /\ c.atts = e.c.atts
  BY <1>1, <1>15, <1>17 DEF Container
<1>19. e' = [e EXCEPT !.c = c, !.dimt = u]
  BY <1>1, <1>2, <1>6, <1>8, <1>16, <1>17 DEF Handle, Container
<1>20. /\ e' \in Handle /\ e'.vars = e.vars /\ e'.dimt = u
       /\ e'.original_nc = e.original_nc /\ e'.c = c
  BY <1>1, <1>9, <1>18, <1>19 DEF Handle
<1> QED
  BY <1>1, <1>2, <1>3, <1>4, <1>5, <1>6, <1>9, <1>10, <1>11, <1>12,
     <1>13, <1>15, <1>18, <1>20, SMTT(60)

LEMMA RenameDimKept ==
  ASSUME Inv, NEW dimid, NEW name \in DimNames, ESDM_rename_dim(dimid, name)
  PROVE  Kept
<1> PICK h, g, t, u, old :
      /\ h = e /\ g = e' /\ t = e.dimt /\ u = e'.dimt /\ old = e.dimt[dimid].name
  OBVIOUS
<1>1. /\ h \in Handle /\ Follows(h) /\ dimid \in 1 .. Len(t)
      /\ g \in Handle /\ g.vars = h.vars /\ g.original_nc = h.original_nc
      /\ g.c.nc_dims = h.c.nc_dims /\ Len(u) = Len(t)
      /\ \A k \in 1 .. Len(t) : u[k] = IF k = dimid THEN [t[k] EXCEPT !.name = name] ELSE t[k]
      /\ Len(g.c.datasets) = Len(h.c.datasets)
      /\ \A i \in 1 .. Len(h.c.datasets) :
           h.c.datasets[i] \in Dataset /\ g.c.datasets[i] = DimsRenamed(h.c.datasets[i], old, name)
  BY RenameDimStep
<1>2. UniqueNames(t) /\ t \in Seq(Dimensions) /\ Len(t) <= MaxDims
  BY <1>1 DEF Follows, Handle
<1>3. PICK l \in Nat : l = Len(t)
  BY <1>2, LenProperties
<1>4. \A k \in 1 .. l : t[k].name # name
  <2>1. Find(t, name) = 0
    BY DEF ESDM_rename_dim
  <2> QED
    BY <1>2, <1>3, <2>1, FindIs
<1>5. ASSUME NEW k \in 1 .. l
      PROVE  u[k] = RenamedTo(t[k], old, name)
  <2>1. t[k].name = old <=> k = dimid
    BY <1>1, <1>2, <1>3 DEF UniqueNames
  <2> QED
    BY <1>1, <1>3, <2>1 DEF RenamedTo
<1>6. \A k \in 1 .. l : t[k] \in Dimensions
  BY <1>2, <1>3, ElementOfSeq
<1>7. \A k \in 1 .. l : /\ u[k].size = t[k].size
                        /\ u[k].name = IF t[k].name = old THEN name ELSE t[k].name
  BY <1>5, <1>6, RenamedIs
<1>8. UniqueNames(u)
  <2> SUFFICES ASSUME NEW i \in 1 .. l, NEW k \in 1 .. l, u[i].name = u[k].name
               PROVE  t[i].name = t[k].name
    BY <1>1, <1>2, <1>3 DEF UniqueNames
  <2> QED
    BY <1>4, <1>7
<1>9. ASSUME NEW i \in 1 .. Len(h.vars)
      PROVE  /\ h.vars[i].dset = i
             /\ VarFollows(h.vars[i], g.c.datasets[i], u)
             /\ Sized(h) => VarSized(h.vars[i], g.c.datasets[i], u)
  <2>1. /\ h.vars[i].dset = i /\ VarFollows(h.vars[i], h.c.datasets[i], t)
        /\ i \in 1 .. Len(h.c.datasets)
    BY <1>1 DEF Follows
  <2>2. PICK ids, s : ids = h.vars[i].dimids /\ s = h.c.datasets[i].dims
    OBVIOUS
  <2>3. Len(ids) = Len(s) /\ \A j \in 1 .. Len(ids) : ids[j] \in 1 .. l /\ t[ids[j]].name = s[j].name
    BY <1>3, <2>1, <2>2 DEF VarFollows
  <2>4. PICK r : r = g.c.datasets[i].dims
    OBVIOUS
  <2>5. Len(r) = Len(s) /\ \A j \in 1 .. Len(s) : r[j] = RenamedTo(s[j], old, name)
    <3>1. PICK dset \in Dataset : dset = h.c.datasets[i] /\ r = DimsRenamed(dset, old, name).dims
      BY <1>1, <2>1, <2>4
    <3> QED
      BY <2>2, <3>1, DimsRenamedIs
  <2>6. \A j \in 1 .. Len(s) : s[j] \in Dimensions
    <3>1. s \in Seq(Dimensions)
      BY <1>1, <2>1, <2>2 DEF Dataset
    <3> QED
      BY <3>1, ElementOfSeq
  <2>7. \A j \in 1 .. Len(s) : /\ r[j].size = s[j].size
                               /\ r[j].name = IF s[j].name = old THEN name ELSE s[j].name
    BY <2>5, <2>6, RenamedIs
  <2>8. VarFollows(h.vars[i], g.c.datasets[i], u)
    <3>1. \A j \in 1 .. Len(ids) : ids[j] \in 1 .. Len(u) /\ u[ids[j]].name = r[j].name
      BY <1>1, <1>3, <1>7, <2>3, <2>7
    <3> QED
      BY <2>2, <2>3, <2>4, <2>5, <3>1 DEF VarFollows
  <2>9. ASSUME Sized(h)
        PROVE  VarSized(h.vars[i], g.c.datasets[i], u)
    <3>1. \A j \in 1 .. Len(ids) : t[ids[j]].size = s[j].size
      BY <2>2, <2>9 DEF Sized, VarSized
    <3>2. \A j \in 1 .. Len(ids) : u[ids[j]].size = r[j].size
      BY <1>7, <2>3, <2>7, <3>1
    <3> QED
      BY <2>2, <2>4, <3>2 DEF VarSized
  <2> QED
    BY <2>1, <2>8, <2>9
<1>10. Follows(g) /\ (Sized(h) => Sized(g))
  <2>1. g.dimt = u /\ h.vars = g.vars /\ Len(u) <= MaxDims
    BY <1>1, <1>2
  <2> QED
    BY <1>1, <1>8, <1>9, <2>1 DEF Follows, Sized
<1> QED
  BY <1>1, <1>10, HandleKept DEF Inv, EInv, IsOpen, ESDM_rename_dim

(* ESDM_def_var appends to both tables.                                    *)
LEMMA DefVarStep ==
  ASSUME Inv, NEW name \in VarNames, NEW rank \in 0 .. MaxRank,
         NEW dimids \in [1 .. rank -> 1 .. MaxDims], ESDM_def_var(name, dimids)
  PROVE  /\ e \in Handle /\ Follows(e)
         /\ e' \in Handle /\ e'.dimt = e.dimt /\ e'.original_nc = e.original_nc
         /\ e'.c.nc_dims = e.c.nc_dims /\ e'.c.atts = e.c.atts
         /\ Len(e'.c.datasets) = Len(e.c.datasets) + 1
         /\ Len(e'.vars) = Len(e.vars) + 1
         /\ \A i \in 1 .. Len(e.c.datasets) : e'.c.datasets[i] = e.c.datasets[i]
         /\ \A i \in 1 .. Len(e.vars) : e'.vars[i] = e.vars[i]
         /\ e'.c.datasets[Len(e.c.datasets) + 1] =
              [name |-> name, dims |-> [j \in 1 .. rank |-> e.dimt[dimids[j]]],
               atts |-> <<>>, fill |-> Default]
         /\ e'.vars[Len(e.vars) + 1] = [dset |-> Len(e.c.datasets) + 1, dimids |-> dimids]
         /\ Len(dimids) = rank
         /\ Len([j \in 1 .. rank |-> e.dimt[dimids[j]]]) = rank
         /\ \A j \in 1 .. rank : dimids[j] \in 1 .. Len(e.dimt)
<1>1. e \in Handle /\ Follows(e) /\ e.c \in Container
  BY DEF Inv, IsOpen, Handle, ESDM_def_var
<1>2. PICK t : t = e.dimt /\ t \in Seq(Dimensions)
  BY <1>1 DEF Handle
<1>3. PICK l \in Nat : l = Len(t) /\ DOMAIN t = 1 .. l
  BY <1>2, LenProperties
<1>4. rank \in Nat /\ DOMAIN dimids = 1 .. rank
  OBVIOUS
<1>5. \A j \in 1 .. rank : dimids[j] \in 1 .. l
  BY <1>2, <1>3, <1>4 DEF ESDM_def_var
<1>6. PICK s : s = [j \in 1 .. rank |-> t[dimids[j]]]
  OBVIOUS
<1>7. s \in Seq(Dimensions) /\ Len(s) = rank
  <2>1. \A j \in 1 .. rank : s[j] \in Dimensions
    <3>1. \A k \in 1 .. l : t[k] \in Dimensions
      BY <1>2, <1>3, ElementOfSeq
    <3> QED
      BY <1>5, <1>6, <3>1
  <2> QED
    BY <1>4, <1>6, <2>1, SeqDef
<1>8. dimids \in Seq(Nat) /\ Len(dimids) = rank
  <2>1. dimids = [j \in 1 .. rank |-> dimids[j]]
    OBVIOUS
  <2>2. \A j \in 1 .. rank : dimids[j] \in Nat
    BY <1>5
  <2>3. dimids \in [1 .. rank -> Nat]
    BY <2>2
  <2> QED
    BY <1>4, <2>3, SeqDef
<1>9. PICK d : d = [name |-> name, dims |-> s, atts |-> <<>>, fill |-> Default]
  OBVIOUS
<1>10. d \in Dataset
  BY <1>7, <1>9, EmptySeq DEF Dataset
<1>11. PICK dsets : dsets = e.c.datasets /\ dsets \in Seq(Dataset)
  BY <1>1 DEF Container
<1>12. PICK n \in Nat : n = Len(dsets)
  BY <1>11, LenProperties
<1>13. PICK v : v = [dset |-> n + 1, dimids |-> dimids]
  OBVIOUS
<1>14. v \in Variable
  BY <1>8, <1>13 DEF Variable
<1>15. PICK vs : vs = e.vars /\ vs \in Seq(Variable)
  BY <1>1 DEF Handle
<1>16. PICK ds2, vs2 : ds2 = Append(dsets, d) /\ vs2 = Append(vs, v)
  OBVIOUS
<1>17. /\ ds2 \in Seq(Dataset) /\ Len(ds2) = n + 1
       /\ \A i \in 1 .. n : ds2[i] = dsets[i]
       /\ ds2[n + 1] = d
  BY <1>10, <1>11, <1>12, <1>16, AppendedIs
<1>18. /\ vs2 \in Seq(Variable) /\ Len(vs2) = Len(vs) + 1
       /\ \A i \in 1 .. Len(vs) : vs2[i] = vs[i]
       /\ vs2[Len(vs) + 1] = v
  BY <1>14, <1>15, <1>16, AppendedIs
<1>19. e' = [e EXCEPT !.c.datasets = Append(@, d), !.vars = Append(@, v)]
  <2>1. [j \in DOMAIN dimids |-> e.dimt[dimids[j]]] = s
    BY <1>2, <1>4, <1>6
  <2> QED
    BY <1>9, <1>11, <1>12, <1>13, <2>1 DEF ESDM_def_var
<1>20. PICK c : c = [e.c EXCEPT !.datasets = ds2]
  OBVIOUS
<1>21. c \in Container /\ c.datasets = ds2 /\ c.nc_dims = e.c.nc_dims /\ c.atts = e.c.atts
  BY <1>1, <1>17, <1>20 DEF Container
<1>22. e' = [e EXCEPT !.c = c, !.vars = vs2]
  BY <1>1, <1>11, <1>15, <1>16, <1>19, <1>20 DEF Handle, Container
<1>23. /\ e' \in Handle /\ e'.vars = vs2 /\ e'.dimt = e.dimt
       /\ e'.original_nc = e.original_nc /\ e'.c = c
  BY <1>1, <1>18, <1>21, <1>22 DEF Handle
<1> QED
  BY <1>1, <1>2, <1>3, <1>5, <1>6, <1>7, <1>8, <1>9, <1>11, <1>12, <1>13, <1>15, <1>17, <1>18, <1>21, <1>23

LEMMA DefVarKept ==
  ASSUME Inv, NEW name \in VarNames, NEW rank \in 0 .. MaxRank,
         NEW dimids \in [1 .. rank -> 1 .. MaxDims], ESDM_def_var(name, dimids)
  PROVE  Kept
<1>1. PICK h, g, s : h = e /\ g = e' /\ s = [j \in 1 .. rank |-> e.dimt[dimids[j]]]
  OBVIOUS
<1>2. /\ h \in Handle /\ Follows(h)
      /\ g \in Handle /\ g.dimt = h.dimt /\ g.original_nc = h.original_nc
      /\ g.c.nc_dims = h.c.nc_dims
      /\ Len(g.c.datasets) = Len(h.c.datasets) + 1 /\ Len(g.vars) = Len(h.vars) + 1
      /\ \A i \in 1 .. Len(h.c.datasets) : g.c.datasets[i] = h.c.datasets[i]
      /\ \A i \in 1 .. Len(h.vars) : g.vars[i] = h.vars[i]
      /\ g.c.datasets[Len(h.c.datasets) + 1] = [name |-> name, dims |-> s, atts |-> <<>>, fill |-> Default]
      /\ g.vars[Len(h.vars) + 1] = [dset |-> Len(h.c.datasets) + 1, dimids |-> dimids]
      /\ Len(dimids) = rank /\ Len(s) = rank
      /\ \A j \in 1 .. rank : dimids[j] \in 1 .. Len(h.dimt)
  <2>1. /\ e \in Handle /\ Follows(e)
        /\ e' \in Handle /\ e'.dimt = e.dimt /\ e'.original_nc = e.original_nc
        /\ e'.c.nc_dims = e.c.nc_dims
        /\ Len(e'.c.datasets) = Len(e.c.datasets) + 1 /\ Len(e'.vars) = Len(e.vars) + 1
        /\ \A i \in 1 .. Len(e.c.datasets) : e'.c.datasets[i] = e.c.datasets[i]
        /\ \A i \in 1 .. Len(e.vars) : e'.vars[i] = e.vars[i]
    BY DefVarStep
  <2>2. /\ e'.c.datasets[Len(e.c.datasets) + 1] =
             [name |-> name, dims |-> [j \in 1 .. rank |-> e.dimt[dimids[j]]],
              atts |-> <<>>, fill |-> Default]
        /\ e'.vars[Len(e.vars) + 1] = [dset |-> Len(e.c.datasets) + 1, dimids |-> dimids]
        /\ Len(dimids) = rank
        /\ Len([j \in 1 .. rank |-> e.dimt[dimids[j]]]) = rank
        /\ \A j \in 1 .. rank : dimids[j] \in 1 .. Len(e.dimt)
    BY DefVarStep, SMTT(60)
  <2> QED
    BY <1>1, <2>1, <2>2
<1>3. PICK n \in Nat : n = Len(h.vars) /\ n = Len(h.c.datasets)
  <2>1. h.vars \in Seq(Variable)
    BY <1>2 DEF Handle
  <2> QED
    BY <1>2, <2>1, LenProperties DEF Follows
<1>4. \A j \in 1 .. rank : s[j] = h.dimt[dimids[j]]
  BY <1>1
<1>5. ASSUME NEW i \in 1 .. n + 1
      PROVE  /\ g.vars[i].dset = i
             /\ VarFollows(g.vars[i], g.c.datasets[i], h.dimt)
             /\ Sized(h) => VarSized(g.vars[i], g.c.datasets[i], h.dimt)
  <2>1. CASE i \in 1 .. n
    BY <1>2, <1>3, <2>1 DEF Follows, Sized
  <2>2. CASE i = n + 1
    <3>1. PICK v, d : /\ v = [dset |-> n + 1, dimids |-> dimids]
                      /\ d = [name |-> name, dims |-> s, atts |-> <<>>, fill |-> Default]
      OBVIOUS
    <3>2. g.vars[i] = v /\ g.c.datasets[i] = d
      BY <1>2, <1>3, <2>2, <3>1
    <3>3. v.dset = i /\ v.dimids = dimids /\ d.dims = s
      BY <2>2, <3>1
    <3>4. VarFollows(v, d, h.dimt) /\ VarSized(v, d, h.dimt)
      BY <1>2, <1>4, <3>3 DEF VarFollows, VarSized
    <3> QED
      BY <3>2, <3>3, <3>4
  <2> QED
    BY <2>1, <2>2
<1>6. Follows(g) /\ (Sized(h) => Sized(g))
  BY <1>2, <1>3, <1>5 DEF Follows, Sized
<1> QED
  BY <1>1, <1>2, <1>6, HandleKept DEF Inv, EInv, IsOpen, ESDM_def_var

-----------------------------------------------------------------------------
(* Attributes *)

(* Attributes of a variable whose fill value is fill: _FillValue is there  *)
(* at most once, and has that value.                                       *)
FillIs(atts, fill) ==
  /\ \A i, k \in 1 .. Len(atts) : atts[i].name = FillAtt /\ atts[k].name = FillAtt => i = k
  /\ \A k \in 1 .. Len(atts) : atts[k].name = FillAtt => atts[k].value = fill

(* link_attribute keeps a list of attributes.                              *)
LEMMA LinkedIs ==
  ASSUME NEW atts \in Seq(Att), NEW name \in AttNames, NEW value \in Values
  PROVE  /\ Linked(atts, name, value) \in Seq(Att)
         /\ \A fill : FillIs(atts, fill)
              => FillIs(Linked(atts, name, value), IF name = FillAtt THEN value ELSE fill)
<1>1. PICK k : k = Find(atts, name)
  OBVIOUS
<1>2. PICK a \in Att : a = [name |-> name, value |-> value]
  BY DEF Att
<1>3. PICK l \in Nat : l = Len(atts)
  BY LenProperties
<1>4. PICK r : r = Linked(atts, name, value)
  OBVIOUS
<1>5. a.name = name /\ a.value = value
  BY <1>2
<1>6. CASE k = 0
  <2>1. r = Append(atts, a)
    BY <1>1, <1>2, <1>4, <1>6 DEF Linked
  <2>2. /\ r \in Seq(Att) /\ Len(r) = l + 1
        /\ \A i \in 1 .. l : r[i] = atts[i]
        /\ r[l + 1] = a
    BY <1>3, <2>1, AppendedIs
  <2>3. \A i \in 1 .. l : atts[i].name # name
    BY <1>1, <1>3, <1>6, FindIs
  <2>4. \A i \in 1 .. l + 1 : i = l + 1 \/ i \in 1 .. l
    OBVIOUS
  <2>5. ASSUME NEW fill, FillIs(atts, fill)
        PROVE  FillIs(r, IF name = FillAtt THEN value ELSE fill)
    <3>1. ASSUME NEW i \in 1 .. l + 1, NEW j \in 1 .. l + 1,
                 r[i].name = FillAtt, r[j].name = FillAtt
          PROVE  i = j
      <4>1. CASE i \in 1 .. l /\ j \in 1 .. l
        BY <1>3, <2>2, <2>5, <3>1, <4>1 DEF FillIs
      <4>2. CASE i = l + 1 \/ j = l + 1
        BY <1>5, <2>2, <2>3, <2>4, <3>1, <4>2
      <4> QED
        BY <2>4, <4>1, <4>2
    <3>2. ASSUME NEW i \in 1 .. l + 1, r[i].name = FillAtt
          PROVE  r[i].value = IF name = FillAtt THEN value ELSE fill
      <4>1. CASE i = l + 1
        BY <1>5, <2>2, <3>2, <4>1
      <4>2. CASE i \in 1 .. l
        BY <1>3, <2>2, <2>3, <2>5, <3>2, <4>2 DEF FillIs
      <4> QED
        BY <2>4, <4>1, <4>2
    <3> QED
      BY <2>2, <3>1, <3>2 DEF FillIs
  <2> QED
    BY <1>4, <2>2, <2>5
<1>7. CASE k # 0
  <2>1. r = [atts EXCEPT ![k] = a]
    BY <1>1, <1>2, <1>4, <1>7 DEF Linked
  <2>2. k \in 1 .. l /\ atts[k].name = name
    BY <1>1, <1>3, <1>7, FindIs
  <2>3. /\ r \in Seq(Att) /\ Len(r) = l
        /\ \A i \in 1 .. l : r[i] = IF i = k THEN a ELSE atts[i]
    BY <1>3, <2>1, <2>2, ExceptIs
  <2>4. \A i \in 1 .. l : r[i].name = atts[i].name
    BY <1>5, <2>2, <2>3
  <2>5. ASSUME NEW fill, FillIs(atts, fill)
        PROVE  FillIs(r, IF name = FillAtt THEN value ELSE fill)
    <3>1. \A i, j \in 1 .. l : r[i].name = FillAtt /\ r[j].name = FillAtt => i = j
      BY <1>3, <2>4, <2>5 DEF FillIs
    <3>2. ASSUME NEW i \in 1 .. l, r[i].name = FillAtt
          PROVE  r[i].value = IF name = FillAtt THEN value ELSE fill
      <4>1. CASE i = k
        BY <1>5, <2>3, <3>2, <4>1
      <4>2. CASE i # k
        <5>1. name # FillAtt
          BY <1>3, <2>2, <2>4, <2>5, <3>2, <4>2 DEF FillIs
        <5> QED
          BY <1>3, <2>3, <2>4, <2>5, <3>2, <4>2, <5>1 DEF FillIs
      <4> QED
        BY <4>1, <4>2
    <3> QED
      BY <2>3, <3>1, <3>2 DEF FillIs
  <2> QED
    BY <1>4, <2>3, <2>5
<1> QED
  BY <1>6, <1>7

(* Deleting an attribute                                                   *)
LEMMA UnlinkedIs ==
  ASSUME NEW atts \in Seq(Att), NEW name
  PROVE  /\ Unlinked(atts, name) \in Seq(Att)
         /\ \A fill, new : FillIs(atts, fill) /\ (name # FillAtt => new = fill)
              => FillIs(Unlinked(atts, name), new)
<1>1. PICK k : k = Find(atts, name)
  OBVIOUS
<1>2. PICK l \in Nat : l = Len(atts)
  BY LenProperties
<1>3. PICK r : r = Unlinked(atts, name)
  OBVIOUS
<1>4. CASE k = 0
  <2>1. r = atts
    BY <1>1, <1>3, <1>4 DEF Unlinked
  <2>2. \A i \in 1 .. l : atts[i].name # name
    BY <1>1, <1>2, <1>4, FindIs
  <2> QED
    BY <1>2, <1>3, <2>1, <2>2 DEF FillIs
<1>5. CASE k # 0
  <2>1. r = RemoveAt(atts, k)
    BY <1>1, <1>3, <1>5 DEF Unlinked
  <2>2. k \in 1 .. l /\ atts[k].name = name
    BY <1>1, <1>2, <1>5, FindIs
  <2>3. /\ r \in Seq(Att) /\ Len(r) = l - 1
        /\ \A i \in 1 .. l - 1 : r[i] = IF i < k THEN atts[i] ELSE atts[i + 1]
    BY <1>2, <2>1, <2>2, RemovedIs
  <2>4. ASSUME NEW i \in 1 .. l - 1
        PROVE  \E j \in 1 .. l : j # k /\ r[i] = atts[j] /\ j = IF i < k THEN i ELSE i + 1
    <3>1. CASE i < k
      <4>1. i \in 1 .. l /\ i # k
        BY <1>2, <2>2, <3>1
      <4> QED
        BY <2>3, <3>1, <4>1
    <3>2. CASE ~(i < k)
      <4>1. i + 1 \in 1 .. l /\ i + 1 # k
        BY <1>2, <2>2, <3>2
      <4> QED
        BY <2>3, <3>2, <4>1
    <3> QED
      BY <3>1, <3>2
  <2>5. ASSUME NEW fill, NEW new, FillIs(atts, fill), name # FillAtt => new = fill
        PROVE  FillIs(r, new)
    <3>1. ASSUME NEW i \in 1 .. l - 1, NEW j \in 1 .. l - 1,
                 r[i].name = FillAtt, r[j].name = FillAtt
          PROVE  i = j
      <4>1. PICK a \in 1 .. l : r[i] = atts[a] /\ a = IF i < k THEN i ELSE i + 1
        BY <2>4
      <4>2. PICK b \in 1 .. l : r[j] = atts[b] /\ b = IF j < k THEN j ELSE j + 1
        BY <2>4
      <4>3. a = b
        BY <1>2, <2>5, <3>1, <4>1, <4>2 DEF FillIs
      <4>4. i \in Nat /\ j \in Nat /\ k \in Nat
        BY <2>2
      <4> QED
        BY <4>1, <4>2, <4>3, <4>4
    <3>2. ASSUME NEW i \in 1 .. l - 1, r[i].name = FillAtt
          PROVE  r[i].value = new
      <4>1. PICK a \in 1 .. l : a # k /\ r[i] = atts[a]
        BY <2>4
      <4>2. atts[a].value = fill /\ name # FillAtt
        BY <1>2, <2>2, <2>5, <3>2, <4>1 DEF FillIs
      <4> QED
        BY <2>5, <4>1, <4>2
    <3> QED
      BY <2>3, <3>1, <3>2 DEF FillIs
  <2> QED
    BY <1>3, <2>3, <2>5
<1> QED
  BY <1>4, <1>5

(* Renaming an attribute, to _FillValue or not                             *)
LEMMA AttsRenamedIs ==
  ASSUME NEW atts \in Seq(Att), NEW name, NEW new \in AttNames,
         NEW r \in AttsRenamed(atts, name, new)
  PROVE  /\ r \in Seq(Att)
         /\ \A fill : "rename_fill" \notin Unusual /\ FillIs(atts, fill) => FillIs(r, fill)
<1>1. PICK l \in Nat : l = Len(atts) /\ DOMAIN atts = 1 .. l
  BY LenProperties
<1>2. PICK k \in 1 .. l : /\ r = [atts EXCEPT ![k].name = new]
                          /\ "rename_fill" \in Unusual \/ new # FillAtt
  BY <1>1 DEF AttsRenamed
<1>3. atts[k] \in Att
  BY <1>1, ElementOfSeq
<1>4. PICK a : a = [atts[k] EXCEPT !.name = new]
  OBVIOUS
<1>5. a \in Att /\ a.name = new
  BY <1>3, <1>4 DEF Att
<1>6. r = [atts EXCEPT ![k] = a]
  BY <1>2, <1>4
<1>7. /\ r \in Seq(Att) /\ Len(r) = l
      /\ \A i \in 1 .. l : r[i] = IF i = k THEN a ELSE atts[i]
  BY <1>1, <1>5, <1>6, ExceptIs
<1>8. ASSUME NEW fill, "rename_fill" \notin Unusual, FillIs(atts, fill)
      PROVE  FillIs(r, fill)
  <2>1. \A i \in 1 .. l : r[i].name = FillAtt => r[i] = atts[i]
    BY <1>2, <1>5, <1>7, <1>8
  <2> QED
    BY <1>1, <1>7, <1>8, <2>1 DEF FillIs
<1> QED
  BY <1>7, <1>8

(* Fill values and _FillValue attributes agree in the container and in the *)
(* open dataset.                                                           *)
DatasetFill(d) == FillIs(d.atts, d.fill)
AllFills(c)    == \A i \in 1 .. Len(c.datasets) : DatasetFill(c.datasets[i])
FInv ==
  /\ store # NoContainer => AllFills(store)
  /\ e # Closed => AllFills(e.c)
FillsTyped == {"rename_fill", "mistyped_fill"} \cap Unusual = {}
FillKept == FillsTyped /\ FInv => FInv'

(* A variable's dataset after a call that leaves its dimensions            *)
LEMMA VariableKept ==
  ASSUME Inv, IsOpen, NEW varid \in DOMAIN e.vars, NEW old,
         old = e.c.datasets[e.vars[varid].dset],
         NEW d \in Dataset, d.dims = old.dims, SetDataset(varid, d),
         FillsTyped /\ DatasetFill(old) => DatasetFill(d)
  PROVE  Kept /\ FillKept
<1>1. e \in Handle /\ Follows(e) /\ e.c \in Container
  BY DEF Inv, IsOpen, Handle
<1>2. DOMAIN e.vars = 1 .. Len(e.vars)
  <2>1. e.vars \in Seq(Variable)
    BY <1>1 DEF Handle
  <2> QED
    BY <2>1, LenProperties
<1>3. PICK k \in 1 .. Len(e.c.datasets) : k = e.vars[varid].dset
  BY <1>1, <1>2 DEF Follows
<1>4. e' = [e EXCEPT !.c.datasets[k] = d] /\ UNCHANGED <<store, defining>>
  BY <1>3 DEF SetDataset
<1>5. d.dims = e.c.datasets[k].dims
  BY <1>3
<1>6. /\ Kept
      /\ Len(e'.c.datasets) = Len(e.c.datasets)
      /\ \A i \in 1 .. Len(e.c.datasets) :
           e'.c.datasets[i] = IF i = k THEN d ELSE e.c.datasets[i]
  BY <1>4, <1>5, DatasetKept
<1>7. FillsTyped /\ AllFills(e.c) => AllFills(e'.c)
  BY <1>3, <1>6 DEF AllFills
<1> QED
  BY <1>4, <1>6, <1>7 DEF FillKept, FInv, IsOpen

(* The dataset of a variable                                               *)
LEMMA VariableDataset ==
  ASSUME Inv, IsOpen, NEW varid \in DOMAIN e.vars
  PROVE  /\ e.c.datasets[e.vars[varid].dset] \in Dataset
         /\ e.c.datasets[e.vars[varid].dset].atts \in Seq(Att)
<1>1. e \in Handle /\ Follows(e) /\ e.c \in Container
  BY DEF Inv, IsOpen, Handle
<1>2. DOMAIN e.vars = 1 .. Len(e.vars)
  <2>1. e.vars \in Seq(Variable)
    BY <1>1 DEF Handle
  <2> QED
    BY <2>1, LenProperties
<1>3. e.vars[varid].dset \in 1 .. Len(e.c.datasets)
  BY <1>1, <1>2 DEF Follows
<1>4. e.c.datasets[e.vars[varid].dset] \in Dataset
  BY <1>1, <1>3, DatasetDims
<1> QED
  BY <1>4 DEF Dataset

(* ESDM_rename_var changes a name that no table has.                       *)
LEMMA RenameVarKept ==
  ASSUME Inv, NEW varid, NEW name \in VarNames, ESDM_rename_var(varid, name)
  PROVE  Kept /\ FillKept
<1>1. IsOpen /\ varid \in DOMAIN e.vars
  BY DEF ESDM_rename_var
<1>2. PICK old \in Dataset : old = e.c.datasets[e.vars[varid].dset]
  BY <1>1, VariableDataset
<1>3. PICK d : d = [old EXCEPT !.name = name]
  OBVIOUS
<1>4. d \in Dataset /\ d.dims = old.dims /\ d.atts = old.atts /\ d.fill = old.fill
  BY <1>3 DEF Dataset
<1>5. SetDataset(varid, d)
  BY <1>2, <1>3 DEF SetDataset, ESDM_rename_var
<1>6. DatasetFill(old) => DatasetFill(d)
  BY <1>4 DEF DatasetFill
<1> QED
  BY <1>1, <1>2, <1>4, <1>5, <1>6, VariableKept

(* ESDM_def_var_fill sets both or removes the attribute.                   *)
LEMMA DefVarFillKept ==
  ASSUME Inv, IsOpen, NEW varid \in DOMAIN e.vars,
         NEW value \in {Raw[m] : m \in Typed} \cup {Default}, FillAtt \in AttNames,
         ESDM_def_var_fill(varid, value)
  PROVE  Kept /\ FillKept
<1>1. PICK old \in Dataset : /\ old = e.c.datasets[e.vars[varid].dset]
                             /\ old.atts \in Seq(Att)
  BY VariableDataset
<1>2. CASE value = Default
  <2>1. PICK atts : atts = Unlinked(old.atts, FillAtt)
    OBVIOUS
  <2>2. atts \in Seq(Att) /\ (FillIs(old.atts, old.fill) => FillIs(atts, Default))
    BY <1>1, <2>1, UnlinkedIs
  <2>3. PICK d : d = [old EXCEPT !.fill = Default, !.atts = atts]
    OBVIOUS
  <2>4. d \in Dataset /\ d.dims = old.dims /\ d.atts = atts /\ d.fill = Default
    BY <2>2, <2>3 DEF Dataset
  <2>5. SetDataset(varid, d)
    BY <1>1, <1>2, <2>1, <2>3 DEF ESDM_def_var_fill
  <2>6. DatasetFill(old) => DatasetFill(d)
    BY <2>2, <2>4 DEF DatasetFill
  <2> QED
    BY <1>1, <2>4, <2>5, <2>6, VariableKept
<1>3. CASE value # Default
  <2>1. PICK atts : atts = Linked(old.atts, FillAtt, value)
    OBVIOUS
  <2>2. value \in Values
    BY <1>3, MemoryAssumption
  <2>3. atts \in Seq(Att) /\ (FillIs(old.atts, old.fill) => FillIs(atts, value))
    BY <1>1, <2>1, <2>2, LinkedIs
  <2>4. PICK d : d = [old EXCEPT !.fill = value, !.atts = atts]
    OBVIOUS
  <2>5. d \in Dataset /\ d.dims = old.dims /\ d.atts = atts /\ d.fill = value
    BY <2>2, <2>3, <2>4 DEF Dataset
  <2>6. SetDataset(varid, d)
    BY <1>1, <1>3, <2>1, <2>4 DEF ESDM_def_var_fill
  <2>7. DatasetFill(old) => DatasetFill(d)
    BY <2>3, <2>5 DEF DatasetFill
  <2> QED
    BY <1>1, <2>5, <2>6, <2>7, VariableKept
<1> QED
  BY <1>2, <1>3

(* ESDM_put_att sets the fill value with the attribute, and to the same    *)
(* value if what the client hands over is of the variable's type.          *)
LEMMA PutAttKept ==
  ASSUME Inv, IsOpen, NEW varid \in DOMAIN e.vars, NEW name \in AttNames,
         NEW m \in Memory, ESDM_put_att(varid, name, m)
  PROVE  Kept /\ FillKept
<1>1. PICK old \in Dataset : /\ old = e.c.datasets[e.vars[varid].dset]
                             /\ old.atts \in Seq(Att)
  BY VariableDataset
<1>2. PICK value \in Values, raw \in Values : value = Converted[m] /\ raw = Raw[m]
  BY MemoryAssumption
<1>3. PICK atts : atts = Linked(old.atts, name, value)
  OBVIOUS
<1>4. PICK fill : fill = IF name = FillAtt THEN raw ELSE old.fill
  OBVIOUS
<1>5. FillsTyped /\ name = FillAtt => raw = value
  BY <1>2, MemoryAssumption DEF ESDM_put_att, FillsTyped
<1>6. /\ atts \in Seq(Att)
      /\ FillIs(old.atts, old.fill)
           => FillIs(atts, IF name = FillAtt THEN value ELSE old.fill)
  BY <1>1, <1>2, <1>3, LinkedIs
<1>7. PICK d : d = [old EXCEPT !.fill = fill, !.atts = atts]
  OBVIOUS
<1>8. d \in Dataset /\ d.dims = old.dims /\ d.atts = atts /\ d.fill = fill
  BY <1>2, <1>4, <1>6, <1>7 DEF Dataset
<1>9. SetDataset(varid, d)
  BY <1>1, <1>2, <1>3, <1>4, <1>7 DEF ESDM_put_att, Dataset
<1>10. FillsTyped /\ DatasetFill(old) => DatasetFill(d)
  BY <1>4, <1>5, <1>6, <1>8 DEF DatasetFill
<1> QED
  BY <1>1, <1>8, <1>9, <1>10, VariableKept

(* ESDM_del_att                                                            *)
LEMMA DelAttKept ==
  ASSUME Inv, IsOpen, NEW varid \in DOMAIN e.vars, NEW name \in AttNames,
         ESDM_del_att(varid, name)
  PROVE  Kept /\ FillKept
<1>1. PICK old \in Dataset : /\ old = e.c.datasets[e.vars[varid].dset]
                             /\ old.atts \in Seq(Att)
  BY VariableDataset
<1>2. PICK atts : atts = Unlinked(old.atts, name)
  OBVIOUS
<1>3. atts \in Seq(Att) /\ (FillIs(old.atts, old.fill) => FillIs(atts, old.fill))
  BY <1>1, <1>2, UnlinkedIs
<1>4. PICK d : d = [old EXCEPT !.atts = atts]
  OBVIOUS
<1>5. d \in Dataset /\ d.dims = old.dims /\ d.atts = atts /\ d.fill = old.fill
  BY <1>3, <1>4 DEF Dataset
<1>6. SetDataset(varid, d)
  BY <1>1, <1>2, <1>4 DEF ESDM_del_att, Dataset
<1>7. DatasetFill(old) => DatasetFill(d)
  BY <1>3, <1>5 DEF DatasetFill
<1> QED
  BY <1>1, <1>5, <1>6, <1>7, VariableKept

(* ESDM_rename_att                                                         *)
LEMMA RenameAttKept ==
  ASSUME Inv, IsOpen, NEW varid \in DOMAIN e.vars, NEW name \in AttNames,
         NEW new \in AttNames, ESDM_rename_att(varid, name, new)
  PROVE  Kept /\ FillKept
<1>1. PICK old \in Dataset : /\ old = e.c.datasets[e.vars[varid].dset]
                             /\ old.atts \in Seq(Att)
  BY VariableDataset
<1>2. PICK atts \in AttsRenamed(old.atts, name, new) :
        SetDataset(varid, [old EXCEPT !.atts = atts])
  BY <1>1 DEF ESDM_rename_att
<1>3. /\ atts \in Seq(Att)
      /\ "rename_fill" \notin Unusual /\ FillIs(old.atts, old.fill) => FillIs(atts, old.fill)
  BY <1>1, <1>2, AttsRenamedIs
<1>4. PICK d : d = [old EXCEPT !.atts = atts]
  OBVIOUS
<1>5. d \in Dataset /\ d.dims = old.dims /\ d.atts = atts /\ d.fill = old.fill
  BY <1>3, <1>4 DEF Dataset
<1>6. SetDataset(varid, d)
  BY <1>2, <1>4
<1>7. FillsTyped /\ DatasetFill(old) => DatasetFill(d)
  BY <1>3, <1>5 DEF DatasetFill, FillsTyped
<1> QED
  BY <1>1, <1>5, <1>6, <1>7, VariableKept

(* The attributes of the dataset as a whole                                *)
LEMMA GlobalKept ==
  ASSUME Inv, IsOpen, NEW atts \in Seq(Att), SetGlobal(atts)
  PROVE  /\ Kept /\ FillKept /\ e' \in Handle /\ Follows(e')
         /\ e'.dimt = e.dimt /\ e'.c.atts = atts /\ e'.original_nc = e.original_nc
         /\ e'.c.datasets = e.c.datasets
<1>1. e \in Handle /\ Follows(e) /\ e.c \in Container
  BY DEF Inv, IsOpen, Handle
<1>2. PICK c : c = [e.c EXCEPT !.atts = atts]
  OBVIOUS
<1>3. c \in Container /\ c.datasets = e.c.datasets /\ c.nc_dims = e.c.nc_dims /\ c.atts = atts
  BY <1>1, <1>2 DEF Container
<1>4. e' = [e EXCEPT !.c = c] /\ UNCHANGED <<store, defining>>
  BY <1>1, <1>2 DEF SetGlobal, Handle, Container
<1>5. /\ e' \in Handle /\ e'.vars = e.vars /\ e'.dimt = e.dimt
      /\ e'.original_nc = e.original_nc /\ e'.c = c
  BY <1>1, <1>3, <1>4 DEF Handle
<1>6. Follows(e') /\ (Sized(e) => Sized(e'))
  BY <1>1, <1>3, <1>5 DEF Follows, Sized
<1>7. Kept
  BY <1>4, <1>5, <1>6, HandleKept DEF Inv, EInv, IsOpen
<1>8. AllFills(e.c) => AllFills(e'.c)
  BY <1>3, <1>5 DEF AllFills
<1>9. FillKept
  BY <1>4, <1>8 DEF FillKept, FInv, IsOpen
<1> QED
  BY <1>3, <1>5, <1>6, <1>7, <1>9

(* Every call about attributes                                             *)
LEMMA AttributesKept == Inv /\ IsOpen /\ Attributes => Kept /\ FillKept
<1> SUFFICES ASSUME Inv, IsOpen, Attributes
             PROVE  Kept /\ FillKept
  OBVIOUS
<1>1. CASE \E varid \in DOMAIN e.vars :
             \/ \E value \in {Raw[m] : m \in Typed} \cup {Default} :
                  FillAtt \in AttNames /\ ESDM_def_var_fill(varid, value)
             \/ \E name \in AttNames :
                  \/ ESDM_del_att(varid, name)
                  \/ \E new \in AttNames : ESDM_rename_att(varid, name, new)
                  \/ \E m \in Memory : ESDM_put_att(varid, name, m)
  BY <1>1, DefVarFillKept, DelAttKept, RenameAttKept, PutAttKept
<1>2. CASE \E name \in AttNames :
             \/ del_att_global(name)
             \/ \E new \in AttNames : rename_att_global(name, new)
             \/ \E m \in Memory : put_att_global(name, m)
  <2>1. PICK name \in AttNames :
             \/ del_att_global(name)
             \/ \E new \in AttNames : rename_att_global(name, new)
             \/ \E m \in Memory : put_att_global(name, m)
    BY <1>2
  <2>2. e.c.atts \in Seq(Att)
    BY DEF Inv, IsOpen, Handle, Container
  <2>3. CASE del_att_global(name)
    <3>1. PICK atts : atts = Unlinked(e.c.atts, name)
      OBVIOUS
    <3>2. atts \in Seq(Att) /\ SetGlobal(atts)
      BY <2>2, <2>3, <3>1, UnlinkedIs DEF del_att_global
    <3> QED
      BY <3>2, GlobalKept
  <2>4. CASE \E new \in AttNames : rename_att_global(name, new)
    <3>1. PICK new \in AttNames : rename_att_global(name, new)
      BY <2>4
    <3>2. PICK atts \in AttsRenamed(e.c.atts, name, new) : SetGlobal(atts)
      BY <3>1 DEF rename_att_global
    <3>3. atts \in Seq(Att)
      BY <2>2, <3>2, AttsRenamedIs
    <3> QED
      BY <3>2, <3>3, GlobalKept
  <2>5. CASE \E m \in Memory : put_att_global(name, m)
    <3>1. PICK value \in Values : SetGlobal(Linked(e.c.atts, name, value))
      BY <2>5, MemoryAssumption DEF put_att_global
    <3>2. PICK atts : atts = Linked(e.c.atts, name, value)
      OBVIOUS
    <3>3. atts \in Seq(Att) /\ SetGlobal(atts)
      BY <2>2, <3>1, <3>2, LinkedIs
    <3> QED
      BY <3>3, GlobalKept
  <2> QED
    BY <2>1, <2>3, <2>4, <2>5
<1> QED
  BY <1>1, <1>2 DEF Attributes

(* Opening, committing and defining leave the attributes of the datasets   *)
(* that are there, and a new one has none.                                 *)
LEMMA RestFillKept ==
  ASSUME Inv,
         \/ ESDM_create \/ ESDM_open \/ ESDM_close \/ ESDM_abort
         \/ ESDM_redef \/ ESDM__enddef \/ ESDM_sync
         \/ \E name \in DimNames, len \in Lengths : ESDM_def_dim(name, len)
         \/ \E name \in DimNames, dimid \in 1 .. MaxDims : ESDM_rename_dim(dimid, name)
         \/ \E name \in VarNames, rank \in 0 .. MaxRank :
              \E dimids \in [1 .. rank -> 1 .. MaxDims] : ESDM_def_var(name, dimids)
  PROVE  FillKept
<1> SUFFICES ASSUME FInv
             PROVE  FInv'
  BY DEF FillKept
<1>1. IsOpen => e \in Handle /\ Follows(e) /\ e.c \in Container /\ AllFills(e.c)
  BY DEF Inv, FInv, IsOpen, Handle
<1>2. CASE ESDM_create
  <2>1. e'.c.datasets = <<>> /\ UNCHANGED store
    BY <1>2 DEF ESDM_create, NewContainer
  <2>2. AllFills(e'.c)
    BY <2>1 DEF AllFills
  <2> QED
    BY <2>1, <2>2 DEF FInv
<1>3. CASE ESDM_open
  <2>1. store \in Container /\ AllFills(store) /\ UNCHANGED store /\ e' = Opened(store)
    BY <1>3 DEF ESDM_open, Inv, FInv, Fits
  <2>2. e'.c.datasets = store.datasets
    BY <2>1 DEF Opened, Container
  <2>3. AllFills(e'.c)
    BY <2>1, <2>2 DEF AllFills
  <2> QED
    BY <2>1, <2>3 DEF FInv
<1>4. CASE ESDM_close \/ ESDM__enddef \/ ESDM_sync
  <2>1. IsOpen /\ store' = Committed
    BY <1>4 DEF ESDM_close, ESDM__enddef, ESDM_sync
  <2>2. Committed.datasets = e.c.datasets
    BY <1>1, <2>1, CommittedIs
  <2>3. e' = Closed \/ e'.c.datasets = e.c.datasets
    <3>1. CASE ESDM_close
      BY <3>1 DEF ESDM_close
    <3>2. CASE ESDM__enddef
      <4>1. e' = [e EXCEPT !.c.nc_dims = {}]
        BY <3>2 DEF ESDM__enddef
      <4> QED
        BY <1>1, <2>1, <4>1 DEF Handle, Container
    <3>3. CASE ESDM_sync
      <4>1. PICK c : c = Committed
        OBVIOUS
      <4>2. e' = [e EXCEPT !.c = c]
        BY <3>3, <4>1 DEF ESDM_sync
      <4>3. e'.c = c
        BY <1>1, <2>1, <4>2 DEF Handle
      <4> QED
        BY <2>2, <4>1, <4>3
    <3> QED
      BY <1>4, <3>1, <3>2, <3>3
  <2>4. AllFills(store') /\ (e' # Closed => AllFills(e'.c))
    BY <1>1, <2>1, <2>2, <2>3 DEF AllFills
  <2> QED
    BY <2>4 DEF FInv
<1>5. CASE ESDM_abort \/ ESDM_redef
  BY <1>5 DEF FInv, ESDM_abort, ESDM_redef
<1>6. CASE \E name \in DimNames, len \in Lengths : ESDM_def_dim(name, len)
  <2>1. PICK name \in DimNames, len \in Lengths : ESDM_def_dim(name, len)
    BY <1>6
  <2>2. IsOpen /\ UNCHANGED store /\ e'.c = e.c
    <3>1. IsOpen /\ UNCHANGED store
      BY <2>1 DEF ESDM_def_dim
    <3>2. \/ e' = [e EXCEPT !.dimt[Find(e.dimt, name)].size = len]
          \/ e' = [e EXCEPT !.dimt = Append(@, [name |-> name, size |-> len])]
      BY <2>1 DEF ESDM_def_dim
    <3> QED
      BY <1>1, <3>1, <3>2 DEF Handle
  <2> QED
    BY <1>1, <2>2 DEF FInv
<1>7. CASE \E name \in DimNames, dimid \in 1 .. MaxDims : ESDM_rename_dim(dimid, name)
  <2>1. PICK name \in DimNames, dimid \in 1 .. MaxDims : ESDM_rename_dim(dimid, name)
    BY <1>7
  <2>2. PICK old : old = e.dimt[dimid].name
    OBVIOUS
  <2>3. /\ Len(e'.c.datasets) = Len(e.c.datasets)
        /\ \A i \in 1 .. Len(e.c.datasets) :
             e.c.datasets[i] \in Dataset
               /\ e'.c.datasets[i] = DimsRenamed(e.c.datasets[i], old, name)
    BY <2>1, <2>2, RenameDimStep
  <2>4. IsOpen /\ UNCHANGED store
    BY <2>1 DEF ESDM_rename_dim
  <2>5. ASSUME NEW i \in 1 .. Len(e.c.datasets)
        PROVE  DatasetFill(e'.c.datasets[i])
    <3>1. PICK d \in Dataset : /\ d = e.c.datasets[i] /\ DatasetFill(d)
                               /\ e'.c.datasets[i] = DimsRenamed(d, old, name)
      BY <1>1, <2>3, <2>4 DEF AllFills
    <3> QED
      BY <3>1, DimsRenamedIs DEF DatasetFill
  <2>6. AllFills(e'.c)
    BY <2>3, <2>5 DEF AllFills
  <2> QED
    BY <2>4, <2>6 DEF FInv
<1>8. CASE \E name \in VarNames, rank \in 0 .. MaxRank :
             \E dimids \in [1 .. rank -> 1 .. MaxDims] : ESDM_def_var(name, dimids)
  <2>1. PICK name \in VarNames, rank \in 0 .. MaxRank :
          \E dimids \in [1 .. rank -> 1 .. MaxDims] : ESDM_def_var(name, dimids)
    BY <1>8
  <2>2. PICK dimids \in [1 .. rank -> 1 .. MaxDims] : ESDM_def_var(name, dimids)
    BY <2>1
  <2>3. IsOpen /\ UNCHANGED store
    BY <2>2 DEF ESDM_def_var
  <2>4. PICK n \in Nat : n = Len(e.c.datasets)
    <3>1. e.c.datasets \in Seq(Dataset)
      BY <1>1, <2>3 DEF Container
    <3> QED
      BY <3>1, LenProperties
  <2>5. PICK d : d = [name |-> name, dims |-> [j \in 1 .. rank |-> e.dimt[dimids[j]]],
                      atts |-> <<>>, fill |-> Default]
    OBVIOUS
  <2>6. /\ Len(e'.c.datasets) = n + 1
        /\ \A i \in 1 .. n : e'.c.datasets[i] = e.c.datasets[i]
        /\ e'.c.datasets[n + 1] = d
    BY <2>2, <2>4, <2>5, DefVarStep
  <2>7. DatasetFill(d)
    <3>1. d.atts = <<>>
      BY <2>5
    <3> QED
      BY <3>1 DEF DatasetFill, FillIs
  <2>8. \A i \in 1 .. n + 1 : i = n + 1 \/ i \in 1 .. n
    OBVIOUS
  <2>9. AllFills(e'.c)
    BY <1>1, <2>3, <2>4, <2>6, <2>7, <2>8 DEF AllFills
  <2> QED
    BY <2>3, <2>9 DEF FInv
<1> QED
  BY <1>2, <1>3, <1>4, <1>5, <1>6, <1>7, <1>8

-----------------------------------------------------------------------------
(* The theorems *)

(* What the containers are that other programs have written: there are     *)
(* not more names of dimensions than the bound allows,                     *)
ForeignFit == \A c \in Foreign : Fits(c)
(* a name has one length (only such a container opens),                    *)
ForeignMatch == \A c \in Foreign : Matching(c)
(* and the fill value is that of the attribute, if there is one.           *)
ForeignFills == \A c \in Foreign : AllFills(c)

(* Every call keeps the invariants.                                        *)
LEMMA StepKept == Inv /\ [Next]_vars => Kept /\ FillKept
<1> SUFFICES ASSUME Inv, [Next]_vars
             PROVE  Kept /\ FillKept
  OBVIOUS
<1>1. CASE ESDM_create \/ ESDM_open \/ ESDM_close \/ ESDM_abort
             \/ ESDM_redef \/ ESDM__enddef \/ ESDM_sync
  BY <1>1, CreateKept, OpenKept, CommitsKept, RestKept, RestFillKept
<1>2. CASE \E name \in DimNames, len \in Lengths : ESDM_def_dim(name, len)
  BY <1>2, DefDimKept, RestFillKept
<1>3. CASE \E name \in DimNames, dimid \in 1 .. MaxDims : ESDM_rename_dim(dimid, name)
  BY <1>3, RenameDimKept, RestFillKept
<1>4. CASE \E name \in VarNames, varid \in 1 .. MaxVars : ESDM_rename_var(varid, name)
  BY <1>4, RenameVarKept
<1>5. CASE \E name \in VarNames, rank \in 0 .. MaxRank :
             \E dimids \in [1 .. rank -> 1 .. MaxDims] : ESDM_def_var(name, dimids)
  BY <1>5, DefVarKept, RestFillKept
<1>6. CASE IsOpen /\ Attributes
  BY <1>6, AttributesKept
<1>7. CASE UNCHANGED vars
  BY <1>7 DEF vars, Inv, EInv, SInv, FInv, Kept, FillKept
<1> QED
  BY <1>1, <1>2, <1>3, <1>4, <1>5, <1>6, <1>7 DEF Next

(* The tables follow the container in every state.                         *)
LEMMA AlwaysInv ==
  ASSUME ForeignFit
  PROVE  Spec => []Inv
<1>1. Init => Inv
  BY DEF Init, Inv, ForeignFit
<1>2. Inv /\ [Next]_vars => Inv'
  BY StepKept DEF Kept
<1> QED
  BY <1>1, <1>2, PTL DEF Spec

(* Types: the ids of a variable's dimensions lie in the table, and the     *)
(* table is no longer than the bound, whatever clients do: also when they  *)
(* define a dimension again with another length.                           *)
THEOREM TypeCorrect ==
  ASSUME ForeignFit
  PROVE  Spec => []TypeOK
<1>1. Inv => TypeOK
  <2> SUFFICES ASSUME Inv
               PROVE  TypeOK
    OBVIOUS
  <2>1. store # NoContainer => store \in Container
    BY DEF Inv, Fits
  <2>2. ASSUME IsOpen
        PROVE  /\ e.c \in Container /\ e.original_nc \in BOOLEAN
               /\ e.dimt \in Seq(Dimensions) /\ Len(e.dimt) <= MaxDims
               /\ \A i \in DOMAIN e.vars : e.vars[i].dimids \in Seq(DOMAIN e.dimt)
    <3>1. e \in Handle /\ Follows(e)
      BY <2>2 DEF Inv, IsOpen
    <3>2. /\ e.c \in Container /\ e.original_nc \in BOOLEAN
          /\ e.dimt \in Seq(Dimensions) /\ e.vars \in Seq(Variable)
      BY <3>1 DEF Handle
    <3>3. DOMAIN e.vars = 1 .. Len(e.vars) /\ DOMAIN e.dimt = 1 .. Len(e.dimt)
      BY <3>2, LenProperties
    <3>4. ASSUME NEW i \in 1 .. Len(e.vars)
          PROVE  e.vars[i].dimids \in Seq(DOMAIN e.dimt)
      <4>1. e.vars[i] \in Variable
        BY <3>2, ElementOfSeq
      <4>2. PICK ids \in Seq(Nat) : ids = e.vars[i].dimids
        BY <4>1 DEF Variable
      <4>3. PICK r \in Nat : r = Len(ids) /\ DOMAIN ids = 1 .. r
        BY LenProperties
      <4>4. \A j \in 1 .. r : ids[j] \in 1 .. Len(e.dimt)
        BY <3>1, <4>2, <4>3 DEF Follows, VarFollows
      <4>5. ids = [j \in 1 .. r |-> ids[j]]
        BY <4>3, SeqDef
      <4>6. ids \in [1 .. r -> DOMAIN e.dimt]
        BY <3>3, <4>4, <4>5
      <4>7. PICK D : D = DOMAIN e.dimt
        OBVIOUS
      <4>8. ids \in [1 .. r -> D]
        BY <4>6, <4>7
      <4>9. ids \in Seq(D)
        BY <4>8, SeqDef
      <4> QED
        BY <4>2, <4>7, <4>9
    <3> QED
      BY <3>1, <3>2, <3>3, <3>4 DEF Follows
  <2> QED
    BY <2>1, <2>2 DEF TypeOK, Inv
<1> QED
  BY <1>1, AlwaysInv, PTL

(* Lengths agree when clients do not define a dimension again with another *)
(* length.                                                                 *)
LEMMA AlwaysSized ==
  ASSUME ForeignFit, "redefine" \notin Unusual
  PROVE  Spec => [](Inv /\ EInv)
<1>1. Init => Inv /\ EInv
  BY DEF Init, Inv, EInv, ForeignFit
<1>2. Inv /\ EInv /\ [Next]_vars => (Inv /\ EInv)'
  BY StepKept DEF Kept
<1> QED
  BY <1>1, <1>2, PTL DEF Spec

(* The driver's tables describe the container: also after a container of   *)
(* another program was opened, a dimension renamed or a commit undone by   *)
(* ESDM_abort.                                                             *)
THEOREM TablesDescribe ==
  ASSUME ForeignFit, "redefine" \notin Unusual
  PROVE  Spec => []TablesAgree
<1>1. Inv /\ EInv => TablesAgree
  <2> SUFFICES ASSUME Inv, EInv, IsOpen
               PROVE  /\ DimNamesUnique
                      /\ Len(e.vars) = Len(e.c.datasets)
                      /\ \A i \in DOMAIN e.vars :
                           LET v == e.vars[i] IN
                           /\ v.dset = i
                           /\ Len(v.dimids) = Len(e.c.datasets[i].dims)
                           /\ \A j \in DOMAIN v.dimids :
                                /\ v.dimids[j] \in DOMAIN e.dimt
                                /\ e.dimt[v.dimids[j]] = e.c.datasets[i].dims[j]
    BY DEF TablesAgree
  <2>1. e \in Handle /\ Follows(e) /\ Sized(e)
    BY DEF Inv, EInv, IsOpen
  <2>2. e.c \in Container /\ e.dimt \in Seq(Dimensions) /\ e.vars \in Seq(Variable)
    BY <2>1 DEF Handle
  <2>3. DOMAIN e.vars = 1 .. Len(e.vars) /\ DOMAIN e.dimt = 1 .. Len(e.dimt)
    BY <2>2, LenProperties
  <2>4. DimNamesUnique
    BY <2>1, <2>3 DEF DimNamesUnique, Follows, UniqueNames
  <2>5. ASSUME NEW i \in 1 .. Len(e.vars)
        PROVE  /\ e.vars[i].dset = i
               /\ Len(e.vars[i].dimids) = Len(e.c.datasets[i].dims)
               /\ \A j \in DOMAIN e.vars[i].dimids :
                    /\ e.vars[i].dimids[j] \in DOMAIN e.dimt
                    /\ e.dimt[e.vars[i].dimids[j]] = e.c.datasets[i].dims[j]
    <3>1. PICK v \in Variable : v = e.vars[i]
      BY <2>2, ElementOfSeq
    <3>2. PICK dset \in Dataset : /\ dset = e.c.datasets[i]
                                  /\ \A j \in 1 .. Len(dset.dims) : dset.dims[j] \in Dimensions
      BY <2>1, <2>2, DatasetDims DEF Follows
    <3>3. v.dset = i /\ VarFollows(v, dset, e.dimt) /\ VarSized(v, dset, e.dimt)
      BY <2>1, <3>1, <3>2 DEF Follows, Sized
    <3>4. DOMAIN v.dimids = 1 .. Len(v.dimids)
      BY LenProperties DEF Variable
    <3>5. ASSUME NEW j \in 1 .. Len(v.dimids)
          PROVE  v.dimids[j] \in 1 .. Len(e.dimt) /\ e.dimt[v.dimids[j]] = dset.dims[j]
      <4>1. PICK k \in 1 .. Len(e.dimt) :
              /\ k = v.dimids[j] /\ e.dimt[k].name = dset.dims[j].name
              /\ e.dimt[k].size = dset.dims[j].size /\ j \in 1 .. Len(dset.dims)
        BY <3>3 DEF VarFollows, VarSized
      <4>2. e.dimt[k] \in Dimensions /\ dset.dims[j] \in Dimensions
        BY <2>2, <3>2, <4>1, ElementOfSeq
      <4> QED
        BY <4>1, <4>2 DEF Dimensions
    <3>6. Len(v.dimids) = Len(dset.dims)
      BY <3>3 DEF VarFollows
    <3> QED
      BY <2>3, <3>1, <3>2, <3>3, <3>4, <3>5, <3>6
  <2> QED
    BY <2>1, <2>3, <2>4, <2>5 DEF Follows
<1> QED
  BY <1>1, AlwaysSized, PTL

(* What the driver has committed it can open again.                        *)
THEOREM CommittedOpens ==
  ASSUME ForeignFit, ForeignMatch, "redefine" \notin Unusual
  PROVE  Spec => []ReopenAccepted
<1>1. Init => Inv /\ SInv
  BY DEF Init, Inv, EInv, SInv, ForeignFit, ForeignMatch
<1>2. Inv /\ SInv /\ [Next]_vars => (Inv /\ SInv)'
  BY StepKept DEF Kept
<1>3. SInv => ReopenAccepted
  BY DEF SInv, ReopenAccepted
<1> QED
  BY <1>1, <1>2, <1>3, PTL DEF Spec

(* The attribute _FillValue of a variable is its fill value, unless        *)
(* clients rename an attribute to _FillValue or put one from memory of     *)
(* another type than the variable's, which ESDM_put_att does not convert   *)
(* for ESDM.                                                               *)
THEOREM FillAttributeRight ==
  ASSUME ForeignFit, ForeignFills, {"rename_fill", "mistyped_fill"} \cap Unusual = {}
  PROVE  Spec => []FillAttrMatches
<1>1. Init => Inv /\ FInv
  BY DEF Init, Inv, FInv, ForeignFit, ForeignFills
<1>2. Inv /\ FInv /\ [Next]_vars => (Inv /\ FInv)'
  BY StepKept DEF Kept, FillKept, FillsTyped
<1>3. Inv /\ FInv => FillAttrMatches
  <2> SUFFICES ASSUME Inv, FInv, IsOpen, NEW i \in DOMAIN e.c.datasets,
                      NEW dset, dset = e.c.datasets[i], NEW k, k = Find(dset.atts, FillAtt),
                      k # 0
               PROVE  dset.atts[k].value = dset.fill
    BY DEF FillAttrMatches
  <2>1. e.c \in Container /\ AllFills(e.c)
    BY DEF Inv, FInv, IsOpen, Handle
  <2>2. i \in 1 .. Len(e.c.datasets)
    <3>1. e.c.datasets \in Seq(Dataset)
      BY <2>1 DEF Container
    <3> QED
      BY <3>1, LenProperties
  <2>3. DatasetFill(dset) /\ dset \in Dataset
    BY <2>1, <2>2, DatasetDims DEF AllFills
  <2>4. dset.atts \in Seq(Att)
    BY <2>3 DEF Dataset
  <2>5. k \in 1 .. Len(dset.atts) /\ dset.atts[k].name = FillAtt
    BY <2>4, FindIs
  <2> QED
    BY <2>3, <2>5 DEF DatasetFill, FillIs
<1> QED
  BY <1>1, <1>2, <1>3, PTL DEF Spec

-----------------------------------------------------------------------------
(* Lists of names and the functions they stand for *)

Names(t) == {t[k].name : k \in 1 .. Len(t)}
IsFcn(f) == f = [x \in DOMAIN f |-> f[x]]

(* Functions are equal when they have the same values.                     *)
LEMMA SameFcn ==
  ASSUME NEW f, NEW g, IsFcn(f), IsFcn(g), DOMAIN f = DOMAIN g,
         \A x \in DOMAIN f : f[x] = g[x]
  PROVE  f = g
BY DEF IsFcn

(* In a list without duplicates Find finds the entry.                      *)
LEMMA FindUnique ==
  ASSUME NEW S, NEW t \in Seq(S), UniqueNames(t), NEW k \in 1 .. Len(t)
  PROVE  Find(t, t[k].name) = k
<1>1. Find(t, t[k].name) # 0
  BY FindIs
<1>2. /\ Find(t, t[k].name) \in 1 .. Len(t)
      /\ t[Find(t, t[k].name)].name = t[k].name
  BY <1>1, FindIs
<1> QED
  BY <1>2 DEF UniqueNames

(* A list of attributes stands for one function.                           *)
LEMMA AsFunctionIs ==
  ASSUME NEW t \in Seq(Att), UniqueNames(t)
  PROVE  /\ IsFcn(AsFunction(t)) /\ DOMAIN AsFunction(t) = Names(t)
         /\ \A k \in 1 .. Len(t) : AsFunction(t)[t[k].name] = t[k].value
         /\ \A f : IsFcn(f) /\ DOMAIN f = Names(t)
                     /\ (\A k \in 1 .. Len(t) : f[t[k].name] = t[k].value)
              => AsFunction(t) = f
<1>1. DOMAIN t = 1 .. Len(t)
  BY LenProperties
<1>2. PICK g : g = [a \in Names(t) |-> t[Find(t, a)].value]
  OBVIOUS
<1>3. AsFunction(t) = g
  BY <1>1, <1>2 DEF AsFunction, Names
<1>4. IsFcn(g) /\ DOMAIN g = Names(t)
  BY <1>2 DEF IsFcn
<1>5. ASSUME NEW k \in 1 .. Len(t)
      PROVE  t[k].name \in Names(t) /\ g[t[k].name] = t[k].value
  <2>1. t[k].name \in Names(t)
    BY DEF Names
  <2>2. Find(t, t[k].name) = k
    BY FindUnique
  <2> QED
    BY <1>2, <2>1, <2>2
<1>6. ASSUME NEW f, IsFcn(f), DOMAIN f = Names(t),
             \A k \in 1 .. Len(t) : f[t[k].name] = t[k].value
      PROVE  g = f
  <2>1. \A x \in Names(t) : g[x] = f[x]
    BY <1>5, <1>6 DEF Names
  <2> QED
    BY <1>4, <1>6, <2>1, SameFcn
<1> QED
  BY <1>3, <1>4, <1>5, <1>6

(* So does the table of dimensions.                                        *)
LEMMA SizesIs ==
  ASSUME NEW t \in Seq(Dimensions), UniqueNames(t)
  PROVE  /\ IsFcn(Sizes(t)) /\ DOMAIN Sizes(t) = Names(t)
         /\ \A k \in 1 .. Len(t) : Sizes(t)[t[k].name] = t[k].size
         /\ \A f : IsFcn(f) /\ DOMAIN f = Names(t)
                     /\ (\A k \in 1 .. Len(t) : f[t[k].name] = t[k].size)
              => Sizes(t) = f
<1>1. DOMAIN t = 1 .. Len(t)
  BY LenProperties
<1>2. PICK g : g = [a \in Names(t) |-> t[Find(t, a)].size]
  OBVIOUS
<1>3. Sizes(t) = g
  BY <1>1, <1>2 DEF Sizes, Names
<1>4. IsFcn(g) /\ DOMAIN g = Names(t)
  BY <1>2 DEF IsFcn
<1>5. ASSUME NEW k \in 1 .. Len(t)
      PROVE  t[k].name \in Names(t) /\ g[t[k].name] = t[k].size
  <2>1. t[k].name \in Names(t)
    BY DEF Names
  <2>2. Find(t, t[k].name) = k
    BY FindUnique
  <2> QED
    BY <1>2, <2>1, <2>2
<1>6. ASSUME NEW f, IsFcn(f), DOMAIN f = Names(t),
             \A k \in 1 .. Len(t) : f[t[k].name] = t[k].size
      PROVE  g = f
  <2>1. \A x \in Names(t) : g[x] = f[x]
    BY <1>5, <1>6 DEF Names
  <2> QED
    BY <1>4, <1>6, <2>1, SameFcn
<1> QED
  BY <1>3, <1>4, <1>5, <1>6

With(f, x, v)    == [y \in DOMAIN f \cup {x} |-> IF y = x THEN v ELSE f[y]]
Without(f, x)    == [y \in DOMAIN f \ {x} |-> f[y]]
Renamed(f, x, y) == With(Without(f, x), y, f[x])

(* link_attribute puts a value.                                            *)
LEMMA LinkedMeans ==
  ASSUME NEW t \in Seq(Att), UniqueNames(t), NEW name \in AttNames, NEW value \in Values
  PROVE  /\ UniqueNames(Linked(t, name, value))
         /\ AsFunction(Linked(t, name, value)) = With(AsFunction(t), name, value)
<1>1. PICK k : k = Find(t, name)
  OBVIOUS
<1>2. PICK a \in Att : a = [name |-> name, value |-> value]
  BY DEF Att
<1>3. PICK l \in Nat : l = Len(t)
  BY LenProperties
<1>4. PICK r : r = Linked(t, name, value) /\ r \in Seq(Att)
  BY LinkedIs
<1>5. a.name = name /\ a.value = value
  BY <1>2
<1>6. PICK f : f = AsFunction(t)
  OBVIOUS
<1>7. DOMAIN f = Names(t) /\ \A i \in 1 .. l : f[t[i].name] = t[i].value
  BY <1>3, <1>6, AsFunctionIs
<1>8. PICK g : g = With(f, name, value)
  OBVIOUS
<1>9. /\ IsFcn(g) /\ DOMAIN g = Names(t) \cup {name} /\ g[name] = value
      /\ \A x \in Names(t) : x # name => g[x] = f[x]
  BY <1>7, <1>8 DEF With, IsFcn
<1>10. CASE k = 0
  <2>1. r = Append(t, a)
    BY <1>1, <1>2, <1>4, <1>10 DEF Linked
  <2>2. /\ Len(r) = l + 1 /\ r[l + 1] = a
        /\ \A i \in 1 .. l : r[i] = t[i]
    BY <1>3, <2>1, AppendedIs
  <2>3. \A i \in 1 .. l : t[i].name # name
    BY <1>1, <1>3, <1>10, FindIs
  <2>4. \A i \in 1 .. l + 1 : i = l + 1 \/ i \in 1 .. l
    OBVIOUS
  <2>5. UniqueNames(r)
    <3> SUFFICES ASSUME NEW i \in 1 .. l + 1, NEW j \in 1 .. l + 1, r[i].name = r[j].name
                 PROVE  i = j
      BY <2>2 DEF UniqueNames
    <3>1. CASE i \in 1 .. l /\ j \in 1 .. l
      BY <1>3, <2>2, <3>1 DEF UniqueNames
    <3>2. CASE i = l + 1 \/ j = l + 1
      BY <1>5, <2>2, <2>3, <2>4, <3>2
    <3> QED
      BY <2>4, <3>1, <3>2
  <2>6. DOMAIN g = Names(r)
    <3>1. \A i \in 1 .. l : i \in 1 .. l + 1
      OBVIOUS
    <3>2. l + 1 \in 1 .. l + 1
      OBVIOUS
    <3>3. Names(t) \cup {name} \subseteq Names(r)
      BY <1>3, <1>5, <2>2, <3>1, <3>2 DEF Names
    <3>4. Names(r) \subseteq Names(t) \cup {name}
      BY <1>3, <1>5, <2>2, <2>4 DEF Names
    <3> QED
      BY <1>9, <3>3, <3>4
  <2>7. ASSUME NEW i \in 1 .. l + 1
        PROVE  g[r[i].name] = r[i].value
    <3>1. CASE i \in 1 .. l
      <4>1. t[i].name \in Names(t) /\ t[i].name # name
        BY <1>3, <2>3, <3>1 DEF Names
      <4> QED
        BY <1>7, <1>9, <2>2, <3>1, <4>1
    <3>2. CASE i = l + 1
      BY <1>5, <1>9, <2>2, <3>2
    <3> QED
      BY <2>4, <3>1, <3>2
  <2>8. AsFunction(r) = g
    BY <1>4, <1>9, <2>2, <2>5, <2>6, <2>7, AsFunctionIs
  <2> QED
    BY <1>4, <1>6, <1>8, <2>5, <2>8
<1>11. CASE k # 0
  <2>1. r = [t EXCEPT ![k] = a]
    BY <1>1, <1>2, <1>4, <1>11 DEF Linked
  <2>2. k \in 1 .. l /\ t[k].name = name
    BY <1>1, <1>3, <1>11, FindIs
  <2>3. Len(r) = l /\ \A i \in 1 .. l : r[i] = IF i = k THEN a ELSE t[i]
    BY <1>3, <2>1, <2>2, ExceptIs
  <2>4. \A i \in 1 .. l : r[i].name = t[i].name
    BY <1>5, <2>2, <2>3
  <2>5. UniqueNames(r)
    BY <1>3, <2>3, <2>4 DEF UniqueNames
  <2>6. DOMAIN g = Names(r)
    <3>1. Names(r) = Names(t)
      BY <1>3, <2>3, <2>4 DEF Names
    <3>2. name \in Names(t)
      BY <1>3, <2>2 DEF Names
    <3> QED
      BY <1>9, <3>1, <3>2
  <2>7. ASSUME NEW i \in 1 .. l
        PROVE  g[r[i].name] = r[i].value
    <3>1. CASE i = k
      BY <1>5, <1>9, <2>3, <3>1
    <3>2. CASE i # k
      <4>1. t[i].name \in Names(t) /\ t[i].name # name
        BY <1>3, <2>2, <3>2 DEF Names, UniqueNames
      <4> QED
        BY <1>7, <1>9, <2>3, <3>2, <4>1
    <3> QED
      BY <3>1, <3>2
  <2>8. AsFunction(r) = g
    BY <1>4, <1>9, <2>3, <2>5, <2>6, <2>7, AsFunctionIs
  <2> QED
    BY <1>4, <1>6, <1>8, <2>5, <2>8
<1> QED
  BY <1>10, <1>11

(* Deleting an attribute takes its value.                                  *)
LEMMA UnlinkedMeans ==
  ASSUME NEW t \in Seq(Att), UniqueNames(t), NEW name
  PROVE  /\ UniqueNames(Unlinked(t, name))
         /\ AsFunction(Unlinked(t, name)) = Without(AsFunction(t), name)
<1>1. PICK k : k = Find(t, name)
  OBVIOUS
<1>2. PICK l \in Nat : l = Len(t)
  BY LenProperties
<1>3. PICK r : r = Unlinked(t, name) /\ r \in Seq(Att)
  BY UnlinkedIs
<1>4. PICK f : f = AsFunction(t)
  OBVIOUS
<1>5. IsFcn(f) /\ DOMAIN f = Names(t) /\ \A i \in 1 .. l : f[t[i].name] = t[i].value
  BY <1>2, <1>4, AsFunctionIs
<1>6. PICK g : g = Without(f, name)
  OBVIOUS
<1>7. /\ IsFcn(g) /\ DOMAIN g = Names(t) \ {name}
      /\ \A x \in Names(t) : x # name => g[x] = f[x]
  BY <1>5, <1>6 DEF Without, IsFcn
<1>8. CASE k = 0
  <2>1. r = t
    BY <1>1, <1>3, <1>8 DEF Unlinked
  <2>2. \A i \in 1 .. l : t[i].name # name
    BY <1>1, <1>2, <1>8, FindIs
  <2>3. name \notin Names(t)
    BY <1>2, <2>2 DEF Names
  <2>4. f = g
    BY <1>5, <1>7, <2>3, SameFcn
  <2> QED
    BY <1>3, <1>4, <1>6, <2>1, <2>4
<1>9. CASE k # 0
  <2>1. r = RemoveAt(t, k)
    BY <1>1, <1>3, <1>9 DEF Unlinked
  <2>2. k \in 1 .. l /\ t[k].name = name
    BY <1>1, <1>2, <1>9, FindIs
  <2>3. Len(r) = l - 1 /\ \A i \in 1 .. l - 1 : r[i] = IF i < k THEN t[i] ELSE t[i + 1]
    BY <1>2, <2>1, <2>2, RemovedIs
  <2>4. ASSUME NEW i \in 1 .. l - 1
        PROVE  \E j \in 1 .. l : j # k /\ r[i] = t[j] /\ j = IF i < k THEN i ELSE i + 1
    <3>1. CASE i < k
      <4>1. i \in 1 .. l /\ i # k
        BY <1>2, <2>2, <3>1
      <4> QED
        BY <2>3, <3>1, <4>1
    <3>2. CASE ~(i < k)
      <4>1. i + 1 \in 1 .. l /\ i + 1 # k
        BY <1>2, <2>2, <3>2
      <4> QED
        BY <2>3, <3>2, <4>1
    <3> QED
      BY <3>1, <3>2
  <2>5. ASSUME NEW j \in 1 .. l, j # k
        PROVE  \E i \in 1 .. l - 1 : r[i] = t[j]
    <3>1. CASE j < k
      <4>1. j \in 1 .. l - 1
        BY <1>2, <2>2, <3>1
      <4> QED
        BY <2>3, <3>1, <4>1
    <3>2. CASE ~(j < k)
      <4>1. PICK i \in 1 .. l - 1 : j = i + 1
        <5>1. j - 1 \in 1 .. l - 1 /\ j = j - 1 + 1
          BY <1>2, <2>2, <2>5, <3>2
        <5> QED
          BY <5>1
      <4>2. ~(i < k)
        BY <2>2, <2>5, <3>2, <4>1
      <4> QED
        BY <2>3, <4>1, <4>2
    <3> QED
      BY <3>1, <3>2
  <2>6. \A j \in 1 .. l : j # k => t[j].name # name
    BY <1>2, <2>2 DEF UniqueNames
  <2>7. UniqueNames(r)
    <3> SUFFICES ASSUME NEW i \in 1 .. l - 1, NEW j \in 1 .. l - 1, r[i].name = r[j].name
                 PROVE  i = j
      BY <2>3 DEF UniqueNames
    <3>1. PICK a \in 1 .. l : r[i] = t[a] /\ a = IF i < k THEN i ELSE i + 1
      BY <2>4
    <3>2. PICK b \in 1 .. l : r[j] = t[b] /\ b = IF j < k THEN j ELSE j + 1
      BY <2>4
    <3>3. a = b
      BY <1>2, <3>1, <3>2 DEF UniqueNames
    <3>4. i \in Nat /\ j \in Nat /\ k \in Nat
      BY <2>2
    <3> QED
      BY <3>1, <3>2, <3>3, <3>4
  <2>8. DOMAIN g = Names(r)
    <3>1. Names(t) \ {name} \subseteq Names(r)
      <4> SUFFICES ASSUME NEW j \in 1 .. l, t[j].name # name
                   PROVE  t[j].name \in Names(r)
        BY <1>2 DEF Names
      <4>1. PICK i \in 1 .. l - 1 : r[i] = t[j]
        BY <2>2, <2>5
      <4> QED
        BY <2>3, <4>1 DEF Names
    <3>2. Names(r) \subseteq Names(t) \ {name}
      <4> SUFFICES ASSUME NEW i \in 1 .. l - 1
                   PROVE  r[i].name \in Names(t) \ {name}
        BY <2>3 DEF Names
      <4>1. PICK j \in 1 .. l : j # k /\ r[i] = t[j]
        BY <2>4
      <4> QED
        BY <1>2, <2>6, <4>1 DEF Names
    <3> QED
      BY <1>7, <3>1, <3>2
  <2>9. ASSUME NEW i \in 1 .. l - 1
        PROVE  g[r[i].name] = r[i].value
    <3>1. PICK j \in 1 .. l : j # k /\ r[i] = t[j]
      BY <2>4
    <3>2. t[j].name \in Names(t) /\ t[j].name # name
      BY <1>2, <2>6, <3>1 DEF Names
    <3> QED
      BY <1>5, <1>7, <3>1, <3>2
  <2>10. AsFunction(r) = g
    BY <1>3, <1>7, <2>3, <2>7, <2>8, <2>9, AsFunctionIs
  <2> QED
    BY <1>3, <1>4, <1>6, <2>7, <2>10
<1> QED
  BY <1>8, <1>9

(* A list in which one entry has a new name: what is kept is stated for    *)
(* the names alone.                                                        *)
NamesChange(t, r, k, new) ==
  /\ Len(r) = Len(t) /\ k \in 1 .. Len(t) /\ r[k].name = new
  /\ \A i \in 1 .. Len(t) : i # k => r[i].name = t[i].name
LEMMA NewName ==
  ASSUME NEW S, NEW t \in Seq(S), UniqueNames(t), NEW r, NEW k, NEW new,
         NamesChange(t, r, k, new), \A i \in 1 .. Len(t) : t[i].name # new
  PROVE  /\ UniqueNames(r) /\ new \notin Names(t) /\ t[k].name \in Names(t)
         /\ Names(r) = (Names(t) \ {t[k].name}) \cup {new}
         /\ \A i \in 1 .. Len(t) : i # k => t[i].name # t[k].name
<1>1. PICK l \in Nat : l = Len(t) /\ l = Len(r) /\ k \in 1 .. l
  BY LenProperties DEF NamesChange
<1>2. r[k].name = new /\ \A i \in 1 .. l : i # k => r[i].name = t[i].name
  BY <1>1 DEF NamesChange
<1>3. \A i \in 1 .. l : i # k => t[i].name # t[k].name
  BY <1>1 DEF UniqueNames
<1>4. UniqueNames(r)
  <2> SUFFICES ASSUME NEW i \in 1 .. l, NEW j \in 1 .. l, r[i].name = r[j].name
               PROVE  i = j
    BY <1>1 DEF UniqueNames
  <2>1. CASE i = k \/ j = k
    BY <1>1, <1>2, <2>1
  <2>2. CASE i # k /\ j # k
    BY <1>1, <1>2, <2>2 DEF UniqueNames
  <2> QED
    BY <2>1, <2>2
<1>5. Names(r) \subseteq (Names(t) \ {t[k].name}) \cup {new}
  <2> SUFFICES ASSUME NEW i \in 1 .. l
               PROVE  r[i].name \in (Names(t) \ {t[k].name}) \cup {new}
    BY <1>1 DEF Names
  <2>1. CASE i = k
    BY <1>2, <2>1
  <2>2. CASE i # k
    BY <1>1, <1>2, <1>3, <2>2 DEF Names
  <2> QED
    BY <2>1, <2>2
<1>6. (Names(t) \ {t[k].name}) \cup {new} \subseteq Names(r)
  <2>1. new \in Names(r)
    BY <1>1, <1>2 DEF Names
  <2>2. ASSUME NEW i \in 1 .. l, t[i].name # t[k].name
        PROVE  t[i].name \in Names(r)
    <3>1. i # k
      BY <2>2
    <3> QED
      BY <1>1, <1>2, <3>1 DEF Names
  <2> QED
    BY <1>1, <2>1, <2>2 DEF Names
<1>7. new \notin Names(t) /\ t[k].name \in Names(t)
  BY <1>1 DEF Names
<1> QED
  BY <1>1, <1>3, <1>4, <1>5, <1>6, <1>7

(* What Renamed is at each name                                            *)
IsRenamed(g, f, old, new) ==
  /\ IsFcn(g) /\ DOMAIN g = (DOMAIN f \ {old}) \cup {new} /\ g[new] = f[old]
  /\ \A x \in DOMAIN f : x # old => g[x] = f[x]
LEMMA RenamedFcn ==
  ASSUME NEW f, NEW old, old \in DOMAIN f, NEW new, new \notin DOMAIN f
  PROVE  IsRenamed(Renamed(f, old, new), f, old, new)
<1>1. PICK h : h = Without(f, old)
  OBVIOUS
<1>2. DOMAIN h = DOMAIN f \ {old} /\ \A x \in DOMAIN h : h[x] = f[x]
  BY <1>1 DEF Without
<1>3. PICK g : g = With(h, new, f[old])
  OBVIOUS
<1>4. /\ IsFcn(g) /\ DOMAIN g = DOMAIN h \cup {new} /\ g[new] = f[old]
      /\ \A x \in DOMAIN h : x # new => g[x] = h[x]
  BY <1>3 DEF With, IsFcn
<1>5. \A x \in DOMAIN f : x # new
  OBVIOUS
<1>6. Renamed(f, old, new) = g
  BY <1>1, <1>3 DEF Renamed
<1> QED
  BY <1>2, <1>4, <1>5, <1>6 DEF IsRenamed

(* Renaming an attribute to a name that is not there                       *)
LEMMA AttsRenamedMeans ==
  ASSUME NEW t \in Seq(Att), UniqueNames(t), NEW name, NEW new \in AttNames,
         NEW r \in AttsRenamed(t, name, new), "taken" \notin Unusual
  PROVE  /\ UniqueNames(r)
         /\ \E old \in AttNames :
              /\ old \in DOMAIN AsFunction(t) /\ new \notin DOMAIN AsFunction(t)
              /\ AsFunction(r) = Renamed(AsFunction(t), old, new)
<1>1. PICK l \in Nat : l = Len(t) /\ DOMAIN t = 1 .. l
  BY LenProperties
<1>2. PICK k \in 1 .. l : r = [t EXCEPT ![k].name = new] /\ Find(t, new) = 0
  BY <1>1 DEF AttsRenamed
<1>3. t[k] \in Att
  BY <1>1, ElementOfSeq
<1>4. PICK a : a = [t[k] EXCEPT !.name = new]
  OBVIOUS
<1>5. a \in Att /\ a.name = new /\ a.value = t[k].value /\ t[k].name \in AttNames
  BY <1>3, <1>4 DEF Att
<1>6. r = [t EXCEPT ![k] = a]
  BY <1>2, <1>4
<1>7. /\ r \in Seq(Att) /\ Len(r) = l
      /\ \A i \in 1 .. l : r[i] = IF i = k THEN a ELSE t[i]
  BY <1>1, <1>5, <1>6, ExceptIs
<1>8. \A i \in 1 .. l : t[i].name # new
  BY <1>1, <1>2, FindIs
<1>9. NamesChange(t, r, k, new)
  BY <1>1, <1>5, <1>7 DEF NamesChange
<1>10. /\ UniqueNames(r) /\ new \notin Names(t) /\ t[k].name \in Names(t)
       /\ Names(r) = (Names(t) \ {t[k].name}) \cup {new}
       /\ \A i \in 1 .. l : i # k => t[i].name # t[k].name
  BY <1>1, <1>8, <1>9, NewName
<1>11. PICK f : f = AsFunction(t)
  OBVIOUS
<1>12. IsFcn(f) /\ DOMAIN f = Names(t) /\ \A i \in 1 .. l : f[t[i].name] = t[i].value
  BY <1>1, <1>11, AsFunctionIs
<1>13. PICK g : g = Renamed(f, t[k].name, new)
  OBVIOUS
<1>14. /\ IsFcn(g) /\ DOMAIN g = Names(r) /\ g[new] = t[k].value
       /\ \A x \in Names(t) : x # t[k].name => g[x] = f[x]
  <2>1. PICK old \in DOMAIN f : old = t[k].name
    BY <1>10, <1>12
  <2>2. new \notin DOMAIN f
    BY <1>10, <1>12
  <2>3. IsRenamed(Renamed(f, old, new), f, old, new)
    BY <2>2, RenamedFcn, Zenon
  <2> QED
    BY <1>1, <1>10, <1>12, <1>13, <2>1, <2>3 DEF IsRenamed
<1>15. ASSUME NEW i \in 1 .. l
       PROVE  g[r[i].name] = r[i].value
  <2>1. CASE i = k
    BY <1>5, <1>7, <1>14, <2>1
  <2>2. CASE i # k
    <3>1. t[i].name \in Names(t)
      BY <1>1 DEF Names
    <3> QED
      BY <1>7, <1>10, <1>12, <1>14, <2>2, <3>1
  <2> QED
    BY <2>1, <2>2
<1>16. AsFunction(r) = g
  BY <1>7, <1>10, <1>14, <1>15, AsFunctionIs
<1> QED
  BY <1>5, <1>10, <1>11, <1>12, <1>13, <1>16

(* Renaming a dimension                                                    *)
TableRenamed(t, r, k, new) ==
  /\ Len(r) = Len(t)
  /\ \A i \in 1 .. Len(t) : r[i] = IF i = k THEN [t[i] EXCEPT !.name = new] ELSE t[i]
LEMMA SizesRenamed ==
  ASSUME NEW t \in Seq(Dimensions), UniqueNames(t), NEW k \in 1 .. Len(t),
         NEW new, Find(t, new) = 0, NEW r \in Seq(Dimensions), TableRenamed(t, r, k, new)
  PROVE  /\ t[k].name \in DOMAIN Sizes(t) /\ new \notin DOMAIN Sizes(t)
         /\ Sizes(r) = Renamed(Sizes(t), t[k].name, new)
<1>1. /\ Len(r) = Len(t)
      /\ \A i \in 1 .. Len(t) : r[i] = IF i = k THEN [t[i] EXCEPT !.name = new] ELSE t[i]
  BY DEF TableRenamed
<1>2. PICK l \in Nat : l = Len(t)
  BY LenProperties
<1>3. t[k] \in Dimensions
  BY ElementOfSeq
<1>4. /\ r[k].name = new /\ r[k].size = t[k].size
      /\ \A i \in 1 .. l : i # k => r[i] = t[i]
  BY <1>1, <1>2, <1>3 DEF Dimensions
<1>5. \A i \in 1 .. l : t[i].name # new
  BY <1>2, FindIs
<1>6. NamesChange(t, r, k, new)
  BY <1>1, <1>2, <1>4 DEF NamesChange
<1>7. /\ UniqueNames(r) /\ new \notin Names(t) /\ t[k].name \in Names(t)
      /\ Names(r) = (Names(t) \ {t[k].name}) \cup {new}
      /\ \A i \in 1 .. l : i # k => t[i].name # t[k].name
  BY <1>2, <1>5, <1>6, NewName
<1>8. PICK f : f = Sizes(t)
  OBVIOUS
<1>9. IsFcn(f) /\ DOMAIN f = Names(t) /\ \A i \in 1 .. l : f[t[i].name] = t[i].size
  BY <1>2, <1>8, SizesIs
<1>10. PICK g : g = Renamed(f, t[k].name, new)
  OBVIOUS
<1>11. /\ IsFcn(g) /\ DOMAIN g = Names(r) /\ g[new] = t[k].size
       /\ \A x \in Names(t) : x # t[k].name => g[x] = f[x]
  <2>1. PICK old \in DOMAIN f : old = t[k].name
    BY <1>7, <1>9
  <2>2. f[old] = t[k].size
    BY <1>2, <1>9, <2>1
  <2>3. new \notin DOMAIN f
    BY <1>7, <1>9
  <2>4. IsRenamed(Renamed(f, old, new), f, old, new)
    BY <2>3, RenamedFcn, Zenon
  <2> QED
    BY <1>7, <1>9, <1>10, <2>1, <2>2, <2>4 DEF IsRenamed
<1>12. ASSUME NEW i \in 1 .. l
       PROVE  g[r[i].name] = r[i].size
  <2>1. CASE i = k
    BY <1>4, <1>11, <2>1
  <2>2. CASE i # k
    <3>1. t[i].name \in Names(t)
      BY <1>2 DEF Names
    <3> QED
      BY <1>2, <1>4, <1>7, <1>9, <1>11, <2>2, <3>1
  <2> QED
    BY <2>1, <2>2
<1>13. Sizes(r) = g
  BY <1>1, <1>2, <1>7, <1>11, <1>12, SizesIs
<1> QED
  BY <1>7, <1>8, <1>9, <1>10, <1>13

(* Defining one                                                            *)
LEMMA SizesAppended ==
  ASSUME NEW t \in Seq(Dimensions), UniqueNames(t), NEW d \in Dimensions,
         Find(t, d.name) = 0, UniqueNames(Append(t, d))
  PROVE  /\ d.name \notin DOMAIN Sizes(t)
         /\ Sizes(Append(t, d)) = With(Sizes(t), d.name, d.size)
<1>1. PICK l \in Nat : l = Len(t)
  BY LenProperties
<1>2. PICK r : r = Append(t, d)
  OBVIOUS
<1>3. /\ r \in Seq(Dimensions) /\ Len(r) = l + 1 /\ r[l + 1] = d
      /\ \A i \in 1 .. l : r[i] = t[i]
  BY <1>1, <1>2, AppendedIs
<1>4. \A i \in 1 .. l : t[i].name # d.name
  BY <1>1, FindIs
<1>5. \A i \in 1 .. l + 1 : i = l + 1 \/ i \in 1 .. l
  OBVIOUS
<1>6. PICK f : f = Sizes(t)
  OBVIOUS
<1>7. IsFcn(f) /\ DOMAIN f = Names(t) /\ \A i \in 1 .. l : f[t[i].name] = t[i].size
  BY <1>1, <1>6, SizesIs
<1>8. PICK g : g = With(f, d.name, d.size)
  OBVIOUS
<1>9. /\ IsFcn(g) /\ DOMAIN g = Names(t) \cup {d.name} /\ g[d.name] = d.size
      /\ \A x \in Names(t) : x # d.name => g[x] = f[x]
  BY <1>7, <1>8 DEF With, IsFcn
<1>10. DOMAIN g = Names(r)
  <2>1. \A i \in 1 .. l : i \in 1 .. l + 1
    OBVIOUS
  <2>2. l + 1 \in 1 .. l + 1
    OBVIOUS
  <2>3. Names(t) \cup {d.name} \subseteq Names(r)
    BY <1>1, <1>3, <2>1, <2>2 DEF Names
  <2>4. Names(r) \subseteq Names(t) \cup {d.name}
    BY <1>1, <1>3, <1>5 DEF Names
  <2> QED
    BY <1>9, <2>3, <2>4
<1>11. ASSUME NEW i \in 1 .. l + 1
       PROVE  g[r[i].name] = r[i].size
  <2>1. CASE i \in 1 .. l
    <3>1. t[i].name \in Names(t) /\ t[i].name # d.name
      BY <1>1, <1>4, <2>1 DEF Names
    <3> QED
      BY <1>3, <1>7, <1>9, <2>1, <3>1
  <2>2. CASE i = l + 1
    BY <1>3, <1>9, <2>2
  <2> QED
    BY <1>5, <2>1, <2>2
<1>12. Sizes(r) = g
  BY <1>2, <1>3, <1>9, <1>10, <1>11, SizesIs
<1>13. d.name \notin Names(t)
  BY <1>1, <1>4 DEF Names
<1> QED
  BY <1>2, <1>6, <1>7, <1>8, <1>12, <1>13

-----------------------------------------------------------------------------
(* What an open dataset means *)

DatasetMeaning(d) ==
  [name |-> d.name, shape |-> [j \in 1 .. Len(d.dims) |-> d.dims[j].name],
   atts |-> AsFunction(d.atts), fill |-> d.fill]
VarsOf(h) == [i \in 1 .. Len(h.c.datasets) |-> DatasetMeaning(h.c.datasets[i])]

(* The meaning does not depend on ids.                                     *)
LEMMA MeaningIs ==
  ASSUME NEW h \in Handle, Follows(h)
  PROVE  Meaning(h) = [dims |-> Sizes(h.dimt), vars |-> VarsOf(h), atts |-> AsFunction(h.c.atts)]
<1>1. h.vars \in Seq(Variable) /\ h.c \in Container
  BY DEF Handle
<1>2. PICK n \in Nat : n = Len(h.vars) /\ n = Len(h.c.datasets) /\ DOMAIN h.vars = 1 .. n
  BY <1>1, LenProperties DEF Follows
<1>3. ASSUME NEW i \in 1 .. n
      PROVE  VarMeaning(h.vars[i], h.c.datasets[h.vars[i].dset], h.dimt)
               = DatasetMeaning(h.c.datasets[i])
  <2>1. PICK v \in Variable : v = h.vars[i]
    BY <1>1, <1>2, ElementOfSeq
  <2>2. PICK d : d = h.c.datasets[i] /\ v.dset = i /\ VarFollows(v, d, h.dimt)
    BY <1>2, <2>1 DEF Follows
  <2>3. DOMAIN v.dimids = 1 .. Len(d.dims)
    BY <2>2, LenProperties DEF Variable, VarFollows
  <2>4. \A j \in 1 .. Len(d.dims) : h.dimt[v.dimids[j]].name = d.dims[j].name
    BY <2>2 DEF VarFollows
  <2>5. [j \in DOMAIN v.dimids |-> h.dimt[v.dimids[j]].name]
          = [j \in 1 .. Len(d.dims) |-> d.dims[j].name]
    BY <2>3, <2>4
  <2> QED
    BY <2>1, <2>2, <2>5 DEF VarMeaning, DatasetMeaning
<1>4. [i \in DOMAIN h.vars |-> VarMeaning(h.vars[i], h.c.datasets[h.vars[i].dset], h.dimt)]
        = VarsOf(h)
  BY <1>2, <1>3 DEF VarsOf
<1> QED
  BY <1>4 DEF Meaning

(* A handle is open, a container exists.                                   *)
LEMMA OpenOrClosed ==
  /\ \A h \in Handle : h # Closed /\ \A c : CurrentIn(c, h) = Meaning(h)
  /\ \A c \in Container : c # NoContainer /\ SavedIn(c) = Meaning(Opened(c))
<1>1. ASSUME NEW h \in Handle
      PROVE  h # Closed
  <2>1. "dimt" \in DOMAIN h
    BY DEF Handle
  <2>2. "dimt" \notin DOMAIN Closed
    BY DEF Closed
  <2> QED
    BY <2>1, <2>2
<1>2. ASSUME NEW c \in Container
      PROVE  c # NoContainer
  <2>1. c.exists = TRUE
    BY DEF Container
  <2>2. NoContainer.exists = FALSE
    BY DEF NoContainer
  <2> QED
    BY <2>1, <2>2
<1>3. ASSUME NEW c \in Container
      PROVE  (CHOOSE m \in {Meaning(h) : h \in {Opened(c)}} : TRUE) = Meaning(Opened(c))
  <2>1. PICK m : m = Meaning(Opened(c))
    OBVIOUS
  <2>2. {Meaning(h) : h \in {Opened(c)}} = {m}
    BY <2>1
  <2> QED
    BY <2>1, <2>2
<1> QED
  BY <1>1, <1>2, <1>3 DEF CurrentIn, SavedIn

(* Committing and opening lose nothing.                                    *)
LEMMA CommitMeans ==
  ASSUME e \in Handle, Follows(e), Sized(e), e.original_nc
  PROVE  Committed \in Container /\ Meaning(Opened(Committed)) = Meaning(e)
<1>1. PICK c : /\ c = Committed /\ Fits(c) /\ c.datasets = e.c.datasets
               /\ c.atts = e.c.atts /\ c.nc_dims = {e.dimt} /\ Matching(c)
  BY CommittedIs
<1>2. PICK h : h = Opened(c) /\ h \in Handle /\ Follows(h)
  BY <1>1, OpenedIs
<1>3. c \in Container /\ e.dimt \in Seq(Dimensions) /\ UniqueNames(e.dimt) /\ e.c \in Container
  BY <1>1 DEF Fits, Handle, Follows
<1>4. PICK t : t = DimTable(Occurrences(c) \o Stored(c))
  OBVIOUS
<1>5. h.dimt = t /\ h.c.datasets = c.datasets /\ h.c.atts = c.atts
  BY <1>2, <1>3, <1>4 DEF Opened, Container
<1>6. Stored(c) = e.dimt
  BY <1>1 DEF Stored
<1>7. /\ t \in Seq(Dimensions) /\ UniqueNames(t)
      /\ \A k \in 1 .. Len(t) : t[k] \in DimsOf(c) \cup Elements(e.dimt)
      /\ \A d \in Elements(e.dimt) : \E k \in 1 .. Len(t) : t[k].name = d.name
  BY <1>1, <1>4, <1>6, OpenedTable
<1>8. DimsOf(c) = DimsOf(e.c)
  BY <1>1 DEF DimsOf
<1>9. ASSUME NEW k \in 1 .. Len(t)
      PROVE  \E i \in 1 .. Len(e.dimt) : t[k] = e.dimt[i]
  <2>1. CASE t[k] \in DimsOf(c)
    BY <1>8, <2>1, DimsInTable
  <2>2. CASE t[k] \in Elements(e.dimt)
    BY <2>2 DEF Elements
  <2> QED
    BY <1>7, <2>1, <2>2
<1>10. PICK f : f = Sizes(e.dimt)
  OBVIOUS
<1>11. IsFcn(f) /\ DOMAIN f = Names(e.dimt) /\ \A i \in 1 .. Len(e.dimt) : f[e.dimt[i].name] = e.dimt[i].size
  BY <1>3, <1>10, SizesIs
<1>12. Names(t) = Names(e.dimt)
  <2>1. \A i \in 1 .. Len(e.dimt) : e.dimt[i] \in Elements(e.dimt)
    BY DEF Elements
  <2>2. Names(e.dimt) \subseteq Names(t)
    BY <1>7, <2>1 DEF Names
  <2>3. Names(t) \subseteq Names(e.dimt)
    BY <1>9 DEF Names
  <2> QED
    BY <2>2, <2>3
<1>13. \A k \in 1 .. Len(t) : f[t[k].name] = t[k].size
  BY <1>9, <1>11
<1>14. Sizes(t) = f
  BY <1>7, <1>11, <1>12, <1>13, SizesIs
<1>15. VarsOf(h) = VarsOf(e)
  BY <1>1, <1>5 DEF VarsOf
<1>16. Meaning(h) = [dims |-> Sizes(h.dimt), vars |-> VarsOf(h), atts |-> AsFunction(h.c.atts)]
  BY <1>2, MeaningIs
<1>17. Meaning(e) = [dims |-> Sizes(e.dimt), vars |-> VarsOf(e), atts |-> AsFunction(e.c.atts)]
  BY MeaningIs
<1> QED
  BY <1>1, <1>2, <1>3, <1>5, <1>10, <1>14, <1>15, <1>16, <1>17

-----------------------------------------------------------------------------
(* Every step of the driver is a step of the netCDF dataset *)

(* No name of an attribute is there twice: clients do not rename one to    *)
(* a name that is taken.                                                   *)
AttsUnique(c) ==
  /\ UniqueNames(c.atts)
  /\ \A i \in 1 .. Len(c.datasets) : UniqueNames(c.datasets[i].atts)
UInv ==
  /\ store # NoContainer => AttsUnique(store)
  /\ e # Closed => AttsUnique(e.c)

(* The container was written by netCDF: it keeps dimensions that no        *)
(* variable has.                                                           *)
OInv ==
  /\ store # NoContainer => store.nc_dims # {}
  /\ e # Closed => e.original_nc

Mapped == ds = CurrentIn(store, e) /\ saved = SavedIn(store)

(* What a dataset means is not that there is none.                         *)
AbsentIsNone == \A d, v, a : Absent # [dims |-> d, vars |-> v, atts |-> a]

RInv == Inv /\ EInv /\ UInv /\ OInv /\ Mapped
Implements ==
  /\ UInv' /\ OInv'
  /\ AbstractDataset!Next \/ UNCHANGED <<ds, saved>>

(* A change of the open dataset: what ds is before and after               *)
LEMMA ChangeMeans ==
  ASSUME RInv, AbsentIsNone, Mapped', IsOpen, UNCHANGED store, e' \in Handle, Follows(e')
  PROVE  /\ ds = [dims |-> Sizes(e.dimt), vars |-> VarsOf(e), atts |-> AsFunction(e.c.atts)]
         /\ ds' = [dims |-> Sizes(e'.dimt), vars |-> VarsOf(e'), atts |-> AsFunction(e'.c.atts)]
         /\ UNCHANGED saved /\ ds # Absent
<1>1. e \in Handle /\ Follows(e)
  BY DEF RInv, Inv, IsOpen
<1>2. ds = Meaning(e) /\ ds' = Meaning(e')
  BY <1>1, OpenOrClosed DEF RInv, Mapped
<1>3. UNCHANGED saved
  BY DEF RInv, Mapped
<1> QED
  BY <1>1, <1>2, <1>3, MeaningIs DEF AbsentIsNone

(* When the driver changes no attributes nor the origin                    *)
LEMMA OpenInvs ==
  ASSUME RInv, IsOpen, UNCHANGED store, AttsUnique(e'.c), e'.original_nc
  PROVE  UInv' /\ OInv'
BY DEF RInv, UInv, OInv, IsOpen

(* ESDM_create                                                             *)
LEMMA CreateMeans ==
  ASSUME RInv, AbsentIsNone, Mapped', ESDM_create, Inv'
  PROVE  Implements
<1>1. /\ e' = [c |-> NewContainer, original_nc |-> TRUE, dimt |-> <<>>, vars |-> <<>>]
      /\ store = NoContainer /\ e = Closed /\ UNCHANGED store
  BY DEF ESDM_create, IsOpen
<1>2. e' # Closed
  <2>1. "dimt" \in DOMAIN e' /\ "dimt" \notin DOMAIN Closed
    BY <1>1 DEF Closed
  <2> QED
    BY <2>1
<1>3. e' \in Handle /\ Follows(e')
  BY <1>2 DEF Inv
<1>4. /\ e'.dimt = <<>> /\ e'.original_nc /\ e'.c.datasets = <<>> /\ e'.c.atts = <<>>
  BY <1>1 DEF NewContainer
<1>5. ds = Absent /\ saved = Absent /\ saved' = Absent
  BY <1>1 DEF RInv, Mapped, CurrentIn, SavedIn
<1>6. ds' = [dims |-> Sizes(<<>>), vars |-> VarsOf(e'), atts |-> AsFunction(<<>>)]
  BY <1>3, <1>4, OpenOrClosed, MeaningIs DEF Mapped
<1>7. PICK none : none = [x \in {} |-> 0]
  OBVIOUS
<1>8. DOMAIN <<>> = {} /\ Len(<<>>) = 0 /\ 1 .. 0 = {}
  OBVIOUS
<1>9. {<<>>[k].name : k \in DOMAIN <<>>} = {}
  BY <1>8
<1>10. Sizes(<<>>) = none /\ AsFunction(<<>>) = none
  BY <1>7, <1>9 DEF Sizes, AsFunction
<1>11. VarsOf(e') = <<>>
  BY <1>4, <1>8 DEF VarsOf
<1>12. ds' = AbstractDataset!Empty
  BY <1>6, <1>7, <1>10, <1>11 DEF AbstractDataset!Empty, AbstractDataset!Nothing
<1>13. AttsUnique(e'.c)
  BY <1>4, <1>8 DEF AttsUnique, UniqueNames
<1>14. UInv' /\ OInv'
  BY <1>1, <1>4, <1>13 DEF UInv, OInv
<1> QED
  BY <1>5, <1>12, <1>14 DEF Implements, AbstractDataset!Next, AbstractDataset!Create

(* ESDM_open changes nothing that users see.                               *)
LEMMA OpenMeans ==
  ASSUME RInv, Mapped', ESDM_open
  PROVE  Implements
<1>1. /\ store # NoContainer /\ Fits(store) /\ Matching(store) /\ UNCHANGED store
      /\ e' = Opened(store) /\ e = Closed
  BY DEF ESDM_open, IsOpen, RInv, Inv
<1>2. e' \in Handle /\ store \in Container
  BY <1>1, OpenedIs DEF Fits
<1>3. ds = Meaning(e') /\ ds' = Meaning(e') /\ UNCHANGED saved
  BY <1>1, <1>2, OpenOrClosed DEF RInv, Mapped, CurrentIn
<1>4. /\ e'.original_nc = (store.nc_dims # {})
      /\ e'.c.datasets = store.datasets /\ e'.c.atts = store.atts
  BY <1>1, <1>2 DEF Opened, Container
<1>5. UInv' /\ OInv'
  BY <1>1, <1>4 DEF RInv, UInv, OInv, AttsUnique
<1> QED
  BY <1>3, <1>5 DEF Implements

(* A commit saves what users see.                                          *)
LEMMA CommitsMean ==
  ASSUME RInv, Mapped', ESDM__enddef \/ ESDM_sync \/ ESDM_close
  PROVE  Implements
<1>1. /\ IsOpen /\ e \in Handle /\ Follows(e) /\ Sized(e) /\ e.original_nc
      /\ store' = Committed /\ AttsUnique(e.c)
  BY DEF ESDM__enddef, ESDM_sync, ESDM_close, RInv, Inv, EInv, OInv, UInv, IsOpen
<1>2. PICK c \in Container : c = Committed /\ Meaning(Opened(c)) = Meaning(e)
  BY <1>1, CommitMeans
<1>3. c.datasets = e.c.datasets /\ c.atts = e.c.atts /\ c.nc_dims = {e.dimt}
  BY <1>1, <1>2, CommittedIs
<1>4. saved' = Meaning(e) /\ ds = Meaning(e)
  BY <1>1, <1>2, OpenOrClosed DEF RInv, Mapped
<1>5. \/ e' = Closed
      \/ /\ e' \in Handle /\ Meaning(e') = Meaning(e) /\ e'.original_nc
         /\ e'.c.datasets = e.c.datasets /\ e'.c.atts = e.c.atts
  <2>1. CASE ESDM_close
    BY <2>1 DEF ESDM_close
  <2>2. CASE ESDM__enddef
    <3>1. e' = [e EXCEPT !.c.nc_dims = {}]
      BY <2>2 DEF ESDM__enddef
    <3>2. /\ e' \in Handle /\ e'.dimt = e.dimt /\ e'.vars = e.vars /\ e'.original_nc
          /\ e'.c.datasets = e.c.datasets /\ e'.c.atts = e.c.atts
      BY <1>1, <3>1 DEF Handle, Container
    <3> QED
      BY <3>2 DEF Meaning
  <2>3. CASE ESDM_sync
    <3>1. e' = [e EXCEPT !.c = c]
      BY <1>2, <2>3 DEF ESDM_sync
    <3>2. /\ e' \in Handle /\ e'.dimt = e.dimt /\ e'.vars = e.vars /\ e'.original_nc
          /\ e'.c = c
      BY <1>1, <1>2, <3>1 DEF Handle
    <3> QED
      BY <1>3, <3>2 DEF Meaning
  <2> QED
    BY <2>1, <2>2, <2>3
<1>6. ds' = Meaning(e)
  BY <1>4, <1>5, OpenOrClosed DEF Mapped, CurrentIn
<1>7. UInv' /\ OInv'
  BY <1>1, <1>2, <1>3, <1>5 DEF UInv, OInv, AttsUnique
<1> QED
  BY <1>4, <1>6, <1>7 DEF Implements, AbstractDataset!Next, AbstractDataset!Save

(* Without a commit, what users see is what was saved; ESDM_redef changes  *)
(* nothing.                                                                *)
LEMMA RestMeans ==
  ASSUME RInv, Mapped', ESDM_abort \/ ESDM_redef
  PROVE  Implements
<1>1. CASE ESDM_abort
  <2>1. e' = Closed /\ UNCHANGED store
    BY <1>1 DEF ESDM_abort
  <2>2. ds' = saved /\ saved' = saved
    BY <2>1 DEF RInv, Mapped, CurrentIn
  <2>3. UInv' /\ OInv'
    BY <2>1 DEF RInv, UInv, OInv
  <2> QED
    BY <2>2, <2>3 DEF Implements, AbstractDataset!Next, AbstractDataset!Revert
<1>2. CASE ESDM_redef
  <2>1. UNCHANGED <<store, e>>
    BY <1>2 DEF ESDM_redef
  <2> QED
    BY <2>1 DEF RInv, Mapped, UInv, OInv, Implements
<1> QED
  BY <1>1, <1>2

(* An action on the open dataset that refines one on the netCDF dataset    *)
LEMMA ChangeRefines ==
  ASSUME UInv', OInv', UNCHANGED saved, ds # Absent, AbstractDataset!Change
  PROVE  Implements
BY DEF Implements, AbstractDataset!Next

(* Defining a dimension; a definition that is there already is not changed *)
(* when its length is the same.                                            *)
LEMMA DefDimMeans ==
  ASSUME RInv, AbsentIsNone, Mapped', "redefine" \notin Unusual, Inv',
         NEW name \in DimNames, NEW len \in Lengths, ESDM_def_dim(name, len)
  PROVE  Implements
<1>1. /\ IsOpen /\ UNCHANGED store /\ e \in Handle /\ Follows(e) /\ AttsUnique(e.c)
      /\ e.original_nc
  BY DEF ESDM_def_dim, RInv, Inv, UInv, OInv, IsOpen
<1>2. PICK k : k = Find(e.dimt, name)
  OBVIOUS
<1>3. /\ e.dimt \in Seq(Dimensions) /\ UniqueNames(e.dimt)
      /\ DOMAIN e.dimt = 1 .. Len(e.dimt)
  BY <1>1, LenProperties DEF Handle, Follows
<1>4. CASE k # 0
  <2>1. e.dimt[k].size = len /\ e' = [e EXCEPT !.dimt[k].size = len]
    BY <1>2, <1>4 DEF ESDM_def_dim
  <2>2. k \in 1 .. Len(e.dimt) /\ e.dimt[k] \in Dimensions
    BY <1>2, <1>3, <1>4, FindIs, ElementOfSeq
  <2>3. PICK d : d = [e.dimt[k] EXCEPT !.size = len]
    OBVIOUS
  <2>4. d = e.dimt[k]
    BY <2>1, <2>2, <2>3 DEF Dimensions
  <2>5. PICK t : t = [e.dimt EXCEPT ![k] = d]
    OBVIOUS
  <2>6. e' = [e EXCEPT !.dimt = t]
    BY <2>1, <2>3, <2>5
  <2>7. t = e.dimt
    BY <1>3, <2>2, <2>4, <2>5
  <2>8. e' = e
    BY <1>1, <2>6, <2>7 DEF Handle
  <2> QED
    BY <1>1, <2>8 DEF RInv, Mapped, UInv, OInv, Implements
<1>5. CASE k = 0
  <2>1. PICK d \in Dimensions : d = [name |-> name, size |-> len]
    BY DEF Dimensions
  <2>2. e' = [e EXCEPT !.dimt = Append(@, d)]
    BY <1>2, <1>5, <2>1 DEF ESDM_def_dim
  <2>3. /\ e'.dimt = Append(e.dimt, d) /\ e'.c = e.c /\ e'.original_nc /\ e' # Closed
    <3>1. /\ e'.dimt = Append(e.dimt, d) /\ e'.c = e.c /\ e'.original_nc = e.original_nc
          /\ "dimt" \in DOMAIN e'
      BY <1>1, <2>2 DEF Handle
    <3>2. "dimt" \notin DOMAIN Closed
      BY DEF Closed
    <3> QED
      BY <1>1, <3>1, <3>2
  <2>4. e' \in Handle /\ Follows(e')
    BY <2>3 DEF Inv
  <2>5. UniqueNames(e'.dimt)
    BY <2>4 DEF Follows
  <2>6. d.name = name /\ d.size = len
    BY <2>1
  <2>7. /\ name \notin DOMAIN Sizes(e.dimt)
        /\ Sizes(e'.dimt) = With(Sizes(e.dimt), name, len)
    <3>1. Find(e.dimt, d.name) = 0 /\ UniqueNames(Append(e.dimt, d))
      BY <1>2, <1>5, <2>3, <2>5, <2>6
    <3> QED
      BY <1>3, <2>3, <2>6, <3>1, SizesAppended
  <2>8. VarsOf(e') = VarsOf(e)
    BY <2>3 DEF VarsOf
  <2>9. /\ ds = [dims |-> Sizes(e.dimt), vars |-> VarsOf(e), atts |-> AsFunction(e.c.atts)]
        /\ ds' = [dims |-> Sizes(e'.dimt), vars |-> VarsOf(e'), atts |-> AsFunction(e'.c.atts)]
        /\ UNCHANGED saved /\ ds # Absent
    BY <1>1, <2>4, ChangeMeans
  <2>10. ds' = [ds EXCEPT !.dims = With(@, name, len)]
    BY <2>3, <2>7, <2>8, <2>9
  <2>11. name \notin DOMAIN ds.dims
    BY <2>7, <2>9
  <2>12. AbstractDataset!DefDim(name, len)
    BY <2>10, <2>11 DEF AbstractDataset!DefDim, AbstractDataset!With, With
  <2>13. UInv' /\ OInv'
    BY <1>1, <2>3, OpenInvs
  <2> QED
    BY <2>9, <2>12, <2>13, ChangeRefines DEF AbstractDataset!Change
<1> QED
  BY <1>4, <1>5

(* An open dataset whose dimensions and variables change                   *)
WithDimsVars(m, g, w) == [m EXCEPT !.dims = g, !.vars = w]
LEMMA DimsVarsChange ==
  ASSUME NEW f, NEW v, NEW a, NEW g, NEW w, NEW m, m = [dims |-> f, vars |-> v, atts |-> a]
  PROVE  WithDimsVars(m, g, w) = [dims |-> g, vars |-> w, atts |-> a]
<1>1. PICK k : k = [m EXCEPT !.dims = g]
  OBVIOUS
<1>2. k = [dims |-> g, vars |-> v, atts |-> a]
  BY <1>1
<1>3. [k EXCEPT !.vars = w] = [dims |-> g, vars |-> w, atts |-> a]
  BY <1>2
<1>4. [m EXCEPT !.dims = g, !.vars = w] = [[m EXCEPT !.dims = g] EXCEPT !.vars = w]
  BY Zenon
<1> QED
  BY <1>1, <1>3, <1>4, Zenon DEF WithDimsVars

(* Renaming one                                                            *)
LEMMA RenameDimMeans ==
  ASSUME RInv, AbsentIsNone, Mapped', Inv', NEW dimid, NEW name \in DimNames,
         ESDM_rename_dim(dimid, name)
  PROVE  Implements
<1>1. /\ IsOpen /\ UNCHANGED store /\ Inv /\ AttsUnique(e.c) /\ e.original_nc
      /\ Find(e.dimt, name) = 0
  BY DEF ESDM_rename_dim, RInv, UInv, OInv, IsOpen
<1>2. /\ e \in Handle /\ Follows(e) /\ dimid \in 1 .. Len(e.dimt)
      /\ e' \in Handle /\ e'.original_nc = e.original_nc /\ e'.c.atts = e.c.atts
      /\ Len(e'.dimt) = Len(e.dimt)
      /\ \A k \in 1 .. Len(e.dimt) :
           e'.dimt[k] = IF k = dimid THEN [e.dimt[k] EXCEPT !.name = name] ELSE e.dimt[k]
      /\ Len(e'.c.datasets) = Len(e.c.datasets)
      /\ \A i \in 1 .. Len(e.c.datasets) :
           /\ e.c.datasets[i] \in Dataset
           /\ e'.c.datasets[i] = DimsRenamed(e.c.datasets[i], e.dimt[dimid].name, name)
  BY <1>1, RenameDimStep, ZenonT(60)
<1>3. e' # Closed
  BY <1>2, OpenOrClosed
<1>4. Follows(e')
  BY <1>3 DEF Inv
<1>5. e.dimt \in Seq(Dimensions) /\ e'.dimt \in Seq(Dimensions) /\ UniqueNames(e.dimt)
  BY <1>2 DEF Handle, Follows
<1>6. PICK old \in DimNames : old = e.dimt[dimid].name
  <2>1. e.dimt[dimid] \in Dimensions
    BY <1>2, <1>5, ElementOfSeq
  <2> QED
    BY <2>1 DEF Dimensions
<1>7. PICK f, g : f = Sizes(e.dimt) /\ g = Sizes(e'.dimt)
  OBVIOUS
<1>8. old \in DOMAIN f /\ name \notin DOMAIN f /\ g = Renamed(f, old, name)
  <2>1. PICK t \in Seq(Dimensions), r \in Seq(Dimensions) : t = e.dimt /\ r = e'.dimt
    BY <1>5
  <2>2. /\ UniqueNames(t) /\ dimid \in 1 .. Len(t) /\ Find(t, name) = 0
        /\ TableRenamed(t, r, dimid, name)
    BY <1>1, <1>2, <1>5, <2>1 DEF TableRenamed
  <2>3. /\ t[dimid].name \in DOMAIN Sizes(t) /\ name \notin DOMAIN Sizes(t)
        /\ Sizes(r) = Renamed(Sizes(t), t[dimid].name, name)
    BY <2>2, SizesRenamed
  <2> QED
    BY <1>6, <1>7, <2>1, <2>3
<1>9. PICK n \in Nat : n = Len(e.c.datasets)
  <2>1. e.c.datasets \in Seq(Dataset)
    BY <1>2 DEF Handle, Container
  <2> QED
    BY <2>1, LenProperties
<1>10. PICK v, w : v = VarsOf(e) /\ w = VarsOf(e')
  OBVIOUS
<1>11. ASSUME NEW i \in 1 .. n
       PROVE  w[i] = AbstractDataset!ShapeRenamed(v[i], old, name)
  <2>1. PICK d \in Dataset : d = e.c.datasets[i]
    BY <1>2, <1>9
  <2>2. PICK r : r = e'.c.datasets[i] /\ r = DimsRenamed(d, old, name)
    BY <1>2, <1>6, <1>9, <2>1
  <2>3. /\ r.atts = d.atts /\ r.fill = d.fill /\ r.name = d.name /\ Len(r.dims) = Len(d.dims)
        /\ \A j \in 1 .. Len(d.dims) : r.dims[j] = RenamedTo(d.dims[j], old, name)
    BY <2>2, DimsRenamedIs
  <2>4. v[i] = DatasetMeaning(d) /\ w[i] = DatasetMeaning(r)
    BY <1>2, <1>9, <1>10, <2>1, <2>2 DEF VarsOf
  <2>5. PICK s, u : /\ s = [j \in 1 .. Len(d.dims) |-> d.dims[j].name]
                    /\ u = [j \in 1 .. Len(d.dims) |-> r.dims[j].name]
    OBVIOUS
  <2>6. ASSUME NEW j \in 1 .. Len(d.dims)
        PROVE  u[j] = IF s[j] = old THEN name ELSE s[j]
    <3>1. d.dims[j] \in Dimensions
      <4>1. d.dims \in Seq(Dimensions)
        BY DEF Dataset
      <4> QED
        BY <4>1, ElementOfSeq
    <3>2. r.dims[j].name = IF d.dims[j].name = old THEN name ELSE d.dims[j].name
      BY <2>3, <3>1, RenamedIs
    <3> QED
      BY <2>5, <3>2
  <2>7. u = [j \in DOMAIN s |-> IF s[j] = old THEN name ELSE s[j]]
    BY <2>5, <2>6
  <2>8. v[i] = [name |-> d.name, shape |-> s, atts |-> AsFunction(d.atts), fill |-> d.fill]
    BY <2>4, <2>5 DEF DatasetMeaning
  <2>9. w[i] = [name |-> d.name, shape |-> u, atts |-> AsFunction(d.atts), fill |-> d.fill]
    BY <2>3, <2>4, <2>5 DEF DatasetMeaning
  <2> QED
    BY <2>7, <2>8, <2>9 DEF AbstractDataset!ShapeRenamed
<1>12. DOMAIN v = 1 .. n /\ DOMAIN w = 1 .. n /\ IsFcn(w)
  BY <1>2, <1>9, <1>10 DEF VarsOf, IsFcn
<1>13. w = [i \in DOMAIN v |-> AbstractDataset!ShapeRenamed(v[i], old, name)]
  BY <1>11, <1>12 DEF IsFcn
<1>14. /\ ds = [dims |-> f, vars |-> v, atts |-> AsFunction(e.c.atts)]
       /\ ds' = [dims |-> g, vars |-> w, atts |-> AsFunction(e.c.atts)]
       /\ UNCHANGED saved /\ ds # Absent
  BY <1>1, <1>2, <1>4, <1>7, <1>10, ChangeMeans
<1>15. AbstractDataset!RenameDim(old, name)
  <2>1. old \in DOMAIN ds.dims /\ name \notin DOMAIN ds.dims
    BY <1>8, <1>14
  <2>2. g = AbstractDataset!Renamed(f, old, name)
    BY <1>8 DEF Renamed, With, Without, AbstractDataset!Renamed, AbstractDataset!With,
                AbstractDataset!Without
  <2>3. PICK a : /\ ds = [dims |-> f, vars |-> v, atts |-> a]
                 /\ ds' = [dims |-> g, vars |-> w, atts |-> a]
    BY <1>14
  <2>4. ds' = [ds EXCEPT !.dims = g, !.vars = w]
    <3>1. ds' = WithDimsVars(ds, g, w)
      BY <2>3, DimsVarsChange
    <3> QED
      BY <3>1, Zenon DEF WithDimsVars
  <2>5. ds.dims = f /\ ds.vars = v
    BY <2>3
  <2>6. ds' = [ds EXCEPT
           !.dims = AbstractDataset!Renamed(ds.dims, old, name),
           !.vars = [i \in DOMAIN ds.vars |-> AbstractDataset!ShapeRenamed(ds.vars[i], old, name)]]
    BY <1>13, <2>2, <2>4, <2>5
  <2> QED
    BY <2>1, <2>6, Zenon DEF AbstractDataset!RenameDim
<1>16. AttsUnique(e'.c)
  <2>1. \A i \in 1 .. n : e'.c.datasets[i].atts = e.c.datasets[i].atts
    BY <1>2, <1>6, <1>9, DimsRenamedIs
  <2> QED
    BY <1>1, <1>2, <1>9, <2>1 DEF AttsUnique
<1>17. UInv' /\ OInv'
  BY <1>1, <1>2, <1>16, OpenInvs
<1> QED
  BY <1>6, <1>14, <1>15, <1>17, ChangeRefines DEF AbstractDataset!Change

(* Defining a variable                                                     *)
LEMMA DefVarMeans ==
  ASSUME RInv, AbsentIsNone, Mapped', Inv', NEW name \in VarNames, NEW rank \in 0 .. MaxRank,
         NEW dimids \in [1 .. rank -> 1 .. MaxDims], ESDM_def_var(name, dimids)
  PROVE  Implements
<1>1. /\ IsOpen /\ UNCHANGED store /\ Inv /\ AttsUnique(e.c) /\ e.original_nc
      /\ Find(e.c.datasets, name) = 0
  BY DEF ESDM_def_var, RInv, UInv, OInv, IsOpen
<1>2. PICK s : s = [j \in 1 .. rank |-> e.dimt[dimids[j]]]
  OBVIOUS
<1>3. PICK d : d = [name |-> name, dims |-> s, atts |-> <<>>, fill |-> Default]
  OBVIOUS
<1>4. /\ e \in Handle /\ Follows(e)
      /\ e' \in Handle /\ e'.dimt = e.dimt /\ e'.original_nc = e.original_nc
      /\ e'.c.atts = e.c.atts
      /\ Len(e'.c.datasets) = Len(e.c.datasets) + 1
      /\ \A i \in 1 .. Len(e.c.datasets) : e'.c.datasets[i] = e.c.datasets[i]
      /\ e'.c.datasets[Len(e.c.datasets) + 1] = d
      /\ Len(s) = rank /\ \A j \in 1 .. rank : dimids[j] \in 1 .. Len(e.dimt)
  <2>1. /\ e \in Handle /\ Follows(e)
        /\ e' \in Handle /\ e'.dimt = e.dimt /\ e'.original_nc = e.original_nc
        /\ e'.c.nc_dims = e.c.nc_dims /\ e'.c.atts = e.c.atts
        /\ Len(e'.c.datasets) = Len(e.c.datasets) + 1
        /\ Len(e'.vars) = Len(e.vars) + 1
        /\ \A i \in 1 .. Len(e.c.datasets) : e'.c.datasets[i] = e.c.datasets[i]
        /\ \A i \in 1 .. Len(e.vars) : e'.vars[i] = e.vars[i]
        /\ e'.c.datasets[Len(e.c.datasets) + 1] =
             [name |-> name, dims |-> [j \in 1 .. rank |-> e.dimt[dimids[j]]],
              atts |-> <<>>, fill |-> Default]
        /\ e'.vars[Len(e.vars) + 1] = [dset |-> Len(e.c.datasets) + 1, dimids |-> dimids]
        /\ Len(dimids) = rank
        /\ Len([j \in 1 .. rank |-> e.dimt[dimids[j]]]) = rank
        /\ \A j \in 1 .. rank : dimids[j] \in 1 .. Len(e.dimt)
    BY <1>1, DefVarStep, Zenon
  <2> QED
    BY <1>2, <1>3, <2>1, Zenon
<1>5. Follows(e')
  <2>1. e' # Closed
    BY <1>4, OpenOrClosed
  <2> QED
    BY <2>1 DEF Inv
<1>6. PICK n \in Nat : n = Len(e.c.datasets) /\ e.c.datasets \in Seq(Dataset)
  <2>1. e.c.datasets \in Seq(Dataset)
    BY <1>4 DEF Handle, Container
  <2> QED
    BY <2>1, LenProperties
<1>7. PICK f, a : f = Sizes(e.dimt) /\ a = AsFunction(e.c.atts)
  OBVIOUS
<1>8. PICK v, w : v = VarsOf(e) /\ w = VarsOf(e')
  OBVIOUS
<1>9. /\ ds = [dims |-> f, vars |-> v, atts |-> a]
      /\ ds' = [dims |-> f, vars |-> w, atts |-> a]
      /\ UNCHANGED saved /\ ds # Absent
  BY <1>1, <1>4, <1>5, <1>7, <1>8, ChangeMeans
<1>10. PICK shape : shape = [j \in 1 .. rank |-> e.dimt[dimids[j]].name]
  OBVIOUS
<1>11. \A j \in 1 .. rank : shape[j] \in DimNames /\ shape[j] \in DOMAIN f
  <2>1. e.dimt \in Seq(Dimensions) /\ UniqueNames(e.dimt)
    BY <1>4 DEF Handle, Follows
  <2>2. DOMAIN f = Names(e.dimt)
    BY <1>7, <2>1, SizesIs
  <2> SUFFICES ASSUME NEW j \in 1 .. rank
               PROVE  shape[j] \in DimNames /\ shape[j] \in Names(e.dimt)
    BY <2>2
  <2>3. PICK k \in 1 .. Len(e.dimt) : k = dimids[j]
    BY <1>4
  <2>4. shape[j] = e.dimt[k].name /\ e.dimt[k] \in Dimensions
    BY <1>10, <2>1, <2>3, ElementOfSeq
  <2> QED
    BY <2>4 DEF Dimensions, Names
<1>12. PICK m : m = [name |-> name, shape |-> shape, atts |-> AsFunction(<<>>), fill |-> Default]
  OBVIOUS
<1>13. DatasetMeaning(d) = m
  <2>1. /\ d.name = name /\ d.dims = s /\ d.atts = <<>> /\ d.fill = Default
    BY <1>3
  <2>2. [j \in 1 .. Len(d.dims) |-> d.dims[j].name] = shape
    BY <1>2, <1>4, <1>10, <2>1
  <2> QED
    BY <1>12, <2>1, <2>2 DEF DatasetMeaning
<1>14. DOMAIN v = 1 .. n /\ v \in Seq({v[i] : i \in 1 .. n}) /\ Len(v) = n
  <2>1. v = [i \in 1 .. n |-> DatasetMeaning(e.c.datasets[i])]
    BY <1>6, <1>8 DEF VarsOf
  <2>2. PICK T : T = {v[i] : i \in 1 .. n}
    OBVIOUS
  <2>3. v \in [1 .. n -> T]
    BY <2>1, <2>2
  <2>4. v \in Seq(T)
    BY <2>3, SeqDef
  <2>5. Len(v) = n
    BY <2>3, <2>4, LenProperties
  <2> QED
    BY <2>1, <2>2, <2>4, <2>5
<1>15. w = Append(v, m)
  <2>1. PICK T : T = {v[i] : i \in 1 .. n} \cup {m}
    OBVIOUS
  <2>2. v \in Seq(T) /\ m \in T
    <3>1. v \in [1 .. n -> T]
      <4>1. v = [i \in 1 .. n |-> v[i]]
        BY <1>6, <1>8 DEF VarsOf
      <4> QED
        BY <2>1, <4>1
    <3> QED
      BY <2>1, <3>1, SeqDef
  <2>3. PICK x : x = Append(v, m)
    OBVIOUS
  <2>4. /\ x \in Seq(T) /\ Len(x) = n + 1 /\ x[n + 1] = m
        /\ \A i \in 1 .. n : x[i] = v[i]
    BY <1>14, <2>2, <2>3, AppendedIs
  <2>5. w = [i \in 1 .. n + 1 |-> DatasetMeaning(e'.c.datasets[i])]
    BY <1>4, <1>6, <1>8 DEF VarsOf
  <2>6. v = [i \in 1 .. n |-> DatasetMeaning(e.c.datasets[i])]
    BY <1>6, <1>8 DEF VarsOf
  <2>7. ASSUME NEW i \in 1 .. n + 1
        PROVE  w[i] = x[i]
    <3>1. CASE i = n + 1
      BY <1>4, <1>6, <1>13, <2>4, <2>5, <3>1
    <3>2. CASE i \in 1 .. n
      BY <1>4, <1>6, <2>4, <2>5, <2>6, <3>2
    <3> QED
      BY <3>1, <3>2
  <2>8. x = [i \in 1 .. n + 1 |-> x[i]]
    BY <2>4, LenProperties
  <2>9. w = x
    BY <2>5, <2>7, <2>8
  <2> QED
    BY <2>3, <2>9
<1>16. AsFunction(<<>>) = AbstractDataset!Nothing
  <2>1. DOMAIN <<>> = {}
    OBVIOUS
  <2>2. {<<>>[k].name : k \in DOMAIN <<>>} = {}
    BY <2>1
  <2> QED
    BY <2>2 DEF AsFunction, AbstractDataset!Nothing
<1>17. ASSUME NEW i \in 1 .. n
       PROVE  v[i].name # name
  <2>1. v[i] = DatasetMeaning(e.c.datasets[i])
    BY <1>6, <1>8 DEF VarsOf
  <2>2. v[i].name = e.c.datasets[i].name
    BY <2>1 DEF DatasetMeaning
  <2> QED
    BY <1>1, <1>6, <2>2, FindIs
<1>18. AbstractDataset!DefVar(name, shape)
  <2>1. AbstractDataset!NameIsNew(name)
    BY <1>9, <1>14, <1>17 DEF AbstractDataset!NameIsNew
  <2>2. \A j \in DOMAIN shape : shape[j] \in DOMAIN ds.dims
    BY <1>9, <1>10, <1>11
  <2>3. ds' = [ds EXCEPT !.vars = Append(ds.vars, m)]
    <3>1. ds' = [ds EXCEPT !.vars = w]
      BY <1>9
    <3>2. ds.vars = v
      BY <1>9
    <3> QED
      BY <1>15, <3>1, <3>2, Zenon
  <2>4. m = [name |-> name, shape |-> shape, atts |-> AbstractDataset!Nothing, fill |-> Default]
    BY <1>12, <1>16
  <2> QED
    BY <2>1, <2>2, <2>3, <2>4 DEF AbstractDataset!DefVar
<1>19. shape \in [1 .. rank -> DimNames]
  BY <1>10, <1>11
<1>20. AttsUnique(e'.c)
  <2>1. d.atts = <<>>
    BY <1>3
  <2>2. \A i \in 1 .. n + 1 : i \in 1 .. n \/ i = n + 1
    OBVIOUS
  <2>3. UniqueNames(d.atts)
    BY <2>1 DEF UniqueNames
  <2> QED
    BY <1>1, <1>4, <1>6, <2>2, <2>3 DEF AttsUnique
<1>21. UInv' /\ OInv'
  BY <1>1, <1>4, <1>20, OpenInvs
<1>22. AbstractDataset!Change
  BY <1>18, <1>19 DEF AbstractDataset!Change
<1> QED
  BY <1>9, <1>21, <1>22, ChangeRefines

-----------------------------------------------------------------------------
(* Variables *)

(* What the dataset of a variable is before an action                      *)
LEMMA OldDataset ==
  ASSUME RInv, IsOpen, NEW varid \in DOMAIN e.vars
  PROVE  /\ e.vars[varid].dset = varid /\ varid \in 1 .. Len(e.c.datasets)
         /\ e.c.datasets[varid] \in Dataset /\ e.c.datasets[varid].atts \in Seq(Att)
         /\ UniqueNames(e.c.datasets[varid].atts)
<1>1. e \in Handle /\ Follows(e) /\ e.c \in Container /\ AttsUnique(e.c)
  BY DEF RInv, Inv, UInv, IsOpen, Handle
<1>2. DOMAIN e.vars = 1 .. Len(e.vars) /\ Len(e.vars) = Len(e.c.datasets)
  <2>1. e.vars \in Seq(Variable)
    BY <1>1 DEF Handle
  <2> QED
    BY <1>1, <2>1, LenProperties DEF Follows
<1>3. e.vars[varid].dset = varid
  BY <1>1, <1>2 DEF Follows
<1>4. e.c.datasets[varid] \in Dataset
  BY <1>1, <1>2, DatasetDims
<1> QED
  BY <1>1, <1>2, <1>3, <1>4 DEF AttsUnique, Dataset

Entry(name, shape, atts, fill) ==
  [name |-> name, shape |-> shape, atts |-> atts, fill |-> fill]
WithVar(m, i, w) == [m EXCEPT !.vars = [@ EXCEPT ![i] = w]]
IsDs(m, f, v, a) == m = [dims |-> f, vars |-> v, atts |-> a]

(* The dataset of a variable changes, and what the variable means.         *)
LEMMA VariableMeans ==
  ASSUME RInv, AbsentIsNone, Mapped', IsOpen, NEW varid \in DOMAIN e.vars,
         NEW old, old = e.c.datasets[varid],
         NEW d \in Dataset, d.dims = old.dims, UniqueNames(d.atts), SetDataset(varid, d)
  PROVE  /\ UInv' /\ OInv' /\ UNCHANGED saved /\ ds # Absent /\ varid \in DOMAIN ds.vars
         /\ \E f, v, a : IsDs(ds, f, v, a) /\ varid \in DOMAIN v /\ v = VarsOf(e)
         /\ \E s : /\ ds.vars[varid] = Entry(old.name, s, AsFunction(old.atts), old.fill)
                   /\ ds' = WithVar(ds, varid, Entry(d.name, s, AsFunction(d.atts), d.fill))
<1>1. /\ e.vars[varid].dset = varid /\ varid \in 1 .. Len(e.c.datasets)
  BY OldDataset
<1>2. e' = [e EXCEPT !.c.datasets[varid] = d] /\ UNCHANGED <<store, defining>>
  BY <1>1 DEF SetDataset
<1>3. /\ Inv /\ AttsUnique(e.c) /\ e.original_nc
  BY DEF RInv, UInv, OInv, IsOpen
<1>4. /\ e' \in Handle /\ Follows(e')
      /\ e'.dimt = e.dimt /\ e'.c.atts = e.c.atts /\ e'.original_nc = e.original_nc
      /\ Len(e'.c.datasets) = Len(e.c.datasets)
      /\ \A i \in 1 .. Len(e.c.datasets) :
           e'.c.datasets[i] = IF i = varid THEN d ELSE e.c.datasets[i]
  BY <1>1, <1>2, <1>3, DatasetKept
<1>5. PICK f, a : f = Sizes(e.dimt) /\ a = AsFunction(e.c.atts)
  OBVIOUS
<1>6. PICK v, w : v = VarsOf(e) /\ w = VarsOf(e')
  OBVIOUS
<1>7. /\ ds = [dims |-> f, vars |-> v, atts |-> a]
      /\ ds' = [dims |-> f, vars |-> w, atts |-> a]
      /\ UNCHANGED saved /\ ds # Absent
  BY <1>2, <1>4, <1>5, <1>6, ChangeMeans
<1>8. PICK n : n = Len(e.c.datasets)
  OBVIOUS
<1>9. /\ v = [i \in 1 .. n |-> DatasetMeaning(e.c.datasets[i])]
      /\ w = [i \in 1 .. n |-> DatasetMeaning(e'.c.datasets[i])]
  BY <1>4, <1>6, <1>8 DEF VarsOf
<1>10. w = [v EXCEPT ![varid] = DatasetMeaning(d)]
  BY <1>1, <1>4, <1>8, <1>9
<1>11. PICK s : s = [j \in 1 .. Len(d.dims) |-> d.dims[j].name]
  OBVIOUS
<1>12. DatasetMeaning(d) = Entry(d.name, s, AsFunction(d.atts), d.fill)
  BY <1>11 DEF DatasetMeaning, Entry
<1>13. DatasetMeaning(old) = Entry(old.name, s, AsFunction(old.atts), old.fill)
  BY <1>11 DEF DatasetMeaning, Entry
<1>14. ds' = WithVar(ds, varid, DatasetMeaning(d))
  BY <1>7, <1>10 DEF WithVar
<1>15. ds.vars = v /\ v[varid] = DatasetMeaning(old) /\ varid \in DOMAIN v
  BY <1>1, <1>7, <1>8, <1>9
<1>16. AttsUnique(e'.c)
  BY <1>3, <1>4 DEF AttsUnique
<1>17. UInv' /\ OInv'
  BY <1>2, <1>3, <1>4, <1>16, OpenInvs
<1> QED
  BY <1>6, <1>7, <1>12, <1>13, <1>14, <1>15, <1>17 DEF IsDs

(* A variable with other attributes, another fill value or another name    *)
AttsSet(m, i, b)    == [m EXCEPT !.vars[i].atts = b]
BothSet(m, i, b, y) == [m EXCEPT !.vars[i].atts = b, !.vars[i].fill = y]
NameSet(m, i, n)    == [m EXCEPT !.vars[i].name = n]
LEMMA VarEntrySet ==
  ASSUME NEW f, NEW v, NEW g, NEW m, IsDs(m, f, v, g), NEW i \in DOMAIN v,
         NEW n, NEW s, NEW a, NEW x, v[i] = Entry(n, s, a, x)
  PROVE  /\ \A b : AttsSet(m, i, b) = WithVar(m, i, Entry(n, s, b, x))
         /\ \A b, y : BothSet(m, i, b, y) = WithVar(m, i, Entry(n, s, b, y))
         /\ \A k : NameSet(m, i, k) = WithVar(m, i, Entry(k, s, a, x))
<1>1. m = [dims |-> f, vars |-> v, atts |-> g]
  BY DEF IsDs
<1>2. v[i] = [name |-> n, shape |-> s, atts |-> a, fill |-> x]
  BY DEF Entry
<1>3. ASSUME NEW b
      PROVE  [m EXCEPT !.vars[i].atts = b]
               = [m EXCEPT !.vars = [@ EXCEPT ![i] = [name |-> n, shape |-> s, atts |-> b, fill |-> x]]]
  BY <1>1, <1>2
<1>4. ASSUME NEW b, NEW y
      PROVE  [m EXCEPT !.vars[i].atts = b, !.vars[i].fill = y]
               = [m EXCEPT !.vars = [@ EXCEPT ![i] = [name |-> n, shape |-> s, atts |-> b, fill |-> y]]]
  <2>1. PICK w : w = [v EXCEPT ![i] = [v[i] EXCEPT !.atts = b]]
    OBVIOUS
  <2>2. PICK k : k = [m EXCEPT !.vars = w]
    OBVIOUS
  <2>3. k = [m EXCEPT !.vars[i].atts = b]
    BY <1>1, <2>1, <2>2
  <2>4. k = [dims |-> f, vars |-> w, atts |-> g]
    BY <1>1, <2>2
  <2>5. w[i] = [name |-> n, shape |-> s, atts |-> b, fill |-> x]
    BY <1>2, <2>1
  <2>6. PICK z : z = [w EXCEPT ![i] = [w[i] EXCEPT !.fill = y]]
    OBVIOUS
  <2>7. [k EXCEPT !.vars[i].fill = y] = [k EXCEPT !.vars = z]
    BY <2>4, <2>6
  <2>8. [m EXCEPT !.vars[i].atts = b, !.vars[i].fill = y]
          = [[m EXCEPT !.vars[i].atts = b] EXCEPT !.vars[i].fill = y]
    BY Zenon
  <2>9. PICK r : r = [name |-> n, shape |-> s, atts |-> b, fill |-> y]
    OBVIOUS
  <2>10. [w[i] EXCEPT !.fill = y] = r
    BY <2>5, <2>9
  <2>11. z = [v EXCEPT ![i] = r]
    BY <2>1, <2>6, <2>10
  <2>12. [k EXCEPT !.vars = z] = [m EXCEPT !.vars = z]
    BY <1>1, <2>4
  <2> QED
    BY <1>1, <2>3, <2>7, <2>8, <2>9, <2>11, <2>12
<1>5. ASSUME NEW k
      PROVE  [m EXCEPT !.vars[i].name = k]
               = [m EXCEPT !.vars = [@ EXCEPT ![i] = [name |-> k, shape |-> s, atts |-> a, fill |-> x]]]
  BY <1>1, <1>2
<1> QED
  BY <1>3, <1>4, <1>5, Zenon DEF AttsSet, BothSet, NameSet, WithVar, Entry

(* ds' after such a change; only the name, or only attributes and fill     *)
(* value change.                                                           *)
LEMMA VariableSteps ==
  ASSUME RInv, AbsentIsNone, Mapped', IsOpen, NEW varid \in DOMAIN e.vars,
         NEW old, old = e.c.datasets[varid],
         NEW d \in Dataset, d.dims = old.dims, UniqueNames(d.atts), SetDataset(varid, d)
  PROVE  /\ UInv' /\ OInv' /\ UNCHANGED saved /\ ds # Absent /\ varid \in DOMAIN ds.vars
         /\ DOMAIN ds.vars = 1 .. Len(e.c.datasets)
         /\ \A i \in 1 .. Len(e.c.datasets) : ds.vars[i].name = e.c.datasets[i].name
         /\ ds.vars[varid].atts = AsFunction(old.atts) /\ ds.vars[varid].fill = old.fill
         /\ d.atts = old.atts /\ d.fill = old.fill => ds' = NameSet(ds, varid, d.name)
         /\ d.name = old.name => ds' = BothSet(ds, varid, AsFunction(d.atts), d.fill)
         /\ d.name = old.name /\ d.fill = old.fill => ds' = AttsSet(ds, varid, AsFunction(d.atts))
<1>1. /\ UInv' /\ OInv' /\ UNCHANGED saved /\ ds # Absent /\ varid \in DOMAIN ds.vars
      /\ \E f, v, a : IsDs(ds, f, v, a) /\ varid \in DOMAIN v /\ v = VarsOf(e)
      /\ \E s : /\ ds.vars[varid] = Entry(old.name, s, AsFunction(old.atts), old.fill)
                /\ ds' = WithVar(ds, varid, Entry(d.name, s, AsFunction(d.atts), d.fill))
  BY VariableMeans
<1>2. PICK f, v, g : IsDs(ds, f, v, g) /\ varid \in DOMAIN v /\ v = VarsOf(e)
  BY <1>1, Zenon
<1>3. PICK s : /\ ds.vars[varid] = Entry(old.name, s, AsFunction(old.atts), old.fill)
               /\ ds' = WithVar(ds, varid, Entry(d.name, s, AsFunction(d.atts), d.fill))
  BY <1>1, Zenon
<1>4. ds.vars = v
  BY <1>2 DEF IsDs
<1>5. PICK a : a = AsFunction(old.atts)
  OBVIOUS
<1>6. v[varid] = Entry(old.name, s, a, old.fill)
  BY <1>3, <1>4, <1>5
<1>7. /\ \A b : AttsSet(ds, varid, b) = WithVar(ds, varid, Entry(old.name, s, b, old.fill))
      /\ \A b, y : BothSet(ds, varid, b, y) = WithVar(ds, varid, Entry(old.name, s, b, y))
      /\ \A k : NameSet(ds, varid, k) = WithVar(ds, varid, Entry(k, s, a, old.fill))
  BY <1>2, <1>6, VarEntrySet
<1>8. ds.vars[varid].atts = a /\ ds.vars[varid].fill = old.fill
  BY <1>4, <1>6 DEF Entry
<1>9. /\ DOMAIN ds.vars = 1 .. Len(e.c.datasets)
      /\ \A i \in 1 .. Len(e.c.datasets) : ds.vars[i].name = e.c.datasets[i].name
  <2>1. PICK n : n = Len(e.c.datasets)
    OBVIOUS
  <2>2. v = [i \in 1 .. n |-> DatasetMeaning(e.c.datasets[i])]
    BY <1>2, <2>1 DEF VarsOf
  <2>3. \A i \in 1 .. n : DatasetMeaning(e.c.datasets[i]).name = e.c.datasets[i].name
    BY DEF DatasetMeaning
  <2> QED
    BY <1>4, <2>1, <2>2, <2>3
<1>10. d.atts = old.atts /\ d.fill = old.fill => ds' = NameSet(ds, varid, d.name)
  BY <1>3, <1>5, <1>7
<1>11. d.name = old.name => ds' = BothSet(ds, varid, AsFunction(d.atts), d.fill)
  BY <1>3, <1>7
<1>12. d.name = old.name /\ d.fill = old.fill => ds' = AttsSet(ds, varid, AsFunction(d.atts))
  BY <1>3, <1>7
<1> QED
  BY <1>1, <1>5, <1>8, <1>9, <1>10, <1>11, <1>12

(* ESDM_rename_var, to a name that no variable has                         *)
LEMMA RenameVarMeans ==
  ASSUME RInv, AbsentIsNone, Mapped', "taken" \notin Unusual, NEW varid,
         NEW name \in VarNames, ESDM_rename_var(varid, name)
  PROVE  Implements
<1>1. IsOpen /\ varid \in DOMAIN e.vars /\ Find(e.c.datasets, name) = 0
  BY DEF ESDM_rename_var
<1>2. PICK old \in Dataset : /\ old = e.c.datasets[varid] /\ UniqueNames(old.atts)
                             /\ e.vars[varid].dset = varid
  BY <1>1, OldDataset
<1>3. PICK d : d = [old EXCEPT !.name = name]
  OBVIOUS
<1>4. d \in Dataset /\ d.dims = old.dims /\ d.atts = old.atts /\ d.fill = old.fill /\ d.name = name
  BY <1>3 DEF Dataset
<1>5. SetDataset(varid, d)
  BY <1>2, <1>3 DEF SetDataset, ESDM_rename_var
<1>6. /\ UInv' /\ OInv' /\ UNCHANGED saved /\ ds # Absent /\ varid \in DOMAIN ds.vars
      /\ DOMAIN ds.vars = 1 .. Len(e.c.datasets)
      /\ \A i \in 1 .. Len(e.c.datasets) : ds.vars[i].name = e.c.datasets[i].name
      /\ ds' = NameSet(ds, varid, name)
  <2>1. UniqueNames(d.atts)
    BY <1>2, <1>4
  <2> QED
    BY <1>1, <1>2, <1>4, <1>5, <2>1, VariableSteps
<1>7. \A i \in DOMAIN ds.vars : ds.vars[i].name # name
  <2>1. e.c.datasets \in Seq(Dataset)
    BY <1>1 DEF RInv, Inv, IsOpen, Handle, Container
  <2> QED
    BY <1>1, <1>6, <2>1, FindIs
<1>8. AbstractDataset!RenameVar(varid, name)
  BY <1>6, <1>7 DEF NameSet, AbstractDataset!RenameVar, AbstractDataset!NameIsNew
<1> QED
  BY <1>6, <1>8, ChangeRefines DEF AbstractDataset!Change

(* Putting an attribute and setting the fill value                         *)
LEMMA PutMeans ==
  ASSUME RInv, AbsentIsNone, Mapped', IsOpen, NEW varid \in DOMAIN e.vars,
         NEW name \in AttNames, NEW value \in Values,
         NEW old, old = e.c.datasets[varid], NEW fill,
         fill = IF name = FillAtt THEN value ELSE old.fill,
         SetDataset(varid, [old EXCEPT !.fill = fill, !.atts = Linked(old.atts, name, value)])
  PROVE  Implements
<1>1. old \in Dataset /\ old.atts \in Seq(Att) /\ UniqueNames(old.atts)
  BY OldDataset
<1>2. PICK atts : atts = Linked(old.atts, name, value)
  OBVIOUS
<1>3. /\ atts \in Seq(Att) /\ UniqueNames(atts)
      /\ AsFunction(atts) = With(AsFunction(old.atts), name, value)
  BY <1>1, <1>2, LinkedIs, LinkedMeans
<1>4. PICK d : d = [old EXCEPT !.fill = fill, !.atts = Linked(old.atts, name, value)]
  OBVIOUS
<1>5. SetDataset(varid, d)
  BY <1>4
<1>6. d \in Dataset /\ d.dims = old.dims /\ d.atts = atts /\ d.fill = fill /\ d.name = old.name
  BY <1>1, <1>2, <1>3, <1>4 DEF Dataset
<1>7. UniqueNames(d.atts)
  BY <1>3, <1>6
<1>8. PICK b, y : /\ b = With(AsFunction(old.atts), name, value)
                  /\ y = IF name = FillAtt THEN value ELSE old.fill
  OBVIOUS
<1>9. /\ UInv' /\ OInv' /\ UNCHANGED saved /\ ds # Absent /\ varid \in DOMAIN ds.vars
      /\ ds.vars[varid].atts = AsFunction(old.atts) /\ ds.vars[varid].fill = old.fill
      /\ ds' = BothSet(ds, varid, AsFunction(d.atts), d.fill)
  BY <1>6, <1>7, <1>5, VariableSteps
<1>10. AsFunction(d.atts) = b /\ d.fill = y
  BY <1>3, <1>6, <1>8
<1>11. ds' = BothSet(ds, varid, b, y)
  BY <1>9, <1>10
<1>12. b = AbstractDataset!With(ds.vars[varid].atts, name, value)
  BY <1>8, <1>9 DEF With, AbstractDataset!With
<1>13. y = IF name = FillAtt THEN value ELSE ds.vars[varid].fill
  BY <1>8, <1>9
<1>14. AbstractDataset!PutAtt(varid, name, value)
  BY <1>11, <1>12, <1>13, Zenon DEF BothSet, AbstractDataset!PutAtt
<1> QED
  BY <1>9, <1>14, ChangeRefines DEF AbstractDataset!Change

(* ESDM_put_att                                                            *)
LEMMA PutAttMeans ==
  ASSUME RInv, AbsentIsNone, Mapped', "mistyped_fill" \notin Unusual, IsOpen,
         NEW varid \in DOMAIN e.vars, NEW name \in AttNames, NEW m \in Memory,
         ESDM_put_att(varid, name, m)
  PROVE  Implements
<1>1. PICK old \in Dataset : old = e.c.datasets[varid] /\ e.vars[varid].dset = varid
  BY OldDataset
<1>2. PICK value \in Values : value = Converted[m] /\ (m \in Typed => value = Raw[m])
  BY MemoryAssumption
<1>3. PICK fill : fill = IF name = FillAtt THEN value ELSE old.fill
  OBVIOUS
<1>4. fill = IF name = FillAtt THEN Raw[m] ELSE old.fill
  BY <1>2, <1>3 DEF ESDM_put_att
<1>5. SetDataset(varid, [old EXCEPT !.fill = fill, !.atts = Linked(old.atts, name, value)])
  BY <1>1, <1>2, <1>4 DEF ESDM_put_att, Dataset
<1> QED
  BY <1>1, <1>2, <1>3, <1>5, PutMeans

(* Deleting an attribute, and the fill value of the variable               *)
AttDeleted(i, name, was, fill) ==
  \E b : /\ b = AbstractDataset!Without(ds.vars[i].atts, name)
         /\ ds' = BothSet(ds, i, b, fill)
         /\ fill = was => ds' = AttsSet(ds, i, b)
LEMMA DeleteMeans ==
  ASSUME RInv, AbsentIsNone, Mapped', IsOpen, NEW varid \in DOMAIN e.vars,
         NEW name, NEW old, old = e.c.datasets[varid], NEW fill \in Values \cup {Default},
         SetDataset(varid, [old EXCEPT !.fill = fill, !.atts = Unlinked(old.atts, name)])
  PROVE  /\ UInv' /\ OInv' /\ UNCHANGED saved /\ ds # Absent /\ varid \in DOMAIN ds.vars
         /\ AttDeleted(varid, name, old.fill, fill)
<1>1. old \in Dataset /\ old.atts \in Seq(Att) /\ UniqueNames(old.atts)
  BY OldDataset
<1>2. PICK atts : atts = Unlinked(old.atts, name)
  OBVIOUS
<1>3. /\ atts \in Seq(Att) /\ UniqueNames(atts)
      /\ AsFunction(atts) = Without(AsFunction(old.atts), name)
  BY <1>1, <1>2, UnlinkedIs, UnlinkedMeans
<1>4. PICK d : d = [old EXCEPT !.fill = fill, !.atts = Unlinked(old.atts, name)]
  OBVIOUS
<1>5. SetDataset(varid, d)
  BY <1>4
<1>6. d \in Dataset /\ d.dims = old.dims /\ d.atts = atts /\ d.fill = fill /\ d.name = old.name
  BY <1>1, <1>2, <1>3, <1>4 DEF Dataset
<1>7. UniqueNames(d.atts)
  BY <1>3, <1>6
<1>8. PICK b : b = Without(AsFunction(old.atts), name)
  OBVIOUS
<1>9. /\ UInv' /\ OInv' /\ UNCHANGED saved /\ ds # Absent /\ varid \in DOMAIN ds.vars
      /\ ds.vars[varid].atts = AsFunction(old.atts)
      /\ ds' = BothSet(ds, varid, AsFunction(d.atts), d.fill)
      /\ d.fill = old.fill => ds' = AttsSet(ds, varid, AsFunction(d.atts))
  BY <1>5, <1>6, <1>7, VariableSteps
<1>10. b = AbstractDataset!Without(ds.vars[varid].atts, name)
  BY <1>8, <1>9 DEF Without, AbstractDataset!Without
<1>11. AsFunction(d.atts) = b
  BY <1>3, <1>6, <1>8
<1>12. AttDeleted(varid, name, old.fill, fill)
  BY <1>6, <1>9, <1>10, <1>11 DEF AttDeleted
<1> QED
  BY <1>9, <1>12

(* ESDM_del_att                                                            *)
LEMMA DelAttMeans ==
  ASSUME RInv, AbsentIsNone, Mapped', IsOpen, NEW varid \in DOMAIN e.vars,
         NEW name \in AttNames, ESDM_del_att(varid, name)
  PROVE  Implements
<1>1. PICK old \in Dataset : old = e.c.datasets[varid] /\ e.vars[varid].dset = varid
  BY OldDataset
<1>2. PICK fill \in Values \cup {Default} : fill = old.fill
  BY DEF Dataset
<1>3. SetDataset(varid, [old EXCEPT !.fill = fill, !.atts = Unlinked(old.atts, name)])
  <2>1. SetDataset(varid, [old EXCEPT !.atts = Unlinked(old.atts, name)])
    BY <1>1 DEF ESDM_del_att
  <2>2. [old EXCEPT !.fill = fill] = old
    BY <1>1, <1>2 DEF Dataset
  <2>3. [old EXCEPT !.fill = fill, !.atts = Unlinked(old.atts, name)]
          = [[old EXCEPT !.fill = fill] EXCEPT !.atts = Unlinked(old.atts, name)]
    BY Zenon
  <2> QED
    BY <2>1, <2>2, <2>3
<1>4. /\ UInv' /\ OInv' /\ UNCHANGED saved /\ ds # Absent /\ varid \in DOMAIN ds.vars
      /\ AttDeleted(varid, name, old.fill, fill)
  BY <1>1, <1>3, DeleteMeans
<1>5. AbstractDataset!DelAtt(varid, name)
  BY <1>2, <1>4, Zenon DEF AttDeleted, AttsSet, AbstractDataset!DelAtt
<1> QED
  BY <1>4, <1>5, ChangeRefines DEF AbstractDataset!Change

(* ESDM_def_var_fill                                                       *)
LEMMA DefVarFillMeans ==
  ASSUME RInv, AbsentIsNone, Mapped', IsOpen, NEW varid \in DOMAIN e.vars,
         NEW value \in {Raw[m] : m \in Typed} \cup {Default}, FillAtt \in AttNames,
         ESDM_def_var_fill(varid, value)
  PROVE  Implements
<1>1. PICK old \in Dataset : old = e.c.datasets[varid] /\ e.vars[varid].dset = varid
  BY OldDataset
<1>2. CASE value = Default
  <2>1. SetDataset(varid, [old EXCEPT !.fill = Default, !.atts = Unlinked(old.atts, FillAtt)])
    BY <1>1, <1>2 DEF ESDM_def_var_fill
  <2>2. /\ UInv' /\ OInv' /\ UNCHANGED saved /\ ds # Absent /\ varid \in DOMAIN ds.vars
        /\ AttDeleted(varid, FillAtt, old.fill, Default)
    BY <1>1, <2>1, DeleteMeans
  <2>3. AbstractDataset!NoFill(varid)
    BY <2>2, Zenon DEF AttDeleted, BothSet, AbstractDataset!NoFill
  <2> QED
    BY <2>2, <2>3, ChangeRefines DEF AbstractDataset!Change
<1>3. CASE value # Default
  <2>1. SetDataset(varid, [old EXCEPT !.fill = value, !.atts = Linked(old.atts, FillAtt, value)])
    BY <1>1, <1>3 DEF ESDM_def_var_fill
  <2>2. value = IF FillAtt = FillAtt THEN value ELSE old.fill
    OBVIOUS
  <2>3. value \in Values
    BY <1>3, MemoryAssumption
  <2> QED
    BY <1>1, <2>1, <2>2, <2>3, PutMeans
<1> QED
  BY <1>2, <1>3

(* ESDM_rename_att, whichever attribute the number that was not set means  *)
LEMMA RenameAttMeans ==
  ASSUME RInv, AbsentIsNone, Mapped', "taken" \notin Unusual, IsOpen,
         NEW varid \in DOMAIN e.vars, NEW name \in AttNames, NEW new \in AttNames,
         ESDM_rename_att(varid, name, new)
  PROVE  Implements
<1>1. PICK old \in Dataset : /\ old = e.c.datasets[varid] /\ e.vars[varid].dset = varid
                             /\ old.atts \in Seq(Att) /\ UniqueNames(old.atts)
  BY OldDataset
<1>2. PICK atts \in AttsRenamed(old.atts, name, new) :
        SetDataset(varid, [old EXCEPT !.atts = atts])
  BY <1>1 DEF ESDM_rename_att
<1>3. PICK f : f = AsFunction(old.atts)
  OBVIOUS
<1>4. /\ atts \in Seq(Att) /\ UniqueNames(atts)
      /\ \E was \in AttNames : /\ was \in DOMAIN f /\ new \notin DOMAIN f
                               /\ AsFunction(atts) = Renamed(f, was, new)
  BY <1>1, <1>2, <1>3, AttsRenamedIs, AttsRenamedMeans
<1>5. PICK was \in AttNames : /\ was \in DOMAIN f /\ new \notin DOMAIN f
                              /\ AsFunction(atts) = Renamed(f, was, new)
  BY <1>4
<1>6. PICK d : d = [old EXCEPT !.atts = atts]
  OBVIOUS
<1>7. SetDataset(varid, d)
  BY <1>2, <1>6
<1>8. d \in Dataset /\ d.dims = old.dims /\ d.atts = atts /\ d.fill = old.fill /\ d.name = old.name
  BY <1>4, <1>6 DEF Dataset
<1>9. UniqueNames(d.atts)
  BY <1>4, <1>8
<1>10. /\ UInv' /\ OInv' /\ UNCHANGED saved /\ ds # Absent /\ varid \in DOMAIN ds.vars
       /\ ds.vars[varid].atts = AsFunction(old.atts)
       /\ ds' = AttsSet(ds, varid, AsFunction(d.atts))
  BY <1>1, <1>7, <1>8, <1>9, VariableSteps
<1>11. ds.vars[varid].atts = f
  BY <1>3, <1>10
<1>12. AsFunction(d.atts) = AbstractDataset!Renamed(ds.vars[varid].atts, was, new)
  BY <1>5, <1>8, <1>11 DEF Renamed, With, Without, AbstractDataset!Renamed,
                         AbstractDataset!With, AbstractDataset!Without
<1>13. was \in DOMAIN ds.vars[varid].atts /\ new \notin DOMAIN ds.vars[varid].atts
  BY <1>5, <1>11
<1>14. AbstractDataset!RenameAtt(varid, was, new)
  BY <1>10, <1>12, <1>13, Zenon DEF AttsSet, AbstractDataset!RenameAtt
<1> QED
  BY <1>10, <1>14, ChangeRefines DEF AbstractDataset!Change

-----------------------------------------------------------------------------
(* The attributes of the dataset as a whole *)

GlobalSet(m, b) == [m EXCEPT !.atts = b]
LEMMA GlobalMeans ==
  ASSUME RInv, AbsentIsNone, Mapped', IsOpen, NEW atts \in Seq(Att), UniqueNames(atts),
         SetGlobal(atts)
  PROVE  /\ UInv' /\ OInv' /\ UNCHANGED saved /\ ds # Absent
         /\ e.c.atts \in Seq(Att) /\ UniqueNames(e.c.atts)
         /\ ds.atts = AsFunction(e.c.atts) /\ ds' = GlobalSet(ds, AsFunction(atts))
<1>1. /\ Inv /\ AttsUnique(e.c) /\ e.original_nc /\ UNCHANGED store
  BY DEF RInv, UInv, OInv, IsOpen, SetGlobal
<1>2. /\ e' \in Handle /\ Follows(e')
      /\ e'.dimt = e.dimt /\ e'.c.atts = atts /\ e'.original_nc = e.original_nc
      /\ e'.c.datasets = e.c.datasets
  BY <1>1, GlobalKept
<1>3. PICK f, a, b : /\ f = Sizes(e.dimt) /\ a = AsFunction(e.c.atts)
                     /\ b = AsFunction(atts)
  OBVIOUS
<1>4. PICK v : v = VarsOf(e)
  OBVIOUS
<1>5. VarsOf(e') = v
  BY <1>2, <1>4 DEF VarsOf
<1>6. /\ ds = [dims |-> f, vars |-> v, atts |-> a]
      /\ ds' = [dims |-> f, vars |-> v, atts |-> b]
      /\ UNCHANGED saved /\ ds # Absent
  BY <1>1, <1>2, <1>3, <1>4, <1>5, ChangeMeans
<1>7. ds.atts = a /\ ds' = GlobalSet(ds, b)
  BY <1>6 DEF GlobalSet
<1>8. UInv' /\ OInv'
  <2>1. AttsUnique(e'.c)
    BY <1>1, <1>2 DEF AttsUnique
  <2> QED
    BY <1>1, <1>2, <2>1, OpenInvs
<1>9. e.c.atts \in Seq(Att) /\ UniqueNames(e.c.atts)
  BY <1>1 DEF Inv, IsOpen, Handle, Container, AttsUnique
<1> QED
  BY <1>3, <1>6, <1>7, <1>8, <1>9

LEMMA GlobalsMean ==
  ASSUME RInv, AbsentIsNone, Mapped', "taken" \notin Unusual, IsOpen, NEW name \in AttNames,
         \/ del_att_global(name)
         \/ \E new \in AttNames : rename_att_global(name, new)
         \/ \E m \in Memory : put_att_global(name, m)
  PROVE  Implements
<1>1. PICK t \in Seq(Att) : t = e.c.atts /\ UniqueNames(t)
  BY DEF RInv, Inv, UInv, IsOpen, Handle, Container, AttsUnique
<1>2. CASE del_att_global(name)
  <2>1. PICK r : r = Unlinked(t, name)
    OBVIOUS
  <2>2. /\ r \in Seq(Att) /\ UniqueNames(r) /\ SetGlobal(r)
        /\ AsFunction(r) = Without(AsFunction(t), name)
    BY <1>1, <1>2, <2>1, UnlinkedIs, UnlinkedMeans DEF del_att_global
  <2>3. /\ UInv' /\ OInv' /\ UNCHANGED saved /\ ds # Absent
        /\ ds.atts = AsFunction(t) /\ ds' = GlobalSet(ds, AsFunction(r))
    BY <1>1, <2>2, GlobalMeans
  <2>4. AsFunction(r) = AbstractDataset!Without(ds.atts, name)
    BY <2>2, <2>3 DEF Without, AbstractDataset!Without
  <2>5. AbstractDataset!DelGlobal(name)
    BY <2>3, <2>4 DEF GlobalSet, AbstractDataset!DelGlobal
  <2> QED
    BY <2>3, <2>5, ChangeRefines DEF AbstractDataset!Change
<1>3. ASSUME NEW value \in Values, SetGlobal(Linked(t, name, value))
      PROVE  Implements
  <2>1. PICK r : r = Linked(t, name, value)
    OBVIOUS
  <2>2. /\ r \in Seq(Att) /\ UniqueNames(r) /\ SetGlobal(r)
        /\ AsFunction(r) = With(AsFunction(t), name, value)
    BY <1>1, <1>3, <2>1, LinkedIs, LinkedMeans
  <2>3. /\ UInv' /\ OInv' /\ UNCHANGED saved /\ ds # Absent
        /\ ds.atts = AsFunction(t) /\ ds' = GlobalSet(ds, AsFunction(r))
    BY <1>1, <2>2, GlobalMeans
  <2>4. AsFunction(r) = AbstractDataset!With(ds.atts, name, value)
    BY <2>2, <2>3 DEF With, AbstractDataset!With
  <2>5. AbstractDataset!PutGlobal(name, value)
    BY <2>3, <2>4 DEF GlobalSet, AbstractDataset!PutGlobal
  <2> QED
    BY <2>3, <2>5, ChangeRefines DEF AbstractDataset!Change
<1>4. ASSUME NEW new \in AttNames, rename_att_global(name, new)
      PROVE  Implements
  <2>1. PICK r \in AttsRenamed(t, name, new) : SetGlobal(r)
    BY <1>1, <1>4 DEF rename_att_global
  <2>2. PICK f : f = AsFunction(t)
    OBVIOUS
  <2>3. /\ r \in Seq(Att) /\ UniqueNames(r)
        /\ \E was \in AttNames : /\ was \in DOMAIN f /\ new \notin DOMAIN f
                                 /\ AsFunction(r) = Renamed(f, was, new)
    BY <1>1, <2>1, <2>2, AttsRenamedIs, AttsRenamedMeans
  <2>4. PICK was \in AttNames : /\ was \in DOMAIN f /\ new \notin DOMAIN f
                                /\ AsFunction(r) = Renamed(f, was, new)
    BY <2>3
  <2>5. /\ UInv' /\ OInv' /\ UNCHANGED saved /\ ds # Absent
        /\ ds.atts = AsFunction(t) /\ ds' = GlobalSet(ds, AsFunction(r))
    BY <1>1, <2>1, <2>3, GlobalMeans
  <2>6. AsFunction(r) = AbstractDataset!Renamed(ds.atts, was, new)
    BY <2>2, <2>4, <2>5 DEF Renamed, With, Without, AbstractDataset!Renamed,
                            AbstractDataset!With, AbstractDataset!Without
  <2>7. AbstractDataset!RenameGlobal(was, new)
    BY <2>2, <2>4, <2>5, <2>6 DEF GlobalSet, AbstractDataset!RenameGlobal
  <2> QED
    BY <2>5, <2>7, ChangeRefines DEF AbstractDataset!Change
<1>5. ASSUME NEW m \in Memory, put_att_global(name, m)
      PROVE  Implements
  <2>1. PICK value \in Values : value = Converted[m]
    BY MemoryAssumption
  <2>2. SetGlobal(Linked(t, name, value))
    BY <1>1, <1>5, <2>1 DEF put_att_global
  <2> QED
    BY <1>3, <2>2
<1> QED
  BY <1>2, <1>4, <1>5

(* All of them together                                                    *)
LEMMA AttributesMean ==
  ASSUME RInv, AbsentIsNone, Mapped', "taken" \notin Unusual,
         "mistyped_fill" \notin Unusual, IsOpen, Attributes
  PROVE  Implements
<1>1. CASE \E varid \in DOMAIN e.vars :
             \/ \E value \in {Raw[m] : m \in Typed} \cup {Default} :
                  FillAtt \in AttNames /\ ESDM_def_var_fill(varid, value)
             \/ \E name \in AttNames :
                  \/ ESDM_del_att(varid, name)
                  \/ \E new \in AttNames : ESDM_rename_att(varid, name, new)
                  \/ \E m \in Memory : ESDM_put_att(varid, name, m)
  BY <1>1, DefVarFillMeans, DelAttMeans, RenameAttMeans, PutAttMeans
<1>2. CASE \E name \in AttNames :
             \/ del_att_global(name)
             \/ \E new \in AttNames : rename_att_global(name, new)
             \/ \E m \in Memory : put_att_global(name, m)
  <2>1. PICK name \in AttNames :
             \/ del_att_global(name)
             \/ \E new \in AttNames : rename_att_global(name, new)
             \/ \E m \in Memory : put_att_global(name, m)
    BY <1>2
  <2> QED
    BY <2>1, GlobalsMean
<1> QED
  BY <1>1, <1>2 DEF Attributes

LEMMA StepMeans ==
  ASSUME RInv, AbsentIsNone, {"redefine", "taken", "mistyped_fill"} \cap Unusual = {},
         [MeaningNext]_<<vars, ds, saved>>
  PROVE  RInv' /\ [AbstractDataset!Next]_<<ds, saved>>
<1>1. /\ "redefine" \notin Unusual /\ "taken" \notin Unusual
      /\ "mistyped_fill" \notin Unusual
  OBVIOUS
<1>2. CASE UNCHANGED <<vars, ds, saved>>
  BY <1>2 DEF vars, RInv, Inv, EInv, UInv, OInv, Mapped
<1>3. CASE MeaningNext
  <2>1. Next /\ Mapped'
    BY <1>3 DEF MeaningNext, Mapped
  <2>2. Inv' /\ EInv'
    BY <1>1, <2>1, StepKept DEF RInv, Kept
  <2>3. Implements
    <3>1. CASE ESDM_create
      BY <2>1, <2>2, <3>1, CreateMeans
    <3>2. CASE ESDM_open \/ ESDM_close \/ ESDM_abort \/ ESDM_redef \/ ESDM__enddef \/ ESDM_sync
      BY <2>1, <3>2, OpenMeans, CommitsMean, RestMeans
    <3>3. CASE \E name \in DimNames, len \in Lengths : ESDM_def_dim(name, len)
      BY <1>1, <2>1, <2>2, <3>3, DefDimMeans
    <3>4. CASE \E name \in DimNames, dimid \in 1 .. MaxDims : ESDM_rename_dim(dimid, name)
      BY <2>1, <2>2, <3>4, RenameDimMeans
    <3>5. CASE \E name \in VarNames, varid \in 1 .. MaxVars : ESDM_rename_var(varid, name)
      BY <1>1, <2>1, <3>5, RenameVarMeans
    <3>6. CASE \E name \in VarNames, rank \in 0 .. MaxRank :
                 \E dimids \in [1 .. rank -> 1 .. MaxDims] : ESDM_def_var(name, dimids)
      BY <2>1, <2>2, <3>6, DefVarMeans
    <3>7. CASE IsOpen /\ Attributes
      BY <1>1, <2>1, <3>7, AttributesMean
    <3> QED
      BY <2>1, <3>1, <3>2, <3>3, <3>4, <3>5, <3>6, <3>7 DEF Next
  <2> QED
    BY <2>1, <2>2, <2>3 DEF Implements, RInv
<1> QED
  BY <1>2, <1>3

(* The containers of the start were written by netCDF, which leaves no     *)
(* name of an attribute twice.                                             *)
ForeignWritten == \A c \in Foreign : c.nc_dims # {} /\ AttsUnique(c)

(* A dataset in ESDM is a netCDF dataset: every call of the driver changes *)
(* what it should and nothing else, or nothing at all; what was committed  *)
(* is what opening it again finds, and what was not is lost as a whole.    *)
(* Clients do not give a dimension another length, nor rename to a name    *)
(* that is taken, for which netCDF has errors and the driver has none, nor *)
(* put a fill value from memory of another type.                           *)
THEOREM DatasetIsNetCDF ==
  ASSUME ForeignFit, ForeignWritten, AbsentIsNone,
         {"redefine", "taken", "mistyped_fill"} \cap Unusual = {}
  PROVE  MeaningSpec => IsDataset
<1>1. MeaningInit => RInv /\ AbstractDataset!Init
  <2> SUFFICES ASSUME MeaningInit
               PROVE  RInv /\ AbstractDataset!Init
    OBVIOUS
  <2>1. /\ store = NoContainer \/ store \in Foreign
        /\ e = Closed /\ defining = FALSE
        /\ ds = CurrentIn(store, e) /\ saved = SavedIn(store)
    BY DEF MeaningInit, Init
  <2>2. Inv /\ EInv
    BY <2>1 DEF Inv, EInv, ForeignFit
  <2>3. UInv /\ OInv
    BY <2>1 DEF UInv, OInv, ForeignWritten
  <2>4. ds = saved
    BY <2>1 DEF CurrentIn
  <2> QED
    BY <2>1, <2>2, <2>3, <2>4 DEF RInv, Mapped, AbstractDataset!Init
<1>2. RInv /\ [MeaningNext]_<<vars, ds, saved>>
        => RInv' /\ [AbstractDataset!Next]_AbstractDataset!vars
  BY StepMeans DEF AbstractDataset!vars
<1> QED
  BY <1>1, <1>2, PTL DEF MeaningSpec, IsDataset, AbstractDataset!Spec
=============================================================================
