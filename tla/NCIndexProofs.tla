--------------------------- MODULE NCIndexProofs ----------------------------
(* What the checked run of NCIndex shows for four names, for any names,    *)
(* hashes, table of primes and bound on the list.                          *)
EXTENDS NCIndex, DataFacts

USE HashAssumption, BoundAssumption

-----------------------------------------------------------------------------
(* Tables *)

(* Probing for the key of slot i comes to it before an empty slot and      *)
(* before another slot with that key.                                      *)
Reached(m, i) ==
  \E p \in Slots(m) :
    /\ Probe(m, m.table[i].key, p) = i
    /\ \A q \in 0 .. p - 1 :
         /\ m.table[Probe(m, m.table[i].key, q)].flags # "EMPTY"
         /\ m.table[Probe(m, m.table[i].key, q)].key # m.table[i].key

TableOK(m) ==
  /\ m \in [alloc : Nat, active : Nat, table : [Slots(m) -> Entry]]
  /\ \A i \in Slots(m) : IF m.table[i].flags = "ACTIVE" THEN m.table[i].key \in Names
                                                        ELSE m.table[i].key = NoName
  /\ \A i \in Active(m) : Reached(m, i)
  /\ m.active = Cardinality(Active(m))

(* What locate looks for first: where a search for a name ends             *)
Stops(m, name) ==
  {p \in Slots(m) : \/ m.table[Probe(m, name, p)].flags = "EMPTY"
                    \/ m.table[Probe(m, name, p)].key = name}
Graves(m, name) == {p \in Slots(m) : m.table[Probe(m, name, p)].flags = "DELETED"}

(* The remainder of a division, which is all that % is needed for here     *)
LEMMA Modulo ==
  ASSUME NEW h \in Nat, NEW n \in Nat \ {0}
  PROVE  /\ h % n \in 0 .. n - 1
         /\ h = n * (h \div n) + (h % n) /\ h \div n \in Nat
         /\ \A q \in Nat, r \in 0 .. n - 1 : h = n * q + r => h % n = r
<1>1. h % n \in 0 .. n - 1
  OBVIOUS
<1>2. h = n * (h \div n) + (h % n) /\ h \div n \in Nat
  OBVIOUS
<1>3. \A q \in Nat, r \in 0 .. n - 1 : h = n * q + r => h % n = r
  OBVIOUS
<1> QED
  BY <1>1, <1>2, <1>3

(* Probing visits slots of the table, and every one of them.               *)
LEMMA ProbesAll ==
  ASSUME NEW m, m.alloc \in Nat \ {0}, NEW name \in Names
  PROVE  /\ \A p \in Slots(m) : Probe(m, name, p) \in Slots(m)
         /\ \A s \in Slots(m) : \E p \in Slots(m) : Probe(m, name, p) = s
<1>1. PICK n \in Nat \ {0} : n = m.alloc
  OBVIOUS
<1>2. PICK h \in Nat : h = HashKey[name]
  OBVIOUS
<1>3. ASSUME NEW p \in 0 .. n - 1
      PROVE  (h + p) % n \in 0 .. n - 1
  <2>1. h + p \in Nat
    OBVIOUS
  <2> QED
    BY <2>1, Modulo
<1>4. ASSUME NEW s \in 0 .. n - 1
      PROVE  \E p \in 0 .. n - 1 : (h + p) % n = s
  <2>1. PICK r \in 0 .. n - 1, q \in Nat : h = n * q + r
    BY Modulo
  <2>2. CASE r <= s
    <3>1. s - r \in 0 .. n - 1 /\ h + (s - r) = n * q + s /\ h + (s - r) \in Nat
      BY <2>1, <2>2
    <3>2. (h + (s - r)) % n = s
      BY <3>1, Modulo
    <3> QED
      BY <3>1, <3>2
  <2>3. CASE s < r
    <3>1. s - r + n \in 0 .. n - 1 /\ h + (s - r + n) \in Nat /\ q + 1 \in Nat
      BY <2>1, <2>3
    <3>2. n * (q + 1) = n * q + n
      OBVIOUS
    <3>3. h + (s - r + n) = n * (q + 1) + s
      <4>1. n * q \in Int
        OBVIOUS
      <4> QED
        BY <2>1, <3>2, <4>1
    <3>4. (h + (s - r + n)) % n = s
      <4>1. PICK g \in Nat : g = h + (s - r + n)
        BY <3>1
      <4>2. g = n * (q + 1) + s
        BY <3>3, <4>1
      <4>3. \A k \in Nat, t \in 0 .. n - 1 : g = n * k + t => g % n = t
        BY Modulo
      <4>4. g % n = s
        BY <3>1, <4>2, <4>3, Zenon
      <4> QED
        BY <4>1, <4>4
    <3> QED
      BY <3>1, <3>4
  <2> QED
    BY <2>2, <2>3
<1> QED
  BY <1>1, <1>2, <1>3, <1>4 DEF Probe, Slots

(* Where a search ends: at a slot that stops it, else in a deleted slot if *)
(* one is wanted, else nowhere.                                            *)
LEMMA Located ==
  ASSUME NEW m, TableOK(m), NEW name \in Names, NEW ok \in BOOLEAN, NEW at,
         at = locate(m, name, ok)
  PROVE  \/ /\ at \in Slots(m)
            /\ \E p \in Stops(m, name) :
                 at = Probe(m, name, p) /\ \A q \in Stops(m, name) : p <= q
         \/ /\ Stops(m, name) = {} /\ ok
            /\ at \in Slots(m)
            /\ \E p \in Graves(m, name) :
                 at = Probe(m, name, p) /\ \A q \in Graves(m, name) : p <= q
         \/ /\ Stops(m, name) = {} /\ at = m.alloc
            /\ ok => Graves(m, name) = {}
<1>1. m.alloc \in Nat
  BY DEF TableOK
<1>2. Stops(m, name) \subseteq Nat /\ Graves(m, name) \subseteq Nat
  BY <1>1 DEF Stops, Graves, Slots
<1>3. \A p \in Slots(m) : Probe(m, name, p) \in Slots(m)
  <2>1. CASE m.alloc = 0
    BY <2>1 DEF Slots
  <2>2. CASE m.alloc # 0
    BY <1>1, <2>2, ProbesAll
  <2> QED
    BY <2>1, <2>2
<1>4. at = CASE Stops(m, name) # {} -> Probe(m, name, Min(Stops(m, name)))
             [] Stops(m, name) = {} /\ ok /\ Graves(m, name) # {} ->
                  Probe(m, name, Min(Graves(m, name)))
             [] OTHER -> m.alloc
  BY DEF locate, Stops, Graves
<1>5. CASE Stops(m, name) # {}
  <2>1. PICK p \in Stops(m, name) : /\ p = Min(Stops(m, name))
                                    /\ \A q \in Stops(m, name) : p <= q
    BY <1>2, <1>5, MinIs
  <2>2. at = Probe(m, name, p)
    BY <1>4, <1>5, <2>1
  <2>3. p \in Slots(m)
    BY <2>1 DEF Stops
  <2> QED
    BY <1>3, <2>1, <2>2, <2>3
<1>6. CASE Stops(m, name) = {} /\ ok /\ Graves(m, name) # {}
  <2>1. PICK p \in Graves(m, name) : /\ p = Min(Graves(m, name))
                                     /\ \A q \in Graves(m, name) : p <= q
    BY <1>2, <1>6, MinIs
  <2>2. at = Probe(m, name, p)
    BY <1>4, <1>6, <2>1
  <2>3. p \in Slots(m)
    BY <2>1 DEF Graves
  <2> QED
    BY <1>3, <1>6, <2>1, <2>2, <2>3
<1>7. CASE Stops(m, name) = {} /\ ~(ok /\ Graves(m, name) # {})
  BY <1>4, <1>7
<1> QED
  BY <1>5, <1>6, <1>7

(* An active slot is the one that probing for its key finds.               *)
LEMMA LocateActive ==
  ASSUME NEW m, TableOK(m), NEW i \in Active(m), NEW ok \in BOOLEAN
  PROVE  locate(m, m.table[i].key, ok) = i
<1>1. PICK name \in Names : name = m.table[i].key
  BY DEF TableOK, Active
<1>2. PICK p \in Slots(m) :
        /\ Probe(m, name, p) = i
        /\ \A q \in 0 .. p - 1 : /\ m.table[Probe(m, name, q)].flags # "EMPTY"
                                 /\ m.table[Probe(m, name, q)].key # name
  BY <1>1 DEF TableOK, Reached
<1>3. p \in Stops(m, name)
  BY <1>1, <1>2 DEF Stops
<1>4. \A q \in Stops(m, name) : q \in Nat /\ ~(q \in 0 .. p - 1)
  BY <1>2 DEF Stops, Slots, TableOK
<1>5. PICK k \in Stops(m, name) : /\ locate(m, name, ok) = Probe(m, name, k)
                                  /\ \A q \in Stops(m, name) : k <= q
  BY <1>3, Located
<1>6. p \in Nat /\ k \in Nat /\ k <= p /\ ~(k \in 0 .. p - 1)
  BY <1>3, <1>4, <1>5
<1>7. k = p
  BY <1>6
<1> QED
  BY <1>1, <1>2, <1>5, <1>7

(* No two active slots have the same key.                                  *)
LEMMA KeysDiffer ==
  ASSUME NEW m, TableOK(m), NEW i \in Active(m), NEW j \in Active(m),
         m.table[i].key = m.table[j].key
  PROVE  i = j
<1>1. locate(m, m.table[i].key, TRUE) = i /\ locate(m, m.table[j].key, TRUE) = j
  BY LocateActive
<1> QED
  BY <1>1

(* A name that an active slot has is found, with this slot's data.         *)
LEMMA GetIs ==
  ASSUME NEW m, TableOK(m), NEW i \in Active(m)
  PROVE  /\ Has(m, m.table[i].key) /\ locate(m, m.table[i].key, FALSE) = i
         /\ NC_hashmapget(m, m.table[i].key) = m.table[i].data
<1>1. locate(m, m.table[i].key, FALSE) = i
  BY LocateActive
<1>2. PICK n \in Nat : n = m.alloc
  BY DEF TableOK
<1>3. i \in 0 .. n - 1 /\ m.table[i].flags = "ACTIVE"
  BY <1>2 DEF Active, Slots
<1>4. i # n
  BY <1>3
<1> QED
  BY <1>1, <1>2, <1>3, <1>4 DEF Has, NC_hashmapget

(* A name is found only when an active slot has it.                        *)
LEMMA HasIs ==
  ASSUME NEW m, TableOK(m), NEW name \in Names, Has(m, name)
  PROVE  \E i \in Active(m) : m.table[i].key = name
<1>1. PICK at : at = locate(m, name, FALSE)
  OBVIOUS
<1>2. at # m.alloc /\ m.table[at].flags = "ACTIVE"
  BY <1>1 DEF Has
<1>3. PICK p \in Stops(m, name) : at \in Slots(m) /\ at = Probe(m, name, p)
  BY <1>1, <1>2, Located
<1>4. m.table[at].flags # "EMPTY"
  BY <1>2
<1>5. m.table[at].key = name
  BY <1>3, <1>4 DEF Stops
<1> QED
  BY <1>2, <1>3, <1>5 DEF Active

(* m2 is m with e in slot at, and no other slot has the key of e.          *)
Writes(m, at, e, m2) ==
  /\ TableOK(m) /\ at \in Slots(m) /\ e \in Entry /\ e.flags # "EMPTY"
  /\ \A i \in Active(m) \ {at} : m.table[i].key # e.key
  /\ m2.alloc = m.alloc /\ m2.table = [m.table EXCEPT ![at] = e]

(* The other active slots stay what they were and are reached as before.   *)
LEMMA Written ==
  ASSUME NEW m, NEW at, NEW e, NEW m2, Writes(m, at, e, m2)
  PROVE  /\ Slots(m2) = Slots(m) /\ m2.table \in [Slots(m) -> Entry]
         /\ m2.table[at] = e /\ \A i \in Slots(m) \ {at} : m2.table[i] = m.table[i]
         /\ Active(m2) = IF e.flags = "ACTIVE" THEN Active(m) \cup {at}
                                               ELSE Active(m) \ {at}
         /\ \A i \in Active(m) \ {at} : Reached(m2, i)
<1> USE DEF Writes
<1>1. m.table \in [Slots(m) -> Entry]
  BY DEF TableOK
<1>2. Slots(m2) = Slots(m)
  BY DEF Slots
<1>3. /\ m2.table \in [Slots(m) -> Entry] /\ m2.table[at] = e
      /\ \A i \in Slots(m) \ {at} : m2.table[i] = m.table[i]
  BY <1>1
<1>4. Active(m2) = IF e.flags = "ACTIVE" THEN Active(m) \cup {at} ELSE Active(m) \ {at}
  BY <1>2, <1>3 DEF Active
<1>5. ASSUME NEW i \in Active(m) \ {at}
      PROVE  Reached(m2, i)
  <2>1. PICK k \in Names : k = m.table[i].key
    BY DEF TableOK, Active
  <2>2. PICK p \in Slots(m) :
          /\ Probe(m, k, p) = i
          /\ \A q \in 0 .. p - 1 : /\ m.table[Probe(m, k, q)].flags # "EMPTY"
                                   /\ m.table[Probe(m, k, q)].key # k
    BY <2>1 DEF TableOK, Reached
  <2>3. \A q \in Slots(m) : Probe(m2, k, q) = Probe(m, k, q)
    BY DEF Probe
  <2>4. i \in Slots(m) /\ m2.table[i].key = k
    BY <1>3, <2>1 DEF Active
  <2>5. ASSUME NEW q \in 0 .. p - 1
        PROVE  /\ m2.table[Probe(m2, k, q)].flags # "EMPTY"
               /\ m2.table[Probe(m2, k, q)].key # k
    <3>1. PICK n \in Nat : n = m.alloc
      BY DEF TableOK
    <3>2. q \in 0 .. n - 1 /\ n # 0
      BY <2>2, <3>1 DEF Slots
    <3>3. q \in Slots(m) /\ m.alloc \in Nat \ {0}
      BY <3>1, <3>2 DEF Slots
    <3>4. PICK s \in Slots(m) : s = Probe(m, k, q)
      BY <3>3, ProbesAll
    <3>5. m.table[s].flags # "EMPTY" /\ m.table[s].key # k /\ e.key # k
      BY <2>1, <2>2, <3>4
    <3>6. m2.table[s].flags # "EMPTY" /\ m2.table[s].key # k
      BY <1>3, <3>5
    <3> QED
      BY <2>3, <3>3, <3>4, <3>6
  <2>6. p \in Slots(m2) /\ Probe(m2, k, p) = i
    BY <1>2, <2>2, <2>3
  <2> QED
    BY <2>4, <2>5, <2>6 DEF Reached
<1> QED
  BY <1>2, <1>3, <1>4, <1>5

(* The active slots can be counted.                                        *)
LEMMA ActiveFinite ==
  ASSUME NEW m, TableOK(m)
  PROVE  IsFiniteSet(Active(m)) /\ Cardinality(Active(m)) \in Nat
<1>1. m.alloc \in Nat
  BY DEF TableOK
<1>2. IsFiniteSet(Slots(m))
  BY <1>1, FS_Interval DEF Slots
<1>3. IsFiniteSet(Active(m))
  BY <1>2, FS_Subset DEF Active
<1> QED
  BY <1>3, FS_CardinalityType

(* There is a slot for the name: the one that has it, or one to reuse.     *)
PlaceFor(m, name, at) ==
  TableOK(m) /\ name \in Names /\ at = locate(m, name, TRUE) /\ at # m.alloc

(* NC_hashmapadd once there is room                                        *)
LEMMA PlacedOK ==
  ASSUME NEW m, NEW name, NEW data \in Nat, NEW at, PlaceFor(m, name, at)
  PROVE  /\ TableOK(Placed(m, name, data))
         /\ Placed(m, name, data).alloc = m.alloc
         /\ at \in Slots(m) /\ Active(Placed(m, name, data)) = Active(m) \cup {at}
         /\ Placed(m, name, data).table[at] =
              [flags |-> "ACTIVE", key |-> name, data |-> data]
         /\ \A i \in Active(m) : m.table[i].key = name => i = at
         /\ \A i \in Active(m) \ {at} :
              Placed(m, name, data).table[i] = m.table[i]
         /\ at \in Active(m) => m.table[at].key = name
         /\ Placed(m, name, data).active =
              IF at \in Active(m) THEN m.active ELSE m.active + 1
<1>1. TableOK(m) /\ name \in Names
  BY DEF PlaceFor
<1>2. PICK m2 : m2 = Placed(m, name, data)
  OBVIOUS
<1>3. PICK e : e = [flags |-> "ACTIVE", key |-> name, data |-> data]
  OBVIOUS
<1>4. e \in Entry /\ e.flags = "ACTIVE" /\ e.key = name /\ e.flags # "EMPTY"
  BY <1>3, <1>1 DEF Entry
<1>5. /\ at \in Slots(m)
      /\ \/ \E p \in Stops(m, name) :
              at = Probe(m, name, p) /\ \A q \in Stops(m, name) : p <= q
         \/ /\ Stops(m, name) = {}
            /\ \E p \in Graves(m, name) :
                 at = Probe(m, name, p) /\ \A q \in Graves(m, name) : p <= q
  BY Located DEF PlaceFor
<1>6. /\ m2.alloc = m.alloc /\ m2.table = [m.table EXCEPT ![at] = e]
      /\ m2.active = IF m.table[at].flags = "ACTIVE" THEN m.active ELSE m.active + 1
      /\ m2 = [alloc |-> m2.alloc, active |-> m2.active, table |-> m2.table]
  BY <1>2, <1>3, <1>1 DEF Placed, TableOK, PlaceFor
<1>7. \A i \in Active(m) : m.table[i].key = name => i = at
  BY LocateActive, ZenonT(60) DEF PlaceFor
<1>8. at \in Active(m) <=> m.table[at].flags = "ACTIVE"
  BY <1>5 DEF Active
<1>9. at \in Active(m) => m.table[at].key = name
  <2> SUFFICES ASSUME m.table[at].flags = "ACTIVE"
               PROVE  m.table[at].key = name
    BY <1>8
  <2>1. m.table[at].flags # "EMPTY" /\ m.table[at].flags # "DELETED"
    OBVIOUS
  <2> QED
    BY <1>5, <2>1 DEF Stops, Graves
<1>10. /\ Slots(m2) = Slots(m) /\ m2.table \in [Slots(m) -> Entry]
       /\ m2.table[at] = e /\ \A i \in Slots(m) \ {at} : m2.table[i] = m.table[i]
       /\ Active(m2) = Active(m) \cup {at}
       /\ \A i \in Active(m) \ {at} : Reached(m2, i)
  <2>1. \A i \in Active(m) \ {at} : m.table[i].key # e.key
    BY <1>7, <1>4
  <2>2. m2.alloc = m.alloc /\ m2.table = [m.table EXCEPT ![at] = e] /\ at \in Slots(m)
    BY <1>5, <1>6
  <2>3. Writes(m, at, e, m2)
    BY <1>1, <1>4, <2>1, <2>2 DEF Writes
  <2>4. Active(m2) = IF e.flags = "ACTIVE" THEN Active(m) \cup {at}
                                           ELSE Active(m) \ {at}
    BY <2>3, Written
  <2>5. /\ Slots(m2) = Slots(m) /\ m2.table \in [Slots(m) -> Entry]
        /\ m2.table[at] = e /\ \A i \in Slots(m) \ {at} : m2.table[i] = m.table[i]
        /\ \A i \in Active(m) \ {at} : Reached(m2, i)
    BY <2>3, Written
  <2> QED
    BY <1>4, <2>4, <2>5
<1>11. Reached(m2, at)
  <2>1. PICK n \in Nat : n = m.alloc
    BY <1>1 DEF TableOK
  <2>2. PICK p \in Slots(m) :
          /\ at = Probe(m, name, p)
          /\ \A q \in Slots(m) : q < p =>
               /\ m.table[Probe(m, name, q)].flags # "EMPTY"
               /\ m.table[Probe(m, name, q)].key # name
               /\ Probe(m, name, q) # at
    <3>1. CASE Stops(m, name) # {}
      <4>1. PICK p \in Stops(m, name) :
              at = Probe(m, name, p) /\ \A q \in Stops(m, name) : p <= q
        BY <1>5, <3>1
      <4>2. p \in Slots(m) /\ p \in Nat
        BY <2>1, <4>1 DEF Stops, Slots
      <4>3. ASSUME NEW q \in Slots(m), q < p
            PROVE  q \notin Stops(m, name)
        <5>1. q \in Nat
          BY <2>1 DEF Slots
        <5>2. ~(p <= q)
          BY <4>2, <4>3, <5>1
        <5> QED
          BY <4>1, <5>2
      <4>4. ASSUME NEW q \in Slots(m), q \notin Stops(m, name)
            PROVE  Probe(m, name, q) # at
        BY <4>1, <4>4 DEF Stops
      <4>5. ASSUME NEW q \in Slots(m), q \notin Stops(m, name)
            PROVE  /\ m.table[Probe(m, name, q)].flags # "EMPTY"
                   /\ m.table[Probe(m, name, q)].key # name
        BY <4>5 DEF Stops
      <4> QED
        BY <4>1, <4>2, <4>3, <4>4, <4>5
    <3>2. CASE Stops(m, name) = {}
      <4>1. PICK p \in Graves(m, name) :
              at = Probe(m, name, p) /\ \A q \in Graves(m, name) : p <= q
        BY <1>5, <3>2
      <4>2. p \in Slots(m) /\ p \in Nat
        BY <2>1, <4>1 DEF Graves, Slots
      <4>3. ASSUME NEW q \in Slots(m), q < p
            PROVE  q \notin Graves(m, name)
        <5>1. q \in Nat
          BY <2>1 DEF Slots
        <5>2. ~(p <= q)
          BY <4>2, <4>3, <5>1
        <5> QED
          BY <4>1, <5>2
      <4>4. ASSUME NEW q \in Slots(m), q \notin Graves(m, name)
            PROVE  Probe(m, name, q) # at
        BY <4>1, <4>4 DEF Graves
      <4>5. ASSUME NEW q \in Slots(m)
            PROVE  /\ m.table[Probe(m, name, q)].flags # "EMPTY"
                   /\ m.table[Probe(m, name, q)].key # name
        BY <3>2 DEF Stops
      <4> QED
        BY <4>1, <4>2, <4>3, <4>4, <4>5
    <3> QED
      BY <3>1, <3>2
  <2>3. \A q \in 0 .. p - 1 : q \in Slots(m) /\ q < p
    BY <2>1, <2>2 DEF Slots
  <2>4. \A q \in Slots(m) : Probe(m2, name, q) = Probe(m, name, q)
    BY <1>6 DEF Probe
  <2>5. n # 0
    BY <2>1, <2>2 DEF Slots
  <2>6. \A q \in Slots(m) : Probe(m, name, q) \in Slots(m)
    BY <1>1, <2>1, <2>5, ProbesAll
  <2>7. ASSUME NEW q \in 0 .. p - 1
        PROVE  /\ m2.table[Probe(m2, name, q)].flags # "EMPTY"
               /\ m2.table[Probe(m2, name, q)].key # name
    <3>1. PICK s \in Slots(m) \ {at} : s = Probe(m, name, q)
      BY <2>2, <2>3, <2>6
    <3>2. m.table[s].flags # "EMPTY" /\ m.table[s].key # name
      BY <2>2, <2>3, <3>1
    <3>3. m2.table[s] = m.table[s]
      BY <1>10
    <3> QED
      BY <2>3, <2>4, <3>1, <3>2, <3>3
  <2>8. m2.table[at].key = name
    BY <1>10, <1>4
  <2>9. p \in Slots(m2) /\ Probe(m2, name, p) = at
    BY <1>10, <2>2, <2>4
  <2> QED
    BY <2>7, <2>8, <2>9 DEF Reached
<1>12. m2.active = Cardinality(Active(m2)) /\ m2.active \in Nat
  <2>1. m.active = Cardinality(Active(m)) /\ m.active \in Nat
    BY <1>1 DEF TableOK
  <2>2. CASE at \in Active(m)
    <3>1. Active(m2) = Active(m)
      BY <1>10, <2>2
    <3> QED
      BY <1>6, <1>8, <2>1, <2>2, <3>1
  <2>3. CASE at \notin Active(m)
    <3>1. Cardinality(Active(m) \cup {at}) = Cardinality(Active(m)) + 1
      BY <1>1, <2>3, ActiveFinite, FS_AddElement
    <3>2. m2.active = m.active + 1
      BY <1>6, <1>8, <2>3
    <3>3. Cardinality(Active(m2)) = m.active + 1
      BY <1>10, <2>1, <3>1
    <3> QED
      BY <2>1, <3>2, <3>3
  <2> QED
    BY <2>2, <2>3
<1>13. ASSUME NEW i \in Slots(m)
       PROVE  IF m2.table[i].flags = "ACTIVE" THEN m2.table[i].key \in Names
                                              ELSE m2.table[i].key = NoName
  <2>1. CASE i = at
    BY <1>10, <1>4, <1>1, <2>1
  <2>2. CASE i # at
    <3>1. m2.table[i] = m.table[i]
      BY <1>10, <2>2
    <3> QED
      BY <1>1, <3>1 DEF TableOK
  <2> QED
    BY <2>1, <2>2
<1>14. m2 \in [alloc : Nat, active : Nat, table : [Slots(m2) -> Entry]]
  <2>1. m.alloc \in Nat
    BY <1>1 DEF TableOK
  <2> QED
    BY <1>6, <1>10, <1>12, <2>1
<1>15. TableOK(m2)
  <2>1. \A i \in Active(m2) : Reached(m2, i)
    BY <1>10, <1>11
  <2> QED
    BY <1>1, <1>10, <1>12, <1>13, <1>14, <2>1 DEF TableOK
<1>16. \A i \in Active(m) \ {at} : m2.table[i] = m.table[i]
  BY <1>10 DEF Active
<1> QED
  BY <1>2, <1>3, <1>5, <1>6, <1>7, <1>8, <1>9, <1>10, <1>15, <1>16

(* The slot of an active entry is marked deleted.                          *)
LEMMA ClearedOK ==
  ASSUME NEW m, TableOK(m), NEW at \in Active(m)
  PROVE  /\ TableOK(Cleared(m, at)) /\ Cleared(m, at).alloc = m.alloc
         /\ Active(Cleared(m, at)) = Active(m) \ {at}
         /\ \A i \in Active(m) \ {at} : Cleared(m, at).table[i] = m.table[i]
<1>1. PICK m2 : m2 = Cleared(m, at)
  OBVIOUS
<1>2. PICK e : e = Deleted
  OBVIOUS
<1>3. e \in Entry /\ e.flags # "EMPTY" /\ e.flags # "ACTIVE" /\ e.key = NoName
  BY <1>2 DEF Deleted, Entry
<1>4. at \in Slots(m)
  BY DEF Active
<1>5. /\ m2.alloc = m.alloc /\ m2.table = [m.table EXCEPT ![at] = e]
      /\ m2.active = m.active - 1
      /\ m2 = [alloc |-> m2.alloc, active |-> m2.active, table |-> m2.table]
  BY <1>1, <1>2 DEF Cleared, TableOK
<1>6. \A i \in Active(m) \ {at} : m.table[i].key # e.key
  BY <1>3 DEF TableOK, Active
<1>7. /\ Slots(m2) = Slots(m) /\ m2.table \in [Slots(m) -> Entry]
      /\ m2.table[at] = e /\ \A i \in Slots(m) \ {at} : m2.table[i] = m.table[i]
      /\ Active(m2) = Active(m) \ {at}
      /\ \A i \in Active(m) \ {at} : Reached(m2, i)
  <2>1. m2.alloc = m.alloc /\ m2.table = [m.table EXCEPT ![at] = e]
    BY <1>5
  <2>2. Writes(m, at, e, m2)
    BY <1>4, <1>6, <1>3, <2>1 DEF Writes
  <2>3. Active(m2) = IF e.flags = "ACTIVE" THEN Active(m) \cup {at}
                                           ELSE Active(m) \ {at}
    BY <2>2, Written
  <2>4. /\ Slots(m2) = Slots(m) /\ m2.table \in [Slots(m) -> Entry]
        /\ m2.table[at] = e /\ \A i \in Slots(m) \ {at} : m2.table[i] = m.table[i]
        /\ \A i \in Active(m) \ {at} : Reached(m2, i)
    BY <2>2, Written
  <2> QED
    BY <1>3, <2>3, <2>4
<1>8. m2.active = Cardinality(Active(m2)) /\ m2.active \in Nat
  <2>1. m.active = Cardinality(Active(m)) /\ m.active \in Nat
    BY DEF TableOK
  <2>2. /\ Cardinality(Active(m) \ {at}) = Cardinality(Active(m)) - 1
        /\ IsFiniteSet(Active(m) \ {at})
    BY ActiveFinite, FS_RemoveElement
  <2>3. Cardinality(Active(m) \ {at}) \in Nat
    BY <2>2, FS_CardinalityType
  <2> QED
    BY <1>5, <1>7, <2>1, <2>2, <2>3
<1>9. ASSUME NEW i \in Slots(m)
      PROVE  IF m2.table[i].flags = "ACTIVE" THEN m2.table[i].key \in Names
                                             ELSE m2.table[i].key = NoName
  <2>1. CASE i = at
    BY <1>7, <1>3, <2>1
  <2>2. CASE i # at
    <3>1. m2.table[i] = m.table[i]
      BY <1>7, <2>2
    <3> QED
      BY <3>1 DEF TableOK
  <2> QED
    BY <2>1, <2>2
<1>10. m2 \in [alloc : Nat, active : Nat, table : [Slots(m2) -> Entry]]
  <2>1. m.alloc \in Nat
    BY DEF TableOK
  <2> QED
    BY <1>5, <1>7, <1>8, <2>1
<1>11. TableOK(m2)
  BY <1>7, <1>8, <1>9, <1>10 DEF TableOK
<1>12. \A i \in Active(m) \ {at} : m2.table[i] = m.table[i]
  BY <1>7 DEF Active
<1> QED
  BY <1>1, <1>5, <1>7, <1>11, <1>12

(* An empty table                                                          *)
LEMMA FreshOK ==
  ASSUME NEW n \in Nat
  PROVE  TableOK(Fresh(n)) /\ Active(Fresh(n)) = {} /\ Fresh(n).alloc = n
<1>1. EmptySlot \in Entry /\ EmptySlot.flags = "EMPTY" /\ EmptySlot.key = NoName
  BY DEF EmptySlot, Entry
<1>2. Fresh(n).alloc = n /\ Slots(Fresh(n)) = 0 .. n - 1 /\ Fresh(n).active = 0
  BY DEF Fresh, Slots
<1>3. \A i \in 0 .. n - 1 : Fresh(n).table[i] = EmptySlot
  BY DEF Fresh
<1>4. Active(Fresh(n)) = {}
  BY <1>1, <1>2, <1>3 DEF Active
<1>5. Fresh(n) \in [alloc : Nat, active : Nat, table : [Slots(Fresh(n)) -> Entry]]
  BY <1>1, <1>2 DEF Fresh
<1> QED
  BY <1>1, <1>2, <1>3, <1>4, <1>5, FS_EmptySet DEF TableOK

(* There is room in a table that is not full.                              *)
LEMMA RoomToPlace ==
  ASSUME NEW m, TableOK(m), m.active < m.alloc, NEW name \in Names
  PROVE  locate(m, name, TRUE) # m.alloc
<1> SUFFICES ASSUME locate(m, name, TRUE) = m.alloc
             PROVE  FALSE
  OBVIOUS
<1>1. PICK n \in Nat : n = m.alloc
  BY DEF TableOK
<1>2. n \notin Slots(m) /\ n # 0
  <2>1. m.active \in Nat
    BY DEF TableOK
  <2> QED
    BY <1>1, <2>1 DEF Slots
<1>3. Stops(m, name) = {} /\ Graves(m, name) = {}
  BY <1>1, <1>2, Located
<1>4. ASSUME NEW s \in Slots(m)
      PROVE  s \in Active(m)
  <2>1. PICK p \in Slots(m) : Probe(m, name, p) = s
    BY <1>1, <1>2, ProbesAll
  <2>2. m.table[s].flags # "EMPTY" /\ m.table[s].flags # "DELETED"
    BY <1>3, <2>1 DEF Stops, Graves
  <2>3. m.table[s] \in Entry
    BY DEF TableOK
  <2> QED
    BY <2>2, <2>3 DEF Entry, Active
<1>5. Active(m) = Slots(m)
  BY <1>4 DEF Active
<1>6. Cardinality(0 .. n - 1) = n
  BY FS_Interval
<1>7. m.active = n
  BY <1>1, <1>5, <1>6 DEF TableOK, Slots
<1> QED
  BY <1>1, <1>7

-----------------------------------------------------------------------------
(* The invariant *)

(* What rehash still has to move                                           *)
Rest(o) == {i \in 0 .. o.left - 1 : o.table[i].flags = "ACTIVE"}

(* Some of the slots, or entries, say that a name is at a place.           *)
In(t, S, n, d) == \E i \in S : t[i].key = n /\ t[i].data = d
Carried(m, o, t, n, d) ==
  \/ In(m.table, Active(m), n, d)
  \/ In(o.table, Rest(o), n, d)
  \/ In(t, DOMAIN t, n, d)

ListOK(l) ==
  /\ l \in Seq([name : Names, id : Nat])
  /\ \A j \in DOMAIN l : l[j].id = j - 1
  /\ \A j, k \in DOMAIN l : l[j].name = l[k].name => j = k

(* Whatever stands in the map, in the old table and in what is to be added *)
(* is right, and every object is in one of them.                           *)
Right(l, n, d) == \E j \in DOMAIN l : l[j].name = n /\ d = j - 1
ContentOK(m, o, t, l) ==
  /\ \A n, d : Carried(m, o, t, n, d) => Right(l, n, d)
  /\ \A j \in DOMAIN l : Carried(m, o, t, l[j].name, j - 1)

(* The prime that is looked for is between L and R.                        *)
SearchOK(s) ==
  s # NoSearch =>
    /\ s \in [L : Nat, R : Nat, v : Nat \ {0}]
    /\ s.L < s.R /\ s.L # 0 /\ s.R \in DOMAIN Primes /\ Primes[s.L - 1] < s.v

(* The new table has room for what is left of the old one.                 *)
OldOK(m, s, o) ==
  \/ o = NoTable /\ (s = NoSearch <=> m.alloc # 0)
  \/ /\ \E n \in Nat \ {0} : o \in [table : [0 .. n - 1 -> Entry], left : 0 .. n, active : Nat]
     /\ m.alloc # 0
     /\ \A i \in Rest(o) : o.table[i].key \in Names
     /\ \A i, j \in Rest(o) : o.table[i].key = o.table[j].key => i = j
     /\ IF s = NoSearch
        THEN /\ o.active = m.active + Cardinality(Rest(o)) /\ o.active < m.alloc
             /\ \A i \in Rest(o), j \in Active(m) : o.table[i].key # m.table[j].key
        ELSE /\ o = [table |-> m.table, left |-> m.alloc, active |-> m.active]
             /\ s.v = 2 * m.alloc

InvOf(m, s, o, t, l) ==
  /\ TableOK(m) /\ SearchOK(s) /\ OldOK(m, s, o)
  /\ t \in Seq([key : Names, data : Nat])
  /\ ListOK(l) /\ ContentOK(m, o, t, l)

IInv == InvOf(map, search, old, todo, list) /\ kind \in {"NCindex", "NC_dimarray"}

(* A search begins with a value above the leading 0 of the primes.         *)
LEMMA SearchStarts ==
  ASSUME NEW v \in Nat \ {0}
  PROVE  SearchOK(Search(v)) /\ Search(v) # NoSearch /\ Search(v).v = v
<1>1. PICK c \in Nat : c = Cardinality(DOMAIN Primes)
  BY FS_CardinalityType
<1>2. c >= 4 /\ DOMAIN Primes = 0 .. c - 1 /\ Primes[0] = 0
  BY <1>1
<1>3. Search(v) = [L |-> 1, R |-> c - 2, v |-> v]
  BY <1>1 DEF Search
<1>4. c - 2 \in Nat /\ 1 < c - 2 /\ c - 2 \in 0 .. c - 1 /\ 1 - 1 = 0 /\ 0 < v
  BY <1>2
<1> QED
  BY <1>2, <1>3, <1>4 DEF SearchOK, NoSearch

(* Nothing is carried by no table.                                         *)
LEMMA NoTableIs ==
  Rest(NoTable) = {} /\ \A n, d : ~In(NoTable.table, Rest(NoTable), n, d)
<1>1. Rest(NoTable) = {}
  BY DEF Rest, NoTable
<1> QED
  BY <1>1 DEF In

(* No table that is being rehashed is taken for none.                      *)
LEMMA TableIsSome ==
  ASSUME NEW n \in Nat \ {0}
  PROVE  NoTable \notin [table : [0 .. n - 1 -> Entry], left : 0 .. n, active : Nat]
<1>1. SUFFICES ASSUME NoTable.table \in [0 .. n - 1 -> Entry]
               PROVE  FALSE
  OBVIOUS
<1>2. DOMAIN NoTable.table = 0 .. n - 1 /\ 0 \in 0 .. n - 1
  BY <1>1
<1>3. DOMAIN NoTable.table = 1 .. 0
  BY DEF NoTable
<1>4. 0 \in 1 .. 0
  BY <1>2, <1>3, Zenon
<1> QED
  BY <1>4

(* ncindexrebuild: a new map, and the whole list to enter                  *)
LEMMA RebuildOK ==
  ASSUME NEW l, ListOK(l), Rebuild(l)
  PROVE  InvOf(map', search', old', todo', list')
<1>1. PICK n \in Nat : n = Len(l)
  BY DEF ListOK
<1>2. /\ list' = l /\ todo' = Entries(l) /\ old' = NoTable
      /\ IF n < MinTableSize
         THEN map' = Fresh(MinTableSize) /\ search' = NoSearch
         ELSE map' = Fresh(0) /\ search' = Search((n * 4) \div 3)
  BY <1>1 DEF Rebuild, New
<1>3. TableOK(map') /\ Active(map') = {} /\ SearchOK(search') /\ OldOK(map', search', old')
  <2>1. CASE n < MinTableSize
    <3>1. map' = Fresh(MinTableSize) /\ search' = NoSearch
      BY <1>2, <2>1
    <3>2. TableOK(map') /\ Active(map') = {} /\ map'.alloc = MinTableSize
      BY <3>1, FreshOK
    <3> QED
      BY <1>2, <3>1, <3>2 DEF OldOK, SearchOK
  <2>2. CASE ~(n < MinTableSize)
    <3>1. (n * 4) \div 3 \in Nat \ {0}
      <4>1. n >= 1
        BY <2>2
      <4> QED
        BY <4>1
    <3>2. map' = Fresh(0) /\ search' = Search((n * 4) \div 3)
      BY <1>2, <2>2
    <3>3. SearchOK(search') /\ search' # NoSearch
      BY <3>1, <3>2, SearchStarts
    <3>4. TableOK(map') /\ Active(map') = {} /\ map'.alloc = 0
      BY <3>2, FreshOK
    <3> QED
      BY <1>2, <3>3, <3>4 DEF OldOK
  <2> QED
    BY <2>1, <2>2
<1>4. l \in Seq([name : Names, id : Nat]) /\ DOMAIN l = 1 .. n
  BY <1>1 DEF ListOK
<1>5. todo' = [j \in 1 .. n |-> [key |-> l[j].name, data |-> j - 1]]
  BY <1>2, <1>4 DEF Entries
<1>6. ASSUME NEW j \in 1 .. n
      PROVE  l[j].name \in Names /\ j - 1 \in Nat
  <2>1. l[j] \in [name : Names, id : Nat]
    BY <1>1, <1>4, ElementOfSeq
  <2> QED
    BY <2>1
<1>7. todo' \in Seq([key : Names, data : Nat]) /\ DOMAIN todo' = 1 .. n
  BY <1>5, <1>6
<1>8. \A j \in 1 .. n : todo'[j].key = l[j].name /\ todo'[j].data = j - 1
  BY <1>5
<1>9. \A d1, d2 : Carried(map', old', todo', d1, d2) => In(todo', 1 .. n, d1, d2)
  BY <1>2, <1>3, <1>7, NoTableIs DEF Carried, In
<1>10. ContentOK(map', old', todo', l)
  <2>1. ASSUME NEW d1, NEW d2, In(todo', 1 .. n, d1, d2)
        PROVE  Right(l, d1, d2)
    BY <1>4, <1>8, <2>1 DEF In, Right
  <2>2. ASSUME NEW j \in DOMAIN l
        PROVE  Carried(map', old', todo', l[j].name, j - 1)
    BY <1>4, <1>7, <1>8 DEF Carried, In
  <2> QED
    BY <1>9, <2>1, <2>2 DEF ContentOK
<1> QED
  BY <1>2, <1>3, <1>7, <1>10 DEF InvOf

(* No name is in the map twice, and the ones in it are those of the list.  *)
LEMMA AtRest ==
  ASSUME IInv, Returned
  PROVE  /\ TableOK(map) /\ map.alloc # 0 /\ ListOK(list)
         /\ \A i \in Active(map) : Right(list, map.table[i].key, map.table[i].data)
         /\ \A j \in DOMAIN list : In(map.table, Active(map), list[j].name, j - 1)
<1>1. todo = <<>> /\ search = NoSearch /\ old = NoTable
  BY DEF Returned
<1>2. \A n, d : Carried(map, old, todo, n, d) <=> In(map.table, Active(map), n, d)
  BY <1>1, NoTableIs DEF Carried, In
<1>3. map.alloc # 0
  BY <1>1 DEF IInv, InvOf, OldOK
<1>4. \A n, d : In(map.table, Active(map), n, d) => Right(list, n, d)
  BY <1>2 DEF IInv, InvOf, ContentOK
<1>5. \A j \in DOMAIN list : In(map.table, Active(map), list[j].name, j - 1)
  BY <1>2 DEF IInv, InvOf, ContentOK
<1>6. \A i \in Active(map) : In(map.table, Active(map), map.table[i].key, map.table[i].data)
  BY DEF In
<1> QED
  BY <1>3, <1>4, <1>5, <1>6 DEF IInv, InvOf

(* Lookup finds an object by its name, and nothing else.                   *)
LEMMA LookupIs ==
  ASSUME IInv, Returned
  PROVE  /\ \A j \in DOMAIN list : Lookup(list[j].name) = j
         /\ \A n \in Names : Lookup(n) # 0 => Lookup(n) \in DOMAIN list /\ list[Lookup(n)].name = n
         /\ \A n \in Names : Has(map, n) => \E j \in DOMAIN list : list[j].name = n
<1>1. PICK c \in Nat : c = Len(list) /\ DOMAIN list = 1 .. c
  BY AtRest DEF ListOK
<1>2. ASSUME NEW j \in DOMAIN list
      PROVE  Lookup(list[j].name) = j
  <2>1. list[j].name \in Names
    <3>1. list[j] \in [name : Names, id : Nat]
      BY <1>1, AtRest, ElementOfSeq DEF ListOK
    <3> QED
      BY <3>1
  <2>2. PICK n \in Names : n = list[j].name
    BY <2>1
  <2>3. PICK i \in Active(map) : map.table[i].key = n /\ map.table[i].data = j - 1
    BY <2>2, AtRest DEF In
  <2>4. Has(map, n) /\ NC_hashmapget(map, n) = j - 1
    <3>1. TableOK(map)
      BY AtRest
    <3>2. /\ Has(map, map.table[i].key)
          /\ NC_hashmapget(map, map.table[i].key) = map.table[i].data
      BY <3>1, GetIs
    <3> QED
      BY <2>3, <3>2
  <2>5. map.active # 0
    <3>1. IsFiniteSet(Active(map)) /\ Cardinality(Active(map)) # 0
      BY <2>3, AtRest, ActiveFinite, FS_EmptySet
    <3> QED
      BY <3>1, AtRest DEF TableOK
  <2>6. j - 1 < Len(list) /\ j - 1 + 1 = j
    BY <1>1
  <2> QED
    BY <2>2, <2>4, <2>5, <2>6 DEF Lookup
<1>3. ASSUME NEW n \in Names, Has(map, n)
      PROVE  \E j \in DOMAIN list : list[j].name = n
  <2>1. PICK i \in Active(map) : map.table[i].key = n
    BY <1>3, AtRest, HasIs
  <2> QED
    BY <2>1, AtRest DEF Right
<1>4. ASSUME NEW n \in Names, Lookup(n) # 0
      PROVE  Lookup(n) \in DOMAIN list /\ list[Lookup(n)].name = n
  <2>1. Has(map, n)
    BY <1>4 DEF Lookup
  <2>2. PICK j \in DOMAIN list : list[j].name = n
    BY <1>3, <2>1
  <2> QED
    BY <1>2, <2>2
<1> QED
  BY <1>2, <1>3, <1>4

-----------------------------------------------------------------------------
(* The steps of a call *)

(* Where the binary search looks                                           *)
LEMMA MiddleIs ==
  ASSUME SearchOK(search), search # NoSearch
  PROVE  /\ search \in [L : Nat, R : Nat, v : Nat \ {0}]
         /\ Middle \in Nat \ {0} /\ search.L <= Middle /\ Middle < search.R
         /\ Middle \in DOMAIN Primes /\ Middle - 1 \in DOMAIN Primes
         /\ search.L - 1 \in DOMAIN Primes
<1>1. PICK a \in Nat, b \in Nat : a = search.L /\ b = search.R
  BY DEF SearchOK
<1>2. a < b /\ a # 0 /\ b \in DOMAIN Primes
  BY <1>1 DEF SearchOK
<1>3. PICK c \in Nat : DOMAIN Primes = 0 .. c - 1
  BY FS_CardinalityType
<1>4. PICK k \in Nat : k = (a + b) \div 2
  OBVIOUS
<1>5. a <= k /\ k < b /\ k # 0
  BY <1>2, <1>4
<1>6. b <= c - 1
  BY <1>2, <1>3
<1>7. k \in 0 .. c - 1 /\ k - 1 \in 0 .. c - 1 /\ a - 1 \in 0 .. c - 1
  BY <1>2, <1>5, <1>6
<1>8. Middle = k
  BY <1>1, <1>4 DEF Middle
<1> QED
  BY <1>1, <1>3, <1>5, <1>7, <1>8 DEF SearchOK

(* During the search old is the table that will be rehashed, or there is   *)
(* none.                                                                   *)
LEMMA FoundOK ==
  ASSUME InvOf(map, search, old, todo, list), findPrimeGreaterThan_found
  PROVE  InvOf(map', search', old', todo', list)
<1>1. /\ TableOK(map) /\ SearchOK(search) /\ search # NoSearch
      /\ map' = Fresh(Primes[Middle]) /\ search' = NoSearch
      /\ old' = old /\ todo' = todo /\ search.v <= Primes[Middle]
  BY DEF InvOf, findPrimeGreaterThan_found
<1>2. PICK n \in Nat : n = Primes[Middle]
  BY <1>1, MiddleIs
<1>3. PICK v \in Nat \ {0} : v = search.v
  BY <1>1, MiddleIs
<1>4. v <= n /\ n # 0
  BY <1>1, <1>2, <1>3
<1>5. TableOK(map') /\ Active(map') = {} /\ map'.alloc = n
  BY <1>1, <1>2, FreshOK
<1>6. map'.active = 0
  BY <1>5, FS_EmptySet DEF TableOK
<1>7. Active(map) = {} \/ old # NoTable
  <2>1. SUFFICES ASSUME old = NoTable
                 PROVE  Active(map) = {}
    OBVIOUS
  <2>2. map.alloc = 0
    BY <1>1, <2>1, TableIsSome DEF InvOf, OldOK
  <2> QED
    BY <2>2 DEF Active, Slots
<1>8. old # NoTable =>
        /\ old = [table |-> map.table, left |-> map.alloc, active |-> map.active]
        /\ search.v = 2 * map.alloc
        /\ map.alloc # 0
        /\ \E k \in Nat \ {0} : old \in [table : [0 .. k - 1 -> Entry], left : 0 .. k, active : Nat]
        /\ \A i \in Rest(old) : old.table[i].key \in Names
        /\ \A i, j \in Rest(old) : old.table[i].key = old.table[j].key => i = j
  BY <1>1 DEF InvOf, OldOK
<1>9. old # NoTable => Rest(old) = Active(map)
  BY <1>8 DEF Rest, Active, Slots
<1>10. OldOK(map', search', old')
  <2>1. CASE old = NoTable
    BY <1>1, <1>4, <1>5, <2>1 DEF OldOK
  <2>2. CASE old # NoTable
    <3>1. PICK a \in Nat, c \in Nat : a = map.alloc /\ c = map.active
      BY <1>1 DEF TableOK
    <3>2. c = Cardinality(Rest(old)) /\ old.active = c
      BY <1>1, <1>8, <1>9, <2>2, <3>1 DEF TableOK
    <3>3. c <= a
      <4>1. Cardinality(0 .. a - 1) = a
        BY FS_Interval
      <4>2. IsFiniteSet(0 .. a - 1)
        BY FS_Interval
      <4>3. Active(map) \subseteq 0 .. a - 1
        BY <3>1 DEF Active, Slots
      <4>4. Cardinality(Active(map)) <= Cardinality(0 .. a - 1)
        BY <4>2, <4>3, FS_Subset
      <4> QED
        BY <1>1, <3>1, <4>1, <4>4 DEF TableOK
    <3>4. a # 0 /\ v = 2 * a
      BY <1>3, <1>8, <2>2, <3>1
    <3>5. c < n /\ c = 0 + c
      BY <1>4, <3>3, <3>4
    <3>6. old'.active = map'.active + Cardinality(Rest(old')) /\ old'.active < map'.alloc
      BY <1>1, <1>5, <1>6, <3>2, <3>5
    <3>7. \A i \in Rest(old'), j \in Active(map') : old'.table[i].key # map'.table[j].key
      BY <1>5
    <3>8. map'.alloc # 0
      BY <1>4, <1>5
    <3> QED
      BY <1>1, <1>8, <2>2, <3>6, <3>7, <3>8 DEF OldOK
  <2> QED
    BY <2>1, <2>2
<1>11. \A x, d : Carried(map', old', todo', x, d) <=> Carried(map, old, todo, x, d)
  <2>1. \A x, d : ~In(map'.table, Active(map'), x, d)
    BY <1>5 DEF In
  <2>2. \A x, d : In(map.table, Active(map), x, d) => In(old.table, Rest(old), x, d)
    BY <1>7, <1>8, <1>9 DEF In
  <2> QED
    BY <1>1, <2>1, <2>2 DEF Carried
<1>12. ContentOK(map', old', todo', list)
  BY <1>11 DEF InvOf, ContentOK
<1> QED
  BY <1>1, <1>5, <1>10, <1>12 DEF InvOf, SearchOK

(* Each end that moves stays on its side of the value.                     *)
LEMMA HalvedOK ==
  ASSUME InvOf(map, search, old, todo, list),
         findPrimeGreaterThan_lower \/ findPrimeGreaterThan_upper
  PROVE  InvOf(map', search', old', todo', list)
<1>1. /\ SearchOK(search) /\ search # NoSearch
      /\ map' = map /\ old' = old /\ todo' = todo
  BY DEF InvOf, findPrimeGreaterThan_lower, findPrimeGreaterThan_upper
<1>2. PICK a \in Nat, b \in Nat, v \in Nat \ {0} : search = [L |-> a, R |-> b, v |-> v]
  BY <1>1, MiddleIs
<1>3. PICK k \in Nat \ {0} : k = Middle
  BY <1>1, MiddleIs
<1>4. /\ a # 0 /\ a <= k /\ k < b /\ b \in DOMAIN Primes /\ Primes[a - 1] < v
      /\ k \in DOMAIN Primes /\ k - 1 \in DOMAIN Primes /\ a - 1 \in DOMAIN Primes
  BY <1>1, <1>2, <1>3, MiddleIs DEF SearchOK
<1>5. SearchOK(search') /\ search' # NoSearch /\ search'.v = v
  <2>1. CASE findPrimeGreaterThan_lower
    <3>1. search' = [L |-> a, R |-> k, v |-> v] /\ v <= Primes[k - 1]
      BY <1>2, <1>3, <2>1 DEF findPrimeGreaterThan_lower
    <3>2. a # k
      <4>1. Primes[a - 1] \in Nat /\ Primes[k - 1] \in Nat
        BY <1>4
      <4> QED
        BY <1>4, <3>1, <4>1
    <3> QED
      BY <1>4, <3>1, <3>2 DEF SearchOK, NoSearch
  <2>2. CASE findPrimeGreaterThan_upper
    <3>1. search' = [L |-> k, R |-> b, v |-> v] /\ Primes[k] < v
      BY <1>2, <1>3, <2>2 DEF findPrimeGreaterThan_upper
    <3>2. Primes[k - 1] < v
      <4>1. Primes[k] \in Nat /\ Primes[k - 1] \in Nat
        BY <1>4
      <4>2. k - 1 < k
        OBVIOUS
      <4>3. Primes[k - 1] < Primes[k]
        BY <1>4, <4>2
      <4> QED
        BY <3>1, <4>1, <4>3
    <3> QED
      BY <1>4, <3>1, <3>2 DEF SearchOK, NoSearch
  <2> QED
    BY <2>1, <2>2
<1>6. OldOK(map', search', old')
  BY <1>1, <1>2, <1>5 DEF InvOf, OldOK
<1> QED
  BY <1>1, <1>5, <1>6 DEF InvOf

(* rehash begins: all there is stands in the old table.                    *)
LEMMA GrowOK ==
  ASSUME InvOf(map, search, old, todo, list), NC_hashmapadd_grow
  PROVE  InvOf(map', search', old', todo', list)
<1>1. /\ search = NoSearch /\ old = NoTable /\ map' = map /\ todo' = todo
      /\ search' = Search(2 * map.alloc)
      /\ old' = [table |-> map.table, left |-> map.alloc, active |-> map.active]
  BY DEF NC_hashmapadd_grow, Adding
<1>2. PICK a \in Nat : a = map.alloc
  BY DEF InvOf, TableOK
<1>3. a # 0
  BY <1>1, <1>2 DEF InvOf, OldOK
<1>4. SearchOK(search') /\ search' # NoSearch /\ search'.v = 2 * map.alloc
  <2>1. 2 * a \in Nat \ {0}
    BY <1>3
  <2> QED
    BY <1>1, <1>2, <2>1, SearchStarts
<1>5. Rest(old') = Active(map) /\ old'.table = map.table
  BY <1>1 DEF Rest, Active, Slots
<1>6. old' \in [table : [0 .. a - 1 -> Entry], left : 0 .. a, active : Nat]
  BY <1>1, <1>2 DEF InvOf, TableOK, Slots
<1>7. \A i \in Rest(old') : old'.table[i].key \in Names
  BY <1>5 DEF InvOf, TableOK, Active
<1>8. \A i, j \in Rest(old') : old'.table[i].key = old'.table[j].key => i = j
  BY <1>5, KeysDiffer DEF InvOf
<1>9. OldOK(map', search', old')
  BY <1>1, <1>2, <1>3, <1>4, <1>6, <1>7, <1>8 DEF OldOK
<1>10. \A x, d : Carried(map', old', todo', x, d) <=> Carried(map, old, todo, x, d)
  BY <1>1, <1>5, NoTableIs DEF Carried
<1>11. ContentOK(map', old', todo', list)
  BY <1>10 DEF InvOf, ContentOK
<1> QED
  BY <1>1, <1>4, <1>9, <1>11 DEF InvOf

(* rehash ends: nothing is left in the old table.                          *)
LEMMA RehashEndsOK ==
  ASSUME InvOf(map, search, old, todo, list), rehash_ends
  PROVE  InvOf(map', search', old', todo', list)
<1>1. /\ old # NoTable /\ old.left = 0 /\ search = NoSearch /\ old' = NoTable
      /\ map' = map /\ search' = search /\ todo' = todo
  BY DEF rehash_ends
<1>2. map.alloc # 0
  BY <1>1 DEF InvOf, OldOK
<1>3. OldOK(map', search', old')
  BY <1>1, <1>2 DEF OldOK
<1>4. Rest(old) = {}
  BY <1>1 DEF Rest
<1>5. \A x, d : Carried(map', old', todo', x, d) <=> Carried(map, old, todo, x, d)
  BY <1>1, <1>4, NoTableIs DEF Carried, In
<1>6. ContentOK(map', old', todo', list)
  BY <1>5 DEF InvOf, ContentOK
<1> QED
  BY <1>1, <1>3, <1>6 DEF InvOf

(* The entry that is moved was in one table and is in the other.           *)
LEMMA RehashOK ==
  ASSUME InvOf(map, search, old, todo, list), rehash
  PROVE  InvOf(map', search', old', todo', list)
<1>1. /\ old.left > 0 /\ search = NoSearch /\ search' = search /\ todo' = todo
      /\ old' = [old EXCEPT !.left = @ - 1]
      /\ map' = IF old.table[old.left - 1].flags = "ACTIVE"
                THEN Placed(map, old.table[old.left - 1].key, old.table[old.left - 1].data)
                ELSE map
  BY DEF rehash
<1>2. old # NoTable
  BY <1>1 DEF NoTable
<1>3. TableOK(map)
  BY DEF InvOf
<1>4. PICK n \in Nat \ {0} :
        old \in [table : [0 .. n - 1 -> Entry], left : 0 .. n, active : Nat]
  BY <1>2 DEF InvOf, OldOK
<1>5. /\ old.active = map.active + Cardinality(Rest(old)) /\ old.active < map.alloc
      /\ \A i \in Rest(old), j \in Active(map) : old.table[i].key # map.table[j].key
      /\ \A i \in Rest(old) : old.table[i].key \in Names
      /\ \A i, j \in Rest(old) : old.table[i].key = old.table[j].key => i = j
      /\ map.alloc # 0
  BY <1>1, <1>2 DEF InvOf, OldOK
<1>6. PICK k \in Nat : k = old.left - 1 /\ old.left = k + 1 /\ k + 1 <= n
  <2>1. PICK k1 \in 0 .. n : k1 = old.left
    BY <1>4
  <2>2. k1 > 0
    BY <1>1, <2>1
  <2>3. k1 - 1 \in Nat /\ k1 = k1 - 1 + 1 /\ k1 - 1 + 1 <= n
    BY <2>2
  <2> QED
    BY <2>1, <2>3
<1>7. k \in 0 .. n - 1
  BY <1>6
<1>8. PICK e \in Entry : e = old.table[k]
  BY <1>4, <1>7
<1>9. /\ old' \in [table : [0 .. n - 1 -> Entry], left : 0 .. n, active : Nat]
      /\ old'.table = old.table /\ old'.left = k /\ old'.active = old.active
  <2>1. k \in 0 .. n
    BY <1>6
  <2> QED
    BY <1>1, <1>4, <1>6, <2>1
<1>10. Rest(old) = IF e.flags = "ACTIVE" THEN Rest(old') \cup {k} ELSE Rest(old')
  <2>1. \A i : i \in 0 .. k + 1 - 1 <=> i \in 0 .. k - 1 \/ i = k
    OBVIOUS
  <2>2. \A i : i \in Rest(old) <=> i \in 0 .. k + 1 - 1 /\ old.table[i].flags = "ACTIVE"
    BY <1>6 DEF Rest
  <2>3. \A i : i \in Rest(old') <=> i \in 0 .. k - 1 /\ old.table[i].flags = "ACTIVE"
    BY <1>9 DEF Rest
  <2> QED
    BY <1>8, <2>1, <2>2, <2>3
<1>11. k \notin Rest(old') /\ IsFiniteSet(Rest(old')) /\ Cardinality(Rest(old')) \in Nat
  <2>1. k \notin Rest(old') /\ Rest(old') \subseteq 0 .. k - 1
    BY <1>9 DEF Rest
  <2>2. IsFiniteSet(0 .. k - 1)
    BY FS_Interval
  <2>3. IsFiniteSet(Rest(old'))
    BY <2>1, <2>2, FS_Subset
  <2> QED
    BY <2>1, <2>3, FS_CardinalityType
<1>12. /\ \A i \in Rest(old') : old'.table[i].key \in Names
       /\ \A i, j \in Rest(old') : old'.table[i].key = old'.table[j].key => i = j
  BY <1>5, <1>9, <1>10
<1>13. CASE e.flags = "ACTIVE"
  <2>1. PICK name \in Names, data \in Nat : name = e.key /\ data = e.data
    BY <1>5, <1>8, <1>10, <1>13 DEF Entry
  <2>2. map' = Placed(map, name, data)
    BY <1>1, <1>6, <1>8, <1>13, <2>1
  <2>3. PICK at : at = locate(map, name, TRUE)
    OBVIOUS
  <2>4. PICK a \in Nat, c \in Nat, r \in Nat : /\ a = map.active /\ c = map.alloc
                                               /\ r = Cardinality(Rest(old'))
    BY <1>3, <1>11 DEF TableOK
  <2>5. Cardinality(Rest(old)) = r + 1
    <3>1. Cardinality(Rest(old') \cup {k}) = Cardinality(Rest(old')) + 1
      BY <1>11, FS_AddElement
    <3> QED
      BY <1>10, <1>13, <2>4, <3>1
  <2>6. old.active = a + (r + 1) /\ old.active < c
    BY <1>5, <2>4, <2>5
  <2>7. PlaceFor(map, name, at)
    <3>1. a < c
      BY <2>4, <2>6
    <3>2. at # map.alloc
      BY <1>3, <2>3, <2>4, <3>1, RoomToPlace
    <3> QED
      BY <1>3, <2>3, <3>2 DEF PlaceFor
  <2>8. /\ TableOK(map') /\ map'.alloc = map.alloc
        /\ Active(map') = Active(map) \cup {at}
        /\ map'.table[at] = [flags |-> "ACTIVE", key |-> name, data |-> data]
        /\ \A i \in Active(map) \ {at} : map'.table[i] = map.table[i]
        /\ at \in Active(map) => map.table[at].key = name
        /\ map'.active = IF at \in Active(map) THEN map.active ELSE map.active + 1
    BY <2>2, <2>7, PlacedOK
  <2>9. at \notin Active(map) /\ k \in Rest(old)
    BY <1>5, <1>8, <1>10, <1>13, <2>1, <2>8
  <2>10. OldOK(map', search', old')
    <3>1. map'.active = a + 1 /\ map'.alloc = c
      BY <2>4, <2>8, <2>9
    <3>2. old'.active = map'.active + Cardinality(Rest(old'))
      <4>1. a + (r + 1) = (a + 1) + r
        OBVIOUS
      <4>2. old'.active = (a + 1) + r
        BY <1>9, <2>6, <4>1
      <4> QED
        BY <2>4, <3>1, <4>2
    <3>3. old'.active < map'.alloc /\ map'.alloc # 0
      BY <1>5, <1>9, <2>8
    <3>4. ASSUME NEW i \in Rest(old'), NEW j \in Active(map')
          PROVE  old'.table[i].key # map'.table[j].key
      <4>1. i \in Rest(old) /\ i # k
        BY <1>10, <1>11, <1>13, <3>4
      <4>2. CASE j = at
        <5>1. map'.table[j].key = old.table[k].key
          BY <1>8, <2>1, <2>8, <4>2
        <5> QED
          BY <1>5, <1>9, <2>9, <4>1, <5>1
      <4>3. CASE j # at
        <5>1. j \in Active(map) /\ map'.table[j] = map.table[j]
          BY <2>8, <3>4, <4>3
        <5> QED
          BY <1>5, <1>9, <4>1, <5>1
      <4> QED
        BY <4>2, <4>3
    <3> QED
      BY <1>1, <1>9, <1>12, <3>2, <3>3, <3>4 DEF OldOK
  <2>11. ASSUME NEW x, NEW d
         PROVE  Carried(map', old', todo', x, d) <=> Carried(map, old, todo, x, d)
    <3>1. In(map'.table, Active(map'), x, d) <=>
            \/ In(map.table, Active(map), x, d)
            \/ x = name /\ d = data
      BY <2>8, <2>9 DEF In
    <3>2. In(old.table, Rest(old), x, d) <=>
            \/ In(old'.table, Rest(old'), x, d)
            \/ x = name /\ d = data
      BY <1>8, <1>9, <1>10, <1>13, <2>1 DEF In
    <3> QED
      BY <1>1, <3>1, <3>2 DEF Carried
  <2>12. ContentOK(map', old', todo', list)
    BY <2>11 DEF InvOf, ContentOK
  <2> QED
    BY <1>1, <2>8, <2>10, <2>12 DEF InvOf
<1>14. CASE e.flags # "ACTIVE"
  <2>1. map' = map /\ Rest(old') = Rest(old)
    BY <1>1, <1>6, <1>8, <1>10, <1>14
  <2>2. OldOK(map', search', old')
    <3>1. /\ old'.active = map'.active + Cardinality(Rest(old'))
          /\ old'.active < map'.alloc /\ map'.alloc # 0
      BY <1>5, <1>9, <2>1
    <3>2. \A i \in Rest(old'), j \in Active(map') : old'.table[i].key # map'.table[j].key
      BY <1>5, <1>9, <2>1
    <3> QED
      BY <1>1, <1>9, <1>12, <3>1, <3>2 DEF OldOK
  <2>3. \A x, d : Carried(map', old', todo', x, d) <=> Carried(map, old, todo, x, d)
    BY <1>1, <1>9, <2>1 DEF Carried
  <2>4. ContentOK(map', old', todo', list)
    BY <2>3 DEF InvOf, ContentOK
  <2> QED
    BY <1>1, <2>1, <2>2, <2>4 DEF InvOf
<1> QED
  BY <1>13, <1>14

(* The entry that is added is right, whether or not its name was there.    *)
LEMMA AddOK ==
  ASSUME InvOf(map, search, old, todo, list), NC_hashmapadd
  PROVE  InvOf(map', search', old', todo', list)
<1>1. /\ todo # <<>> /\ search = NoSearch /\ old = NoTable
      /\ locate(map, Head(todo).key, TRUE) # map.alloc
      /\ map' = Placed(map, Head(todo).key, Head(todo).data)
      /\ todo' = Tail(todo) /\ search' = search /\ old' = old
  BY DEF NC_hashmapadd, Adding, HasRoom
<1>2. TableOK(map) /\ todo \in Seq([key : Names, data : Nat]) /\ ListOK(list)
      /\ ContentOK(map, old, todo, list)
  BY DEF InvOf
<1>3. PICK name \in Names, data \in Nat : name = Head(todo).key /\ data = Head(todo).data
  <2>1. Head(todo) \in [key : Names, data : Nat]
    BY <1>1, <1>2, HeadTailProperties
  <2> QED
    BY <2>1
<1>4. PICK at : at = locate(map, name, TRUE)
  OBVIOUS
<1>5. PlaceFor(map, name, at)
  BY <1>1, <1>2, <1>3, <1>4 DEF PlaceFor
<1>6. map' = Placed(map, name, data)
  BY <1>1, <1>3
<1>7. /\ TableOK(map') /\ map'.alloc = map.alloc
      /\ Active(map') = Active(map) \cup {at}
      /\ map'.table[at] = [flags |-> "ACTIVE", key |-> name, data |-> data]
      /\ \A i \in Active(map) \ {at} : map'.table[i] = map.table[i]
      /\ at \in Active(map) => map.table[at].key = name
  BY <1>5, <1>6, PlacedOK
<1>8. PICK c \in Nat : c = Len(todo) /\ DOMAIN todo = 1 .. c /\ c # 0
  BY <1>1, <1>2, EmptySeq, LenProperties
<1>9. /\ todo' \in Seq([key : Names, data : Nat]) /\ DOMAIN todo' = 1 .. c - 1
      /\ \A i \in 1 .. c - 1 : todo'[i] = todo[i + 1]
      /\ todo[1] = Head(todo)
  BY <1>1, <1>2, <1>8, HeadTailProperties
<1>10. map.alloc # 0
  BY <1>1 DEF InvOf, OldOK
<1>11. OldOK(map', search', old')
  BY <1>1, <1>7, <1>10 DEF OldOK
<1>12. \A x, d : ~In(old.table, Rest(old), x, d)
  BY <1>1, NoTableIs
<1>13. In(todo, DOMAIN todo, name, data)
  <2>1. 1 \in 1 .. c
    BY <1>8
  <2> QED
    BY <1>3, <1>8, <1>9, <2>1 DEF In
<1>14. Right(list, name, data)
  BY <1>2, <1>13 DEF ContentOK, Carried
<1>15. \A x, d : In(map'.table, Active(map'), x, d) =>
                   In(map.table, Active(map), x, d) \/ (x = name /\ d = data)
  BY <1>7 DEF In
<1>16. \A x, d : In(todo', DOMAIN todo', x, d) => In(todo, DOMAIN todo, x, d)
  <2>1. \A i \in 1 .. c - 1 : i + 1 \in 1 .. c
    OBVIOUS
  <2> QED
    BY <1>8, <1>9, <2>1 DEF In
<1>17. ASSUME NEW x, NEW d, Carried(map', old', todo', x, d)
       PROVE  Right(list, x, d)
  <2>1. Carried(map, old, todo, x, d) \/ (x = name /\ d = data)
    BY <1>1, <1>15, <1>16, <1>17 DEF Carried
  <2> QED
    BY <1>2, <1>14, <2>1 DEF ContentOK
<1>18. ASSUME NEW j \in DOMAIN list
       PROVE  Carried(map', old', todo', list[j].name, j - 1)
  <2>1. PICK x : x = list[j].name
    OBVIOUS
  <2>2. In(map.table, Active(map), x, j - 1) \/ In(todo, DOMAIN todo, x, j - 1)
    BY <1>2, <1>12, <2>1 DEF ContentOK, Carried
  <2>3. In(map'.table, Active(map'), name, data)
    BY <1>7 DEF In
  <2>4. ASSUME NEW i \in Active(map), map.table[i].key = x, map.table[i].data = j - 1
        PROVE  In(map'.table, Active(map'), x, j - 1)
    <3>1. CASE i = at
      <4>1. x = name
        BY <1>7, <2>4, <3>1
      <4>2. data = j - 1
        BY <1>2, <1>14, <2>1, <4>1 DEF Right, ListOK
      <4> QED
        BY <2>3, <4>1, <4>2
    <3>2. CASE i # at
      BY <1>7, <2>4, <3>2 DEF In
    <3> QED
      BY <3>1, <3>2
  <2>5. ASSUME NEW i \in DOMAIN todo, todo[i].key = x, todo[i].data = j - 1
        PROVE  \/ In(map'.table, Active(map'), x, j - 1)
               \/ In(todo', DOMAIN todo', x, j - 1)
    <3>1. CASE i = 1
      BY <1>3, <1>9, <2>3, <2>5, <3>1
    <3>2. CASE i # 1
      <4>1. i - 1 \in 1 .. c - 1 /\ i - 1 + 1 = i
        BY <1>8, <3>2
      <4>2. todo'[i - 1] = todo[i]
        BY <1>9, <4>1
      <4> QED
        BY <1>9, <2>5, <4>1, <4>2 DEF In
    <3> QED
      BY <3>1, <3>2
  <2> QED
    BY <2>1, <2>2, <2>4, <2>5 DEF In, Carried
<1> QED
  BY <1>1, <1>2, <1>7, <1>9, <1>11, <1>17, <1>18 DEF InvOf, ContentOK

-----------------------------------------------------------------------------
(* The calls *)

(* A name has one place, and a place one name.                             *)
LEMMA RightIs ==
  ASSUME NEW l, ListOK(l), NEW j \in DOMAIN l
  PROVE  /\ Right(l, l[j].name, j - 1)
         /\ \A d : Right(l, l[j].name, d) => d = j - 1
         /\ \A n : Right(l, n, j - 1) => n = l[j].name
<1>1. PICK c \in Nat : c = Len(l) /\ DOMAIN l = 1 .. c
  BY LenProperties DEF ListOK
<1>2. \A k \in DOMAIN l : k - 1 = j - 1 => k = j
  BY <1>1
<1> QED
  BY <1>1, <1>2 DEF ListOK, Right

(* Between calls map and list say the same.                                *)
LEMMA MapIsList ==
  ASSUME IInv, Returned
  PROVE  \A n, d : In(map.table, Active(map), n, d) <=> Right(list, n, d)
<1>1. ASSUME NEW n, NEW d, Right(list, n, d)
      PROVE  In(map.table, Active(map), n, d)
  <2>1. PICK j \in DOMAIN list : list[j].name = n /\ d = j - 1
    BY <1>1 DEF Right
  <2> QED
    BY <2>1, AtRest
<1>2. ASSUME NEW n, NEW d, In(map.table, Active(map), n, d)
      PROVE  Right(list, n, d)
  BY <1>2, AtRest DEF In
<1> QED
  BY <1>1, <1>2

(* What a call leaves when it does not rebuild the map                     *)
LEMMA CallOK ==
  ASSUME NEW m, TableOK(m), m.alloc # 0, NEW t, t \in Seq([key : Names, data : Nat]),
         NEW l, ListOK(l),
         \A n, d : In(m.table, Active(m), n, d) \/ In(t, DOMAIN t, n, d) <=> Right(l, n, d)
  PROVE  InvOf(m, NoSearch, NoTable, t, l)
<1>1. \A n, d : Carried(m, NoTable, t, n, d) <=> Right(l, n, d)
  BY NoTableIs DEF Carried
<1>2. \A j \in DOMAIN l : Right(l, l[j].name, j - 1)
  BY RightIs
<1> QED
  BY <1>1, <1>2 DEF InvOf, ContentOK, OldOK, SearchOK

(* The entry of an object is taken out of the map.                         *)
LEMMA EntryGone ==
  ASSUME IInv, Returned, NEW j \in DOMAIN list, NEW at \in Active(map),
         map.table[at].key = list[j].name
  PROVE  /\ TableOK(Cleared(map, at)) /\ Cleared(map, at).alloc # 0
         /\ \A n, d : In(Cleared(map, at).table, Active(Cleared(map, at)), n, d) <=>
                        Right(list, n, d) /\ n # list[j].name
<1>1. TableOK(map) /\ map.alloc # 0
  BY AtRest
<1>2. PICK m : m = Cleared(map, at)
  OBVIOUS
<1>3. /\ TableOK(m) /\ m.alloc = map.alloc /\ Active(m) = Active(map) \ {at}
      /\ \A i \in Active(map) \ {at} : m.table[i] = map.table[i]
  BY <1>1, <1>2, ClearedOK
<1>4. \A i \in Active(map) : map.table[i].key = list[j].name => i = at
  BY <1>1, KeysDiffer
<1>5. \A n, d : In(m.table, Active(m), n, d) <=>
                  In(map.table, Active(map), n, d) /\ n # list[j].name
  BY <1>3, <1>4 DEF In
<1> QED
  BY <1>1, <1>2, <1>3, <1>5, MapIsList

(* ncindexadd, of a name that is not in the list                           *)
LEMMA AddObjectOK ==
  ASSUME IInv, Returned, NEW name \in Names, Add(Object(name, Len(list))),
         \A j \in DOMAIN list : list[j].name # name
  PROVE  InvOf(map', search', old', todo', list')
<1>1. PICK c \in Nat : c = Len(list) /\ DOMAIN list = 1 .. c
  BY AtRest DEF ListOK
<1>2. /\ todo' = <<[key |-> name, data |-> c]>>
      /\ list' = Append(list, [name |-> name, id |-> c])
      /\ map' = map /\ search' = NoSearch /\ old' = NoTable
  BY <1>1 DEF Add, Object, Returned
<1>3. /\ list' \in Seq([name : Names, id : Nat]) /\ DOMAIN list' = 1 .. c + 1
      /\ \A j \in 1 .. c : list'[j] = list[j]
      /\ list'[c + 1] = [name |-> name, id |-> c]
  BY <1>1, <1>2, AtRest DEF ListOK
<1>4. \A j \in 1 .. c + 1 : j \in 1 .. c \/ j = c + 1
  OBVIOUS
<1>5. ListOK(list')
  <2>1. ASSUME NEW j \in 1 .. c + 1
        PROVE  list'[j].id = j - 1
    <3>1. CASE j \in 1 .. c
      BY <1>1, <1>3, <3>1, AtRest DEF ListOK
    <3>2. CASE j = c + 1
      <4>1. list'[j].id = c /\ c = j - 1
        BY <1>3, <3>2
      <4> QED
        BY <4>1
    <3> QED
      BY <1>4, <3>1, <3>2
  <2>2. ASSUME NEW j \in 1 .. c + 1, NEW k \in 1 .. c + 1, list'[j].name = list'[k].name
        PROVE  j = k
    <3>1. list'[c + 1].name = name
      BY <1>3
    <3>2. \A i \in 1 .. c : list'[i].name = list[i].name /\ list'[i].name # name
      BY <1>1, <1>3
    <3> QED
      BY <1>1, <1>4, <2>2, <3>1, <3>2, AtRest DEF ListOK
  <2> QED
    BY <1>3, <2>1, <2>2 DEF ListOK
<1>6. /\ todo' \in Seq([key : Names, data : Nat]) /\ DOMAIN todo' = {1}
      /\ todo'[1].key = name /\ todo'[1].data = c
  BY <1>2
<1>7. ASSUME NEW n, NEW d
      PROVE  In(map'.table, Active(map'), n, d) \/ In(todo', DOMAIN todo', n, d)
               <=> Right(list', n, d)
  <2>1. In(todo', DOMAIN todo', n, d) <=> n = name /\ d = c
    BY <1>6 DEF In
  <2>2. In(map'.table, Active(map'), n, d) <=> Right(list, n, d)
    BY <1>2, MapIsList
  <2>3. Right(list', n, d) <=> Right(list, n, d) \/ (n = name /\ d = c)
    <3>1. c + 1 - 1 = c /\ c + 1 \in 1 .. c + 1
      OBVIOUS
    <3>2. \A j \in 1 .. c : j \in 1 .. c + 1
      OBVIOUS
    <3>3. list'[c + 1].name = name
      BY <1>3
    <3> QED
      BY <1>1, <1>3, <1>4, <3>1, <3>2, <3>3, SMTT(60) DEF Right
  <2> QED
    BY <2>1, <2>2, <2>3
<1>8. TableOK(map') /\ map'.alloc # 0
  BY <1>2, AtRest
<1> QED
  BY <1>2, <1>5, <1>6, <1>7, <1>8, CallOK

(* The name of the object at place j is replaced by a new one.             *)
LEMMA RenamedIs ==
  ASSUME NEW l, ListOK(l), NEW j \in DOMAIN l, NEW name \in Names,
         \A k \in DOMAIN l : l[k].name # name
  PROVE  /\ ListOK([l EXCEPT ![j].name = name])
         /\ DOMAIN [l EXCEPT ![j].name = name] = DOMAIN l
         /\ [l EXCEPT ![j].name = name][j].name = name
         /\ \A k \in DOMAIN l \ {j} : [l EXCEPT ![j].name = name][k] = l[k]
<1>1. PICK c \in Nat : c = Len(l) /\ DOMAIN l = 1 .. c
  BY DEF ListOK
<1>2. l[j] \in [name : Names, id : Nat]
  BY <1>1, ElementOfSeq DEF ListOK
<1>3. PICK e \in [name : Names, id : Nat] : e = [l[j] EXCEPT !.name = name]
  BY <1>2
<1>4. e.name = name /\ e.id = l[j].id
  BY <1>2, <1>3
<1>5. PICK l2 : l2 = [l EXCEPT ![j] = e]
  OBVIOUS
<1>6. /\ l2 \in Seq([name : Names, id : Nat]) /\ DOMAIN l2 = DOMAIN l /\ l2[j] = e
      /\ \A k \in DOMAIN l \ {j} : l2[k] = l[k]
  BY <1>1, <1>5 DEF ListOK
<1>7. ListOK(l2)
  <2>1. \A k \in DOMAIN l : l2[k].id = k - 1
    BY <1>4, <1>6 DEF ListOK
  <2>2. \A k \in DOMAIN l : l2[k].name = IF k = j THEN name ELSE l[k].name
    BY <1>4, <1>6
  <2> QED
    BY <1>6, <2>1, <2>2 DEF ListOK
<1>8. [l EXCEPT ![j].name = name] = l2
  BY <1>3, <1>5
<1> QED
  BY <1>4, <1>6, <1>7, <1>8

(* NC3_rename_dim: the old entry goes, the new one is to be added.         *)
LEMMA RenameInPlaceOK ==
  ASSUME IInv, Returned, NEW id \in Nat, NEW newname \in Names, NC3_rename(id, newname),
         \A k \in DOMAIN list : list[k].name # newname
  PROVE  InvOf(map', search', old', todo', list')
<1>1. PICK c \in Nat : c = Len(list) /\ DOMAIN list = 1 .. c
  BY AtRest DEF ListOK
<1>2. PICK j \in DOMAIN list : j = id + 1 /\ j - 1 = id
  <2>1. id < c
    BY <1>1 DEF NC3_rename
  <2> QED
    BY <1>1, <2>1
<1>3. /\ map' = NC_hashmapremove(map, list[j].name)
      /\ list' = [list EXCEPT ![j].name = newname]
      /\ todo' = <<[key |-> newname, data |-> id]>>
      /\ search' = NoSearch /\ old' = NoTable
  BY <1>2 DEF NC3_rename, Returned
<1>4. /\ ListOK(list') /\ DOMAIN list' = DOMAIN list /\ list'[j].name = newname
      /\ \A k \in DOMAIN list \ {j} : list'[k] = list[k]
  BY <1>3, AtRest, RenamedIs
<1>5. PICK at \in Active(map) : map.table[at].key = list[j].name
  BY AtRest DEF In
<1>6. map' = Cleared(map, at)
  <2>1. Has(map, map.table[at].key) /\ locate(map, map.table[at].key, FALSE) = at
    BY AtRest, GetIs
  <2> QED
    BY <1>3, <1>5, <2>1 DEF NC_hashmapremove
<1>7. /\ TableOK(map') /\ map'.alloc # 0
      /\ \A n, d : In(map'.table, Active(map'), n, d) <=> Right(list, n, d) /\ n # list[j].name
  BY <1>5, <1>6, EntryGone
<1>8. /\ todo' \in Seq([key : Names, data : Nat]) /\ DOMAIN todo' = {1}
      /\ todo'[1].key = newname /\ todo'[1].data = id
  BY <1>3
<1>9. ASSUME NEW n, NEW d
      PROVE  In(map'.table, Active(map'), n, d) \/ In(todo', DOMAIN todo', n, d)
               <=> Right(list', n, d)
  <2>1. In(todo', DOMAIN todo', n, d) <=> n = newname /\ d = id
    BY <1>8 DEF In
  <2>2. Right(list', n, d) <=> (Right(list, n, d) /\ n # list[j].name) \/ (n = newname /\ d = id)
    <3>1. \A k \in DOMAIN list : list[k].name = list[j].name => k = j
      BY AtRest DEF ListOK
    <3> QED
      BY <1>2, <1>4, <3>1 DEF Right
  <2> QED
    BY <1>7, <2>1, <2>2
<1> QED
  BY <1>3, <1>4, <1>7, <1>8, <1>9, CallOK

(* A sequence without its last element                                     *)
LEMMA FrontIs ==
  ASSUME NEW S, NEW s \in Seq(S), s # <<>>
  PROVE  /\ Len(s) # 0 /\ Front(s) = RemoveAt(s, Len(s))
         /\ Front(s) \in Seq(S) /\ Len(Front(s)) = Len(s) - 1
         /\ \A k \in 1 .. Len(s) - 1 : Front(s)[k] = s[k]
<1>1. PICK c \in Nat : c = Len(s) /\ c # 0
  BY EmptySeq, LenProperties
<1>2. c \in 1 .. c
  BY <1>1
<1>3. SubSeq(s, c + 1, c) = <<>>
  BY <1>1, SubSeqEmpty
<1>4. SubSeq(s, 1, c - 1) \in Seq(S)
  <2>1. \A k \in 1 .. c - 1 : s[k] \in S
    BY <1>1, ElementOfSeq
  <2>2. 1 \in Int /\ c - 1 \in Int
    BY <1>1
  <2> QED
    BY <2>1, <2>2, SubSeqProperties
<1>5. Front(s) = RemoveAt(s, c)
  BY <1>1, <1>3, <1>4, ConcatEmptySeq DEF Front, RemoveAt
<1>6. \A k \in 1 .. c - 1 : k < c
  BY <1>1
<1>7. /\ RemoveAt(s, c) \in Seq(S) /\ Len(RemoveAt(s, c)) = c - 1
      /\ \A k \in 1 .. c - 1 : RemoveAt(s, c)[k] = IF k < c THEN s[k] ELSE s[k + 1]
  BY <1>1, <1>2, RemovedIs
<1> QED
  BY <1>1, <1>5, <1>6, <1>7

(* The object at place j is deleted: those behind it move up, with new ids.*)
Without(l, j) ==
  [i \in DOMAIN RemoveAt(l, j) |->
     [RemoveAt(l, j)[i] EXCEPT !.id = IF @ > j - 1 THEN @ - 1 ELSE @]]

(* Its names are the others, and its ids are places again.                 *)
LEMMA WithoutIs ==
  ASSUME NEW l, ListOK(l), NEW j \in DOMAIN l
  PROVE  /\ ListOK(Without(l, j)) /\ DOMAIN Without(l, j) = 1 .. Len(l) - 1
         /\ \A k \in 1 .. Len(l) - 1 :
              Without(l, j)[k].name = IF k < j THEN l[k].name ELSE l[k + 1].name
<1>1. PICK c \in Nat : c = Len(l) /\ DOMAIN l = 1 .. c /\ j \in 1 .. c
  BY LenProperties DEF ListOK
<1>2. PICK S : S = [name : Names, id : Nat]
  OBVIOUS
<1>3. PICK r : r = RemoveAt(l, j)
  OBVIOUS
<1>4. /\ r \in Seq([name : Names, id : Nat]) /\ DOMAIN r = 1 .. c - 1
      /\ \A k \in 1 .. c - 1 : r[k] = IF k < j THEN l[k] ELSE l[k + 1]
  <2>1. l \in Seq(S) /\ j \in 1 .. Len(l)
    BY <1>1, <1>2 DEF ListOK
  <2>2. /\ RemoveAt(l, j) \in Seq(S)
        /\ Len(RemoveAt(l, j)) = Len(l) - 1
        /\ \A k \in 1 .. Len(l) - 1 : RemoveAt(l, j)[k] = IF k < j THEN l[k] ELSE l[k + 1]
    BY <2>1, RemovedIs
  <2>3. DOMAIN r = 1 .. Len(r)
    BY <1>3, <2>2, LenProperties
  <2> QED
    BY <1>1, <1>3, <1>2, <2>2, <2>3
<1>5. \A k \in 1 .. c : l[k] \in [name : Names, id : Nat] /\ l[k].id = k - 1
  BY <1>1, ElementOfSeq DEF ListOK
<1>6. PICK w : w = Without(l, j)
  OBVIOUS
<1>7. ASSUME NEW k \in 1 .. c - 1
      PROVE  /\ w[k] \in [name : Names, id : Nat] /\ w[k].id = k - 1
             /\ w[k].name = IF k < j THEN l[k].name ELSE l[k + 1].name
  <2>1. k \in 1 .. c /\ k + 1 \in 1 .. c /\ k - 1 \in Nat /\ k + 1 - 1 = k
    BY <1>1
  <2>2. w[k] = [r[k] EXCEPT !.id = IF r[k].id > j - 1 THEN r[k].id - 1 ELSE r[k].id]
    BY <1>3, <1>4, <1>6 DEF Without
  <2>3. CASE k < j
    <3>1. r[k] = l[k] /\ r[k].id = k - 1
      BY <1>4, <1>5, <2>1, <2>3
    <3>2. ~(k - 1 > j - 1)
      BY <1>1, <2>3
    <3>3. w[k] = [r[k] EXCEPT !.id = k - 1]
      BY <2>2, <3>1, <3>2
    <3> QED
      BY <1>5, <2>1, <2>3, <3>1, <3>3
  <2>4. CASE ~(k < j)
    <3>1. r[k] = l[k + 1]
      BY <1>4, <2>4
    <3>2. l[k + 1].id = k + 1 - 1
      BY <1>5, <2>1
    <3>3. r[k] = l[k + 1] /\ r[k].id = k
      BY <2>1, <3>1, <3>2
    <3>4. k > j - 1
      BY <1>1, <2>4
    <3>5. w[k] = [r[k] EXCEPT !.id = k - 1]
      BY <2>2, <3>3, <3>4
    <3> QED
      BY <1>5, <2>1, <2>4, <3>3, <3>5, SMTT(60)
  <2> QED
    BY <2>3, <2>4
<1>8. w = [k \in 1 .. c - 1 |-> w[k]]
  BY <1>3, <1>4, <1>6 DEF Without
<1>9. w \in Seq([name : Names, id : Nat]) /\ DOMAIN w = 1 .. c - 1
  <2>1. c - 1 \in Nat
    BY <1>1
  <2>2. w \in [1 .. c - 1 -> [name : Names, id : Nat]]
    BY <1>7, <1>8
  <2>3. PICK n \in Nat : n = c - 1
    BY <2>1
  <2>4. w \in [1 .. n -> S]
    BY <1>2, <2>2, <2>3
  <2>5. w \in Seq(S)
    BY <2>3, <2>4, SeqDef
  <2> QED
    BY <1>8, <1>2, <2>5
<1>10. ASSUME NEW i \in 1 .. c - 1, NEW k \in 1 .. c - 1, w[i].name = w[k].name
       PROVE  i = k
  <2>1. PICK i1 \in 1 .. c : i1 = IF i < j THEN i ELSE i + 1
    BY <1>1
  <2>2. PICK k1 \in 1 .. c : k1 = IF k < j THEN k ELSE k + 1
    BY <1>1
  <2>3. w[i].name = l[i1].name /\ w[k].name = l[k1].name
    BY <1>7, <2>1, <2>2
  <2>4. i1 = k1
    BY <1>1, <1>10, <2>3 DEF ListOK
  <2> QED
    BY <1>1, <2>1, <2>2, <2>4
<1>11. \A k \in 1 .. c - 1 : w[k].id = k - 1
  BY <1>7
<1>12. ListOK(w)
  BY <1>9, <1>10, <1>11 DEF ListOK
<1>13. \A k \in 1 .. c - 1 : w[k].name = IF k < j THEN l[k].name ELSE l[k + 1].name
  BY <1>7
<1> QED
  BY <1>1, <1>6, <1>9, <1>12, <1>13

(* A name that is not found is no object's.                                *)
LEMMA NotFound ==
  ASSUME IInv, Returned, NEW n \in Names, Lookup(n) = 0 \/ NC_find(n) = 0
  PROVE  \A j \in DOMAIN list : list[j].name # n
<1>1. SUFFICES ASSUME NEW j \in DOMAIN list, list[j].name = n
               PROVE  FALSE
  OBVIOUS
<1>2. PICK c \in Nat : c = Len(list) /\ DOMAIN list = 1 .. c
  BY AtRest, LenProperties DEF ListOK
<1>3. j \in 1 .. c /\ j # 0
  BY <1>2
<1>4. Lookup(n) = j
  BY <1>1, LookupIs
<1>5. list # <<>>
  BY <1>2, <1>3, EmptySeq
<1> QED
  BY <1>3, <1>4, <1>5 DEF NC_find

(* A name that is found is that of the object at the place.                *)
LEMMA Found ==
  ASSUME IInv, Returned, NEW n \in Names, Lookup(n) # 0
  PROVE  \E j \in DOMAIN list : j = Lookup(n) /\ list[j].name = n /\ list[j].id = j - 1
<1>1. Lookup(n) \in DOMAIN list /\ list[Lookup(n)].name = n
  BY LookupIs
<1>2. list[Lookup(n)].id = Lookup(n) - 1
  BY <1>1, AtRest DEF ListOK
<1> QED
  BY <1>1, <1>2

(* NC4_rename_att                                                          *)
LEMMA RenameOK ==
  ASSUME IInv, Returned, NEW n \in Names, NEW new \in Names, rename(n, new)
  PROVE  InvOf(map', search', old', todo', list')
<1>1. Lookup(new) = 0 /\ Lookup(n) # 0
  BY DEF rename
<1>2. PICK j \in DOMAIN list : j = Lookup(n)
  BY <1>1, Found
<1>3. Rebuild([list EXCEPT ![j].name = new])
  BY <1>2 DEF rename
<1>4. ListOK([list EXCEPT ![j].name = new])
  BY <1>1, NotFound, AtRest, RenamedIs
<1> QED
  BY <1>3, <1>4, RebuildOK

(* NC4_del_att rebuilds the map from the list without the object.          *)
LEMMA DelIs ==
  ASSUME IInv, Returned, NEW n \in Names, del_att(n)
  PROVE  \E j \in DOMAIN list : Rebuild(Without(list, j))
<1>1. PICK j \in DOMAIN list : j = Lookup(n) /\ list[j].id = j - 1
  BY Found DEF del_att
<1>2. j - 1 + 1 = j
  BY <1>1, AtRest, LenProperties DEF ListOK
<1>3. list[Lookup(n)].id = j - 1
  BY <1>1
<1>4. Rebuild([i \in DOMAIN RemoveAt(list, j) |->
                 [RemoveAt(list, j)[i] EXCEPT !.id = IF @ > j - 1 THEN @ - 1 ELSE @]])
  BY <1>2, <1>3 DEF del_att
<1> QED
  BY <1>4 DEF Without

(* The last object goes, with its entry.                                   *)
LEMMA ListDelOK ==
  ASSUME IInv, Returned, list_del
  PROVE  InvOf(map', search', old', todo', list')
<1>1. PICK S : S = [name : Names, id : Nat]
  OBVIOUS
<1>2. list \in Seq(S) /\ list # <<>> /\ ListOK(list)
  BY <1>1, AtRest DEF ListOK, list_del
<1>3. PICK c \in Nat : c = Len(list) /\ DOMAIN list = 1 .. c /\ c # 0
  BY <1>2, EmptySeq, LenProperties
<1>4. /\ list' = Front(list) /\ map' = NC_hashmapdeactivate(map, c - 1)
      /\ search' = NoSearch /\ old' = NoTable /\ todo' = <<>>
  BY <1>3 DEF list_del, Returned
<1>5. /\ list' \in Seq(S) /\ DOMAIN list' = 1 .. c - 1
      /\ \A k \in 1 .. c - 1 : list'[k] = list[k]
  BY <1>2, <1>3, <1>4, FrontIs, LenProperties
<1>6. \A k \in 1 .. c - 1 : k \in 1 .. c /\ k # c
  BY <1>3
<1>7. ListOK(list')
  BY <1>1, <1>2, <1>3, <1>5, <1>6 DEF ListOK
<1>8. c \in DOMAIN list
  BY <1>3
<1>9. PICK at \in Active(map) : map.table[at].key = list[c].name /\ map.table[at].data = c - 1
  BY <1>8, AtRest DEF In
<1>10. PICK with : with = {i \in Active(map) : map.table[i].data = c - 1}
  OBVIOUS
<1>11. with = {at}
  <2>1. ASSUME NEW i \in Active(map), map.table[i].data = c - 1
        PROVE  i = at
    <3>1. Right(list, map.table[i].key, c - 1)
      BY <2>1, AtRest
    <3>2. map.table[i].key = list[c].name
      BY <1>2, <1>8, <3>1, RightIs
    <3> QED
      BY <1>9, <3>2, AtRest, KeysDiffer
  <2> QED
    BY <1>9, <1>10, <2>1
<1>12. map' = Cleared(map, at)
  <2>1. at \in Nat
    <3>1. PICK a \in Nat : a = map.alloc
      BY AtRest DEF TableOK
    <3> QED
      BY <1>9, <3>1 DEF Active, Slots
  <2>2. Min(with) = at
    BY <1>11, <2>1, MinIs
  <2> QED
    BY <1>4, <1>10, <1>11, <2>2 DEF NC_hashmapdeactivate
<1>13. /\ TableOK(map') /\ map'.alloc # 0
       /\ \A n, d : In(map'.table, Active(map'), n, d) <=> Right(list, n, d) /\ n # list[c].name
  BY <1>8, <1>9, <1>12, EntryGone
<1>14. ASSUME NEW n, NEW d
       PROVE  In(map'.table, Active(map'), n, d) \/ In(todo', DOMAIN todo', n, d)
                <=> Right(list', n, d)
  <2>1. ~In(todo', DOMAIN todo', n, d)
    BY <1>4 DEF In
  <2>2. \A k \in 1 .. c : k \in 1 .. c - 1 \/ k = c
    BY <1>3
  <2>3. Right(list', n, d) <=> Right(list, n, d) /\ n # list[c].name
    <3>1. \A k \in 1 .. c : list[k].name = list[c].name => k = c
      BY <1>2, <1>3, <1>8 DEF ListOK
    <3> QED
      BY <1>3, <1>5, <1>6, <2>2, <3>1 DEF Right
  <2> QED
    BY <1>13, <2>1, <2>3
<1>15. todo' \in Seq([key : Names, data : Nat])
  BY <1>4
<1> QED
  BY <1>4, <1>7, <1>13, <1>14, <1>15, CallOK

(* Every call starts in a state that the invariant allows, and leaves one. *)
LEMMA ClientOK ==
  ASSUME IInv, Returned, Client
  PROVE  InvOf(map', search', old', todo', list')
<1>1. ASSUME NEW n \in Names, list_add(n)
      PROVE  InvOf(map', search', old', todo', list')
  <2>1. Lookup(n) = 0 /\ Add(Object(n, Len(list)))
    BY <1>1 DEF list_add
  <2> QED
    BY <2>1, NotFound, AddObjectOK
<1>2. ASSUME NEW n \in Names, del_att(n)
      PROVE  InvOf(map', search', old', todo', list')
  <2>1. PICK j \in DOMAIN list : Rebuild(Without(list, j))
    BY <1>2, DelIs
  <2>2. ListOK(Without(list, j))
    BY <2>1, AtRest, WithoutIs
  <2> QED
    BY <2>1, <2>2, RebuildOK
<1>3. ASSUME NEW n \in Names, NC3_def(n)
      PROVE  InvOf(map', search', old', todo', list')
  <2>1. NC_find(n) = 0 /\ Add(Object(n, Len(list)))
    BY <1>3 DEF NC3_def
  <2> QED
    BY <2>1, NotFound, AddObjectOK
<1>4. ASSUME NEW n \in Names, NEW new \in Names, rename(n, new)
      PROVE  InvOf(map', search', old', todo', list')
  BY <1>4, RenameOK
<1>5. ASSUME NEW id \in 0 .. MaxObjects - 1, NEW new \in Names, NC3_rename(id, new)
      PROVE  InvOf(map', search', old', todo', list')
  <2>1. id \in Nat /\ NC_find(new) = 0
    BY <1>5 DEF NC3_rename
  <2> QED
    BY <1>5, <2>1, NotFound, RenameInPlaceOK
<1>6. CASE list_del
  BY <1>6, ListDelOK
<1>7. CASE v1h_get
  BY <1>7, AtRest, RebuildOK DEF v1h_get
<1> QED
  BY <1>1, <1>2, <1>3, <1>4, <1>5, <1>6, <1>7 DEF Client

(* Every step of a call keeps the invariant.                               *)
LEMMA StepsOK ==
  ASSUME IInv, Steps, list' = list
  PROVE  InvOf(map', search', old', todo', list')
<1>1. InvOf(map, search, old, todo, list)
  BY DEF IInv
<1>2. InvOf(map', search', old', todo', list)
  BY <1>1, FoundOK, HalvedOK, GrowOK, RehashOK, RehashEndsOK, AddOK DEF Steps
<1> QED
  BY <1>2

(* A new list                                                              *)
LEMMA InitOK == Init => IInv
<1> SUFFICES ASSUME Init
             PROVE  IInv
  OBVIOUS
<1>1. /\ map = Fresh(MinTableSize) /\ search = NoSearch /\ old = NoTable
      /\ todo = <<>> /\ list = <<>> /\ kind \in {"NCindex", "NC_dimarray"}
  BY DEF Init
<1>2. TableOK(map) /\ Active(map) = {} /\ map.alloc # 0
  BY <1>1, FreshOK
<1>3. ListOK(list) /\ todo \in Seq([key : Names, data : Nat])
  BY <1>1 DEF ListOK
<1>4. \A n, d : ~In(map.table, Active(map), n, d) /\ ~In(todo, DOMAIN todo, n, d)
                /\ ~Right(list, n, d)
  BY <1>1, <1>2 DEF In, Right
<1>5. InvOf(map, NoSearch, NoTable, todo, list)
  BY <1>2, <1>3, <1>4, CallOK
<1> QED
  BY <1>1, <1>5 DEF IInv

(* The invariant is inductive.                                             *)
LEMMA NextOK == IInv /\ [Next]_vars => IInv'
<1> SUFFICES ASSUME IInv, [Next]_vars
             PROVE  IInv'
  OBVIOUS
<1>1. InvOf(map', search', old', todo', list') /\ kind' = kind
  <2>1. CASE Returned /\ Client /\ UNCHANGED kind
    BY <2>1, ClientOK
  <2>2. CASE Steps /\ UNCHANGED <<list, kind>>
    BY <2>2, StepsOK
  <2>3. CASE UNCHANGED vars
    <3>1. map' = map /\ search' = search /\ old' = old /\ todo' = todo /\ list' = list
          /\ kind' = kind
      BY <2>3 DEF vars
    <3> QED
      BY <3>1 DEF IInv
  <2> QED
    BY <2>1, <2>2, <2>3 DEF Next
<1> QED
  BY <1>1 DEF IInv

(* It holds in every state.                                                *)
LEMMA Invariance == Spec => []IInv
<1> QED
  BY InitOK, NextOK, PTL DEF Spec

-----------------------------------------------------------------------------
(* The theorems *)

(* hm->active is the number of active slots, in every state of every call, *)
(* and the assertion at the end of rehash holds (nchashmap.c).             *)
THEOREM TypeCorrect == Spec => []TypeOK
<1>1. IInv => TypeOK
  <2> SUFFICES ASSUME IInv
               PROVE  TypeOK
    OBVIOUS
  <2>1. TableOK(map) /\ SearchOK(search) /\ OldOK(map, search, old) /\ ListOK(list)
    BY DEF IInv, InvOf
  <2>2. search # NoSearch =>
          /\ search.L \in 1 .. search.R - 1 /\ search.R \in DOMAIN Primes
          /\ search.v \in Nat \ {0}
    <3> SUFFICES ASSUME search # NoSearch
                 PROVE  /\ search.L \in 1 .. search.R - 1 /\ search.R \in DOMAIN Primes
                        /\ search.v \in Nat \ {0}
      OBVIOUS
    <3>1. PICK a \in Nat, b \in Nat : a = search.L /\ b = search.R
      BY <2>1 DEF SearchOK
    <3>2. a < b /\ a # 0
      BY <2>1, <3>1 DEF SearchOK
    <3>3. a \in 1 .. b - 1
      BY <3>2
    <3> QED
      BY <2>1, <3>1, <3>3 DEF SearchOK
  <2>3. old.left \in 0 .. Cardinality(DOMAIN old.table)
    <3>1. CASE old = NoTable
      <4>1. PICK x \in Nat : x = Cardinality(DOMAIN NoTable.table)
        <5>1. IsFiniteSet(DOMAIN NoTable.table)
          <6>1. DOMAIN NoTable.table = 1 .. 0
            BY DEF NoTable
          <6>2. IsFiniteSet(1 .. 0)
            BY FS_Interval
          <6> QED
            BY <6>1, <6>2
        <5> QED
          BY <5>1, FS_CardinalityType
      <4>2. NoTable.left = 0 /\ 0 \in 0 .. x
        BY DEF NoTable
      <4> QED
        BY <3>1, <4>1, <4>2
    <3>2. CASE old # NoTable
      <4>1. PICK n \in Nat \ {0} :
              old \in [table : [0 .. n - 1 -> Entry], left : 0 .. n, active : Nat]
        BY <2>1, <3>2 DEF OldOK
      <4>2. Cardinality(0 .. n - 1) = n
        BY FS_Interval
      <4>3. DOMAIN old.table = 0 .. n - 1 /\ old.left \in 0 .. n
        BY <4>1
      <4> QED
        BY <4>2, <4>3
    <3> QED
      BY <3>1, <3>2
  <2>4. CountExact
    <3>1. old # NoTable /\ search = NoSearch =>
            old.active = map.active + Cardinality(Rest(old))
      BY <2>1 DEF OldOK
    <3> QED
      BY <2>1, <3>1 DEF CountExact, TableOK, Rest
  <2> QED
    BY <2>1, <2>2, <2>3, <2>4 DEF TypeOK, IInv, InvOf, TableOK, ListOK
<1> QED
  BY <1>1, Invariance, PTL

(* A name leads to its object, and a name that no object has to none       *)
(* (locate and NC_hashmapget of nchashmap.c, ncindexlookup of ncindex.c).  *)
THEOREM NamesLeadToObjects == Spec => []LookupRight
<1>1. IInv => LookupRight
  <2> SUFFICES ASSUME IInv
               PROVE  LookupRight
    OBVIOUS
  <2>1. ProbesReach
    BY LocateActive DEF ProbesReach, IInv, InvOf
  <2>2. ASSUME Returned, NEW n \in Names
        PROVE  IF n \in ToSet(NameAt(list))
               THEN /\ Lookup(n) # 0
                    /\ list[Lookup(n)] = Object(n, Lookup(n) - 1)
               ELSE ~Has(map, n)
    <3>1. PICK c \in Nat : c = Len(list) /\ DOMAIN list = 1 .. c
      BY <2>2, AtRest, LenProperties DEF ListOK
    <3>2. n \in ToSet(NameAt(list)) <=> \E j \in DOMAIN list : list[j].name = n
      BY DEF ToSet, NameAt
    <3>3. ASSUME NEW j \in DOMAIN list, list[j].name = n
          PROVE  /\ Lookup(n) # 0
                 /\ list[Lookup(n)] = Object(n, Lookup(n) - 1)
      <4>1. Lookup(n) = j /\ j # 0
        BY <2>2, <3>1, <3>3, LookupIs
      <4>2. list[j] \in [name : Names, id : Nat] /\ list[j].id = j - 1
        BY <2>2, <3>1, AtRest, ElementOfSeq DEF ListOK
      <4>3. list[j] = [name |-> n, id |-> j - 1]
        BY <3>3, <4>2
      <4> QED
        BY <4>1, <4>3 DEF Object
    <3>4. Has(map, n) => \E j \in DOMAIN list : list[j].name = n
      BY <2>2, LookupIs
    <3> QED
      BY <3>2, <3>3, <3>4
  <2> QED
    BY <2>1, <2>2 DEF LookupRight
<1> QED
  BY <1>1, Invariance, PTL

(* The names of a list, in order                                           *)
LEMMA NameAtIs ==
  ASSUME NEW l, ListOK(l)
  PROVE  /\ NameAt(l) \in Seq(Names) /\ Len(NameAt(l)) = Len(l)
         /\ \A j \in 1 .. Len(l) : NameAt(l)[j] = l[j].name
<1>1. PICK c \in Nat : c = Len(l) /\ DOMAIN l = 1 .. c
  BY LenProperties DEF ListOK
<1>2. \A j \in 1 .. c : l[j].name \in Names
  <2>1. \A j \in 1 .. c : l[j] \in [name : Names, id : Nat]
    BY <1>1, ElementOfSeq DEF ListOK
  <2> QED
    BY <2>1
<1>3. PICK a : a = NameAt(l)
  OBVIOUS
<1>4. a \in [1 .. c -> Names] /\ \A j \in 1 .. c : a[j] = l[j].name
  BY <1>1, <1>2, <1>3 DEF NameAt
<1>5. a \in Seq(Names)
  BY <1>4, SeqDef
<1>6. Len(a) = c
  BY <1>4, <1>5
<1> QED
  BY <1>1, <1>3, <1>4, <1>5, <1>6

(* What a call does to the list is a step of NameList.                     *)
LEMMA AppendStep ==
  ASSUME IInv, Returned, NEW n \in Names, Add(Object(n, Len(list))),
         \A j \in DOMAIN list : list[j].name # n, ListOK(list')
  PROVE  IsNameList!Next
<1>1. PICK c \in Nat : c = Len(list) /\ DOMAIN list = 1 .. c
  BY AtRest, LenProperties DEF ListOK
<1>2. list' = Append(list, [name |-> n, id |-> c])
  BY <1>1 DEF Add, Object
<1>3. /\ Len(list') = c + 1 /\ \A j \in 1 .. c : list'[j] = list[j]
      /\ list'[c + 1] = [name |-> n, id |-> c]
  BY <1>1, <1>2, AtRest DEF ListOK
<1>4. PICK a \in Seq(Names) : a = NameAt(list)
  BY AtRest, NameAtIs
<1>5. Len(a) = c /\ \A j \in 1 .. c : a[j] = list[j].name
  BY <1>1, <1>4, AtRest, NameAtIs
<1>6. PICK b \in Seq(Names) : b = NameAt(list')
  BY NameAtIs
<1>7. Len(b) = c + 1 /\ \A j \in 1 .. c + 1 : b[j] = list'[j].name
  BY <1>3, <1>6, NameAtIs
<1>8. PICK q \in Seq(Names) : q = Append(a, n)
  <2>1. Append(a, n) \in Seq(Names)
    OBVIOUS
  <2> QED
    BY <2>1
<1>9. Len(q) = c + 1 /\ q[c + 1] = n /\ \A j \in 1 .. c : q[j] = a[j]
  BY <1>5, <1>8, SMTT(60)
<1>10. ASSUME NEW j \in 1 .. c + 1
       PROVE  b[j] = q[j]
  <2>1. CASE j \in 1 .. c
    <3>1. list'[j] = list[j]
      BY <1>3, <2>1
    <3>2. b[j] = list'[j].name
      BY <1>7
    <3>3. q[j] = list[j].name
      BY <1>5, <1>9, <2>1
    <3> QED
      BY <3>1, <3>2, <3>3
  <2>2. CASE j = c + 1
    <3>1. list'[j].name = n /\ q[j] = n
      BY <1>3, <1>9, <2>2
    <3> QED
      BY <1>7, <3>1
  <2>3. j \in 1 .. c \/ j = c + 1
    OBVIOUS
  <2> QED
    BY <2>1, <2>2, <2>3
<1>11. b = q
  BY <1>7, <1>9, <1>10, SeqEqual
<1>12. n \notin ToSet(a)
  <2>1. DOMAIN a = 1 .. c
    BY <1>5, LenProperties
  <2> QED
    BY <1>1, <1>5, <2>1 DEF ToSet
<1>13. NameAt(list)' = b
  BY <1>6 DEF NameAt
<1>14. IsNameList!Define(n)
  BY <1>4, <1>8, <1>11, <1>12, <1>13 DEF IsNameList!Define, IsNameList!IsNew, IsNameList!ToSet, ToSet
<1> QED
  BY <1>14 DEF IsNameList!Next

(* The names of a list, given one by one                                   *)
LEMMA SameNames ==
  ASSUME NEW l, ListOK(l), NEW b \in Seq(Names), Len(b) = Len(l),
         \A j \in 1 .. Len(l) : b[j] = l[j].name
  PROVE  NameAt(l) = b
<1>1. \A j \in 1 .. Len(l) : NameAt(l)[j] = b[j]
  BY NameAtIs
<1>2. NameAt(l) \in Seq(Names) /\ Len(NameAt(l)) = Len(b)
  BY NameAtIs
<1>3. PICK a \in Seq(Names) : a = NameAt(l)
  BY <1>2
<1>4. a = b
  BY <1>1, <1>2, <1>3, SeqEqual
<1> QED
  BY <1>3, <1>4

(* A list in which one object has a new name is a renaming of NameList.    *)
LEMMA RenameStep ==
  ASSUME ListOK(list), NEW j \in DOMAIN list, NEW n \in Names,
         \A k \in DOMAIN list : list[k].name # n,
         list' = [list EXCEPT ![j].name = n]
  PROVE  IsNameList!Next
<1>1. PICK c \in Nat : c = Len(list) /\ DOMAIN list = 1 .. c
  BY LenProperties DEF ListOK
<1>2. /\ ListOK(list') /\ DOMAIN list' = 1 .. c /\ list'[j].name = n
      /\ \A k \in 1 .. c \ {j} : list'[k] = list[k]
  BY <1>1, RenamedIs
<1>3. Len(list') = c
  BY <1>1, <1>2, LenProperties DEF ListOK
<1>4. PICK a \in Seq(Names) : a = NameAt(list)
  BY NameAtIs
<1>5. Len(a) = c /\ \A k \in 1 .. c : a[k] = list[k].name
  BY <1>1, <1>4, NameAtIs
<1>6. PICK b \in Seq(Names) : b = [a EXCEPT ![j] = n]
  <2>1. j \in 1 .. Len(a)
    BY <1>1, <1>5
  <2>2. [a EXCEPT ![j] = n] \in Seq(Names)
    BY <2>1, ExceptSeq
  <2> QED
    BY <2>2
<1>7. Len(b) = c /\ \A k \in 1 .. c : b[k] = IF k = j THEN n ELSE a[k]
  BY <1>1, <1>5, <1>6, ExceptSeq
<1>8. \A k \in 1 .. c : b[k] = list'[k].name
  BY <1>2, <1>5, <1>7
<1>9. NameAt(list') = b
  BY <1>2, <1>3, <1>7, <1>8, SameNames, ZenonT(60)
<1>10. NameAt(list)' = b
  BY <1>9 DEF NameAt
<1>11. DOMAIN a = 1 .. c
  BY <1>5, LenProperties
<1>12. n \notin ToSet(a)
  BY <1>1, <1>5, <1>11 DEF ToSet
<1>13. IsNameList!Rename(j, n)
  BY <1>4, <1>6, <1>10, <1>12
     DEF IsNameList!Rename, IsNameList!IsNew, IsNameList!ToSet, ToSet
<1>14. j \in DOMAIN NameAt(list)
  BY <1>1, <1>4, <1>11
<1> QED
  BY <1>13, <1>14 DEF IsNameList!Next

(* RemovedIs for names                                                     *)
LEMMA RemovedNames ==
  ASSUME NEW a \in Seq(Names), NEW j \in 1 .. Len(a)
  PROVE  /\ RemoveAt(a, j) \in Seq(Names) /\ Len(RemoveAt(a, j)) = Len(a) - 1
         /\ \A k \in 1 .. Len(a) - 1 : RemoveAt(a, j)[k] = IF k < j THEN a[k] ELSE a[k + 1]
BY RemovedIs

(* A list without one object is a deletion of NameList.                    *)
LEMMA DeleteStep ==
  ASSUME ListOK(list), ListOK(list'), NEW j \in DOMAIN list, Len(list') = Len(list) - 1,
         \A k \in 1 .. Len(list) - 1 :
           list'[k].name = IF k < j THEN list[k].name ELSE list[k + 1].name
  PROVE  IsNameList!Next
<1>1. PICK c \in Nat : c = Len(list) /\ DOMAIN list = 1 .. c /\ j \in 1 .. c
  BY LenProperties DEF ListOK
<1>2. PICK a \in Seq(Names) : a = NameAt(list)
  BY NameAtIs
<1>3. Len(a) = c /\ DOMAIN a = 1 .. c /\ \A k \in 1 .. c : a[k] = list[k].name
  BY <1>1, <1>2, NameAtIs, LenProperties
<1>4. /\ RemoveAt(a, j) \in Seq(Names) /\ Len(RemoveAt(a, j)) = c - 1
      /\ \A k \in 1 .. c - 1 : RemoveAt(a, j)[k] = IF k < j THEN a[k] ELSE a[k + 1]
  <2>1. j \in 1 .. Len(a)
    BY <1>1, <1>3
  <2>2. /\ RemoveAt(a, j) \in Seq(Names) /\ Len(RemoveAt(a, j)) = Len(a) - 1
        /\ \A k \in 1 .. Len(a) - 1 : RemoveAt(a, j)[k] = IF k < j THEN a[k] ELSE a[k + 1]
    BY <2>1, RemovedNames, SMTT(60)
  <2> QED
    BY <1>3, <2>2
<1>5. PICK b \in Seq(Names) : b = RemoveAt(a, j)
  BY <1>4
<1>6. ASSUME NEW k \in 1 .. c - 1
      PROVE  b[k] = list'[k].name
  <2>1. k \in 1 .. c /\ k + 1 \in 1 .. c
    BY <1>1
  <2>2. b[k] = IF k < j THEN a[k] ELSE a[k + 1]
    BY <1>4, <1>5
  <2>3. a[k] = list[k].name /\ a[k + 1] = list[k + 1].name
    BY <1>3, <2>1
  <2>4. list'[k].name = IF k < j THEN list[k].name ELSE list[k + 1].name
    BY <1>1
  <2> QED
    BY <2>2, <2>3, <2>4
<1>7. Len(b) = c - 1 /\ Len(list') = c - 1
  BY <1>1, <1>4, <1>5
<1>8. NameAt(list') = b
  BY <1>6, <1>7, SameNames
<1>9. NameAt(list)' = b
  BY <1>8 DEF NameAt
<1>10. IsNameList!Delete(j)
  BY <1>2, <1>5, <1>9 DEF IsNameList!Delete, IsNameList!RemoveAt, RemoveAt
<1>11. j \in DOMAIN NameAt(list)
  BY <1>1, <1>2, <1>3
<1> QED
  BY <1>10, <1>11 DEF IsNameList!Next

(* The list is what its users rely on: a call defines, renames or deletes  *)
(* one object, and no two objects ever have the same name.                 *)
THEOREM IsAList == Spec => Refines
<1>1. Init => IsNameList!Init
  BY DEF Init, IsNameList!Init, NameAt
<1>2. IInv /\ IInv' /\ [Next]_vars => [IsNameList!Next]_(NameAt(list))
  <2> SUFFICES ASSUME IInv, IInv', [Next]_vars
               PROVE  IsNameList!Next \/ NameAt(list)' = NameAt(list)
    OBVIOUS
  <2>1. ListOK(list) /\ ListOK(list')
    BY DEF IInv, InvOf
  <2>2. CASE list' = list
    BY <2>2 DEF NameAt
  <2>3. CASE Returned /\ Client /\ UNCHANGED kind
    <3>1. PICK c \in Nat : c = Len(list) /\ DOMAIN list = 1 .. c
      BY <2>1, LenProperties DEF ListOK
    <3>2. ASSUME NEW n \in Names, list_add(n) \/ NC3_def(n)
          PROVE  IsNameList!Next
      <4>1. (Lookup(n) = 0 \/ NC_find(n) = 0) /\ Add(Object(n, Len(list)))
        BY <3>2 DEF list_add, NC3_def
      <4> QED
        BY <2>1, <2>3, <4>1, NotFound, AppendStep
    <3>3. ASSUME NEW n \in Names, del_att(n)
          PROVE  IsNameList!Next
      <4>1. PICK j \in DOMAIN list : Rebuild(Without(list, j))
        BY <2>3, <3>3, DelIs
      <4>2. list' = Without(list, j)
        BY <4>1 DEF Rebuild
      <4>3. /\ DOMAIN list' = 1 .. c - 1
            /\ \A k \in 1 .. c - 1 :
                 list'[k].name = IF k < j THEN list[k].name ELSE list[k + 1].name
        BY <2>1, <3>1, <4>2, WithoutIs
      <4>4. PICK d \in Nat : d = Len(list') /\ DOMAIN list' = 1 .. d
        BY <2>1, LenProperties DEF ListOK
      <4>5. d = c - 1
        <5>1. c # 0
          BY <3>1
        <5> QED
          BY <4>3, <4>4, <5>1
      <4> QED
        BY <2>1, <3>1, <4>3, <4>4, <4>5, DeleteStep
    <3>4. ASSUME NEW n \in Names, NEW new \in Names, rename(n, new)
          PROVE  IsNameList!Next
      <4>1. Lookup(new) = 0 /\ Lookup(n) # 0
        BY <3>4 DEF rename
      <4>2. PICK j \in DOMAIN list : j = Lookup(n)
        BY <2>3, <4>1, Found
      <4>3. list' = [list EXCEPT ![j].name = new]
        BY <3>4, <4>2 DEF rename, Rebuild
      <4> QED
        BY <2>1, <2>3, <4>1, <4>3, NotFound, RenameStep
    <3>5. ASSUME NEW id \in 0 .. MaxObjects - 1, NEW new \in Names, NC3_rename(id, new)
          PROVE  IsNameList!Next
      <4>1. NC_find(new) = 0 /\ id < c
        BY <3>1, <3>5 DEF NC3_rename
      <4>2. PICK j \in DOMAIN list : j = id + 1
        BY <3>1, <4>1
      <4>3. list' = [list EXCEPT ![j].name = new]
        BY <3>5, <4>2 DEF NC3_rename
      <4> QED
        BY <2>1, <2>3, <4>1, <4>3, NotFound, RenameStep
    <3>6. CASE list_del
      <4>1. PICK S : S = [name : Names, id : Nat]
        OBVIOUS
      <4>2. list \in Seq(S) /\ list # <<>> /\ list' = Front(list)
        BY <2>1, <3>6, <4>1 DEF ListOK, list_del
      <4>3. /\ c # 0 /\ Len(list') = c - 1
            /\ \A k \in 1 .. c - 1 : list'[k] = list[k]
        BY <3>1, <4>2, FrontIs
      <4>4. \A k \in 1 .. c - 1 : k < c
        BY <3>1
      <4>5. \A k \in 1 .. c - 1 :
              list'[k].name = IF k < c THEN list[k].name ELSE list[k + 1].name
        BY <4>3, <4>4
      <4>6. c \in DOMAIN list
        BY <3>1, <4>3
      <4> QED
        BY <2>1, <3>1, <4>3, <4>5, <4>6, DeleteStep
    <3>7. CASE v1h_get
      BY <2>2, <3>7 DEF v1h_get, Rebuild
    <3> QED
      BY <2>2, <2>3, <3>2, <3>3, <3>4, <3>5, <3>6, <3>7 DEF Client
  <2> QED
    BY <2>2, <2>3 DEF Next, vars
<1> QED
  BY <1>1, <1>2, Invariance, PTL DEF Spec, Refines, IsNameList!Spec
=============================================================================
