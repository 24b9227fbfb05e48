---------------------------- MODULE MemIOProofs ----------------------------
(* Theorems about MemIO for every size, page size and number of regions:   *)
(* the lock counts what is out, so memory that somebody holds a part of    *)
(* stays where it is, and memory has one owner when the dataset is closed. *)
(* With a disk that does not fail it is a memory of bytes (ByteFile).      *)
EXTENDS MemIO, FiniteSetTheorems, TLAPS

Data    == [Addr -> Bytes \cup {Garbage}]
Handles == [open : {TRUE}, alloc : Nat, size : 0 .. Size, locked : Nat,
            modified : {FALSE}, write : BOOLEAN, persist : BOOLEAN,
            inmemory : BOOLEAN, given : BOOLEAN]

(* The inductive invariant.  That nothing was modified is part of it: the  *)
(* only place that sets NCMEMIO.modified is where the model ends.          *)
Shape ==
  /\ memio = Closed \/ (memio \in Handles /\ memio.size <= memio.alloc)
  /\ block \in [state : {"none", "live", "freed", "fault"},
                owner : {"client", "library"}, size : 0 .. Size, bytes : Data]
  /\ file \in [size : 0 .. Size, bytes : Data]
  /\ place \in {"new", "file", "block", "gone"}
  /\ lost \in 0 .. MaxLost

Regions ==
  /\ IsFiniteSet(held) /\ held \subseteq Addr \X (1 .. Size)
  /\ memio = Closed => held = {}
  /\ memio # Closed => \A r \in held : r[1] + r[2] <= memio.size

Owned == Running => (block.owner = "client" <=> memio.given)

IInv == Shape /\ Regions /\ LockCounts /\ Owned /\ OneOwner

-----------------------------------------------------------------------------
(* Memory in whole pages is not less than what was asked for.              *)
LEMMA RoundedUp ==
  ASSUME NEW n \in Nat
  PROVE  Rounded(n) \in Nat /\ n <= Rounded(n)
<1> DEFINE x == Larger(n, 1) + pagesize - 1
           q == x \div pagesize
<1>1. x \in Nat /\ pagesize \in Nat \ {0} /\ n + pagesize <= x + 1
  BY MemIOAssumption DEF Larger
<1>2. /\ x \div pagesize \in Nat
      /\ x = pagesize * (x \div pagesize) + (x % pagesize)
      /\ x % pagesize \in 0 .. pagesize - 1
  BY <1>1
<1>3. q \in Nat /\ pagesize * q = q * pagesize /\ pagesize * q \in Nat
  <2>1. \A i, j \in Nat : i * j = j * i /\ i * j \in Nat
    OBVIOUS
  <2> QED
    BY <1>1, <1>2, <2>1
<1>4. n <= q * pagesize
  BY <1>1, <1>2, <1>3
<1>5. Rounded(n) = q * pagesize
  BY DEF Rounded
<1> QED
  BY <1>3, <1>4, <1>5

(* A closed dataset is not an open one.                                    *)
LEMMA OpenIsHandle ==
  ASSUME Shape
  PROVE  /\ memio.open <=> memio \in Handles
         /\ memio.open <=> memio # Closed
         /\ memio.open => memio.size <= memio.alloc
<1>1. ~Closed.open
  BY DEF Closed
<1>2. \A m \in Handles : m.open
  BY DEF Handles
<1> QED
  BY <1>1, <1>2 DEF Shape

(* What is open is not Closed.                                             *)
LEMMA Opened == \A m \in Handles : m.open /\ m # Closed
<1>1. ~Closed.open
  BY DEF Closed
<1>2. \A m \in Handles : m.open
  BY DEF Handles
<1> QED
  BY <1>1, <1>2

(* What padding and growing give: a failure that leaves NCMEMIO as it was, *)
(* or a size that suffices; with a lock the memory never moves.            *)
LEMMA Pads ==
  ASSUME NEW m \in Handles, NEW len \in 0 .. Size, m.size <= m.alloc
  PROVE  LET p == memio_pad_length(m, len)
         IN  \/ p.st \in {"EPERM", "EINMEMORY"} /\ p.m = m
             \/ p.st = "fault" /\ p.m = m /\ m.locked = 0
             \/ /\ p.st = "ok" /\ p.m = [m EXCEPT !.size = len]
                /\ len <= m.alloc
BY MemIOAssumption DEF memio_pad_length, Handles

LEMMA Guarantees ==
  ASSUME NEW m \in Handles, NEW end \in 0 .. Size, m.size <= m.alloc
  PROVE  LET g == guarantee(m, end)
         IN  \/ g.st \in {"EPERM", "EINMEMORY"} /\ g.m = m
             \/ g.st = "fault" /\ g.m = m /\ m.locked = 0
             \/ /\ g.st = "ok" /\ g.m = [m EXCEPT !.size = Larger(m.size, end)]
                /\ Larger(m.size, end) \in 0 .. m.alloc
                /\ Larger(m.size, end) \in 0 .. Size
                /\ m.size <= Larger(m.size, end) /\ end <= Larger(m.size, end)
<1> DEFINE g == guarantee(m, end)
           p == memio_pad_length(m, end)
<1>1. CASE end <= m.alloc
  BY <1>1, MemIOAssumption DEF guarantee, Larger, Handles
<1>2. CASE end > m.alloc
  <2>1. ~(end <= m.alloc)
    BY <1>2, MemIOAssumption DEF Handles
  <2>2. p.st # "ok"
    BY <2>1, Pads
  <2>3. g = p
    BY <1>2, <2>2 DEF guarantee
  <2> QED
    BY <2>2, <2>3, Pads
<1> QED
  BY <1>1, <1>2, MemIOAssumption DEF Handles

-----------------------------------------------------------------------------
(* Bytes, however they are moved, are bytes.                               *)
LEMMA MovedData ==
  ASSUME NEW data \in Data, NEW to \in Addr, NEW from \in Addr, NEW n \in Nat,
         from + n <= Size
  PROVE  memmove(data, to, from, n) \in Data
<1>1. \A a \in Addr : a \in to .. to + n - 1 => (a + from) - to \in Addr
  BY MemIOAssumption DEF Addr
<1>2. \A a \in Addr : data[a] \in Bytes \cup {Garbage}
  BY DEF Data
<1>3. \A a \in Addr :
        (IF a \in to .. to + n - 1 THEN data[(a + from) - to] ELSE data[a])
          \in Bytes \cup {Garbage}
  BY <1>1, <1>2
<1> QED
  BY <1>3 DEF memmove, Data

LEMMA BelowData ==
  ASSUME NEW data \in Data
  PROVE  \A n : Below(data, n) \in Data
BY DEF Below, Data

LEMMA NoBytesData == NoBytes \in Data
BY DEF NoBytes, Data

LEMMA InitIInv == Init => IInv
<1> SUFFICES ASSUME Init
             PROVE  IInv
  OBVIOUS
<1>1. Shape
  BY NoBytesData, MemIOAssumption DEF Init, Shape
<1>2. Regions
  BY FS_EmptySet DEF Init, Regions
<1>3. ~memio.open
  BY DEF Init, Closed
<1>4. LockCounts /\ Owned
  BY <1>3 DEF LockCounts, Owned, Running
<1>5. OneOwner
  BY DEF Init, OneOwner
<1> QED
  BY <1>1, <1>2, <1>4, <1>5 DEF IInv

-----------------------------------------------------------------------------
(* One lemma per action.                                                   *)

(* An open gives a handle with one lock for a block that is the client's.  *)
LEMMA OpenIInv ==
  ASSUME IInv, ~memio.open,
         NEW alloc \in Nat, NEW size \in 0 .. Size, size <= alloc,
         NEW write \in BOOLEAN, NEW persist \in BOOLEAN,
         NEW inmemory \in BOOLEAN, NEW own \in BOOLEAN,
         memio' = NCMEMIO(alloc, size, IF own THEN 1 ELSE 0, write, persist,
                          inmemory, own),
         block' \in [state : {"live"}, owner : {"client", "library"},
                     size : 0 .. Size, bytes : Data],
         block'.owner = "client" <=> own,
         place' = "block" \/ UNCHANGED place, lost' = 0, UNCHANGED <<file, held>>
  PROVE  IInv'
<1>1. /\ memio' \in Handles /\ memio'.open /\ memio'.size <= memio'.alloc
      /\ memio'.locked = (IF own THEN 1 ELSE 0) /\ memio'.given = own
  BY MemIOAssumption DEF NCMEMIO, Handles
<1>2. Shape'
  BY <1>1, MemIOAssumption DEF IInv, Shape, Data
<1>3. held = {} /\ held' = {}
  BY OpenIsHandle DEF IInv, Regions
<1>4. Regions'
  BY <1>1, <1>3, FS_EmptySet DEF Regions, Closed
<1>5. LockCounts'
  BY <1>1, <1>3, FS_EmptySet DEF LockCounts
<1>6. Owned' /\ OneOwner'
  BY <1>1 DEF Owned, OneOwner
<1> QED
  BY <1>2, <1>4, <1>5, <1>6 DEF IInv

LEMMA CreateIInv ==
  ASSUME IInv, NEW n \in 0 .. Size, NEW p \in BOOLEAN, NEW i \in BOOLEAN,
         memio_create(n, p, i)
  PROVE  IInv'
<1>1. n \in Nat /\ Rounded(n) \in Nat /\ n <= Rounded(n)
  BY RoundedUp, MemIOAssumption
<1>2. memio' = NCMEMIO(Rounded(n), n, IF FALSE THEN 1 ELSE 0, TRUE, p, i, FALSE)
  BY DEF memio_create
<1>3. /\ block' \in [state : {"live"}, owner : {"client", "library"},
                     size : 0 .. Size, bytes : Data]
      /\ block'.owner = "client" <=> FALSE
  BY NoBytesData, MemIOAssumption DEF memio_create
<1>4. /\ ~memio.open /\ place' = "block" /\ lost' = 0 /\ UNCHANGED <<file, held>>
  BY DEF memio_create
<1> QED
  BY <1>1, <1>2, <1>3, <1>4, OpenIInv

LEMMA OpenFileIInv ==
  ASSUME IInv, NEW w \in BOOLEAN, NEW p \in BOOLEAN, OpenFile(w, p)
  PROVE  IInv'
<1>1. file.size \in 0 .. Size /\ file.size \in Nat /\ file.bytes \in Data
  BY MemIOAssumption DEF IInv, Shape
<1>2. Rounded(file.size) \in Nat /\ file.size <= Rounded(file.size)
  BY <1>1, RoundedUp
<1>3. memio' = NCMEMIO(Rounded(file.size), file.size, IF FALSE THEN 1 ELSE 0,
                       w, p, FALSE, FALSE)
  BY DEF OpenFile
<1>4. /\ block' \in [state : {"live"}, owner : {"client", "library"},
                     size : 0 .. Size, bytes : Data]
      /\ block'.owner = "client" <=> FALSE
  BY <1>1, BelowData, MemIOAssumption DEF OpenFile
<1>5. /\ ~memio.open /\ place' = "block" /\ lost' = 0 /\ UNCHANGED <<file, held>>
  BY DEF OpenFile
<1> QED
  BY <1>1, <1>2, <1>3, <1>4, <1>5, OpenIInv

LEMMA OpenMemoryIInv ==
  ASSUME IInv, NEW w \in BOOLEAN, NEW l \in BOOLEAN, OpenMemory(w, l)
  PROVE  IInv'
<1>1. block.size \in 0 .. Size /\ block.size \in Nat
  BY MemIOAssumption DEF IInv, Shape
<1>2. /\ block' \in [state : {"live"}, owner : {"client", "library"},
                     size : 0 .. Size, bytes : Data]
      /\ block'.owner = "client" <=> l
  BY DEF IInv, Shape, OpenMemory
<1>3. /\ (IF l THEN block.size ELSE Rounded(block.size)) \in Nat
      /\ block.size <= (IF l THEN block.size ELSE Rounded(block.size))
  BY <1>1, RoundedUp
<1> QED
  BY <1>1, <1>2, <1>3, OpenIInv DEF OpenMemory

(* A get that succeeds adds a region and a lock; one that fails leaves the *)
(* lock; one that moves the memory finds nobody that holds a part of it.   *)
LEMMA GetIInv ==
  ASSUME IInv, NEW o \in Addr, NEW n \in 1 .. Size, o + n <= Size,
         memio_get(o, n)
  PROVE  IInv' /\ (held # {} => block'.state = "live")
<1> DEFINE g == guarantee(memio, o + n)
<1>1. /\ memio \in Handles /\ memio.size <= memio.alloc /\ memio # Closed
      /\ memio.open /\ block.state = "live" /\ Running
  BY OpenIsHandle DEF IInv, memio_get, Running
<1>2. o + n \in 0 .. Size
  BY MemIOAssumption DEF Addr
<1>3. \/ g.st \in {"EPERM", "EINMEMORY"} /\ g.m = memio
      \/ g.st = "fault" /\ g.m = memio /\ memio.locked = 0
      \/ /\ g.st = "ok" /\ g.m = [memio EXCEPT !.size = Larger(memio.size, o + n)]
         /\ Larger(memio.size, o + n) \in 0 .. memio.alloc
         /\ Larger(memio.size, o + n) \in 0 .. Size
         /\ memio.size <= Larger(memio.size, o + n)
         /\ o + n <= Larger(memio.size, o + n)
  BY <1>1, <1>2, Guarantees
<1>4. /\ memio' = [g.m EXCEPT !.locked = @ + 1] /\ block' = Fault(g.st)
      /\ UNCHANGED <<file, place>>
  BY DEF memio_get
<1>a. PICK gm : gm = g.m
  OBVIOUS
<1>b. memio.size \in Nat /\ memio.alloc \in Nat /\ memio.locked \in Nat
  BY <1>1, MemIOAssumption DEF Handles
<1>5. gm \in Handles /\ gm.size <= gm.alloc /\ memio.size <= gm.size
      /\ gm.locked = memio.locked /\ gm.given = memio.given
  <2>1. CASE gm = memio
    BY <1>1, <1>b, <2>1
  <2>2. CASE /\ gm = [memio EXCEPT !.size = Larger(memio.size, o + n)]
             /\ Larger(memio.size, o + n) \in 0 .. memio.alloc
             /\ Larger(memio.size, o + n) \in 0 .. Size
             /\ memio.size <= Larger(memio.size, o + n)
    <3>1. PICK s \in 0 .. Size : s = Larger(memio.size, o + n)
      BY <2>2
    <3>2. gm = [memio EXCEPT !.size = s] /\ s \in 0 .. memio.alloc
          /\ memio.size <= s
      BY <2>2, <3>1
    <3>3. gm \in Handles /\ gm.size = s /\ gm.alloc = memio.alloc
          /\ gm.locked = memio.locked /\ gm.given = memio.given
      BY <1>1, <3>2 DEF Handles
    <3> QED
      BY <1>b, <3>2, <3>3
  <2> QED
    BY <1>3, <1>a, <2>1, <2>2
<1>6. /\ memio' \in Handles /\ memio'.size <= memio'.alloc
      /\ memio.size <= memio'.size /\ memio'.size = gm.size
      /\ memio'.locked = memio.locked + 1 /\ memio'.given = memio.given
  <2>1. memio' = [gm EXCEPT !.locked = gm.locked + 1]
    BY <1>4, <1>a
  <2>2. gm.locked + 1 \in Nat
    BY <1>5, <1>b
  <2> QED
    <3>1. /\ memio' \in Handles /\ memio'.size = gm.size
          /\ memio'.alloc = gm.alloc /\ memio'.locked = gm.locked + 1
          /\ memio'.given = gm.given
      BY <1>5, <2>1, <2>2 DEF Handles
    <3> QED
      BY <1>5, <3>1
<1>7. memio'.open /\ memio' # Closed
  BY <1>6, Opened
<1>8. /\ IsFiniteSet(held) /\ Cardinality(held) \in Nat
      /\ memio.locked = Cardinality(held) + lost + (IF memio.given THEN 1 ELSE 0)
  BY <1>1, FS_CardinalityType DEF IInv, Regions, LockCounts
<1>9. lost \in Nat
  BY MemIOAssumption DEF IInv, Shape
<1>10. CASE g.st = "ok" /\ <<o, n>> \notin held
             /\ held' = held \cup {<<o, n>>} /\ UNCHANGED lost
  <2>1. block' = block
    BY <1>4, <1>10 DEF Fault
  <2>2. /\ IsFiniteSet(held')
        /\ Cardinality(held') = Cardinality(held) + 1
    BY <1>8, <1>10, FS_AddElement
  <2>3. Shape'
    BY <1>4, <1>6, <1>10, <2>1 DEF IInv, Shape
  <2>4. \A r \in held' : r[1] + r[2] <= memio'.size
    <3>1. o + n <= memio'.size
      <4>1. PICK s \in 0 .. Size : s = Larger(memio.size, o + n) /\ o + n <= s
        BY <1>3, <1>10
      <4>2. gm = [memio EXCEPT !.size = s]
        BY <1>3, <1>10, <1>a, <4>1
      <4>3. gm.size = s
        BY <1>1, <4>2 DEF Handles
      <4> QED
        BY <1>6, <4>1, <4>3
    <3>2. ASSUME NEW r \in held
          PROVE  r[1] + r[2] <= memio'.size
      <4>1. r[1] + r[2] <= memio.size /\ r[1] \in Nat /\ r[2] \in Nat
        BY <1>1, MemIOAssumption DEF IInv, Regions, Addr
      <4> QED
        BY <1>1, <1>6, <4>1, MemIOAssumption DEF Handles
    <3>3. <<o, n>>[1] + <<o, n>>[2] = o + n
      OBVIOUS
    <3> QED
      BY <1>10, <3>1, <3>2, <3>3
  <2>5. Regions'
    BY <1>7, <1>10, <2>2, <2>4 DEF IInv, Regions
  <2>6. LockCounts'
    BY <1>6, <1>8, <1>9, <1>10, <2>2 DEF LockCounts
  <2>7. Owned' /\ OneOwner'
    BY <1>1, <1>6, <1>7, <2>1 DEF IInv, Owned, OneOwner
  <2> QED
    BY <1>1, <2>1, <2>3, <2>5, <2>6, <2>7 DEF IInv
<1>11. CASE g.st = "fault" /\ UNCHANGED <<held, lost>>
  <2>1. g.m = memio /\ memio.locked = 0
    BY <1>3, <1>11
  <2>2. held = {}
    BY <1>8, <1>9, <2>1, FS_EmptySet
  <2>3. block' = [block EXCEPT !.state = "fault"]
    BY <1>4, <1>11 DEF Fault
  <2>4. block'.state = "fault" /\ ~Running'
    BY <2>3 DEF IInv, Shape, Running
  <2>5. Shape'
    BY <1>4, <1>6, <1>11, <2>3 DEF IInv, Shape
  <2>6. Regions'
    BY <1>7, <1>11, <2>2, FS_EmptySet DEF Regions
  <2> QED
    BY <1>7, <2>2, <2>4, <2>5, <2>6 DEF IInv, LockCounts, Owned, OneOwner
<1>12. CASE /\ g.st \in {"EPERM", "EINMEMORY"} /\ lost < MaxLost
            /\ lost' = lost + 1 /\ UNCHANGED held
  <2>1. block' = block
    BY <1>4, <1>12 DEF Fault
  <2>2. Shape'
    BY <1>4, <1>6, <1>9, <1>12, <2>1, MemIOAssumption DEF IInv, Shape
  <2>3. g.m = memio /\ memio'.size = memio.size
    BY <1>3, <1>6, <1>12, <1>a
  <2>4. Regions'
    BY <1>1, <1>7, <1>12, <2>3 DEF IInv, Regions
  <2>5. LockCounts'
    BY <1>6, <1>8, <1>9, <1>12 DEF LockCounts
  <2>6. Owned' /\ OneOwner'
    BY <1>1, <1>6, <1>7, <2>1 DEF IInv, Owned, OneOwner
  <2> QED
    BY <1>1, <2>1, <2>2, <2>4, <2>5, <2>6 DEF IInv
<1>13. \/ g.st = "ok" /\ <<o, n>> \notin held
          /\ held' = held \cup {<<o, n>>} /\ UNCHANGED lost
       \/ g.st = "fault" /\ UNCHANGED <<held, lost>>
       \/ /\ g.st \in {"EPERM", "EINMEMORY"} /\ lost < MaxLost
          /\ lost' = lost + 1 /\ UNCHANGED held
  BY DEF memio_get
<1> QED
  BY <1>10, <1>11, <1>12, <1>13

LEMMA RelIInv ==
  ASSUME IInv, NEW r \in held, memio_rel(r)
  PROVE  IInv' /\ block'.state = "live"
<1>1. /\ memio \in Handles /\ memio.size <= memio.alloc /\ memio # Closed
      /\ memio.open /\ block.state = "live" /\ Running
  BY OpenIsHandle DEF IInv, memio_rel, Running
<1>2. /\ held' = held \ {r} /\ memio' = [memio EXCEPT !.locked = @ - 1]
      /\ UNCHANGED <<block, file, lost, place>>
  BY DEF memio_rel
<1>3. /\ IsFiniteSet(held) /\ Cardinality(held) \in Nat
      /\ memio.locked = Cardinality(held) + lost + (IF memio.given THEN 1 ELSE 0)
      /\ lost \in Nat
  BY <1>1, FS_CardinalityType, MemIOAssumption DEF IInv, Shape, Regions, LockCounts
<1>4. /\ IsFiniteSet(held') /\ Cardinality(held') = Cardinality(held) - 1
      /\ Cardinality(held') \in Nat
  BY <1>2, <1>3, FS_RemoveElement, FS_CardinalityType
<1>5. /\ memio' \in Handles /\ memio'.size = memio.size
      /\ memio'.alloc = memio.alloc /\ memio'.locked = memio.locked - 1
      /\ memio'.given = memio.given
  <2>1. memio' = [memio EXCEPT !.locked = memio.locked - 1]
    BY <1>2
  <2>2. memio.locked - 1 \in Nat
    BY <1>3, <1>4
  <2> QED
    BY <1>1, <2>1, <2>2 DEF Handles
<1>6. memio'.open /\ memio' # Closed
  BY <1>5, Opened
<1>7. Shape'
  BY <1>1, <1>2, <1>5 DEF IInv, Shape
<1>8. Regions'
  BY <1>1, <1>2, <1>4, <1>5, <1>6 DEF IInv, Regions
<1>9. LockCounts'
  BY <1>2, <1>3, <1>4, <1>5 DEF LockCounts
<1>10. Owned' /\ OneOwner'
  BY <1>1, <1>2, <1>5, <1>6 DEF IInv, Owned, OneOwner
<1> QED
  BY <1>1, <1>2, <1>7, <1>8, <1>9, <1>10 DEF IInv

LEMMA PutIInv ==
  ASSUME IInv, NEW r \in held, NEW v \in Bytes, Put(r, v)
  PROVE  IInv' /\ block'.state = "live"
<1>1. block.state = "live"
  BY DEF Put, Running
<1>2. [a \in Addr |-> IF a \in r[1] .. r[1] + r[2] - 1 THEN v
                      ELSE block.bytes[a]] \in Data
  BY DEF IInv, Shape, Data
<1>3. /\ block' = [block EXCEPT !.bytes =
                     [a \in Addr |-> IF a \in r[1] .. r[1] + r[2] - 1 THEN v
                                     ELSE block.bytes[a]]]
      /\ UNCHANGED <<memio, file, held, lost, place>>
  BY DEF Put, IInv, Shape
<1>4. Shape' /\ block'.state = block.state /\ block'.owner = block.owner
  BY <1>2, <1>3 DEF IInv, Shape
<1> QED
  BY <1>1, <1>3, <1>4 DEF IInv, Regions, LockCounts, Owned, OneOwner, Running

(* Nothing is held, so the region that moves is nobody's.                  *)
LEMMA MoveIInv ==
  ASSUME IInv, NEW to \in Addr, NEW from \in Addr, NEW n \in 1 .. Size,
         to + n <= Size, from + n <= Size, memio_move(to, from, n)
  PROVE  IInv' /\ held = {}
<1> DEFINE g == IF from < to THEN guarantee(memio, to + n)
                ELSE [st |-> "ok", m |-> memio]
           moved == [block EXCEPT !.bytes = memmove(block.bytes, to, from, n)]
<1>1. /\ memio \in Handles /\ memio.size <= memio.alloc /\ memio # Closed
      /\ memio.open /\ block.state = "live" /\ Running
  BY OpenIsHandle DEF IInv, memio_move, Running
<1>2. /\ held = {} /\ memio' = g.m /\ UNCHANGED <<file, held, lost, place>>
      /\ block' = IF g.st # "ok" THEN Fault(g.st) ELSE moved
  BY DEF memio_move
<1>3. to + n \in 0 .. Size /\ n \in Nat
  BY MemIOAssumption DEF Addr
<1>4. /\ g.m \in Handles /\ g.m.size <= g.m.alloc
      /\ g.m.locked = memio.locked /\ g.m.given = memio.given
  <2>1. PICK gm : gm = g.m
    OBVIOUS
  <2>2. CASE gm = memio
    BY <1>1, <2>1, <2>2
  <2>3. CASE /\ gm = [memio EXCEPT !.size = Larger(memio.size, to + n)]
             /\ Larger(memio.size, to + n) \in 0 .. memio.alloc
             /\ Larger(memio.size, to + n) \in 0 .. Size
    <3>1. PICK s \in 0 .. Size : s = Larger(memio.size, to + n)
      BY <2>3
    <3>2. gm = [memio EXCEPT !.size = s] /\ s \in 0 .. memio.alloc
      BY <2>3, <3>1
    <3>3. gm \in Handles /\ gm.size = s /\ gm.alloc = memio.alloc
          /\ gm.locked = memio.locked /\ gm.given = memio.given
      BY <1>1, <3>2 DEF Handles
    <3>4. gm.size <= gm.alloc
      BY <1>1, <3>2, <3>3, MemIOAssumption DEF Handles
    <3> QED
      BY <2>1, <3>3, <3>4
  <2>4. gm = memio
        \/ /\ gm = [memio EXCEPT !.size = Larger(memio.size, to + n)]
           /\ Larger(memio.size, to + n) \in 0 .. memio.alloc
           /\ Larger(memio.size, to + n) \in 0 .. Size
    <3>1. CASE from < to
      BY <1>1, <1>3, <2>1, <3>1, Guarantees
    <3>2. CASE ~(from < to)
      BY <2>1, <3>2
    <3> QED
      BY <3>1, <3>2
  <2> QED
    BY <2>2, <2>3, <2>4
<1>5. memio'.open /\ memio' # Closed
  BY <1>2, <1>4, Opened
<1>6. block' \in [state : {"live", "fault"}, owner : {"client", "library"},
                  size : 0 .. Size, bytes : Data]
      /\ block'.owner = block.owner
  <2>1. memmove(block.bytes, to, from, n) \in Data
    BY <1>3, MovedData DEF IInv, Shape
  <2>2. /\ moved \in [state : {"live", "fault"}, owner : {"client", "library"},
                       size : 0 .. Size, bytes : Data]
        /\ moved.owner = block.owner
    BY <1>1, <2>1 DEF IInv, Shape
  <2>3. /\ Fault(g.st) \in [state : {"live", "fault"},
               owner : {"client", "library"}, size : 0 .. Size, bytes : Data]
        /\ Fault(g.st).owner = block.owner
    BY <1>1 DEF IInv, Shape, Fault
  <2> QED
    BY <1>2, <2>2, <2>3
<1>7. Shape'
  BY <1>2, <1>4, <1>6 DEF IInv, Shape
<1>8. Regions'
  BY <1>2, <1>5, FS_EmptySet DEF Regions
<1>9. LockCounts'
  BY <1>1, <1>2, <1>4 DEF IInv, LockCounts
<1>10. Owned' /\ OneOwner'
  BY <1>1, <1>2, <1>4, <1>5, <1>6 DEF IInv, Owned, OneOwner
<1> QED
  BY <1>2, <1>7, <1>8, <1>9, <1>10 DEF IInv

(* When the memory is freed nothing is held: it is freed if and only if it *)
(* is neither the client's nor handed to the client.                       *)
LEMMA FreeIInv ==
  ASSUME IInv, Running, held = {}, NEW m \in Handles, NEW extract \in BOOLEAN,
         m.locked = memio.locked, m.given = memio.given,
         memio_close(m, extract), UNCHANGED <<held, lost>>
  PROVE  IInv'
<1>1. memio' = Closed /\ ~memio'.open /\ ~Running'
  BY DEF memio_close, Closed, Running
<1>2. m.size \in 0 .. Size /\ ~m.modified
  BY DEF Handles
<1>3. file' \in [size : 0 .. Size, bytes : Data]
  <2>1. ASSUME NEW f \in writefile(m)
        PROVE  f \in [size : 0 .. Size, bytes : Data]
    <3>1. PICK k \in 0 .. m.size \cup {m.size} :
            f = [size |-> k, bytes |-> Below(block.bytes, k)]
      BY DEF writefile
    <3>2. k \in 0 .. Size
      BY <1>2, <3>1, MemIOAssumption
    <3>3. Below(block.bytes, k) \in Data
      BY BelowData DEF IInv, Shape
    <3> QED
      BY <3>1, <3>2, <3>3
  <2> QED
    BY <2>1 DEF memio_close, IInv, Shape
<1>4. PICK state \in {"live", "freed"}, owner \in {"client", "library"} :
        /\ block' = [block EXCEPT !.owner = owner, !.size = m.size,
                                  !.state = state]
        /\ owner = IF extract THEN "client" ELSE block.owner
        /\ state = IF ~extract /\ m.locked = 0 THEN "freed" ELSE "live"
  BY <1>2 DEF memio_close, Running, IInv, Shape
<1>5. /\ block' \in [state : {"live", "freed"}, owner : {"client", "library"},
                      size : 0 .. Size, bytes : Data]
      /\ block'.state = state /\ block'.owner = owner
  BY <1>2, <1>4 DEF IInv, Shape
<1>6. place' \in {"new", "file", "block", "gone"}
  BY DEF memio_close
<1>7. Shape'
  BY <1>1, <1>3, <1>5, <1>6 DEF IInv, Shape
<1>8. Regions'
  BY <1>1, FS_EmptySet DEF Regions
<1>9. OneOwner'
  <2>1. memio.locked = lost + (IF memio.given THEN 1 ELSE 0)
    BY FS_EmptySet, MemIOAssumption DEF IInv, Shape, LockCounts
  <2>2. lost = 0 => (m.locked = 0 <=> ~memio.given)
    BY <2>1
  <2>3. block.owner = "client" <=> memio.given
    BY DEF IInv, Owned
  <2>4. lost = 0 => (state = "live" <=> owner = "client")
    BY <1>4, <2>2, <2>3
  <2> QED
    BY <1>5, <2>4 DEF OneOwner
<1> QED
  BY <1>1, <1>7, <1>8, <1>9 DEF IInv, LockCounts, Owned

LEMMA CloseIInv ==
  ASSUME IInv, NEW len \in 0 .. Size, NEW params \in BOOLEAN,
         NC3_close(len, params)
  PROVE  IInv' /\ held = {}
<1> DEFINE pads == memio.write /\ memio.size < len
           p == IF pads THEN memio_pad_length(memio, len)
                ELSE [st |-> "ok", m |-> memio]
<1>1. /\ memio \in Handles /\ memio.size <= memio.alloc /\ memio # Closed
      /\ memio.open /\ block.state = "live" /\ Running
  BY OpenIsHandle DEF IInv, NC3_close, Running
<1>2. held = {} /\ UNCHANGED <<held, lost>>
  BY DEF NC3_close
<1>3. \/ p.st # "ok"
      \/ p.st = "ok" /\ (p.m = memio \/ p.m = [memio EXCEPT !.size = len])
  BY <1>1, Pads
<1>4. CASE p.st = "ok"
  <2>1. PICK m : m = p.m
    OBVIOUS
  <2>2. m \in Handles /\ m.locked = memio.locked /\ m.given = memio.given
    <3>1. CASE m = memio
      BY <1>1, <3>1
    <3>2. CASE m = [memio EXCEPT !.size = len]
      BY <1>1, <3>2 DEF Handles
    <3> QED
      BY <1>3, <1>4, <2>1, <3>1, <3>2
  <2>3. PICK extract \in BOOLEAN : extract = (params /\ memio.inmemory)
    OBVIOUS
  <2>4. memio_close(m, extract)
    BY <1>4, <2>1, <2>3 DEF NC3_close
  <2> QED
    BY <1>1, <1>2, <2>2, <2>4, FreeIInv
<1>5. CASE p.st # "ok"
  <2>1. block' = Fault(p.st) /\ UNCHANGED <<memio, file, place>>
    BY <1>5 DEF NC3_close
  <2>2. /\ block' \in [state : {"live", "fault"}, owner : {"client", "library"},
                        size : 0 .. Size, bytes : Data]
        /\ block'.owner = block.owner
    BY <1>1, <2>1 DEF Fault, IInv, Shape
  <2>3. Shape' /\ Regions'
    BY <1>2, <2>1, <2>2 DEF IInv, Shape, Regions
  <2>4. LockCounts' /\ Owned' /\ OneOwner'
    BY <1>1, <1>2, <2>1, <2>2 DEF IInv, LockCounts, Owned, OneOwner
  <2> QED
    BY <1>2, <2>3, <2>4 DEF IInv
<1> QED
  BY <1>4, <1>5

-----------------------------------------------------------------------------
(* Every step keeps the invariant, and no step moves or frees memory that  *)
(* somebody holds a part of.                                               *)
LEMMA NextIInv ==
  ASSUME IInv, [Next]_vars
  PROVE  IInv' /\ (held # {} /\ block.state = "live" => block'.state = "live")
<1>1. CASE UNCHANGED vars
  BY <1>1 DEF vars, IInv, Shape, Regions, LockCounts, Owned, OneOwner, Running
<1>2. ASSUME NEW n \in 0 .. Size, NEW p \in BOOLEAN, NEW i \in BOOLEAN,
             memio_create(n, p, i)
      PROVE  IInv' /\ block'.state = "live"
  BY <1>2, CreateIInv DEF memio_create
<1>3. ASSUME NEW w \in BOOLEAN, NEW p \in BOOLEAN, OpenFile(w, p)
      PROVE  IInv' /\ block'.state = "live"
  BY <1>3, OpenFileIInv DEF OpenFile
<1>4. ASSUME NEW w \in BOOLEAN, NEW l \in BOOLEAN, OpenMemory(w, l)
      PROVE  IInv' /\ block'.state = "live"
  <2>1. IInv'
    BY <1>4, OpenMemoryIInv
  <2>2. block'.state = block.state /\ block.state = "live"
    BY <1>4 DEF OpenMemory, IInv, Shape
  <2> QED
    BY <2>1, <2>2
<1>5. ASSUME NEW o \in Addr, NEW n \in 1 .. Size, Fits(o, n), memio_get(o, n)
      PROVE  IInv' /\ (held # {} => block'.state = "live")
  BY <1>5, GetIInv DEF Fits
<1>6. ASSUME NEW r \in held, memio_rel(r) \/ \E v \in Bytes : Put(r, v)
      PROVE  IInv' /\ block'.state = "live"
  BY <1>6, RelIInv, PutIInv
<1>7. ASSUME NEW to \in Addr, NEW from \in Addr, NEW n \in 1 .. Size,
             Fits(to, n), Fits(from, n), memio_move(to, from, n)
      PROVE  IInv' /\ held = {}
  BY <1>7, MoveIInv DEF Fits
<1>8. ASSUME NEW n \in 0 .. Size, NEW p \in BOOLEAN, NC3_close(n, p)
      PROVE  IInv' /\ held = {}
  BY <1>8, CloseIInv
<1>9. UNCHANGED vars => block' = block
  BY DEF vars
<1> QED
  BY <1>1, <1>2, <1>3, <1>4, <1>5, <1>6, <1>7, <1>8, <1>9 DEF Next

THEOREM Inductive == Spec => []IInv
<1>1. IInv /\ [Next]_vars => IInv'
  BY NextIInv
<1> QED
  BY <1>1, InitIInv, PTL DEF Spec

(* Types; what is handed out lies within the memory, and the lock counts   *)
(* what is out: memio_get and memio_rel balance, whatever fails in between. *)
THEOREM TypeCorrect == Spec => []TypeOK
<1>1. IInv => TypeOK
  <2> SUFFICES ASSUME IInv
               PROVE  TypeOK
    OBVIOUS
  <2>1. memio.open => /\ memio.size <= memio.alloc /\ memio.locked \in Nat
                      /\ \A r \in held : r[1] + r[2] <= memio.size
    BY OpenIsHandle DEF IInv, Regions, Handles
  <2> QED
    BY <2>1 DEF TypeOK, IInv, Shape, Regions, Data
<1> QED
  BY <1>1, Inductive, PTL

(* Once the dataset is closed its memory is the client's or freed, never   *)
(* both and never neither (memio_close, memio_extract).                    *)
THEOREM OneOwnerAlways == Spec => []OneOwner
<1>1. IInv => OneOwner
  BY DEF IInv
<1> QED
  BY <1>1, Inductive, PTL

(* No step moves or frees memory somebody has a pointer into: growing      *)
(* looks at the lock, and the lock counts the pointers.                    *)
THEOREM HeldStaysAlways == Spec => HeldStays
<1>1. IInv /\ [Next]_vars =>
        [held # {} /\ block.state = "live" => block'.state = "live"]_vars
  BY NextIInv
<1> QED
  BY <1>1, Inductive, PTL DEF Spec, HeldStays

-----------------------------------------------------------------------------
(* The refinement: MemIO implements ByteFile when the disk does not fail.  *)

(* What ByteFile's memory is; the same expression as in AbstractFile.      *)
Content ==
  IF memio.open THEN Defined(block.bytes, memio.size)
  ELSE IF place = "file" THEN Defined(file.bytes, file.size)
  ELSE Defined(block.bytes, block.size)

Beyond(data, n) == \A a \in Addr : a >= n => data[a] = Garbage

(* What the size in use hides nobody has written; a dataset that cannot be *)
(* written is what its file is.                                            *)
Hidden ==
  /\ place = "new" => block.size = 0
  /\ memio # Closed /\ block.state = "live" => Beyond(block.bytes, memio.size)
  /\ memio = Closed /\ block.state = "live" => Beyond(block.bytes, block.size)
  /\ memio # Closed /\ block.state = "live" /\ ~memio.write /\ ~memio.inmemory =>
       Defined(block.bytes, memio.size) = Defined(file.bytes, file.size)

(* Bytes that nobody has written do not show.                              *)
LEMMA Grown ==
  ASSUME NEW data, NEW n \in Nat, NEW m \in Nat, n <= m, Beyond(data, n)
  PROVE  Defined(data, m) = Defined(data, n) /\ Beyond(data, m)
<1>1. \A a \in Addr : a \in Nat
  BY MemIOAssumption DEF Addr
<1>2. \A a \in Addr :
        (a < m /\ data[a] # Garbage) <=> (a < n /\ data[a] # Garbage)
  BY <1>1 DEF Beyond
<1>3. Beyond(data, m)
  BY <1>1 DEF Beyond
<1> QED
  BY <1>2, <1>3 DEF Defined

LEMMA BelowShows ==
  ASSUME NEW data, NEW n \in Nat
  PROVE  Defined(Below(data, n), n) = Defined(data, n) /\ Beyond(Below(data, n), n)
<1>1. \A a \in Addr : a \in Nat
  BY MemIOAssumption DEF Addr
<1>2. \A a \in Addr : a < n => Below(data, n)[a] = data[a]
  BY DEF Below
<1>3. \A a \in Addr : a >= n => Below(data, n)[a] = Garbage
  BY <1>1 DEF Below
<1> QED
  BY <1>2, <1>3 DEF Defined, Beyond

(* Padding and growing keep what a dataset was opened for.                 *)
LEMMA PadKeeps ==
  ASSUME NEW m \in Handles, NEW len \in 0 .. Size, m.size <= m.alloc,
         m.size <= len
  PROVE  LET h == memio_pad_length(m, len).m
         IN  /\ h \in Handles /\ m.size <= h.size
             /\ h.write = m.write /\ h.inmemory = m.inmemory
             /\ h.persist = m.persist /\ h.given = m.given
<1>1. PICK p : p = memio_pad_length(m, len)
  OBVIOUS
<1>2. CASE p.m = m
  <2>1. m.size <= m.size
    BY MemIOAssumption DEF Handles
  <2> QED
    BY <1>1, <1>2, <2>1
<1>3. CASE p.m = [m EXCEPT !.size = len]
  <2>1. PICK h : h = [m EXCEPT !.size = len]
    OBVIOUS
  <2>2. /\ h \in Handles /\ h.size = len
        /\ h.write = m.write /\ h.inmemory = m.inmemory
        /\ h.persist = m.persist /\ h.given = m.given
    BY <2>1 DEF Handles
  <2> QED
    BY <1>1, <1>3, <2>1, <2>2
<1> QED
  BY <1>1, <1>2, <1>3, Pads

LEMMA GuaranteeKeeps ==
  ASSUME NEW m \in Handles, NEW end \in 0 .. Size, m.size <= m.alloc
  PROVE  LET g == guarantee(m, end)
         IN  /\ g.m \in Handles /\ m.size <= g.m.size
             /\ g.m.write = m.write /\ g.m.inmemory = m.inmemory
             /\ g.st = "ok" => end <= g.m.size
<1>1. PICK g : g = guarantee(m, end)
  OBVIOUS
<1>2. m.size \in Nat
  BY MemIOAssumption DEF Handles
<1>3. CASE g.m = m /\ g.st # "ok"
  BY <1>1, <1>2, <1>3
<1>4. CASE /\ g.m = [m EXCEPT !.size = Larger(m.size, end)]
           /\ Larger(m.size, end) \in 0 .. Size
           /\ m.size <= Larger(m.size, end) /\ end <= Larger(m.size, end)
  <2>1. PICK s \in 0 .. Size : s = Larger(m.size, end)
    BY <1>4
  <2>2. PICK h : h = [m EXCEPT !.size = s]
    OBVIOUS
  <2>3. /\ h \in Handles /\ h.size = s
        /\ h.write = m.write /\ h.inmemory = m.inmemory
    BY <2>2 DEF Handles
  <2> QED
    BY <1>1, <1>4, <2>1, <2>2, <2>3
<1> QED
  BY <1>1, <1>3, <1>4, Guarantees

-----------------------------------------------------------------------------
LEMMA InitContent == Init => Hidden /\ AbstractFile!Init
<1> SUFFICES ASSUME Init
             PROVE  Hidden /\ AbstractFile!Init
  OBVIOUS
<1>1. memio = Closed /\ ~memio.open
  BY DEF Init, Closed
<1>2. Hidden
  BY <1>1 DEF Init, Hidden, Beyond, NoBytes
<1>3. \A n : Defined(NoBytes, n) \in [Addr -> Bytes \cup {Unset}]
  BY DEF Defined, NoBytes
<1>4. Content \in [Addr -> Bytes \cup {Unset}]
  BY <1>1, <1>3 DEF Init, Content
<1> QED
  BY <1>2, <1>4 DEF AbstractFile!Init, AbstractFile!Addr, Addr, Content

LEMMA OpenContent ==
  ASSUME IInv, Hidden, NEW n \in 0 .. Size, NEW p \in BOOLEAN, NEW i \in BOOLEAN,
         memio_create(n, p, i) \/ OpenFile(p, i) \/ OpenMemory(p, i)
  PROVE  Hidden' /\ Content' = Content
<1>1. CASE memio_create(n, p, i)
  <2>1. /\ memio'.open /\ memio'.write /\ memio' # Closed /\ ~memio.open
        /\ block'.bytes = NoBytes /\ place' = "block" /\ place = "new"
    BY <1>1 DEF memio_create, NCMEMIO, Closed
  <2>2. Hidden'
    BY <2>1 DEF Hidden, Beyond, NoBytes
  <2>3. block.size = 0
    BY <2>1 DEF Hidden
  <2>4. \A m : Defined(NoBytes, m) = [a \in Addr |-> Unset]
    BY DEF Defined, NoBytes
  <2>5. Defined(block.bytes, 0) = [a \in Addr |-> Unset]
    BY MemIOAssumption DEF Defined, Addr
  <2> QED
    BY <2>1, <2>2, <2>3, <2>4, <2>5 DEF Content
<1>2. CASE OpenFile(p, i)
  <2>1. /\ memio'.open /\ memio' # Closed /\ ~memio.open
        /\ memio'.size = file.size /\ file' = file
        /\ block'.bytes = Below(file.bytes, file.size)
        /\ place = "file" /\ place' = "block"
    BY <1>2 DEF OpenFile, NCMEMIO, Closed
  <2>2. file.size \in Nat
    BY MemIOAssumption DEF IInv, Shape
  <2>3. /\ Defined(block'.bytes, file.size) = Defined(file.bytes, file.size)
        /\ Beyond(block'.bytes, file.size)
    BY <2>1, <2>2, BelowShows
  <2>4. Hidden'
    BY <2>1, <2>3 DEF Hidden, Defined, Beyond
  <2> QED
    BY <2>1, <2>3, <2>4 DEF Content, Defined
<1>3. CASE OpenMemory(p, i)
  <2>1. /\ memio'.open /\ memio' # Closed /\ ~memio.open /\ memio'.inmemory
        /\ memio'.size = block.size /\ place = "block" /\ place' = "block"
    BY <1>3 DEF OpenMemory, NCMEMIO, Closed
  <2>2. block'.bytes = block.bytes /\ block.state = "live"
    BY <1>3 DEF OpenMemory, IInv, Shape
  <2>3. memio = Closed /\ Beyond(block.bytes, block.size)
    BY <2>1, <2>2, OpenIsHandle DEF IInv, Hidden
  <2>4. Hidden'
    BY <2>1, <2>2, <2>3 DEF Hidden, Beyond
  <2> QED
    BY <2>1, <2>2, <2>4 DEF Content, Defined
<1> QED
  BY <1>1, <1>2, <1>3

(* Releasing shows nothing, and a get shows nothing either: what it adds   *)
(* to the size was hidden.                                                 *)
LEMMA GetContent ==
  ASSUME IInv, Hidden, NEW o \in Addr, NEW n \in 1 .. Size, o + n <= Size,
         memio_get(o, n)
  PROVE  Hidden' /\ Content' = Content
<1>1. /\ memio \in Handles /\ memio.size <= memio.alloc /\ memio # Closed
      /\ memio.open /\ block.state = "live" /\ o + n \in 0 .. Size
  BY OpenIsHandle, MemIOAssumption DEF IInv, memio_get, Running, Addr
<1>2. PICK g : g = guarantee(memio, o + n)
  OBVIOUS
<1>3. /\ g.m \in Handles /\ memio.size <= g.m.size
      /\ g.m.write = memio.write /\ g.m.inmemory = memio.inmemory
  BY <1>1, <1>2, GuaranteeKeeps
<1>4. PICK gm : gm = g.m
  OBVIOUS
<1>5. /\ memio' = [gm EXCEPT !.locked = gm.locked + 1]
      /\ block' = Fault(g.st) /\ UNCHANGED <<file, place>>
  BY <1>2, <1>4 DEF memio_get
<1>6. /\ memio' \in Handles /\ memio.size <= memio'.size
      /\ memio'.write = memio.write /\ memio'.inmemory = memio.inmemory
  <2>0. gm \in Handles
    BY <1>3, <1>4
  <2>1. gm.locked + 1 \in Nat
    BY <2>0, MemIOAssumption DEF Handles
  <2>2. /\ memio' \in Handles /\ memio'.size = gm.size
        /\ memio'.write = gm.write /\ memio'.inmemory = gm.inmemory
    BY <1>3, <1>4, <1>5, <2>1 DEF Handles
  <2> QED
    BY <1>3, <1>4, <2>2
<1>7. memio'.open /\ memio' # Closed
  BY <1>6, Opened
<1>8. /\ block'.bytes = block.bytes /\ block'.size = block.size
  BY <1>5 DEF Fault, IInv, Shape
<1>9. Beyond(block.bytes, memio.size)
  BY <1>1 DEF Hidden
<1>10. /\ Defined(block.bytes, memio'.size) = Defined(block.bytes, memio.size)
       /\ Beyond(block.bytes, memio'.size)
  <2>1. memio.size \in Nat /\ memio'.size \in Nat
    BY <1>1, <1>6, MemIOAssumption DEF Handles
  <2> QED
    BY <1>6, <1>9, <2>1, Grown
<1>11. Hidden'
  BY <1>1, <1>5, <1>6, <1>7, <1>8, <1>10 DEF Hidden, Defined, Beyond
<1> QED
  BY <1>1, <1>7, <1>8, <1>10, <1>11 DEF Content, Defined

LEMMA RelContent ==
  ASSUME IInv, Hidden, NEW r \in held, memio_rel(r)
  PROVE  Hidden' /\ Content' = Content
<1>1. memio \in Handles /\ memio.open /\ memio # Closed
  BY OpenIsHandle DEF IInv, memio_rel, Running
<1>2. memio' = [memio EXCEPT !.locked = memio.locked - 1]
      /\ UNCHANGED <<block, file, place>>
  BY DEF memio_rel
<1>3. memio'.size = memio.size /\ memio'.open /\ memio'.write = memio.write
      /\ memio'.inmemory = memio.inmemory
  BY <1>1, <1>2 DEF Handles
<1>4. memio' # Closed
  BY <1>3, OpenIsHandle DEF Closed
<1> QED
  BY <1>1, <1>2, <1>3, <1>4 DEF Hidden, Content, Defined, Beyond

(* A client writes where it holds a region, which is within the size.      *)
LEMMA PutContent ==
  ASSUME IInv, Hidden, NEW r \in held, NEW v \in Bytes, Put(r, v)
  PROVE  Hidden' /\ AbstractFile!Write(r[1], r[2], v)
<1> DEFINE bytes == [a \in Addr |-> IF a \in r[1] .. r[1] + r[2] - 1 THEN v
                                    ELSE block.bytes[a]]
<1>1. /\ memio \in Handles /\ memio.open /\ memio # Closed
      /\ block.state = "live" /\ memio.write
  BY OpenIsHandle DEF IInv, Put, Running
<1>2. /\ block' = [block EXCEPT !.bytes = bytes]
      /\ UNCHANGED <<memio, file, place>>
  BY DEF Put, IInv, Shape
<1>3. block'.bytes = bytes /\ block'.state = "live" /\ block'.size = block.size
  BY <1>1, <1>2 DEF IInv, Shape
<1>4. /\ r[1] \in Nat /\ r[2] \in Nat \ {0} /\ r[1] + r[2] <= memio.size
      /\ memio.size \in 0 .. Size /\ memio.size \in Nat
  BY <1>1, MemIOAssumption DEF IInv, Regions, Addr, Handles
<1>5. \A a \in Addr : a \in Nat
  BY MemIOAssumption DEF Addr
<1>6. \A a \in r[1] .. r[1] + r[2] - 1 : a < memio.size
  BY <1>4
<1>7. Beyond(bytes, memio.size)
  <2>1. Beyond(block.bytes, memio.size)
    BY <1>1 DEF Hidden
  <2>2. \A a \in Addr : a >= memio.size => a \notin r[1] .. r[1] + r[2] - 1
    BY <1>4, <1>5
  <2> QED
    BY <2>1, <2>2 DEF Beyond
<1>8. v # Garbage
  BY MemIOAssumption
<1>9. Defined(bytes, memio.size) =
        [a \in Addr |-> IF a \in r[1] .. r[1] + r[2] - 1 THEN v
                        ELSE Defined(block.bytes, memio.size)[a]]
  BY <1>6, <1>8 DEF Defined
<1>10. Hidden'
  <2>1. place \notin {"new"} \/ block'.size = block.size
    BY <1>3
  <2> QED
    BY <1>1, <1>2, <1>3, <1>7 DEF Hidden, Beyond
<1>11. Content' = [a \in Addr |-> IF a \in r[1] .. r[1] + r[2] - 1 THEN v
                                  ELSE Content[a]]
  BY <1>1, <1>2, <1>3, <1>9 DEF Content, Defined
<1>12. r[1] + r[2] - 1 \in Addr
  BY <1>4, MemIOAssumption DEF Addr
<1> QED
  BY <1>10, <1>11, <1>12
  DEF AbstractFile!Write, AbstractFile!Addr, Addr, Content

(* What is moved is within the size, before the move and after it.         *)
LEMMA MoveContent ==
  ASSUME IInv, Hidden, NEW to \in Addr, NEW from \in Addr, NEW n \in 1 .. Size,
         to + n <= Size, from + n <= Size, memio_move(to, from, n)
  PROVE  Hidden' /\ (Content' = Content \/ AbstractFile!Move(to, from, n))
<1> DEFINE bytes == memmove(block.bytes, to, from, n)
<1>1. /\ memio \in Handles /\ memio.size <= memio.alloc /\ memio # Closed
      /\ memio.open /\ block.state = "live" /\ memio.write
      /\ from + n <= memio.size
  BY OpenIsHandle DEF IInv, memio_move, Running
<1>2. PICK g : g = IF from < to THEN guarantee(memio, to + n)
                   ELSE [st |-> "ok", m |-> memio]
  OBVIOUS
<1>3. /\ memio' = g.m /\ UNCHANGED <<file, place>>
      /\ block' = IF g.st # "ok" THEN Fault(g.st)
                  ELSE [block EXCEPT !.bytes = bytes]
  BY <1>2 DEF memio_move
<1>4. /\ to \in Nat /\ from \in Nat /\ n \in Nat \ {0} /\ memio.size \in Nat
      /\ to + n \in 0 .. Size /\ \A a \in Addr : a \in Nat
  BY <1>1, MemIOAssumption DEF Addr, Handles
<1>5. /\ memio' \in Handles /\ memio.size <= memio'.size
      /\ memio'.write /\ (g.st = "ok" => to + n <= memio'.size)
  <2>1. CASE from < to
    BY <1>1, <1>2, <1>3, <1>4, <2>1, GuaranteeKeeps
  <2>2. CASE ~(from < to)
    <3>1. memio' = memio
      BY <1>2, <1>3, <2>2
    <3>2. to + n <= memio.size /\ memio.size <= memio.size
      BY <1>1, <1>4, <2>2
    <3> QED
      BY <1>1, <3>1, <3>2
  <2> QED
    BY <2>1, <2>2
<1>6. memio'.open /\ memio' # Closed /\ memio'.size \in Nat
  <2>1. memio'.size \in Nat
    BY <1>5, MemIOAssumption DEF Handles
  <2> QED
    BY <1>5, <2>1, Opened
<1>7. /\ Defined(block.bytes, memio'.size) = Defined(block.bytes, memio.size)
      /\ Beyond(block.bytes, memio'.size)
  BY <1>1, <1>4, <1>5, <1>6, Grown DEF Hidden
<1>8. CASE g.st # "ok"
  <2>1. block'.bytes = block.bytes /\ block'.size = block.size
    BY <1>3, <1>8 DEF Fault, IInv, Shape
  <2>2. Hidden'
    BY <1>1, <1>3, <1>5, <1>6, <1>7, <2>1 DEF Hidden, Beyond
  <2>3. Content' = Content
    BY <1>1, <1>6, <1>7, <2>1 DEF Content, Defined
  <2> QED
    BY <2>2, <2>3
<1>9. CASE g.st = "ok"
  <2>1. block'.bytes = bytes /\ block'.size = block.size
    BY <1>3, <1>9 DEF IInv, Shape
  <2>2. \A a \in to .. to + n - 1 : a < memio'.size
    BY <1>4, <1>5, <1>6, <1>9
  <2>3. Beyond(bytes, memio'.size)
    <3>1. \A a \in Addr : a >= memio'.size => a \notin to .. to + n - 1
      BY <1>4, <1>5, <1>6, <1>9
    <3> QED
      BY <1>7, <3>1 DEF Beyond, memmove
  <2>4. Hidden'
    BY <1>3, <1>5, <1>6, <2>1, <2>3 DEF Hidden, Beyond
  <2>5. \A a \in Addr : a \in to .. to + n - 1 =>
          (a + from) - to \in Addr /\ (a + from) - to < memio.size
    BY <1>1, <1>4, MemIOAssumption DEF Addr
  <2>6. ASSUME NEW a \in Addr
        PROVE  Defined(bytes, memio'.size)[a] =
                 IF a \in to .. to + n - 1
                 THEN Defined(block.bytes, memio.size)[(a + from) - to]
                 ELSE Defined(block.bytes, memio.size)[a]
    <3>1. CASE a \in to .. to + n - 1
      <4>1. bytes[a] = block.bytes[(a + from) - to]
        BY <3>1 DEF memmove
      <4> QED
        BY <2>2, <2>5, <3>1, <4>1 DEF Defined
    <3>2. CASE a \notin to .. to + n - 1
      <4>1. bytes[a] = block.bytes[a]
        BY <3>2 DEF memmove
      <4>2. Defined(bytes, memio'.size)[a] = Defined(block.bytes, memio'.size)[a]
        BY <4>1 DEF Defined
      <4> QED
        BY <1>7, <3>2, <4>2
    <3> QED
      BY <3>1, <3>2
  <2>7. Content' = [a \in Addr |-> IF a \in to .. to + n - 1
                                   THEN Content[(a + from) - to] ELSE Content[a]]
    <3>1. Content' = Defined(bytes, memio'.size)
      BY <1>6, <2>1 DEF Content, Defined
    <3>2. Content = Defined(block.bytes, memio.size)
      BY <1>1 DEF Content
    <3>3. Defined(bytes, memio'.size) =
            [a \in Addr |-> Defined(bytes, memio'.size)[a]]
      BY DEF Defined
    <3> QED
      BY <2>6, <3>1, <3>2, <3>3
  <2>8. {to + n - 1, from + n - 1} \subseteq Addr
    BY <1>4, MemIOAssumption DEF Addr
  <2> QED
    BY <2>4, <2>7, <2>8
    DEF AbstractFile!Move, AbstractFile!Addr, Addr, Content
<1> QED
  BY <1>8, <1>9

(* Closing puts the bytes where the next open looks for them.              *)
LEMMA FreeContent ==
  ASSUME IInv, Hidden, Faults = {}, Running, NEW m \in Handles,
         NEW extract \in BOOLEAN, memio.size <= m.size,
         m.write = memio.write, m.inmemory = memio.inmemory,
         m.persist = memio.persist, m.given = memio.given,
         m.write \/ m = memio, extract => m.inmemory,
         memio_close(m, extract)
  PROVE  Hidden' /\ Content' = Content
<1>1. /\ memio \in Handles /\ memio # Closed /\ memio.open
      /\ block.state = "live" /\ memio.size \in Nat /\ m.size \in Nat
  <2>1. /\ memio \in Handles /\ memio # Closed /\ memio.open
        /\ block.state = "live"
    BY OpenIsHandle DEF IInv, Running
  <2>2. \A h \in Handles : h.size \in Nat
    BY MemIOAssumption DEF Handles
  <2> QED
    BY <2>1, <2>2
<1>2. /\ Defined(block.bytes, m.size) = Defined(block.bytes, memio.size)
      /\ Beyond(block.bytes, m.size)
  BY <1>1, Grown DEF Hidden
<1>3. memio' = Closed /\ ~memio'.open
  BY DEF memio_close, Closed
<1>4. block'.bytes = block.bytes /\ block'.size = m.size
  BY DEF memio_close, IInv, Shape
<1>5. place' = IF extract \/ m.given THEN "block"
               ELSE IF m.persist \/ ~(m.write \/ m.inmemory) THEN "file"
               ELSE "gone"
  BY DEF memio_close
<1>6. Hidden'
  BY <1>2, <1>3, <1>4, <1>5 DEF Hidden, Beyond
<1>7. CASE place' # "file"
  BY <1>1, <1>2, <1>3, <1>4, <1>6, <1>7 DEF Content, Defined
<1>8. CASE place' = "file"
  <2>1. Content' = Defined(file'.bytes, file'.size)
    BY <1>3, <1>8 DEF Content, Defined
  <2>2. CASE m.persist
    <3>1. file' = [size |-> m.size, bytes |-> Below(block.bytes, m.size)]
      BY <1>5, <1>8, <2>2 DEF memio_close, writefile
    <3>2. Defined(file'.bytes, file'.size) = Defined(block.bytes, m.size)
      BY <1>1, <3>1, BelowShows
    <3> QED
      BY <1>1, <1>2, <1>6, <2>1, <3>2 DEF Content
  <2>3. CASE ~m.persist
    <3>1. file' = file /\ ~m.write /\ ~m.inmemory
      BY <1>5, <1>8, <2>3 DEF memio_close, Handles
    <3>2. Defined(block.bytes, memio.size) = Defined(file.bytes, file.size)
      BY <1>1, <3>1 DEF Hidden
    <3> QED
      BY <1>1, <1>6, <2>1, <3>1, <3>2 DEF Content, Defined
  <2> QED
    BY <2>2, <2>3
<1> QED
  BY <1>6, <1>7, <1>8

LEMMA CloseContent ==
  ASSUME IInv, Hidden, Faults = {}, NEW len \in 0 .. Size,
         NEW params \in BOOLEAN, NC3_close(len, params)
  PROVE  Hidden' /\ Content' = Content
<1> DEFINE pads == memio.write /\ memio.size < len
<1>1. /\ memio \in Handles /\ memio.size <= memio.alloc /\ memio # Closed
      /\ memio.open /\ block.state = "live" /\ Running /\ memio.size \in Nat
  <2>1. /\ memio \in Handles /\ memio.size <= memio.alloc /\ memio # Closed
        /\ memio.open /\ block.state = "live" /\ Running
    BY OpenIsHandle DEF IInv, NC3_close, Running
  <2>2. \A h \in Handles : h.size \in Nat
    BY MemIOAssumption DEF Handles
  <2> QED
    BY <2>1, <2>2
<1>2. PICK p : p = IF pads THEN memio_pad_length(memio, len)
                   ELSE [st |-> "ok", m |-> memio]
  OBVIOUS
<1>3. CASE p.st = "ok"
  <2>1. PICK m : m = p.m
    OBVIOUS
  <2>2. /\ m \in Handles /\ memio.size <= m.size
        /\ m.write = memio.write /\ m.inmemory = memio.inmemory
        /\ m.persist = memio.persist /\ m.given = memio.given
        /\ m.write \/ m = memio
    <3>1. CASE pads
      <4>1. memio.size <= len
        BY <1>1, <3>1, MemIOAssumption
      <4> QED
        BY <1>1, <1>2, <2>1, <3>1, <4>1, PadKeeps
    <3>2. CASE ~pads
      <4>1. m = memio /\ memio.size <= memio.size
        BY <1>1, <1>2, <2>1, <3>2
      <4> QED
        BY <1>1, <4>1
    <3> QED
      BY <3>1, <3>2
  <2>3. PICK extract \in BOOLEAN : extract = (params /\ memio.inmemory)
    OBVIOUS
  <2>4. memio_close(m, extract)
    BY <1>2, <1>3, <2>1, <2>3 DEF NC3_close
  <2> QED
    BY <1>1, <2>2, <2>3, <2>4, FreeContent
<1>4. CASE p.st # "ok"
  <2>1. block' = Fault(p.st) /\ UNCHANGED <<memio, file, place>>
    BY <1>2, <1>4 DEF NC3_close
  <2>2. block'.bytes = block.bytes /\ block'.size = block.size
    BY <2>1 DEF Fault, IInv, Shape
  <2> QED
    BY <1>1, <2>1, <2>2 DEF Hidden, Content, Defined, Beyond
<1> QED
  BY <1>3, <1>4

(* Every step writes or moves bytes as ByteFile does, or does not show.    *)
LEMMA NextContent ==
  ASSUME IInv, Hidden, Faults = {}, [Next]_vars
  PROVE  Hidden' /\ (Content' = Content \/ AbstractFile!Next)
<1>1. CASE UNCHANGED vars
  BY <1>1 DEF vars, Hidden, Content, Defined, Beyond
<1>2. ASSUME NEW n \in 0 .. Size, NEW p \in BOOLEAN, NEW i \in BOOLEAN,
             memio_create(n, p, i)
      PROVE  Hidden' /\ Content' = Content
  BY <1>2, OpenContent
<1>3. ASSUME NEW w \in BOOLEAN, NEW p \in BOOLEAN,
             OpenFile(w, p) \/ OpenMemory(w, p)
      PROVE  Hidden' /\ Content' = Content
  <2>1. 0 \in 0 .. Size
    BY MemIOAssumption
  <2> QED
    BY <1>3, <2>1, OpenContent
<1>4. ASSUME NEW o \in Addr, NEW n \in 1 .. Size, Fits(o, n), memio_get(o, n)
      PROVE  Hidden' /\ Content' = Content
  BY <1>4, GetContent DEF Fits
<1>5. ASSUME NEW r \in held, memio_rel(r)
      PROVE  Hidden' /\ Content' = Content
  BY <1>5, RelContent
<1>6. ASSUME NEW r \in held, NEW v \in Bytes, Put(r, v)
      PROVE  Hidden' /\ AbstractFile!Next
  <2>1. Hidden' /\ AbstractFile!Write(r[1], r[2], v)
    BY <1>6, PutContent
  <2>2. r[1] \in AbstractFile!Addr /\ r[2] \in AbstractFile!Lengths
    BY DEF IInv, Regions, AbstractFile!Addr, AbstractFile!Lengths, Addr
  <2> QED
    BY <2>1, <2>2 DEF AbstractFile!Next
<1>7. ASSUME NEW to \in Addr, NEW from \in Addr, NEW n \in 1 .. Size,
             Fits(to, n), Fits(from, n), memio_move(to, from, n)
      PROVE  Hidden' /\ (Content' = Content \/ AbstractFile!Next)
  <2>1. Hidden' /\ (Content' = Content \/ AbstractFile!Move(to, from, n))
    BY <1>7, MoveContent DEF Fits
  <2>2. /\ to \in AbstractFile!Addr /\ from \in AbstractFile!Addr
        /\ n \in AbstractFile!Lengths
    BY DEF AbstractFile!Addr, AbstractFile!Lengths, Addr
  <2> QED
    BY <2>1, <2>2 DEF AbstractFile!Next
<1>8. ASSUME NEW n \in 0 .. Size, NEW p \in BOOLEAN, NC3_close(n, p)
      PROVE  Hidden' /\ Content' = Content
  BY <1>8, CloseContent
<1> QED
  BY <1>1, <1>2, <1>3, <1>4, <1>5, <1>6, <1>7, <1>8 DEF Next

(* When the disk does not fail, a file in memory is a memory of bytes:     *)
(* reading, growing, padding, closing and opening it again do not show     *)
(* (memio_get, memio_move, memio_pad_length, memio_close, memio_open).     *)
THEOREM MemoryOfBytes ==
  ASSUME Faults = {}
  PROVE  Spec => IsByteFile
<1>1. Init => IInv /\ Hidden /\ AbstractFile!Init
  BY InitIInv, InitContent
<1>2. IInv /\ Hidden /\ [Next]_vars =>
        /\ IInv' /\ Hidden'
        /\ [AbstractFile!Next]_(IF memio.open
             THEN Defined(block.bytes, memio.size)
             ELSE IF place = "file" THEN Defined(file.bytes, file.size)
             ELSE Defined(block.bytes, block.size))
  BY NextIInv, NextContent DEF Content
<1> QED
  BY <1>1, <1>2, PTL DEF Spec, IsByteFile, AbstractFile!Spec
=============================================================================
