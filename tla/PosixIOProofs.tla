--------------------------- MODULE PosixIOProofs ---------------------------
(* Proofs about the buffered file access, for every block size, file,      *)
(* request and move: where no system call fails (reads may be short), the  *)
(* buffers stay in order and no assertion fails; where reads are not short *)
(* either, buffer, slave and file are a memory of bytes.                   *)
(*                                                                         *)
(* The proof goes from the inside out: what a read and a write of pages    *)
(* does, each of the ways through px_get, px_get, a client's get and       *)
(* release, a turn of ncio_px_move, and a whole call.                      *)
EXTENDS PosixIO, TLAPS

(* The values of a buffer, of the file, and of a state within a call.      *)
Pages == [bf_offset : Addr \cup {OFF_NONE}, bf_extent : {0, blksz, 2 * blksz},
          bf_cnt : 0 .. 2 * blksz, bf_base : [BufIndex -> Bytes], bf_write : BOOLEAN,
          bf_modified : BOOLEAN, bf_refcount : Nat, pos : Nat]
Disks == [data : [Addr -> Bytes], size : 0 .. Size, fd : Nat]
States == [disk : Disks, px : [Buffers -> Pages \cup {NoSlave}],
           st : {"ok", "err", "assert"}, diff : Int]

(* What every buffer satisfies.                                            *)
Paged(p) ==
  /\ p \in Pages
  /\ p.bf_cnt <= p.bf_extent
  /\ p.bf_offset # OFF_NONE => /\ p.bf_offset % blksz = 0 /\ p.bf_extent # 0
                               /\ p.bf_offset + p.bf_cnt <= Size
  /\ p.bf_modified => p.bf_offset # OFF_NONE

-----------------------------------------------------------------------------
(* The slave that is not there is not a page.                              *)
LEMMA PageNotNone == NoSlave \notin Pages
<1>1. blksz \in Nat \ {0} /\ 0 \in BufIndex
  BY BlockAssumption DEF BufIndex
<1>2. DOMAIN NoSlave.bf_base = {}
  BY DEF NoSlave
<1>3. \A p \in Pages : DOMAIN p.bf_base = BufIndex
  BY DEF Pages
<1> QED
  BY <1>1, <1>2, <1>3

(* What With changes and what it leaves.                                   *)
LEMMA WithIs ==
  ASSUME NEW s \in States, NEW w \in Buffers, NEW d, NEW p, NEW t, t = With(s, w, d, p)
  PROVE  /\ t.disk = d /\ t.px[w] = p /\ t.st = s.st /\ t.diff = s.diff
         /\ d \in Disks /\ p \in Pages => t \in States
<1>1. DOMAIN s.px = Buffers
  BY DEF States
<1>2. PICK f : f = [s.px EXCEPT ![w] = p]
  OBVIOUS
<1>3. f[w] = p
  BY <1>1, <1>2
<1>4. t = [disk |-> d, px |-> f, st |-> s.st, diff |-> s.diff]
  BY <1>2 DEF With
<1>5. t.disk = d /\ t.px = f /\ t.st = s.st /\ t.diff = s.diff
  BY <1>4
<1>6. d \in Disks /\ p \in Pages => t \in States
  <2>1. p \in Pages => f \in [Buffers -> Pages \cup {NoSlave}]
    BY <1>2 DEF States
  <2> QED
    BY <1>4, <2>1 DEF States
<1> QED
  BY <1>2, <1>3, <1>5, <1>6

(* The last change of a buffer is what counts.                             *)
LEMMA WithAgain ==
  ASSUME NEW s \in States, NEW w \in Buffers, NEW d, NEW p, NEW t, t = With(s, w, d, p)
  PROVE  \A q : Page(t, w, q) = With(s, w, d, q)
<1>1. SUFFICES ASSUME NEW q PROVE Page(t, w, q) = With(s, w, d, q)
  OBVIOUS
<1>2. t.disk = d /\ t.st = s.st /\ t.diff = s.diff /\ t.px = [s.px EXCEPT ![w] = p]
  BY DEF With
<1>3. [t.px EXCEPT ![w] = q] = [s.px EXCEPT ![w] = q]
  BY <1>2 DEF States
<1> QED
  BY <1>2, <1>3 DEF Page, With

(* Likewise for a file and a buffer.                                       *)
LEMMA WithTwice ==
  ASSUME NEW s \in States, NEW w \in Buffers, NEW d, NEW p, NEW t, t = With(s, w, d, p),
         NEW e, NEW q
  PROVE  With(t, w, e, q) = With(s, w, e, q)
<1>1. t.disk = d /\ t.st = s.st /\ t.diff = s.diff /\ t.px = [s.px EXCEPT ![w] = p]
  BY DEF With
<1>2. [t.px EXCEPT ![w] = q] = [s.px EXCEPT ![w] = q]
  BY <1>1 DEF States
<1> QED
  BY <1>1, <1>2 DEF With

(* Nothing changes when the same file and buffer are put back.             *)
LEMMA WithNothing ==
  ASSUME NEW s \in States, NEW w \in Buffers
  PROVE  With(s, w, s.disk, s.px[w]) = s
<1>1. /\ s.px \in [Buffers -> Pages \cup {NoSlave}]
      /\ s = [disk |-> s.disk, px |-> s.px, st |-> s.st, diff |-> s.diff]
  BY DEF States
<1>2. [s.px EXCEPT ![w] = s.px[w]] = s.px
  BY <1>1
<1> QED
  BY <1>1, <1>2 DEF With

-----------------------------------------------------------------------------
(* The page p after a read of nread of extent bytes at offset, and the     *)
(* bytes that a read finds.                                                *)
Loaded(d, p, offset, extent, from, nread) ==
  [p EXCEPT !.bf_base = [i \in BufIndex |->
                  IF i \notin from .. from + extent - 1 THEN p.bf_base[i]
                  ELSE IF i - from < nread THEN d.data[offset + i - from]
                  ELSE Zero],
            !.bf_cnt = nread, !.pos = offset + nread]

Found(d, offset, extent) == MinOf(extent, MaxOf(0, d.size - offset))

(* Where no system call fails and the descriptor is where the buffer says, *)
(* px_pgin reads up to the bytes there are, and all of them unless reads   *)
(* are short.                                                              *)
LEMMA PginIs ==
  ASSUME Faults \subseteq {"short_read"}, NEW s \in States, NEW w \in Buffers,
         s.px[w].pos = s.disk.fd, NEW offset \in Nat, NEW extent \in Nat, NEW from,
         NEW t \in px_pgin(s, w, offset, extent, from)
  PROVE  \E nread \in 0 .. Found(s.disk, offset, extent) :
           /\ t = With(s, w, [s.disk EXCEPT !.fd = offset + nread],
                       Loaded(s.disk, s.px[w], offset, extent, from, nread))
           /\ Faults = {} => nread = Found(s.disk, offset, extent)
<1>1. ~Astray(s, w)
  BY DEF Astray
<1>2. (IF s.px[w].pos # offset THEN offset ELSE s.disk.fd) = offset
  OBVIOUS
<1>3. Faults \cap {"read_error"} = {}
  OBVIOUS
<1>4. PICK nread \in NRead(s, offset, extent) :
        t = With(s, w, [s.disk EXCEPT !.fd = offset + nread],
                 [s.px[w] EXCEPT !.bf_base = [i \in BufIndex |->
                      IF i \notin from .. from + extent - 1 THEN s.px[w].bf_base[i]
                      ELSE IF i - from < nread THEN s.disk.data[offset + i - from]
                      ELSE Zero],
                  !.bf_cnt = nread,
                  !.pos = offset + nread])
  BY <1>1, <1>2, <1>3 DEF px_pgin
<1>5. Found(s.disk, offset, extent) \in Nat /\ Found(s.disk, offset, extent) = Present(s, offset, extent)
  BY BoundAssumption DEF Found, Present, MinOf, MaxOf, States, Disks
<1>6. nread \in 0 .. Found(s.disk, offset, extent) /\ (Faults = {} => nread = Found(s.disk, offset, extent))
  BY <1>5 DEF NRead
<1> QED
  BY <1>4, <1>6 DEF Loaded

(* The fields of a page that was read.                                     *)
LEMMA LoadedIs ==
  ASSUME NEW d \in Disks, NEW p \in Pages, NEW offset \in Nat, NEW extent \in {blksz, 2 * blksz},
         NEW from \in {0, blksz}, NEW nread \in 0 .. Found(d, offset, extent)
  PROVE  LET q == Loaded(d, p, offset, extent, from, nread) IN
         /\ q \in Pages
         /\ q.bf_cnt = nread /\ q.pos = offset + nread
         /\ q.bf_offset = p.bf_offset /\ q.bf_extent = p.bf_extent /\ q.bf_write = p.bf_write
         /\ q.bf_modified = p.bf_modified /\ q.bf_refcount = p.bf_refcount
         /\ \A i \in BufIndex :
              q.bf_base[i] = IF i \notin from .. from + extent - 1 THEN p.bf_base[i]
                             ELSE IF i - from < nread THEN d.data[offset + i - from]
                             ELSE Zero
         /\ offset + nread <= MaxOf(offset, d.size)
<1>1. /\ blksz \in Nat /\ d.size \in 0 .. Size /\ d.data \in [Addr -> Bytes] /\ d.fd \in Nat
      /\ p.bf_base \in [BufIndex -> Bytes]
  BY BlockAssumption DEF Disks, Pages
<1>2. nread \in Nat /\ nread <= extent /\ (nread = 0 \/ offset + nread <= d.size)
  BY <1>1, BoundAssumption DEF Found, MinOf, MaxOf
<1>3. PICK b : b = [i \in BufIndex |->
                  IF i \notin from .. from + extent - 1 THEN p.bf_base[i]
                  ELSE IF i - from < nread THEN d.data[offset + i - from]
                  ELSE Zero]
  OBVIOUS
<1>4. b \in [BufIndex -> Bytes]
  <2>1. ASSUME NEW i \in BufIndex
        PROVE  b[i] \in Bytes
    <3>1. CASE i \in from .. from + extent - 1 /\ i - from < nread
      <4>1. offset + i - from \in Addr
        BY <1>1, <1>2, <3>1, BoundAssumption DEF Addr, BufIndex
      <4> QED
        BY <1>1, <1>3, <3>1, <4>1
    <3>2. CASE i \notin from .. from + extent - 1
      BY <1>1, <1>3, <3>2
    <3>3. CASE i \in from .. from + extent - 1 /\ ~(i - from < nread)
      BY <1>3, <3>3 DEF Bytes
    <3> QED
      BY <3>1, <3>2, <3>3
  <2> QED
    BY <1>3, <2>1
<1>5. PICK q : q = [p EXCEPT !.bf_base = b, !.bf_cnt = nread, !.pos = offset + nread]
  OBVIOUS
<1>6. Loaded(d, p, offset, extent, from, nread) = q
  BY <1>3, <1>5 DEF Loaded
<1>7. nread \in 0 .. 2 * blksz
  BY <1>1, <1>2
<1>8. /\ q.bf_cnt = nread /\ q.pos = offset + nread /\ q.bf_base = b
      /\ q.bf_offset = p.bf_offset /\ q.bf_extent = p.bf_extent /\ q.bf_write = p.bf_write
      /\ q.bf_modified = p.bf_modified /\ q.bf_refcount = p.bf_refcount
      /\ q = [bf_offset |-> q.bf_offset, bf_extent |-> q.bf_extent, bf_cnt |-> q.bf_cnt,
              bf_base |-> q.bf_base, bf_write |-> q.bf_write, bf_modified |-> q.bf_modified,
              bf_refcount |-> q.bf_refcount, pos |-> q.pos]
  BY <1>5 DEF Pages
<1>9. q \in Pages
  <2>1. q.pos \in Nat
    BY <1>2, <1>8
  <2> QED
    BY <1>4, <1>7, <1>8, <2>1 DEF Pages
<1>10. offset + nread <= MaxOf(offset, d.size)
  BY <1>1, <1>2 DEF MaxOf
<1> QED
  BY <1>3, <1>6, <1>8, <1>9, <1>10
-----------------------------------------------------------------------------
(* Two pages that differ in where the descriptor is.                       *)
Same(p, q) ==
  /\ q \in Pages /\ q.bf_base = p.bf_base
  /\ q.bf_offset = p.bf_offset /\ q.bf_extent = p.bf_extent /\ q.bf_cnt = p.bf_cnt
  /\ q.bf_write = p.bf_write /\ q.bf_modified = p.bf_modified
  /\ q.bf_refcount = p.bf_refcount

(* The file d is d0 with n bytes of p from base[from] on written at offset *)
(* if p was modified.                                                      *)
Written(d0, p, d, offset, n, from) ==
  /\ d \in Disks /\ d0.size <= d.size
  /\ ~p.bf_modified => d.data = d0.data /\ d.size = d0.size
  /\ p.bf_modified => 
       /\ n > 0 => d.size = MaxOf(d0.size, offset + n)
       /\ \A a \in Addr : d.data[a] = IF a \in offset .. offset + n - 1
                                      THEN p.bf_base[a - offset + from] ELSE d0.data[a]

(* Flush of a buffer that no client holds writes the bytes and changes     *)
(* nothing else of the buffer.                                             *)
LEMMA FlushIs ==
  ASSUME Faults \subseteq {"short_read"}, NEW s \in States, NEW w \in Buffers, s.st = "ok",
         s.px[w] \in Pages, s.px[w].pos = s.disk.fd, s.px[w].bf_refcount = 0,
         NEW offset \in Nat, NEW n \in Nat, NEW from \in Nat, offset + n <= Size, from + n <= 2 * blksz,
         NEW t \in Flush(s, w, offset, n, from)
  PROVE  \E d, q : /\ t = With(s, w, d, q) /\ Same(s.px[w], q) /\ q.pos = d.fd
                   /\ Written(s.disk, s.px[w], d, offset, n, from)
<1>1. PICK p \in Pages : p = s.px[w]
  OBVIOUS
<1>2. PICK d0 \in Disks : d0 = s.disk
  BY DEF States
<1>3. CASE ~p.bf_modified
  <2>1. t = s
    BY <1>1, <1>3 DEF Flush
  <2>2. t = With(s, w, d0, p)
    BY <1>1, <1>2, <2>1, WithNothing
  <2>3. Same(p, p) /\ Written(d0, p, d0, offset, n, from)
    BY <1>3, BoundAssumption DEF Same, Written, Disks
  <2> QED
    BY <1>1, <1>2, <2>2, <2>3
<1>4. CASE p.bf_modified
  <2>1. t \in px_pgout(s, w, offset, n, from)
    BY <1>1, <1>4 DEF Flush
  <2>2. ~Astray(s, w)
    BY DEF Astray
  <2>3. t = With(s, w, Stored(s, w, offset, from, n), [s.px[w] EXCEPT !.pos = offset + n])
    BY <2>1, <2>2 DEF px_pgout
  <2>4. PICK q : q = [p EXCEPT !.pos = offset + n]
    OBVIOUS
  <2>5. Same(p, q) /\ q.pos = offset + n
    <3>1. /\ q.bf_base = p.bf_base /\ q.pos = offset + n
          /\ q.bf_offset = p.bf_offset /\ q.bf_extent = p.bf_extent /\ q.bf_cnt = p.bf_cnt
          /\ q.bf_write = p.bf_write /\ q.bf_modified = p.bf_modified
          /\ q.bf_refcount = p.bf_refcount
          /\ q = [bf_offset |-> q.bf_offset, bf_extent |-> q.bf_extent, bf_cnt |-> q.bf_cnt,
                  bf_base |-> q.bf_base, bf_write |-> q.bf_write, bf_modified |-> q.bf_modified,
                  bf_refcount |-> q.bf_refcount, pos |-> q.pos]
      BY <2>4 DEF Pages
    <3>2. q \in Pages
      BY <3>1 DEF Pages
    <3> QED
      BY <3>1, <3>2 DEF Same
  <2>6. PICK f : f = [a \in Addr |-> IF a \in offset .. offset + n - 1
                                     THEN p.bf_base[a - offset + from]
                                     ELSE d0.data[a]]
    OBVIOUS
  <2>7. PICK z : z = IF n = 0 THEN d0.size ELSE MaxOf(d0.size, offset + n)
    OBVIOUS
  <2>8. f \in [Addr -> Bytes] /\ z \in 0 .. Size
    <3>1. ASSUME NEW a \in Addr
          PROVE  f[a] \in Bytes
      <4>1. a \in offset .. offset + n - 1 => a - offset + from \in BufIndex
        BY <3>1, BlockAssumption, BoundAssumption DEF Addr, BufIndex
      <4> QED
        BY <2>6, <4>1 DEF Pages, Disks
    <3> QED
      BY <2>6, <2>7, <3>1, BoundAssumption DEF MaxOf, Disks
  <2>9. PICK d : d = [data |-> f, size |-> z, fd |-> offset + n]
    OBVIOUS
  <2>10. Stored(s, w, offset, from, n) = d
    BY <1>1, <1>2, <2>6, <2>7, <2>9 DEF Stored
  <2>11. d \in Disks /\ d.data = f /\ d.size = z /\ d.fd = offset + n
    BY <2>8, <2>9 DEF Disks
  <2>12. d0.size <= z /\ (n > 0 => z = MaxOf(d0.size, offset + n))
    BY <2>7, BoundAssumption DEF MaxOf, Disks
  <2>13. Written(d0, p, d, offset, n, from)
    BY <1>4, <2>6, <2>11, <2>12 DEF Written
  <2> QED
    BY <1>1, <1>2, <2>3, <2>4, <2>5, <2>10, <2>11, <2>13
<1> QED
  BY <1>3, <1>4

-----------------------------------------------------------------------------
(* A page has the fields it has.                                           *)
LEMMA PageFields ==
  ASSUME NEW p \in Pages
  PROVE  /\ p.bf_offset \in Int /\ (p.bf_offset # OFF_NONE => p.bf_offset \in Addr)
         /\ p.bf_extent \in {0, blksz, 2 * blksz} /\ p.bf_extent \in Nat
         /\ p.bf_cnt \in Nat /\ p.bf_cnt <= 2 * blksz /\ p.bf_base \in [BufIndex -> Bytes]
         /\ p.bf_write \in BOOLEAN /\ p.bf_modified \in BOOLEAN /\ p.bf_refcount \in Nat
         /\ p.pos \in Nat /\ blksz \in Nat /\ blksz >= 1 /\ Size \in Nat
BY BlockAssumption, BoundAssumption DEF Pages, Addr, OFF_NONE

(* The page q is p with its upper block read from the file.                *)
UpperLoaded(d, p, q, nread) ==
  /\ q \in Pages /\ q.pos = p.bf_offset + blksz + nread
  /\ q.bf_offset = p.bf_offset /\ q.bf_extent = 2 * blksz /\ q.bf_cnt = nread + blksz
  /\ q.bf_write = p.bf_write /\ q.bf_modified = p.bf_modified
  /\ q.bf_refcount = p.bf_refcount
  /\ \A i \in BufIndex :
       q.bf_base[i] = IF i < blksz THEN p.bf_base[i]
                      ELSE IF i - blksz < nread THEN d.data[p.bf_offset + i]
                      ELSE Zero

(* What px_get does when the request reaches above the one block that is   *)
(* there.                                                                  *)
LEMMA PageInUpperIs ==
  ASSUME Faults \subseteq {"short_read"}, NEW s \in States, NEW w \in Buffers, s.st = "ok",
         s.px[w] \in Pages, s.px[w].pos = s.disk.fd, s.px[w].bf_offset \in Nat,
         NEW t \in PageInUpper(s, w)
  PROVE  \E nread \in 0 .. Found(s.disk, s.px[w].bf_offset + blksz, blksz) : \E q :
           /\ t = With(s, w, [s.disk EXCEPT !.fd = s.px[w].bf_offset + blksz + nread], q)
           /\ UpperLoaded(s.disk, s.px[w], q, nread)
           /\ Faults = {} => nread = Found(s.disk, s.px[w].bf_offset + blksz, blksz)
<1>1. PICK p \in Pages : p = s.px[w]
  OBVIOUS
<1>2. PICK d0 \in Disks : d0 = s.disk
  BY DEF States
<1>3. PICK offset \in Nat : offset = p.bf_offset + blksz
  BY <1>1, BlockAssumption
<1>4. PICK u \in px_pgin(s, w, offset, blksz, blksz) :
        t \in IF u.st = "ok"
              THEN {Page(u, w, [u.px[w] EXCEPT !.bf_extent = 2 * blksz, !.bf_cnt = @ + blksz])}
              ELSE {u}
  BY <1>1, <1>3 DEF PageInUpper, Then
<1>5. PICK nread \in 0 .. Found(d0, offset, blksz) :
        /\ u = With(s, w, [d0 EXCEPT !.fd = offset + nread], Loaded(d0, p, offset, blksz, blksz, nread))
        /\ Faults = {} => nread = Found(d0, offset, blksz)
  BY <1>1, <1>2, <1>3, <1>4, PginIs, BlockAssumption
<1>6. PICK r : r = Loaded(d0, p, offset, blksz, blksz, nread)
  OBVIOUS
<1>7. /\ r \in Pages
      /\ r.bf_cnt = nread /\ r.pos = offset + nread
      /\ r.bf_offset = p.bf_offset /\ r.bf_extent = p.bf_extent /\ r.bf_write = p.bf_write
      /\ r.bf_modified = p.bf_modified /\ r.bf_refcount = p.bf_refcount
      /\ \A i \in BufIndex :
           r.bf_base[i] = IF i \notin blksz .. blksz + blksz - 1 THEN p.bf_base[i]
                          ELSE IF i - blksz < nread THEN d0.data[offset + i - blksz]
                          ELSE Zero
  BY <1>6, LoadedIs
<1>8. u.st = "ok" /\ u.px[w] = r /\ \A q : Page(u, w, q) = With(s, w, [d0 EXCEPT !.fd = offset + nread], q)
  <2>1. PICK e : e = [d0 EXCEPT !.fd = offset + nread]
    OBVIOUS
  <2>2. u = With(s, w, e, r)
    BY <1>5, <1>6, <2>1
  <2>3. u.st = s.st /\ u.px[w] = r
    BY <2>2, WithIs
  <2>4. \A q : Page(u, w, q) = With(s, w, e, q)
    BY <2>2, WithAgain
  <2> QED
    BY <2>1, <2>3, <2>4
<1>9. PICK q : q = [r EXCEPT !.bf_extent = 2 * blksz, !.bf_cnt = @ + blksz]
  OBVIOUS
<1>10. t = With(s, w, [d0 EXCEPT !.fd = offset + nread], q)
  BY <1>4, <1>8, <1>9
<1>11. nread \in Nat /\ nread <= blksz
  BY <1>3, BlockAssumption, BoundAssumption DEF Found, MinOf, MaxOf, Disks
<1>12. /\ q.bf_base = r.bf_base /\ q.pos = r.pos
       /\ q.bf_offset = r.bf_offset /\ q.bf_extent = 2 * blksz /\ q.bf_cnt = nread + blksz
       /\ q.bf_write = r.bf_write /\ q.bf_modified = r.bf_modified
       /\ q.bf_refcount = r.bf_refcount
       /\ q = [bf_offset |-> q.bf_offset, bf_extent |-> q.bf_extent, bf_cnt |-> q.bf_cnt,
               bf_base |-> q.bf_base, bf_write |-> q.bf_write, bf_modified |-> q.bf_modified,
               bf_refcount |-> q.bf_refcount, pos |-> q.pos]
  BY <1>7, <1>9 DEF Pages
<1>13. q \in Pages
  <2>1. q.bf_cnt \in 0 .. 2 * blksz
    BY <1>11, <1>12, BlockAssumption
  <2> QED
    BY <1>7, <1>12, <2>1 DEF Pages
<1>14. ASSUME NEW i \in BufIndex
       PROVE  q.bf_base[i] = IF i < blksz THEN p.bf_base[i]
                             ELSE IF i - blksz < nread THEN d0.data[p.bf_offset + i]
                             ELSE Zero
  <2>1. i \in Int /\ i >= 0 /\ i <= blksz + blksz - 1 /\ offset + i - blksz = p.bf_offset + i
    BY <1>3, BlockAssumption, PageFields DEF BufIndex
  <2>2. i \notin blksz .. blksz + blksz - 1 <=> i < blksz
    BY <2>1, BlockAssumption
  <2> QED
    BY <1>7, <1>12, <2>1, <2>2
<1>15. UpperLoaded(d0, p, q, nread)
  BY <1>3, <1>7, <1>12, <1>13, <1>14 DEF UpperLoaded
<1> QED
  BY <1>1, <1>2, <1>3, <1>5, <1>10, <1>15

-----------------------------------------------------------------------------
(* Addresses where a block begins are multiples of blksz.                  *)
LEMMA Multiple ==
  \A n \in Nat : n % blksz = 0 <=> \E k \in Nat : n = blksz * k
<1>1. SUFFICES ASSUME NEW n \in Nat
               PROVE  n % blksz = 0 <=> \E k \in Nat : n = blksz * k
  OBVIOUS
<1>2. blksz \in Nat \ {0}
  BY BlockAssumption
<1>3. /\ n \div blksz \in Nat /\ n % blksz \in 0 .. blksz - 1
      /\ n = blksz * (n \div blksz) + (n % blksz)
  BY <1>2
<1>4. ASSUME NEW k \in Nat, n = blksz * k
      PROVE  n % blksz = 0
  <2>1. PICK j \in Nat : j = n \div blksz
    BY <1>3
  <2>2. PICK r \in 0 .. blksz - 1 : r = n % blksz
    BY <1>3
  <2>3. blksz * k = blksz * j + r
    BY <1>3, <1>4, <2>1, <2>2
  <2>4. CASE k >= j + 1
    <3>1. PICK m \in Nat : k = j + 1 + m
      BY <2>4
    <3>2. blksz * k = blksz * j + blksz + blksz * m /\ blksz * m \in Nat
      BY <1>2, <3>1
    <3> QED
      BY <1>2, <2>2, <2>3, <3>2
  <2>5. CASE k + 1 <= j
    <3>1. PICK m \in Nat : j = k + 1 + m
      BY <2>5
    <3>2. blksz * j = blksz * k + blksz + blksz * m /\ blksz * m \in Nat
      BY <1>2, <3>1
    <3> QED
      BY <1>2, <2>2, <2>3, <3>2
  <2>6. CASE k = j
    BY <2>2, <2>3, <2>6, <1>2
  <2> QED
    BY <2>4, <2>5, <2>6
<1>5. ASSUME n % blksz = 0
      PROVE  \E k \in Nat : n = blksz * k
  <2>1. n = blksz * (n \div blksz)
    <3>1. blksz * (n \div blksz) \in Nat
      BY <1>2, <1>3
    <3> QED
      BY <1>3, <1>5, <3>1
  <2> QED
    BY <1>3, <2>1
<1> QED
  BY <1>4, <1>5

(* Two blocks that are not the same do not overlap.                        *)
LEMMA BlocksApart ==
  ASSUME NEW a \in Nat, NEW b \in Nat, a % blksz = 0, b % blksz = 0, a < b
  PROVE  a + blksz <= b
<1>1. PICK j \in Nat : a = blksz * j
  BY Multiple
<1>2. PICK k \in Nat : b = blksz * k
  BY Multiple
<1>3. blksz \in Nat \ {0}
  BY BlockAssumption
<1>4. CASE k <= j
  <2>1. PICK m \in Nat : j = k + m
    BY <1>4
  <2>2. blksz * j = blksz * k + blksz * m /\ blksz * m \in Nat
    BY <1>3, <2>1
  <2> QED
    BY <1>1, <1>2, <2>2
<1>5. CASE k >= j + 1
  <2>1. PICK m \in Nat : k = j + 1 + m
    BY <1>5
  <2>2. blksz * k = blksz * j + blksz + blksz * m /\ blksz * m \in Nat
    BY <1>3, <2>1
  <2>3. PICK z \in Nat : z = blksz * m
    BY <2>2
  <2>4. b = a + blksz + z
    BY <1>1, <1>2, <2>2, <2>3
  <2> QED
    BY <1>3, <2>4
<1> QED
  BY <1>4, <1>5

(* The addresses of the blocks above and below a block.                    *)
LEMMA BlockBeside ==
  ASSUME NEW a \in Nat, a % blksz = 0
  PROVE  /\ (a + blksz) % blksz = 0
         /\ a # 0 => a - blksz \in Nat /\ (a - blksz) % blksz = 0
<1>1. PICK j \in Nat : a = blksz * j
  BY Multiple
<1>2. blksz \in Nat \ {0}
  BY BlockAssumption
<1>3. a + blksz = blksz * (j + 1)
  BY <1>1, <1>2
<1>4. (a + blksz) % blksz = 0
  <2>1. PICK b \in Nat : b = a + blksz
    BY <1>2
  <2>2. b = blksz * (j + 1) /\ j + 1 \in Nat
    BY <1>3, <2>1
  <2> QED
    BY <2>1, <2>2, Multiple
<1>5. ASSUME a # 0
      PROVE  a - blksz \in Nat /\ (a - blksz) % blksz = 0
  <2>1. j # 0
    BY <1>1, <1>2, <1>5
  <2>2. PICK k \in Nat : j = k + 1
    BY <2>1
  <2>3. a = blksz * k + blksz /\ blksz * k \in Nat
    BY <1>1, <1>2, <2>2
  <2>4. a - blksz = blksz * k
    BY <1>2, <2>3
  <2> QED
    BY <2>3, <2>4, Multiple
<1> QED
  BY <1>4, <1>5

(* The block that an address is in.                                        *)
LEMMA RoundedDown ==
  ASSUME NEW n \in Nat
  PROVE  /\ RNDDOWN(n) \in Nat /\ RNDDOWN(n) <= n /\ n < RNDDOWN(n) + blksz
         /\ RNDDOWN(n) % blksz = 0
<1>1. blksz \in Nat \ {0}
  BY BlockAssumption
<1>2. PICK j \in Nat : j = n \div blksz
  BY <1>1
<1>3. PICK r \in 0 .. blksz - 1 : r = n % blksz
  BY <1>1
<1>4. n = blksz * j + r
  BY <1>1, <1>2, <1>3
<1>5. blksz * j \in Nat
  BY <1>1
<1>6. PICK m \in Nat : m = blksz * j
  BY <1>5
<1>7. RNDDOWN(n) = m /\ n = m + r
  BY <1>3, <1>4, <1>6 DEF RNDDOWN
<1>8. m % blksz = 0
  BY <1>6, Multiple
<1> QED
  BY <1>1, <1>7, <1>8

(* A request within two blocks is rounded to one or two of them.           *)
LEMMA RoundedUp ==
  ASSUME NEW n \in Nat, n # 0
  PROVE  /\ RNDUP(n) \in Nat /\ n <= RNDUP(n) /\ RNDUP(n) < n + blksz
         /\ RNDUP(n) <= 2 * blksz => RNDUP(n) \in {blksz, 2 * blksz}
         /\ RNDUP(n) > 2 * blksz => RNDUP(n) >= 3 * blksz
<1>1. blksz \in Nat \ {0}
  BY BlockAssumption
<1>2. PICK m \in Nat : m = n + blksz - 1
  BY <1>1
<1>3. PICK u \in Nat : u = RNDDOWN(m) /\ u <= m /\ m < u + blksz /\ u % blksz = 0
  BY RoundedDown
<1>4. RNDUP(n) = u
  BY <1>2, <1>3 DEF RNDUP
<1>5. n <= u /\ u < n + blksz
  BY <1>1, <1>2, <1>3
<1>6. 0 % blksz = 0 /\ blksz % blksz = 0 /\ (blksz + blksz) % blksz = 0
  <2>1. 0 = blksz * 0
    BY <1>1
  <2>2. 0 % blksz = 0
    BY <2>1, Multiple
  <2>3. (0 + blksz) % blksz = 0
    BY <2>2, BlockBeside
  <2>4. blksz % blksz = 0
    BY <1>1, <2>3
  <2> QED
    BY <1>1, <2>2, <2>4, BlockBeside
<1>7. blksz <= u
  BY <1>1, <1>3, <1>5, <1>6, BlocksApart
<1>8. u = blksz \/ blksz + blksz <= u
  BY <1>1, <1>3, <1>6, <1>7, BlocksApart
<1>9. u > blksz + blksz => u >= blksz + blksz + blksz
  BY <1>1, <1>3, <1>6, BlocksApart
<1> QED
  BY <1>1, <1>4, <1>5, <1>8, <1>9

-----------------------------------------------------------------------------
(* Addresses that the buffer counts, and that it has room for; the bytes   *)
(* the file has; and that v is what the next get will show at a, and that  *)
(* v is not lost either when a buffer that is not modified is given up.    *)
Shown(p, a)     == p.bf_offset # OFF_NONE /\ p.bf_offset <= a /\ a < p.bf_offset + p.bf_cnt
Covered(p, a)   == p.bf_offset # OFF_NONE /\ p.bf_offset <= a /\ a < p.bf_offset + p.bf_extent
OnDisk(d, a, v) == a < d.size /\ d.data[a] = v
Held(d, p, a, v) ==
  IF Shown(p, a) THEN p.bf_base[a - p.bf_offset] = v ELSE ~Covered(p, a) /\ OnDisk(d, a, v)
Safe(d, p, a, v) ==
  Held(d, p, a, v) /\ (Shown(p, a) /\ ~p.bf_modified => OnDisk(d, a, v))

(* Nothing that was safe is lost; for a buffer that is only read, nothing  *)
(* that it held below m is.                                                *)
Keeps(d0, p, d, q) ==
  \A a \in Addr : \A v \in Bytes : Safe(d0, p, a, v) =>
    Safe(d, q, a, v) /\ (OnDisk(d0, a, v) => OnDisk(d, a, v))

KeepsBelow(d0, p, d, q, m) ==
  ~p.bf_modified /\ p.bf_offset # OFF_NONE /\ m <= p.bf_offset + p.bf_cnt =>
    \A a \in Addr : \A v \in Bytes : a < m /\ Held(d0, p, a, v) => Held(d, q, a, v)

(* A buffer in order for the next step.                                    *)
Turned(d0, p, d, q) ==
  /\ d \in Disks /\ Paged(q) /\ q.pos = d.fd /\ q.bf_refcount = p.bf_refcount
  /\ q.bf_modified => p.bf_modified
  /\ q.bf_offset \in Addr
  /\ ~p.bf_modified => d.data = d0.data /\ d.size = d0.size

(* The buffer q has room for the n bytes from o, and nothing was lost on   *)
(* the way from p to q.                                                    *)
Covers(d0, p, d, q, o, n) ==
  /\ Turned(d0, p, d, q)
  /\ q.bf_offset <= o /\ o + n <= q.bf_offset + q.bf_extent
  /\ Faults = {} => Keeps(d0, p, d, q) /\ KeepsBelow(d0, p, d, q, o + n)

(* px_get when the request is within the buffer.                           *)
LEMMA HitCovers ==
  ASSUME NEW d \in Disks, NEW p, Paged(p), p.pos = d.fd, p.bf_offset # OFF_NONE,
         NEW o \in Nat, NEW n \in Nat, p.bf_offset <= o, o + n <= p.bf_offset + p.bf_extent
  PROVE  Covers(d, p, d, p, o, n)
<1>1. Turned(d, p, d, p)
  BY PageFields DEF Turned, Paged
<1>2. Keeps(d, p, d, p) /\ KeepsBelow(d, p, d, p, o + n)
  BY DEF Keeps, KeepsBelow
<1> QED
  BY <1>1, <1>2 DEF Covers

(* px_get when the upper block is read in addition.                        *)
LEMMA ExtendCovers ==
  ASSUME NEW d0 \in Disks, NEW p, Paged(p), p.bf_offset # OFF_NONE, p.bf_extent = blksz,
         NEW o \in Nat, NEW n \in Nat, p.bf_offset <= o, o + n <= p.bf_offset + 2 * blksz,
         p.bf_offset + blksz < o + n, o + n <= Size,
         NEW nread \in 0 .. Found(d0, p.bf_offset + blksz, blksz),
         Faults = {} => nread = Found(d0, p.bf_offset + blksz, blksz),
         NEW q, UpperLoaded(d0, p, q, nread),
         NEW d \in Disks, d.data = d0.data, d.size = d0.size, d.fd = q.pos
  PROVE  Covers(d0, p, d, q, o, n)
<1>1. /\ p.bf_offset \in Addr /\ p.bf_offset \in Nat /\ p.bf_cnt \in Nat /\ p.bf_cnt <= blksz
      /\ p.bf_modified \in BOOLEAN /\ blksz \in Nat /\ blksz >= 1 /\ Size \in Nat
      /\ p.bf_offset % blksz = 0
  BY PageFields DEF Paged, Addr
<1>2. d0.size \in Nat /\ d0.size <= Size
  BY <1>1 DEF Disks
<1>3. /\ nread \in Nat /\ nread <= blksz
      /\ nread = 0 \/ p.bf_offset + blksz + nread <= d0.size
      /\ Faults = {} => nread = blksz \/ p.bf_offset + blksz + nread >= d0.size
  BY <1>1, <1>2 DEF Found, MinOf, MaxOf
<1>4. /\ q \in Pages /\ q.bf_offset = p.bf_offset /\ q.bf_extent = 2 * blksz
      /\ q.bf_cnt = nread + blksz /\ q.bf_modified = p.bf_modified
      /\ q.bf_refcount = p.bf_refcount
  BY DEF UpperLoaded
<1>5. Turned(d0, p, d, q)
  <2>1. p.bf_offset + nread + blksz <= Size
    BY <1>1, <1>2, <1>3
  <2>2. Paged(q)
    BY <1>1, <1>3, <1>4, <2>1 DEF Paged
  <2> QED
    BY <1>1, <1>4, <2>2 DEF Turned
<1>6. ASSUME Faults = {}, NEW a \in Addr, NEW v \in Bytes, Safe(d0, p, a, v)
      PROVE  Safe(d, q, a, v)
  <2>1. a \in Nat
    BY DEF Addr
  <2>2. CASE Shown(p, a)
    <3>1. a - p.bf_offset \in BufIndex /\ a - p.bf_offset < blksz
      BY <1>1, <2>1, <2>2 DEF Shown, BufIndex
    <3>2. q.bf_base[a - p.bf_offset] = p.bf_base[a - p.bf_offset]
      BY <3>1 DEF UpperLoaded
    <3>3. Shown(q, a)
      BY <1>1, <1>3, <1>4, <2>1, <2>2 DEF Shown
    <3> QED
      BY <1>4, <1>6, <2>2, <3>2, <3>3 DEF Safe, Held, OnDisk
  <2>3. CASE ~Shown(p, a)
    <3>1. ~Covered(p, a) /\ OnDisk(d0, a, v)
      BY <1>6, <2>3 DEF Safe, Held
    <3>2. OnDisk(d, a, v)
      BY <3>1 DEF OnDisk
    <3>3. CASE p.bf_offset + blksz <= a /\ a < p.bf_offset + 2 * blksz
      <4>1. a < p.bf_offset + blksz + nread
        BY <1>1, <1>2, <1>3, <1>6, <2>1, <3>1, <3>3 DEF OnDisk
      <4>2. Shown(q, a)
        BY <1>1, <1>3, <1>4, <2>1, <3>3, <4>1 DEF Shown
      <4>3. PICK i \in BufIndex : i = a - p.bf_offset
        BY <1>1, <2>1, <3>3 DEF BufIndex
      <4>4. i >= blksz /\ i - blksz < nread /\ p.bf_offset + i = a
        BY <1>1, <1>3, <2>1, <3>3, <4>1, <4>3
      <4>5. q.bf_base[i] = d0.data[a]
        BY <1>1, <1>3, <4>4, <4>3 DEF UpperLoaded
      <4> QED
        BY <1>4, <3>1, <3>2, <4>2, <4>3, <4>5 DEF Safe, Held, OnDisk
    <3>4. CASE ~(p.bf_offset + blksz <= a /\ a < p.bf_offset + 2 * blksz)
      <4>1. ~Covered(q, a) /\ ~Shown(q, a)
        BY <1>1, <1>3, <1>4, <2>1, <3>1, <3>4 DEF Covered, Shown
      <4> QED
        BY <3>2, <4>1 DEF Safe, Held
    <3> QED
      BY <3>3, <3>4
  <2> QED
    BY <2>2, <2>3
<1>7. Faults = {} => Keeps(d0, p, d, q)
  BY <1>6 DEF Keeps, OnDisk
<1>8. KeepsBelow(d0, p, d, q, o + n)
  BY <1>1 DEF KeepsBelow
<1>9. q.bf_offset <= o /\ o + n <= q.bf_offset + q.bf_extent
  BY <1>4
<1> QED
  BY <1>5, <1>7, <1>8, <1>9 DEF Covers

(* px_get when the upper block becomes the lower one: the lower one has    *)
(* been written out, and the bytes that are copied are those the buffer    *)
(* counts.                                                                 *)
LEMMA UpCovers ==
  ASSUME NEW d0 \in Disks, NEW p, Paged(p), p.bf_offset # OFF_NONE, p.bf_extent = 2 * blksz,
         NEW o \in Nat, NEW n \in Nat, p.bf_offset + blksz <= o,
         o + n <= p.bf_offset + 3 * blksz,
         p.bf_offset + 2 * blksz < o + n, o + n <= Size,
         NEW d1, Written(d0, p, d1, p.bf_offset, blksz, 0),
         NEW p2 \in Pages, p2.bf_offset = p.bf_offset + blksz, p2.bf_modified = p.bf_modified,
         p2.bf_refcount = p.bf_refcount,
         \A i \in BufIndex : p2.bf_base[i] = IF i < p.bf_cnt - blksz THEN p.bf_base[i + blksz]
                                             ELSE p.bf_base[i],
         NEW nread \in 0 .. Found(d1, p2.bf_offset + blksz, blksz),
         Faults = {} => nread = Found(d1, p2.bf_offset + blksz, blksz),
         NEW q, UpperLoaded(d1, p2, q, nread),
         NEW d \in Disks, d.data = d1.data, d.size = d1.size, d.fd = q.pos
  PROVE  Covers(d0, p, d, q, o, n)
<1>1. /\ p.bf_offset \in Addr /\ p.bf_offset \in Nat /\ p.bf_cnt \in Nat /\ p.bf_cnt <= 2 * blksz
      /\ p.bf_modified \in BOOLEAN /\ blksz \in Nat /\ blksz >= 1 /\ Size \in Nat
      /\ p.bf_offset % blksz = 0
  BY PageFields DEF Paged, Addr
<1>2. d0.size \in Nat /\ d1.size \in Nat /\ d1.size <= Size /\ d0.size <= d1.size
  BY <1>1 DEF Disks, Written
<1>3. /\ nread \in Nat /\ nread <= blksz
      /\ nread = 0 \/ p.bf_offset + 2 * blksz + nread <= d1.size
      /\ Faults = {} => nread = blksz \/ p.bf_offset + 2 * blksz + nread >= d1.size
  BY <1>1, <1>2 DEF Found, MinOf, MaxOf
<1>4. /\ q \in Pages /\ q.bf_offset = p.bf_offset + blksz /\ q.bf_extent = 2 * blksz
      /\ q.bf_cnt = nread + blksz /\ q.bf_modified = p.bf_modified
      /\ q.bf_refcount = p.bf_refcount
  BY DEF UpperLoaded
<1>5. Turned(d0, p, d, q)
  <2>1. p.bf_offset + nread + 2 * blksz <= Size
    BY <1>1, <1>2, <1>3
  <2>2. (p.bf_offset + blksz) % blksz = 0
    BY <1>1, BlockBeside
  <2>3. Paged(q)
    BY <1>1, <1>3, <1>4, <2>1, <2>2 DEF Paged, OFF_NONE
  <2>4. q.bf_offset \in Addr
    BY <1>1, <1>4, <2>1, <1>3 DEF Addr
  <2> QED
    BY <1>1, <1>4, <2>3, <2>4 DEF Turned, Written
<1>6. ASSUME NEW a \in Addr, NEW v \in Bytes, Safe(d0, p, a, v)
      PROVE  /\ OnDisk(d0, a, v) => OnDisk(d, a, v)
             /\ Shown(p, a) /\ a < p.bf_offset + blksz => OnDisk(d, a, v)
  <2>1. a \in Nat
    BY DEF Addr
  <2>2. CASE ~p.bf_modified
    BY <1>2, <1>6, <2>2 DEF OnDisk, Written, Safe
  <2>3. CASE p.bf_modified
    <3>1. CASE p.bf_offset <= a /\ a < p.bf_offset + blksz
      <4>1. Shown(p, a)
        BY <1>1, <1>6, <2>1, <3>1 DEF Safe, Held, Covered
      <4>2. p.bf_base[a - p.bf_offset] = v
        BY <1>6, <4>1 DEF Safe, Held
      <4>3. d1.data[a] = p.bf_base[a - p.bf_offset + 0]
        BY <1>1, <2>1, <2>3, <3>1 DEF Written
      <4>4. a - p.bf_offset + 0 = a - p.bf_offset
        BY <1>1, <2>1
      <4>5. a < d1.size
        BY <1>1, <1>2, <2>1, <2>3, <3>1 DEF Written, MaxOf
      <4> QED
        BY <4>2, <4>3, <4>4, <4>5 DEF OnDisk
    <3>2. CASE ~(p.bf_offset <= a /\ a < p.bf_offset + blksz)
      <4>1. d1.data[a] = d0.data[a]
        BY <1>1, <2>1, <2>3, <3>2 DEF Written
      <4> QED
        BY <1>1, <1>2, <2>1, <3>2, <4>1 DEF OnDisk, Shown
    <3> QED
      BY <3>1, <3>2
  <2> QED
    BY <1>1, <2>2, <2>3
<1>7. ASSUME Faults = {}, NEW a \in Addr, NEW v \in Bytes, Safe(d0, p, a, v)
      PROVE  Safe(d, q, a, v)
  <2>1. a \in Nat
    BY DEF Addr
  <2>2. CASE Shown(p, a) /\ a < p.bf_offset + blksz
    <3>1. ~Shown(q, a) /\ ~Covered(q, a)
      BY <1>1, <1>4, <2>1, <2>2 DEF Shown, Covered
    <3> QED
      BY <1>6, <1>7, <2>2, <3>1 DEF Safe, Held
  <2>3. CASE Shown(p, a) /\ ~(a < p.bf_offset + blksz)
    <3>1. PICK i \in BufIndex : i = a - q.bf_offset
      BY <1>1, <1>4, <2>1, <2>3 DEF Shown, BufIndex
    <3>2. i < p.bf_cnt - blksz /\ i < blksz /\ i + blksz = a - p.bf_offset
      BY <1>1, <1>4, <2>1, <2>3, <3>1 DEF Shown
    <3>3. q.bf_base[i] = p.bf_base[a - p.bf_offset]
      BY <3>1, <3>2 DEF UpperLoaded
    <3>4. Shown(q, a)
      BY <1>1, <1>3, <1>4, <2>1, <3>1, <3>2 DEF Shown, OFF_NONE, BufIndex
    <3>5. p.bf_base[a - p.bf_offset] = v /\ (~p.bf_modified => OnDisk(d0, a, v))
      BY <1>7, <2>3 DEF Safe, Held
    <3> QED
      BY <1>4, <1>6, <1>7, <3>1, <3>3, <3>4, <3>5 DEF Safe, Held
  <2>4. CASE ~Shown(p, a)
    <3>1. ~Covered(p, a) /\ OnDisk(d0, a, v)
      BY <1>7, <2>4 DEF Safe, Held
    <3>2. OnDisk(d, a, v)
      BY <1>6, <1>7, <3>1
    <3>3. CASE p.bf_offset + 2 * blksz <= a /\ a < p.bf_offset + 3 * blksz
      <4>1. a < p.bf_offset + 2 * blksz + nread
        BY <1>1, <1>2, <1>3, <1>7, <2>1, <3>2, <3>3 DEF OnDisk
      <4>2. Shown(q, a)
        BY <1>1, <1>3, <1>4, <2>1, <3>3, <4>1 DEF Shown, OFF_NONE
      <4>3. PICK i \in BufIndex : i = a - q.bf_offset
        BY <1>1, <1>4, <2>1, <3>3 DEF BufIndex
      <4>4. i >= blksz /\ i - blksz < nread /\ p2.bf_offset + i = a
        BY <1>1, <1>3, <1>4, <2>1, <3>3, <4>1, <4>3
      <4>5. q.bf_base[i] = d1.data[a]
        BY <1>1, <1>3, <4>4, <4>3 DEF UpperLoaded
      <4> QED
        BY <1>4, <3>1, <3>2, <4>2, <4>3, <4>5 DEF Safe, Held, OnDisk
    <3>4. CASE ~(p.bf_offset + 2 * blksz <= a /\ a < p.bf_offset + 3 * blksz)
      <4>1. ~Covered(q, a) /\ ~Shown(q, a)
        BY <1>1, <1>3, <1>4, <2>1, <3>1, <3>4 DEF Covered, Shown
      <4> QED
        BY <3>2, <4>1 DEF Safe, Held
    <3> QED
      BY <3>3, <3>4
  <2> QED
    BY <2>2, <2>3, <2>4
<1>8. Faults = {} => Keeps(d0, p, d, q)
  BY <1>6, <1>7 DEF Keeps
<1>9. KeepsBelow(d0, p, d, q, o + n)
  BY <1>1 DEF KeepsBelow
<1>10. q.bf_offset <= o /\ o + n <= q.bf_offset + q.bf_extent
  BY <1>1, <1>4
<1> QED
  BY <1>5, <1>8, <1>9, <1>10 DEF Covers

(* px_get when the lower block becomes the upper one: the upper one has    *)
(* been written out.                                                       *)
LEMMA DownCovers ==
  ASSUME NEW d0 \in Disks, NEW p, Paged(p), p.bf_offset # OFF_NONE, p.bf_cnt # 0,
         p.bf_offset >= blksz,
         NEW o \in Nat, NEW n \in Nat, p.bf_offset - blksz <= o,
         o + n <= p.bf_offset + blksz, o + n <= Size,
         NEW d1 \in Disks,
         IF p.bf_cnt > blksz
         THEN Written(d0, p, d1, p.bf_offset + blksz, p.bf_cnt - blksz, blksz)
         ELSE d1.data = d0.data /\ d1.size = d0.size,
         NEW nread \in 0 .. Found(d1, p.bf_offset - blksz, blksz),
         Faults = {} => nread = Found(d1, p.bf_offset - blksz, blksz),
         NEW q \in Pages, q.bf_offset = p.bf_offset - blksz, q.bf_extent = 2 * blksz,
         q.bf_cnt = blksz + MinOf(p.bf_cnt, blksz),
         q.bf_modified = p.bf_modified, q.bf_refcount = p.bf_refcount,
         \A i \in BufIndex :
           q.bf_base[i] = IF i \notin 0 .. blksz - 1 THEN p.bf_base[i - blksz]
                          ELSE IF i < nread THEN d1.data[p.bf_offset - blksz + i]
                          ELSE Zero,
         NEW d \in Disks, d.data = d1.data, d.size = d1.size, d.fd = q.pos
  PROVE  Covers(d0, p, d, q, o, n)
<1>1. /\ p.bf_offset \in Addr /\ p.bf_offset \in Nat /\ p.bf_cnt \in Nat /\ p.bf_cnt <= 2 * blksz
      /\ p.bf_modified \in BOOLEAN /\ blksz \in Nat /\ blksz >= 1 /\ Size \in Nat
      /\ p.bf_offset % blksz = 0 /\ p.bf_extent \in {blksz, 2 * blksz} /\ p.bf_cnt <= p.bf_extent
      /\ p.bf_offset + p.bf_cnt <= Size
  BY PageFields DEF Paged, Addr
<1>2. d0.size \in Nat /\ d1.size \in Nat /\ d1.size <= Size /\ d0.size <= d1.size
  BY <1>1 DEF Disks, Written
<1>3. /\ nread \in Nat /\ nread <= blksz
      /\ Faults = {} => nread = blksz \/ p.bf_offset - blksz + nread >= d1.size
  BY <1>1, <1>2 DEF Found, MinOf, MaxOf
<1>4. PICK u \in Nat : /\ u = MinOf(p.bf_cnt, blksz) /\ u > 0 /\ u <= blksz /\ u <= p.bf_cnt
                       /\ q.bf_cnt = blksz + u /\ (p.bf_cnt <= blksz => u = p.bf_cnt)
                       /\ (p.bf_cnt > blksz => u = blksz)
  BY <1>1 DEF MinOf
<1>5. Turned(d0, p, d, q)
  <2>1. p.bf_offset - blksz + (blksz + u) <= Size
    BY <1>1, <1>4
  <2>2. p.bf_offset - blksz \in Nat /\ (p.bf_offset - blksz) % blksz = 0
    BY <1>1, BlockBeside
  <2>3. Paged(q)
    BY <1>1, <1>4, <2>1, <2>2 DEF Paged, OFF_NONE
  <2>4. q.bf_offset \in Addr
    BY <1>1, <2>2 DEF Addr
  <2> QED
    BY <1>1, <2>3, <2>4 DEF Turned, Written
<1>6. ASSUME NEW a \in Addr, NEW v \in Bytes, Safe(d0, p, a, v)
      PROVE  /\ OnDisk(d0, a, v) => OnDisk(d, a, v)
             /\ Shown(p, a) /\ a >= p.bf_offset + blksz => OnDisk(d, a, v)
  <2>1. a \in Nat
    BY DEF Addr
  <2>2. CASE ~p.bf_modified \/ ~(p.bf_cnt > blksz)
    BY <1>1, <1>2, <1>6, <2>1, <2>2 DEF OnDisk, Written, Safe, Shown
  <2>3. CASE p.bf_modified /\ p.bf_cnt > blksz
    <3>1. CASE p.bf_offset + blksz <= a /\ a < p.bf_offset + p.bf_cnt
      <4>1. Shown(p, a)
        BY <1>1, <2>1, <3>1 DEF Shown
      <4>2. p.bf_base[a - p.bf_offset] = v
        BY <1>6, <4>1 DEF Safe, Held
      <4>3. PICK f \in Nat : f = p.bf_offset + blksz
        BY <1>1
      <4>4. PICK k \in Nat : k = p.bf_cnt - blksz /\ k > 0
        BY <1>1, <2>3
      <4>5. d1.data[a] = p.bf_base[a - f + blksz] /\ d1.size = MaxOf(d0.size, f + k)
        BY <1>1, <2>1, <2>3, <3>1, <4>3, <4>4 DEF Written
      <4>6. a - f + blksz = a - p.bf_offset
        BY <1>1, <2>1, <4>3
      <4>7. a < d1.size
        BY <1>1, <1>2, <2>1, <3>1, <4>3, <4>4, <4>5 DEF MaxOf
      <4> QED
        BY <4>2, <4>5, <4>6, <4>7 DEF OnDisk
    <3>2. CASE ~(p.bf_offset + blksz <= a /\ a < p.bf_offset + p.bf_cnt)
      <4>1. d1.data[a] = d0.data[a]
        BY <1>1, <2>1, <2>3, <3>2 DEF Written
      <4> QED
        BY <1>1, <1>2, <2>1, <3>2, <4>1 DEF OnDisk, Shown
    <3> QED
      BY <3>1, <3>2
  <2> QED
    BY <1>1, <2>2, <2>3
<1>7. ASSUME Faults = {}, NEW a \in Addr, NEW v \in Bytes, Held(d0, p, a, v),
             ~(Shown(p, a) /\ a < p.bf_offset + blksz) => OnDisk(d, a, v)
      PROVE  Held(d, q, a, v)
  <2>1. a \in Nat
    BY DEF Addr
  <2>2. CASE Shown(p, a) /\ a < p.bf_offset + blksz
    <3>1. PICK i \in BufIndex : i = a - q.bf_offset
      BY <1>1, <2>1, <2>2 DEF Shown, BufIndex
    <3>2. i \notin 0 .. blksz - 1 /\ i - blksz = a - p.bf_offset
      BY <1>1, <2>1, <2>2, <3>1 DEF Shown
    <3>3. q.bf_base[i] = p.bf_base[a - p.bf_offset]
      BY <3>1, <3>2
    <3>4. Shown(q, a)
      BY <1>1, <1>4, <2>1, <2>2 DEF Shown, OFF_NONE
    <3> QED
      BY <1>7, <2>2, <3>1, <3>3, <3>4 DEF Held
  <2>3. CASE Shown(p, a) /\ ~(a < p.bf_offset + blksz)
    <3>1. ~Shown(q, a) /\ ~Covered(q, a)
      BY <1>1, <1>4, <2>1, <2>3 DEF Shown, Covered
    <3> QED
      BY <1>7, <2>3, <3>1 DEF Held
  <2>4. CASE ~Shown(p, a)
    <3>1. ~Covered(p, a) /\ OnDisk(d, a, v)
      BY <1>7, <2>4 DEF Held
    <3>2. CASE p.bf_offset - blksz <= a /\ a < p.bf_offset
      <4>1. a < p.bf_offset - blksz + nread
        BY <1>1, <1>2, <1>3, <1>7, <2>1, <3>1, <3>2 DEF OnDisk
      <4>2. Shown(q, a)
        BY <1>1, <1>4, <2>1, <3>2 DEF Shown, OFF_NONE
      <4>3. PICK i \in BufIndex : i = a - q.bf_offset
        BY <1>1, <2>1, <3>2 DEF BufIndex
      <4>4. i \in 0 .. blksz - 1 /\ i < nread /\ p.bf_offset - blksz + i = a
        BY <1>1, <1>3, <2>1, <3>2, <4>1, <4>3
      <4>5. q.bf_base[i] = d1.data[a]
        BY <4>4, <4>3
      <4> QED
        BY <3>1, <4>2, <4>3, <4>5 DEF Held, OnDisk
    <3>3. CASE ~(p.bf_offset - blksz <= a /\ a < p.bf_offset)
      <4>1. ~Covered(q, a) /\ ~Shown(q, a)
        BY <1>1, <1>4, <2>1, <3>1, <3>3 DEF Covered, Shown
      <4> QED
        BY <3>1, <4>1 DEF Held
    <3> QED
      BY <3>2, <3>3
  <2> QED
    BY <2>2, <2>3, <2>4
<1>8. ASSUME Faults = {}, NEW a \in Addr, NEW v \in Bytes, Safe(d0, p, a, v)
      PROVE  Safe(d, q, a, v)
  <2>1. a \in Nat
    BY DEF Addr
  <2>2. ~(Shown(p, a) /\ a < p.bf_offset + blksz) => OnDisk(d, a, v)
    BY <1>1, <1>6, <1>8, <2>1 DEF Safe, Held
  <2>3. Held(d, q, a, v)
    BY <1>7, <1>8, <2>2 DEF Safe
  <2>4. ~p.bf_modified => OnDisk(d, a, v)
    BY <1>6, <1>8, <2>2 DEF Safe
  <2> QED
    BY <2>3, <2>4 DEF Safe
<1>9. Faults = {} => Keeps(d0, p, d, q)
  BY <1>6, <1>8 DEF Keeps
<1>10. Faults = {} => KeepsBelow(d0, p, d, q, o + n)
  <2>1. SUFFICES ASSUME Faults = {}, ~p.bf_modified, NEW a \in Addr, NEW v \in Bytes,
                        a < o + n, Held(d0, p, a, v)
                 PROVE  Held(d, q, a, v)
    BY DEF KeepsBelow
  <2>2. a \in Nat /\ a < p.bf_offset + blksz
    BY <1>1, <2>1 DEF Addr
  <2>3. ~Shown(p, a) => OnDisk(d0, a, v)
    BY <2>1 DEF Held
  <2>4. d.data = d0.data /\ d.size = d0.size
    BY <1>1, <2>1 DEF Written
  <2> QED
    BY <1>7, <2>1, <2>2, <2>3, <2>4 DEF OnDisk
<1>11. q.bf_offset <= o /\ o + n <= q.bf_offset + q.bf_extent
  BY <1>1
<1> QED
  BY <1>5, <1>9, <1>10, <1>11 DEF Covers

(* px_get when neither block is asked for: the whole buffer has been       *)
(* written out.                                                            *)
LEMMA ReplaceCovers ==
  ASSUME NEW d0 \in Disks, NEW p, Paged(p),
         NEW o \in Nat, NEW n \in Nat, NEW b \in Addr, NEW extent \in {blksz, 2 * blksz},
         b % blksz = 0, b <= o, o + n <= b + extent, o + n <= Size,
         p.bf_offset # OFF_NONE /\ o + n <= p.bf_offset + p.bf_cnt => o + n <= p.bf_offset,
         NEW d1 \in Disks,
         IF p.bf_offset # OFF_NONE THEN Written(d0, p, d1, p.bf_offset, p.bf_cnt, 0)
         ELSE d1.data = d0.data /\ d1.size = d0.size,
         NEW nread \in 0 .. Found(d1, b, extent),
         Faults = {} => nread = Found(d1, b, extent),
         NEW q \in Pages, q.bf_offset = b, q.bf_extent = extent, q.bf_cnt = nread,
         ~q.bf_modified, q.bf_refcount = p.bf_refcount,
         \A i \in BufIndex :
           q.bf_base[i] = IF i \notin 0 .. extent - 1 THEN p.bf_base[i]
                          ELSE IF i < nread THEN d1.data[b + i]
                          ELSE Zero,
         NEW d \in Disks, d.data = d1.data, d.size = d1.size, d.fd = q.pos
  PROVE  Covers(d0, p, d, q, o, n)
<1>1. /\ p.bf_offset # OFF_NONE => p.bf_offset \in Addr /\ p.bf_offset \in Nat
      /\ p.bf_cnt \in Nat /\ p.bf_cnt <= 2 * blksz
      /\ p.bf_modified \in BOOLEAN /\ blksz \in Nat /\ blksz >= 1 /\ Size \in Nat
      /\ b \in Nat /\ extent \in Nat /\ extent <= 2 * blksz /\ extent # 0
      /\ p.bf_modified => p.bf_offset # OFF_NONE
  BY PageFields DEF Paged, Addr
<1>2. d0.size \in Nat /\ d1.size \in Nat /\ d1.size <= Size /\ d0.size <= d1.size
  BY <1>1 DEF Disks, Written
<1>3. /\ nread \in Nat /\ nread <= extent
      /\ nread = 0 \/ b + nread <= d1.size
      /\ Faults = {} => nread = extent \/ b + nread >= d1.size
  BY <1>1, <1>2 DEF Found, MinOf, MaxOf
<1>4. Turned(d0, p, d, q)
  <2>1. b + nread <= Size
    BY <1>1, <1>2, <1>3 DEF Addr
  <2>2. Paged(q)
    BY <1>1, <1>3, <2>1 DEF Paged
  <2>3. ~p.bf_modified => d1.data = d0.data /\ d1.size = d0.size
    BY DEF Written
  <2> QED
    BY <1>1, <2>2, <2>3 DEF Turned
<1>5. ASSUME NEW a \in Addr, NEW v \in Bytes, Safe(d0, p, a, v)
      PROVE  OnDisk(d, a, v)
  <2>1. a \in Nat
    BY DEF Addr
  <2>2. CASE ~p.bf_modified
    BY <1>1, <1>2, <1>5, <2>1, <2>2 DEF OnDisk, Written, Safe, Held
  <2>3. CASE p.bf_modified
    <3>1. CASE Shown(p, a)
      <4>1. p.bf_base[a - p.bf_offset] = v
        BY <1>5, <3>1 DEF Safe, Held
      <4>2. a \in p.bf_offset .. p.bf_offset + p.bf_cnt - 1 /\ p.bf_cnt > 0
        BY <1>1, <2>1, <2>3, <3>1 DEF Shown
      <4>3. /\ d1.data[a] = p.bf_base[a - p.bf_offset + 0]
            /\ d1.size = MaxOf(d0.size, p.bf_offset + p.bf_cnt)
        BY <1>1, <2>3, <4>2 DEF Written
      <4>4. a - p.bf_offset + 0 = a - p.bf_offset
        BY <1>1, <2>1, <2>3
      <4>5. a < d1.size
        BY <1>1, <1>2, <2>1, <2>3, <4>2, <4>3 DEF MaxOf
      <4> QED
        BY <4>1, <4>3, <4>4, <4>5 DEF OnDisk
    <3>2. CASE ~Shown(p, a)
      <4>1. OnDisk(d0, a, v)
        BY <1>5, <3>2 DEF Safe, Held
      <4>2. a \notin p.bf_offset .. p.bf_offset + p.bf_cnt - 1
        BY <1>1, <2>1, <2>3, <3>2 DEF Shown
      <4>3. d1.data[a] = d0.data[a]
        BY <1>1, <2>3, <4>2 DEF Written
      <4> QED
        BY <1>2, <2>1, <4>1, <4>3 DEF OnDisk
    <3> QED
      BY <3>1, <3>2
  <2> QED
    BY <1>1, <2>2, <2>3
<1>6. ASSUME Faults = {}, NEW a \in Addr, NEW v \in Bytes, OnDisk(d, a, v)
      PROVE  Held(d, q, a, v)
  <2>1. a \in Nat
    BY DEF Addr
  <2>2. CASE b <= a /\ a < b + extent
    <3>1. a < b + nread
      BY <1>1, <1>2, <1>3, <1>6, <2>1, <2>2 DEF OnDisk
    <3>2. Shown(q, a)
      BY <1>1, <2>1, <2>2, <3>1 DEF Shown, OFF_NONE
    <3>3. PICK i \in BufIndex : i = a - b
      BY <1>1, <2>1, <2>2 DEF BufIndex
    <3>4. i \in 0 .. extent - 1 /\ i < nread /\ b + i = a
      BY <1>1, <1>3, <2>1, <2>2, <3>1, <3>3
    <3>5. q.bf_base[i] = d1.data[a]
      BY <3>3, <3>4
    <3> QED
      BY <1>6, <3>2, <3>3, <3>5 DEF Held, OnDisk
  <2>3. CASE ~(b <= a /\ a < b + extent)
    <3>1. ~Covered(q, a) /\ ~Shown(q, a)
      BY <1>1, <1>3, <2>1, <2>3 DEF Covered, Shown
    <3> QED
      BY <1>6, <3>1 DEF Held
  <2> QED
    BY <2>2, <2>3
<1>7. Faults = {} => Keeps(d0, p, d, q)
  BY <1>5, <1>6 DEF Keeps, Safe
<1>8. Faults = {} => KeepsBelow(d0, p, d, q, o + n)
  <2>1. SUFFICES ASSUME Faults = {}, ~p.bf_modified, p.bf_offset # OFF_NONE,
                        o + n <= p.bf_offset + p.bf_cnt,
                        NEW a \in Addr, NEW v \in Bytes, a < o + n, Held(d0, p, a, v)
                 PROVE  Held(d, q, a, v)
    BY DEF KeepsBelow
  <2>2. ~Shown(p, a)
    BY <1>1, <2>1 DEF Addr, Shown
  <2>3. OnDisk(d0, a, v)
    BY <2>1, <2>2 DEF Held
  <2>4. d.data = d0.data /\ d.size = d0.size
    BY <1>1, <2>1 DEF Written
  <2> QED
    BY <1>6, <2>1, <2>3, <2>4 DEF OnDisk
<1> QED
  BY <1>4, <1>7, <1>8 DEF Covers

-----------------------------------------------------------------------------
(* A buffer that px_get may be called with: nobody holds it, and the       *)
(* descriptor is where it says.                                            *)
Ready(s, w) ==
  /\ s \in States /\ s.st = "ok" /\ Paged(s.px[w])
  /\ s.px[w].pos = s.disk.fd /\ s.px[w].bf_refcount = 0
  /\ s.px[w].bf_cnt = 0 => s.px[w].bf_offset \in {OFF_NONE, 0}

(* A way through px_get ends with room for the request and nothing lost.   *)
Outcome(s, w, t, o, n) ==
  \E d, q : t = With(s, w, d, q) /\ Covers(s.disk, s.px[w], d, q, o, n)

(* The code of the case ExtendCovers.                                      *)
LEMMA ExtendOutcome ==
  ASSUME Faults \subseteq {"short_read"}, NEW s, NEW w \in Buffers, Ready(s, w),
         s.px[w].bf_offset # OFF_NONE, s.px[w].bf_extent = blksz,
         NEW o \in Nat, NEW n \in Nat, s.px[w].bf_offset <= o, o + n <= s.px[w].bf_offset + 2 * blksz,
         s.px[w].bf_offset + blksz < o + n, o + n <= Size,
         NEW t \in PageInUpper(s, w)
  PROVE  Outcome(s, w, t, o, n) /\ t.px[w].bf_offset = s.px[w].bf_offset
<1>1. PICK p \in Pages : p = s.px[w] /\ Paged(p)
  BY DEF Ready, Paged
<1>2. PICK d0 \in Disks : d0 = s.disk
  BY DEF Ready, States
<1>3. p.bf_offset \in Nat
  BY <1>1, PageFields DEF Addr
<1>4. PICK nread, q :
        /\ nread \in 0 .. Found(d0, p.bf_offset + blksz, blksz)
        /\ t = With(s, w, [d0 EXCEPT !.fd = p.bf_offset + blksz + nread], q)
        /\ UpperLoaded(d0, p, q, nread)
        /\ Faults = {} => nread = Found(d0, p.bf_offset + blksz, blksz)
  BY <1>1, <1>2, <1>3, PageInUpperIs DEF Ready
<1>5. PICK d : d = [d0 EXCEPT !.fd = p.bf_offset + blksz + nread]
  OBVIOUS
<1>6. nread \in Nat /\ blksz \in Nat
  BY <1>3, <1>4, PageFields, BlockAssumption, BoundAssumption DEF Found, MinOf, MaxOf, Disks
<1>7. q.pos = p.bf_offset + blksz + nread /\ q.pos \in Nat
  BY <1>3, <1>4, <1>6 DEF UpperLoaded
<1>8. d \in Disks /\ d.data = d0.data /\ d.size = d0.size /\ d.fd = q.pos
  BY <1>5, <1>7 DEF Disks
<1>9. Covers(d0, p, d, q, o, n)
  BY <1>1, <1>2, <1>4, <1>8, ExtendCovers
<1>10. t.px[w] = q /\ q.bf_offset = p.bf_offset
  BY <1>4, WithIs DEF Ready, UpperLoaded
<1> QED
  BY <1>1, <1>2, <1>4, <1>5, <1>9, <1>10 DEF Outcome

(* The code of the case UpCovers: flush, shift, read.                      *)
LEMMA UpOutcome ==
  ASSUME Faults \subseteq {"short_read"}, NEW s, NEW w \in Buffers, Ready(s, w),
         s.px[w].bf_offset # OFF_NONE, s.px[w].bf_extent = 2 * blksz,
         NEW o \in Nat, NEW n \in Nat, s.px[w].bf_offset + blksz <= o,
         o + n <= s.px[w].bf_offset + 3 * blksz,
         s.px[w].bf_offset + 2 * blksz < o + n, o + n <= Size,
         NEW t \in ShiftUp(s, w)
  PROVE  Outcome(s, w, t, o, n) /\ t.px[w].bf_offset = s.px[w].bf_offset + blksz
<1>1. PICK p \in Pages : p = s.px[w] /\ Paged(p)
  BY DEF Ready, Paged
<1>2. PICK d0 \in Disks : d0 = s.disk
  BY DEF Ready, States
<1>3. /\ p.bf_offset \in Nat /\ blksz \in Nat /\ blksz >= 1 /\ p.bf_cnt \in Nat
      /\ p.bf_cnt <= 2 * blksz /\ Size \in Nat /\ p.bf_offset + 2 * blksz < Size
      /\ s \in States
  BY <1>1, PageFields DEF Addr, Ready
<1>4. PICK t1, t2 :
        /\ t1 \in Flush(s, w, p.bf_offset, blksz, 0)
        /\ IF t1.st = "ok"
           THEN t2 = Page(t1, w, [t1.px[w] EXCEPT
                  !.bf_offset = @ + blksz,
                  !.bf_cnt = IF @ > blksz THEN @ - blksz ELSE @,
                  !.bf_base = [i \in BufIndex |-> IF i < p.bf_cnt - blksz
                                                  THEN p.bf_base[i + blksz]
                                                  ELSE p.bf_base[i]]])
           ELSE t2 = t1
        /\ IF t2.st = "ok" THEN t \in PageInUpper(t2, w) ELSE t = t2
  <2>1. PICK t1 \in Flush(s, w, p.bf_offset, blksz, 0) : \E t2 :
          /\ IF t1.st = "ok"
             THEN t2 = Page(t1, w, [t1.px[w] EXCEPT
                    !.bf_offset = @ + blksz,
                    !.bf_cnt = IF @ > blksz THEN @ - blksz ELSE @,
                    !.bf_base = [i \in BufIndex |-> IF i < p.bf_cnt - blksz
                                                    THEN p.bf_base[i + blksz]
                                                    ELSE p.bf_base[i]]])
             ELSE t2 = t1
          /\ IF t2.st = "ok" THEN t \in PageInUpper(t2, w) ELSE t = t2
    BY <1>1 DEF ShiftUp, Then
  <2> QED
    BY <2>1
<1>5. PICK d1, p1 : /\ t1 = With(s, w, d1, p1) /\ Same(p, p1) /\ p1.pos = d1.fd
                    /\ Written(d0, p, d1, p.bf_offset, blksz, 0)
  <2>1. p.bf_offset + blksz <= Size /\ 0 + blksz <= 2 * blksz
    BY <1>3
  <2> QED
    BY <1>1, <1>2, <1>3, <1>4, <2>1, FlushIs DEF Ready
<1>6. PICK b : b = [i \in BufIndex |-> IF i < p.bf_cnt - blksz THEN p.bf_base[i + blksz]
                                       ELSE p.bf_base[i]]
  OBVIOUS
<1>7. b \in [BufIndex -> Bytes]
  <2>1. ASSUME NEW i \in BufIndex
        PROVE  b[i] \in Bytes
    <3>1. i < p.bf_cnt - blksz => i + blksz \in BufIndex
      BY <1>3 DEF BufIndex
    <3> QED
      BY <1>6, <3>1, PageFields
  <2> QED
    BY <1>6, <2>1
<1>8. t1.st = "ok" /\ t1.px[w] = p1 /\ \A x : Page(t1, w, x) = With(s, w, d1, x)
  <2>1. t1.st = "ok" /\ t1.px[w] = p1
    BY <1>3, <1>5, WithIs DEF Ready
  <2>2. \A x : Page(t1, w, x) = With(s, w, d1, x)
    BY <1>3, <1>5, WithAgain
  <2> QED
    BY <2>1, <2>2
<1>9. PICK p2 : p2 = [p1 EXCEPT !.bf_offset = @ + blksz,
                                !.bf_cnt = IF @ > blksz THEN @ - blksz ELSE @,
                                !.bf_base = b]
  OBVIOUS
<1>10. t2 = With(s, w, d1, p2)
  BY <1>4, <1>6, <1>8, <1>9
<1>11. /\ p2.bf_offset = p.bf_offset + blksz /\ p2.bf_modified = p.bf_modified
       /\ p2.bf_refcount = p.bf_refcount /\ p2.bf_base = b /\ p2.pos = p1.pos
       /\ p2.bf_cnt = (IF p.bf_cnt > blksz THEN p.bf_cnt - blksz ELSE p.bf_cnt)
       /\ p2.bf_write = p.bf_write /\ p2.bf_extent = p.bf_extent
       /\ p2 = [bf_offset |-> p2.bf_offset, bf_extent |-> p2.bf_extent, bf_cnt |-> p2.bf_cnt,
               bf_base |-> p2.bf_base, bf_write |-> p2.bf_write, bf_modified |-> p2.bf_modified,
               bf_refcount |-> p2.bf_refcount, pos |-> p2.pos]
  BY <1>5, <1>9 DEF Pages, Same
<1>12. p2 \in Pages
  <2>1. p2.bf_offset \in Addr /\ p2.bf_cnt \in 0 .. 2 * blksz
    BY <1>3, <1>11 DEF Addr
  <2>2. p1.pos \in Nat
    BY <1>5 DEF Same, Pages
  <2> QED
    BY <1>7, <1>11, <2>1, <2>2 DEF Pages
<1>13. d1 \in Disks
  BY <1>5 DEF Written
<1>14. t2 \in States /\ t2.st = "ok" /\ t2.disk = d1 /\ t2.px[w] = p2
  BY <1>3, <1>10, <1>12, <1>13, WithIs DEF Ready
<1>15. p2.bf_offset \in Nat /\ p2.pos = d1.fd
  BY <1>3, <1>5, <1>11
<1>16. PICK nread, q :
         /\ nread \in 0 .. Found(d1, p2.bf_offset + blksz, blksz)
         /\ t = With(t2, w, [d1 EXCEPT !.fd = p2.bf_offset + blksz + nread], q)
         /\ UpperLoaded(d1, p2, q, nread)
         /\ Faults = {} => nread = Found(d1, p2.bf_offset + blksz, blksz)
  BY <1>4, <1>12, <1>14, <1>15, PageInUpperIs
<1>17. PICK d : d = [d1 EXCEPT !.fd = p2.bf_offset + blksz + nread]
  OBVIOUS
<1>18. nread \in Nat
  BY <1>3, <1>13, <1>15, <1>16, BoundAssumption DEF Found, MinOf, MaxOf, Disks
<1>19. q.pos = p2.bf_offset + blksz + nread /\ q.pos \in Nat
  BY <1>3, <1>15, <1>16, <1>18 DEF UpperLoaded
<1>20. d \in Disks /\ d.data = d1.data /\ d.size = d1.size /\ d.fd = q.pos
  BY <1>13, <1>17, <1>19 DEF Disks
<1>21. \A i \in BufIndex : p2.bf_base[i] = IF i < p.bf_cnt - blksz THEN p.bf_base[i + blksz]
                                           ELSE p.bf_base[i]
  BY <1>6, <1>11
<1>22. Covers(d0, p, d, q, o, n)
  BY <1>1, <1>2, <1>5, <1>11, <1>12, <1>16, <1>20, <1>21, UpCovers
<1>23. t = With(s, w, d, q)
  BY <1>3, <1>10, <1>16, <1>17, WithTwice
<1>24. t.px[w] = q /\ q.bf_offset = p2.bf_offset
  BY <1>3, <1>16, <1>23, WithIs DEF UpperLoaded
<1> QED
  BY <1>1, <1>2, <1>11, <1>22, <1>23, <1>24 DEF Outcome

(* A record that is given by its fields.                                   *)
Fields(p) ==
  [bf_offset |-> p.bf_offset, bf_extent |-> p.bf_extent, bf_cnt |-> p.bf_cnt,
   bf_base |-> p.bf_base, bf_write |-> p.bf_write, bf_modified |-> p.bf_modified,
   bf_refcount |-> p.bf_refcount, pos |-> p.pos]

(* The upper block is in the file before it is given up.                   *)
LEMMA DropUpperIs ==
  ASSUME Faults \subseteq {"short_read"}, NEW s, NEW w \in Buffers, Ready(s, w),
         s.px[w].bf_offset # OFF_NONE,
         NEW t \in DropUpper(s, w)
  PROVE  \E d \in Disks : \E q \in Pages :
           /\ t = With(s, w, d, q)
           /\ q.bf_offset = s.px[w].bf_offset /\ q.bf_modified = s.px[w].bf_modified
           /\ q.bf_refcount = s.px[w].bf_refcount /\ q.bf_base = s.px[w].bf_base /\ q.pos = d.fd
           /\ IF s.px[w].bf_cnt > blksz
              THEN Written(s.disk, s.px[w], d, s.px[w].bf_offset + blksz,
                           s.px[w].bf_cnt - blksz, blksz)
              ELSE d.data = s.disk.data /\ d.size = s.disk.size
<1>1. PICK p \in Pages : p = s.px[w] /\ Paged(p)
  BY DEF Ready, Paged
<1>2. PICK d0 \in Disks : d0 = s.disk
  BY DEF Ready, States
<1>3. /\ p.bf_offset \in Nat /\ blksz \in Nat /\ blksz >= 1 /\ p.bf_cnt \in Nat
      /\ p.bf_cnt <= 2 * blksz /\ Size \in Nat /\ p.bf_offset + p.bf_cnt <= Size
      /\ s \in States
  BY <1>1, PageFields DEF Addr, Ready, Paged
<1>4. CASE ~(p.bf_cnt > blksz)
  <2>1. t = s
    BY <1>1, <1>4 DEF DropUpper
  <2>2. t = With(s, w, d0, p)
    BY <1>1, <1>2, <1>3, <2>1, WithNothing
  <2> QED
    BY <1>1, <1>2, <1>4, <2>2 DEF Ready
<1>5. CASE p.bf_cnt > blksz
  <2>1. PICK f \in Nat : f = p.bf_offset + blksz
    BY <1>3
  <2>2. PICK k \in Nat : k = p.bf_cnt - blksz
    BY <1>3, <1>5
  <2>3. PICK t1 \in Flush(s, w, f, k, blksz) :
          IF t1.st = "ok"
          THEN t = Page(t1, w, [t1.px[w] EXCEPT !.bf_cnt = blksz, !.bf_extent = blksz])
          ELSE t = t1
    BY <1>1, <1>5, <2>1, <2>2 DEF DropUpper, Then
  <2>4. PICK d1, p1 : /\ t1 = With(s, w, d1, p1) /\ Same(p, p1) /\ p1.pos = d1.fd
                      /\ Written(d0, p, d1, f, k, blksz)
    <3>1. f + k <= Size /\ blksz + k <= 2 * blksz
      BY <1>3, <2>1, <2>2
    <3> QED
      BY <1>1, <1>2, <1>3, <2>3, <3>1, FlushIs DEF Ready
  <2>5. t1.st = "ok" /\ t1.px[w] = p1
    BY <1>3, <2>4, WithIs DEF Ready
  <2>6. \A x : Page(t1, w, x) = With(s, w, d1, x)
    BY <1>3, <2>4, WithAgain
  <2>7. PICK q : q = [p1 EXCEPT !.bf_cnt = blksz, !.bf_extent = blksz]
    OBVIOUS
  <2>8. t = With(s, w, d1, q)
    BY <2>3, <2>5, <2>6, <2>7
  <2>9. /\ q.bf_offset = p.bf_offset /\ q.bf_modified = p.bf_modified
        /\ q.bf_refcount = p.bf_refcount /\ q.bf_base = p.bf_base /\ q.pos = p1.pos
        /\ q.bf_cnt = blksz /\ q.bf_write = p.bf_write /\ q.bf_extent = blksz
        /\ q = Fields(q)
    BY <2>4, <2>7 DEF Pages, Same, Fields
  <2>10. q \in Pages
    <3>1. p1.pos \in Nat /\ blksz \in 0 .. 2 * blksz
      BY <1>3, <2>4 DEF Same, Pages
    <3> QED
      BY <2>9, <3>1 DEF Pages, Fields
  <2>11. d1 \in Disks
    BY <2>4 DEF Written
  <2> QED
    BY <1>1, <1>2, <1>5, <2>1, <2>2, <2>4, <2>8, <2>9, <2>10, <2>11
<1> QED
  BY <1>3, <1>4, <1>5

(* The code of the case DownCovers: drop the upper block, shift, read.     *)
LEMMA DownOutcome ==
  ASSUME Faults \subseteq {"short_read"}, NEW s, NEW w \in Buffers, Ready(s, w),
         s.px[w].bf_offset # OFF_NONE, s.px[w].bf_offset >= blksz,
         NEW o \in Nat, NEW n \in Nat, s.px[w].bf_offset - blksz <= o,
         o + n <= s.px[w].bf_offset + blksz, o + n <= Size,
         NEW t \in ShiftDown(s, w)
  PROVE  Outcome(s, w, t, o, n) /\ t.px[w].bf_offset = s.px[w].bf_offset - blksz
<1>1. PICK p \in Pages : p = s.px[w] /\ Paged(p)
  BY DEF Ready, Paged
<1>2. PICK d0 \in Disks : d0 = s.disk
  BY DEF Ready, States
<1>3. /\ p.bf_offset \in Nat /\ blksz \in Nat /\ blksz >= 1 /\ p.bf_cnt \in Nat
      /\ p.bf_cnt <= 2 * blksz /\ Size \in Nat /\ p.bf_offset + p.bf_cnt <= Size
      /\ s \in States /\ p.bf_cnt # 0 /\ p.bf_offset \in Addr
  BY <1>1, PageFields DEF Addr, Ready, Paged, OFF_NONE
<1>4. PICK u \in Nat : u = MinOf(p.bf_cnt, blksz) /\ u # 0 /\ u <= blksz
  BY <1>3 DEF MinOf
<1>5. PICK g \in Nat : g = p.bf_offset - blksz
  BY <1>1, <1>3
<1>6. PICK t1, t3 :
        /\ t1 \in DropUpper(s, w)
        /\ IF t1.st = "ok"
           THEN t3 \in px_pgin(Page(t1, w, [t1.px[w] EXCEPT !.bf_base = [i \in BufIndex |->
                        IF i \in Upper /\ MinOf(p.bf_cnt, blksz) # 0 THEN p.bf_base[i - blksz]
                        ELSE p.bf_base[i]]]), w, p.bf_offset - blksz, blksz, 0)
           ELSE t3 = t1
        /\ IF t3.st = "ok"
           THEN t = Page(t3, w, [t3.px[w] EXCEPT
                  !.bf_offset = p.bf_offset - blksz,
                  !.bf_extent = IF MinOf(p.bf_cnt, blksz) # 0 THEN 2 * blksz ELSE blksz,
                  !.bf_cnt    = IF MinOf(p.bf_cnt, blksz) # 0
                                THEN blksz + MinOf(p.bf_cnt, blksz) ELSE @])
           ELSE t = t3
  <2>1. t \in UNION {IF v.st = "ok"
                     THEN {Page(v, w, [v.px[w] EXCEPT
                       !.bf_offset = s.px[w].bf_offset - blksz,
                       !.bf_extent = IF MinOf(s.px[w].bf_cnt, blksz) # 0 THEN 2 * blksz ELSE blksz,
                       !.bf_cnt    = IF MinOf(s.px[w].bf_cnt, blksz) # 0
                                     THEN blksz + MinOf(s.px[w].bf_cnt, blksz)
                                     ELSE v.px[w].bf_cnt])}
                     ELSE {v} :
              v \in UNION {IF x.st = "ok"
                           THEN px_pgin(Page(x, w, [x.px[w] EXCEPT !.bf_base = [i \in BufIndex |->
                                  IF i \in Upper /\ MinOf(s.px[w].bf_cnt, blksz) # 0
                                  THEN s.px[w].bf_base[i - blksz] ELSE s.px[w].bf_base[i]]]),
                                  w, s.px[w].bf_offset - blksz, blksz, 0)
                           ELSE {x} : x \in DropUpper(s, w)}}
    BY ZenonT(60) DEF ShiftDown, Then
  <2>2. PICK v \in UNION {IF x.st = "ok"
                          THEN px_pgin(Page(x, w, [x.px[w] EXCEPT !.bf_base = [i \in BufIndex |->
                                 IF i \in Upper /\ MinOf(s.px[w].bf_cnt, blksz) # 0
                                 THEN s.px[w].bf_base[i - blksz] ELSE s.px[w].bf_base[i]]]),
                                 w, s.px[w].bf_offset - blksz, blksz, 0)
                          ELSE {x} : x \in DropUpper(s, w)} :
          IF v.st = "ok"
          THEN t \in {Page(v, w, [v.px[w] EXCEPT
                  !.bf_offset = s.px[w].bf_offset - blksz,
                  !.bf_extent = IF MinOf(s.px[w].bf_cnt, blksz) # 0 THEN 2 * blksz ELSE blksz,
                  !.bf_cnt    = IF MinOf(s.px[w].bf_cnt, blksz) # 0
                                THEN blksz + MinOf(s.px[w].bf_cnt, blksz) ELSE @])}
          ELSE t = v
    BY <2>1
  <2>3. PICK x \in DropUpper(s, w) :
          IF x.st = "ok"
          THEN v \in px_pgin(Page(x, w, [x.px[w] EXCEPT !.bf_base = [i \in BufIndex |->
                        IF i \in Upper /\ MinOf(s.px[w].bf_cnt, blksz) # 0
                        THEN s.px[w].bf_base[i - blksz] ELSE s.px[w].bf_base[i]]]),
                      w, s.px[w].bf_offset - blksz, blksz, 0)
          ELSE v = x
    BY <2>2
  <2> QED
    BY <1>1, <2>2, <2>3
<1>7. PICK d1 \in Disks, p1 \in Pages :
        /\ t1 = With(s, w, d1, p1)
        /\ p1.bf_offset = p.bf_offset /\ p1.bf_modified = p.bf_modified
        /\ p1.bf_refcount = p.bf_refcount /\ p1.bf_base = p.bf_base /\ p1.pos = d1.fd
        /\ IF p.bf_cnt > blksz
           THEN Written(d0, p, d1, p.bf_offset + blksz, p.bf_cnt - blksz, blksz)
           ELSE d1.data = d0.data /\ d1.size = d0.size
  BY <1>1, <1>2, <1>6, DropUpperIs
<1>8. t1.st = "ok" /\ t1.px[w] = p1
  BY <1>3, <1>7, WithIs DEF Ready
<1>9. \A x : Page(t1, w, x) = With(s, w, d1, x)
  BY <1>3, <1>7, WithAgain
<1>10. PICK b : b = [i \in BufIndex |-> IF i \in Upper THEN p.bf_base[i - blksz] ELSE p.bf_base[i]]
  OBVIOUS
<1>11. b \in [BufIndex -> Bytes]
  <2>1. ASSUME NEW i \in BufIndex
        PROVE  b[i] \in Bytes
    <3>1. i \in Upper => i - blksz \in BufIndex
      BY <1>3 DEF BufIndex, Upper
    <3> QED
      BY <1>10, <3>1, PageFields
  <2> QED
    BY <1>10, <2>1
<1>12. PICK p2 : p2 = [p1 EXCEPT !.bf_base = b]
  OBVIOUS
<1>13. PICK t2 : t2 = With(s, w, d1, p2) /\ t3 \in px_pgin(t2, w, g, blksz, 0)
  <2>1. b = [i \in BufIndex |-> IF i \in Upper /\ MinOf(p.bf_cnt, blksz) # 0
                               THEN p.bf_base[i - blksz] ELSE p.bf_base[i]]
    BY <1>4, <1>10
  <2>2. t3 \in px_pgin(Page(t1, w, p2), w, g, blksz, 0)
    BY <1>5, <1>6, <1>8, <1>12, <2>1
  <2> QED
    BY <1>9, <2>2
<1>14. /\ p2.bf_offset = p.bf_offset /\ p2.bf_modified = p.bf_modified
       /\ p2.bf_refcount = p.bf_refcount /\ p2.bf_base = b /\ p2.pos = d1.fd
       /\ p2 \in Pages
  BY <1>7, <1>11, <1>12 DEF Pages
<1>15. t2 \in States /\ t2.st = "ok" /\ t2.disk = d1 /\ t2.px[w] = p2
  BY <1>3, <1>13, <1>14, WithIs DEF Ready
<1>16. PICK nread \in 0 .. Found(d1, g, blksz) :
         /\ t3 = With(t2, w, [d1 EXCEPT !.fd = g + nread], Loaded(d1, p2, g, blksz, 0, nread))
         /\ Faults = {} => nread = Found(d1, g, blksz)
  <2>1. t2.px[w].pos = t2.disk.fd /\ blksz \in Nat
    BY <1>3, <1>14, <1>15
  <2>2. \E nread \in 0 .. Found(t2.disk, g, blksz) :
          /\ t3 = With(t2, w, [t2.disk EXCEPT !.fd = g + nread],
                       Loaded(t2.disk, t2.px[w], g, blksz, 0, nread))
          /\ Faults = {} => nread = Found(t2.disk, g, blksz)
    BY <1>5, <1>13, <1>15, <2>1, PginIs
  <2> QED
    BY <1>15, <2>2
<1>17. PICK d : d = [d1 EXCEPT !.fd = g + nread]
  OBVIOUS
<1>18. PICK p3 : p3 = Loaded(d1, p2, g, blksz, 0, nread)
  OBVIOUS
<1>19. /\ p3 \in Pages /\ p3.pos = g + nread
       /\ p3.bf_modified = p.bf_modified /\ p3.bf_refcount = p.bf_refcount
       /\ \A i \in BufIndex :
            p3.bf_base[i] = IF i \notin 0 .. 0 + blksz - 1 THEN p2.bf_base[i]
                            ELSE IF i - 0 < nread THEN d1.data[g + i - 0]
                            ELSE Zero
  <2>1. blksz \in {blksz, 2 * blksz} /\ 0 \in {0, blksz}
    OBVIOUS
  <2>2. p2 \in Pages /\ d1 \in Disks /\ g \in Nat /\ nread \in 0 .. Found(d1, g, blksz)
    BY <1>5, <1>7, <1>14, <1>16
  <2>3. LET q == Loaded(d1, p2, g, blksz, 0, nread) IN
         /\ q \in Pages
         /\ q.bf_cnt = nread /\ q.pos = g + nread
         /\ q.bf_offset = p2.bf_offset /\ q.bf_extent = p2.bf_extent /\ q.bf_write = p2.bf_write
         /\ q.bf_modified = p2.bf_modified /\ q.bf_refcount = p2.bf_refcount
         /\ \A i \in BufIndex :
              q.bf_base[i] = IF i \notin 0 .. 0 + blksz - 1 THEN p2.bf_base[i]
                             ELSE IF i - 0 < nread THEN d1.data[g + i - 0]
                             ELSE Zero
    BY <2>1, <2>2, LoadedIs
  <2> QED
    BY <1>14, <1>18, <2>3
<1>20. t3 = With(s, w, d, p3)
  BY <1>3, <1>13, <1>16, <1>17, <1>18, WithTwice
<1>21. t3.st = "ok" /\ t3.px[w] = p3
  BY <1>3, <1>20, WithIs DEF Ready
<1>22. \A x : Page(t3, w, x) = With(s, w, d, x)
  BY <1>3, <1>20, WithAgain
<1>23. PICK q : q = [p3 EXCEPT !.bf_offset = g, !.bf_extent = 2 * blksz, !.bf_cnt = blksz + u]
  OBVIOUS
<1>24. t = With(s, w, d, q)
  BY <1>4, <1>5, <1>6, <1>21, <1>22, <1>23
<1>25. /\ q.bf_offset = g /\ q.bf_extent = 2 * blksz /\ q.bf_cnt = blksz + u
       /\ q.bf_base = p3.bf_base /\ q.pos = p3.pos /\ q.bf_write = p3.bf_write
       /\ q.bf_modified = p.bf_modified /\ q.bf_refcount = p.bf_refcount
       /\ q = Fields(q)
  BY <1>19, <1>23 DEF Pages, Fields
<1>26. q \in Pages
  <2>1. g \in Addr /\ blksz + u \in 0 .. 2 * blksz
    BY <1>3, <1>4, <1>5 DEF Addr
  <2> QED
    BY <1>19, <1>25, <2>1 DEF Pages, Fields
<1>27. nread \in Nat /\ nread <= blksz
  BY <1>3, <1>5, BoundAssumption DEF Found, MinOf, MaxOf, Disks
<1>28. d \in Disks /\ d.data = d1.data /\ d.size = d1.size /\ d.fd = q.pos
  BY <1>5, <1>17, <1>19, <1>25, <1>27 DEF Disks
<1>29. ASSUME NEW i \in BufIndex
       PROVE  q.bf_base[i] = IF i \notin 0 .. blksz - 1 THEN p.bf_base[i - blksz]
                             ELSE IF i < nread THEN d1.data[p.bf_offset - blksz + i]
                             ELSE Zero
  <2>1. i \in Nat /\ i <= 2 * blksz - 1 /\ 0 + blksz = blksz /\ i - 0 = i
        /\ g + i - 0 = p.bf_offset - blksz + i
    BY <1>3, <1>5 DEF BufIndex
  <2>2. i \notin 0 .. blksz - 1 => i \in Upper
    BY <1>3, <2>1 DEF Upper
  <2>3. p3.bf_base[i] = IF i \notin 0 .. blksz - 1 THEN p2.bf_base[i]
                        ELSE IF i < nread THEN d1.data[p.bf_offset - blksz + i]
                        ELSE Zero
    <3>1. p3.bf_base[i] = IF i \notin 0 .. 0 + blksz - 1 THEN p2.bf_base[i]
                          ELSE IF i - 0 < nread THEN d1.data[g + i - 0]
                          ELSE Zero
      BY <1>19
    <3>2. 0 + blksz - 1 = blksz - 1
      BY <1>3
    <3> QED
      BY <2>1, <3>1, <3>2
  <2>4. CASE i \notin 0 .. blksz - 1
    <3>1. p2.bf_base[i] = p.bf_base[i - blksz]
      BY <1>10, <1>14, <2>2, <2>4
    <3> QED
      BY <1>25, <2>4, <2>3, <3>1
  <2>5. CASE i \in 0 .. blksz - 1
    BY <1>25, <2>5, <2>3
  <2> QED
    BY <2>4, <2>5
<1>30. nread \in 0 .. Found(d1, p.bf_offset - blksz, blksz)
       /\ (Faults = {} => nread = Found(d1, p.bf_offset - blksz, blksz))
  BY <1>5, <1>16
<1>31. Covers(d0, p, d, q, o, n)
  <2>1. /\ q.bf_offset = p.bf_offset - blksz /\ q.bf_cnt = blksz + MinOf(p.bf_cnt, blksz)
        /\ q.bf_extent = 2 * blksz /\ q.bf_modified = p.bf_modified
        /\ q.bf_refcount = p.bf_refcount
    BY <1>4, <1>5, <1>25
  <2>2. Paged(p) /\ p.bf_offset # OFF_NONE /\ p.bf_cnt # 0 /\ p.bf_offset >= blksz
        /\ p.bf_offset - blksz <= o /\ o + n <= p.bf_offset + blksz
    BY <1>1, <1>3
  <2>3. IF p.bf_cnt > blksz
        THEN Written(d0, p, d1, p.bf_offset + blksz, p.bf_cnt - blksz, blksz)
        ELSE d1.data = d0.data /\ d1.size = d0.size
    BY <1>7
  <2> QED
    BY <1>26, <1>28, <1>29, <1>30, <2>1, <2>2, <2>3, DownCovers
<1>32. t.px[w] = q
  BY <1>3, <1>24, WithIs
<1> QED
  BY <1>1, <1>2, <1>5, <1>24, <1>25, <1>31, <1>32 DEF Outcome

(* Writing a buffer back leaves it as it was, not modified.                *)
LEMMA SavedIs ==
  ASSUME Faults \subseteq {"short_read"}, NEW s, NEW w \in Buffers, Ready(s, w),
         s.px[w].bf_offset # OFF_NONE,
         NEW t \in Saved(s, w)
  PROVE  \E d \in Disks : \E q \in Pages :
           /\ t = With(s, w, d, q) /\ q.pos = d.fd /\ ~q.bf_modified
           /\ q.bf_offset = s.px[w].bf_offset /\ q.bf_extent = s.px[w].bf_extent
           /\ q.bf_cnt = s.px[w].bf_cnt /\ q.bf_base = s.px[w].bf_base
           /\ q.bf_refcount = s.px[w].bf_refcount
           /\ Written(s.disk, s.px[w], d, s.px[w].bf_offset, s.px[w].bf_cnt, 0)
<1>1. PICK p \in Pages : p = s.px[w] /\ Paged(p)
  BY DEF Ready, Paged
<1>2. PICK d0 \in Disks : d0 = s.disk
  BY DEF Ready, States
<1>3. /\ p.bf_offset \in Nat /\ p.bf_cnt \in Nat /\ p.bf_cnt <= 2 * blksz /\ Size \in Nat
      /\ p.bf_offset + p.bf_cnt <= Size /\ blksz \in Nat /\ s \in States
  BY <1>1, PageFields DEF Addr, Ready, Paged
<1>4. CASE ~p.bf_modified
  <2>1. t = s
    BY <1>1, <1>4 DEF Saved
  <2>2. t = With(s, w, d0, p)
    BY <1>1, <1>2, <1>3, <2>1, WithNothing
  <2>3. Written(d0, p, d0, p.bf_offset, p.bf_cnt, 0)
    BY <1>4, BoundAssumption DEF Written, Disks
  <2> QED
    BY <1>1, <1>2, <1>4, <2>2, <2>3 DEF Ready
<1>5. CASE p.bf_modified
  <2>1. PICK t1 \in Flush(s, w, p.bf_offset, p.bf_cnt, 0) :
          IF t1.st = "ok"
          THEN t = Page(t1, w, [t1.px[w] EXCEPT !.bf_modified = FALSE, !.bf_write = FALSE])
          ELSE t = t1
    BY <1>1, <1>5 DEF Saved, Then, Clean
  <2>2. PICK d1, p1 : /\ t1 = With(s, w, d1, p1) /\ Same(p, p1) /\ p1.pos = d1.fd
                      /\ Written(d0, p, d1, p.bf_offset, p.bf_cnt, 0)
    <3>1. 0 + p.bf_cnt <= 2 * blksz
      BY <1>3
    <3> QED
      BY <1>1, <1>2, <1>3, <2>1, <3>1, FlushIs DEF Ready
  <2>3. t1.st = "ok" /\ t1.px[w] = p1
    BY <1>3, <2>2, WithIs DEF Ready
  <2>4. \A x : Page(t1, w, x) = With(s, w, d1, x)
    BY <1>3, <2>2, WithAgain
  <2>5. PICK q : q = [p1 EXCEPT !.bf_modified = FALSE, !.bf_write = FALSE]
    OBVIOUS
  <2>6. t = With(s, w, d1, q)
    BY <2>1, <2>3, <2>4, <2>5
  <2>7. /\ q.bf_offset = p.bf_offset /\ q.bf_modified = FALSE
        /\ q.bf_refcount = p.bf_refcount /\ q.bf_base = p.bf_base /\ q.pos = p1.pos
        /\ q.bf_cnt = p.bf_cnt /\ q.bf_write = FALSE /\ q.bf_extent = p.bf_extent
        /\ q = Fields(q)
    BY <2>2, <2>5 DEF Pages, Same, Fields
  <2>8. q \in Pages
    <3>1. p1.pos \in Nat
      BY <2>2 DEF Same, Pages
    <3> QED
      BY <2>7, <3>1 DEF Pages, Fields
  <2>9. d1 \in Disks
    BY <2>2 DEF Written
  <2> QED
    BY <1>1, <1>2, <2>2, <2>6, <2>7, <2>8, <2>9
<1> QED
  BY <1>4, <1>5

(* The code of the case ReplaceCovers: save, read.                         *)
LEMMA ReplaceOutcome ==
  ASSUME Faults \subseteq {"short_read"}, NEW s, NEW w \in Buffers, Ready(s, w),
         NEW o \in Nat, NEW n \in Nat, NEW b \in Addr, NEW extent \in {blksz, 2 * blksz},
         b % blksz = 0, b <= o, o + n <= b + extent, o + n <= Size,
         s.px[w].bf_offset # OFF_NONE /\ o + n <= s.px[w].bf_offset + s.px[w].bf_cnt
           => o + n <= s.px[w].bf_offset,
         NEW t \in Replace(s, w, b, extent)
  PROVE  Outcome(s, w, t, o, n) /\ t.px[w].bf_offset = b
<1>1. PICK p \in Pages : p = s.px[w] /\ Paged(p)
  BY DEF Ready, Paged
<1>2. PICK d0 \in Disks : d0 = s.disk
  BY DEF Ready, States
<1>3. /\ blksz \in Nat /\ blksz >= 1 /\ Size \in Nat /\ s \in States /\ b \in Nat
      /\ extent \in Nat /\ extent <= 2 * blksz
  BY <1>1, PageFields DEF Addr, Ready
<1>4. PICK t1, t3 :
        /\ t1 \in (IF p.bf_offset = OFF_NONE THEN {s} ELSE Saved(s, w))
        /\ IF t1.st = "ok" THEN t3 \in px_pgin(t1, w, b, extent, 0) ELSE t3 = t1
        /\ IF t3.st = "ok"
           THEN t = Page(t3, w, [t3.px[w] EXCEPT !.bf_offset = b, !.bf_extent = extent])
           ELSE t = t3
  BY <1>1 DEF Replace, Then
<1>5. PICK d1 \in Disks, p1 \in Pages :
        /\ t1 = With(s, w, d1, p1) /\ p1.pos = d1.fd /\ ~p1.bf_modified
        /\ p1.bf_base = p.bf_base /\ p1.bf_refcount = p.bf_refcount
        /\ IF p.bf_offset # OFF_NONE THEN Written(d0, p, d1, p.bf_offset, p.bf_cnt, 0)
           ELSE d1.data = d0.data /\ d1.size = d0.size
  <2>1. CASE p.bf_offset = OFF_NONE
    <3>1. t1 = With(s, w, d0, p)
      BY <1>1, <1>2, <1>3, <1>4, <2>1, WithNothing
    <3> QED
      BY <1>1, <1>2, <2>1, <3>1 DEF Ready, Paged
  <2>2. CASE p.bf_offset # OFF_NONE
    BY <1>1, <1>2, <1>4, <2>2, SavedIs
  <2> QED
    BY <2>1, <2>2
<1>6. t1 \in States /\ t1.st = "ok" /\ t1.disk = d1 /\ t1.px[w] = p1
  BY <1>3, <1>5, WithIs DEF Ready
<1>7. PICK nread \in 0 .. Found(d1, b, extent) :
        /\ t3 = With(t1, w, [d1 EXCEPT !.fd = b + nread], Loaded(d1, p1, b, extent, 0, nread))
        /\ Faults = {} => nread = Found(d1, b, extent)
  <2>1. /\ t1.px[w].pos = t1.disk.fd /\ t3 \in px_pgin(t1, w, b, extent, 0)
        /\ t1 \in States /\ b \in Nat /\ extent \in Nat
    BY <1>3, <1>4, <1>5, <1>6
  <2>2. \E nread \in 0 .. Found(t1.disk, b, extent) :
          /\ t3 = With(t1, w, [t1.disk EXCEPT !.fd = b + nread],
                       Loaded(t1.disk, t1.px[w], b, extent, 0, nread))
          /\ Faults = {} => nread = Found(t1.disk, b, extent)
    BY <2>1, PginIs
  <2> QED
    BY <1>6, <2>2
<1>8. PICK d : d = [d1 EXCEPT !.fd = b + nread]
  OBVIOUS
<1>9. PICK p3 : p3 = Loaded(d1, p1, b, extent, 0, nread)
  OBVIOUS
<1>10. /\ p3 \in Pages /\ p3.pos = b + nread /\ p3.bf_cnt = nread
       /\ p3.bf_modified = FALSE /\ p3.bf_refcount = p.bf_refcount
       /\ \A i \in BufIndex :
            p3.bf_base[i] = IF i \notin 0 .. extent - 1 THEN p.bf_base[i]
                            ELSE IF i < nread THEN d1.data[b + i]
                            ELSE Zero
  <2>1. 0 \in {0, blksz}
    OBVIOUS
  <2>2. LET q == Loaded(d1, p1, b, extent, 0, nread) IN
         /\ q \in Pages
         /\ q.bf_cnt = nread /\ q.pos = b + nread
         /\ q.bf_offset = p1.bf_offset /\ q.bf_extent = p1.bf_extent /\ q.bf_write = p1.bf_write
         /\ q.bf_modified = p1.bf_modified /\ q.bf_refcount = p1.bf_refcount
         /\ \A i \in BufIndex :
              q.bf_base[i] = IF i \notin 0 .. 0 + extent - 1 THEN p1.bf_base[i]
                             ELSE IF i - 0 < nread THEN d1.data[b + i - 0]
                             ELSE Zero
    <3>1. d1 \in Disks /\ p1 \in Pages /\ b \in Nat /\ nread \in 0 .. Found(d1, b, extent)
      BY <1>3, <1>5, <1>7
    <3> QED
      BY <2>1, <3>1, LoadedIs, SMTT(60)
  <2>3. ASSUME NEW i \in BufIndex
        PROVE  p3.bf_base[i] = IF i \notin 0 .. extent - 1 THEN p.bf_base[i]
                               ELSE IF i < nread THEN d1.data[b + i]
                               ELSE Zero
    <3>1. p3.bf_base[i] = IF i \notin 0 .. 0 + extent - 1 THEN p1.bf_base[i]
                          ELSE IF i - 0 < nread THEN d1.data[b + i - 0]
                          ELSE Zero
      BY <1>9, <2>2
    <3>2. 0 + extent - 1 = extent - 1 /\ i - 0 = i /\ b + i - 0 = b + i
      BY <1>3 DEF BufIndex
    <3> QED
      BY <1>5, <3>1, <3>2
  <2>4. p1.bf_modified = FALSE
    BY <1>5, PageFields
  <2> QED
    BY <1>5, <1>9, <2>2, <2>3, <2>4
<1>11. t3 = With(s, w, d, p3)
  BY <1>3, <1>5, <1>7, <1>8, <1>9, WithTwice
<1>12. t3.st = "ok" /\ t3.px[w] = p3
  BY <1>3, <1>11, WithIs DEF Ready
<1>13. \A x : Page(t3, w, x) = With(s, w, d, x)
  BY <1>3, <1>11, WithAgain
<1>14. PICK q : q = [p3 EXCEPT !.bf_offset = b, !.bf_extent = extent]
  OBVIOUS
<1>15. t = With(s, w, d, q)
  BY <1>4, <1>12, <1>13, <1>14
<1>16. /\ q.bf_offset = b /\ q.bf_extent = extent /\ q.bf_cnt = nread
       /\ q.bf_base = p3.bf_base /\ q.pos = p3.pos /\ q.bf_write = p3.bf_write
       /\ q.bf_modified = FALSE /\ q.bf_refcount = p.bf_refcount
       /\ q = Fields(q)
  BY <1>10, <1>14 DEF Pages, Fields
<1>17. q \in Pages
  <2>1. extent \in {0, blksz, 2 * blksz} /\ nread \in 0 .. 2 * blksz
    BY <1>10, PageFields
  <2> QED
    BY <1>10, <1>16, <2>1 DEF Pages, Fields
<1>18. nread \in Nat
  BY <1>10, PageFields
<1>19. d \in Disks /\ d.data = d1.data /\ d.size = d1.size /\ d.fd = q.pos
  BY <1>3, <1>8, <1>10, <1>16, <1>18 DEF Disks
<1>20. \A i \in BufIndex :
         q.bf_base[i] = IF i \notin 0 .. extent - 1 THEN p.bf_base[i]
                        ELSE IF i < nread THEN d1.data[b + i]
                        ELSE Zero
  BY <1>10, <1>16
<1>21. Covers(d0, p, d, q, o, n)
  <2>1. p.bf_offset # OFF_NONE /\ o + n <= p.bf_offset + p.bf_cnt => o + n <= p.bf_offset
    BY <1>1
  <2>2. IF p.bf_offset # OFF_NONE THEN Written(d0, p, d1, p.bf_offset, p.bf_cnt, 0)
        ELSE d1.data = d0.data /\ d1.size = d0.size
    BY <1>5
  <2>3. ~q.bf_modified /\ q.bf_offset = b /\ q.bf_extent = extent /\ q.bf_cnt = nread
        /\ q.bf_refcount = p.bf_refcount
    BY <1>16
  <2>4. nread \in 0 .. Found(d1, b, extent) /\ (Faults = {} => nread = Found(d1, b, extent))
    BY <1>7
  <2> QED
    <3>1. Paged(p)
      BY <1>1
    <3> HIDE <1>1
    <3> QED
      BY <1>17, <1>19, <1>20, <2>1, <2>2, <2>3, <2>4, <3>1, ReplaceCovers, SMTT(60)
<1>22. t.px[w] = q
  BY <1>3, <1>15, WithIs
<1> QED
  BY <1>1, <1>2, <1>15, <1>16, <1>21, <1>22 DEF Outcome

(* The code of the case HitCovers.                                         *)
LEMMA HitOutcome ==
  ASSUME NEW s, NEW w \in Buffers, Ready(s, w), s.px[w].bf_offset # OFF_NONE,
         NEW o \in Nat, NEW n \in Nat, s.px[w].bf_offset <= o,
         o + n <= s.px[w].bf_offset + s.px[w].bf_extent
  PROVE  Outcome(s, w, s, o, n)
<1>1. s = With(s, w, s.disk, s.px[w]) /\ s.disk \in Disks
  BY WithNothing DEF Ready, States
<1>2. Covers(s.disk, s.px[w], s.disk, s.px[w], o, n)
  BY <1>1, HitCovers DEF Ready
<1> QED
  BY <1>1, <1>2 DEF Outcome

(* Whatever has to be done for a request covers it.                        *)
LEMMA CoveringOutcome ==
  ASSUME Faults \subseteq {"short_read"}, NEW s, NEW w \in Buffers, Ready(s, w),
         NEW o \in Nat, NEW n \in Nat \ {0}, o + n <= Size,
         NEW B, B = RNDDOWN(o), NEW E, E = RNDUP(o - B + n), ~(2 * blksz < E),
         NEW t \in Covering(s, w, B, E)
  PROVE  /\ Outcome(s, w, t, o, n)
         /\ t.px[w].bf_offset = IF s.px[w].bf_offset # OFF_NONE /\ UpperHit(s.px[w], B) /\ E = blksz
                                THEN B - blksz ELSE B
<1>1. PICK p \in Pages : p = s.px[w] /\ Paged(p)
  BY DEF Ready, Paged
<1>2. /\ blksz \in Nat /\ blksz >= 1 /\ Size \in Nat /\ p.bf_extent \in {0, blksz, 2 * blksz}
      /\ p.bf_cnt \in Nat /\ p.bf_cnt <= p.bf_extent /\ OFF_NONE = -1
      /\ p.bf_offset # OFF_NONE => p.bf_offset \in Nat /\ p.bf_offset % blksz = 0 /\ p.bf_extent # 0
  BY <1>1, PageFields DEF Addr, Paged, OFF_NONE
<1>3. B \in Nat /\ B <= o /\ o < B + blksz /\ B % blksz = 0 /\ B \in Addr
  <2>1. B \in Nat /\ B <= o /\ o < B + blksz /\ B % blksz = 0
    BY RoundedDown
  <2> QED
    BY <1>2, <2>1 DEF Addr
<1>4. E \in {blksz, 2 * blksz} /\ o + n <= B + E /\ B + E < o + n + blksz
  <2>1. PICK k \in Nat : k = o - B + n /\ k # 0
    BY <1>3
  <2>2. E \in Nat /\ k <= E /\ E < k + blksz /\ (E <= 2 * blksz => E \in {blksz, 2 * blksz})
    BY <2>1, RoundedUp
  <2> QED
    BY <1>2, <1>3, <2>1, <2>2
<1>5. CASE p.bf_offset = OFF_NONE
  <2>1. t \in Replace(s, w, B, E)
    BY <1>1, <1>5 DEF Covering
  <2>2. Outcome(s, w, t, o, n) /\ t.px[w].bf_offset = B
    BY <1>1, <1>3, <1>4, <1>5, <2>1, ReplaceOutcome
  <2> QED
    BY <1>1, <1>5, <2>2
<1>6. CASE p.bf_offset # OFF_NONE /\ B = p.bf_offset
  <2>1. ~UpperHit(p, B)
    BY <1>2, <1>3, <1>6 DEF UpperHit
  <2>2. CASE E > p.bf_extent
    <3>1. t \in PageInUpper(s, w)
      BY <1>1, <1>6, <2>2 DEF Covering
    <3>2. p.bf_extent = blksz /\ E = 2 * blksz
      BY <1>2, <1>4, <1>6, <2>2
    <3>3. p.bf_offset <= o /\ o + n <= p.bf_offset + 2 * blksz /\ p.bf_offset + blksz < o + n
      BY <1>2, <1>3, <1>4, <1>6, <3>2
    <3>4. Outcome(s, w, t, o, n) /\ t.px[w].bf_offset = p.bf_offset
      BY <1>1, <1>6, <3>1, <3>2, <3>3, ExtendOutcome
    <3> QED
      BY <1>1, <1>6, <2>1, <3>4
  <2>3. CASE ~(E > p.bf_extent)
    <3>1. t = s
      BY <1>1, <1>6, <2>3 DEF Covering
    <3>2. p.bf_offset <= o /\ o + n <= p.bf_offset + p.bf_extent
      BY <1>2, <1>3, <1>4, <1>6, <2>3
    <3>3. Outcome(s, w, s, o, n)
      BY <1>1, <1>6, <3>2, HitOutcome
    <3> QED
      BY <1>1, <1>6, <2>1, <3>1, <3>3
  <2> QED
    BY <2>2, <2>3
<1>7. CASE p.bf_offset # OFF_NONE /\ B # p.bf_offset /\ UpperHit(p, B)
  <2>1. p.bf_extent = 2 * blksz /\ B = p.bf_offset + blksz
    BY <1>2, <1>7 DEF UpperHit
  <2>2. CASE E = blksz
    <3>1. t = s
      BY <1>1, <1>7, <2>2 DEF Covering
    <3>2. p.bf_offset <= o /\ o + n <= p.bf_offset + p.bf_extent /\ p.bf_offset = B - blksz
      BY <1>2, <1>3, <1>4, <1>7, <2>1, <2>2
    <3>3. Outcome(s, w, s, o, n)
      BY <1>1, <1>7, <3>2, HitOutcome
    <3> QED
      BY <1>1, <1>7, <2>2, <3>1, <3>2, <3>3
  <2>3. CASE E # blksz
    <3>1. t \in ShiftUp(s, w)
      BY <1>1, <1>7, <2>3 DEF Covering
    <3>2. p.bf_offset + blksz <= o /\ o + n <= p.bf_offset + 3 * blksz
          /\ p.bf_offset + 2 * blksz < o + n
      BY <1>2, <1>3, <1>4, <1>7, <2>1, <2>3
    <3>3. Outcome(s, w, t, o, n) /\ t.px[w].bf_offset = p.bf_offset + blksz
      BY <1>1, <1>7, <2>1, <3>1, <3>2, UpOutcome
    <3> QED
      BY <2>1, <2>3, <3>3
  <2> QED
    BY <2>2, <2>3
<1>8. CASE p.bf_offset # OFF_NONE /\ B # p.bf_offset /\ ~UpperHit(p, B) /\ B = p.bf_offset - blksz
  <2>1. t \in ShiftDown(s, w)
    BY <1>1, <1>8 DEF Covering
  <2>2. p.bf_offset >= blksz /\ p.bf_offset - blksz <= o /\ o + n <= p.bf_offset + blksz
    BY <1>2, <1>3, <1>4, <1>8
  <2>3. Outcome(s, w, t, o, n) /\ t.px[w].bf_offset = p.bf_offset - blksz
    BY <1>1, <1>8, <2>1, <2>2, DownOutcome
  <2> QED
    BY <1>1, <1>8, <2>3
<1>9. CASE p.bf_offset # OFF_NONE /\ B # p.bf_offset /\ ~UpperHit(p, B) /\ B # p.bf_offset - blksz
  <2>1. t \in Replace(s, w, B, E)
    BY <1>1, <1>9 DEF Covering
  <2>2. ASSUME o + n <= p.bf_offset + p.bf_cnt
        PROVE  o + n <= p.bf_offset
    <3>1. PICK f \in Nat : f = p.bf_offset /\ f % blksz = 0
      BY <1>2, <1>9
    <3>2. CASE f < B
      <4>1. f + blksz <= B
        BY <1>3, <3>1, <3>2, BlocksApart
      <4>2. B < f + p.bf_extent
        BY <1>2, <1>3, <2>2, <3>1
      <4>3. p.bf_extent = 2 * blksz
        BY <1>2, <4>1, <4>2, <3>1, <1>3
      <4>4. f + blksz < B
        BY <1>2, <1>3, <1>9, <3>1, <4>1, <4>3 DEF UpperHit
      <4>5. PICK g \in Nat : g = f + blksz /\ g % blksz = 0
        BY <1>2, <3>1, BlockBeside
      <4>6. g + blksz <= B
        BY <1>3, <4>4, <4>5, BlocksApart
      <4> QED
        BY <1>2, <1>3, <3>1, <4>2, <4>3, <4>5, <4>6
    <3>3. CASE B < f
      <4>1. B + blksz <= f
        BY <1>3, <3>1, <3>3, BlocksApart
      <4>2. B + blksz < f
        BY <1>2, <1>3, <1>9, <3>1, <4>1
      <4>3. PICK g \in Nat : g = B + blksz /\ g % blksz = 0
        BY <1>2, <1>3, BlockBeside
      <4>4. g + blksz <= f
        BY <3>1, <4>2, <4>3, BlocksApart
      <4> QED
        BY <1>2, <1>3, <1>4, <3>1, <4>3, <4>4
    <3> QED
      BY <1>3, <1>9, <3>1, <3>2, <3>3
  <2>3. Outcome(s, w, t, o, n) /\ t.px[w].bf_offset = B
    BY <1>1, <1>3, <1>4, <2>1, <2>2, ReplaceOutcome
  <2> QED
    BY <1>1, <1>9, <2>3
<1> QED
  BY <1>5, <1>6, <1>7, <1>8, <1>9

-----------------------------------------------------------------------------
(* What px_get gives to whoever asks for the n bytes from o.               *)
Gives(d0, p, d, q, o, n) ==
  /\ d \in Disks /\ Paged(q) /\ q.pos = d.fd /\ q.bf_refcount = p.bf_refcount + 1
  /\ q.bf_modified => p.bf_modified
  /\ q.bf_offset \in Addr /\ q.bf_offset <= o /\ o + n <= q.bf_offset + q.bf_cnt
  /\ ~p.bf_modified => d.data = d0.data /\ d.size = d0.size
  /\ Faults = {} => Keeps(d0, p, d, q) /\ KeepsBelow(d0, p, d, q, o + n)

(* What px_get returned.                                                   *)
Result(s, w, d, q, o) ==
  [disk |-> d, px |-> [s.px EXCEPT ![w] = q], st |-> "ok", diff |-> o - q.bf_offset]

(* A get of n bytes from o that did not fail.                              *)
Got(s, w, t, o, n) ==
  \E d, q : /\ Gives(s.disk, s.px[w], d, q, o, n)
            /\ t = Result(s, w, d, q, o)

(* A larger count adds no byte that was held before.                       *)
LEMMA CountKeeps ==
  ASSUME NEW d \in Disks, NEW p, Paged(p), p.bf_offset # OFF_NONE,
         NEW q, q.bf_offset = p.bf_offset, q.bf_extent = p.bf_extent, q.bf_base = p.bf_base,
         q.bf_modified = p.bf_modified, q.bf_cnt \in Nat, p.bf_cnt <= q.bf_cnt,
         q.bf_cnt <= q.bf_extent, NEW a \in Addr, NEW v
  PROVE  /\ Held(d, p, a, v) => Held(d, q, a, v)
         /\ Safe(d, p, a, v) => Safe(d, q, a, v)
<1>1. /\ p.bf_offset \in Int /\ p.bf_cnt \in Nat /\ p.bf_extent \in Nat /\ a \in Nat
  BY PageFields DEF Addr, Paged
<1>2. Covered(p, a) <=> Covered(q, a)
  BY DEF Covered
<1>3. Shown(p, a) => Shown(q, a)
  BY <1>1 DEF Shown
<1>4. Shown(q, a) => Covered(q, a)
  BY <1>1 DEF Shown, Covered
<1>5. Held(d, p, a, v) => Held(d, q, a, v) /\ (Shown(q, a) <=> Shown(p, a))
  BY <1>2, <1>3, <1>4 DEF Held
<1> QED
  BY <1>5 DEF Safe

(* px_get fails only where the request is longer than a block, and changes *)
(* nothing then; otherwise the region it returns is in the buffer and      *)
(* nothing is lost.                                                        *)
LEMMA GetIs ==
  ASSUME Faults \subseteq {"short_read"}, NEW s, NEW w \in Buffers, Ready(s, w),
         NEW o \in Nat, NEW n \in Nat \ {0}, o + n <= Size, NEW write \in BOOLEAN,
         NEW t \in px_get(s, w, o, n, write)
  PROVE  \/ t = Failed(s) /\ blksz < n
         \/ Got(s, w, t, o, n)
<1>1. PICK p \in Pages : p = s.px[w] /\ Paged(p)
  BY DEF Ready, Paged
<1>2. PICK d0 \in Disks : d0 = s.disk
  BY DEF Ready, States
<1>3. PICK B \in Nat : B = RNDDOWN(o) /\ B <= o /\ o < B + blksz
  BY RoundedDown
<1>4. PICK k \in Nat : k = o - B + n /\ k # 0
  BY <1>3
<1>5. PICK E \in Nat : E = RNDUP(k) /\ E < k + blksz /\ (E > 2 * blksz => E >= 3 * blksz)
  BY <1>4, RoundedUp
<1>6. blksz \in Nat /\ blksz >= 1 /\ s \in States /\ Size \in Nat
  BY <1>1, PageFields DEF Ready
<1>7. CASE 2 * blksz < E
  <2>1. t = Failed(s)
    BY <1>3, <1>4, <1>5, <1>7 DEF px_get
  <2>2. blksz < n
    BY <1>3, <1>4, <1>5, <1>6, <1>7
  <2> QED
    BY <2>1, <2>2
<1>8. CASE ~(2 * blksz < E)
  <2>1. PICK inUpper \in BOOLEAN :
          inUpper = (p.bf_offset # OFF_NONE /\ UpperHit(p, B) /\ E = blksz)
    OBVIOUS
  <2>2. PICK idx : idx = IF inUpper THEN o - B + blksz ELSE o - B
    OBVIOUS
  <2>3. PICK u \in Covering(s, w, B, E) :
          IF u.st = "ok" THEN t = Taken(u, w, idx, n, write) ELSE t = u
    <3>1. RNDUP((o - B) + n) = E
      BY <1>4, <1>5
    <3>2. t \in UNION {IF u.st = "ok" THEN {Taken(u, w, idx, n, write)} ELSE {u} :
                       u \in Covering(s, w, B, E)}
      BY <1>1, <1>3, <1>8, <2>1, <2>2, <3>1 DEF px_get, Then
    <3> QED
      BY <3>2
  <2>4. /\ Outcome(s, w, u, o, n)
        /\ u.px[w].bf_offset = IF inUpper THEN B - blksz ELSE B
    <3>1. E = RNDUP(o - B + n)
      BY <1>4, <1>5
    <3>2. /\ Outcome(s, w, u, o, n)
          /\ u.px[w].bf_offset = IF s.px[w].bf_offset # OFF_NONE /\ UpperHit(s.px[w], B) /\ E = blksz
                                 THEN B - blksz ELSE B
      BY <1>3, <1>8, <3>1, CoveringOutcome
    <3> QED
      BY <1>1, <2>1, <3>2
  <2>5. PICK d, r : u = With(s, w, d, r) /\ Covers(d0, p, d, r, o, n)
    BY <1>1, <1>2, <2>4 DEF Outcome
  <2>6. u.st = "ok" /\ u.px[w] = r /\ u.disk = d /\ u.px = [s.px EXCEPT ![w] = r]
    <3>1. u.px = [s.px EXCEPT ![w] = r]
      BY <2>5 DEF With
    <3>2. u.st = "ok" /\ u.px[w] = r /\ u.disk = d
      <4>1. u.disk = d /\ u.px[w] = r /\ u.st = s.st
        BY <1>6, <2>5, WithIs
      <4> QED
        BY <4>1 DEF Ready
    <3> QED
      BY <3>1, <3>2
  <2>7. /\ d \in Disks /\ Paged(r) /\ r \in Pages /\ r.pos = d.fd /\ r.bf_refcount = p.bf_refcount
        /\ r.bf_modified => p.bf_modified
        /\ r.bf_offset \in Addr /\ r.bf_offset # OFF_NONE
        /\ ~p.bf_modified => d.data = d0.data /\ d.size = d0.size
        /\ r.bf_offset <= o /\ o + n <= r.bf_offset + r.bf_extent
        /\ Faults = {} => Keeps(d0, p, d, r) /\ KeepsBelow(d0, p, d, r, o + n)
    BY <2>5 DEF Covers, Turned, Paged, Addr, OFF_NONE
  <2>8. /\ r.bf_offset \in Nat /\ r.bf_cnt \in Nat /\ r.bf_extent \in Nat
        /\ r.bf_cnt <= 2 * blksz /\ r.bf_cnt <= r.bf_extent /\ r.bf_extent <= 2 * blksz
        /\ r.bf_offset + r.bf_cnt <= Size /\ r.bf_refcount \in Nat /\ r.bf_write \in BOOLEAN
    BY <1>6, <2>7, PageFields DEF Addr, Paged
  <2>9. idx = o - r.bf_offset /\ idx \in Nat
    BY <1>3, <1>6, <2>2, <2>4, <2>6, <2>7, <2>8
  <2>10. PICK cnt \in Nat : cnt = MaxOf(r.bf_cnt, idx + n)
    BY <2>8, <2>9 DEF MaxOf
  <2>11. /\ r.bf_cnt <= cnt /\ idx + n <= cnt /\ cnt <= r.bf_extent /\ r.bf_offset + cnt <= Size
    BY <2>7, <2>8, <2>9, <2>10 DEF MaxOf
  <2>12. PICK q : q = [r EXCEPT !.bf_cnt = cnt, !.bf_write = @ \/ write, !.bf_refcount = @ + 1]
    OBVIOUS
  <2>13. /\ q.bf_cnt = cnt /\ q.bf_refcount = r.bf_refcount + 1
         /\ q.bf_write = (r.bf_write \/ write)
         /\ q.bf_offset = r.bf_offset /\ q.bf_extent = r.bf_extent /\ q.bf_base = r.bf_base
         /\ q.bf_modified = r.bf_modified /\ q.pos = r.pos
         /\ q = Fields(q)
    BY <2>7, <2>12 DEF Pages, Fields
  <2>14. q \in Pages
    <3>1. q.bf_cnt \in 0 .. 2 * blksz /\ q.bf_refcount \in Nat
      BY <1>6, <2>8, <2>11, <2>13
    <3>2. q.bf_cnt \in 0 .. 2 * blksz /\ q.bf_refcount \in Nat /\ q.bf_write \in BOOLEAN
      BY <3>1, <2>8, <2>13
    <3> QED
      BY <2>7, <2>13, <3>2 DEF Pages, Fields
  <2>15. Paged(q)
    BY <2>7, <2>11, <2>13, <2>14 DEF Paged
  <2>16. \A a \in Addr : \A v : /\ Held(d, r, a, v) => Held(d, q, a, v)
                                /\ Safe(d, r, a, v) => Safe(d, q, a, v)
    BY <2>7, <2>11, <2>13, CountKeeps
  <2>17. Faults = {} => Keeps(d0, p, d, q) /\ KeepsBelow(d0, p, d, q, o + n)
    BY <2>7, <2>16 DEF Keeps, KeepsBelow
  <2>18. o + n <= q.bf_offset + q.bf_cnt
    BY <2>8, <2>9, <2>11, <2>13
  <2>19. Gives(d0, p, d, q, o, n)
    BY <2>7, <2>13, <2>15, <2>17, <2>18 DEF Gives
  <2>20. t = [disk |-> d, px |-> [s.px EXCEPT ![w] = q], st |-> "ok",
              diff |-> o - q.bf_offset]
    <3>1. [u.px EXCEPT ![w] = q] = [s.px EXCEPT ![w] = q]
      BY <1>6, <2>6 DEF States
    <3>2. t = [disk |-> d, px |-> [u.px EXCEPT ![w] = q], st |-> "ok", diff |-> idx]
      <4>1. t = [disk |-> d, px |-> [u.px EXCEPT ![w] = q],
                 st |-> IF cnt <= q.bf_extent THEN "ok" ELSE "assert", diff |-> idx]
        BY <2>3, <2>6, <2>10, <2>12 DEF Taken
      <4> QED
        BY <2>11, <2>13, <4>1
    <3> QED
      BY <2>9, <2>13, <3>1, <3>2
  <2> QED
    BY <1>1, <1>2, <2>19, <2>20 DEF Got, Result
<1> QED
  BY <1>7, <1>8

-----------------------------------------------------------------------------
(* Two buffers and files that differ only in where the descriptor is.      *)
LEMMA SameHolds ==
  ASSUME NEW d, NEW p, NEW e, NEW q, Same(p, q), e.data = d.data, e.size = d.size
  PROVE  /\ Paged(p) => Paged(q)
         /\ \A a, v : /\ OnDisk(d, a, v) <=> OnDisk(e, a, v)
                      /\ Held(d, p, a, v) <=> Held(e, q, a, v)
                      /\ Safe(d, p, a, v) <=> Safe(e, q, a, v)
         /\ \A a : View(d, p, a) = View(e, q, a)
<1>1. Paged(p) => Paged(q)
  BY DEF Paged, Same
<1>2. \A a, v : OnDisk(d, a, v) <=> OnDisk(e, a, v)
  BY DEF OnDisk
<1>3. \A a : (Shown(p, a) <=> Shown(q, a)) /\ (Covered(p, a) <=> Covered(q, a))
  BY DEF Shown, Covered, Same
<1>4. \A a, v : Held(d, p, a, v) <=> Held(e, q, a, v)
  BY <1>2, <1>3 DEF Held, Same
<1>5. \A a, v : Safe(d, p, a, v) <=> Safe(e, q, a, v)
  BY <1>2, <1>3, <1>4 DEF Safe, Same
<1>6. \A a : View(d, p, a) = View(e, q, a)
  BY DEF View, Same
<1> QED
  BY <1>1, <1>2, <1>4, <1>5, <1>6

(* The page q of another moment, with the position agreed.                 *)
Rested(p, q) == Same(p, q) /\ q.pos = 0

(* Becomes forgets the position of a buffer.                               *)
LEMMA PageRests ==
  ASSUME NEW p \in Pages, NEW q, q = [p EXCEPT !.pos = 0]
  PROVE  Rested(p, q)
<1>1. /\ q.bf_base = p.bf_base /\ q.pos = 0
      /\ q.bf_offset = p.bf_offset /\ q.bf_extent = p.bf_extent /\ q.bf_cnt = p.bf_cnt
      /\ q.bf_write = p.bf_write /\ q.bf_modified = p.bf_modified
      /\ q.bf_refcount = p.bf_refcount
      /\ q = Fields(q)
  BY DEF Pages, Fields
<1>2. q \in Pages
  BY <1>1 DEF Pages, Fields
<1> QED
  BY <1>1, <1>2 DEF Rested, Same

(* What a call leaves behind when its last state is s.                     *)
LEMMA Settled ==
  ASSUME NEW s \in States, s.px["master"] \in Pages, s.px["master"].pos = s.disk.fd,
         Becomes(s)
  PROVE  /\ disk' \in Disks /\ disk'.data = s.disk.data /\ disk'.size = s.disk.size
         /\ disk'.fd = 0
         /\ px' \in [Buffers -> Pages \cup {NoSlave}]
         /\ Rested(s.px["master"], px'["master"])
         /\ s.px["slave"] = NoSlave => px'["slave"] = NoSlave
         /\ s.px["slave"] # NoSlave => Rested(s.px["slave"], px'["slave"])
         /\ st' = s.st
<1>1. ~Astray(s, "master")
  BY DEF Astray
<1>2. /\ disk' = [s.disk EXCEPT !.fd = 0] /\ st' = s.st
      /\ px' = [w \in Buffers |->
              IF (w = "master" /\ Astray(s, w)) \/ s.px[w] = NoSlave
              THEN s.px[w]
              ELSE [s.px[w] EXCEPT !.pos = 0]]
  BY <1>1 DEF Becomes
<1>3. disk' \in Disks /\ disk'.data = s.disk.data /\ disk'.size = s.disk.size /\ disk'.fd = 0
  BY <1>2 DEF States, Disks
<1>4. "master" \in Buffers /\ "slave" \in Buffers /\ s.px["master"] # NoSlave
  BY PageNotNone DEF Buffers
<1>5. px'["master"] = [s.px["master"] EXCEPT !.pos = 0]
  BY <1>1, <1>2, <1>4
<1>6. Rested(s.px["master"], px'["master"])
  BY <1>5, PageRests
<1>7. px'["slave"] = IF s.px["slave"] = NoSlave THEN NoSlave ELSE [s.px["slave"] EXCEPT !.pos = 0]
  BY <1>2, <1>4
<1>8. s.px["slave"] # NoSlave => Rested(s.px["slave"], px'["slave"])
  <2>1. s.px["slave"] # NoSlave => s.px["slave"] \in Pages
    BY <1>4 DEF States
  <2> QED
    BY <1>7, <2>1, PageRests
<1>9. px' \in [Buffers -> Pages \cup {NoSlave}]
  <2>1. DOMAIN px' = Buffers /\ px' = [w \in Buffers |-> px'[w]]
    BY <1>2
  <2>2. \A w \in Buffers : px'[w] \in Pages \cup {NoSlave}
    BY <1>6, <1>7, <1>8 DEF Buffers, Rested, Same
  <2> QED
    BY <2>1, <2>2
<1> QED
  BY <1>2, <1>3, <1>6, <1>7, <1>8, <1>9

-----------------------------------------------------------------------------
(* The inductive invariant.  Resting and Structure say how the buffers are *)
(* between two calls.                                                      *)
Resting(p) ==
  /\ Paged(p) /\ p.bf_refcount = 0 /\ p.pos = 0
  /\ p.bf_cnt = 0 => p.bf_offset \in {OFF_NONE, 0}

Structure ==
  /\ disk \in Disks /\ disk.fd = 0
  /\ px \in [Buffers -> Pages \cup {NoSlave}]
  /\ Resting(px["master"])
  /\ HasSlave => /\ Resting(px["slave"]) /\ ~px["slave"].bf_modified
                 /\ px["slave"].bf_offset # OFF_NONE
  /\ st \in {"ok", "err"}
  /\ written \subseteq Addr

(* Whole blocks have been moved, so that the padding of the source comes   *)
(* with the last turn.                                                     *)
WholeTurns(m) ==
  m.n \in MoveLengths /\ \E k \in Nat : m.remaining = m.n - k * blksz

(* Where the loop of a move is, and both together.                         *)
Motion ==
  /\ floor \in Nat
  /\ moving # NotMoving =>
       /\ moving = [remaining |-> moving.remaining, to |-> moving.to, from |-> moving.from,
                    n |-> moving.n, goal |-> moving.goal]
       /\ moving.remaining \in Nat \ {0} /\ moving.n \in Nat /\ moving.remaining <= moving.n
       /\ moving.to \in Nat /\ moving.from \in Nat /\ moving.from < moving.to
       /\ moving.to + moving.n <= Size
       /\ floor = NextFloor(moving.to, moving.from)
       /\ WholeTurns(moving)

SInv == Structure /\ Motion

(* The master can be asked for a region at the start of a call.            *)
LEMMA NowReady ==
  ASSUME Structure
  PROVE  /\ Now \in States /\ Now.disk = disk /\ Now.px = px /\ Now.st = "ok"
         /\ Ready(Now, "master")
         /\ px["master"] \in Pages /\ px["master"] # NoSlave
         /\ HasSlave => px["slave"] \in Pages
<1>1. Now.disk = disk /\ Now.px = px /\ Now.st = "ok" /\ Now.diff = 0
  BY DEF Now
<1>2. Now \in States
  BY DEF Now, States, Structure
<1>3. Ready(Now, "master")
  BY <1>1, <1>2 DEF Ready, Structure, Resting
<1>4. px["master"] \in Pages
  BY DEF Structure, Resting, Paged
<1>5. HasSlave => px["slave"] \in Pages
  BY DEF Structure, Resting, Paged
<1> QED
  BY <1>1, <1>2, <1>3, <1>4, <1>5, PageNotNone

(* ncio_px_get gives the slave up first.                                   *)
LEMMA AloneReady ==
  ASSUME Structure, NEW s, s = Page(Now, "slave", NoSlave)
  PROVE  /\ s \in States /\ s.disk = disk /\ s.px = [px EXCEPT !["slave"] = NoSlave]
         /\ s.px["master"] = px["master"] /\ s.px["slave"] = NoSlave
         /\ s.st = "ok" /\ Ready(s, "master")
<1>1. /\ s.disk = disk /\ s.px = [px EXCEPT !["slave"] = NoSlave] /\ s.st = "ok" /\ s.diff = 0
      /\ s = [disk |-> s.disk, px |-> s.px, st |-> s.st, diff |-> s.diff]
  BY NowReady DEF Page, With, Now
<1>2. /\ s.px["master"] = px["master"] /\ s.px["slave"] = NoSlave
      /\ s.px \in [Buffers -> Pages \cup {NoSlave}]
  BY <1>1 DEF Structure, Buffers
<1>3. s \in States
  BY <1>1, <1>2 DEF States, Structure
<1>4. Ready(s, "master")
  BY <1>1, <1>2, <1>3 DEF Ready, Structure, Resting
<1> QED
  BY <1>1, <1>2, <1>3, <1>4

-----------------------------------------------------------------------------
(* Releasing and changing a buffer.                                        *)
LEMMA PageIs ==
  ASSUME NEW s \in States, NEW w \in Buffers, NEW p \in Pages
  PROVE  /\ Page(s, w, p) \in States /\ Page(s, w, p).disk = s.disk
         /\ Page(s, w, p).st = s.st /\ Page(s, w, p).diff = s.diff
         /\ Page(s, w, p).px[w] = p
         /\ \A v \in Buffers \ {w} : Page(s, w, p).px[v] = s.px[v]
<1> PICK t : t = Page(s, w, p)
  OBVIOUS
<1>1. t.px = [s.px EXCEPT ![w] = p]
  BY DEF Page, With
<1>2. t = With(s, w, s.disk, p) /\ s.disk \in Disks
  BY DEF Page, States
<1>3. t \in States /\ t.disk = s.disk /\ t.st = s.st /\ t.diff = s.diff /\ t.px[w] = p
  BY <1>2, WithIs
<1>4. \A v \in Buffers \ {w} : t.px[v] = s.px[v]
  BY <1>1 DEF States
<1> QED
  BY <1>3, <1>4

(* A page of which only the memory, the references and the flag changed;   *)
(* and what px_rel does to a state.                                        *)
Altered(p, q, base, refs, modified) ==
  /\ q \in Pages /\ q.bf_base = base /\ q.bf_refcount = refs
  /\ q.bf_modified = modified
  /\ q.bf_offset = p.bf_offset /\ q.bf_extent = p.bf_extent /\ q.bf_cnt = p.bf_cnt
  /\ q.bf_write = p.bf_write /\ q.pos = p.pos

Released(s, w, m, t) ==
  /\ t \in States /\ t.disk = s.disk /\ t.st = s.st /\ t.diff = s.diff
  /\ \A v \in Buffers \ {w} : t.px[v] = s.px[v]
  /\ Altered(s.px[w], t.px[w], s.px[w].bf_base, s.px[w].bf_refcount - 1,
             s.px[w].bf_modified \/ m)

(* px_rel gives up one reference and never clears the flag.                *)
LEMMA RelIs ==
  ASSUME NEW s \in States, NEW w \in Buffers, s.px[w] \in Pages, s.px[w].bf_refcount >= 1,
         NEW m \in BOOLEAN, NEW t, t = px_rel(s, w, m)
  PROVE  Released(s, w, m, t)
<1>1. PICK p \in Pages : p = s.px[w]
  OBVIOUS
<1>2. PICK q : q = [p EXCEPT !.bf_refcount = @ - 1, !.bf_modified = @ \/ m]
  OBVIOUS
<1>3. /\ q.bf_base = p.bf_base /\ q.bf_refcount = p.bf_refcount - 1
      /\ q.bf_modified = (p.bf_modified \/ m)
      /\ q.bf_offset = p.bf_offset /\ q.bf_extent = p.bf_extent /\ q.bf_cnt = p.bf_cnt
      /\ q.bf_write = p.bf_write /\ q.pos = p.pos
      /\ q = Fields(q)
  BY <1>2 DEF Pages, Fields
<1>4. q \in Pages
  <2>1. q.bf_refcount \in Nat
    BY <1>1, <1>3, PageFields
  <2>2. q.bf_modified \in BOOLEAN
    BY <1>3
  <2> QED
    BY <1>3, <2>1, <2>2 DEF Pages, Fields
<1>5. t = Page(s, w, q)
  BY <1>1, <1>2 DEF px_rel
<1>6. /\ t \in States /\ t.disk = s.disk /\ t.st = s.st /\ t.diff = s.diff
      /\ t.px[w] = q /\ \A v \in Buffers \ {w} : t.px[v] = s.px[v]
  <2>1. /\ Page(s, w, q) \in States /\ Page(s, w, q).disk = s.disk
        /\ Page(s, w, q).st = s.st /\ Page(s, w, q).diff = s.diff
        /\ Page(s, w, q).px[w] = q
        /\ \A v \in Buffers \ {w} : Page(s, w, q).px[v] = s.px[v]
    BY <1>4, PageIs, Zenon
  <2> QED
    BY <1>5, <2>1
<1> QED
  BY <1>1, <1>3, <1>4, <1>6 DEF Altered, Released

(* A client changes the memory and nothing else.                           *)
LEMMA ChangedIs ==
  ASSUME NEW s \in States, s.px["master"] \in Pages,
         NEW b \in [BufIndex -> Bytes], NEW t, t = Changed(s, b)
  PROVE  /\ t \in States /\ t.disk = s.disk /\ t.st = s.st /\ t.diff = s.diff
         /\ t.px["slave"] = s.px["slave"]
         /\ Altered(s.px["master"], t.px["master"], b, s.px["master"].bf_refcount,
                    s.px["master"].bf_modified)
<1>1. PICK p \in Pages : p = s.px["master"]
  OBVIOUS
<1>2. PICK q : q = [p EXCEPT !.bf_base = b]
  OBVIOUS
<1>3. /\ q.bf_base = b /\ q.bf_refcount = p.bf_refcount /\ q.bf_modified = p.bf_modified
      /\ q.bf_offset = p.bf_offset /\ q.bf_extent = p.bf_extent /\ q.bf_cnt = p.bf_cnt
      /\ q.bf_write = p.bf_write /\ q.pos = p.pos
      /\ q = Fields(q)
  BY <1>2 DEF Pages, Fields
<1>4. q \in Pages
  BY <1>3 DEF Pages, Fields
<1>5. t = Page(s, "master", q)
  BY <1>1, <1>2 DEF Changed
<1>6. /\ t \in States /\ t.disk = s.disk /\ t.st = s.st /\ t.diff = s.diff
      /\ t.px["master"] = q /\ t.px["slave"] = s.px["slave"]
  <2>1. "master" \in Buffers /\ "slave" \in Buffers \ {"master"}
    BY DEF Buffers
  <2>2. /\ Page(s, "master", q) \in States /\ Page(s, "master", q).disk = s.disk
        /\ Page(s, "master", q).st = s.st /\ Page(s, "master", q).diff = s.diff
        /\ Page(s, "master", q).px["master"] = q
        /\ \A v \in Buffers \ {"master"} : Page(s, "master", q).px[v] = s.px[v]
    BY <1>4, <2>1, PageIs, Zenon
  <2> QED
    BY <1>5, <2>1, <2>2
<1> QED
  BY <1>1, <1>3, <1>4, <1>6 DEF Altered

(* A state in which a region has just been got.                            *)
ResultIs(s, w, d, q, o, t) ==
  /\ t \in States /\ t.disk = d /\ t.px[w] = q /\ t.st = "ok"
  /\ t.diff = o - q.bf_offset /\ t.diff \in Nat
  /\ q \in Pages /\ Paged(q)
  /\ \A v \in Buffers \ {w} : t.px[v] = s.px[v]

(* Got, field by field.                                                    *)
LEMMA GotIs ==
  ASSUME NEW s \in States, NEW w \in Buffers, NEW d, NEW p, NEW q, NEW o \in Nat, NEW n,
         Gives(s.disk, p, d, q, o, n)
  PROVE  ResultIs(s, w, d, q, o, Result(s, w, d, q, o))
<1> PICK t : t = Result(s, w, d, q, o)
  OBVIOUS
<1>1. /\ t.disk = d /\ t.px = [s.px EXCEPT ![w] = q] /\ t.st = "ok" /\ t.diff = o - q.bf_offset
      /\ t = [disk |-> t.disk, px |-> t.px, st |-> t.st, diff |-> t.diff]
  BY DEF Result
<1>2. d \in Disks /\ q \in Pages /\ q.bf_offset \in Nat /\ q.bf_offset <= o /\ Paged(q)
  BY DEF Gives, Paged, Addr
<1>3. /\ t.px[w] = q /\ t.px \in [Buffers -> Pages \cup {NoSlave}]
      /\ \A v \in Buffers \ {w} : t.px[v] = s.px[v]
  BY <1>1, <1>2 DEF States
<1>4. t.diff \in Nat /\ t.diff \in Int
  BY <1>1, <1>2
<1>5. t \in States
  BY <1>1, <1>2, <1>3, <1>4 DEF States
<1> QED
  BY <1>1, <1>2, <1>3, <1>4, <1>5 DEF ResultIs

(* A client that got the n bytes from o, changed the memory to b and       *)
(* released it.                                                            *)
Returned(s, d, q, b, m, u) ==
  /\ u \in States /\ u.disk = d /\ u.st = "ok" /\ u.px["slave"] = s.px["slave"]
  /\ Altered(q, u.px["master"], b, 0, q.bf_modified \/ m)
  /\ Paged(u.px["master"]) /\ u.px["master"].pos = d.fd
  /\ u.px["master"].bf_cnt # 0

(* A client's get, change and release, put together.                       *)
LEMMA ClientIs ==
  ASSUME NEW s \in States, NEW d, NEW p, p = s.px["master"], p.bf_refcount = 0,
         p.bf_refcount \in Nat, NEW q, NEW o \in Nat,
         NEW n \in Nat \ {0}, Gives(s.disk, p, d, q, o, n),
         NEW t, t = Result(s, "master", d, q, o),
         NEW b \in [BufIndex -> Bytes], NEW m \in BOOLEAN,
         NEW u, u = px_rel(Changed(t, b), "master", m)
  PROVE  Returned(s, d, q, b, m, u)
<1>1. "master" \in Buffers /\ "slave" \in Buffers
  BY DEF Buffers
<1>2. /\ t \in States /\ t.disk = d /\ t.px["master"] = q /\ t.st = "ok"
      /\ q \in Pages /\ Paged(q) /\ t.px["slave"] = s.px["slave"]
  <2>1. ResultIs(s, "master", d, q, o, t)
    BY <1>1, GotIs
  <2> QED
    BY <1>1, <2>1 DEF ResultIs, Buffers
<1>3. q.bf_refcount = 1 /\ q.pos = d.fd /\ q.bf_offset \in Nat /\ q.bf_offset <= o
      /\ o + n <= q.bf_offset + q.bf_cnt /\ q.bf_cnt \in Nat
  BY <1>2, PageFields DEF Gives, Addr
<1>4. PICK c : c = Changed(t, b)
  OBVIOUS
<1>5. /\ c \in States /\ c.disk = d /\ c.st = "ok" /\ c.px["slave"] = s.px["slave"]
      /\ Altered(q, c.px["master"], b, 1, q.bf_modified)
  <2>1. /\ c \in States /\ c.disk = t.disk /\ c.st = t.st /\ c.diff = t.diff
        /\ c.px["slave"] = t.px["slave"]
        /\ Altered(t.px["master"], c.px["master"], b, t.px["master"].bf_refcount,
                   t.px["master"].bf_modified)
    <3>1. t \in States /\ t.px["master"] \in Pages
      BY <1>2
    <3> QED
      BY <1>4, <3>1, ChangedIs
  <2> QED
    BY <1>2, <1>3, <2>1
<1>6. c.px["master"] \in Pages /\ c.px["master"].bf_refcount >= 1 /\ c.px["master"].bf_base = b
      /\ c.px["master"].bf_refcount - 1 = 0 /\ c.px["master"].bf_modified = q.bf_modified
  BY <1>5 DEF Altered
<1>7. /\ u \in States /\ u.disk = d /\ u.st = "ok" /\ u.px["slave"] = s.px["slave"]
      /\ Altered(c.px["master"], u.px["master"], b, 0, q.bf_modified \/ m)
  <2>1. Released(c, "master", m, u)
    BY <1>1, <1>4, <1>5, <1>6, RelIs
  <2> QED
    BY <1>1, <1>5, <1>6, <2>1 DEF Released, Buffers
<1>8. Altered(q, u.px["master"], b, 0, q.bf_modified \/ m)
  BY <1>5, <1>7 DEF Altered
<1>9. Paged(u.px["master"])
  <2>1. q.bf_offset # OFF_NONE
    BY <1>3 DEF OFF_NONE
  <2> QED
    BY <1>2, <1>8, <2>1 DEF Paged, Altered
<1>10. q.bf_cnt # 0
  BY <1>3
<1> QED
  BY <1>3, <1>7, <1>8, <1>9, <1>10 DEF Altered, Returned

-----------------------------------------------------------------------------
(* What is true of the slave between two calls.                            *)
Slaved(p) ==
  p # NoSlave => /\ Paged(p) /\ p.bf_refcount = 0 /\ ~p.bf_modified /\ p.bf_offset # OFF_NONE
                 /\ p.bf_cnt = 0 => p.bf_offset \in {OFF_NONE, 0}

(* A call that ends with the buffers in order leaves them so.              *)
LEMMA StructureStep ==
  ASSUME NEW u \in States, Paged(u.px["master"]), u.px["master"].bf_refcount = 0,
         u.px["master"].pos = u.disk.fd,
         u.px["master"].bf_cnt = 0 => u.px["master"].bf_offset \in {OFF_NONE, 0},
         u.st \in {"ok", "err"}, Slaved(u.px["slave"]), Becomes(u), written' \subseteq Addr
  PROVE  Structure'
<1>1. u.px["master"] \in Pages
  BY DEF Paged
<1>2. /\ disk' \in Disks /\ disk'.data = u.disk.data /\ disk'.size = u.disk.size
      /\ disk'.fd = 0
      /\ px' \in [Buffers -> Pages \cup {NoSlave}]
      /\ Rested(u.px["master"], px'["master"])
      /\ u.px["slave"] = NoSlave => px'["slave"] = NoSlave
      /\ u.px["slave"] # NoSlave => Rested(u.px["slave"], px'["slave"])
      /\ st' = u.st
  BY <1>1, Settled
<1>3. ASSUME NEW p, NEW q, Rested(p, q), Paged(p), p.bf_refcount = 0,
             p.bf_cnt = 0 => p.bf_offset \in {OFF_NONE, 0}
      PROVE  Resting(q)
  BY <1>3 DEF Rested, Same, Resting, Paged
<1>4. Resting(px'["master"])
  BY <1>2, <1>3
<1>5. ASSUME px'["slave"] # NoSlave
      PROVE  /\ Resting(px'["slave"]) /\ ~px'["slave"].bf_modified
             /\ px'["slave"].bf_offset # OFF_NONE
  <2>1. u.px["slave"] # NoSlave /\ Rested(u.px["slave"], px'["slave"])
    BY <1>2, <1>5
  <2>2. Resting(px'["slave"])
    BY <1>3, <2>1 DEF Slaved
  <2> QED
    BY <2>1, <2>2 DEF Slaved, Rested, Same
<1> QED
  BY <1>2, <1>4, <1>5 DEF Structure, HasSlave

-----------------------------------------------------------------------------
(* What the file and the buffers must hold, where Faults is empty.         *)
Contents == [Addr -> Bytes \cup {Unset}]

(* Every byte of C is safe; or is held below m.                            *)
Holds(d, p, C) == \A a \in Addr : C[a] # Unset => Safe(d, p, a, C[a])
HoldsBelow(d, p, C, m) == \A a \in Addr : a < m /\ C[a] # Unset => Held(d, p, a, C[a])

(* The bytes that must be there.  In the loop of a move they are those of  *)
(* the goal, with what is still to be moved at its old place, and no claim *)
(* about where it will go.                                                 *)
Expected ==
  IF moving = NotMoving THEN Content
  ELSE [a \in Addr |->
    IF a \in moving.from .. moving.from + moving.remaining - 1
    THEN moving.goal[a + moving.to - moving.from]
    ELSE IF a \in moving.to .. moving.to + moving.remaining - 1 THEN Unset
    ELSE moving.goal[a]]

(* Below this address the slave must hold what is to be moved.             *)
Limit == IF moving = NotMoving THEN floor ELSE moving.from + moving.remaining

(* The goal of a move that is under way.                                   *)
Going ==
  moving # NotMoving =>
    /\ moving.goal \in Contents
    /\ \A a \in Addr : moving.goal[a] # Unset <=> a \in written
    /\ \A b \in moving.from .. moving.from + moving.n - 1 :
         b \notin moving.to .. moving.to + moving.n - 1 =>
           moving.goal[b] = moving.goal[b + moving.to - moving.from]

(* The inductive invariant of the contents.                                *)
CInv ==
  /\ Going
  /\ Holds(disk, px["master"], Expected)
  /\ HasSlave => /\ Limit <= px["slave"].bf_offset + px["slave"].bf_cnt
                 /\ HoldsBelow(disk, px["slave"], Expected, Limit)

(* What is held is what is seen.                                           *)
LEMMA ViewIs ==
  ASSUME NEW d \in Disks, NEW p, Paged(p), NEW a \in Addr
  PROVE  /\ View(d, p, a) \in Bytes
         /\ \A v : Held(d, p, a, v) => View(d, p, a) = v
<1>1. /\ a \in Nat /\ p \in Pages /\ p.bf_offset \in Int /\ p.bf_cnt \in Nat
      /\ p.bf_cnt <= 2 * blksz /\ blksz \in Nat /\ p.bf_base \in [BufIndex -> Bytes]
      /\ p.bf_offset # OFF_NONE => p.bf_offset \in Nat
      /\ d.data \in [Addr -> Bytes] /\ d.size \in Nat
  BY PageFields DEF Addr, Paged, Disks
<1>2. CASE Shown(p, a)
  <2>1. View(d, p, a) = p.bf_base[a - p.bf_offset]
    BY <1>1, <1>2 DEF View, Shown
  <2>2. a - p.bf_offset \in BufIndex
    BY <1>1, <1>2 DEF Shown, BufIndex
  <2> QED
    BY <1>1, <1>2, <2>1, <2>2 DEF Held
<1>3. CASE ~Shown(p, a)
  <2>1. View(d, p, a) = IF a < d.size THEN d.data[a] ELSE Zero
    BY <1>1, <1>3 DEF View, Shown
  <2>2. View(d, p, a) \in Bytes
    BY <1>1, <2>1 DEF Bytes
  <2>3. \A v : Held(d, p, a, v) => View(d, p, a) = v
    BY <1>3, <2>1 DEF Held, OnDisk
  <2> QED
    BY <2>2, <2>3
<1> QED
  BY <1>2, <1>3

(* The content that the bytes written show; and that C has a value just    *)
(* where W has an address.                                                 *)
ContentOf(d, p, W) == [a \in Addr |-> IF a \in W THEN View(d, p, a) ELSE Unset]

Sets(C, W) == C \in Contents /\ \A a \in Addr : C[a] # Unset <=> a \in W

(* A content has values just where something was written.                  *)
LEMMA ContentOfIs ==
  ASSUME NEW d \in Disks, NEW p, Paged(p), NEW W
  PROVE  /\ Sets(ContentOf(d, p, W), W)
         /\ \A a \in Addr \cap W : ContentOf(d, p, W)[a] = View(d, p, a)
<1>1. PICK C : C = ContentOf(d, p, W)
  OBVIOUS
<1>2. \A a \in Addr : C[a] = IF a \in W THEN View(d, p, a) ELSE Unset
  BY <1>1 DEF ContentOf
<1>3. \A a \in Addr : View(d, p, a) \in Bytes /\ View(d, p, a) # Unset
  BY ViewIs, ByteAssumption DEF Bytes
<1>4. \A a \in Addr : C[a] \in Bytes \cup {Unset} /\ (C[a] # Unset <=> a \in W)
  BY <1>2, <1>3
<1>5. C \in Contents
  BY <1>1, <1>4 DEF ContentOf, Contents
<1> QED
  BY <1>1, <1>2, <1>4, <1>5 DEF Sets

(* Where all of C is held and C is defined where bytes were written, the   *)
(* content is C.                                                           *)
LEMMA ContentFrom ==
  ASSUME NEW d \in Disks, NEW p, Paged(p), NEW W, NEW C, Sets(C, W), Holds(d, p, C)
  PROVE  ContentOf(d, p, W) = C
<1>1. PICK D : D = ContentOf(d, p, W)
  OBVIOUS
<1>2. Sets(D, W) /\ \A a \in Addr \cap W : D[a] = View(d, p, a)
  BY <1>1, ContentOfIs
<1>3. ASSUME NEW a \in Addr
      PROVE  D[a] = C[a]
  <2>1. CASE a \in W
    <3>1. C[a] # Unset /\ Held(d, p, a, C[a])
      BY <2>1 DEF Sets, Holds, Safe
    <3>2. View(d, p, a) = C[a]
      BY <3>1, ViewIs
    <3> QED
      BY <1>2, <2>1, <3>2
  <2>2. CASE a \notin W
    BY <1>2, <2>2 DEF Sets
  <2> QED
    BY <2>1, <2>2
<1>4. D \in [Addr -> Bytes \cup {Unset}] /\ C \in [Addr -> Bytes \cup {Unset}]
  BY <1>2 DEF Sets, Contents
<1>5. D = [a \in Addr |-> D[a]] /\ C = [a \in Addr |-> C[a]]
  BY <1>4
<1>6. [a \in Addr |-> D[a]] = [a \in Addr |-> C[a]]
  BY <1>3
<1> QED
  BY <1>1, <1>5, <1>6

(* A get keeps what the master holds and what the slave holds.             *)
LEMMA GiveKeeps ==
  ASSUME Faults = {}, NEW d0, NEW p, NEW d, NEW q, NEW o, NEW n, Gives(d0, p, d, q, o, n),
         NEW C \in Contents, Holds(d0, p, C)
  PROVE  /\ Holds(d, q, C)
         /\ \A r, m : HoldsBelow(d0, r, C, m) => HoldsBelow(d, r, C, m)
<1>1. ASSUME NEW a \in Addr, C[a] # Unset
      PROVE  /\ Safe(d, q, a, C[a])
             /\ OnDisk(d0, a, C[a]) => OnDisk(d, a, C[a])
  <2>1. C[a] \in Bytes /\ Safe(d0, p, a, C[a])
    BY <1>1 DEF Contents, Holds
  <2>2. Keeps(d0, p, d, q)
    BY DEF Gives
  <2> QED
    BY <2>1, <2>2 DEF Keeps
<1>2. Holds(d, q, C)
  BY <1>1 DEF Holds
<1>3. ASSUME NEW r, NEW m, HoldsBelow(d0, r, C, m), NEW a \in Addr, a < m, C[a] # Unset
      PROVE  Held(d, r, a, C[a])
  <2>1. Held(d0, r, a, C[a])
    BY <1>3 DEF HoldsBelow
  <2> QED
    BY <1>1, <1>3, <2>1 DEF Held
<1> QED
  BY <1>2, <1>3 DEF HoldsBelow

(* A state between two calls that holds C is one whose content is C.       *)
LEMMA Arrives ==
  ASSUME Structure', moving' = NotMoving, NEW C, Sets(C, written'),
         Holds(disk', px'["master"], C),
         px'["slave"] # NoSlave =>
           /\ floor' <= px'["slave"].bf_offset + px'["slave"].bf_cnt
           /\ HoldsBelow(disk', px'["slave"], C, floor')
  PROVE  CInv' /\ Content' = C
<1>1. disk' \in Disks /\ Paged(px'["master"])
  BY DEF Structure, Resting
<1>2. Content' = ContentOf(disk', px'["master"], written')
  BY DEF Content, ContentOf
<1>3. Content' = C
  BY <1>1, <1>2, ContentFrom
<1>4. Expected' = C /\ Limit' = floor'
  BY <1>3 DEF Expected, Limit
<1> QED
  BY <1>3, <1>4 DEF CInv, Going, HasSlave

-----------------------------------------------------------------------------
(* The end of a call.                                                      *)
AtRest(u) ==
  /\ u \in States /\ u.st \in {"ok", "err"} /\ Slaved(u.px["slave"])
  /\ Paged(u.px["master"]) /\ u.px["master"].bf_refcount = 0
  /\ u.px["master"].pos = u.disk.fd
  /\ u.px["master"].bf_cnt = 0 => u.px["master"].bf_offset \in {OFF_NONE, 0}

(* Master and slave hold C; the slave only below m.                        *)
AllHold(u, C, m) ==
  /\ Holds(u.disk, u.px["master"], C)
  /\ u.px["slave"] # NoSlave =>
       /\ m <= u.px["slave"].bf_offset + u.px["slave"].bf_cnt
       /\ HoldsBelow(u.disk, u.px["slave"], C, m)

(* They still do when the call is over.                                    *)
LEMMA EndHolds ==
  ASSUME NEW u, AtRest(u), Becomes(u), NEW C, NEW m, AllHold(u, C, m)
  PROVE  /\ Holds(disk', px'["master"], C)
         /\ px'["slave"] # NoSlave =>
              /\ m <= px'["slave"].bf_offset + px'["slave"].bf_cnt
              /\ HoldsBelow(disk', px'["slave"], C, m)
<1>1. u \in States /\ u.px["master"] \in Pages /\ u.px["master"].pos = u.disk.fd
  BY DEF AtRest, Paged
<1>2. /\ disk'.data = u.disk.data /\ disk'.size = u.disk.size
      /\ Rested(u.px["master"], px'["master"])
      /\ u.px["slave"] = NoSlave => px'["slave"] = NoSlave
      /\ u.px["slave"] # NoSlave => Rested(u.px["slave"], px'["slave"])
  BY <1>1, Settled
<1>3. Holds(disk', px'["master"], C)
  <2>1. \A a, v : Safe(u.disk, u.px["master"], a, v) <=> Safe(disk', px'["master"], a, v)
    BY <1>2, SameHolds DEF Rested
  <2> QED
    BY <2>1 DEF AllHold, Holds
<1>4. ASSUME px'["slave"] # NoSlave
      PROVE  /\ m <= px'["slave"].bf_offset + px'["slave"].bf_cnt
             /\ HoldsBelow(disk', px'["slave"], C, m)
  <2>1. u.px["slave"] # NoSlave /\ Same(u.px["slave"], px'["slave"])
    BY <1>2, <1>4 DEF Rested
  <2>2. \A a, v : Held(u.disk, u.px["slave"], a, v) <=> Held(disk', px'["slave"], a, v)
    BY <1>2, <2>1, SameHolds
  <2>3. HoldsBelow(disk', px'["slave"], C, m)
    BY <2>1, <2>2 DEF AllHold, HoldsBelow
  <2> QED
    BY <2>1, <2>3 DEF AllHold, Same
<1> QED
  BY <1>3, <1>4

(* The buffers are in order when the call is over.                         *)
LEMMA EndStructure ==
  ASSUME NEW u, AtRest(u), Becomes(u), written' \subseteq Addr
  PROVE  Structure'
BY StructureStep DEF AtRest

(* A call that leaves the buffers in order and holding C has C as its      *)
(* content.                                                                *)
LEMMA End ==
  ASSUME NEW u, AtRest(u), Becomes(u), written' \subseteq Addr, moving' = NotMoving,
         floor' \in Nat
  PROVE  /\ SInv'
         /\ \A C : Sets(C, written') /\ AllHold(u, C, floor')
                     => CInv' /\ Content' = C
<1>1. Structure'
  BY EndStructure
<1>2. Motion'
  BY DEF Motion
<1>3. ASSUME NEW C, Sets(C, written'), AllHold(u, C, floor')
      PROVE  CInv' /\ Content' = C
  <2>1. /\ Holds(disk', px'["master"], C)
        /\ px'["slave"] # NoSlave =>
              /\ floor' <= px'["slave"].bf_offset + px'["slave"].bf_cnt
              /\ HoldsBelow(disk', px'["slave"], C, floor')
    BY <1>3, EndHolds
  <2> QED
    BY <1>1, <1>3, <2>1, Arrives
<1> QED
  BY <1>1, <1>2, <1>3 DEF SInv

(* What is known when no call is under way.                                *)
LEMMA IdleHolds ==
  ASSUME SInv, CInv, moving = NotMoving
  PROVE  /\ Sets(Content, written) /\ Content \in Contents
         /\ AllHold(Now, Content, floor)
         /\ \A a \in Addr \cap written : Content[a] = View(disk, px["master"], a)
<1>1. Content = ContentOf(disk, px["master"], written)
  BY DEF Content, ContentOf
<1>2. disk \in Disks /\ Paged(px["master"])
  BY DEF SInv, Structure, Resting
<1>3. Sets(Content, written) /\ \A a \in Addr \cap written : Content[a] = View(disk, px["master"], a)
  BY <1>1, <1>2, ContentOfIs
<1>4. Expected = Content /\ Limit = floor
  BY DEF Expected, Limit
<1>5. AllHold(Now, Content, floor)
  BY <1>4 DEF CInv, AllHold, HasSlave, Now
<1> QED
  BY <1>3, <1>5 DEF Sets

(* A failure is reported and changes nothing.                              *)
LEMMA FailedIs ==
  ASSUME NEW s \in States, NEW t, t = Failed(s)
  PROVE  t \in States /\ t.disk = s.disk /\ t.px = s.px /\ t.st = "err"
<1>1. /\ t.disk = s.disk /\ t.px = s.px /\ t.st = "err" /\ t.diff = s.diff
      /\ t = [disk |-> t.disk, px |-> t.px, st |-> t.st, diff |-> t.diff]
  BY DEF Failed, States
<1> QED
  BY <1>1 DEF States

(* Changes of a buffer that nothing depends on.                            *)
LEMMA AlteredHolds ==
  ASSUME NEW p, NEW q, NEW refs, Paged(p), Altered(p, q, p.bf_base, refs, p.bf_modified)
  PROVE  /\ Paged(q)
         /\ \A d, a, v : /\ Held(d, p, a, v) <=> Held(d, q, a, v)
                         /\ Safe(d, p, a, v) <=> Safe(d, q, a, v)
<1>1. Paged(q)
  BY DEF Paged, Altered
<1>2. \A a : (Shown(p, a) <=> Shown(q, a)) /\ (Covered(p, a) <=> Covered(q, a))
  BY DEF Shown, Covered, Altered
<1>3. \A d, a, v : Held(d, p, a, v) <=> Held(d, q, a, v)
  BY <1>2 DEF Held, Altered
<1>4. \A d, a, v : Safe(d, p, a, v) <=> Safe(d, q, a, v)
  BY <1>2, <1>3 DEF Safe, Altered
<1> QED
  BY <1>1, <1>3, <1>4

-----------------------------------------------------------------------------
(* A get that fails.                                                       *)
LEMMA FailedEnd ==
  ASSUME SInv, NEW s, s = Failed(Page(Now, "slave", NoSlave)),
         Becomes(s), moving = NotMoving, UNCHANGED <<moving, written>>, floor' = NoFloor
  PROVE  SInv' /\ (CInv => CInv' /\ Content' = Content)
<1>1. PICK r : r = Page(Now, "slave", NoSlave)
  OBVIOUS
<1>2. /\ r \in States /\ r.disk = disk /\ r.px["master"] = px["master"]
      /\ r.px["slave"] = NoSlave /\ Ready(r, "master")
  BY <1>1, AloneReady DEF SInv
<1>3. s \in States /\ s.disk = r.disk /\ s.px = r.px /\ s.st = "err"
  BY <1>1, <1>2, FailedIs
<1>4. AtRest(s)
  BY <1>2, <1>3 DEF AtRest, Ready, Slaved
<1>5. floor' \in Nat
  BY BoundAssumption DEF NoFloor
<1>6. written' \subseteq Addr /\ written' = written /\ moving' = NotMoving
  BY DEF SInv, Structure
<1>7. /\ SInv'
      /\ \A C : Sets(C, written') /\ AllHold(s, C, floor')
                  => CInv' /\ Content' = C
  BY <1>4, <1>5, <1>6, End
<1>8. ASSUME CInv
      PROVE  CInv' /\ Content' = Content
  <2>1. Sets(Content, written) /\ AllHold(Now, Content, floor)
    BY <1>8, IdleHolds
  <2>2. AllHold(s, Content, floor')
    BY <1>2, <1>3, <2>1 DEF AllHold, Now
  <2> QED
    BY <1>6, <1>7, <2>1, <2>2
<1> QED
  BY <1>7, <1>8

(* Reading changes no byte.                                                *)
LEMMA ReadStep ==
  ASSUME Faults \subseteq {"short_read"}, SInv,
         NEW o \in Addr, NEW n \in Nat \ {0}, o + n <= Size, Read(o, n)
  PROVE  /\ SInv' /\ moving = NotMoving /\ moving' = NotMoving
         /\ Faults = {} /\ CInv => CInv' /\ Content' = Content
<1>1. PICK r : r = Page(Now, "slave", NoSlave)
  OBVIOUS
<1>2. /\ r \in States /\ r.disk = disk /\ r.px["master"] = px["master"]
      /\ r.px["slave"] = NoSlave /\ Ready(r, "master")
  BY <1>1, AloneReady DEF SInv
<1>3. PICK s \in px_get(r, "master", o, n, FALSE) :
        Becomes(IF s.st = "ok" THEN px_rel(s, "master", FALSE) ELSE s)
  BY <1>1 DEF Read, ncio_px_get
<1>4. moving = NotMoving /\ moving' = NotMoving /\ written' = written /\ floor' = NoFloor
  BY DEF Read, Idle
<1>5. o \in Nat /\ "master" \in Buffers
  BY DEF Addr, Buffers
<1>6. (s = Failed(r) /\ blksz < n) \/ Got(r, "master", s, o, n)
  BY <1>2, <1>3, <1>5, GetIs
<1>7. CASE s = Failed(r)
  <2>1. s.st = "err"
    BY <1>2, <1>7, FailedIs
  <2>2. Becomes(s)
    BY <1>3, <2>1
  <2> QED
    BY <1>1, <1>4, <1>7, <2>2, FailedEnd
<1>8. CASE Got(r, "master", s, o, n)
  <2>1. PICK d, q : Gives(r.disk, px["master"], d, q, o, n) /\ s = Result(r, "master", d, q, o)
    BY <1>2, <1>8 DEF Got
  <2>2. ResultIs(r, "master", d, q, o, s)
    BY <1>2, <1>5, <2>1, GotIs
  <2>3. /\ s \in States /\ s.disk = d /\ s.px["master"] = q /\ s.st = "ok" /\ q \in Pages
        /\ Paged(q) /\ s.px["slave"] = NoSlave
    BY <1>2, <2>2 DEF ResultIs, Buffers
  <2>4. q.bf_refcount = 1 /\ q.pos = d.fd /\ q.bf_cnt # 0
    <3>1. px["master"].bf_refcount = 0
      BY DEF SInv, Structure, Resting
    <3>2. q.bf_cnt \in Nat /\ q.bf_offset \in Nat
      BY <2>1, <2>3, PageFields DEF Gives, Addr
    <3> QED
      BY <1>5, <2>1, <3>1, <3>2 DEF Gives
  <2>5. PICK u : u = px_rel(s, "master", FALSE)
    OBVIOUS
  <2>6. /\ u \in States /\ u.disk = d /\ u.st = "ok" /\ u.px["slave"] = NoSlave
        /\ Altered(q, u.px["master"], q.bf_base, 0, q.bf_modified)
    <3>1. s.px["master"] \in Pages /\ s.px["master"].bf_refcount >= 1
      BY <2>3, <2>4
    <3>2. PICK m \in BOOLEAN : m = FALSE
      OBVIOUS
    <3>3. Released(s, "master", m, u)
      BY <1>5, <2>3, <2>5, <3>1, <3>2, RelIs
    <3>4. Altered(q, u.px["master"], q.bf_base, 1 - 1, q.bf_modified \/ FALSE)
      BY <2>3, <2>4, <3>3, <3>2 DEF Released
    <3>5. (q.bf_modified \/ FALSE) = q.bf_modified
      BY <2>3, PageFields
    <3> QED
      BY <2>3, <3>3, <3>4, <3>5 DEF Buffers, Released
  <2>7. /\ Paged(u.px["master"])
        /\ \A e, a, v : Safe(e, q, a, v) <=> Safe(e, u.px["master"], a, v)
    <3>1. PICK z : z = u.px["master"]
      OBVIOUS
    <3>2. Paged(q) /\ Altered(q, z, q.bf_base, 0, q.bf_modified)
      BY <2>3, <2>6, <3>1
    <3>3. Paged(z) /\ \A e, a, v : Safe(e, q, a, v) <=> Safe(e, z, a, v)
      BY <3>2, AlteredHolds
    <3> QED
      BY <3>1, <3>3
  <2>8. AtRest(u)
    BY <2>4, <2>6, <2>7 DEF AtRest, Slaved, Altered
  <2>9. Becomes(u)
    BY <1>3, <2>3, <2>5
  <2>10. floor' \in Nat
    BY <1>4, BoundAssumption DEF NoFloor
  <2>11. written' \subseteq Addr
    BY <1>4 DEF SInv, Structure
  <2>12. /\ SInv'
         /\ \A C : Sets(C, written') /\ AllHold(u, C, floor')
                     => CInv' /\ Content' = C
    BY <1>4, <2>8, <2>9, <2>10, <2>11, End
  <2>13. ASSUME Faults = {}, CInv
         PROVE  CInv' /\ Content' = Content
    <3>1. Sets(Content, written) /\ Content \in Contents /\ AllHold(Now, Content, floor)
      BY <1>4, <2>13, IdleHolds
    <3>2. Holds(r.disk, px["master"], Content)
      BY <1>2, <3>1 DEF AllHold, Now
    <3>3. Holds(d, q, Content)
      BY <2>1, <2>13, <3>1, <3>2, GiveKeeps
    <3>4. AllHold(u, Content, floor')
      BY <2>6, <2>7, <3>3 DEF AllHold, Holds
    <3> QED
      BY <1>4, <2>12, <3>1, <3>4
  <2> QED
    BY <1>4, <2>12, <2>13
<1> QED
  BY <1>6, <1>7, <1>8

(* What a write of v to m bytes from o does.                               *)
Wrote(o, m, v) ==
  /\ SInv' /\ moving = NotMoving /\ moving' = NotMoving
  /\ Faults = {} /\ CInv =>
       /\ CInv'
       /\ \/ Content' = Content
          \/ Content' = [a \in Addr |-> IF a \in o .. o + m - 1 THEN v ELSE Content[a]]

(* A write changes the bytes it was given and no other.                    *)
LEMMA WriteStep ==
  ASSUME Faults \subseteq {"short_read"}, SInv,
         NEW o \in Addr, NEW n \in Nat \ {0}, o + n <= Size, NEW m \in 1 .. n,
         NEW v \in {Plain, Mark}, Write(o, n, m, v)
  PROVE  Wrote(o, m, v)
<1>1. PICK r : r = Page(Now, "slave", NoSlave)
  OBVIOUS
<1>2. /\ r \in States /\ r.disk = disk /\ r.px["master"] = px["master"]
      /\ r.px["slave"] = NoSlave /\ Ready(r, "master")
  BY <1>1, AloneReady DEF SInv
<1>3. PICK s \in px_get(r, "master", o, n, TRUE) :
        IF s.st # "ok" THEN Becomes(s) /\ UNCHANGED written
        ELSE /\ Becomes(px_rel(Changed(s,
                  [i \in BufIndex |-> IF i \in s.diff .. s.diff + m - 1 THEN v
                                      ELSE s.px["master"].bf_base[i]]), "master", TRUE))
             /\ written' = written \cup (o .. o + m - 1)
  BY <1>1 DEF Write, ncio_px_get
<1>4. moving = NotMoving /\ moving' = NotMoving /\ floor' = NoFloor
  BY DEF Write, Idle
<1>5. o \in Nat /\ "master" \in Buffers
  BY DEF Addr, Buffers
<1>6. (s = Failed(r) /\ blksz < n) \/ Got(r, "master", s, o, n)
  <2>1. PICK write \in BOOLEAN : write = TRUE
    OBVIOUS
  <2>2. s \in px_get(r, "master", o, n, write)
    BY <1>3, <2>1
  <2> QED
    BY <1>2, <1>5, <2>2, GetIs
<1>7. CASE s = Failed(r)
  <2>1. s.st = "err"
    BY <1>2, <1>7, FailedIs
  <2>2. Becomes(s) /\ written' = written
    BY <1>3, <2>1
  <2>3. SInv' /\ (CInv => CInv' /\ Content' = Content)
    BY <1>1, <1>4, <1>7, <2>2, FailedEnd
  <2> QED
    BY <1>4, <2>3 DEF Wrote
<1>8. CASE Got(r, "master", s, o, n)
  <2>1. PICK d, q : Gives(r.disk, px["master"], d, q, o, n) /\ s = Result(r, "master", d, q, o)
    BY <1>2, <1>8 DEF Got
  <2>2. ResultIs(r, "master", d, q, o, s)
    BY <1>2, <1>5, <2>1, GotIs
  <2>3. /\ s.px["master"] = q /\ s.st = "ok" /\ q \in Pages /\ Paged(q)
        /\ s.diff = o - q.bf_offset /\ s.diff \in Nat
    BY <2>2 DEF ResultIs
  <2>4. PICK b : b = [i \in BufIndex |-> IF i \in s.diff .. s.diff + m - 1 THEN v
                                         ELSE q.bf_base[i]]
    OBVIOUS
  <2>5. b \in [BufIndex -> Bytes]
    <3>1. v \in Bytes
      BY DEF Bytes
    <3>2. \A i \in BufIndex : q.bf_base[i] \in Bytes
      BY <2>3, PageFields
    <3> QED
      BY <2>4, <3>1, <3>2
  <2>6. PICK u : u = px_rel(Changed(s, b), "master", TRUE)
    OBVIOUS
  <2>7. Becomes(u) /\ written' = written \cup (o .. o + m - 1)
    BY <1>3, <2>3, <2>4, <2>6
  <2>8. /\ u \in States /\ u.disk = d /\ u.st = "ok" /\ u.px["slave"] = NoSlave
        /\ Altered(q, u.px["master"], b, 0, TRUE)
        /\ Paged(u.px["master"]) /\ u.px["master"].pos = d.fd /\ u.px["master"].bf_cnt # 0
    <3>1. px["master"].bf_refcount = 0 /\ px["master"].bf_refcount \in Nat
      BY DEF SInv, Structure, Resting
    <3>2. PICK z \in BOOLEAN : z = TRUE
      OBVIOUS
    <3>3. u = px_rel(Changed(s, b), "master", z)
      BY <2>6, <3>2
    <3>4. Returned(r, d, q, b, z, u)
      <4>1. px["master"] = r.px["master"] /\ Gives(r.disk, px["master"], d, q, o, n)
            /\ s = Result(r, "master", d, q, o)
        BY <1>2, <2>1
      <4> QED
        BY <1>2, <1>5, <2>5, <3>1, <3>3, <4>1, ClientIs
    <3>5. (q.bf_modified \/ z) = TRUE
      BY <3>2
    <3> QED
      BY <1>2, <3>4, <3>5 DEF Returned
  <2>9. AtRest(u)
    BY <2>8 DEF AtRest, Slaved, Altered
  <2>10. floor' \in Nat
    BY <1>4, BoundAssumption DEF NoFloor
  <2>11. n \in Nat /\ Size \in Nat /\ m \in Nat /\ m # 0 /\ m <= n
    BY BoundAssumption
  <2>12. o .. o + m - 1 \subseteq Addr
    BY <1>5, <2>11 DEF Addr
  <2>13. written' \subseteq Addr
    BY <2>7, <2>12 DEF SInv, Structure
  <2>14. /\ SInv'
         /\ \A C : Sets(C, written') /\ AllHold(u, C, floor')
                     => CInv' /\ Content' = C
    BY <1>4, <2>7, <2>9, <2>10, <2>13, End
  <2>15. ASSUME Faults = {}, CInv
         PROVE  CInv' /\ Content' = [a \in Addr |-> IF a \in o .. o + m - 1 THEN v ELSE Content[a]]
    <3>1. Sets(Content, written) /\ Content \in Contents /\ AllHold(Now, Content, floor)
      BY <1>4, <2>15, IdleHolds
    <3>2. Holds(r.disk, px["master"], Content)
      BY <1>2, <3>1 DEF AllHold, Now
    <3>3. Holds(d, q, Content)
      BY <2>1, <2>15, <3>1, <3>2, GiveKeeps
    <3>4. PICK C : C = [a \in Addr |-> IF a \in o .. o + m - 1 THEN v ELSE Content[a]]
      OBVIOUS
    <3>5. v \in Bytes /\ v # Unset
      BY ByteAssumption DEF Bytes
    <3>6. Sets(C, written')
      BY <2>7, <3>1, <3>4, <3>5 DEF Sets, Contents
    <3>7. PICK x : x = u.px["master"]
      OBVIOUS
    <3>8. /\ x.bf_offset = q.bf_offset /\ x.bf_extent = q.bf_extent /\ x.bf_cnt = q.bf_cnt
          /\ x.bf_base = b /\ x.bf_modified = TRUE
      BY <2>8, <3>7 DEF Altered
    <3>9. /\ q.bf_offset \in Nat /\ q.bf_offset # OFF_NONE /\ q.bf_offset <= o
          /\ o + n <= q.bf_offset + q.bf_cnt /\ q.bf_cnt \in Nat /\ q.bf_cnt <= 2 * blksz
          /\ blksz \in Nat
      BY <2>1, <2>3, PageFields DEF Gives, Addr, OFF_NONE
    <3>10. ASSUME NEW a \in Addr, C[a] # Unset
           PROVE  Safe(d, x, a, C[a])
      <4>1. a \in Nat
        BY DEF Addr
      <4>2. CASE a \in o .. o + m - 1
        <5>1. PICK i \in BufIndex : i = a - q.bf_offset
          BY <1>5, <2>11, <3>9, <4>1, <4>2 DEF BufIndex
        <5>2. i \in s.diff .. s.diff + m - 1
          BY <1>5, <2>3, <2>11, <3>9, <4>1, <4>2, <5>1
        <5>3. b[i] = C[a]
          BY <2>4, <3>4, <4>2, <5>2
        <5>4. Shown(x, a)
          BY <1>5, <2>11, <3>8, <3>9, <4>1, <4>2 DEF Shown
        <5> QED
          BY <3>8, <5>1, <5>3, <5>4 DEF Safe, Held
      <4>3. CASE a \notin o .. o + m - 1
        <5>1. C[a] = Content[a] /\ Held(d, q, a, C[a])
          BY <3>3, <3>4, <3>10, <4>3 DEF Holds, Safe
        <5>2. CASE Shown(q, a)
          <6>1. PICK i \in BufIndex : i = a - q.bf_offset
            BY <3>9, <4>1, <5>2 DEF BufIndex, Shown
          <6>2. i \notin s.diff .. s.diff + m - 1
            BY <1>5, <2>3, <2>11, <3>9, <4>1, <4>3, <6>1
          <6>3. b[i] = q.bf_base[i]
            BY <2>4, <6>2
          <6>4. Shown(x, a)
            BY <3>8, <5>2 DEF Shown
          <6> QED
            BY <3>8, <5>1, <5>2, <6>1, <6>3, <6>4 DEF Safe, Held
        <5>3. CASE ~Shown(q, a)
          <6>1. ~Covered(q, a) /\ OnDisk(d, a, C[a])
            BY <5>1, <5>3 DEF Held
          <6>2. ~Covered(x, a) /\ ~Shown(x, a)
            BY <3>8, <5>3, <6>1 DEF Covered, Shown
          <6> QED
            BY <6>1, <6>2 DEF Safe, Held
        <5> QED
          BY <5>2, <5>3
      <4> QED
        BY <4>2, <4>3
    <3>11. AllHold(u, C, floor')
      BY <2>8, <3>7, <3>10 DEF AllHold, Holds
    <3> QED
      BY <2>14, <3>4, <3>6, <3>11
  <2> QED
    BY <1>4, <2>14, <2>15 DEF Wrote
<1> QED
  BY <1>6, <1>7, <1>8

-----------------------------------------------------------------------------
(* A move defines just the bytes whose source was defined.                 *)
LEMMA MovedIs ==
  ASSUME Sets(Content, written), written \subseteq Addr,
         NEW to \in Addr, NEW from \in Addr, NEW n \in Nat \ {0},
         to + n <= Size, from + n <= Size
  PROVE  /\ Sets(Moved(to, from, n), MovedWritten(to, from, n))
         /\ MovedWritten(to, from, n) \subseteq Addr
<1>1. to \in Nat /\ from \in Nat /\ Size \in Nat /\ n \in Nat
  BY BoundAssumption DEF Addr
<1>2. to .. to + n - 1 \subseteq Addr
  BY <1>1 DEF Addr
<1>3. \A a \in to .. to + n - 1 : a - to + from \in Addr
  BY <1>1 DEF Addr
<1>4. PICK C : C = Moved(to, from, n)
  OBVIOUS
<1>5. \A a \in Addr : C[a] = IF a \in to .. to + n - 1 THEN Content[a - to + from] ELSE Content[a]
  BY <1>4 DEF Moved
<1>6. C \in Contents
  <2>1. \A a \in Addr : C[a] \in Bytes \cup {Unset}
    BY <1>3, <1>5 DEF Sets, Contents
  <2> QED
    BY <1>4, <2>1 DEF Contents, Moved
<1>7. PICK W : W = MovedWritten(to, from, n)
  OBVIOUS
<1>8. W \subseteq Addr
  BY <1>2, <1>7 DEF MovedWritten
<1>9. ASSUME NEW a \in Addr
      PROVE  C[a] # Unset <=> a \in W
  <2>1. CASE a \in to .. to + n - 1
    <3>1. C[a] = Content[a - to + from] /\ a - to + from \in Addr
      BY <1>3, <1>5, <2>1
    <3>2. a \in W <=> a - to + from \in written
      BY <1>7, <2>1 DEF MovedWritten
    <3> QED
      BY <3>1, <3>2 DEF Sets
  <2>2. CASE a \notin to .. to + n - 1
    <3>1. C[a] = Content[a]
      BY <1>5, <2>2
    <3>2. a \in W <=> a \in written
      BY <1>7, <2>2 DEF MovedWritten
    <3> QED
      BY <3>1, <3>2 DEF Sets
  <2> QED
    BY <2>1, <2>2
<1> QED
  BY <1>4, <1>6, <1>7, <1>8, <1>9 DEF Sets

(* The slave is in order at the start of a call.                           *)
LEMMA SlavedNow ==
  ASSUME Structure
  PROVE  Slaved(px["slave"])
BY DEF Structure, HasSlave, Slaved, Resting

(* Where the sources of the next moves end: the padding belongs to what    *)
(* this move has read, and is below what it wrote.                         *)
LEMMA FloorIs ==
  ASSUME NEW to \in Nat, NEW from \in Nat, from < to
  PROVE  /\ NextFloor(to, from) \in Nat /\ Pad \in Nat
         /\ NextFloor(to, from) <= to /\ NextFloor(to, from) <= from + Pad
BY PadAssumption DEF NextFloor, MinOf

(* What is left of a length after whole blocks is no less than the padding.*)
LEMMA LeftIs ==
  ASSUME NEW n \in MoveLengths, n <= Size, NEW k \in Nat, NEW m \in Nat \ {0},
         m = n - k * blksz
  PROVE  m >= Pad
<1>1. n \in Nat /\ Size \in Nat /\ blksz \in Nat /\ blksz # 0
  BY BoundAssumption, BlockAssumption
<1>2. PICK b \in Nat : b = k * blksz /\ k <= b
  <2>1. k * blksz \in Nat /\ k <= k * blksz
    BY <1>1, SMTT(30)
  <2> QED
    BY <2>1
<1>3. b < n /\ n - b = m
  BY <1>1, <1>2
<1>4. k \in 0 .. Size
  BY <1>1, <1>2, <1>3
<1>5. n - k * blksz >= Pad
  BY <1>2, <1>3, <1>4, PadAssumption
<1> QED
  BY <1>5

(* A move within a block is a memmove, and the slave of an earlier move    *)
(* stays right below where this one begins.                                *)
LEMMA MoveSmallStep ==
  ASSUME Faults \subseteq {"short_read"}, SInv,
         NEW to \in Addr, NEW from \in Addr, NEW n \in Nat \ {0}, n \in MoveLengths,
         to + n <= Size, from + n <= Size, MoveSmall(to, from, n)
  PROVE  /\ SInv' /\ moving = NotMoving /\ moving' = NotMoving
         /\ Faults = {} /\ CInv => CInv' /\ Content' = Moved(to, from, n)
<1>1. to \in Nat /\ from \in Nat /\ Size \in Nat /\ n \in Nat /\ n # 0 /\ blksz \in Nat
  BY BoundAssumption, BlockAssumption DEF Addr
<1>2. from < to /\ moving = NotMoving /\ moving' = NotMoving
      /\ (HasSlave => from + n <= floor)
      /\ floor' = IF HasSlave THEN NextFloor(to, from) ELSE NoFloor
  BY DEF MoveSmall, Allowed, Idle
<1>3. MinOf(to, from) = from /\ MaxOf(to, from) = to
  BY <1>1, <1>2 DEF MinOf, MaxOf
<1>4. PICK extent \in Nat \ {0} : extent = to - from + n
  BY <1>1, <1>2
<1>5. extent <= blksz
  BY <1>3, <1>4 DEF MoveSmall
<1>6. PICK s \in px_get(Now, "master", from, extent, TRUE) :
        IF s.st # "ok" THEN Becomes(s) /\ UNCHANGED written
        ELSE
          /\ Becomes(px_rel(Changed(s,
               [i \in BufIndex |->
                  IF i \in s.diff + to - from .. s.diff + to - from + n - 1
                  THEN s.px["master"].bf_base[i - (s.diff + to - from) + (s.diff + from - from)]
                  ELSE s.px["master"].bf_base[i]]), "master", TRUE))
          /\ written' = MovedWritten(to, from, n)
  BY <1>3, <1>4 DEF MoveSmall
<1>7. /\ Now \in States /\ Now.disk = disk /\ Now.px = px /\ Ready(Now, "master")
      /\ "master" \in Buffers
  BY NowReady DEF SInv, Buffers
<1>8. Got(Now, "master", s, from, extent)
  <2>1. PICK write \in BOOLEAN : write = TRUE
    OBVIOUS
  <2>2. s \in px_get(Now, "master", from, extent, write)
    BY <1>6, <2>1
  <2>3. from + extent <= Size
    BY <1>1, <1>2, <1>4
  <2>4. (s = Failed(Now) /\ blksz < extent) \/ Got(Now, "master", s, from, extent)
    BY <1>1, <1>7, <2>2, <2>3, GetIs
  <2> QED
    BY <1>1, <1>5, <2>4
<1>9. PICK d, q : Gives(disk, px["master"], d, q, from, extent) /\ s = Result(Now, "master", d, q, from)
  BY <1>7, <1>8 DEF Got
<1>10. ResultIs(Now, "master", d, q, from, s)
  BY <1>1, <1>7, <1>9, GotIs
<1>11. /\ s.px["master"] = q /\ s.st = "ok" /\ q \in Pages /\ Paged(q)
       /\ s.diff = from - q.bf_offset /\ s.diff \in Nat
  BY <1>10 DEF ResultIs
<1>12. /\ q.bf_offset \in Nat /\ q.bf_offset # OFF_NONE /\ q.bf_offset <= from
       /\ from + extent <= q.bf_offset + q.bf_cnt /\ q.bf_cnt \in Nat /\ q.bf_cnt <= 2 * blksz
  BY <1>9, <1>11, PageFields DEF Gives, Addr, OFF_NONE
<1>13. PICK dst \in Nat : dst = to - q.bf_offset /\ dst + n <= q.bf_cnt
  BY <1>1, <1>2, <1>4, <1>12
<1>14. PICK b : b = [i \in BufIndex |-> IF i \in dst .. dst + n - 1
                                        THEN q.bf_base[i - to + from] ELSE q.bf_base[i]]
  OBVIOUS
<1>15. b = [i \in BufIndex |->
              IF i \in s.diff + to - from .. s.diff + to - from + n - 1
              THEN s.px["master"].bf_base[i - (s.diff + to - from) + (s.diff + from - from)]
              ELSE s.px["master"].bf_base[i]]
  <2>1. s.diff + to - from = dst
    BY <1>1, <1>11, <1>12, <1>13
  <2>2. \A i \in BufIndex : i - dst + (s.diff + from - from) = i - to + from
    BY <1>1, <1>11, <1>12, <1>13 DEF BufIndex
  <2> QED
    BY <1>11, <1>14, <2>1, <2>2
<1>16. b \in [BufIndex -> Bytes]
  <2>1. ASSUME NEW i \in BufIndex
        PROVE  b[i] \in Bytes
    <3>1. i \in dst .. dst + n - 1 => i - to + from \in BufIndex
      BY <1>1, <1>2, <1>12, <1>13 DEF BufIndex
    <3> QED
      BY <1>11, <1>14, <3>1, PageFields
  <2> QED
    BY <1>14, <2>1
<1>17. PICK u : u = px_rel(Changed(s, b), "master", TRUE)
  OBVIOUS
<1>18. Becomes(u) /\ written' = MovedWritten(to, from, n)
  BY <1>6, <1>11, <1>15, <1>17
<1>19. /\ u \in States /\ u.disk = d /\ u.st = "ok" /\ u.px["slave"] = px["slave"]
       /\ Altered(q, u.px["master"], b, 0, TRUE)
       /\ Paged(u.px["master"]) /\ u.px["master"].pos = d.fd /\ u.px["master"].bf_cnt # 0
  <2>1. px["master"].bf_refcount = 0 /\ px["master"].bf_refcount \in Nat
    BY DEF SInv, Structure, Resting
  <2>2. PICK z \in BOOLEAN : z = TRUE
    OBVIOUS
  <2>3. u = px_rel(Changed(s, b), "master", z)
    BY <1>17, <2>2
  <2>4. Returned(Now, d, q, b, z, u)
    <3>1. px["master"] = Now.px["master"] /\ Gives(Now.disk, px["master"], d, q, from, extent)
          /\ s = Result(Now, "master", d, q, from)
      BY <1>7, <1>9
    <3> QED
      BY <1>1, <1>7, <1>16, <2>1, <2>3, <3>1, ClientIs
  <2>5. (q.bf_modified \/ z) = TRUE
    BY <2>2
  <2> QED
    BY <1>7, <2>4, <2>5 DEF Returned
<1>20. AtRest(u)
  BY <1>19, SlavedNow DEF AtRest, Altered, SInv
<1>21. floor' \in Nat
  BY <1>1, <1>2, FloorIs DEF NoFloor
<1>22. written' \subseteq Addr
  <2>1. \A a \in to .. to + n - 1 : a \in Addr
    BY <1>1 DEF Addr
  <2> QED
    BY <1>18, <2>1 DEF MovedWritten, SInv, Structure
<1>23. /\ SInv'
       /\ \A C : Sets(C, written') /\ AllHold(u, C, floor')
                   => CInv' /\ Content' = C
  BY <1>2, <1>18, <1>20, <1>21, <1>22, End
<1>24. ASSUME Faults = {}, CInv
       PROVE  CInv' /\ Content' = Moved(to, from, n)
  <2>1. Sets(Content, written) /\ Content \in Contents /\ AllHold(Now, Content, floor)
    BY <1>2, <1>24, IdleHolds
  <2>2. PICK C : C = Moved(to, from, n)
    OBVIOUS
  <2>3. Sets(C, written')
    BY <1>18, <2>1, <2>2, MovedIs DEF SInv, Structure
  <2>4. \A a \in Addr : C[a] = IF a \in to .. to + n - 1 THEN Content[a - to + from] ELSE Content[a]
    BY <2>2 DEF Moved
  <2>5. Holds(disk, px["master"], Content)
    BY <1>7, <2>1 DEF AllHold
  <2>6. /\ Holds(d, q, Content)
        /\ \A r, m : HoldsBelow(disk, r, Content, m) => HoldsBelow(d, r, Content, m)
    BY <1>9, <1>24, <2>1, <2>5, GiveKeeps
  <2>7. PICK x : x = u.px["master"]
    OBVIOUS
  <2>8. /\ x.bf_offset = q.bf_offset /\ x.bf_extent = q.bf_extent /\ x.bf_cnt = q.bf_cnt
        /\ x.bf_base = b /\ x.bf_modified = TRUE
    BY <1>19, <2>7 DEF Altered
  <2>9. ASSUME NEW a \in Addr, C[a] # Unset
        PROVE  Safe(d, x, a, C[a])
    <3>1. a \in Nat
      BY DEF Addr
    <3>2. CASE a \in to .. to + n - 1
      <4>1. PICK c \in Addr : c = a - to + from
        BY <1>1, <1>2, <3>1, <3>2 DEF Addr
      <4>2. C[a] = Content[c] /\ Held(d, q, c, Content[c])
        BY <2>4, <2>6, <2>9, <3>2, <4>1 DEF Holds, Safe
      <4>3. Shown(q, c)
        BY <1>1, <1>2, <1>4, <1>12, <3>1, <3>2, <4>1 DEF Shown
      <4>4. PICK i \in BufIndex : i = a - q.bf_offset
        BY <1>1, <1>2, <1>12, <1>13, <3>1, <3>2 DEF BufIndex
      <4>5. i \in dst .. dst + n - 1 /\ i - to + from = c - q.bf_offset
        BY <1>1, <1>12, <1>13, <3>1, <3>2, <4>1, <4>4
      <4>6. b[i] = q.bf_base[c - q.bf_offset]
        BY <1>14, <4>5
      <4>7. Shown(x, a)
        BY <1>1, <1>2, <1>12, <1>13, <2>8, <3>1, <3>2 DEF Shown
      <4> QED
        BY <2>8, <4>2, <4>3, <4>4, <4>6, <4>7 DEF Safe, Held
    <3>3. CASE a \notin to .. to + n - 1
      <4>1. C[a] = Content[a] /\ Held(d, q, a, C[a])
        BY <2>4, <2>6, <2>9, <3>3 DEF Holds, Safe
      <4>2. CASE Shown(q, a)
        <5>1. PICK i \in BufIndex : i = a - q.bf_offset
          BY <1>1, <1>12, <3>1, <4>2 DEF BufIndex, Shown
        <5>2. i \notin dst .. dst + n - 1
          BY <1>1, <1>12, <1>13, <3>1, <3>3, <5>1
        <5>3. b[i] = q.bf_base[i]
          BY <1>14, <5>2
        <5>4. Shown(x, a)
          BY <2>8, <4>2 DEF Shown
        <5> QED
          BY <2>8, <4>1, <4>2, <5>1, <5>3, <5>4 DEF Safe, Held
      <4>3. CASE ~Shown(q, a)
        <5>1. ~Covered(q, a) /\ OnDisk(d, a, C[a])
          BY <4>1, <4>3 DEF Held
        <5>2. ~Covered(x, a) /\ ~Shown(x, a)
          BY <2>8, <4>3, <5>1 DEF Covered, Shown
        <5> QED
          BY <5>1, <5>2 DEF Safe, Held
      <4> QED
        BY <4>2, <4>3
    <3> QED
      BY <3>2, <3>3
  <2>10. ASSUME u.px["slave"] # NoSlave
         PROVE  /\ floor' <= u.px["slave"].bf_offset + u.px["slave"].bf_cnt
                /\ HoldsBelow(u.disk, u.px["slave"], C, floor')
    <3>1. PICK p \in Pages : p = px["slave"] /\ u.px["slave"] = p /\ HasSlave
      BY <1>19, <2>10 DEF HasSlave, SInv, Structure, Resting, Paged
    <3>2. PICK m \in Nat : m = floor' /\ m <= to /\ m <= from + Pad /\ Pad \in Nat
      BY <1>1, <1>2, <3>1, FloorIs
    <3>3. from + n <= floor
      BY <1>2, <3>1
    <3>4. n >= Pad
      <4>1. n = n - 0 * blksz /\ n <= Size
        BY <1>1
      <4> QED
        BY <4>1, LeftIs
    <3>5. /\ floor <= p.bf_offset + p.bf_cnt
          /\ HoldsBelow(disk, p, Content, floor)
      BY <1>7, <2>1, <3>1 DEF AllHold, HasSlave
    <3>6. HoldsBelow(d, p, Content, floor)
      BY <2>6, <3>5
    <3>7. floor \in Nat /\ p.bf_offset \in Int /\ p.bf_cnt \in Nat
      BY PageFields DEF SInv, Motion
    <3>8. m <= floor
      BY <1>1, <3>2, <3>3, <3>4, <3>7
    <3>9. HoldsBelow(d, p, C, m)
      <4>1. SUFFICES ASSUME NEW a \in Addr, a < m, C[a] # Unset
                     PROVE  Held(d, p, a, C[a])
        BY DEF HoldsBelow
      <4>2. a < floor /\ a \notin to .. to + n - 1
        BY <1>1, <3>2, <3>7, <3>8, <4>1 DEF Addr
      <4> QED
        BY <2>4, <3>6, <4>1, <4>2 DEF HoldsBelow
    <3> QED
      BY <1>19, <3>1, <3>2, <3>5, <3>7, <3>8, <3>9
  <2>11. AllHold(u, C, floor')
    BY <1>19, <2>7, <2>9, <2>10 DEF AllHold, Holds
  <2> QED
    BY <1>23, <2>2, <2>3, <2>11
<1> QED
  BY <1>2, <1>23, <1>24

(* The loop of a move begins: nothing has changed yet.                     *)
LEMMA MoveBeginStep ==
  ASSUME SInv, NEW to \in Addr, NEW from \in Addr, NEW n \in Nat \ {0},
         n \in MoveLengths, to + n <= Size, from + n <= Size, MoveBegin(to, from, n)
  PROVE  /\ SInv' /\ moving = NotMoving /\ moving' # NotMoving
         /\ moving'.goal = Moved(to, from, n)
         /\ CInv => CInv'
<1>1. to \in Nat /\ from \in Nat /\ Size \in Nat /\ n \in Nat /\ n # 0
  BY BoundAssumption DEF Addr
<1>2. /\ from < to /\ moving = NotMoving /\ st # "assert"
      /\ HasSlave => from + n <= floor
      /\ floor' = NextFloor(to, from)
      /\ disk' = disk /\ px' = px /\ st' = st
      /\ written' = MovedWritten(to, from, n)
  BY DEF MoveBegin, Allowed, Idle
<1>3. PICK C : C = Moved(to, from, n)
  OBVIOUS
<1>4. moving' = [remaining |-> n, to |-> to, from |-> from, n |-> n, goal |-> C]
  BY <1>3 DEF MoveBegin
<1>5. /\ moving'.remaining = n /\ moving'.to = to /\ moving'.from = from /\ moving'.n = n
      /\ moving'.goal = C /\ moving' # NotMoving
  BY <1>1, <1>4 DEF NotMoving
<1>6. written' \subseteq Addr
  <2>1. \A a \in to .. to + n - 1 : a \in Addr
    BY <1>1 DEF Addr
  <2> QED
    BY <1>2, <2>1 DEF MovedWritten, SInv, Structure
<1>7. Structure'
  BY <1>2, <1>6 DEF SInv, Structure, HasSlave
<1>8. Motion'
  <2>1. floor' = NextFloor(to, from) /\ floor' \in Nat
    BY <1>1, <1>2, FloorIs
  <2>2. moving' = [remaining |-> moving'.remaining, to |-> moving'.to, from |-> moving'.from,
                   n |-> moving'.n, goal |-> moving'.goal]
    BY <1>4, <1>5
  <2>3. WholeTurns(moving')
    <3>1. 0 * blksz = 0
      BY BlockAssumption
    <3>2. n = n - 0 * blksz
      BY <3>1
    <3> QED
      BY <1>5, <3>2 DEF WholeTurns
  <2> QED
    BY <1>1, <1>2, <1>5, <2>1, <2>2, <2>3 DEF Motion
<1>9. ASSUME CInv
      PROVE  CInv'
  <2>1. /\ Sets(Content, written) /\ AllHold(Now, Content, floor)
        /\ Now.disk = disk /\ Now.px = px
    BY <1>2, <1>9, IdleHolds, NowReady DEF SInv
  <2>2. Sets(C, written')
    BY <1>2, <1>3, <2>1, MovedIs DEF SInv, Structure
  <2>3. \A a \in Addr : C[a] = IF a \in to .. to + n - 1 THEN Content[a - to + from] ELSE Content[a]
    BY <1>3 DEF Moved
  <2>4. ASSUME NEW b \in from .. from + n - 1
        PROVE  C[b + to - from] = Content[b]
    <3>1. PICK c \in Addr : c = b + to - from /\ c \in to .. to + n - 1 /\ c - to + from = b
      BY <1>1 DEF Addr
    <3> QED
      BY <2>3, <3>1
  <2>5. Going'
    <3>1. ASSUME NEW b \in from .. from + n - 1, b \notin to .. to + n - 1
          PROVE  C[b] = C[b + to - from]
      <4>1. b \in Addr
        BY <1>1 DEF Addr
      <4> QED
        BY <2>3, <2>4, <3>1, <4>1
    <3> QED
      BY <1>5, <2>2, <3>1 DEF Going, Sets
  <2>6. PICK X : X = [a \in Addr |->
                        IF a \in from .. from + n - 1 THEN C[a + to - from]
                        ELSE IF a \in to .. to + n - 1 THEN Unset
                        ELSE C[a]]
    OBVIOUS
  <2>7. Expected' = X /\ Limit' = from + n
    BY <1>5, <2>6 DEF Expected, Limit
  <2>8. \A a \in Addr : X[a] # Unset => X[a] = Content[a]
    BY <2>3, <2>4, <2>6
  <2>9. Holds(disk, px["master"], X)
    BY <2>1, <2>8 DEF AllHold, Holds
  <2>10. ASSUME HasSlave
         PROVE  /\ from + n <= px["slave"].bf_offset + px["slave"].bf_cnt
                /\ HoldsBelow(disk, px["slave"], X, from + n)
    <3>1. /\ from + n <= floor
          /\ floor <= px["slave"].bf_offset + px["slave"].bf_cnt
          /\ HoldsBelow(disk, px["slave"], Content, floor)
      BY <1>2, <2>1, <2>10 DEF AllHold, HasSlave
    <3>2. floor \in Nat /\ px["slave"].bf_offset \in Int /\ px["slave"].bf_cnt \in Int
      <4>1. px["slave"] \in Pages
        BY <2>10, NowReady DEF SInv
      <4> QED
        BY <4>1, PageFields DEF SInv, Motion
    <3>3. HoldsBelow(disk, px["slave"], X, from + n)
      <4>1. SUFFICES ASSUME NEW a \in Addr, a < from + n, X[a] # Unset
                     PROVE  Held(disk, px["slave"], a, X[a])
        BY DEF HoldsBelow
      <4>2. a < floor
        BY <1>1, <3>1, <3>2, <4>1 DEF Addr
      <4> QED
        BY <2>8, <3>1, <4>1, <4>2 DEF HoldsBelow
    <3> QED
      BY <1>1, <1>2, <3>1, <3>2, <3>3
  <2> QED
    BY <1>2, <2>5, <2>7, <2>9, <2>10 DEF CInv, HasSlave
<1> QED
  BY <1>2, <1>3, <1>5, <1>7, <1>8, <1>9 DEF SInv

-----------------------------------------------------------------------------
(* One turn of the loop of a move.  The page q is the master's, p the one   *)
(* the slave starts the turn with.                                         *)
Fresh(q, p) ==
  /\ p \in Pages /\ ~p.bf_modified /\ p.bf_refcount = 0
  /\ p.bf_offset = q.bf_offset /\ p.bf_extent = q.bf_extent /\ p.bf_cnt = q.bf_cnt
  /\ \A i \in BufIndex : i < q.bf_cnt => p.bf_base[i] = q.bf_base[i]

Started(q, p) ==
  /\ p.pos = q.pos
  /\ IF HasSlave THEN Same(px["slave"], p) ELSE Fresh(q, p)

(* A slave that starts as a copy of the master.                            *)
CopyOf(q) ==
  [q EXCEPT !.bf_base = [i \in BufIndex |-> IF i < q.bf_extent
                                            THEN q.bf_base[i] ELSE Garbage],
            !.bf_write = FALSE, !.bf_modified = FALSE, !.bf_refcount = 0]

LEMMA FreshIs ==
  ASSUME NEW q, Paged(q), NEW p, p = CopyOf(q)
  PROVE  Fresh(q, p) /\ p.pos = q.pos
<1>1. q \in Pages /\ q.bf_cnt <= q.bf_extent /\ q.bf_cnt \in Nat /\ q.bf_extent \in Nat
  BY PageFields DEF Paged
<1>2. PICK b : b = [i \in BufIndex |-> IF i < q.bf_extent THEN q.bf_base[i] ELSE Garbage]
  OBVIOUS
<1>3. b \in [BufIndex -> Bytes]
  <2>1. \A i \in BufIndex : q.bf_base[i] \in Bytes
    BY <1>1, PageFields
  <2>2. Garbage \in Bytes
    BY DEF Bytes
  <2> QED
    BY <1>2, <2>1, <2>2
<1>4. p = [q EXCEPT !.bf_base = b, !.bf_write = FALSE, !.bf_modified = FALSE, !.bf_refcount = 0]
  BY <1>2 DEF CopyOf
<1>5. /\ p.bf_base = b /\ p.bf_write = FALSE /\ p.bf_modified = FALSE /\ p.bf_refcount = 0
      /\ p.bf_offset = q.bf_offset /\ p.bf_extent = q.bf_extent /\ p.bf_cnt = q.bf_cnt
      /\ p.pos = q.pos /\ p = Fields(p)
  BY <1>1, <1>4 DEF Pages, Fields
<1>6. p \in Pages
  <2>1. /\ p.bf_offset \in Addr \cup {OFF_NONE} /\ p.bf_extent \in {0, blksz, 2 * blksz}
        /\ p.bf_cnt \in 0 .. 2 * blksz /\ p.pos \in Nat
    BY <1>1, <1>5 DEF Pages
  <2>2. p.bf_base \in [BufIndex -> Bytes]
    BY <1>3, <1>5
  <2>3. p.bf_write \in BOOLEAN /\ p.bf_modified \in BOOLEAN
    BY <1>5, Zenon
  <2>4. p.bf_refcount \in Nat
    BY <1>5
  <2>5. Fields(p) \in Pages
    BY <2>1, <2>2, <2>3, <2>4 DEF Pages, Fields
  <2> QED
    BY <1>5, <2>5
<1>7. \A i \in BufIndex : i < q.bf_cnt => p.bf_base[i] = q.bf_base[i]
  BY <1>1, <1>2, <1>5 DEF BufIndex
<1> QED
  BY <1>5, <1>6, <1>7 DEF Fresh

(* The page the slave begins the turn with.                                *)
LEMMA StartSlaveIs ==
  ASSUME Structure, NEW s \in States, NEW q, q = s.px["master"], Paged(q),
         s.px["slave"] = px["slave"], NEW t, t = StartSlave(s)
  PROVE  \E p \in Pages : t = Page(s, "slave", p) /\ Started(q, p)
<1>1. CASE HasSlave
  <2>1. PICK r \in Pages : r = px["slave"]
    BY <1>1, NowReady
  <2>2. PICK p : p = [r EXCEPT !.pos = q.pos]
    OBVIOUS
  <2>3. /\ p.bf_base = r.bf_base /\ p.bf_write = r.bf_write /\ p.bf_modified = r.bf_modified
        /\ p.bf_refcount = r.bf_refcount /\ p.bf_offset = r.bf_offset
        /\ p.bf_extent = r.bf_extent /\ p.bf_cnt = r.bf_cnt /\ p.pos = q.pos /\ p = Fields(p)
    BY <2>1, <2>2 DEF Pages, Fields
  <2>4. q.pos \in Nat
    BY PageFields DEF Paged
  <2>5. p \in Pages
    BY <2>1, <2>3, <2>4 DEF Pages, Fields
  <2>6. t = Page(s, "slave", p)
    BY <1>1, <2>1, <2>2 DEF StartSlave
  <2>7. Same(r, p)
    BY <2>3, <2>5 DEF Same
  <2>8. Same(px["slave"], p) /\ p.pos = q.pos
    BY <2>1, <2>3, <2>7
  <2>9. Started(q, p)
    BY <1>1, <2>8 DEF Started
  <2> QED
    BY <2>5, <2>6, <2>9
<1>2. CASE ~HasSlave
  <2>1. PICK p : p = CopyOf(q)
    OBVIOUS
  <2>2. Fresh(q, p) /\ p.pos = q.pos
    BY <2>1, FreshIs
  <2>3. t = Page(s, "slave", p)
    BY <1>2, <2>1 DEF StartSlave, CopyOf
  <2> QED
    BY <1>2, <2>2, <2>3 DEF Started, Fresh
<1> QED
  BY <1>1, <1>2

(* The slave is ready for its part.                                        *)
LEMMA StartedReady ==
  ASSUME Structure, NEW q, Paged(q), q.bf_cnt # 0, q.bf_offset # OFF_NONE,
         NEW p, Started(q, p)
  PROVE  /\ Paged(p) /\ p.pos = q.pos /\ p.bf_refcount = 0 /\ ~p.bf_modified
         /\ p.bf_offset # OFF_NONE /\ (p.bf_cnt = 0 => p.bf_offset \in {OFF_NONE, 0})
<1>1. CASE HasSlave
  BY <1>1 DEF Structure, Resting, Paged, Same, Started
<1>2. CASE ~HasSlave
  BY <1>2 DEF Paged, Fresh, Started
<1> QED
  BY <1>1, <1>2

(* px_double_buffer from the two gets to the two releases: the master's    *)
(* page q1 is got, the slave's p becomes q2, and b is the master's memory  *)
(* after the copy.                                                         *)
Doubled(d1, q1, p, d2, q2, b, u, to, from, n) ==
  /\ Gives(disk, px["master"], d1, q1, to, n) /\ Started(q1, p)
  /\ Gives(d1, p, d2, q2, from, n)
  /\ q1.bf_refcount = 1 /\ q2.bf_refcount = 1 /\ ~q2.bf_modified
  /\ b = [i \in BufIndex |->
            IF i \in to - q1.bf_offset .. to - q1.bf_offset + n - 1
            THEN q2.bf_base[i - (to - q1.bf_offset) + (from - q2.bf_offset)]
            ELSE q1.bf_base[i]]
  /\ u \in States /\ u.disk = d2 /\ u.st = "ok"
  /\ Altered(q2, u.px["slave"], q2.bf_base, 0, FALSE)
  /\ \E q3 : Same(q1, q3) /\ q3.pos = q2.pos /\ Altered(q3, u.px["master"], b, 0, TRUE)

(* A turn of at most a block does not fail, and is a get of the target, a  *)
(* get of the source, a copy and two releases.                             *)
LEMMA DoubleIs ==
  ASSUME Faults \subseteq {"short_read"}, Structure,
         NEW to \in Nat, NEW from \in Nat, NEW n \in Nat \ {0}, n <= blksz,
         to + n <= Size, from + n <= Size, NEW u \in px_double_buffer(to, from, n)
  PROVE  \E d1, q1, p, d2, q2, b : Doubled(d1, q1, p, d2, q2, b, u, to, from, n)
<1>1. PICK t1, t2, t3 :
        /\ t1 \in px_get(Now, "master", to, n, TRUE)
        /\ IF t1.st = "ok" THEN t2 = StartSlave(t1) ELSE t2 = t1
        /\ IF t2.st = "ok"
           THEN /\ t3 \in px_get(t2, "slave", from, n, FALSE)
                /\ u = IF t3.st = "ok"
                       THEN px_rel(px_rel(Changed(PositionSynced(t3),
                              [i \in BufIndex |-> IF i \in t2.diff .. t2.diff + n - 1
                                                  THEN t3.px["slave"].bf_base[i - t2.diff + t3.diff]
                                                  ELSE t3.px["master"].bf_base[i]]),
                              "slave", FALSE), "master", TRUE)
                       ELSE t3
           ELSE u = t2
  <2>1. PICK t2 \in UNION {IF s.st = "ok" THEN {StartSlave(s)} ELSE {s} :
                            s \in px_get(Now, "master", to, n, TRUE)} :
          IF t2.st = "ok"
          THEN u \in {IF t.st = "ok"
                      THEN px_rel(px_rel(Changed(PositionSynced(t),
                             [i \in BufIndex |-> IF i \in t2.diff .. t2.diff + n - 1
                                                 THEN t.px["slave"].bf_base[i - t2.diff + t.diff]
                                                 ELSE t.px["master"].bf_base[i]]),
                             "slave", FALSE), "master", TRUE)
                      ELSE t : t \in px_get(t2, "slave", from, n, FALSE)}
          ELSE u = t2
    BY DEF px_double_buffer, Then
  <2>2. PICK t1 \in px_get(Now, "master", to, n, TRUE) :
          IF t1.st = "ok" THEN t2 = StartSlave(t1) ELSE t2 = t1
    BY <2>1
  <2> QED
    BY <2>1, <2>2
<1>2. /\ Now \in States /\ Now.disk = disk /\ Now.px = px /\ Ready(Now, "master")
      /\ "master" \in Buffers /\ "slave" \in Buffers /\ "master" # "slave"
  BY NowReady DEF Buffers
<1>3. n \in Nat /\ n # 0 /\ blksz \in Nat /\ ~(blksz < n)
  BY BlockAssumption
<1>4. PICK yes \in BOOLEAN, no \in BOOLEAN : yes = TRUE /\ no = FALSE
  OBVIOUS
<1>5. Got(Now, "master", t1, to, n)
  <2>1. t1 \in px_get(Now, "master", to, n, yes)
    BY <1>1, <1>4
  <2> QED
    BY <1>2, <1>3, <2>1, GetIs
<1>6. PICK d1, q1 : Gives(disk, px["master"], d1, q1, to, n) /\ t1 = Result(Now, "master", d1, q1, to)
  BY <1>2, <1>5 DEF Got
<1>7. ResultIs(Now, "master", d1, q1, to, t1)
  BY <1>2, <1>6, GotIs
<1>8. /\ t1 \in States /\ t1.disk = d1 /\ t1.px["master"] = q1 /\ t1.st = "ok"
      /\ t1.diff = to - q1.bf_offset /\ q1 \in Pages /\ Paged(q1)
      /\ t1.px["slave"] = px["slave"]
  BY <1>2, <1>7 DEF ResultIs
<1>9. /\ q1.bf_refcount = 1 /\ q1.pos = d1.fd /\ q1.bf_cnt # 0 /\ q1.bf_offset # OFF_NONE
      /\ d1 \in Disks
  <2>1. px["master"].bf_refcount = 0
    BY DEF Structure, Resting
  <2>2. q1.bf_cnt \in Nat /\ q1.bf_offset \in Nat /\ q1.bf_offset # OFF_NONE
    BY <1>6, <1>8, PageFields DEF Gives, Addr, OFF_NONE
  <2> QED
    BY <1>3, <1>6, <2>1, <2>2 DEF Gives
<1>10. PICK p \in Pages : t2 = Page(t1, "slave", p) /\ Started(q1, p)
  <2>1. t2 = StartSlave(t1) /\ q1 = t1.px["master"]
    BY <1>1, <1>8
  <2> QED
    BY <1>8, <2>1, StartSlaveIs
<1>11. /\ t2 \in States /\ t2.disk = d1 /\ t2.st = "ok" /\ t2.diff = to - q1.bf_offset
       /\ t2.px["slave"] = p /\ t2.px["master"] = q1
  BY <1>2, <1>8, <1>10, PageIs
<1>12. /\ Paged(p) /\ p.pos = q1.pos /\ p.bf_refcount = 0 /\ ~p.bf_modified
       /\ p.bf_offset # OFF_NONE /\ (p.bf_cnt = 0 => p.bf_offset \in {OFF_NONE, 0})
  BY <1>8, <1>9, <1>10, StartedReady
<1>13. Ready(t2, "slave")
  BY <1>9, <1>11, <1>12 DEF Ready
<1>14. Got(t2, "slave", t3, from, n)
  <2>1. t3 \in px_get(t2, "slave", from, n, no)
    BY <1>1, <1>4, <1>11
  <2> QED
    BY <1>2, <1>3, <1>13, <2>1, GetIs
<1>15. PICK d2, q2 : Gives(d1, p, d2, q2, from, n) /\ t3 = Result(t2, "slave", d2, q2, from)
  BY <1>11, <1>14 DEF Got
<1>16. ResultIs(t2, "slave", d2, q2, from, t3)
  <2>1. Gives(t2.disk, p, d2, q2, from, n)
    BY <1>11, <1>15
  <2> QED
    BY <1>2, <1>11, <1>15, <2>1, GotIs
<1>17. /\ t3 \in States /\ t3.disk = d2 /\ t3.px["slave"] = q2 /\ t3.st = "ok"
       /\ t3.diff = from - q2.bf_offset /\ t3.diff \in Nat /\ q2 \in Pages /\ Paged(q2)
       /\ t3.px["master"] = q1
  BY <1>2, <1>11, <1>16 DEF ResultIs
<1>18. q2.bf_refcount = 1 /\ ~q2.bf_modified /\ q2.pos = d2.fd /\ q2.pos \in Nat
  BY <1>12, <1>15, <1>17, PageFields DEF Gives
<1>19. PICK b : b = [i \in BufIndex |->
                       IF i \in to - q1.bf_offset .. to - q1.bf_offset + n - 1
                       THEN q2.bf_base[i - (to - q1.bf_offset) + (from - q2.bf_offset)]
                       ELSE q1.bf_base[i]]
  OBVIOUS
<1>20. b \in [BufIndex -> Bytes]
  <2>1. /\ q1.bf_offset \in Nat /\ q2.bf_offset \in Nat /\ q1.bf_offset <= to /\ q2.bf_offset <= from
        /\ from + n <= q2.bf_offset + q2.bf_cnt /\ q2.bf_cnt \in Nat /\ q2.bf_cnt <= 2 * blksz
    BY <1>6, <1>8, <1>15, <1>17, PageFields DEF Gives, Addr
  <2>2. ASSUME NEW i \in BufIndex
        PROVE  b[i] \in Bytes
    <3>1. i \in to - q1.bf_offset .. to - q1.bf_offset + n - 1
            => i - (to - q1.bf_offset) + (from - q2.bf_offset) \in BufIndex
      BY <1>3, <2>1 DEF BufIndex
    <3>2. q1.bf_base \in [BufIndex -> Bytes] /\ q2.bf_base \in [BufIndex -> Bytes]
      BY <1>8, <1>17, PageFields
    <3> QED
      BY <1>19, <3>1, <3>2
  <2> QED
    BY <1>19, <2>2
<1>21. u = px_rel(px_rel(Changed(PositionSynced(t3), b), "slave", no), "master", yes)
  BY <1>1, <1>4, <1>11, <1>17, <1>19
<1>22. PICK q3 : q3 = [q1 EXCEPT !.pos = q2.pos]
  OBVIOUS
<1>23. Same(q1, q3) /\ q3.pos = q2.pos /\ q3 \in Pages
  <2>1. /\ q3.bf_base = q1.bf_base /\ q3.bf_write = q1.bf_write /\ q3.bf_modified = q1.bf_modified
        /\ q3.bf_refcount = q1.bf_refcount /\ q3.bf_offset = q1.bf_offset
        /\ q3.bf_extent = q1.bf_extent /\ q3.bf_cnt = q1.bf_cnt /\ q3.pos = q2.pos
        /\ q3 = Fields(q3)
    BY <1>8, <1>22 DEF Pages, Fields
  <2>2. q3 \in Pages
    BY <1>8, <1>18, <2>1 DEF Pages, Fields
  <2> QED
    BY <2>1, <2>2 DEF Same
<1>24. PICK t4 : t4 = PositionSynced(t3)
  OBVIOUS
<1>25. /\ t4 \in States /\ t4.disk = d2 /\ t4.st = "ok"
       /\ t4.px["master"] = q3 /\ t4.px["slave"] = q2
  <2>1. t4 = Page(t3, "master", q3)
    BY <1>17, <1>22, <1>24 DEF PositionSynced
  <2>2. t3 \in States /\ q3 \in Pages /\ "master" \in Buffers
    BY <1>2, <1>17, <1>23
  <2>3. /\ Page(t3, "master", q3) \in States /\ Page(t3, "master", q3).disk = t3.disk
        /\ Page(t3, "master", q3).st = t3.st /\ Page(t3, "master", q3).px["master"] = q3
        /\ \A v \in Buffers \ {"master"} : Page(t3, "master", q3).px[v] = t3.px[v]
    BY <2>2, PageIs, ZenonT(60)
  <2> QED
    BY <1>2, <1>17, <2>1, <2>3
<1>26. PICK t5 : t5 = Changed(t4, b)
  OBVIOUS
<1>27. /\ t5 \in States /\ t5.disk = d2 /\ t5.st = "ok" /\ t5.px["slave"] = q2
       /\ Altered(q3, t5.px["master"], b, 1, q3.bf_modified)
  <2>1. q3.bf_refcount = 1
    BY <1>9, <1>23 DEF Same
  <2> QED
    BY <1>20, <1>23, <1>25, <1>26, <2>1, ChangedIs
<1>28. PICK t6 : t6 = px_rel(t5, "slave", no)
  OBVIOUS
<1>29. Released(t5, "slave", no, t6)
  <2>1. t5.px["slave"] \in Pages /\ t5.px["slave"].bf_refcount >= 1
    BY <1>17, <1>18, <1>27
  <2> QED
    BY <1>2, <1>27, <1>28, <2>1, RelIs
<1>30. /\ t6 \in States /\ t6.disk = d2 /\ t6.st = "ok"
       /\ t6.px["master"] = t5.px["master"]
       /\ Altered(q2, t6.px["slave"], q2.bf_base, 0, FALSE)
  <2>1. (q2.bf_modified \/ no) = FALSE /\ q2.bf_refcount - 1 = 0
    BY <1>4, <1>18
  <2> QED
    BY <1>2, <1>27, <1>29, <2>1 DEF Released
<1>31. Released(t6, "master", yes, u)
  <2>1. t6.px["master"] \in Pages /\ t6.px["master"].bf_refcount >= 1
    BY <1>27, <1>30 DEF Altered
  <2>2. u = px_rel(t6, "master", yes)
    BY <1>21, <1>24, <1>26, <1>28
  <2> QED
    BY <1>2, <1>30, <2>1, <2>2, RelIs
<1>32. /\ u \in States /\ u.disk = d2 /\ u.st = "ok" /\ u.px["slave"] = t6.px["slave"]
       /\ Altered(q3, u.px["master"], b, 0, TRUE)
  <2>1. PICK z : z = t5.px["master"]
    OBVIOUS
  <2>2. (z.bf_modified \/ yes) = TRUE
    BY <1>4
  <2>3. z.bf_refcount - 1 = 0
    BY <1>27, <2>1 DEF Altered
  <2>4. Altered(z, u.px["master"], z.bf_base, 0, TRUE)
    BY <1>30, <1>31, <2>1, <2>2, <2>3 DEF Released
  <2>5. Altered(q3, u.px["master"], b, 0, TRUE)
    BY <1>27, <2>1, <2>4 DEF Altered
  <2> QED
    BY <1>2, <1>30, <1>31, <2>5 DEF Released
<1>33. Doubled(d1, q1, p, d2, q2, b, u, to, from, n)
  BY <1>6, <1>9, <1>10, <1>15, <1>18, <1>19, <1>23, <1>30, <1>32 DEF Doubled
<1> QED
  BY <1>33

(* What must be there when r bytes are left to move.                       *)
Midway(r) ==
  [a \in Addr |->
    IF a \in moving.from .. moving.from + r - 1 THEN moving.goal[a + moving.to - moving.from]
    ELSE IF a \in moving.to .. moving.to + r - 1 THEN Unset
    ELSE moving.goal[a]]

(* A turn leaves what is not the target of this turn as it must be then.   *)
LEMMA MidwayStep ==
  ASSUME Going, Motion, moving # NotMoving, NEW n \in Nat \ {0}, NEW r \in Nat,
         n + r = moving.remaining, NEW a \in Addr, Midway(r)[a] # Unset
  PROVE  IF a \in moving.to + r .. moving.to + r + n - 1
         THEN /\ a - moving.to + moving.from \in Addr
              /\ Midway(r)[a] = Midway(moving.remaining)[a - moving.to + moving.from]
         ELSE Midway(r)[a] = Midway(moving.remaining)[a]
<1>1. /\ moving.remaining \in Nat /\ moving.n \in Nat /\ moving.remaining <= moving.n
      /\ moving.to \in Nat /\ moving.from \in Nat /\ moving.from < moving.to
      /\ moving.to + moving.n <= Size /\ n \in Nat /\ n # 0 /\ a \in Nat /\ a < Size
      /\ Size \in Nat
  BY BoundAssumption DEF Motion, Addr
<1>2. PICK to \in Nat, from \in Nat, m \in Nat, k \in Nat :
        to = moving.to /\ from = moving.from /\ m = moving.remaining /\ k = moving.n
  BY <1>1
<1>3. PICK g : g = moving.goal
  OBVIOUS
<1>4. PICK X, Y : X = Midway(r) /\ Y = Midway(m)
  OBVIOUS
<1>5. /\ X[a] = IF a \in from .. from + r - 1 THEN g[a + to - from]
                ELSE IF a \in to .. to + r - 1 THEN Unset ELSE g[a]
      /\ \A c \in Addr : Y[c] = IF c \in from .. from + m - 1 THEN g[c + to - from]
                                ELSE IF c \in to .. to + m - 1 THEN Unset ELSE g[c]
  BY <1>2, <1>3, <1>4 DEF Midway
<1>6. \A c \in from .. from + k - 1 : c \notin to .. to + k - 1 => g[c] = g[c + to - from]
  BY <1>2, <1>3 DEF Going
<1>7. n + r = m /\ m <= k /\ from < to /\ to + k <= Size
  BY <1>1, <1>2
<1>8. CASE a \in to + r .. to + r + n - 1
  <2>1. a \notin from .. from + r - 1 /\ a \notin to .. to + r - 1
    BY <1>1, <1>7, <1>8
  <2>2. X[a] = g[a]
    BY <1>5, <2>1
  <2>3. PICK c \in Addr : c = a - to + from
    BY <1>1, <1>7, <1>8 DEF Addr
  <2>4. c \in from .. from + m - 1 /\ c + to - from = a
    BY <1>1, <1>7, <1>8, <2>3
  <2>5. Y[c] = g[a]
    BY <1>5, <2>4
  <2> QED
    BY <1>2, <1>4, <1>8, <2>2, <2>3, <2>5
<1>9. CASE a \notin to + r .. to + r + n - 1
  <2>1. CASE a \in from .. from + r - 1
    <3>1. a \in from .. from + m - 1
      BY <1>1, <1>7, <2>1
    <3> QED
      BY <1>2, <1>4, <1>5, <1>9, <2>1, <3>1
  <2>2. CASE a \notin from .. from + r - 1
    <3>1. X[a] = g[a] /\ a \notin to .. to + r - 1
      BY <1>4, <1>5, <2>2
    <3>2. a \notin to .. to + m - 1
      BY <1>1, <1>7, <1>9, <3>1
    <3>3. CASE a \in from .. from + m - 1
      <4>1. a \in from .. from + k - 1 /\ a \notin to .. to + k - 1
        BY <1>1, <1>7, <3>2, <3>3
      <4>2. Y[a] = g[a]
        BY <1>5, <1>6, <3>3, <4>1
      <4> QED
        BY <1>2, <1>4, <1>9, <3>1, <4>2
    <3>4. CASE a \notin from .. from + m - 1
      BY <1>2, <1>4, <1>5, <1>9, <3>1, <3>2, <3>4
    <3> QED
      BY <3>3, <3>4
  <2> QED
    BY <2>1, <2>2
<1> QED
  BY <1>8, <1>9

(* A move begins with what is expected and ends with its goal.             *)
LEMMA MidwayIs ==
  ASSUME Going, Motion, moving # NotMoving
  PROVE  /\ Expected = Midway(moving.remaining) /\ Midway(moving.remaining) \in Contents
         /\ Midway(0) = moving.goal /\ Sets(moving.goal, written)
<1>1. /\ moving.remaining \in Nat /\ moving.n \in Nat /\ moving.remaining <= moving.n
      /\ moving.to \in Nat /\ moving.from \in Nat /\ moving.from < moving.to
      /\ moving.to + moving.n <= Size /\ Size \in Nat
  BY BoundAssumption DEF Motion
<1>2. Expected = Midway(moving.remaining)
  BY DEF Expected, Midway
<1>3. moving.goal \in Contents
  BY DEF Going
<1>4. \A a \in moving.from .. moving.from + moving.remaining - 1 :
        a + moving.to - moving.from \in Addr
  BY <1>1 DEF Addr
<1>5. Midway(moving.remaining) \in Contents
  <2>1. \A a \in Addr : Midway(moving.remaining)[a] \in Bytes \cup {Unset}
    BY <1>3, <1>4 DEF Midway, Contents
  <2> QED
    BY <2>1 DEF Midway, Contents
<1>6. Midway(0) = moving.goal
  <2>1. moving.from .. moving.from + 0 - 1 = {} /\ moving.to .. moving.to + 0 - 1 = {}
    BY <1>1
  <2>2. Midway(0) = [a \in Addr |-> moving.goal[a]]
    BY <2>1 DEF Midway
  <2> QED
    BY <1>3, <2>2 DEF Contents
<1> QED
  BY <1>2, <1>3, <1>5, <1>6 DEF Going, Sets

(* The page the slave starts with holds the source.                        *)
LEMMA StartedHolds ==
  ASSUME NEW d, NEW q, Paged(q), NEW p, Started(q, p), p.bf_offset # OFF_NONE,
         NEW C \in Contents, NEW m \in Nat, Holds(d, q, C),
         HasSlave => /\ m <= px["slave"].bf_offset + px["slave"].bf_cnt
                     /\ HoldsBelow(d, px["slave"], C, m),
         m <= q.bf_offset + q.bf_cnt
  PROVE  /\ m <= p.bf_offset + p.bf_cnt
         /\ HoldsBelow(d, p, C, m)
<1>1. CASE HasSlave
  <2>1. PICK x : x = px["slave"]
    OBVIOUS
  <2>2. Same(x, p) /\ HoldsBelow(d, x, C, m) /\ m <= x.bf_offset + x.bf_cnt
    BY <1>1, <2>1 DEF Started
  <2>3. \A a, v : Held(d, x, a, v) <=> Held(d, p, a, v)
    BY <2>2, SameHolds
  <2> QED
    BY <2>2, <2>3 DEF HoldsBelow, Same
<1>2. CASE ~HasSlave
  <2>1. Fresh(q, p)
    BY <1>2 DEF Started
  <2>2. /\ p.bf_offset = q.bf_offset /\ p.bf_extent = q.bf_extent /\ p.bf_cnt = q.bf_cnt
        /\ \A i \in BufIndex : i < q.bf_cnt => p.bf_base[i] = q.bf_base[i]
    BY <2>1 DEF Fresh
  <2>3. ASSUME NEW a \in Addr, C[a] # Unset
        PROVE  Held(d, p, a, C[a])
    <3>1. Held(d, q, a, C[a])
      BY <2>3 DEF Holds, Safe
    <3>2. a \in Nat /\ q.bf_offset \in Int /\ q.bf_cnt \in Nat /\ q.bf_cnt <= 2 * blksz /\ blksz \in Nat
      BY PageFields DEF Paged, Addr
    <3>3. CASE Shown(q, a)
      <4>1. PICK i \in BufIndex : i = a - q.bf_offset /\ i < q.bf_cnt
        BY <3>2, <3>3 DEF Shown, BufIndex
      <4> QED
        BY <2>2, <3>1, <3>3, <4>1 DEF Held, Shown
    <3>4. CASE ~Shown(q, a)
      BY <2>2, <3>1, <3>4 DEF Held, Shown, Covered
    <3> QED
      BY <3>3, <3>4
  <2> QED
    BY <2>2, <2>3 DEF HoldsBelow
<1> QED
  BY <1>1, <1>2

(* After a turn both buffers are in order.                                 *)
LEMMA DoubledRests ==
  ASSUME NEW to \in Nat, NEW from \in Nat, NEW n \in Nat \ {0},
         NEW d1, NEW q1, NEW p, NEW d2, NEW q2, NEW b, NEW u,
         Doubled(d1, q1, p, d2, q2, b, u, to, from, n)
  PROVE  AtRest(u) /\ u.px["slave"] # NoSlave /\ u.st = "ok"
<1>1. PICK q3 : Same(q1, q3) /\ q3.pos = q2.pos /\ Altered(q3, u.px["master"], b, 0, TRUE)
  BY DEF Doubled
<1>2. PICK x, y : x = u.px["master"] /\ y = u.px["slave"]
  OBVIOUS
<1>3. /\ x \in Pages /\ x.bf_offset = q1.bf_offset /\ x.bf_extent = q1.bf_extent
      /\ x.bf_cnt = q1.bf_cnt /\ x.bf_refcount = 0 /\ x.pos = q2.pos
  BY <1>1, <1>2 DEF Same, Altered
<1>4. /\ y \in Pages /\ y.bf_offset = q2.bf_offset /\ y.bf_extent = q2.bf_extent
      /\ y.bf_cnt = q2.bf_cnt /\ y.bf_refcount = 0 /\ ~y.bf_modified
  BY <1>2 DEF Doubled, Altered
<1>5. /\ Paged(q1) /\ Paged(q2) /\ q2.pos = d2.fd /\ q1.bf_offset \in Addr /\ q2.bf_offset \in Addr
      /\ q1.bf_offset <= to /\ to + n <= q1.bf_offset + q1.bf_cnt
      /\ q2.bf_offset <= from /\ from + n <= q2.bf_offset + q2.bf_cnt
  BY DEF Doubled, Gives
<1>6. q1.bf_offset \in Nat /\ q2.bf_offset \in Nat /\ q1.bf_cnt \in Nat /\ q2.bf_cnt \in Nat
      /\ q1.bf_offset # OFF_NONE /\ q2.bf_offset # OFF_NONE
  BY <1>5, PageFields DEF Paged, Addr, OFF_NONE
<1>7. q1.bf_cnt # 0 /\ q2.bf_cnt # 0
  BY <1>5, <1>6
<1>8. Paged(x) /\ Paged(y)
  BY <1>3, <1>4, <1>5, <1>6 DEF Paged
<1>9. y # NoSlave
  BY <1>4, PageNotNone
<1>10. u \in States /\ u.disk = d2 /\ u.st = "ok"
  BY DEF Doubled
<1> QED
  BY <1>2, <1>3, <1>4, <1>5, <1>6, <1>7, <1>8, <1>9, <1>10 DEF AtRest, Slaved

(* A turn moves its bytes, and loses none that later turns move: the slave *)
(* is only read, the master writes above what the slave still has to give. *)
(* What was moved in this turn and is not overwritten stays in the slave.  *)
LEMMA TurnHolds ==
  ASSUME Faults = {}, SInv, CInv, moving # NotMoving,
         NEW n \in Nat \ {0}, NEW r \in Nat, n + r = moving.remaining,
         NEW d1, NEW q1, NEW p, NEW d2, NEW q2, NEW b, NEW u,
         Doubled(d1, q1, p, d2, q2, b, u, moving.to + r, moving.from + r, n),
         NEW l \in Nat, l <= moving.from + r + n, l <= moving.to + r
  PROVE  AllHold(u, Midway(r), l)
<1>1. /\ moving.remaining \in Nat /\ moving.n \in Nat /\ moving.remaining <= moving.n
      /\ moving.to \in Nat /\ moving.from \in Nat /\ moving.from < moving.to
      /\ moving.to + moving.n <= Size /\ n \in Nat /\ n # 0 /\ Size \in Nat
  BY BoundAssumption DEF SInv, Motion
<1>2. PICK to \in Nat, from \in Nat : to = moving.to + r /\ from = moving.from + r /\ from < to
  BY <1>1
<1>3. Going /\ Motion /\ Structure
  BY DEF SInv, CInv
<1>4. PICK Y \in Contents : Y = Midway(moving.remaining) /\ Expected = Y
  BY <1>3, MidwayIs
<1>5. PICK m \in Nat : m = moving.from + moving.remaining /\ m = from + n /\ Limit = m
  BY <1>1, <1>2 DEF Limit
<1>6. /\ Gives(disk, px["master"], d1, q1, to, n) /\ Started(q1, p)
      /\ Gives(d1, p, d2, q2, from, n)
      /\ b = [i \in BufIndex |->
               IF i \in to - q1.bf_offset .. to - q1.bf_offset + n - 1
               THEN q2.bf_base[i - (to - q1.bf_offset) + (from - q2.bf_offset)]
               ELSE q1.bf_base[i]]
      /\ u.disk = d2
      /\ Altered(q2, u.px["slave"], q2.bf_base, 0, FALSE) /\ ~q2.bf_modified
      /\ \E q3 : Same(q1, q3) /\ q3.pos = q2.pos /\ Altered(q3, u.px["master"], b, 0, TRUE)
  BY <1>2 DEF Doubled
<1>7. /\ Paged(q1) /\ q1.bf_offset \in Nat /\ q1.bf_offset # OFF_NONE /\ q1.bf_offset <= to
      /\ to + n <= q1.bf_offset + q1.bf_cnt
      /\ q1.bf_cnt \in Nat /\ q1.bf_cnt <= 2 * blksz /\ blksz \in Nat
  BY <1>6, PageFields DEF Gives, Paged, Addr, OFF_NONE
<1>8. /\ Paged(q2) /\ q2.bf_offset \in Nat /\ q2.bf_offset # OFF_NONE /\ q2.bf_offset <= from
      /\ from + n <= q2.bf_offset + q2.bf_cnt
      /\ q2.bf_cnt \in Nat /\ q2.bf_cnt <= 2 * blksz
  BY <1>6, PageFields DEF Gives, Paged, Addr, OFF_NONE
<1>9. /\ Holds(d1, q1, Y)
      /\ \A z, k : HoldsBelow(disk, z, Y, k) => HoldsBelow(d1, z, Y, k)
  <2>1. Holds(disk, px["master"], Y)
    BY <1>4 DEF CInv
  <2> QED
    BY <1>6, <2>1, GiveKeeps
<1>10. q1.bf_cnt # 0
  BY <1>1, <1>7
<1>11. /\ Paged(p) /\ ~p.bf_modified /\ p.bf_offset # OFF_NONE
  BY <1>3, <1>6, <1>7, <1>10, StartedReady
<1>12. m <= p.bf_offset + p.bf_cnt /\ HoldsBelow(d1, p, Y, m)
  <2>1. HasSlave => /\ m <= px["slave"].bf_offset + px["slave"].bf_cnt
                    /\ HoldsBelow(d1, px["slave"], Y, m)
    BY <1>4, <1>5, <1>9 DEF CInv
  <2>2. m <= q1.bf_offset + q1.bf_cnt
    BY <1>1, <1>2, <1>5, <1>7
  <2> QED
    BY <1>6, <1>7, <1>9, <1>11, <2>1, <2>2, StartedHolds
<1>13. HoldsBelow(d2, q2, Y, m)
  <2>1. KeepsBelow(d1, p, d2, q2, m)
    BY <1>5, <1>6 DEF Gives
  <2>2. \A a \in Addr : \A v \in Bytes : a < m /\ Held(d1, p, a, v) => Held(d2, q2, a, v)
    BY <1>11, <1>12, <2>1 DEF KeepsBelow
  <2>3. \A a \in Addr : Y[a] # Unset => Y[a] \in Bytes
    BY DEF Contents
  <2> QED
    BY <1>12, <2>2, <2>3 DEF HoldsBelow
<1>14. d2.data = d1.data /\ d2.size = d1.size
  BY <1>6, <1>11 DEF Gives
<1>15. Holds(d2, q1, Y)
  BY <1>9, <1>14 DEF Holds, Safe, Held, OnDisk
<1>16. PICK X : X = Midway(r)
  OBVIOUS
<1>17. ASSUME NEW a \in Addr, X[a] # Unset
       PROVE  IF a \in to .. to + n - 1
              THEN /\ a - to + from \in Addr /\ X[a] = Y[a - to + from]
              ELSE X[a] = Y[a]
  <2>1. IF a \in moving.to + r .. moving.to + r + n - 1
        THEN /\ a - moving.to + moving.from \in Addr
             /\ Midway(r)[a] = Midway(moving.remaining)[a - moving.to + moving.from]
        ELSE Midway(r)[a] = Midway(moving.remaining)[a]
    BY <1>3, <1>16, <1>17, MidwayStep
  <2>2. a - moving.to + moving.from = a - to + from
    BY <1>1, <1>2 DEF Addr
  <2> QED
    BY <1>2, <1>4, <1>16, <2>1, <2>2
<1>18. PICK x, y : x = u.px["master"] /\ y = u.px["slave"]
  OBVIOUS
<1>19. /\ x.bf_offset = q1.bf_offset /\ x.bf_extent = q1.bf_extent /\ x.bf_cnt = q1.bf_cnt
       /\ x.bf_base = b /\ x.bf_modified = TRUE
  BY <1>6, <1>18 DEF Same, Altered
<1>20. ASSUME NEW a \in Addr, X[a] # Unset
       PROVE  Safe(d2, x, a, X[a])
  <2>1. a \in Nat
    BY DEF Addr
  <2>2. CASE a \in to .. to + n - 1
    <3>1. PICK c \in Addr : c = a - to + from /\ X[a] = Y[c]
      BY <1>17, <1>20, <2>2
    <3>2. c < m /\ c \in from .. from + n - 1
      BY <1>1, <1>2, <1>5, <2>1, <2>2, <3>1
    <3>3. Held(d2, q2, c, Y[c])
      BY <1>13, <1>20, <3>1, <3>2 DEF HoldsBelow
    <3>4. Shown(q2, c)
      BY <1>1, <1>2, <1>8, <3>1, <3>2 DEF Shown
    <3>5. q2.bf_base[c - q2.bf_offset] = X[a]
      BY <3>1, <3>3, <3>4 DEF Held
    <3>6. PICK i \in BufIndex : i = a - q1.bf_offset
      BY <1>1, <1>2, <1>7, <2>1, <2>2 DEF BufIndex
    <3>7. /\ i \in to - q1.bf_offset .. to - q1.bf_offset + n - 1
          /\ i - (to - q1.bf_offset) + (from - q2.bf_offset) = c - q2.bf_offset
      BY <1>1, <1>7, <1>8, <2>1, <2>2, <3>1, <3>6
    <3>8. b[i] = X[a]
      BY <1>6, <3>5, <3>7
    <3>9. Shown(x, a)
      BY <1>1, <1>7, <1>19, <2>1, <2>2 DEF Shown
    <3> QED
      BY <1>19, <3>6, <3>8, <3>9 DEF Safe, Held
  <2>3. CASE a \notin to .. to + n - 1
    <3>1. X[a] = Y[a] /\ Held(d2, q1, a, X[a])
      BY <1>15, <1>17, <1>20, <2>3 DEF Holds, Safe
    <3>2. CASE Shown(q1, a)
      <4>1. PICK i \in BufIndex : i = a - q1.bf_offset
        BY <1>7, <2>1, <3>2 DEF BufIndex, Shown
      <4>2. i \notin to - q1.bf_offset .. to - q1.bf_offset + n - 1
        BY <1>1, <1>7, <2>1, <2>3, <4>1
      <4>3. b[i] = q1.bf_base[i]
        BY <1>6, <4>2
      <4>4. Shown(x, a)
        BY <1>19, <3>2 DEF Shown
      <4> QED
        BY <1>19, <3>1, <3>2, <4>1, <4>3, <4>4 DEF Safe, Held
    <3>3. CASE ~Shown(q1, a)
      <4>1. ~Covered(q1, a) /\ OnDisk(d2, a, X[a])
        BY <3>1, <3>3 DEF Held
      <4>2. ~Covered(x, a) /\ ~Shown(x, a)
        BY <1>19, <3>3, <4>1 DEF Covered, Shown
      <4> QED
        BY <4>1, <4>2 DEF Safe, Held
    <3> QED
      BY <3>2, <3>3
  <2> QED
    BY <2>2, <2>3
<1>21. HoldsBelow(d2, y, X, l)
  <2>1. SUFFICES ASSUME NEW a \in Addr, a < l, X[a] # Unset
                 PROVE  Held(d2, y, a, X[a])
    BY DEF HoldsBelow
  <2>2. a \in Nat /\ a \notin to .. to + n - 1 /\ a < m
    BY <1>1, <1>2, <1>5, <2>1 DEF Addr
  <2>3. X[a] = Y[a]
    BY <1>17, <2>1, <2>2
  <2>4. Held(d2, q2, a, X[a])
    BY <1>13, <2>1, <2>2, <2>3 DEF HoldsBelow
  <2>5. Altered(q2, y, q2.bf_base, 0, q2.bf_modified)
    BY <1>6, <1>8, <1>18, PageFields DEF Altered, Paged
  <2> QED
    BY <1>8, <2>4, <2>5, AlteredHolds
<1>22. l <= y.bf_offset + y.bf_cnt
  BY <1>1, <1>2, <1>6, <1>8, <1>18 DEF Altered
<1> QED
  BY <1>2, <1>6, <1>16, <1>18, <1>20, <1>21, <1>22 DEF AllHold, Holds

(* The abstract content of ByteFile.                                       *)
Seen == IF moving = NotMoving THEN Content ELSE moving.goal

(* No turn of the loop shows: the content is the goal from the moment the  *)
(* move begins.                                                            *)
LEMMA MoveStepStep ==
  ASSUME Faults \subseteq {"short_read"}, SInv, MoveStep
  PROVE  SInv' /\ (Faults = {} /\ CInv => CInv' /\ Seen' = Seen)
<1>1. moving # NotMoving /\ floor' = floor /\ written' = written
  BY DEF MoveStep
<1>2. /\ moving.remaining \in Nat /\ moving.remaining # 0 /\ moving.n \in Nat
      /\ moving.remaining <= moving.n
      /\ moving.to \in Nat /\ moving.from \in Nat /\ moving.from < moving.to
      /\ moving.to + moving.n <= Size /\ Size \in Nat /\ blksz \in Nat /\ blksz # 0
  BY <1>1, BoundAssumption, BlockAssumption DEF SInv, Motion
<1>3. PICK n \in Nat \ {0} : n = MinOf(moving.remaining, blksz) /\ n <= blksz
  BY <1>2 DEF MinOf
<1>4. PICK r \in Nat : r = moving.remaining - n /\ n + r = moving.remaining
  BY <1>2, <1>3 DEF MinOf
<1>5. PICK u \in px_double_buffer(moving.to + r, moving.from + r, n) :
        /\ Becomes(u)
        /\ moving' = IF u.st = "ok" /\ moving.remaining > n
                     THEN [moving EXCEPT !.remaining = @ - n] ELSE NotMoving
  BY <1>2, <1>3, <1>4 DEF MoveStep
<1>6. PICK to \in Nat, from \in Nat : to = moving.to + r /\ from = moving.from + r
                                      /\ to + n <= Size /\ from + n <= Size
  BY <1>2, <1>4
<1>7. PICK d1, q1, p, d2, q2, b : Doubled(d1, q1, p, d2, q2, b, u, to, from, n)
  <2>1. u \in px_double_buffer(to, from, n)
    BY <1>5, <1>6
  <2> QED
    BY <1>3, <1>6, <2>1, DoubleIs DEF SInv
<1>8. AtRest(u) /\ u.px["slave"] # NoSlave /\ u.st = "ok"
  BY <1>7, DoubledRests
<1>9. written' \subseteq Addr
  BY <1>1 DEF SInv, Structure
<1>10. Structure'
  BY <1>5, <1>8, <1>9, EndStructure
<1>11. ASSUME Faults = {}, CInv
       PROVE  \A l \in Nat : l <= moving.from + r + n /\ l <= moving.to + r
                                => AllHold(u, Midway(r), l)
  BY <1>1, <1>4, <1>6, <1>7, <1>11, TurnHolds
<1>12. CASE r = 0
  <2>1. moving' = NotMoving
    BY <1>4, <1>5, <1>12
  <2>2. /\ floor' = NextFloor(moving.to, moving.from) /\ floor' \in Nat /\ Pad \in Nat
        /\ floor' <= moving.to /\ floor' <= moving.from + Pad
    BY <1>1, <1>2, FloorIs DEF SInv, Motion
  <2>3. /\ SInv'
        /\ \A C : Sets(C, written') /\ AllHold(u, C, floor')
                    => CInv' /\ Content' = C
    BY <1>2, <1>5, <1>8, <1>9, <2>1, <2>2, End
  <2>4. ASSUME Faults = {}, CInv
        PROVE  CInv' /\ Seen' = Seen
    <3>1. Midway(0) = moving.goal /\ Sets(moving.goal, written)
      BY <1>1, <2>4, MidwayIs DEF SInv, CInv
    <3>2. n >= Pad
      <4>1. moving.n \in MoveLengths /\ moving.n <= Size
        BY <1>1, <1>2 DEF SInv, Motion, WholeTurns
      <4>2. PICK k \in Nat : n = moving.n - k * blksz
        BY <1>1, <1>3, <1>4, <1>12 DEF SInv, Motion, WholeTurns
      <4> QED
        BY <4>1, <4>2, LeftIs
    <3>3. AllHold(u, moving.goal, floor')
      <4>1. floor' <= moving.from + r + n /\ floor' <= moving.to + r
        BY <1>2, <1>3, <1>12, <2>2, <3>2
      <4> QED
        BY <1>11, <1>12, <2>2, <2>4, <3>1, <4>1
    <3>4. CInv' /\ Content' = moving.goal
      BY <1>1, <2>3, <3>1, <3>3
    <3> QED
      BY <1>1, <2>1, <3>4 DEF Seen
  <2> QED
    BY <2>3, <2>4
<1>13. CASE r # 0
  <2>1. moving' = [moving EXCEPT !.remaining = @ - n]
    BY <1>2, <1>4, <1>5, <1>8, <1>13
  <2>2. moving = [remaining |-> moving.remaining, to |-> moving.to, from |-> moving.from,
                  n |-> moving.n, goal |-> moving.goal]
    BY <1>1 DEF SInv, Motion
  <2>3. moving' = [remaining |-> r, to |-> moving.to, from |-> moving.from,
                   n |-> moving.n, goal |-> moving.goal]
    BY <1>4, <2>1, <2>2
  <2>4. /\ moving'.remaining = r /\ moving'.to = moving.to /\ moving'.from = moving.from
        /\ moving'.n = moving.n /\ moving'.goal = moving.goal /\ moving' # NotMoving
    BY <1>13, <2>3 DEF NotMoving
  <2>5. Motion'
    <3>1. moving' = [remaining |-> moving'.remaining, to |-> moving'.to, from |-> moving'.from,
                     n |-> moving'.n, goal |-> moving'.goal]
      BY <2>3, <2>4
    <3>2. floor \in Nat /\ floor = NextFloor(moving.to, moving.from) /\ moving.n \in MoveLengths
      BY <1>1 DEF SInv, Motion, WholeTurns
    <3>3. r <= moving.n
      BY <1>2, <1>4
    <3>4. WholeTurns(moving')
      <4>1. PICK k \in Nat : moving.remaining = moving.n - k * blksz
        BY <1>1 DEF SInv, Motion, WholeTurns
      <4>2. r = moving.remaining - blksz
        BY <1>2, <1>3, <1>4, <1>13 DEF MinOf
      <4>3. PICK j \in Nat : j = k + 1
        OBVIOUS
      <4>4. j * blksz = k * blksz + blksz /\ k * blksz \in Nat
        BY <1>2, <4>3, SMTT(30)
      <4>5. r = moving.n - j * blksz
        <5>1. PICK kb \in Nat : kb = k * blksz
          BY <4>4
        <5>2. PICK m \in Nat : m = moving.n
          BY <1>2, <3>2, BoundAssumption
        <5>3. j * blksz = kb + blksz /\ moving.remaining = m - kb
          BY <4>1, <4>4, <5>1, <5>2
        <5> QED
          BY <1>2, <4>2, <5>1, <5>2, <5>3, BlockAssumption
      <4> QED
        BY <2>4, <3>2, <4>5 DEF WholeTurns
    <3> QED
      BY <1>1, <1>2, <1>13, <2>4, <3>1, <3>2, <3>3, <3>4 DEF Motion
  <2>6. ASSUME Faults = {}, CInv
        PROVE  CInv' /\ Seen' = Seen
    <3>1. Going'
      BY <1>1, <2>4, <2>6 DEF CInv, Going
    <3>2. Expected' = Midway(r) /\ Limit' = moving.from + r
      BY <2>4 DEF Expected, Limit, Midway
    <3>3. AllHold(u, Midway(r), moving.from + r)
      <4>1. /\ moving.from + r \in Nat /\ moving.from + r <= moving.from + r + n
            /\ moving.from + r <= moving.to + r
        BY <1>2, <1>3
      <4> QED
        BY <1>11, <2>6, <4>1
    <3>4. /\ Holds(disk', px'["master"], Midway(r))
          /\ px'["slave"] # NoSlave =>
               /\ moving.from + r <= px'["slave"].bf_offset + px'["slave"].bf_cnt
               /\ HoldsBelow(disk', px'["slave"], Midway(r), moving.from + r)
      BY <1>5, <1>8, <3>3, EndHolds
    <3>5. CInv'
      BY <3>1, <3>2, <3>4 DEF CInv, HasSlave
    <3> QED
      BY <1>1, <2>4, <3>5 DEF Seen
  <2> QED
    BY <1>10, <2>5, <2>6 DEF SInv
<1> QED
  BY <1>12, <1>13

-----------------------------------------------------------------------------
(* ncio_px_sync and what ends with it: every byte that was safe is in the  *)
(* file.                                                                   *)
Flat(s) ==
  /\ AtRest(s) /\ s.st = "ok" /\ s.px["slave"] = px["slave"]
  /\ \A a \in Addr : \A v : Safe(disk, px["master"], a, v) =>
       OnDisk(s.disk, a, v) /\ Safe(s.disk, s.px["master"], a, v)

(* What was safe is in the file after a buffer was written out.            *)
LEMMA SavedKeeps ==
  ASSUME NEW d0 \in Disks, NEW p, Paged(p), p.bf_offset # OFF_NONE,
         NEW d, Written(d0, p, d, p.bf_offset, p.bf_cnt, 0),
         NEW a \in Addr, NEW v, Safe(d0, p, a, v)
  PROVE  OnDisk(d, a, v)
<1>1. /\ a \in Nat /\ p.bf_offset \in Nat /\ p.bf_cnt \in Nat /\ p.bf_modified \in BOOLEAN
      /\ d0.size \in Nat /\ d.size \in Nat /\ d0.size <= d.size
  BY PageFields DEF Paged, Addr, OFF_NONE, Written, Disks
<1>2. CASE ~p.bf_modified
  <2>1. OnDisk(d0, a, v)
    BY <1>2 DEF Safe, Held
  <2>2. d.data = d0.data /\ d.size = d0.size
    BY <1>2 DEF Written
  <2> QED
    BY <2>1, <2>2 DEF OnDisk
<1>3. CASE p.bf_modified
  <2>1. /\ p.bf_cnt > 0 => d.size = MaxOf(d0.size, p.bf_offset + p.bf_cnt)
        /\ \A c \in Addr : d.data[c] = IF c \in p.bf_offset .. p.bf_offset + p.bf_cnt - 1
                                       THEN p.bf_base[c - p.bf_offset + 0] ELSE d0.data[c]
    BY <1>3 DEF Written
  <2>2. CASE Shown(p, a)
    <3>1. a \in p.bf_offset .. p.bf_offset + p.bf_cnt - 1 /\ p.bf_cnt > 0
          /\ a - p.bf_offset + 0 = a - p.bf_offset
      BY <1>1, <2>2 DEF Shown
    <3>2. d.data[a] = v
      BY <2>1, <2>2, <3>1 DEF Safe, Held
    <3>3. a < d.size
      BY <1>1, <2>1, <3>1 DEF MaxOf
    <3> QED
      BY <3>2, <3>3 DEF OnDisk
  <2>3. CASE ~Shown(p, a)
    <3>1. a \notin p.bf_offset .. p.bf_offset + p.bf_cnt - 1
      BY <1>1, <2>3 DEF Shown
    <3>2. OnDisk(d0, a, v)
      BY <2>3 DEF Safe, Held
    <3>3. d.data[a] = d0.data[a]
      BY <2>1, <3>1
    <3> QED
      BY <1>1, <3>2, <3>3 DEF OnDisk
  <2> QED
    BY <2>2, <2>3
<1> QED
  BY <1>1, <1>2, <1>3

(* ncio_px_sync puts everything in the file, also where it gives the       *)
(* buffer up.                                                              *)
LEMMA SyncedIs ==
  ASSUME Faults \subseteq {"short_read"}, Structure, NEW s \in Synced
  PROVE  Flat(s)
<1>1. /\ Now \in States /\ Now.disk = disk /\ Now.px = px /\ Ready(Now, "master")
      /\ Now.st = "ok" /\ "master" \in Buffers /\ "slave" \in Buffers /\ "master" # "slave"
  BY NowReady DEF Buffers
<1>2. PICK p \in Pages : p = px["master"] /\ Paged(p)
  BY NowReady DEF Structure, Resting, Paged
<1>3. p.bf_refcount = 0 /\ p.pos = 0 /\ (p.bf_cnt = 0 => p.bf_offset \in {OFF_NONE, 0})
      /\ disk \in Disks /\ disk.fd = 0
  BY <1>2 DEF Structure, Resting
<1>4. Slaved(px["slave"])
  BY SlavedNow
<1>5. CASE p.bf_modified
  <2>1. p.bf_offset # OFF_NONE
    BY <1>2, <1>5 DEF Paged
  <2>2. s \in Saved(Now, "master")
    BY <1>2, <1>5 DEF Synced
  <2>3. PICK d \in Disks, q \in Pages :
          /\ s = With(Now, "master", d, q) /\ q.pos = d.fd /\ ~q.bf_modified
          /\ q.bf_offset = p.bf_offset /\ q.bf_extent = p.bf_extent
          /\ q.bf_cnt = p.bf_cnt /\ q.bf_base = p.bf_base
          /\ q.bf_refcount = p.bf_refcount
          /\ Written(disk, p, d, p.bf_offset, p.bf_cnt, 0)
    BY <1>1, <1>2, <2>1, <2>2, SavedIs
  <2>4. /\ s.disk = d /\ s.px["master"] = q /\ s.st = "ok" /\ s \in States
    BY <1>1, <2>3, WithIs
  <2>5. s.px["slave"] = px["slave"]
    BY <1>1, <2>3 DEF With
  <2>6. Paged(q)
    BY <1>2, <2>3 DEF Paged
  <2>7. AtRest(s)
    BY <1>3, <1>4, <2>3, <2>4, <2>5, <2>6 DEF AtRest
  <2>8. ASSUME NEW a \in Addr, NEW v, Safe(disk, p, a, v)
        PROVE  OnDisk(d, a, v) /\ Safe(d, q, a, v)
    <3>1. OnDisk(d, a, v)
      BY <1>2, <1>3, <2>1, <2>3, <2>8, SavedKeeps
    <3>2. Shown(p, a) <=> Shown(q, a)
      BY <2>3 DEF Shown
    <3>3. Covered(p, a) <=> Covered(q, a)
      BY <2>3 DEF Covered
    <3>4. Held(d, q, a, v)
      BY <2>3, <2>8, <3>1, <3>2, <3>3 DEF Held, Safe
    <3> QED
      BY <3>1, <3>4 DEF Safe
  <2> QED
    BY <1>2, <2>4, <2>5, <2>7, <2>8 DEF Flat
<1>6. ASSUME ~p.bf_modified
      PROVE  \A a \in Addr : \A v : Safe(disk, p, a, v) => OnDisk(disk, a, v)
  BY <1>6 DEF Safe, Held
<1>7. CASE ~p.bf_modified /\ p.bf_write
  <2>1. s = Now
    BY <1>2, <1>7 DEF Synced
  <2>2. AtRest(Now)
    BY <1>1, <1>2, <1>3, <1>4 DEF AtRest
  <2> QED
    BY <1>1, <1>2, <1>6, <1>7, <2>1, <2>2 DEF Flat
<1>8. CASE ~p.bf_modified /\ ~p.bf_write
  <2>1. PICK q : q = [p EXCEPT !.bf_offset = OFF_NONE, !.bf_cnt = 0]
    OBVIOUS
  <2>2. /\ q.bf_offset = OFF_NONE /\ q.bf_cnt = 0 /\ q.bf_extent = p.bf_extent
        /\ q.bf_base = p.bf_base /\ q.bf_write = p.bf_write /\ q.bf_modified = p.bf_modified
        /\ q.bf_refcount = p.bf_refcount /\ q.pos = p.pos /\ q = Fields(q)
    BY <2>1 DEF Pages, Fields
  <2>3. q \in Pages
    <3>1. 0 \in 0 .. 2 * blksz
      BY <1>2, PageFields
    <3> QED
      BY <2>2, <3>1 DEF Pages, Fields
  <2>4. s = Page(Now, "master", q)
    BY <1>2, <1>8, <2>1 DEF Synced
  <2>5. s \in States /\ s.disk = disk /\ s.px["master"] = q /\ s.st = "ok"
    BY <1>1, <2>3, <2>4, PageIs
  <2>6. s.px["slave"] = px["slave"]
    BY <1>1, <2>4 DEF Page, With
  <2>7. Paged(q)
    BY <1>2, <1>8, <2>2, <2>3, PageFields DEF Paged
  <2>8. AtRest(s)
    BY <1>3, <1>4, <2>2, <2>5, <2>6, <2>7 DEF AtRest
  <2>9. ASSUME NEW a \in Addr, NEW v, Safe(disk, p, a, v)
        PROVE  OnDisk(disk, a, v) /\ Safe(disk, q, a, v)
    BY <1>6, <1>8, <2>2, <2>9 DEF Safe, Held, Shown, Covered
  <2> QED
    BY <1>2, <2>5, <2>6, <2>8, <2>9 DEF Flat
<1> QED
  BY <1>2, <1>5, <1>7, <1>8, PageFields

(* ncio_px_sync changes no byte.                                           *)
LEMMA SyncStep ==
  ASSUME Faults \subseteq {"short_read"}, SInv, ncio_px_sync
  PROVE  /\ SInv' /\ moving = NotMoving /\ moving' = NotMoving
         /\ Faults = {} /\ CInv => CInv' /\ Content' = Content
<1>1. /\ moving = NotMoving /\ moving' = NotMoving /\ floor' = floor /\ written' = written
  BY DEF ncio_px_sync, Idle
<1>2. PICK s \in Synced : Becomes(s)
  BY DEF ncio_px_sync
<1>3. Flat(s)
  BY <1>2, SyncedIs DEF SInv
<1>4. written' \subseteq Addr /\ floor' \in Nat
  BY <1>1 DEF SInv, Structure, Motion
<1>5. AtRest(s)
  BY <1>3 DEF Flat
<1>6. /\ SInv'
      /\ \A C : Sets(C, written') /\ AllHold(s, C, floor')
                  => CInv' /\ Content' = C
  BY <1>1, <1>2, <1>4, <1>5, End
<1>7. ASSUME Faults = {}, CInv
      PROVE  CInv' /\ Content' = Content
  <2>1. Sets(Content, written) /\ AllHold(Now, Content, floor)
    BY <1>1, <1>7, IdleHolds
  <2>2. Now.disk = disk /\ Now.px = px
    BY NowReady DEF SInv
  <2>3. \A a \in Addr : Content[a] # Unset =>
          OnDisk(s.disk, a, Content[a]) /\ Safe(s.disk, s.px["master"], a, Content[a])
    BY <1>3, <2>1, <2>2 DEF AllHold, Holds, Flat
  <2>4. s.px["slave"] # NoSlave =>
          /\ floor <= s.px["slave"].bf_offset + s.px["slave"].bf_cnt
          /\ HoldsBelow(s.disk, s.px["slave"], Content, floor)
    <3>1. PICK y : y = px["slave"] /\ s.px["slave"] = y
      BY <1>3 DEF Flat
    <3>2. ASSUME y # NoSlave, NEW a \in Addr, a < floor, Content[a] # Unset
          PROVE  Held(s.disk, y, a, Content[a])
      <4>1. Held(disk, y, a, Content[a])
        BY <2>1, <2>2, <3>1, <3>2 DEF AllHold, HoldsBelow
      <4> QED
        BY <2>3, <3>2, <4>1 DEF Held
    <3> QED
      BY <2>1, <2>2, <3>1, <3>2 DEF AllHold, HoldsBelow
  <2>5. AllHold(s, Content, floor')
    BY <1>1, <2>3, <2>4 DEF AllHold, Holds
  <2> QED
    BY <1>1, <1>6, <2>1, <2>5
<1> QED
  BY <1>1, <1>6, <1>7

(* The file at the time it is closed.                                      *)
LEMMA ClosedIs ==
  ASSUME Faults \subseteq {"short_read"}, Structure, NEW length \in 0 .. Size,
         NEW s, s \in IF length = 0 THEN Synced ELSE ncio_px_pad_length(length)
  PROVE  /\ s.disk \in Disks /\ s.st = "ok"
         /\ \A a \in Addr : \A v : Safe(disk, px["master"], a, v) => OnDisk(s.disk, a, v)
<1>1. ASSUME NEW t \in Synced
      PROVE  /\ t \in States /\ t.disk \in Disks /\ t.st = "ok" /\ t.px["master"] \in Pages
             /\ \A a \in Addr : \A v : Safe(disk, px["master"], a, v) => OnDisk(t.disk, a, v)
  <2>1. Flat(t)
    BY SyncedIs
  <2> QED
    BY <2>1 DEF Flat, AtRest, States, Paged
<1>2. CASE length = 0
  BY <1>1, <1>2
<1>3. CASE length # 0
  <2>1. PICK t \in Synced :
          s = IF t.st = "ok"
              THEN With(t, "master", [t.disk EXCEPT !.size = MaxOf(@, length)], t.px["master"])
              ELSE t
    BY <1>3 DEF ncio_px_pad_length
  <2>2. PICK e \in Disks : e = t.disk
    BY <1>1
  <2>3. PICK d : d = [e EXCEPT !.size = MaxOf(@, length)]
    OBVIOUS
  <2>4. /\ d.size = MaxOf(e.size, length) /\ d.data = e.data /\ d.fd = e.fd
        /\ d = [data |-> d.data, size |-> d.size, fd |-> d.fd]
    BY <2>3 DEF Disks
  <2>5. e.size \in Nat /\ e.size <= Size /\ length \in Nat /\ length <= Size /\ Size \in Nat
    BY BoundAssumption DEF Disks
  <2>6. d.size \in 0 .. Size /\ e.size <= d.size /\ d.size \in Nat
    BY <2>4, <2>5 DEF MaxOf
  <2>7. d \in Disks
    BY <2>4, <2>6 DEF Disks
  <2>8. s = With(t, "master", d, t.px["master"])
    BY <1>1, <2>1, <2>2, <2>3
  <2>9. s.disk = d /\ s.st = "ok"
    BY <1>1, <2>8 DEF With
  <2>10. ASSUME NEW a \in Addr, NEW v, Safe(disk, px["master"], a, v)
         PROVE  OnDisk(d, a, v)
    <3>1. OnDisk(e, a, v) /\ a \in Nat
      BY <1>1, <2>2, <2>10 DEF Addr
    <3> QED
      BY <2>4, <2>5, <2>6, <3>1 DEF OnDisk
  <2> QED
    BY <2>7, <2>9, <2>10
<1> QED
  BY <1>2, <1>3

(* The buffer of a file that has just been opened.                         *)
LEMMA OpenedIs ==
  /\ Opened.bf_offset = OFF_NONE /\ Opened.bf_cnt = 0 /\ ~Opened.bf_modified
  /\ Resting(Opened)
<1>1. PICK b : b = [i \in BufIndex |-> Garbage]
  OBVIOUS
<1>2. b \in [BufIndex -> Bytes]
  BY <1>1 DEF Bytes
<1>3. PICK p : p = [bf_offset |-> OFF_NONE, bf_extent |-> 0, bf_cnt |-> 0, bf_base |-> b,
                    bf_write |-> FALSE, bf_modified |-> FALSE, bf_refcount |-> 0, pos |-> 0]
  OBVIOUS
<1>4. Opened = p
  <2>1. PICK c : c = [i \in {} |-> Garbage]
    OBVIOUS
  <2>2. PICK z : z = [bf_offset |-> OFF_NONE, bf_extent |-> 0, bf_cnt |-> 0, bf_base |-> c,
                      bf_write |-> FALSE, bf_modified |-> FALSE, bf_refcount |-> 0,
                      pos |-> OFF_NONE]
    OBVIOUS
  <2>3. NoSlave = z
    BY <2>1, <2>2 DEF NoSlave
  <2>4. Opened = [z EXCEPT !.bf_base = b, !.pos = 0]
    BY <1>1, <2>3 DEF Opened
  <2>5. z \in [bf_offset : {OFF_NONE}, bf_extent : {0}, bf_cnt : {0}, bf_base : {c},
               bf_write : BOOLEAN, bf_modified : BOOLEAN, bf_refcount : Nat, pos : Int]
    BY <2>2 DEF OFF_NONE
  <2>6. PICK q : q = [z EXCEPT !.bf_base = b, !.pos = 0]
    OBVIOUS
  <2>7. /\ q.bf_offset = OFF_NONE /\ q.bf_extent = 0 /\ q.bf_cnt = 0 /\ q.bf_base = b
        /\ q.bf_write = FALSE /\ q.bf_modified = FALSE /\ q.bf_refcount = 0 /\ q.pos = 0
    BY <2>2, <2>6
  <2>8. q = Fields(q)
    BY <2>5, <2>6 DEF Fields
  <2> QED
    BY <1>3, <2>4, <2>6, <2>7, <2>8 DEF Fields
<1>5. p \in Pages
  <2>1. blksz \in Nat
    BY BlockAssumption
  <2>2. 0 \in 0 .. 2 * blksz
    BY <2>1
  <2> QED
    BY <1>2, <1>3, <2>2 DEF Pages
<1>6. p.bf_offset = OFF_NONE /\ p.bf_cnt = 0 /\ ~p.bf_modified /\ p.bf_extent = 0
      /\ p.bf_refcount = 0 /\ p.pos = 0
  BY <1>3
<1> QED
  BY <1>4, <1>5, <1>6 DEF Resting, Paged

(* Padding, closing and opening the file again change no byte.             *)
LEMMA CloseAndOpenStep ==
  ASSUME Faults \subseteq {"short_read"}, SInv, NEW length \in 0 .. Size, CloseAndOpen(length)
  PROVE  /\ SInv' /\ moving = NotMoving /\ moving' = NotMoving
         /\ Faults = {} /\ CInv => CInv' /\ Content' = Content
<1>1. /\ moving = NotMoving /\ moving' = NotMoving /\ floor' = NoFloor /\ written' = written
  BY DEF CloseAndOpen, Idle
<1>2. PICK s : /\ s \in IF length = 0 THEN Synced ELSE ncio_px_pad_length(length)
               /\ IF s.st = "assert" THEN Becomes(s)
                  ELSE /\ disk' = [s.disk EXCEPT !.fd = 0]
                       /\ px' = [w \in Buffers |-> IF w = "master" THEN Opened ELSE NoSlave]
                       /\ st' = s.st
  BY DEF CloseAndOpen
<1>3. PICK d \in Disks :
        /\ d = s.disk /\ s.st = "ok"
        /\ \A a \in Addr : \A v : Safe(disk, px["master"], a, v) => OnDisk(d, a, v)
  BY <1>2, ClosedIs DEF SInv
<1>4. disk' = [d EXCEPT !.fd = 0] /\ st' = "ok"
      /\ px' = [w \in Buffers |-> IF w = "master" THEN Opened ELSE NoSlave]
  BY <1>2, <1>3
<1>5. /\ disk'.data = d.data /\ disk'.size = d.size /\ disk'.fd = 0
      /\ disk' \in Disks
  BY <1>4 DEF Disks
<1>6. px'["master"] = Opened /\ px'["slave"] = NoSlave
  BY <1>4 DEF Buffers
<1>7. Structure'
  <2>1. Resting(px'["master"]) /\ Opened \in Pages
    BY <1>6, OpenedIs DEF Resting, Paged
  <2>2. px' \in [Buffers -> Pages \cup {NoSlave}]
    BY <1>4, <2>1
  <2>3. ~HasSlave'
    BY <1>6 DEF HasSlave
  <2>4. written' \subseteq Addr
    BY <1>1 DEF SInv, Structure
  <2> QED
    BY <1>4, <1>5, <2>1, <2>2, <2>3, <2>4 DEF Structure
<1>8. Motion'
  BY <1>1, BoundAssumption DEF Motion, NoFloor
<1>9. ASSUME Faults = {}, CInv
      PROVE  CInv' /\ Content' = Content
  <2>1. Sets(Content, written) /\ AllHold(Now, Content, floor)
    BY <1>1, <1>9, IdleHolds
  <2>2. Now.disk = disk /\ Now.px = px
    BY NowReady DEF SInv
  <2>3. \A a \in Addr : Content[a] # Unset => OnDisk(d, a, Content[a])
    BY <1>3, <2>1, <2>2 DEF AllHold, Holds
  <2>4. Holds(disk', px'["master"], Content)
    <3>1. \A a \in Addr : ~Shown(px'["master"], a) /\ ~Covered(px'["master"], a)
      BY <1>6, OpenedIs DEF Shown, Covered
    <3> QED
      BY <1>5, <2>3, <3>1 DEF Holds, Safe, Held, OnDisk
  <2> QED
    BY <1>1, <1>6, <1>7, <2>1, <2>4, Arrives
<1> QED
  BY <1>1, <1>7, <1>8, <1>9 DEF SInv

-----------------------------------------------------------------------------
(* The buffer of a new file.                                               *)
LEMMA CreatedIs ==
  /\ Created.bf_offset = 0 /\ Created.bf_cnt = 0
  /\ Resting(Created)
<1>1. PICK b : b = [i \in BufIndex |-> Zero]
  OBVIOUS
<1>2. b \in [BufIndex -> Bytes] /\ blksz \in Nat /\ blksz # 0 /\ Size \in Nat /\ Size # 0
  BY <1>1, BlockAssumption, BoundAssumption DEF Bytes
<1>3. PICK c : c = [i \in {} |-> Garbage]
  OBVIOUS
<1>4. PICK z : z = [bf_offset |-> OFF_NONE, bf_extent |-> 0, bf_cnt |-> 0, bf_base |-> c,
                    bf_write |-> FALSE, bf_modified |-> FALSE, bf_refcount |-> 0,
                    pos |-> OFF_NONE]
  OBVIOUS
<1>5. NoSlave = z
  BY <1>3, <1>4 DEF NoSlave
<1>6. z \in [bf_offset : {OFF_NONE}, bf_extent : {0}, bf_cnt : {0}, bf_base : {c},
             bf_write : BOOLEAN, bf_modified : BOOLEAN, bf_refcount : Nat, pos : Int]
  BY <1>4 DEF OFF_NONE
<1>7. PICK q : q = [z EXCEPT !.bf_offset = 0, !.bf_extent = 2 * blksz, !.pos = 0, !.bf_base = b]
  OBVIOUS
<1>8. Created = q
  BY <1>1, <1>5, <1>7 DEF Created
<1>9. /\ q.bf_offset = 0 /\ q.bf_extent = 2 * blksz /\ q.bf_cnt = 0 /\ q.bf_base = b
      /\ q.bf_write = FALSE /\ q.bf_modified = FALSE /\ q.bf_refcount = 0 /\ q.pos = 0
  BY <1>4, <1>7
<1>10. q = Fields(q)
  BY <1>6, <1>7 DEF Fields
<1>11. q \in Pages
  <2>1. 0 \in Addr /\ 0 \in 0 .. 2 * blksz
    BY <1>2 DEF Addr
  <2>2. q.bf_offset \in Addr \cup {OFF_NONE} /\ q.bf_cnt \in 0 .. 2 * blksz
    BY <1>9, <2>1
  <2>3. q.bf_extent \in {0, blksz, 2 * blksz} /\ q.bf_base \in [BufIndex -> Bytes]
    BY <1>2, <1>9
  <2>4. q.bf_write \in BOOLEAN /\ q.bf_modified \in BOOLEAN
    BY <1>9
  <2>5. q.bf_refcount \in Nat /\ q.pos \in Nat
    BY <1>9
  <2> HIDE <1>9
  <2> QED
    BY <1>10, <2>2, <2>3, <2>4, <2>5 DEF Pages, Fields
<1>12. 0 % blksz = 0
  BY <1>2, Multiple
<1> QED
  BY <1>2, <1>8, <1>9, <1>11, <1>12 DEF Resting, Paged

(* A new file and an existing one begin with nothing lost.                 *)
LEMMA InitInv ==
  ASSUME Init
  PROVE  SInv /\ CInv
<1>1. PICK start \in Starts :
        \/ /\ px = [w \in Buffers |-> IF w = "master" THEN Created ELSE NoSlave]
           /\ written = {}
           /\ disk = [data |-> [a \in Addr |-> Zero], size |-> start.size, fd |-> 0]
        \/ /\ px = [w \in Buffers |-> IF w = "master" THEN Opened ELSE NoSlave]
           /\ disk = [data |-> [a \in Addr |-> IF a >= start.size THEN Zero
                                              ELSE IF a = start.mark THEN Mark
                                              ELSE Plain],
                      size |-> start.size, fd |-> 0]
           /\ written = 0 .. start.size - 1
  BY DEF Init
<1>2. st = "ok" /\ moving = NotMoving /\ floor = NoFloor
  BY DEF Init
<1>3. start.size \in 0 .. Size /\ Size \in Nat /\ start.size \in Nat
  BY BoundAssumption
<1>4. disk \in Disks /\ disk.fd = 0 /\ disk.size = start.size
  BY <1>1, <1>3 DEF Disks, Bytes
<1>5. written \subseteq Addr
  BY <1>1, <1>3 DEF Addr
<1>6. px["slave"] = NoSlave /\ px["master"] \in {Created, Opened} /\ ~HasSlave
  BY <1>1 DEF Buffers, HasSlave
<1>7. Resting(px["master"])
  BY <1>6, CreatedIs, OpenedIs
<1>8. Structure
  <2>1. px["master"] \in Pages
    BY <1>7 DEF Resting, Paged
  <2>2. px \in [Buffers -> Pages \cup {NoSlave}]
    <3>1. px = [w \in Buffers |-> IF w = "master" THEN px["master"] ELSE NoSlave]
      BY <1>1, <1>6 DEF Buffers
    <3> QED
      BY <2>1, <3>1
  <2> QED
    BY <1>2, <1>4, <1>5, <1>6, <1>7, <2>2 DEF Structure
<1>9. SInv
  BY <1>2, <1>3, <1>8 DEF SInv, Motion, NoFloor
<1>10. Holds(disk, px["master"], Content)
  <2>1. SUFFICES ASSUME NEW a \in Addr, Content[a] # Unset
                 PROVE  Safe(disk, px["master"], a, Content[a])
    BY DEF Holds
  <2>2. a \in written /\ Content[a] = View(disk, px["master"], a) /\ a \in Nat
    BY <2>1 DEF Content, Addr
  <2>3. px["master"] = Opened /\ a < disk.size
    BY <1>1, <1>3, <1>4, <2>2 DEF Buffers
  <2>4. ~Shown(Opened, a) /\ ~Covered(Opened, a) /\ Opened.bf_offset = OFF_NONE
    BY OpenedIs DEF Shown, Covered
  <2>5. Content[a] = disk.data[a]
    BY <2>2, <2>3, <2>4 DEF View
  <2> QED
    BY <2>3, <2>4, <2>5 DEF Safe, Held, OnDisk
<1>11. CInv
  BY <1>2, <1>6, <1>10 DEF CInv, Going, Expected
<1> QED
  BY <1>9, <1>11

(* Every step keeps the invariant, and is a step of the memory of bytes or *)
(* does not show in it.                                                    *)
LEMMA NextInv ==
  ASSUME Faults \subseteq {"short_read"}, SInv, [Next]_vars
  PROVE  SInv' /\ (Faults = {} /\ CInv => CInv' /\ [AbstractFile!Next]_Seen)
<1>1. CASE UNCHANGED vars
  <2>1. SInv'
    BY <1>1 DEF vars, SInv, Structure, Motion, HasSlave
  <2>2. Content' = Content
    BY <1>1 DEF vars, Content
  <2>3. CInv => CInv'
    BY <1>1, <2>2 DEF vars, CInv, Going, Expected, Limit, HasSlave
  <2>4. Seen' = Seen
    BY <1>1, <2>2 DEF vars, Seen
  <2> QED
    BY <2>1, <2>3, <2>4
<1>2. ASSUME NEW o \in Addr, NEW n \in 1 .. MaxExtent, Fits(o, n), Read(o, n)
      PROVE  SInv' /\ (Faults = {} /\ CInv => CInv' /\ Seen' = Seen)
  <2>1. n \in Nat \ {0} /\ o + n <= Size
    BY <1>2, BoundAssumption DEF Fits
  <2> QED
    BY <1>2, <2>1, ReadStep DEF Seen
<1>3. ASSUME NEW o \in Addr, NEW n \in 1 .. MaxExtent, Fits(o, n), NEW m \in 1 .. n,
             NEW v \in {Plain, Mark}, Write(o, n, m, v)
      PROVE  SInv' /\ (Faults = {} /\ CInv => CInv' /\ [AbstractFile!Next]_Seen)
  <2>1. n \in Nat \ {0} /\ o + n <= Size /\ o \in Nat /\ Size \in Nat /\ m \in Nat
    BY <1>3, BoundAssumption DEF Fits, Addr
  <2>2. Wrote(o, m, v)
    BY <1>3, <2>1, WriteStep
  <2>3. ASSUME Seen' = [a \in Addr |-> IF a \in o .. o + m - 1 THEN v ELSE Seen[a]]
        PROVE  AbstractFile!Next
    <3>1. o + m - 1 \in AbstractFile!Addr /\ o \in AbstractFile!Addr
      BY <2>1 DEF AbstractFile!Addr, Addr
    <3>2. m \in AbstractFile!Lengths /\ v \in Bytes
      BY <2>1 DEF AbstractFile!Lengths, Bytes
    <3>3. AbstractFile!Write(o, m, v)
      BY <2>3, <3>1 DEF AbstractFile!Write, AbstractFile!Addr, Addr, Seen
    <3> QED
      BY <3>1, <3>2, <3>3 DEF AbstractFile!Next
  <2> QED
    BY <2>2, <2>3 DEF Seen, Wrote
<1>4. ASSUME NEW to \in Addr, NEW from \in Addr, NEW n \in MoveLengths,
             to + n <= Size, from + n <= Size, MoveSmall(to, from, n) \/ MoveBegin(to, from, n)
      PROVE  SInv' /\ (Faults = {} /\ CInv => CInv' /\ [AbstractFile!Next]_Seen)
  <2>1. n \in Nat \ {0} /\ Size \in Nat /\ to \in Nat /\ from \in Nat
    BY <1>4, BoundAssumption DEF Addr
  <2>2. SInv' /\ (Faults = {} /\ CInv => CInv' /\ Seen' = Moved(to, from, n)) /\ Seen = Content
    <3>1. CASE MoveSmall(to, from, n)
      BY <1>4, <2>1, <3>1, MoveSmallStep DEF Seen
    <3>2. CASE MoveBegin(to, from, n)
      BY <1>4, <2>1, <3>2, MoveBeginStep DEF Seen
    <3> QED
      BY <1>4, <3>1, <3>2
  <2>3. ASSUME Seen' = Moved(to, from, n)
        PROVE  AbstractFile!Next
    <3>1. {to + n - 1, from + n - 1} \subseteq AbstractFile!Addr
          /\ to \in AbstractFile!Addr /\ from \in AbstractFile!Addr
      BY <1>4, <2>1 DEF AbstractFile!Addr, Addr
    <3>2. n \in AbstractFile!Lengths
      BY <1>4, <2>1 DEF AbstractFile!Lengths
    <3>3. Seen' = [a \in Addr |-> IF a \in to .. to + n - 1 THEN Content[a - to + from]
                                  ELSE Content[a]]
      BY <2>3 DEF Moved
    <3>4. Seen' = [a \in Addr |-> IF a \in to .. to + n - 1 THEN Seen[(a + from) - to]
                                  ELSE Seen[a]]
      <4>1. \A a \in Addr : a - to + from = (a + from) - to
        BY <2>1 DEF Addr
      <4> QED
        BY <2>2, <3>3, <4>1
    <3>5. AbstractFile!Move(to, from, n)
      BY <3>1, <3>4 DEF AbstractFile!Move, AbstractFile!Addr, Addr, Seen
    <3> QED
      BY <3>1, <3>2, <3>5 DEF AbstractFile!Next
  <2> QED
    BY <2>2, <2>3
<1>5. CASE MoveStep
  BY <1>5, MoveStepStep
<1>6. CASE ncio_px_sync
  BY <1>6, SyncStep DEF Seen
<1>7. ASSUME NEW length \in 0 .. Size, CloseAndOpen(length)
      PROVE  SInv' /\ (Faults = {} /\ CInv => CInv' /\ Seen' = Seen)
  BY <1>7, CloseAndOpenStep DEF Seen
<1> QED
  BY <1>1, <1>2, <1>3, <1>4, <1>5, <1>6, <1>7 DEF Next

-----------------------------------------------------------------------------
(* The invariant gives the type invariant.                                 *)
LEMMA SInvTypeOK ==
  ASSUME SInv
  PROVE  TypeOK
<1>1. \A p : Resting(p) => BufferOK(p)
  <2>1. SUFFICES ASSUME NEW p, Resting(p)
                 PROVE  BufferOK(p)
    OBVIOUS
  <2>2. Paged(p) /\ p \in Pages
    BY <2>1 DEF Resting, Paged
  <2>3. p.bf_cnt \in 0 .. p.bf_extent
    BY <2>2, PageFields DEF Paged
  <2> QED
    BY <2>2, <2>3, PageFields DEF BufferOK, Paged
<1>2. /\ disk.data \in [Addr -> Bytes] /\ disk.size \in 0 .. Size /\ disk.fd \in Nat
  BY DEF SInv, Structure, Disks
<1>3. moving.remaining \in 0 .. Size
  <2>1. CASE moving = NotMoving
    BY <2>1, BoundAssumption DEF NotMoving
  <2>2. CASE moving # NotMoving
    BY <2>2, BoundAssumption DEF SInv, Motion
  <2> QED
    BY <2>1, <2>2
<1> QED
  BY <1>1, <1>2, <1>3 DEF TypeOK, SInv, Structure

(* It gives CleanMirrorsFile: a byte that is safe in a clean buffer is in  *)
(* the file.                                                               *)
LEMMA CInvMirrors ==
  ASSUME SInv, CInv
  PROVE  CleanMirrorsFile
<1>1. SUFFICES ASSUME moving = NotMoving, NEW i \in BufIndex,
                      ~px["master"].bf_modified, px["master"].bf_offset # OFF_NONE,
                      i < px["master"].bf_cnt, px["master"].bf_offset + i \in written
               PROVE  px["master"].bf_base[i] = disk.data[px["master"].bf_offset + i]
  BY DEF CleanMirrorsFile, Idle
<1>2. PICK p : p = px["master"] /\ p \in Pages
  BY DEF SInv, Structure, Resting, Paged
<1>3. PICK a \in Addr : a = p.bf_offset + i /\ a \in written
  BY <1>1, <1>2 DEF SInv, Structure
<1>4. Sets(Content, written) /\ AllHold(Now, Content, floor)
      /\ Now.disk = disk /\ Now.px = px
  BY <1>1, IdleHolds, NowReady DEF SInv
<1>5. Safe(disk, p, a, Content[a])
  BY <1>2, <1>3, <1>4 DEF AllHold, Holds, Sets
<1>6. Shown(p, a) /\ a - p.bf_offset = i
  <2>1. p.bf_offset \in Int /\ p.bf_cnt \in Int
    BY <1>2, PageFields
  <2>2. i \in Int /\ 0 <= i /\ i < p.bf_cnt /\ a = p.bf_offset + i /\ p.bf_offset # OFF_NONE
    BY <1>1, <1>2, <1>3, BlockAssumption DEF BufIndex
  <2> QED
    BY <2>1, <2>2 DEF Shown
<1> QED
  BY <1>1, <1>2, <1>3, <1>5, <1>6 DEF Safe, Held, OnDisk

(* It gives GetReturnsContent: a get loses nothing, and shows what is      *)
(* held.                                                                   *)
LEMMA CInvReturns ==
  ASSUME Faults = {}, SInv, CInv
  PROVE  GetReturnsContent
<1>1. SUFFICES ASSUME moving = NotMoving, NEW o \in Addr, NEW n \in 1 .. MaxExtent, Fits(o, n),
                      NEW s \in ncio_px_get(o, n, FALSE), s.st = "ok",
                      NEW a \in (o .. o + n - 1) \cap written
               PROVE  s.px["master"].bf_base[a - o + s.diff] = View(disk, px["master"], a)
  BY DEF GetReturnsContent, Idle
<1>2. n \in Nat /\ n # 0 /\ n \in Nat \ {0} /\ o + n <= Size /\ o \in Nat
      /\ a \in written /\ a \in o .. o + n - 1
  BY <1>1, BoundAssumption DEF Fits, Addr
<1>3. a \in Addr /\ a \in Nat
  BY <1>2 DEF SInv, Structure, Addr
<1>4. PICK r : r = Page(Now, "slave", NoSlave)
  OBVIOUS
<1>5. /\ r \in States /\ r.disk = disk /\ r.px["master"] = px["master"]
      /\ Ready(r, "master") /\ "master" \in Buffers
  BY <1>4, AloneReady DEF SInv, Buffers
<1>6. (s = Failed(r) /\ blksz < n) \/ Got(r, "master", s, o, n)
  <2>1. PICK no \in BOOLEAN : no = FALSE
    OBVIOUS
  <2>2. s \in px_get(r, "master", o, n, no)
    BY <1>4, <2>1 DEF ncio_px_get
  <2> QED
    BY <1>2, <1>5, <2>2, GetIs
<1>7. Got(r, "master", s, o, n)
  BY <1>1, <1>5, <1>6, FailedIs
<1>8. PICK d, q : Gives(disk, px["master"], d, q, o, n) /\ s = Result(r, "master", d, q, o)
  BY <1>5, <1>7 DEF Got
<1>9. ResultIs(r, "master", d, q, o, s)
  BY <1>2, <1>5, <1>8, GotIs
<1>10. s.px["master"] = q /\ s.diff = o - q.bf_offset
  BY <1>9 DEF ResultIs
<1>11. /\ q.bf_offset \in Nat /\ q.bf_offset # OFF_NONE /\ q.bf_offset <= o
       /\ o + n <= q.bf_offset + q.bf_cnt /\ q.bf_cnt \in Nat
  BY <1>8, PageFields DEF Gives, Paged, Addr, OFF_NONE
<1>12. /\ Sets(Content, written) /\ AllHold(Now, Content, floor)
       /\ Content \in Contents /\ Content[a] = View(disk, px["master"], a)
       /\ Now.disk = disk /\ Now.px = px
  BY <1>1, <1>2, <1>3, IdleHolds, NowReady DEF SInv
<1>13. Holds(d, q, Content)
  BY <1>8, <1>12, GiveKeeps DEF AllHold
<1>14. Safe(d, q, a, Content[a])
  BY <1>2, <1>3, <1>12, <1>13 DEF Holds, Sets
<1>15. Shown(q, a) /\ a - o + s.diff = a - q.bf_offset
  BY <1>2, <1>3, <1>10, <1>11 DEF Shown
<1> QED
  BY <1>10, <1>12, <1>14, <1>15 DEF Safe, Held

-----------------------------------------------------------------------------
(* The buffers stay in order where only reads may be short.                *)
LEMMA Invariance ==
  ASSUME Faults \subseteq {"short_read"}
  PROVE  Spec => []SInv
<1>1. Init => SInv
  BY InitInv
<1>2. SInv /\ [Next]_vars => SInv'
  BY NextInv
<1> QED
  BY <1>1, <1>2, PTL DEF Spec

(* The contents stay where no system call fails.                           *)
LEMMA ContentInvariance ==
  ASSUME Faults = {}
  PROVE  Spec => [](SInv /\ CInv)
<1>1. Init => SInv /\ CInv
  BY InitInv
<1>2. SInv /\ CInv /\ [Next]_vars => (SInv /\ CInv)'
  BY NextInv
<1> QED
  BY <1>1, <1>2, PTL DEF Spec

(* The buffers of posixio.c stay in shape whatever the block size, the     *)
(* file and the requests: offsets are of blocks, bf_cnt never exceeds      *)
(* bf_extent, even where read(2) returns less than was asked for.  (With a *)
(* call that fails the slave and the descriptor may disagree, and a page   *)
(* stay in use.)                                                           *)
THEOREM TypeCorrect ==
  ASSUME Faults \subseteq {"short_read"}
  PROVE  Spec => []TypeOK
<1>1. SInv => TypeOK
  BY SInvTypeOK
<1> QED
  BY <1>1, Invariance, PTL

(* No assertion of px_pgout, px_pgin or px_get fails: every page that is   *)
(* written out has been released, and its position is where the descriptor *)
(* is.  It needs calls that do not fail: px_double_buffer does not release *)
(* the master's page when the slave's get fails.                           *)
THEOREM NeverAsserts ==
  ASSUME Faults \subseteq {"short_read"}
  PROVE  Spec => []NoAssertFails
<1>1. SInv => NoAssertFails
  BY DEF SInv, Structure, NoAssertFails
<1> QED
  BY <1>1, Invariance, PTL

(* A buffer that is not modified holds what the file holds, so             *)
(* ncio_px_sync and px_get may give it up.                                 *)
THEOREM CleanMirrors ==
  ASSUME Faults = {}
  PROVE  Spec => []CleanMirrorsFile
<1>1. SInv /\ CInv => CleanMirrorsFile
  BY CInvMirrors
<1> QED
  BY <1>1, ContentInvariance, PTL

(* ncio_px_get returns the bytes of the region, however the buffer was     *)
(* shifted, extended or replaced for it.                                   *)
THEOREM GetsReturnContent ==
  ASSUME Faults = {}
  PROVE  Spec => []GetReturnsContent
<1>1. SInv /\ CInv => GetReturnsContent
  BY CInvReturns
<1> QED
  BY <1>1, ContentInvariance, PTL

(* Buffer, slave and file are one memory of bytes: gets, shifts, syncs and *)
(* closes do not show, and ncio_px_move is a memmove.                      *)
THEOREM BufferedIsByteFile ==
  ASSUME Faults = {}
  PROVE  Spec => IsByteFile
<1>1. SInv /\ CInv => Seen \in [Addr -> Bytes \cup {Unset}]
  <2>1. ASSUME SInv, CInv, moving = NotMoving
        PROVE  Content \in Contents
    BY <2>1, IdleHolds
  <2> QED
    BY <2>1 DEF Seen, CInv, Going, Contents
<1>2. Init => AbstractFile!Init
  <2>1. Init => Seen \in [Addr -> Bytes \cup {Unset}]
    BY <1>1, InitInv
  <2> QED
    BY <2>1 DEF Seen, AbstractFile!Init, AbstractFile!Addr, Addr
<1>3. SInv /\ CInv /\ [Next]_vars
        => [AbstractFile!Next]_(IF moving = NotMoving THEN Content ELSE moving.goal)
  BY NextInv DEF Seen
<1> QED
  BY <1>2, <1>3, ContentInvariance, PTL DEF Spec, IsByteFile, AbstractFile!Spec

=============================================================================
