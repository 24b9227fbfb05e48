------------------------------- MODULE MemIO -------------------------------
(* A classic-format file in memory (libsrc/memio.c), the second            *)
(* implementation of ncio.h: NC_DISKLESS, which reads the file at open and *)
(* writes it at close (NC_PERSIST), and NC_INMEMORY, where a client hands  *)
(* over a block of memory and may get one back (nc_close_memio).           *)
(*                                                                         *)
(* There is one dataset at a time and one block of memory with it.  What   *)
(* follows on an undefined use of the heap is not described: the model     *)
(* stops there.                                                            *)
EXTENDS Naturals, FiniteSets, Sequences

CONSTANTS
  Size,     (* addresses are 0 .. Size - 1                                 *)
  pagesize,
  Bytes,    (* the values of a byte                                        *)
  Garbage,  (* a byte that malloc left as it was                           *)
  Unset,    (* a byte that no one has written, see ByteFile                *)
  MaxHeld,  (* bounds: of the regions a client holds at a time, and of     *)
  MaxLost,  (* gets that failed                                            *)
  Faults    (* {"disk"}: writing the file may fail                         *)

ASSUME MemIOAssumption == /\ Size \in Nat \ {0} /\ pagesize \in Nat \ {0}
                          /\ {Garbage, Unset} \cap Bytes = {}
                          /\ MaxLost \in Nat

VARIABLES
  memio,  (* NCMEMIO, its fields and the ioflags that matter, or Closed    *)
  block,  (* the memory: its bytes, "live" or not, and who has to free it  *)
  file,   (* the file on the disk: its size and bytes                      *)
  held,   (* the regions that were got and not released                    *)
  lost,   (* history: gets that failed since the dataset was opened        *)
  place   (* history: where the contents are: "block", "file" or "gone"    *)

vars == <<memio, block, file, held, lost, place>>

Addr == 0 .. Size - 1
Larger(m, n) == IF m >= n THEN m ELSE n
Rounded(n) == ((Larger(n, 1) + pagesize - 1) \div pagesize) * pagesize
Closed == [open |-> FALSE]
Below(data, n) == [a \in Addr |-> IF a < n THEN data[a] ELSE Garbage]
NoBytes == [a \in Addr |-> Garbage]

NCMEMIO(alloc, size, locked, write, persist, inmemory, own) ==
  [open |-> TRUE, alloc |-> alloc, size |-> size, locked |-> locked,
   modified |-> FALSE, write |-> write, persist |-> persist,
   inmemory |-> inmemory, given |-> own]

Init ==
  /\ memio = Closed /\ held = {} /\ lost = 0
  /\ place \in {"new", "file", "block"}
  /\ block = [state |-> IF place = "block" THEN "live" ELSE "none",
              owner |-> "client", size |-> IF place = "block" THEN 1 ELSE 0,
              bytes |-> NoBytes]
  /\ file  = [size |-> IF place = "file" THEN 1 ELSE 0, bytes |-> NoBytes]

-----------------------------------------------------------------------------
(* Opening *)

memio_create(initialsz, persist, inmemory) ==
  /\ ~memio.open /\ place = "new"
  /\ memio' = NCMEMIO(Rounded(initialsz), initialsz, 0, TRUE, persist,
                      inmemory, FALSE)
  /\ block' = [state |-> "live", owner |-> "library", size |-> 0,
               bytes |-> NoBytes]
  /\ place' = "block" /\ lost' = 0
  /\ UNCHANGED <<file, held>>

(* NC_DISKLESS: readfile, and the memory is enlarged to whole pages.       *)
OpenFile(write, persist) ==
  /\ ~memio.open /\ place = "file"
  /\ memio' = NCMEMIO(Rounded(file.size), file.size, 0, write, persist,
                      FALSE, FALSE)
  /\ block' = [state |-> "live", owner |-> "library", size |-> 0,
               bytes |-> Below(file.bytes, file.size)]
  /\ place' = "block" /\ lost' = 0
  /\ UNCHANGED <<file, held>>

(* NC_INMEMORY: the client's block, NC_MEMIO_LOCKED or given to the        *)
(* library, which then enlarges it to whole pages.                         *)
OpenMemory(write, lock) ==
  /\ ~memio.open /\ place = "block" /\ block.state = "live"
  /\ memio' = NCMEMIO(IF lock THEN block.size ELSE Rounded(block.size),
                      block.size, IF lock THEN 1 ELSE 0, write, FALSE, TRUE,
                      lock)
  /\ block' = [block EXCEPT !.owner = IF lock THEN "client" ELSE "library"]
  /\ lost' = 0 /\ UNCHANGED <<file, held, place>>

-----------------------------------------------------------------------------
(* The functions of ncio.  They give [st, m]: the status and the NCMEMIO.  *)

(* A bug to catch: the lock is not looked at.                              *)
Pad_unlocked(m, len) ==
  IF ~m.write THEN [st |-> "EPERM", m |-> m]
  ELSE IF len > m.alloc THEN [st |-> "fault", m |-> m]
  ELSE [st |-> "ok", m |-> [m EXCEPT !.size = len]]

(* realloc frees or extends the old block, and then the code frees it      *)
(* again: whichever way, the heap is not what it should be.                *)
memio_pad_length(m, len) ==
  IF ~m.write THEN [st |-> "EPERM", m |-> m]
  ELSE IF m.locked > 0 THEN [st |-> "EINMEMORY", m |-> m]
  ELSE IF len > m.alloc THEN [st |-> "fault", m |-> m]
  ELSE [st |-> "ok", m |-> [m EXCEPT !.size = len]]

guarantee(m, endpoint) ==
  IF endpoint > m.alloc /\ memio_pad_length(m, endpoint).st # "ok"
  THEN memio_pad_length(m, endpoint)
  ELSE [st |-> "ok", m |-> [m EXCEPT !.size = Larger(@, endpoint)]]

Fault(st) == IF st = "fault" THEN [block EXCEPT !.state = "fault"] ELSE block
Running == memio.open /\ block.state = "live"

(* The lock is counted up even if the get fails; its caller then does not  *)
(* release what it did not get.                                            *)
memio_get(o, n) ==
  /\ Running /\ Cardinality(held) < MaxHeld
  /\ LET g == guarantee(memio, o + n)
     IN /\ memio' = [g.m EXCEPT !.locked = @ + 1]
        /\ block' = Fault(g.st)
        /\ \/ /\ g.st = "ok" /\ <<o, n>> \notin held
              /\ held' = held \cup {<<o, n>>} /\ UNCHANGED lost
           \/ /\ g.st = "fault" /\ UNCHANGED <<held, lost>>
           \/ /\ g.st \in {"EPERM", "EINMEMORY"} /\ lost < MaxLost
              /\ lost' = lost + 1 /\ UNCHANGED held
  /\ UNCHANGED <<file, place>>

(* The client writes through the pointer it got.                           *)
Put(r, v) ==
  /\ Running /\ r \in held /\ memio.write
  /\ block' = [block EXCEPT !.bytes =
                 [a \in Addr |-> IF a \in r[1] .. r[1] + r[2] - 1 THEN v ELSE @[a]]]
  /\ UNCHANGED <<memio, file, held, lost, place>>

(* A bug to catch: releasing does not unlock.                              *)
Rel_stuck(r) ==
  /\ Running /\ r \in held /\ held' = held \ {r}
  /\ UNCHANGED <<memio, block, file, lost, place>>

memio_rel(r) ==
  /\ Running /\ r \in held
  /\ held' = held \ {r} /\ memio' = [memio EXCEPT !.locked = @ - 1]
  /\ UNCHANGED <<block, file, lost, place>>

(* A bug to catch: memcpy, from the first byte on.                         *)
Memmove_copy(data, to, from, n) ==
  [a \in Addr |->
     IF a \notin to .. to + n - 1 THEN data[a]
     ELSE IF to > from THEN data[from + ((a - to) % (to - from))]
     ELSE data[(a + from) - to]]

memmove(data, to, from, n) ==
  [a \in Addr |-> IF a \in to .. to + n - 1 THEN data[(a + from) - to]
                  ELSE data[a]]

(* A header that grows moves the data: what is there, with nothing held.   *)
memio_move(to, from, n) ==
  /\ Running /\ memio.write /\ held = {} /\ from + n <= memio.size
  /\ LET g == IF from < to THEN guarantee(memio, to + n)
              ELSE [st |-> "ok", m |-> memio]
     IN /\ memio' = g.m
        /\ block' = IF g.st # "ok" THEN Fault(g.st)
                    ELSE [block EXCEPT !.bytes = memmove(@, to, from, n)]
  /\ UNCHANGED <<file, held, lost, place>>

-----------------------------------------------------------------------------
(* Closing *)

(* The memory can be written to the disk, but for what does not fit.       *)
writefile(m) ==
  LET upto == IF "disk" \in Faults THEN 0 .. m.size ELSE {m.size}
  IN {[size |-> n, bytes |-> Below(block.bytes, n)] : n \in upto}

(* A bug to catch: what was handed out is freed all the same.              *)
Close_frees(m, extract) ==
  /\ memio' = Closed
  /\ IF m.persist /\ ~extract THEN file' \in writefile(m) ELSE UNCHANGED file
  /\ block' = [block EXCEPT !.owner = IF extract THEN "client" ELSE @,
       !.size = m.size, !.state = IF m.locked = 0 THEN "freed" ELSE @]
  /\ place' = IF m.persist /\ ~extract THEN "file" ELSE "gone"

(* memio_extract: a client that closes with nc_close_memio gets the        *)
(* memory.  memio_close: the file is written and the rest is freed.        *)
memio_close(m, extract) ==
  /\ memio' = Closed
  /\ IF m.persist /\ ~extract THEN file' \in writefile(m) ELSE UNCHANGED file
  /\ block' = [block EXCEPT
       !.owner = IF extract THEN "client" ELSE @,
       !.size  = m.size,
       !.state = IF ~extract /\ (m.locked = 0 \/ m.modified) THEN "freed" ELSE @]
  /\ place' = IF extract \/ m.given THEN "block"
              ELSE IF m.persist \/ ~(m.write \/ m.inmemory) THEN "file"
              ELSE "gone"

(* NC3_close: a file shorter than it should be is padded first; if that    *)
(* fails the dataset stays open.                                           *)
NC3_close(calcsize, params) ==
  /\ Running /\ held = {}
  /\ LET pads == memio.write /\ memio.size < calcsize
         p == IF pads THEN memio_pad_length(memio, calcsize)
              ELSE [st |-> "ok", m |-> memio]
     IN IF p.st = "ok"
        THEN memio_close(p.m, params /\ memio.inmemory)
        ELSE block' = Fault(p.st) /\ UNCHANGED <<memio, file, place>>
  /\ UNCHANGED <<held, lost>>

Fits(o, n) == o + n <= Size

Next ==
  \/ \E n \in 0 .. Size, p, i \in BOOLEAN : memio_create(n, p, i)
  \/ \E w, p \in BOOLEAN : OpenFile(w, p)
  \/ \E w, l \in BOOLEAN : OpenMemory(w, l)
  \/ \E o \in Addr, n \in 1 .. Size : Fits(o, n) /\ memio_get(o, n)
  \/ \E r \in held : memio_rel(r) \/ \E v \in Bytes : Put(r, v)
  \/ \E to, from \in Addr, n \in 1 .. Size :
       to # from /\ Fits(to, n) /\ Fits(from, n) /\ memio_move(to, from, n)
  \/ \E n \in 0 .. Size, p \in BOOLEAN : NC3_close(n, p)

Spec == Init /\ [][Next]_vars

-----------------------------------------------------------------------------
(* The lock counts the pointers that are out, one for a block that is the  *)
(* client's (NC_MEMIO_LOCKED), and each get that failed, for good          *)
(* (memio_get, memio_rel).                                                 *)
LockCounts ==
  Running => memio.locked = Cardinality(held) + lost
                            + (IF memio.given THEN 1 ELSE 0)

(* Types; what is handed out lies within the memory, and the lock counts.  *)
TypeOK ==
  /\ block.state \in {"none", "live", "freed", "fault"}
  /\ block.owner \in {"client", "library"} /\ block.size \in 0 .. Size
  /\ {block.bytes, file.bytes} \subseteq [Addr -> Bytes \cup {Garbage}]
  /\ place \in {"new", "file", "block", "gone"}
  /\ held \subseteq Addr \X (1 .. Size) /\ lost \in 0 .. MaxLost
  /\ memio.open => /\ memio.size <= memio.alloc /\ memio.locked \in Nat
                   /\ \A r \in held : r[1] + r[2] <= memio.size
  /\ LockCounts

(* Memory that a client has a pointer to stays where it is: neither a get  *)
(* nor a close moves or frees it (NCMEMIO: "locked => we cannot realloc or *)
(* free").                                                                 *)
HeldStays ==
  [][held # {} /\ block.state = "live" => block'.state = "live"]_vars

(* Once a dataset is closed its memory is either the client's, who gave it *)
(* locked or got it from nc_close_memio, or freed: nobody frees it twice   *)
(* and it does not leak, but after a get that failed.                      *)
OneOwner ==
  ~memio.open /\ lost = 0 /\ block.state \in {"live", "freed"} =>
    (block.state = "live" <=> block.owner = "client")

(* What the memory holds, or the place it was put into, is one memory of   *)
(* bytes: opening, reading, padding and closing do not show.               *)
Defined(data, n) ==
  [a \in Addr |-> IF a < n /\ data[a] # Garbage THEN data[a] ELSE Unset]
AbstractFile == INSTANCE ByteFile WITH
  content <- IF memio.open THEN Defined(block.bytes, memio.size)
             ELSE IF place = "file" THEN Defined(file.bytes, file.size)
             ELSE Defined(block.bytes, block.size)
IsByteFile == AbstractFile!Spec

(* Growing is within what the heap allows: "the library is free to         *)
(* reallocate the incoming memory block to obtain a larger block" when an  *)
(* unlocked dataset needs more (memio_pad_length).                         *)
HeapSound == block.state # "fault"
=============================================================================
