------------------------------- MODULE PosixIO -----------------------------
(* The buffered file access of the classic format without NC_SHARE: the    *)
(* px functions of posixio.c.  One buffer of two blocks stands for the     *)
(* part of the file around the last request; px_get shifts it up or down   *)
(* by a block, extends it or replaces it, and writes back what was         *)
(* modified.  ncio_px_move copies regions larger than a block through a    *)
(* second buffer, the slave.                                               *)
(*                                                                         *)
(* The system calls may fail in the ways Faults names.  Offsets and        *)
(* extents are in bytes.                                                   *)
EXTENDS Integers, FiniteSets

CONSTANTS
  blksz,     (* the block size, sizehint rounded                           *)
  Size,      (* bound: addresses are 0 .. Size - 1                         *)
  Plain,     (* the byte value most writes write                           *)
  Mark,      (* the byte value of one write: no byte is ever inspected, so *)
             (* telling one write from all others finds every mix-up       *)
  Zero,      (* the byte that fills holes and fresh buffers                *)
  Garbage,   (* the contents of malloc'ed memory                           *)
  Unset,     (* the abstract value of a byte that was never written        *)
  MaxExtent, (* bound: the longest request                                 *)
  Starts,    (* bound: how large the file is at the start, where its Mark  *)
             (* is, and how many writes of each value and moves there are  *)
  MoveLengths, (* bound: the lengths of moves                              *)
  Pad,       (* how much longer the length of a variable is than its       *)
             (* values: NC_var_shape rounds it up to a multiple of 4       *)
  Faults     (* the failures of system calls that may happen               *)

ASSUME BlockAssumption == blksz \in Nat \ {0}
ASSUME FaultAssumption ==
  Faults \subseteq {"read_error", "short_read", "write_error"}
ASSUME BoundAssumption ==
  /\ Size \in Nat \ {0} /\ MaxExtent \in Nat /\ MoveLengths \subseteq Nat \ {0}
  /\ \A start \in Starts : start.size \in 0 .. Size
(* What a move has left after whole blocks is no less than the padding:    *)
(* lengths and blocks are multiples of 4.                                  *)
ASSUME PadAssumption ==
  /\ Pad \in Nat
  /\ \A n \in MoveLengths, k \in 0 .. Size : n > k * blksz => n - k * blksz >= Pad
ASSUME ByteAssumption == Unset \notin {Plain, Mark, Zero, Garbage}

Addr     == 0 .. Size - 1
Bytes    == {Plain, Mark, Zero, Garbage}
OFF_NONE == -1
Buffers  == {"master", "slave"}

VARIABLES
  disk,    (* the file: its bytes, size, and the descriptor's position     *)
  px,      (* the ncio_px structures; the slave's bf_base is {} when there *)
           (* is no slave                                                  *)
  st,      (* how the last call ended: "ok", "err" or "assert"             *)
  moving,  (* the loop state of ncio_px_move, or NotMoving                 *)
  floor,   (* where the sources of further moves through this slave end    *)
  written, (* history: the bytes the client has written                    *)
  left     (* bound: the writes and moves that are left                    *)

vars == <<disk, px, st, moving, floor, written, left>>

NotMoving == [remaining |-> 0]
NoFloor   == Size

MinOf(a, b) == IF a <= b THEN a ELSE b
MaxOf(a, b) == IF a <= b THEN b ELSE a
RNDDOWN(n)  == n - (n % blksz)
RNDUP(n)    == RNDDOWN(n + blksz - 1)

BufIndex == 0 .. 2 * blksz - 1
Upper    == blksz .. 2 * blksz - 1

(* A state of the file and the buffers within a call, with the offset into *)
(* the buffer that px_get returns.                                         *)
Now == [disk |-> disk, px |-> px, st |-> "ok", diff |-> 0]

(* s with another state of the file and of buffer w; and after a failure.  *)
With(s, w, d, p) == [disk |-> d, px |-> [s.px EXCEPT ![w] = p],
                     st |-> s.st, diff |-> s.diff]
Page(s, w, p)    == With(s, w, s.disk, p)
Failed(s)        == [s EXCEPT !.st = "err"]

(* Continue with Step after each outcome that is not a failure.            *)
Then(S, Step(_)) == UNION {IF s.st = "ok" THEN Step(s) ELSE {s} : s \in S}

NoSlave == [bf_offset |-> OFF_NONE, bf_extent |-> 0, bf_cnt |-> 0,
            bf_base |-> [i \in {} |-> Garbage], bf_write |-> FALSE,
            bf_modified |-> FALSE, bf_refcount |-> 0, pos |-> OFF_NONE]

HasSlave == px["slave"] # NoSlave

-----------------------------------------------------------------------------
(* Writing and reading pages *)

(* The descriptor is not where *posp says.                                 *)
Astray(s, w) == s.px[w].pos \notin {OFF_NONE, s.disk.fd}

(* k of the bytes base[from], base[from + 1], ... reach the file at offset *)
Stored(s, w, offset, from, k) ==
  [data |-> [a \in Addr |-> IF a \in offset .. offset + k - 1
                            THEN s.px[w].bf_base[a - offset + from]
                            ELSE s.disk.data[a]],
   size |-> IF k = 0 THEN s.disk.size ELSE MaxOf(s.disk.size, offset + k),
   fd   |-> offset + k]

(* A write that fails after some bytes moves the descriptor, not *posp.    *)
px_pgout(s, w, offset, extent, from) ==
  IF Astray(s, w) THEN {[s EXCEPT !.st = "assert"]}
  ELSE {With(s, w, Stored(s, w, offset, from, extent),
                   [s.px[w] EXCEPT !.pos = offset + extent])}
       \cup {Failed(With(s, w, Stored(s, w, offset, from, k),
                               [s.px[w] EXCEPT !.pos = offset])) :
             k \in IF "write_error" \in Faults THEN 0 .. extent - 1 ELSE {}}

(* Bytes that a read at offset finds before the end of the file.           *)
Present(s, offset, extent) ==
  MinOf(extent, MaxOf(0, s.disk.size - offset))

(* The counts read(2) may return; the code takes fewer bytes than it asked *)
(* for as the end of the file.                                             *)
NRead(s, offset, extent) ==
  {Present(s, offset, extent)} \cup
  (IF "short_read" \in Faults THEN 1 .. Present(s, offset, extent) - 1 ELSE {})

(* extent bytes from offset into base[from], base[from + 1], ...; bf_cnt   *)
(* is the number of bytes read.  When the descriptor is astray errno       *)
(* decides between an error and going on; an error seeks nowhere.          *)
px_pgin(s, w, offset, extent, from) ==
  LET p  == s.px[w]
      at == IF p.pos # offset THEN offset ELSE s.disk.fd
      Loaded(nread) ==
        [p EXCEPT !.bf_base = [i \in BufIndex |->
                      IF i \notin from .. from + extent - 1 THEN p.bf_base[i]
                      ELSE IF i - from < nread THEN s.disk.data[at + i - from]
                      ELSE Zero],
                  !.bf_cnt = nread,
                  !.pos = offset + nread]
  IN (IF Astray(s, w) THEN {Failed(s)} ELSE {})
     \cup {With(s, w, [s.disk EXCEPT !.fd = at + nread], Loaded(nread)) :
           nread \in NRead(s, at, extent)}
     \cup {Failed(With(s, w, [s.disk EXCEPT !.fd = at], [p EXCEPT !.pos = offset])) :
           x \in Faults \cap {"read_error"}}

(* Write back n bytes of a modified buffer.                                *)
Flush(s, w, offset, n, from) ==
  LET p == s.px[w] IN
  IF ~p.bf_modified THEN {s}
  ELSE IF p.bf_refcount > 0 THEN {[s EXCEPT !.st = "assert"]}
  ELSE px_pgout(s, w, offset, n, from)

(* The buffer is as in the file.                                           *)
Clean(s, w) ==
  Page(s, w, [s.px[w] EXCEPT !.bf_modified = FALSE, !.bf_write = FALSE])

-----------------------------------------------------------------------------
(* px_get *)

(* Bugs: the count of the upper block alone, and an extent that stays.     *)
PageInUpper_nocount(s, w) ==
  {IF t.st = "ok" THEN Page(t, w, [t.px[w] EXCEPT !.bf_extent = 2 * blksz]) ELSE t :
   t \in px_pgin(s, w, s.px[w].bf_offset + blksz, blksz, blksz)}
PageInUpper_noextent(s, w) ==
  {IF t.st = "ok" THEN Page(t, w, [t.px[w] EXCEPT !.bf_cnt = @ + blksz]) ELSE t :
   t \in px_pgin(s, w, s.px[w].bf_offset + blksz, blksz, blksz)}

(* Read the upper block; px_pgin has put its byte count into bf_cnt.       *)
PageInUpper(s, w) ==
  LET Joined(t) == {Page(t, w, [t.px[w] EXCEPT !.bf_extent = 2 * blksz,
                                               !.bf_cnt = @ + blksz])} IN
  Then(px_pgin(s, w, s.px[w].bf_offset + blksz, blksz, blksz), Joined)

(* The request starts in the upper block and ends above it: that block     *)
(* becomes the lower one, but only the bytes that bf_cnt counts are copied.*)
ShiftUp(s, w) ==
  LET p == s.px[w]
      Shifted(t) ==
        {Page(t, w, [t.px[w] EXCEPT
           !.bf_offset = @ + blksz,
           !.bf_cnt = IF @ > blksz THEN @ - blksz ELSE @,
           !.bf_base = [i \in BufIndex |-> IF i < p.bf_cnt - blksz
                                           THEN p.bf_base[i + blksz]
                                           ELSE p.bf_base[i]]])}
      Load(t) == PageInUpper(t, w)
  IN Then(Then(Flush(s, w, p.bf_offset, blksz, 0), Shifted), Load)

(* Write the upper block back and give it up.                              *)
DropUpper(s, w) ==
  LET p == s.px[w]
      Drop(t) == {Page(t, w, [t.px[w] EXCEPT !.bf_cnt = blksz, !.bf_extent = blksz])}
  IN IF p.bf_cnt > blksz
     THEN Then(Flush(s, w, p.bf_offset + blksz, p.bf_cnt - blksz, blksz), Drop)
     ELSE {s}

(* The request starts one block below the buffer: the lower block becomes  *)
(* the upper one.                                                          *)
ShiftDown(s, w) ==
  LET p == s.px[w]
      upper_cnt == MinOf(p.bf_cnt, blksz)
      Copied(t) ==
        Page(t, w, [t.px[w] EXCEPT !.bf_base = [i \in BufIndex |->
          IF i \in Upper /\ upper_cnt # 0 THEN p.bf_base[i - blksz]
          ELSE p.bf_base[i]]])
      Load(t) == px_pgin(Copied(t), w, p.bf_offset - blksz, blksz, 0)
      Join(t) ==
        {Page(t, w, [t.px[w] EXCEPT
           !.bf_offset = p.bf_offset - blksz,
           !.bf_extent = IF upper_cnt # 0 THEN 2 * blksz ELSE blksz,
           !.bf_cnt    = IF upper_cnt # 0 THEN blksz + upper_cnt ELSE @])}
  IN Then(Then(DropUpper(s, w), Load), Join)

(* Write back the whole of a modified buffer.                              *)
Saved(s, w) ==
  LET p == s.px[w]
      Cleaned(t) == {Clean(t, w)}
  IN IF p.bf_modified THEN Then(Flush(s, w, p.bf_offset, p.bf_cnt, 0), Cleaned)
     ELSE {s}

Replace(s, w, blkoffset, blkextent) ==
  LET Load(t)  == px_pgin(t, w, blkoffset, blkextent, 0)
      Place(t) == {Page(t, w, [t.px[w] EXCEPT !.bf_offset = blkoffset,
                                              !.bf_extent = blkextent])}
      saved    == IF s.px[w].bf_offset = OFF_NONE THEN {s} ELSE Saved(s, w)
  IN Then(Then(saved, Load), Place)

UpperHit(p, blkoffset) ==
  p.bf_extent > blksz /\ blkoffset = p.bf_offset + blksz

(* Bring the blocks of a request into the buffer.                          *)
Covering(s, w, blkoffset, blkextent) ==
  LET p == s.px[w] IN
  IF p.bf_offset = OFF_NONE THEN Replace(s, w, blkoffset, blkextent)
  ELSE IF blkoffset = p.bf_offset
  THEN IF blkextent > p.bf_extent THEN PageInUpper(s, w) ELSE {s}
  ELSE IF UpperHit(p, blkoffset)
  THEN IF blkextent = blksz THEN {s} ELSE ShiftUp(s, w)
  ELSE IF blkoffset = p.bf_offset - blksz THEN ShiftDown(s, w)
  ELSE Replace(s, w, blkoffset, blkextent)

(* The end of px_get: the count grows to the end of the request.           *)
Taken(s, w, idx, extent, write) ==
  LET cnt == MaxOf(s.px[w].bf_cnt, idx + extent)
      got == [s.px[w] EXCEPT !.bf_cnt = cnt, !.bf_write = @ \/ write,
                             !.bf_refcount = @ + 1]
  IN [disk |-> s.disk, px |-> [s.px EXCEPT ![w] = got],
      st |-> IF cnt <= got.bf_extent THEN "ok" ELSE "assert", diff |-> idx]

(* The outcomes of px_get; diff is the index of offset in bf_base.         *)
px_get(s, w, offset, extent, write) ==
  LET p         == s.px[w]
      blkoffset == RNDDOWN(offset)
      diff      == offset - blkoffset
      blkextent == RNDUP(diff + extent)
      inUpper   == p.bf_offset # OFF_NONE /\ UpperHit(p, blkoffset) /\ blkextent = blksz
      idx       == IF inUpper THEN diff + blksz ELSE diff
      Done(t)   == {Taken(t, w, idx, extent, write)}
  IN IF 2 * blksz < blkextent THEN {Failed(s)}
     ELSE Then(Covering(s, w, blkoffset, blkextent), Done)

(* Bug: the last release decides the flag.                                 *)
px_rel_assign(s, w, modified) ==
  Page(s, w, [s.px[w] EXCEPT !.bf_refcount = @ - 1, !.bf_modified = modified])

(* Release a region; modified is the RGN_MODIFIED flag.                    *)
px_rel(s, w, modified) ==
  Page(s, w, [s.px[w] EXCEPT !.bf_refcount = @ - 1,
                             !.bf_modified = @ \/ modified])

(* ncio_px_get gives up the slave of an earlier move first.                *)
ncio_px_get(o, n, write) ==
  px_get(Page(Now, "slave", NoSlave), "master", o, n, write)

(* The client has changed the memory it was given to base.                 *)
Changed(s, base) ==
  Page(s, "master", [s.px["master"] EXCEPT !.bf_base = base])

-----------------------------------------------------------------------------
(* The byte at an address as the next px_get would show it.                *)
View(d, p, a) ==
  IF p.bf_offset # OFF_NONE /\ a \in p.bf_offset .. p.bf_offset + p.bf_cnt - 1
  THEN p.bf_base[a - p.bf_offset]
  ELSE IF a < d.size THEN d.data[a] ELSE Zero

Content == [a \in Addr |-> IF a \in written THEN View(disk, px["master"], a)
                           ELSE Unset]

(* ncio_px_init2, at creation and when an existing file is opened.         *)
Created == [NoSlave EXCEPT !.bf_offset = 0, !.bf_extent = 2 * blksz, !.pos = 0,
                           !.bf_base = [i \in BufIndex |-> Zero]]
Opened  == [NoSlave EXCEPT !.bf_base = [i \in BufIndex |-> Garbage], !.pos = 0]

(* A new file, grown to initialsz, or a file with something in it.         *)
Init ==
  /\ st = "ok" /\ moving = NotMoving /\ floor = NoFloor
  /\ \E start \in Starts :
       /\ left = start.left
       /\ \/ /\ px = [w \in Buffers |-> IF w = "master" THEN Created ELSE NoSlave]
             /\ written = {} /\ start.mark = Size
             /\ disk = [data |-> [a \in Addr |-> Zero], size |-> start.size,
                        fd |-> 0]
          \/ /\ px = [w \in Buffers |-> IF w = "master" THEN Opened ELSE NoSlave]
             /\ disk = [data |-> [a \in Addr |-> IF a >= start.size THEN Zero
                                                ELSE IF a = start.mark THEN Mark
                                                ELSE Plain],
                        size |-> start.size, fd |-> 0]
             /\ written = 0 .. start.size - 1

Idle == st # "assert" /\ moving = NotMoving

(* A call is over.  Where the descriptor is only matters when a buffer is  *)
(* wrong about it: an agreed position is kept as 0.                        *)
Becomes(s) ==
  /\ disk' = IF Astray(s, "master") THEN s.disk ELSE [s.disk EXCEPT !.fd = 0]
  /\ px' = [w \in Buffers |->
              IF (w = "master" /\ Astray(s, w)) \/ s.px[w] = NoSlave
              THEN s.px[w]
              ELSE [s.px[w] EXCEPT !.pos = 0]]
  /\ st' = s.st

(* A client gets a region, changes its first m bytes and releases it.      *)
Write(o, n, m, v) ==
  /\ Idle
  /\ left[v] > 0
  /\ left' = [left EXCEPT ![v] = @ - 1]
  /\ \E s \in ncio_px_get(o, n, TRUE) :
       IF s.st # "ok" THEN Becomes(s) /\ UNCHANGED written
       ELSE /\ Becomes(px_rel(Changed(s,
                 [i \in BufIndex |-> IF i \in s.diff .. s.diff + m - 1 THEN v
                                     ELSE s.px["master"].bf_base[i]]), "master", TRUE))
            /\ written' = written \cup (o .. o + m - 1)
  /\ floor' = NoFloor
  /\ UNCHANGED moving

Read(o, n) ==
  /\ Idle
  /\ \E s \in ncio_px_get(o, n, FALSE) :
       Becomes(IF s.st = "ok" THEN px_rel(s, "master", FALSE) ELSE s)
  /\ floor' = NoFloor
  /\ UNCHANGED <<moving, written, left>>

(* The bytes that count as written after n bytes have moved, and what they *)
(* must be then.                                                           *)
MovedWritten(to, from, n) ==
  (written \ (to .. to + n - 1)) \cup
  {a \in to .. to + n - 1 : a - to + from \in written}
Moved(to, from, n) ==
  [a \in Addr |-> IF a \in to .. to + n - 1 THEN Content[a - to + from]
                  ELSE Content[a]]

(* nc3internal.c makes room only: each move is up, the last variable is    *)
(* moved first, and nothing is got between two moves.  The records of an   *)
(* only record variable are not padded but are moved with the padded       *)
(* length, so a source may reach into the source of the move before by the *)
(* padding, yet not into what that move wrote.                             *)
Allowed(to, from, n) ==
  /\ left.move > 0
  /\ left' = [left EXCEPT !.move = @ - 1]
  /\ to > from
  /\ HasSlave => from + n <= floor
NextFloor(to, from) == MinOf(from + Pad, to)

(* Within a block: get the region that covers both, memmove, release.      *)
MoveSmall(to, from, n) ==
  LET lower  == MinOf(to, from)
      diff   == MaxOf(to, from) - lower
      extent == diff + n
  IN
  /\ Idle /\ to # from /\ extent <= blksz /\ Allowed(to, from, n)
  /\ \E s \in px_get(Now, "master", lower, extent, TRUE) :
       IF s.st # "ok" THEN Becomes(s) /\ UNCHANGED written
       ELSE
         LET dst == s.diff + to - lower
             src == s.diff + from - lower IN
         /\ Becomes(px_rel(Changed(s,
              [i \in BufIndex |-> IF i \in dst .. dst + n - 1
                                  THEN s.px["master"].bf_base[i - dst + src]
                                  ELSE s.px["master"].bf_base[i]]), "master", TRUE))
         /\ written' = MovedWritten(to, from, n)
  /\ floor' = IF HasSlave THEN NextFloor(to, from) ELSE NoFloor
  /\ UNCHANGED moving

MoveBegin(to, from, n) ==
  /\ Idle /\ to # from /\ MaxOf(to, from) - MinOf(to, from) + n > blksz
  /\ Allowed(to, from, n)
  /\ moving' = [remaining |-> n, to |-> to, from |-> from, n |-> n,
                goal |-> Moved(to, from, n)]
  /\ written' = MovedWritten(to, from, n)
  /\ floor' = NextFloor(to, from)
  /\ UNCHANGED <<disk, px, st>>

(* The two buffers share the descriptor: the master takes over the position *)
(* that the slave's read left it at.  The bug leaves it where it was.      *)
PositionSynced_not(s) == s
PositionSynced(s) ==
  Page(s, "master", [s.px["master"] EXCEPT !.pos = s.px["slave"].pos])

(* The slave keeps its page, or starts as a copy of the master.            *)
StartSlave(s) ==
  LET p == s.px["master"] IN
  Page(s, "slave",
    IF HasSlave THEN [s.px["slave"] EXCEPT !.pos = p.pos]
    ELSE [p EXCEPT !.bf_base = [i \in BufIndex |-> IF i < p.bf_extent
                                  THEN p.bf_base[i] ELSE Garbage],
                   !.bf_write = FALSE, !.bf_modified = FALSE, !.bf_refcount = 0])

(* px_double_buffer: both regions at once, the source in the slave.  On an *)
(* error the master's region stays in use.                                 *)
px_double_buffer(to, from, n) ==
  LET Slave(s) == {StartSlave(s)}
      Copied(s, dst, src) ==
        px_rel(px_rel(Changed(PositionSynced(s),
          [i \in BufIndex |-> IF i \in dst .. dst + n - 1
                              THEN s.px["slave"].bf_base[i - dst + src]
                              ELSE s.px["master"].bf_base[i]]),
          "slave", FALSE), "master", TRUE)
      Source(s) ==
        {IF t.st = "ok" THEN Copied(t, s.diff, t.diff) ELSE t :
         t \in px_get(s, "slave", from, n, FALSE)}
  IN Then(Then(px_get(Now, "master", to, n, TRUE), Slave), Source)

(* One turn of the loop of ncio_px_move: from the top when growing, from   *)
(* the bottom when shrinking.                                              *)
MoveStep ==
  /\ st # "assert" /\ moving # NotMoving
  /\ LET m      == moving
         loop   == MinOf(m.remaining, blksz)
         offset == IF m.to > m.from THEN m.remaining - loop
                   ELSE m.n - m.remaining
     IN \E s \in px_double_buffer(m.to + offset, m.from + offset, loop) :
          /\ Becomes(s)
          /\ moving' = IF s.st = "ok" /\ m.remaining > loop
                       THEN [m EXCEPT !.remaining = @ - loop] ELSE NotMoving
  /\ UNCHANGED <<floor, written, left>>

(* Bug: only one block is written back.                                    *)
Synced_block ==
  LET p == px["master"] IN
  IF p.bf_modified
  THEN {Clean(s, "master") :
        s \in Flush(Now, "master", p.bf_offset, MinOf(p.bf_cnt, blksz), 0)}
  ELSE {Now}

(* The outcomes of ncio_px_sync.  A buffer that was never asked for        *)
(* writing is given up, so that the next get reads the file.               *)
Synced ==
  LET p == px["master"] IN
  IF p.bf_modified THEN Saved(Now, "master")
  ELSE IF p.bf_write THEN {Now}
  ELSE {Page(Now, "master", [p EXCEPT !.bf_offset = OFF_NONE, !.bf_cnt = 0])}

ncio_px_sync ==
  /\ Idle
  /\ \E s \in Synced : Becomes(s)
  /\ UNCHANGED <<moving, floor, written, left>>

(* ncio_px_pad_length: sync, then fgrow2 writes a zero as the last byte    *)
(* and puts the descriptor back.                                           *)
ncio_px_pad_length(length) ==
  {IF s.st = "ok" THEN With(s, "master", [s.disk EXCEPT !.size = MaxOf(@, length)],
                            s.px["master"])
   ELSE s : s \in Synced}

(* NC3_close pads the file to the length it should have, as the last thing *)
(* before ncio_px_close, which syncs again; then posixio_open opens the    *)
(* file.  What a failed sync did not write is lost.                        *)
CloseAndOpen(length) ==
  /\ Idle
  /\ \E s \in IF length = 0 THEN Synced ELSE ncio_px_pad_length(length) :
       IF s.st = "assert" THEN Becomes(s)
       ELSE /\ disk' = [s.disk EXCEPT !.fd = 0]
            /\ px' = [w \in Buffers |->
                        IF w = "master" THEN Opened ELSE NoSlave]
            /\ st' = s.st
  /\ floor' = NoFloor
  /\ UNCHANGED <<moving, written, left>>

Fits(o, n) == n <= MaxExtent /\ o + n <= Size

Next ==
  \/ \E o \in Addr, n \in 1 .. MaxExtent :
       /\ Fits(o, n)
       /\ Read(o, n) \/ \E m \in 1 .. n, v \in {Plain, Mark} : Write(o, n, m, v)
  \/ \E to, from \in Addr, n \in MoveLengths :
       /\ to + n <= Size /\ from + n <= Size
       /\ MoveSmall(to, from, n) \/ MoveBegin(to, from, n)
  \/ MoveStep
  \/ ncio_px_sync
  \/ \E length \in 0 .. Size : CloseAndOpen(length)

Spec == Init /\ [][Next]_vars

-----------------------------------------------------------------------------
(* The structure of a buffer.                                              *)
BufferOK(p) ==
  /\ p.bf_offset # OFF_NONE =>
       p.bf_offset \in Addr /\ p.bf_offset % blksz = 0
  /\ p.bf_extent \in {0, blksz, 2 * blksz}
  /\ p.bf_cnt \in 0 .. p.bf_extent
  /\ p.bf_base \in [BufIndex -> Bytes]
  /\ p.bf_write \in BOOLEAN /\ p.bf_modified \in BOOLEAN
  /\ p.bf_refcount \in Nat
  /\ p.pos \in Nat \cup {OFF_NONE}

TypeOK ==
  /\ disk.data \in [Addr -> Bytes] /\ disk.size \in 0 .. Size
  /\ disk.fd \in Nat
  /\ BufferOK(px["master"]) /\ (HasSlave => BufferOK(px["slave"]))
  /\ st \in {"ok", "err", "assert"}
  /\ moving.remaining \in 0 .. Size
  /\ written \subseteq Addr

(* The buffer and the file together are one memory of bytes: no get, flush *)
(* or shift of the buffer changes what a client has written, a move        *)
(* changes its target as memmove would, and after ncio_px_close the file   *)
(* holds what was written.                                                 *)
AbstractFile == INSTANCE ByteFile WITH
  content <- IF moving = NotMoving THEN Content ELSE moving.goal
IsByteFile == AbstractFile!Spec

(* The pointer that ncio_px_get returns is to the bytes of the region that *)
(* was asked for, whichever way the buffer has to be shifted for it.       *)
GetReturnsContent ==
  Idle => \A o \in Addr, n \in 1 .. MaxExtent : Fits(o, n) =>
    \A s \in ncio_px_get(o, n, FALSE) : s.st = "ok" =>
      \A a \in (o .. o + n - 1) \cap written :
        s.px["master"].bf_base[a - o + s.diff] = View(disk, px["master"], a)

(* A buffer that is not modified holds what the file holds, so that        *)
(* giving it up loses nothing (posixio.c: "bf_offset - file offset         *)
(* corresponding to start of memory buffer").                              *)
CleanMirrorsFile ==
  Idle => \A i \in BufIndex :
    LET p == px["master"] IN
    /\ ~p.bf_modified /\ p.bf_offset # OFF_NONE
    /\ i < p.bf_cnt /\ p.bf_offset + i \in written
    => p.bf_base[i] = disk.data[p.bf_offset + i]

(* No assertion fails: a region is released before its page is written     *)
(* out, and *posp is where the descriptor is.                              *)
NoAssertFails == st # "assert"
=============================================================================
