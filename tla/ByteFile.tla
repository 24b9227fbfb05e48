------------------------------ MODULE ByteFile -----------------------------
(* What the ncio interface (ncio.h) promises the classic-format code above *)
(* it: a file is a memory of bytes.  A write changes the bytes it was      *)
(* given, a move copies a region like memmove, and nothing else changes    *)
(* what the memory holds: flushing, paging, reading and closing and        *)
(* opening the file again do not show.  A byte that no one has written has *)
(* no defined value.                                                       *)
EXTENDS Naturals

CONSTANTS
  Size,  (* the addresses a file may have are 0 .. Size - 1                *)
  Bytes, (* the values of a byte                                           *)
  Unset

Addr    == 0 .. Size - 1
Lengths == 1 .. Size

VARIABLE content (* the bytes, Unset where nothing was ever written           *)

Init == content \in [Addr -> Bytes \cup {Unset}]

Write(o, n, v) ==
  /\ o + n - 1 \in Addr
  /\ content' = [a \in Addr |-> IF a \in o .. o + n - 1 THEN v ELSE content[a]]

Move(to, from, n) ==
  /\ {to + n - 1, from + n - 1} \subseteq Addr
  /\ content' = [a \in Addr |-> IF a \in to .. to + n - 1
                                THEN content[(a + from) - to] ELSE content[a]]

Next ==
  \/ \E o \in Addr, n \in Lengths, v \in Bytes : Write(o, n, v)
  \/ \E to, from \in Addr, n \in Lengths : Move(to, from, n)

Spec == Init /\ [][Next]_content
=============================================================================
