----------------------------- MODULE NCHashMap -----------------------------
(* The hash map of names, nchashmap.c: open addressing with linear probing *)
(* in a table of prime size, from which an entry is taken by marking its   *)
(* slot DELETED.  A table that is three quarters full is rehashed into one *)
(* of at least twice the size, the size being looked for in NC_primes.     *)
(*                                                                         *)
(* The operators are the functions that look at or change a table.  Adding *)
(* an entry may search a prime and rehash, both of which are loops; they   *)
(* are the actions of this module, and a call in progress is a state.      *)
(* The CRC of a name is a constant function: keys are compared by name,    *)
(* which is what comparing CRC, length and characters amounts to.          *)
EXTENDS Naturals, Sequences, FiniteSets, FiniteSetsExt

CONSTANTS
  Names,
  NoName,      (* the key of a slot without one                            *)
  HashKey,     (* NC_crc32 of each name                                    *)
  Primes,      (* NC_primes, from 0: a 0, the primes, a trailing flag      *)
  MinTableSize

ASSUME HashAssumption ==
  /\ NoName \notin Names
  /\ HashKey \in [Names -> Nat]
  /\ MinTableSize \in Nat \ {0}
  /\ IsFiniteSet(DOMAIN Primes) /\ Cardinality(DOMAIN Primes) >= 4
  /\ DOMAIN Primes = 0 .. Cardinality(DOMAIN Primes) - 1
  /\ \A i \in DOMAIN Primes : Primes[i] \in Nat
  /\ Primes[0] = 0
  /\ \A i, j \in DOMAIN Primes : i < j => Primes[i] < Primes[j]

VARIABLES
  map,    (* the NC_hashmap                                                *)
  search, (* L, R and v of findPrimeGreaterThan, while it runs             *)
  old,    (* the table that rehash empties, and how much of it is left     *)
  todo    (* the entries that the operation in progress still adds         *)

mapvars == <<map, search, old, todo>>

Slots(m)   == 0 .. m.alloc - 1
EmptySlot  == [flags |-> "EMPTY", key |-> NoName, data |-> 0]
(* data and hashkey stay in a deleted slot; nothing reads them             *)
Deleted    == [flags |-> "DELETED", key |-> NoName, data |-> 0]
Fresh(n)   == [alloc |-> n, active |-> 0, table |-> [i \in 0 .. n - 1 |-> EmptySlot]]
Active(m)  == {i \in Slots(m) : m.table[i].flags = "ACTIVE"}
NoSearch   == [L |-> 0, R |-> 0, v |-> 0]
NoTable    == [table |-> <<>>, left |-> 0, active |-> 0]
Returned   == todo = <<>> /\ search = NoSearch /\ old = NoTable

(* The slot where a name is or should be placed, alloc if there is none.   *)
Probe(m, name, i) == (HashKey[name] + i) % m.alloc

locate(m, name, deletedok) ==
  LET slot(i) == m.table[Probe(m, name, i)]
      stops   == {i \in Slots(m) : slot(i).flags = "EMPTY" \/ slot(i).key = name}
      deleted == {i \in Slots(m) : slot(i).flags = "DELETED"}
  IN CASE stops # {} -> Probe(m, name, Min(stops))
       [] stops = {} /\ deletedok /\ deleted # {} -> Probe(m, name, Min(deleted))
       [] OTHER -> m.alloc

Has(m, name) ==
  LET at == locate(m, name, FALSE) IN at # m.alloc /\ m.table[at].flags = "ACTIVE"

(* The data of a name; only asked for when Has holds.                      *)
NC_hashmapget(m, name) == m.table[locate(m, name, FALSE)].data

(* A bug to catch: a new entry is not counted.                             *)
Placed_uncounted(m, name, data) ==
  [m EXCEPT !.table[locate(m, name, TRUE)] =
              [flags |-> "ACTIVE", key |-> name, data |-> data]]

(* NC_hashmapadd once there is room: a new entry, or new data.             *)
Placed(m, name, data) ==
  LET at == locate(m, name, TRUE) IN
  [m EXCEPT !.table[at] = [flags |-> "ACTIVE", key |-> name, data |-> data],
            !.active = IF m.table[at].flags = "ACTIVE" THEN @ ELSE @ + 1]

(* A bug to catch: a removed entry ends the search for other keys.         *)
Cleared_empty(m, at) == [m EXCEPT !.table[at] = EmptySlot, !.active = @ - 1]

Cleared(m, at) == [m EXCEPT !.table[at] = Deleted, !.active = @ - 1]

NC_hashmapremove(m, name) ==
  IF Has(m, name) THEN Cleared(m, locate(m, name, FALSE)) ELSE m

(* Clears the first slot with that data, if any.                           *)
NC_hashmapdeactivate(m, data) ==
  LET with == {i \in Active(m) : m.table[i].data = data}
  IN IF with = {} THEN m ELSE Cleared(m, Min(with))

-----------------------------------------------------------------------------
(* Sizes *)

(* A bug to catch: the ends of the search are exchanged.                   *)
Search_swapped(val) == [L |-> Cardinality(DOMAIN Primes) - 2, R |-> 1, v |-> val]

(* findPrimeGreaterThan begins                                             *)
Search(val) == [L |-> 1, R |-> Cardinality(DOMAIN Primes) - 2, v |-> val]

(* NC_hashmapnew, in place of the map that is freed before                 *)
New(startsize) ==
  /\ old' = NoTable
  /\ IF startsize < MinTableSize
     THEN map' = Fresh(MinTableSize) /\ search' = NoSearch
     ELSE map' = Fresh(0) /\ search' = Search((startsize * 4) \div 3)

Middle == (search.L + search.R) \div 2

findPrimeGreaterThan_found ==
  /\ search # NoSearch
  /\ Primes[Middle - 1] < search.v /\ search.v <= Primes[Middle]
  /\ map' = Fresh(Primes[Middle])
  /\ search' = NoSearch
  /\ UNCHANGED <<old, todo>>

(* L < R holds throughout: R comes down to L for a value of 0 only.        *)
findPrimeGreaterThan_lower ==
  /\ search # NoSearch
  /\ search.v <= Primes[Middle - 1]
  /\ search' = [search EXCEPT !.R = Middle]
  /\ UNCHANGED <<map, old, todo>>

(* When L and R are neighbours this changes nothing, for ever.             *)
findPrimeGreaterThan_upper ==
  /\ search # NoSearch
  /\ Primes[Middle] < search.v
  /\ search' = [search EXCEPT !.L = Middle]
  /\ UNCHANGED <<map, old, todo>>

-----------------------------------------------------------------------------
(* Adding *)

Adding  == todo # <<>> /\ search = NoSearch /\ old = NoTable
Full(m) == (m.alloc * 3) \div 4 <= m.active
HasRoom == ~Full(map) /\ locate(map, Head(todo).key, TRUE) # map.alloc

(* rehash begins                                                           *)
NC_hashmapadd_grow ==
  /\ Adding
  /\ ~HasRoom
  /\ search' = Search(2 * map.alloc)
  /\ old' = [table |-> map.table, left |-> map.alloc, active |-> map.active]
  /\ UNCHANGED <<map, todo>>

(* One turn of rehash's loop.  The table is at least twice as large as the *)
(* old one was, so the inner NC_hashmapadd finds room.                     *)
rehash ==
  /\ old.left > 0 /\ search = NoSearch
  /\ LET e == old.table[old.left - 1]
     IN map' = IF e.flags = "ACTIVE" THEN Placed(map, e.key, e.data) ELSE map
  /\ old' = [old EXCEPT !.left = @ - 1]
  /\ UNCHANGED <<search, todo>>

rehash_ends ==
  /\ old # NoTable /\ old.left = 0 /\ search = NoSearch
  /\ old' = NoTable
  /\ UNCHANGED <<map, search, todo>>

NC_hashmapadd ==
  /\ Adding
  /\ HasRoom
  /\ map' = Placed(map, Head(todo).key, Head(todo).data)
  /\ todo' = Tail(todo)
  /\ UNCHANGED <<search, old>>

Steps ==
  \/ findPrimeGreaterThan_found
  \/ findPrimeGreaterThan_lower
  \/ findPrimeGreaterThan_upper
  \/ NC_hashmapadd_grow
  \/ rehash
  \/ rehash_ends
  \/ NC_hashmapadd
=============================================================================
