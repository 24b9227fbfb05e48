------------------------------ MODULE NCIndex -------------------------------
(* Lists of named objects with a hash map beside them, and the operations  *)
(* that change them: NCindex (ncindex.c), which keeps the attributes,      *)
(* dimensions, variables, types and groups of netCDF-4, and the arrays of  *)
(* dimensions and variables of the classic format (dim.c, var.c).  The map *)
(* takes a name to the object's place in the list, so it has to follow     *)
(* every change of the names and of the places.                            *)
(*                                                                         *)
(* An object is its name and its id.  Places count from 0 in the map as in *)
(* the code, from 1 in the sequence.                                       *)
EXTENDS NCHashMap, SequencesExt

CONSTANTS
  MaxObjects  (* bound: objects in the list                                 *)

ASSUME BoundAssumption == MaxObjects \in Nat

VARIABLES
  list, (* the objects                                                       *)
  kind  (* which of the two lists this is                                    *)

vars == <<map, search, old, todo, list, kind>>

NameAt(l) == [i \in DOMAIN l |-> l[i].name]
Object(name, id) == [name |-> name, id |-> id]

(* ncindexlookup, NC_finddim: the place of the object, 0 if there is none. *)
(* NC_hashmapget does not look into a table without active entries.        *)
Lookup(name) ==
  IF map.active # 0 /\ Has(map, name) /\ NC_hashmapget(map, name) < Len(list)
  THEN NC_hashmapget(map, name) + 1
  ELSE 0

(* The calls of NC_hashmapadd that enter all of l, one after the other     *)
Entries(l) == [i \in DOMAIN l |-> [key |-> l[i].name, data |-> i - 1]]

(* ncindexadd, incr_NC_dimarray, incr_NC_vararray                          *)
Add(object) ==
  /\ Len(list) < MaxObjects
  /\ todo' = <<[key |-> object.name, data |-> Len(list)]>>
  /\ list' = Append(list, object)
  /\ UNCHANGED <<map, search, old>>

(* ncindexrebuild, with the list as it is then                             *)
Rebuild(l) ==
  /\ list' = l
  /\ todo' = Entries(l)
  /\ New(Len(l))

-----------------------------------------------------------------------------
(* NCindex *)

(* nc4_att_list_add, nc4_dim_list_add, nc4_var_list_add, called when the   *)
(* name is not in use                                                      *)
list_add(name) ==
  /\ kind = "NCindex" /\ Lookup(name) = 0
  /\ Add(Object(name, Len(list)))

(* NC4_rename_att; NC4_rename_dim and NC4_rename_var do the same           *)
rename(name, newname) ==
  /\ kind = "NCindex" /\ Lookup(newname) = 0 /\ Lookup(name) # 0
  /\ Rebuild([list EXCEPT ![Lookup(name)].name = newname])

(* A bug to catch: the map is not built again.                             *)
del_att_stale(name) ==
  /\ kind = "NCindex" /\ Lookup(name) # 0
  /\ LET id == list[Lookup(name)].id IN
     /\ list' = [i \in 1 .. Len(list) - 1 |->
                  LET a == RemoveAt(list, id + 1)[i]
                  IN [a EXCEPT !.id = IF @ > id THEN @ - 1 ELSE @]]
     /\ map' = NC_hashmapdeactivate(map, id)
  /\ UNCHANGED <<search, old, todo>>

(* NC4_del_att: ncindexidel takes the object out of the list and its entry *)
(* out of the map that the rebuild then replaces.                          *)
del_att(name) ==
  /\ kind = "NCindex" /\ Lookup(name) # 0
  /\ LET id == list[Lookup(name)].id
         l  == RemoveAt(list, id + 1)
     IN Rebuild([i \in DOMAIN l |-> [l[i] EXCEPT !.id = IF @ > id THEN @ - 1 ELSE @]])

(* nc4_var_list_del, nc4_dim_list_del and nc4_att_list_del, when an open   *)
(* gives up the object it has just added: no rebuild.                      *)
list_del ==
  /\ kind = "NCindex" /\ list # <<>>
  /\ list' = Front(list)
  /\ map' = NC_hashmapdeactivate(map, Len(list) - 1)
  /\ UNCHANGED <<search, old, todo>>

-----------------------------------------------------------------------------
(* NC_dimarray and NC_vararray *)

(* NC_finddim and NC_findvar do not look into an empty array               *)
NC_find(name) == IF list = <<>> THEN 0 ELSE Lookup(name)

NC3_def(name) ==
  /\ kind = "NC_dimarray" /\ NC_find(name) = 0
  /\ Add(Object(name, Len(list)))

(* NC3_rename_dim, NC3_rename_var                                          *)
NC3_rename(id, newname) ==
  /\ kind = "NC_dimarray" /\ NC_find(newname) = 0 /\ id < Len(list)
  /\ map' = NC_hashmapremove(map, list[id + 1].name)
  /\ list' = [list EXCEPT ![id + 1].name = newname]
  /\ todo' = <<[key |-> newname, data |-> id]>>
  /\ UNCHANGED <<search, old>>

(* The dataset is closed and opened: v1h_get_NC_dimarray, _NC_vararray     *)
v1h_get ==
  /\ kind = "NC_dimarray"
  /\ Rebuild(list)

-----------------------------------------------------------------------------
Init ==
  /\ map = Fresh(MinTableSize)
  /\ search = NoSearch /\ old = NoTable /\ todo = <<>>
  /\ list = <<>>
  /\ kind \in {"NCindex", "NC_dimarray"}

Client ==
  \/ \E n \in Names : list_add(n) \/ del_att(n) \/ NC3_def(n)
  \/ \E n, new \in Names : rename(n, new)
  \/ \E id \in 0 .. MaxObjects - 1, new \in Names : NC3_rename(id, new)
  \/ list_del
  \/ v1h_get

(* A call runs to its end before the next one                              *)
Next ==
  \/ Returned /\ Client /\ UNCHANGED kind
  \/ Steps /\ UNCHANGED <<list, kind>>

Spec == Init /\ [][Next]_vars

(* A call that was made keeps running; calls need not be made              *)
FairSpec == Spec /\ WF_vars(Steps /\ UNCHANGED <<list, kind>>)

-----------------------------------------------------------------------------
Entry == [flags : {"EMPTY", "ACTIVE", "DELETED"}, key : Names \cup {NoName}, data : Nat]

(* hm->active is the number of active slots, and together with what rehash *)
(* has not moved yet it is what the old table had: the assertion at the    *)
(* end of rehash.                                                          *)
CountExact ==
  /\ map.active = Cardinality(Active(map))
  /\ old # NoTable /\ search = NoSearch =>
       old.active = map.active + Cardinality({i \in 0 .. old.left - 1 :
                                                old.table[i].flags = "ACTIVE"})

(* Types; a binary search that runs has L below R within the table.        *)
TypeOK ==
  /\ map \in [alloc : Nat, active : Nat, table : [Slots(map) -> Entry]]
  /\ search # NoSearch =>
       /\ search.L \in 1 .. search.R - 1 /\ search.R \in DOMAIN Primes
       /\ search.v \in Nat \ {0}
  /\ old.left \in 0 .. Cardinality(DOMAIN old.table)
  /\ list \in Seq([name : Names, id : Nat])
  /\ todo \in Seq([key : Names, data : Nat])
  /\ kind \in {"NCindex", "NC_dimarray"}
  /\ CountExact

(* Whatever was added, deleted and rehashed before, probing for the key of *)
(* an active slot (nchashmap.c, locate) ends in this slot: no empty slot   *)
(* and no other slot with that key comes first.                            *)
ProbesReach ==
  \A i \in Active(map) : \A ok \in BOOLEAN : locate(map, map.table[i].key, ok) = i

(* Between calls every object is found by its name, in the place where it  *)
(* is and with an id that says so, and no other name is found: neither the *)
(* name of a deleted object nor one that was renamed away.                 *)
LookupRight ==
  /\ ProbesReach
  /\ Returned => \A n \in Names :
       IF n \in ToSet(NameAt(list))
       THEN /\ Lookup(n) # 0
            /\ list[Lookup(n)] = Object(n, Lookup(n) - 1)
       ELSE ~Has(map, n)

(* A call that adds to the map returns: the search for a prime and the     *)
(* rehashing end.                                                          *)
CallReturns == ~Returned ~> Returned

(* The list is what its users rely on.                                     *)
IsNameList == INSTANCE NameList WITH names <- NameAt(list)
Refines == IsNameList!Spec
=============================================================================
